----------------------------- MODULE ClientStore -----------------------------
(***************************************************************************)
(* The encrypted client store (client/store.go, EncryptedDiskStore): open, *)
(* Put, Delete, PruneTo, SetLimit, Close and the pruning they share.       *)
(*                                                                         *)
(* A record is a version: its kind, policy, times and the charge of its    *)
(* sealed file.  Ids are numbers, as sort.Slice compares them.  A section  *)
(* under store.mu is cut only at the file operations a crash can fall      *)
(* between: the removals of a prune, its fsync, the rename, its fsync.     *)
(***************************************************************************)
EXTENDS Naturals, FiniteSets

CONSTANTS
  Ids, Versions,     \* record ids; the versions that Put may be given
  Limits,            \* byte limits for open and SetLimit
  Targets,           \* arguments of PruneTo
  MaxClientStoreRecords,
  MaxTime,           \* bound on the clock
  MaxFutureSkew,     \* validateLocalRecord's five minutes
  Absent,            \* no record, no section
  Faults, MaxSlips   \* failures that happen; bound on lost fsyncs

Policies == {"never", "oldest", "after_expiry"}
Kinds == {"delivery", "inbox", "outbox", "file_cache", "replay", "group_state",
          "device_event", "reputation"}

(* What an operation knows while it holds the lock. *)
Sections ==
  [op : {"put", "delete", "prune", "limit", "load"}, id : Ids \cup {0}, rec : Versions \cup {Absent},
   bytes : Nat, records : Nat, stage : {"pruneSync", "pruned", "putSync", "deleteSync"}]

ASSUME IdsAreOrdered == Ids \subseteq Nat \ {0} /\ IsFiniteSet(Ids)
ASSUME VersionsTyped ==
  Versions \subseteq [kind : Kinds, policy : Policies, created : Nat, expires : Nat, charge : Nat \ {0}]
ASSUME LimitsTyped == /\ Limits \subseteq Nat \ {0} /\ Limits # {} /\ Targets \subseteq Nat
                      /\ MaxClientStoreRecords \in Nat \ {0} /\ MaxSlips \in Nat
ASSUME AbsentApart == Absent \notin Versions /\ Absent \notin Sections
ASSUME ClientFaultsKnown ==
  Faults \subseteq {"processCrash", "powerLoss", "syncFails", "writeFails", "removeFails", "cancel"}

VARIABLES
  entries, used, maxBytes,   \* the index in memory
  status,                    \* "down", "loading" or "open"
  unread,                    \* record files that open has still to read
  section,                   \* the operation that holds the lock, or Absent
  disk,                      \* the record file of each id
  maybe,                     \* what each file may be after a power loss
  now,                       \* the clock
  slips,                     \* history: fsyncs that failed or were cut off by a kill
  kept                       \* history: protected records put with success

index == <<entries, used, maxBytes>>
vars == <<index, status, unread, section, disk, maybe, slips, now, kept>>

Empty == [id \in Ids |-> Absent]
Held == {id \in Ids : entries[id] # Absent}

(* The bytes charged for the records S, counted one by one. *)
Units(files, S) == UNION {{id} \X (1..files[id].charge) : id \in S}
Charge(files, S) == Cardinality(Units(files, S))

Init ==
  /\ entries = Empty /\ used = 0 /\ maxBytes = 0
  /\ status = "down" /\ unread = {} /\ section = Absent
  /\ disk = Empty /\ maybe = [id \in Ids |-> {Absent}]
  /\ slips = 0 /\ now = 0 /\ kept = Empty

Tick == now < MaxTime /\ now' = now + 1 /\ UNCHANGED <<index, status, unread, section, disk, maybe, slips, kept>>

-----------------------------------------------------------------------------
(* Validation *)

AllowedPolicies(v) ==
  CASE v.kind = "delivery" -> {"after_expiry"}
    [] v.kind \in {"outbox", "replay", "device_event"} -> {"never", "after_expiry"}
    [] v.kind = "group_state" -> IF v.expires = 0 THEN {"never"} ELSE {}
    [] v.kind = "inbox" -> Policies
    [] v.kind \in {"file_cache", "reputation"} -> {"oldest"}

(* An expiry of zero is the zero time: the record does not expire. *)
Valid(v) ==
  /\ v.created <= now + MaxFutureSkew
  /\ v.expires # 0 => v.expires > v.created
  /\ v.policy = "after_expiry" => v.expires # 0
  /\ v.policy \in AllowedPolicies(v)

Expired(v) == v.expires # 0 /\ v.expires <= now

-----------------------------------------------------------------------------
(* pruneToLocked *)

(* Mutant: only PruneNever protects. *)
PrunableUnlessNever(v) == Expired(v) \/ v.policy # "never"

Prunable(v) == Expired(v) \/ v.policy = "oldest"

(* Mutant: age alone decides. *)
PruneBeforeByAge(a, b) ==
  IF entries[a].created = entries[b].created THEN a < b
  ELSE entries[a].created < entries[b].created

PruneBefore(a, b) ==
  IF Expired(entries[a]) # Expired(entries[b]) THEN Expired(entries[a])
  ELSE IF entries[a].created = entries[b].created THEN a < b
  ELSE entries[a].created < entries[b].created

Candidates(exclude) == {id \in Held \ {exclude} : Prunable(entries[id])}

(* How many of the candidates C are sorted before id. *)
Place(id, C) == Cardinality({other \in C : PruneBefore(other, id)})

(* The first n of the sorted candidates. *)
First(C, n) == {id \in C : Place(id, C) < n}

(* Removing the records S brings the store within the two targets. *)
Suffices(S, bytes, records) ==
  used <= bytes + Charge(entries, S) /\ Cardinality(Held) <= records + Cardinality(S)

(* Mutant: the error of a prune that finds too little is not looked at. *)
PruneFullIgnored(C, bytes, records) == FALSE

(* Not even all candidates are enough: ErrClientStorageFull. *)
PruneFull(C, bytes, records) == ~Suffices(C, bytes, records)

(* The loop adds candidates one by one, up to the n-th at least. *)
PruneGoesOn(C, n, bytes, records) == \A m \in 0..(n - 1) : ~Suffices(First(C, m), bytes, records)

(* It ends with the n-th: they are enough, or there are no more. *)
PruneStops(C, n, bytes, records) ==
  /\ PruneGoesOn(C, n, bytes, records)
  /\ Suffices(First(C, n), bytes, records) \/ n = Cardinality(C)

(* Mutant: a removal that fails goes unnoticed. *)
RemoveFilesUnchecked(S) == UNCHANGED <<disk, maybe>>

RemoveFiles(S) ==
  /\ disk' = [id \in Ids |-> IF id \in S THEN Absent ELSE disk[id]]
  /\ maybe' = [id \in Ids |-> IF id \in S THEN maybe[id] \cup {Absent} ELSE maybe[id]]

UsedWithout(S) == used - Charge(entries, S)

(* deleteMetaLocked, for each record of S *)
DeleteMeta(S) ==
  /\ RemoveFiles(S)
  /\ entries' = [id \in Ids |-> IF id \in S THEN Absent ELSE entries[id]]
  /\ used' = UsedWithout(S)

(* Everything chosen goes; the operation continues after an fsync if       *)
(* anything went.                                                          *)
Prune(op, exclude, rec, bytes, records) ==
  LET C == Candidates(exclude) IN
  /\ ~PruneFull(C, bytes, records)
  /\ \E n \in 0..Cardinality(C) :
       /\ PruneStops(C, n, bytes, records)
       /\ DeleteMeta(First(C, n))
       /\ section' = [op |-> op, id |-> exclude, rec |-> rec, bytes |-> bytes, records |-> records,
                      stage |-> IF n = 0 THEN "pruned" ELSE "pruneSync"]

(* The records that are gone when a removal fails or the context is done   *)
(* in the middle.                                                          *)
PartialPrunes(exclude, bytes, records) ==
  LET C == Candidates(exclude) IN
  {First(C, k) : k \in {k \in 1..Cardinality(C) :
                          /\ {"removeFails", "cancel"} \cap Faults # {}
                          /\ ~PruneFull(C, bytes, records) /\ PruneGoesOn(C, k + 1, bytes, records)}}

(* Prune for an operation of an open store, which returns if it stops.     *)
PruneFor(op, exclude, rec, bytes, records) ==
  \/ Prune(op, exclude, rec, bytes, records)
  \/ \E S \in PartialPrunes(exclude, bytes, records) : DeleteMeta(S) /\ UNCHANGED section

Sync == maybe' = [id \in Ids |-> {disk[id]}]

(* syncClientDirectory fails: the operation returns its error. *)
SyncFails ==
  /\ "syncFails" \in Faults /\ slips < MaxSlips /\ slips' = slips + 1
  /\ section # Absent /\ section.stage \in {"pruneSync", "putSync", "deleteSync"}
  /\ section' = Absent
  /\ IF section.op = "load" THEN status' = "down" /\ entries' = Empty /\ used' = 0 /\ unread' = {}
                            ELSE UNCHANGED <<status, entries, used, unread>>
  /\ UNCHANGED <<maxBytes, disk, maybe, now, kept>>

PruneSync ==
  /\ section # Absent /\ section.stage = "pruneSync"
  /\ Sync
  /\ section' = [section EXCEPT !.stage = "pruned"]
  /\ UNCHANGED <<index, status, unread, disk, slips, now, kept>>

-----------------------------------------------------------------------------
(* The operations *)

Ready == status = "open" /\ section = Absent

(* The room Put asks for: the limit, less the new file, plus the old one.  *)
PutTarget(id, v) == maxBytes + (IF id \in Held THEN entries[id].charge ELSE 0) - v.charge

Put(id, v) ==
  /\ Ready /\ Valid(v)
  /\ maxBytes + (IF id \in Held THEN entries[id].charge ELSE 0) >= v.charge
  /\ PruneFor("put", id, v, PutTarget(id, v), MaxClientStoreRecords - (IF id \in Held THEN 0 ELSE 1))
  /\ UNCHANGED <<maxBytes, status, unread, slips, now, kept>>

(* writeClientPrivateAtomic up to the rename. *)
PutRename ==
  /\ section # Absent /\ section.op = "put" /\ section.stage = "pruned"
  /\ \/ /\ disk' = [disk EXCEPT ![section.id] = section.rec]
        /\ maybe' = [maybe EXCEPT ![section.id] = @ \cup {section.rec}]
        /\ kept' = [kept EXCEPT ![section.id] = Absent]
        /\ section' = [section EXCEPT !.stage = "putSync"]
     \/ "writeFails" \in Faults /\ section' = Absent /\ UNCHANGED <<disk, maybe, kept>>
  /\ UNCHANGED <<index, status, unread, slips, now>>

(* Mutant: an overwritten record's charge is not given back. *)
UsedAfterPutTwice(id, v) == used + v.charge

UsedAfterPut(id, v) == used + v.charge - (IF id \in Held THEN entries[id].charge ELSE 0)

PutSync ==
  /\ section # Absent /\ section.stage = "putSync"
  /\ Sync
  /\ used' = UsedAfterPut(section.id, section.rec)
  /\ entries' = [entries EXCEPT ![section.id] = section.rec]
  /\ kept' = [kept EXCEPT ![section.id] = IF section.rec.policy = "oldest" THEN Absent ELSE section.rec]
  /\ section' = Absent
  /\ UNCHANGED <<maxBytes, status, unread, disk, slips, now>>

Delete(id) ==
  /\ Ready /\ id \in Held
  /\ DeleteMeta({id})
  /\ kept' = [kept EXCEPT ![id] = Absent]
  /\ section' = [op |-> "delete", id |-> id, rec |-> Absent, bytes |-> 0, records |-> 0,
                 stage |-> "deleteSync"]
  /\ UNCHANGED <<maxBytes, status, unread, slips, now>>

DeleteSync ==
  /\ section # Absent /\ section.stage = "deleteSync"
  /\ Sync /\ section' = Absent
  /\ UNCHANGED <<index, status, unread, disk, slips, now, kept>>

(* PruneTo compares its target with maxBytes before it takes the lock; a   *)
(* SetLimit in between makes the target larger than the limit, so that any *)
(* target may be met here.                                                 *)
PruneTo(bytes) ==
  /\ Ready
  /\ PruneFor("prune", 0, Absent, bytes, MaxClientStoreRecords)
  /\ UNCHANGED <<maxBytes, status, unread, slips, now, kept>>

SetLimit(limit) ==
  /\ Ready /\ limit # maxBytes
  /\ PruneFor("limit", 0, Absent, limit, MaxClientStoreRecords)
  /\ UNCHANGED <<maxBytes, status, unread, slips, now, kept>>

(* PruneTo and SetLimit return; SetLimit puts its limit in force. *)
PruneDone ==
  /\ section # Absent /\ section.op \in {"prune", "limit", "load"} /\ section.stage = "pruned"
  /\ maxBytes' = IF section.op = "limit" THEN section.bytes ELSE maxBytes
  /\ section' = Absent
  /\ UNCHANGED <<entries, used, status, unread, disk, maybe, slips, now, kept>>

-----------------------------------------------------------------------------
(* Open, close and crash *)

Open(limit) ==
  /\ status = "down"
  /\ status' = "loading" /\ maxBytes' = limit
  /\ unread' = {id \in Ids : disk[id] # Absent}
  /\ UNCHANGED <<entries, used, section, disk, maybe, slips, now, kept>>

(* The directory is read in no particular order.  The clock is not set     *)
(* back, so every record that Put found valid still is.                    *)
LoadFile(id) ==
  /\ status = "loading" /\ section = Absent
  /\ used <= maxBytes /\ Cardinality(Held) <= MaxClientStoreRecords
  /\ id \in unread /\ unread' = unread \ {id}
  /\ entries' = [entries EXCEPT ![id] = disk[id]]
  /\ used' = used + disk[id].charge
  /\ UNCHANGED <<maxBytes, status, section, disk, maybe, slips, now, kept>>

Gone ==
  /\ status' = "down" /\ entries' = Empty /\ used' = 0 /\ unread' = {} /\ section' = Absent
  /\ UNCHANGED <<maxBytes, now, kept>>

(* Past the limit, open prunes among the records it has read so far, and   *)
(* fails when they are not enough.                                         *)
LoadPrune ==
  /\ status = "loading" /\ section = Absent
  /\ used > maxBytes \/ Cardinality(Held) > MaxClientStoreRecords
  /\ \/ /\ Prune("load", 0, Absent, maxBytes, MaxClientStoreRecords)
        /\ UNCHANGED <<maxBytes, status, unread, slips, now, kept>>
     \/ /\ "removeFails" \in Faults
        /\ \E S \in PartialPrunes(0, maxBytes, MaxClientStoreRecords) : RemoveFiles(S) /\ Gone /\ UNCHANGED slips
     \/ PruneFull(Candidates(0), maxBytes, MaxClientStoreRecords) /\ Gone /\ UNCHANGED <<disk, maybe, slips>>

LoadDone ==
  /\ status = "loading" /\ section = Absent /\ unread = {}
  /\ used <= maxBytes /\ Cardinality(Held) <= MaxClientStoreRecords
  /\ status' = "open"
  /\ UNCHANGED <<index, unread, section, disk, maybe, slips, now, kept>>

Close == Ready /\ Gone /\ UNCHANGED <<disk, maybe, slips>>

(* Some file could still change in a power loss. *)
Pending == \E id \in Ids : maybe[id] # {disk[id]}

ProcessCrash ==
  /\ "processCrash" \in Faults /\ status # "down" /\ Gone
  /\ Pending => slips < MaxSlips
  /\ slips' = slips + (IF Pending THEN 1 ELSE 0)
  /\ UNCHANGED <<disk, maybe>>

PowerLoss ==
  /\ "powerLoss" \in Faults /\ status # "down" /\ Gone /\ UNCHANGED slips
  /\ disk' \in {d \in [Ids -> UNION {maybe[id] : id \in Ids}] : \A id \in Ids : d[id] \in maybe[id]}
  /\ maybe' = [id \in Ids |-> {disk'[id]}]

-----------------------------------------------------------------------------
Next ==
  \/ Tick
  \/ \E id \in Ids : (\E v \in Versions : Put(id, v)) \/ Delete(id) \/ LoadFile(id)
  \/ PutRename \/ PutSync \/ DeleteSync \/ PruneSync \/ PruneDone \/ SyncFails
  \/ \E bytes \in Targets : PruneTo(bytes)
  \/ \E limit \in Limits : SetLimit(limit) \/ Open(limit)
  \/ LoadPrune \/ LoadDone \/ Close \/ ProcessCrash \/ PowerLoss

Spec == Init /\ [][Next]_vars

-----------------------------------------------------------------------------
(* Properties *)

(* State the store must not give up: not marked PruneOldest, not expired. *)
Protected(v) == v # Absent /\ v.policy # "oldest" /\ ~Expired(v)

(* Across overwrites, partial prunes, failed fsyncs and limit changes, the *)
(* byte count is the sum of what is indexed, and an open store is within   *)
(* its byte limit and its record limit.                                    *)
WithinLimit ==
  /\ used = Charge(entries, Held)
  /\ status = "open" => used <= maxBytes /\ Cardinality(Held) <= MaxClientStoreRecords

(* As long as every fsync was completed (slips = 0), the index is the      *)
(* directory: what a restart loads is what the running store reports, with *)
(* or without a crash in between.                                          *)
IndexIsDirectory == Ready /\ slips = 0 => entries = disk

(* ARCHITECTURE: state that has not expired stays protected.  A record put *)
(* with success under a policy other than PruneOldest is there until it is *)
(* deleted, replaced or expires, across prunes for other records, lowered  *)
(* limits, crashes and restarts.                                           *)
ProtectedKept ==
  Ready => \A id \in Ids : Protected(kept[id]) => entries[id] = kept[id]

(* No power loss leaves a directory whose protected records alone exceed   *)
(* every limit: the store can always be opened again.                      *)
Reopenable ==
  LET protected == {id \in Ids : Protected(disk[id])}
  IN slips = 0 => /\ \E limit \in Limits : Charge(disk, protected) <= limit
                  /\ Cardinality(protected) <= MaxClientStoreRecords

(* ARCHITECTURE: expired records go first, then the oldest marked          *)
(* PruneOldest.  GoesBefore is that order on a whole directory.             *)
GoesBefore(a, b) ==
  \/ Expired(disk[a]) /\ ~Expired(disk[b])
  \/ /\ Expired(disk[a]) = Expired(disk[b])
     /\ disk[a].created < disk[b].created \/ (disk[a].created = disk[b].created /\ a < b)

(* What stays if everything that goes before id is removed. *)
Rest(id, own) ==
  {other \in Ids : disk[other] # Absent /\
     (other = own \/ ~Prunable(disk[other]) \/ ~GoesBefore(other, id))}

(* Whichever operation prunes to its target, and even when open does so    *)
(* with part of the directory still unread, an unexpired record goes only  *)
(* if it is marked PruneOldest and removing everything that should go      *)
(* before it from the whole directory would not have been enough.  A prune *)
(* that is cut short removes a part of the same list and is left out.      *)
PrunesOnlyWhatMust ==
  [][(slips = 0 /\ section = Absent /\ section' # Absent /\ section'.op # "delete") =>
       \A id \in Ids : (disk[id] # Absent /\ disk'[id] = Absent /\ ~Expired(disk[id])) =>
         /\ disk[id].policy = "oldest"
         /\ \/ Charge(disk, Rest(id, section'.id)) > section'.bytes
            \/ Cardinality(Rest(id, section'.id)) > section'.records]_vars
=============================================================================

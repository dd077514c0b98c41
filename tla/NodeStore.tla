------------------------------ MODULE NodeStore ------------------------------
(***************************************************************************)
(* A storage node: DiskStore (node/store.go), the private-file helpers it  *)
(* writes through (node/keys.go), the store and delete handlers that call  *)
(* it (node/server.go), and the sweep ticker of cmd/propagare-node.        *)
(*                                                                         *)
(* An item is its ItemID.  The id commits to the content, so an id has one *)
(* route tag, one encoded size (its charge) and one proof of work.  Ids    *)
(* are numbers because os.ReadDir returns file names in order.             *)
(*                                                                         *)
(* The mutex s.mu is held across every critical section.  Nothing but a    *)
(* crash can see inside one, so a section is a single step up to its last  *)
(* directory fsync, which is a second step: the crash that matters falls   *)
(* between the rename (or the remove) and the fsync.                       *)
(***************************************************************************)
EXTENDS Naturals, FiniteSets

CONSTANTS
  Items, Routes,          \* item ids and route tags
  RouteOf, ChargeOf,      \* an item's route tag and storedItemCharge
  WorkOf,                 \* leading zero bits of an item's proof of work
  Handlers,               \* in-flight HTTP requests
  MaxConcurrentRequests,
  Capacity, RouteQuota, MaxStoredItems, MaxItemsPerRoute,
  BaseDifficulty,
  Faults                  \* which failures the environment may inject

AllFaults == {"processCrash", "powerLoss", "syncFails", "writeFails", "removeFails"}

ASSUME ItemsAreOrdered == Items \subseteq Nat \ {0} /\ IsFiniteSet(Items)
ASSUME ItemData == /\ RouteOf \in [Items -> Routes]
                   /\ ChargeOf \in [Items -> Nat \ {0}]
                   /\ WorkOf \in [Items -> Nat]
ASSUME Limits == /\ Capacity \in Nat \ {0} /\ RouteQuota \in 1..Capacity
                 /\ MaxStoredItems \in Nat \ {0} /\ MaxItemsPerRoute \in Nat \ {0}
                 /\ MaxConcurrentRequests \in Nat \ {0} /\ BaseDifficulty \in Nat
ASSUME FaultsKnown == Faults \subseteq AllFaults

VARIABLES
  items, byRoute, routeUsed, used,   \* the index in memory
  status,        \* "down", "loading", "open" or "closed"
  unread,        \* file names NewDiskStore has still to read
  removedFiles,  \* NewDiskStore's local of that name
  sweeping,      \* Sweep holds the mutex and is about to sync
  pc, target,    \* each handler's position and item
  disk,          \* files in the store directory
  dirty,         \* directory entries changed since the last completed fsync
  slipped,       \* history: an fsync failed, or a kill came before it
  expired,       \* items whose ExpiresAt has passed
  owed,          \* history: Put reported success, no removal has begun since
  deleted        \* history: Delete reported success, no Put has begun since

index == <<items, byRoute, routeUsed, used>>
loading == <<unread, removedFiles>>
requests == <<pc, target>>
directory == <<disk, dirty, slipped>>
history == <<owed, deleted>>
vars == <<index, status, loading, sweeping, requests, directory, expired, history>>

None == 0
Positions == {"idle", "put", "putSync", "delete", "delSync"}

Init ==
  /\ items = {} /\ used = 0
  /\ byRoute = [r \in Routes |-> {}] /\ routeUsed = [r \in Routes |-> 0]
  /\ status = "down" /\ unread = {} /\ removedFiles = FALSE /\ sweeping = FALSE
  /\ pc = [h \in Handlers |-> "idle"] /\ target = [h \in Handlers |-> None]
  /\ disk = {} /\ dirty = {} /\ slipped = FALSE /\ expired = {} /\ owed = {} /\ deleted = {}

(* The mutex is free: no section is waiting for its fsync. *)
Unlocked ==
  /\ ~sweeping
  /\ \A h \in Handlers : pc[h] \notin {"putSync", "delSync"}

(* Time passes an item's ExpiresAt. *)
Expire(i) ==
  /\ i \notin expired
  /\ expired' = expired \cup {i}
  /\ UNCHANGED <<index, status, loading, sweeping, requests, directory, history>>

-----------------------------------------------------------------------------
(* The index *)

AddToIndex(i) ==
  /\ items' = items \cup {i}
  /\ byRoute' = [byRoute EXCEPT ![RouteOf[i]] = @ \cup {i}]
  /\ used' = used + ChargeOf[i]
  /\ routeUsed' = [routeUsed EXCEPT ![RouteOf[i]] = @ + ChargeOf[i]]

(* The charges of the items in S, added up: each item takes ChargeOf[i]    *)
(* units, no two items share one, and the sum is the number of units.      *)
Units(S) == UNION {{i} \X (1..ChargeOf[i]) : i \in S}

Charge(S) == Cardinality(Units(S))

(* A route tag that loses its last item loses its entry in both maps. *)
RouteUsedWithout(r, S) ==
  IF byRoute[r] \ S = {} THEN 0 ELSE routeUsed[r] - Charge(S \cap byRoute[r])

RemoveFromIndex(S) ==
  /\ items' = items \ S
  /\ byRoute' = [r \in Routes |-> byRoute[r] \ S]
  /\ used' = used - Charge(S)
  /\ routeUsed' = [r \in Routes |-> RouteUsedWithout(r, S)]

StorageFull(i) == Cardinality(items) >= MaxStoredItems \/ used + ChargeOf[i] > Capacity

MailboxFull(i) ==
  \/ Cardinality(byRoute[RouteOf[i]]) >= MaxItemsPerRoute
  \/ routeUsed[RouteOf[i]] + ChargeOf[i] > RouteQuota

Fits(i) == ~StorageFull(i) /\ ~MailboxFull(i)

-----------------------------------------------------------------------------
(* Opening the store: lock, clean up, read the directory in name order. *)

NewDiskStore ==
  /\ status \in {"down", "closed"}
  /\ \A h \in Handlers : pc[h] = "idle"
  /\ status' = "loading" /\ unread' = disk /\ removedFiles' = FALSE
  /\ items' = {} /\ used' = 0
  /\ byRoute' = [r \in Routes |-> {}] /\ routeUsed' = [r \in Routes |-> 0]
  /\ UNCHANGED <<sweeping, requests, directory, expired, history>>

(* A valid file that fits is indexed; any other is removed, and a failure  *)
(* to remove it is ignored.                                                *)
LoadFile ==
  /\ status = "loading"
  /\ \E i \in unread :
       /\ \A j \in unread : i <= j
       /\ unread' = unread \ {i}
       /\ \/ /\ i \notin expired /\ Fits(i)
             /\ AddToIndex(i)
             /\ UNCHANGED <<removedFiles, directory, owed>>
          \/ /\ i \in expired \/ ~Fits(i)
             /\ removedFiles' = TRUE
             /\ \/ disk' = disk \ {i} /\ dirty' = dirty \cup {i} /\ UNCHANGED slipped
                \/ "removeFails" \in Faults /\ UNCHANGED directory
             /\ owed' = owed \ (expired \cap {i}) /\ UNCHANGED index
  /\ UNCHANGED <<status, sweeping, requests, expired, deleted>>

LoadDone ==
  /\ status = "loading" /\ unread = {}
  /\ \/ /\ status' = "open" /\ dirty' = (IF removedFiles THEN {} ELSE dirty)
        /\ UNCHANGED slipped
     \/ /\ "syncFails" \in Faults /\ removedFiles
        /\ status' = "down" /\ slipped' = TRUE /\ UNCHANGED dirty
  /\ UNCHANGED <<index, loading, sweeping, requests, disk, expired, history>>

Close ==
  /\ status = "open" /\ Unlocked
  /\ status' = "closed"
  /\ UNCHANGED <<index, loading, sweeping, requests, directory, expired, history>>

-----------------------------------------------------------------------------
(* POST /v1/items *)

EffectiveDifficulty ==
  IF used * 100 >= Capacity * 95 THEN BaseDifficulty + 2
  ELSE IF used * 100 >= Capacity * 80 THEN BaseDifficulty + 1
  ELSE BaseDifficulty

(* limitConcurrentRequests admits the request or answers 503 at once. *)
Admitted(h) ==
  /\ pc[h] = "idle"
  /\ Cardinality({g \in Handlers : pc[g] # "idle"}) < MaxConcurrentRequests

Respond(h) == pc' = [pc EXCEPT ![h] = "idle"] /\ target' = [target EXCEPT ![h] = None]

(* ValidateItem, then Used under the read lock, then VerifyWork; the lock  *)
(* is free again before Put takes it.  Used is 0 on a closed store.        *)
HandleStore(h, i) ==
  /\ Admitted(h) /\ status \in {"open", "closed"} /\ Unlocked
  /\ i \notin expired
  /\ status = "open" => WorkOf[i] >= EffectiveDifficulty
  /\ status = "closed" => WorkOf[i] >= BaseDifficulty
  /\ pc' = [pc EXCEPT ![h] = "put"] /\ target' = [target EXCEPT ![h] = i]
  /\ UNCHANGED <<index, status, loading, sweeping, directory, expired, history>>

(* Put refuses: closed, expired since the handler looked, or full. *)
PutRefuse(h) ==
  /\ pc[h] = "put" /\ Unlocked
  /\ \/ status = "closed"
     \/ target[h] \in expired
     \/ target[h] \notin items /\ ~Fits(target[h])
  /\ Respond(h)
  /\ UNCHANGED <<index, status, loading, sweeping, directory, expired, history>>

(* The item is already indexed: Put returns nil and writes nothing. *)
PutDuplicate(h) ==
  /\ pc[h] = "put" /\ Unlocked /\ status = "open"
  /\ target[h] \notin expired /\ target[h] \in items
  /\ owed' = owed \cup {target[h]}
  /\ Respond(h)
  /\ UNCHANGED <<index, status, loading, sweeping, directory, expired, deleted>>

(* writePrivateAtomic up to the rename; a failure before it leaves nothing. *)
PutRename(h) ==
  /\ pc[h] = "put" /\ Unlocked /\ status = "open"
  /\ target[h] \notin expired /\ target[h] \notin items /\ Fits(target[h])
  /\ \/ /\ disk' = disk \cup {target[h]} /\ dirty' = dirty \cup {target[h]}
        /\ deleted' = deleted \ {target[h]} /\ UNCHANGED slipped
        /\ pc' = [pc EXCEPT ![h] = "putSync"] /\ UNCHANGED target
     \/ "writeFails" \in Faults /\ Respond(h) /\ UNCHANGED <<directory, deleted>>
  /\ UNCHANGED <<index, status, loading, sweeping, expired, owed>>

(* Mutant: the section ends without the directory fsync. *)
SyncSkipped(synced) == UNCHANGED <<dirty, slipped>>

(* The directory fsync that ends a section flushes every pending entry. *)
SyncDirectory(synced) ==
  /\ ~synced => "syncFails" \in Faults
  /\ dirty' = IF synced THEN {} ELSE dirty
  /\ slipped' = (slipped \/ ~synced)

PutSync(h) ==
  /\ pc[h] = "putSync"
  /\ \E synced \in BOOLEAN :
       /\ SyncDirectory(synced)
       /\ IF synced THEN AddToIndex(target[h]) /\ owed' = owed \cup {target[h]}
                    ELSE UNCHANGED <<index, owed>>
  /\ Respond(h)
  /\ UNCHANGED <<status, loading, sweeping, disk, expired, deleted>>

-----------------------------------------------------------------------------
(* POST /v1/delete, for a caller that presents the item's delete token *)

(* Get and the token check run in a section of their own. *)
HandleDelete(h, i) ==
  /\ Admitted(h) /\ status = "open" /\ Unlocked
  /\ i \in items /\ i \notin expired
  /\ pc' = [pc EXCEPT ![h] = "delete"] /\ target' = [target EXCEPT ![h] = i]
  /\ UNCHANGED <<index, status, loading, sweeping, directory, expired, history>>

(* Closed, gone since the check, or os.Remove failed: an error, no change. *)
DeleteRefuse(h) ==
  /\ pc[h] = "delete" /\ Unlocked
  /\ status = "closed" \/ target[h] \notin items \/ "removeFails" \in Faults
  /\ Respond(h)
  /\ UNCHANGED <<index, status, loading, sweeping, directory, expired, history>>

(* Mutant: the index keeps what has left the directory. *)
RemoveFilesOnly(S) ==
  /\ disk' = disk \ S /\ dirty' = dirty \cup S /\ UNCHANGED slipped
  /\ owed' = owed \ S /\ UNCHANGED index

(* Files leave the directory and the index in the same section. *)
RemoveFiles(S) ==
  /\ disk' = disk \ S /\ dirty' = dirty \cup S /\ UNCHANGED slipped
  /\ RemoveFromIndex(S)
  /\ owed' = owed \ S

(* Mutant: Delete trusts the Get that the handler made before. *)
StillIndexedAssumed(h) == TRUE

(* Delete looks the item up again under its own lock. *)
StillIndexed(h) == target[h] \in items

DeleteRemove(h) ==
  /\ pc[h] = "delete" /\ Unlocked /\ status = "open" /\ StillIndexed(h)
  /\ RemoveFiles({target[h]})
  /\ pc' = [pc EXCEPT ![h] = "delSync"]
  /\ UNCHANGED <<target, status, loading, sweeping, expired, deleted>>

(* Mutant: the error of the directory fsync is dropped. *)
DeleteSucceedsAnyway(i, synced) == {i}

DeleteSucceeds(i, synced) == IF synced THEN {i} ELSE {}

DeleteSync(h) ==
  /\ pc[h] = "delSync"
  /\ \E synced \in BOOLEAN :
       /\ SyncDirectory(synced)
       /\ deleted' = deleted \cup DeleteSucceeds(target[h], synced)
  /\ Respond(h)
  /\ UNCHANGED <<index, status, loading, sweeping, disk, expired, owed>>

-----------------------------------------------------------------------------
(* The sweep ticker *)

Sweepable == expired \cap items

(* Every expired item goes, or the walk stops at a file that os.Remove     *)
(* fails on and returns without a sync.                                    *)
Sweep ==
  /\ status = "open" /\ Unlocked
  /\ \E S \in SUBSET Sweepable \ {{}} :
       /\ \/ S = Sweepable /\ sweeping' = TRUE
          \/ S # Sweepable /\ "removeFails" \in Faults /\ UNCHANGED sweeping
       /\ RemoveFiles(S)
  /\ UNCHANGED <<status, loading, requests, expired, deleted>>

SweepSync ==
  /\ sweeping /\ sweeping' = FALSE
  /\ \E synced \in BOOLEAN : SyncDirectory(synced)
  /\ UNCHANGED <<index, status, loading, requests, disk, expired, history>>

-----------------------------------------------------------------------------
(* Crashes.  The kernel outlives a killed process and keeps the directory; *)
(* a power loss keeps, of the entries not synced, any subset.              *)

ProcessDies ==
  /\ status \in {"loading", "open", "closed"}
  /\ status' = "down" /\ sweeping' = FALSE
  /\ items' = {} /\ used' = 0 /\ unread' = {} /\ removedFiles' = FALSE
  /\ byRoute' = [r \in Routes |-> {}] /\ routeUsed' = [r \in Routes |-> 0]
  /\ pc' = [h \in Handlers |-> "idle"] /\ target' = [h \in Handlers |-> None]
  /\ UNCHANGED <<expired, history>>

ProcessCrash ==
  /\ "processCrash" \in Faults /\ ProcessDies
  /\ slipped' = (slipped \/ dirty # {}) /\ UNCHANGED <<disk, dirty>>

PowerLoss ==
  /\ "powerLoss" \in Faults /\ ProcessDies
  /\ \E S \in SUBSET dirty : disk' = (disk \ dirty) \cup S
  /\ dirty' = {} /\ UNCHANGED slipped

-----------------------------------------------------------------------------
HandlerStep(h) ==
  \/ PutRefuse(h) \/ PutDuplicate(h) \/ PutRename(h) \/ PutSync(h)
  \/ DeleteRefuse(h) \/ DeleteRemove(h) \/ DeleteSync(h)

Next ==
  \/ \E i \in Items : Expire(i)
  \/ NewDiskStore \/ LoadFile \/ LoadDone \/ Close
  \/ \E h \in Handlers, i \in Items : HandleStore(h, i) \/ HandleDelete(h, i)
  \/ \E h \in Handlers : HandlerStep(h)
  \/ Sweep \/ SweepSync
  \/ ProcessCrash \/ PowerLoss

Spec == Init /\ [][Next]_vars

-----------------------------------------------------------------------------
(* Properties *)

(* Put, Delete, Sweep and NewDiskStore keep four maps in step by hand: the *)
(* counters are exactly the charges of what is indexed, byRoute partitions *)
(* the index, and no limit is ever passed.                                 *)
AccountingExact ==
  /\ used = Charge(items) /\ used <= Capacity
  /\ Cardinality(items) <= MaxStoredItems
  /\ \A r \in Routes :
       /\ byRoute[r] = {i \in items : RouteOf[i] = r}
       /\ routeUsed[r] = Charge(byRoute[r]) /\ routeUsed[r] <= RouteQuota
       /\ Cardinality(byRoute[r]) <= MaxItemsPerRoute

(* While the node serves, whatever the order of writes, removals, failed   *)
(* fsyncs and restarts that led here, an indexed item has its file, so Get *)
(* and FetchLimited never promise what a restart would not find.           *)
IndexedOnDisk == items \subseteq disk

(* Once Delete has reported success the item is gone for good: no crash,   *)
(* power loss or restart brings it back unless a new Put writes it.        *)
DeletedStaysDeleted == deleted \cap (items \cup disk) = {}

(* An item whose Put succeeded stays indexed until it is deleted or        *)
(* expires, across power losses and restarts: its file is durable, and     *)
(* loading the directory never runs it out of its quota.  The promise ends *)
(* when an fsync has failed or a kill has come before one, since a file    *)
(* that Put reported as failed may then be on disk and take the quota.     *)
AckedSurvives == status = "open" /\ ~slipped => owed \subseteq items

(* SECURITY-REVIEW: Put synchronises the private directory.  So an item    *)
(* that Put has reported stored has no pending directory entry.            *)
PutSynchronised == owed \cap dirty = {}
=============================================================================

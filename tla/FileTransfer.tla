---------------------------- MODULE FileTransfer ----------------------------
(***************************************************************************)
(* One file on its way through the storage nodes (media/file.go): Store    *)
(* writes its encrypted chunks one after the other, Retrieve fetches them  *)
(* in batches, reconstructs the file and only then has them deleted.  The  *)
(* sender repeats a Store that failed; several devices may retrieve at     *)
(* once.  Fetch is that of client/core.go over FetchLimited of             *)
(* node/store.go.                                                          *)
(*                                                                         *)
(* All chunks of a file have one size, so byte limits are counted in       *)
(* chunks.  StoreOpaque makes a new item each time: <<chunk, attempt>>,    *)
(* later attempts having the later CreatedAt.  It succeeds or fails as     *)
(* module ClientCore shows, with every node a replica.  Nodes are numbers, *)
(* in the order of c.nodes; a node that the reputation excludes is like    *)
(* one that is down.  The items stay within their retention window.        *)
(***************************************************************************)
EXTENDS Naturals, FiniteSets, FiniteSetsExt

CONSTANTS
  Nodes, WriteQuorum,
  FileBytes,      \* length of the plaintext
  ChunkBytes,     \* chunkSize
  MaxRouteTags,   \* MaxRouteTagsPerFetch
  FetchLimit,     \* DefaultMaxFetchBytes, in chunks
  NodeLimit,      \* MaxFetchBytes of each node's configuration, in chunks
  Retrievers,
  Faults,         \* which of "down", "lost", "forgets", "crash" occur
  MaxFaults,      \* bound on the faults explored
  MaxAttempts     \* bound on the calls of Store

ASSUME NodesAreNumbers == Nodes \subseteq Nat /\ IsFiniteSet(Nodes) /\ WriteQuorum \in 1..Cardinality(Nodes)
ASSUME Limits == MaxRouteTags \in Nat \ {0} /\ FetchLimit \in Nat \ {0} /\ NodeLimit \in [Nodes -> 1..FetchLimit]
ASSUME Sizes == FileBytes \in Nat \ {0} /\ ChunkBytes \in Nat \ {0}
ASSUME Bounds == MaxFaults \in Nat /\ MaxAttempts \in Nat \ {0}

VARIABLES
  held,      \* the items each node stores
  sender,    \* how far Store is: st, attempt and the chunk that is next
  reader,    \* how far each Retrieve is
  faults,
  lossy,     \* history: the nodes that have lost an item
  opened     \* history: who has had all the chunks and asked for their deletion

vars == <<held, sender, reader, faults, lossy, opened>>

(* EncryptFile cuts the file; the last chunk is padded to the size of the  *)
(* others and keeps its own length in front.  Chunks are counted from 1.   *)
Chunks == {c \in 1..FileBytes : (c - 1) * ChunkBytes < FileBytes}

NumChunks == Cardinality(Chunks)

PlainLength(c) == Min({ChunkBytes, FileBytes - (c - 1) * ChunkBytes})

(* The bytes of the plaintext in the chunks S, as <<chunk, position>>. *)
Plaintext(S) == UNION {{c} \X (1..PlainLength(c)) : c \in S}

(* validateManifest: the chunk count follows from the two sizes.  What     *)
(* EncryptFile cut passes, and all its chunks have the length of the file. *)
ValidManifest == NumChunks = (FileBytes + ChunkBytes - 1) \div ChunkBytes

Items == Chunks \X (1..MaxAttempts)

ChunksOf(S) == {i[1] : i \in S}

Idle == [st |-> "idle", from |-> 1, ask |-> {}, seen |-> {}, ok |-> FALSE, best |-> {},
         sure |-> FALSE, missed |-> {}, large |-> FALSE]

Init ==
  /\ held = [n \in Nodes |-> {}]
  /\ sender = [st |-> "storing", attempt |-> 1, next |-> 1]
  /\ reader = [r \in Retrievers |-> Idle]
  /\ faults = 0 /\ lossy = {} /\ opened = {}

(* The nodes of D meet a fault of kind f, those of E one of kind g. *)
Faulty(f, D, g, E) ==
  /\ (D # {} => f \in Faults) /\ (E # {} => g \in Faults)
  /\ faults' = faults + Cardinality(D) + Cardinality(E) /\ faults' <= MaxFaults

Fault(f) == f \in Faults /\ faults < MaxFaults /\ faults' = faults + 1

-----------------------------------------------------------------------------
(* Store *)

(* Mutant: one receipt is enough. *)
IsDeliveredOnce(signed) == signed # {}

IsDelivered(signed) == Cardinality(signed) >= WriteQuorum

(* StoreOpaque of the next chunk: the nodes of down do not take the item,  *)
(* those of lost do but their receipts are lost.  A delivery that cannot   *)
(* be persisted is an error like one with all its receipts lost.           *)
StoreChunk ==
  /\ sender.st = "storing" /\ ValidManifest
  /\ \E down \in SUBSET Nodes : \E lost \in SUBSET (Nodes \ down) :
       /\ Faulty("down", down, "lost", lost)
       /\ held' = [n \in Nodes |-> held[n] \cup (IF n \in down THEN {} ELSE {<<sender.next, sender.attempt>>})]
       /\ sender' = IF ~IsDelivered(Nodes \ (down \cup lost)) THEN [sender EXCEPT !.st = "failed"]
                    ELSE IF sender.next = NumChunks THEN [sender EXCEPT !.st = "stored"]
                    ELSE [sender EXCEPT !.next = @ + 1]
  /\ UNCHANGED <<reader, lossy, opened>>

(* The application calls Store again with the same EncryptedFile. *)
StoreAgain ==
  /\ sender.st = "failed" /\ sender.attempt < MaxAttempts
  /\ sender' = [st |-> "storing", attempt |-> sender.attempt + 1, next |-> 1]
  /\ UNCHANGED <<held, reader, faults, lossy, opened>>

-----------------------------------------------------------------------------
(* Retrieve *)

Set(r, x) == reader' = [reader EXCEPT ![r] = x]

(* Retrieve returns an error; what it has fetched is dropped. *)
Failed(x) == [Idle EXCEPT !.st = "failed", !.sure = x.sure, !.missed = x.missed, !.large = x.large]

(* min(MaxRouteTagsPerFetch, DefaultMaxFetchBytes / CipherSize) *)
BatchSize == Min({MaxRouteTags, FetchLimit})

BatchEnd(from) == Min({from + BatchSize - 1, NumChunks})

(* The first call of Retrieve, or one after it failed. *)
Retrieve(r) ==
  /\ reader[r].st \in {"idle", "failed"} /\ ValidManifest
  /\ Set(r, [Idle EXCEPT !.st = "fetch", !.ask = Nodes, !.sure = sender.st = "stored" /\ opened = {}])
  /\ UNCHANGED <<held, sender, faults, lossy, opened>>

(* What node n holds of the batch. *)
Answer(n, from) == {i \in held[n] : i[1] \in from..BatchEnd(from)}

(* FetchLimited reports truncated, and handleFetch answers 413. *)
Truncated(n, from) == Cardinality(Answer(n, from)) > NodeLimit[n]

(* Core.Fetch asks the next node. *)
FetchNext(r) ==
  LET x == reader[r]
      n == Min(x.ask)
      all == x.seen \cup Answer(n, x.from) IN
  /\ x.st = "fetch" /\ x.ask # {}
  /\ \/ /\ Fault("down")
        /\ Set(r, [x EXCEPT !.ask = @ \ {n}, !.missed = @ \cup {n}])
     \/ /\ Truncated(n, x.from) /\ UNCHANGED faults
        /\ Set(r, [x EXCEPT !.ask = @ \ {n}, !.missed = @ \cup {n}, !.large = TRUE])
     \/ /\ ~Truncated(n, x.from) /\ Cardinality(all) <= FetchLimit /\ UNCHANGED faults
        /\ Set(r, [x EXCEPT !.ask = @ \ {n}, !.ok = TRUE, !.seen = all])
     \/ /\ ~Truncated(n, x.from) /\ Cardinality(all) > FetchLimit /\ UNCHANGED faults
        /\ Set(r, [Failed(x) EXCEPT !.large = TRUE])
  /\ UNCHANGED <<held, sender, lossy, opened>>

(* Items come in the order of CreatedAt, so the last one of a chunk stays  *)
(* in itemByIndex.                                                         *)
Latest(S) == {i \in S : \A j \in S : j[1] = i[1] => j[2] <= i[2]}

(* A batch is complete: an error if every node failed, else the next one. *)
FetchEnd(r) ==
  LET x == reader[r] IN
  /\ x.st = "fetch" /\ x.ask = {}
  /\ Set(r, IF ~x.ok THEN Failed(x)
            ELSE [x EXCEPT !.best = @ \cup Latest(x.seen), !.seen = {}, !.ok = FALSE,
                           !.st = IF BatchEnd(x.from) = NumChunks THEN "decrypt" ELSE "fetch",
                           !.from = IF BatchEnd(x.from) = NumChunks THEN 1 ELSE BatchEnd(x.from) + 1,
                           !.ask = IF BatchEnd(x.from) = NumChunks THEN {} ELSE Nodes])
  /\ UNCHANGED <<held, sender, faults, lossy, opened>>

(* Mutant: some of the chunks will do. *)
OpensSome(x) == x.best # {}

(* DecryptFile wants every chunk of the manifest, and all of the length. *)
Opens(x) ==
  /\ ChunksOf(x.best) = Chunks
  /\ Cardinality(Plaintext(ChunksOf(x.best))) = FileBytes

(* DeleteItemEverywhere asks all of c.nodes. *)
Everywhere == Nodes

(* deleteAfterSuccess is the application's choice. *)
Decrypt(r) ==
  LET x == reader[r] IN
  /\ x.st = "decrypt"
  /\ \/ ~Opens(x) /\ Set(r, Failed(x)) /\ UNCHANGED opened
     \/ Opens(x) /\ Set(r, [Idle EXCEPT !.st = "kept"]) /\ UNCHANGED opened
     \/ /\ Opens(x) /\ Set(r, [x EXCEPT !.st = "delete", !.ask = Everywhere])
        /\ opened' = IF ChunksOf(x.best) = Chunks THEN opened \cup {r} ELSE opened
  /\ UNCHANGED <<held, sender, faults, lossy>>

(* One node is asked to delete the item of chunk x.from.  The answers only *)
(* make up the deletion report, which is returned with the plaintext.      *)
DeleteNext(r) ==
  LET x == reader[r]
      n == Min(x.ask)
      gone == {i \in x.best : i[1] = x.from} IN
  /\ x.st = "delete"
  /\ \/ held' = [held EXCEPT ![n] = @ \ gone] /\ UNCHANGED faults
     \/ Fault("down") /\ UNCHANGED held
  /\ Set(r, IF x.ask # {n} THEN [x EXCEPT !.ask = @ \ {n}]
            ELSE IF x.from < NumChunks THEN [x EXCEPT !.ask = Everywhere, !.from = @ + 1]
            ELSE [Idle EXCEPT !.st = "done"])
  /\ UNCHANGED <<sender, lossy, opened>>

-----------------------------------------------------------------------------
(* A retrieving device stops; a node loses an item. *)

Crash(r) ==
  /\ reader[r].st \in {"fetch", "decrypt", "delete"} /\ Fault("crash")
  /\ Set(r, Idle)
  /\ UNCHANGED <<held, sender, lossy, opened>>

Forget(n) ==
  /\ Fault("forgets")
  /\ \E i \in held[n] : held' = [held EXCEPT ![n] = @ \ {i}]
  /\ lossy' = lossy \cup {n}
  /\ UNCHANGED <<sender, reader, opened>>

Next ==
  \/ StoreChunk \/ StoreAgain
  \/ \E r \in Retrievers :
       Retrieve(r) \/ FetchNext(r) \/ FetchEnd(r) \/ Decrypt(r) \/ DeleteNext(r) \/ Crash(r)
  \/ \E n \in Nodes : Forget(n)

Spec == Init /\ [][Next]_vars

-----------------------------------------------------------------------------
(* Properties *)

Available(c) == \E n \in Nodes : c \in ChunksOf(held[n])

(* A stored file is not lost unread.  Once Store has returned without an   *)
(* error, and as long as fewer than a write quorum of nodes have lost      *)
(* anything, every chunk can be found somewhere until a device has had all *)
(* of them (README.md, "Löschen von Dateien erst nach vollständigem        *)
(* Download und Authentifizierung").                                       *)
NeverLostUnread ==
  sender.st = "stored" /\ Cardinality(lossy) < WriteQuorum /\ opened = {}
    => \A c \in Chunks : Available(c)

(* A Retrieve of a stored file gives the file, if its batches fit.  It     *)
(* fails only if a write quorum of nodes did not answer it or have lost    *)
(* something, or another device has opened the file and is having it       *)
(* deleted meanwhile.                                                      *)
Retrievable ==
  \A r \in Retrievers :
    reader[r].st = "failed" /\ reader[r].sure /\ opened = {} /\ ~reader[r].large
      => Cardinality(reader[r].missed \cup lossy) >= WriteQuorum

(* ARCHITECTURE.md, "Dateien, deren Blöcke nicht in eine einzelne          *)
(* begrenzte Fetch-Antwort passen, werden automatisch in Byte- und         *)
(* Route-Tag-begrenzten Batches abgerufen": once Store has returned        *)
(* without an error, no batch of a Retrieve is too large for the answer.   *)
BatchesFit == \A r \in Retrievers : reader[r].sure => ~reader[r].large
=============================================================================

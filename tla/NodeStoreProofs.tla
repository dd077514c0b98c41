--------------------------- MODULE NodeStoreProofs ---------------------------
(***************************************************************************)
(* For any items, limits, handlers and faults: the index never names an    *)
(* item without its file, a deletion that was reported lasts, the counters *)
(* are exact and within their limits, and what was acknowledged survives a *)
(* restart.                                                                *)
(***************************************************************************)
EXTENDS NodeStore, TLAPS

Shape == pc \in [Handlers -> Positions] /\ target \in [Handlers -> Items \cup {None}]

(* NewDiskStore works alone, and what it has still to read are files that  *)
(* exist and are not indexed.                                              *)
LoadsAlone == status = "loading" => unread \subseteq disk \ items /\ \A h \in Handlers : pc[h] = "idle"

(* Before its fsync a Put has its file, and a Delete has removed it. *)
AtSync ==
  \A h \in Handlers :
    /\ pc[h] = "putSync" => target[h] \in disk
    /\ pc[h] = "delSync" => target[h] \notin disk \cup items

(* No directory entry of a deleted item waits for an fsync. *)
DeletedSynced == deleted \cap dirty = {}

(* The inductive invariant of index and files. *)
IInv == Shape /\ LoadsAlone /\ AtSync /\ IndexedOnDisk /\ DeletedSynced /\ DeletedStaysDeleted

-----------------------------------------------------------------------------
(* The accounts *)

On(r, S) == {i \in S : RouteOf[i] = r}

(* The items S together pass no limit of the node. *)
Fitting(S) ==
  /\ Charge(S) <= Capacity /\ Cardinality(S) <= MaxStoredItems
  /\ \A r \in Routes : Charge(On(r, S)) <= RouteQuota /\ Cardinality(On(r, S)) <= MaxItemsPerRoute

(* Files and requests are about items of the model. *)
Known == disk \subseteq Items /\ dirty \subseteq Items /\ \A h \in Handlers : pc[h] # "idle" => target[h] \in Items

Syncing(h) == pc[h] \in {"putSync", "delSync"}

(* The section that waits for its fsync is the only one, in an open store. *)
Exclusive ==
  /\ status # "loading" => unread = {}
  /\ \A g, h \in Handlers : Syncing(g) /\ Syncing(h) => g = h
  /\ \A h \in Handlers : Syncing(h) => status = "open" /\ ~sweeping

(* The room that Put found before it wrote is still there when it indexes. *)
RoomKept == \A h \in Handlers : pc[h] = "putSync" => target[h] \notin items /\ Fits(target[h])

Books == byRoute \in [Routes -> SUBSET Items] /\ routeUsed \in [Routes -> Nat] /\ AccountingExact

-----------------------------------------------------------------------------
(* Survival *)

SyncTargets == {target[h] : h \in {g \in Handlers : Syncing(g)}}

(* Until an fsync is lost: the files of unexpired items, with those that a *)
(* power loss may bring back, fit; each is indexed, still to be read or    *)
(* the subject of the section under way.                                   *)
ReloadFits == Fitting((disk \cup dirty) \ expired)

Covered ==
  /\ status = "down" => dirty = {}
  /\ status # "down" => (disk \cup dirty) \ expired \subseteq items \cup unread \cup SyncTargets

(* What open has read, and what it will not drop as expired, fits. *)
LoadFits == status = "loading" => Fitting(items \cup (unread \ expired))

(* A file whose entry waits for an fsync is the one Put just renamed. *)
PendingFiles == \A i \in dirty \cap disk : \E h \in Handlers : pc[h] = "putSync" /\ target[h] = i

(* An acknowledged item has a durable file, and the index has it unless it *)
(* is still to be read.                                                    *)
OwedKept ==
  /\ owed \subseteq disk \ dirty
  /\ status # "down" => owed \subseteq items \cup unread

FilesSafe == ReloadFits /\ Covered /\ LoadFits /\ PendingFiles /\ OwedKept

(* As long as every fsync was completed. *)
Survival == ~slipped => FilesSafe

-----------------------------------------------------------------------------
USE Zenon

(* A step that leaves the index, the directory and the requests alone. *)
LEMMA Frame ==
  ASSUME IInv, UNCHANGED <<items, unread, requests, disk, dirty, deleted>>, status' # "loading" \/ status' = status
  PROVE  IInv'
BY DEF IInv, Shape, LoadsAlone, AtSync, IndexedOnDisk, DeletedSynced, DeletedStaysDeleted, requests

(* Opening the store: only files are indexed, and what is removed was not  *)
(* deleted before.                                                         *)
LEMMA OpeningStep ==
  ASSUME IInv, NewDiskStore \/ LoadFile \/ LoadDone \/ Close
  PROVE  IInv'
<1> USE DEF IInv, Shape, LoadsAlone, AtSync, IndexedOnDisk, DeletedSynced, DeletedStaysDeleted
<1> USE DEF loading, requests, directory, index, history
<1>1. CASE NewDiskStore BY <1>1 DEF NewDiskStore
<1>2. CASE LoadFile
  <2> USE <1>2
  <2>1. PICK i \in unread :
          /\ unread' = unread \ {i}
          /\ \/ items' = items \cup {i} /\ UNCHANGED <<disk, dirty>>
             \/ disk' = disk \ {i} /\ dirty' = dirty \cup {i} /\ items' = items
             \/ UNCHANGED <<items, disk, dirty>>
    BY DEF LoadFile, AddToIndex
  <2>2. UNCHANGED <<status, pc, target, deleted>> /\ status = "loading" BY DEF LoadFile
  <2>3. i \in disk /\ i \notin items /\ i \notin deleted BY <2>1, <2>2
  <2> QED BY <2>1, <2>2, <2>3
<1>3. CASE LoadDone
  <2>1. UNCHANGED <<items, unread, pc, target, disk, deleted>> /\ dirty' \in {{}, dirty} /\ status' # "loading"
    BY <1>3 DEF LoadDone
  <2> QED BY <2>1
<1>4. CASE Close BY <1>4, Frame DEF Close
<1> QED BY <1>1, <1>2, <1>3, <1>4

(* A request enters, or leaves without an effect. *)
LEMMA RequestStep ==
  ASSUME IInv, NEW h \in Handlers,
         PutRefuse(h) \/ PutDuplicate(h) \/ DeleteRefuse(h) \/ \E i \in Items : HandleStore(h, i) \/ HandleDelete(h, i)
  PROVE  IInv'
<1> USE DEF IInv, Shape, LoadsAlone, AtSync, IndexedOnDisk, DeletedSynced, DeletedStaysDeleted
<1> USE DEF loading, directory, index, history
<1>1. UNCHANGED <<items, unread, disk, dirty, deleted, status>>
  BY DEF HandleStore, HandleDelete, PutRefuse, PutDuplicate, DeleteRefuse
<1>2. PICK p \in {"put", "delete", "idle"}, t \in Items \cup {None} :
        pc' = [pc EXCEPT ![h] = p] /\ target' = [target EXCEPT ![h] = t]
  BY DEF HandleStore, HandleDelete, PutRefuse, PutDuplicate, DeleteRefuse, Respond
<1>3. status = "loading" => p = "idle"
  BY <1>2 DEF HandleStore, HandleDelete, PutRefuse, PutDuplicate, DeleteRefuse
<1>4. pc' \in [Handlers -> Positions] /\ target' \in [Handlers -> Items \cup {None}] BY <1>2 DEF Positions
<1>5. AtSync' BY <1>1, <1>2
<1>6. LoadsAlone' BY <1>1, <1>2, <1>3
<1> QED BY <1>1, <1>4, <1>5, <1>6

(* Put writes its file before it is indexed, and revokes the deletion. *)
LEMMA PutStep ==
  ASSUME IInv, NEW h \in Handlers, PutRename(h) \/ PutSync(h)
  PROVE  IInv'
<1> USE DEF IInv, Shape, LoadsAlone, AtSync, IndexedOnDisk, DeletedSynced, DeletedStaysDeleted
<1> USE DEF loading, directory, index, history
<1>1. CASE PutRename(h)
  <2> USE <1>1
  <2>1. UNCHANGED <<items, unread, status>> /\ status = "open" BY DEF PutRename
  <2>2. \A g \in Handlers : pc[g] \notin {"putSync", "delSync"} BY DEF PutRename, Unlocked
  <2>3. PICK p \in {"putSync", "idle"}, t \in Items \cup {None} :
          /\ pc' = [pc EXCEPT ![h] = p] /\ target' = [target EXCEPT ![h] = t]
          /\ \/ /\ p = "putSync" /\ t = target[h]
                /\ disk' = disk \cup {t} /\ dirty' = dirty \cup {t} /\ deleted' = deleted \ {t}
             \/ p = "idle" /\ UNCHANGED <<disk, dirty, deleted>>
    <3>1. CASE pc' = [pc EXCEPT ![h] = "putSync"] /\ UNCHANGED target
               /\ disk' = disk \cup {target[h]} /\ dirty' = dirty \cup {target[h]} /\ deleted' = deleted \ {target[h]}
      BY <3>1
    <3>2. CASE Respond(h) /\ UNCHANGED <<disk, dirty, deleted>> BY <3>2 DEF Respond
    <3> QED BY <3>1, <3>2 DEF PutRename
  <2>4. pc' \in [Handlers -> Positions] /\ target' \in [Handlers -> Items \cup {None}] BY <2>3 DEF Positions
  <2>5. \A g \in Handlers : g # h => pc'[g] = pc[g] BY <2>3
  <2>6. AtSync' BY <2>1, <2>2, <2>3, <2>5
  <2> QED BY <2>1, <2>3, <2>4, <2>6
<1>2. CASE PutSync(h)
  <2> USE <1>2
  <2>1. UNCHANGED <<unread, status, disk, deleted>> /\ Respond(h) /\ pc[h] = "putSync" BY DEF PutSync
  <2>2. items' \in {items, items \cup {target[h]}} /\ dirty' \in {dirty, {}}
    BY DEF PutSync, SyncDirectory, AddToIndex
  <2>3. target[h] \in disk /\ status # "loading" BY <2>1
  <2>4. pc' \in [Handlers -> Positions] /\ target' \in [Handlers -> Items \cup {None}]
    BY <2>1 DEF Respond, Positions
  <2>5. \A g \in Handlers : pc'[g] \in {"putSync", "delSync"} => pc'[g] = pc[g] /\ target'[g] = target[g]
    BY <2>1 DEF Respond
  <2>6. AtSync' BY <2>1, <2>2, <2>3, <2>5
  <2> QED BY <2>1, <2>2, <2>3, <2>4, <2>6
<1> QED BY <1>1, <1>2

(* What Delete and Sweep remove was indexed, so it was not deleted; only   *)
(* the fsync makes a deletion a reported one.                              *)
LEMMA RemoveStep ==
  ASSUME IInv, Sweep \/ SweepSync \/ \E h \in Handlers : DeleteRemove(h) \/ DeleteSync(h)
  PROVE  IInv'
<1> USE DEF IInv, Shape, LoadsAlone, AtSync, IndexedOnDisk, DeletedSynced, DeletedStaysDeleted
<1> USE DEF loading, directory, index, history, requests
<1>1. CASE Sweep
  <2> USE <1>1
  <2>1. UNCHANGED <<unread, status, pc, target, deleted>> /\ status = "open" BY DEF Sweep
  <2>2. \A g \in Handlers : pc[g] \notin {"putSync", "delSync"} BY DEF Sweep, Unlocked
  <2>3. PICK S \in SUBSET items : disk' = disk \ S /\ dirty' = dirty \cup S /\ items' = items \ S
    BY DEF Sweep, Sweepable, RemoveFiles, RemoveFromIndex
  <2> QED BY <2>1, <2>2, <2>3
<1>2. CASE SweepSync
  <2>1. UNCHANGED <<items, unread, status, pc, target, disk, deleted>> /\ dirty' \in {dirty, {}}
    BY <1>2 DEF SweepSync, SyncDirectory
  <2> QED BY <2>1
<1>3. ASSUME NEW h \in Handlers, DeleteRemove(h) PROVE IInv'
  <2> USE <1>3
  <2>1. UNCHANGED <<unread, status, target, deleted>> /\ status = "open" BY DEF DeleteRemove
  <2>2. \A g \in Handlers : pc[g] \notin {"putSync", "delSync"} BY DEF DeleteRemove, Unlocked
  <2>3. /\ target[h] \in items /\ pc' = [pc EXCEPT ![h] = "delSync"]
        /\ disk' = disk \ {target[h]} /\ dirty' = dirty \cup {target[h]} /\ items' = items \ {target[h]}
    BY DEF DeleteRemove, StillIndexed, RemoveFiles, RemoveFromIndex
  <2>4. pc' \in [Handlers -> Positions] BY <2>3 DEF Positions
  <2>5. \A g \in Handlers : pc'[g] \in {"putSync", "delSync"} => g = h /\ pc'[g] = "delSync" BY <2>2, <2>3
  <2>6. AtSync' BY <2>1, <2>3, <2>5
  <2> QED BY <2>1, <2>3, <2>4, <2>6, SMT
<1>4. ASSUME NEW h \in Handlers, DeleteSync(h) PROVE IInv'
  <2> USE <1>4
  <2>1. UNCHANGED <<items, unread, status, disk>> /\ Respond(h) /\ pc[h] = "delSync" BY DEF DeleteSync
  <2>2. \/ deleted' = deleted /\ dirty' = dirty
        \/ deleted' = deleted \cup {target[h]} /\ dirty' = {}
    BY DEF DeleteSync, SyncDirectory, DeleteSucceeds
  <2>3. target[h] \notin disk \cup items /\ status # "loading" BY <2>1
  <2>4. pc' \in [Handlers -> Positions] /\ target' \in [Handlers -> Items \cup {None}]
    BY <2>1 DEF Respond, Positions
  <2>5. \A g \in Handlers : pc'[g] \in {"putSync", "delSync"} => pc'[g] = pc[g] /\ target'[g] = target[g]
    BY <2>1 DEF Respond
  <2>6. AtSync' BY <2>1, <2>5
  <2> QED BY <2>1, <2>2, <2>3, <2>4, <2>6
<1> QED BY <1>1, <1>2, <1>3, <1>4

(* A power loss revives or drops only entries that no fsync has covered. *)
LEMMA CrashStep ==
  ASSUME IInv, ProcessCrash \/ PowerLoss
  PROVE  IInv'
<1>1. ProcessDies BY DEF ProcessCrash, PowerLoss
<1>2. /\ items' = {} /\ deleted' = deleted /\ status' = "down"
      /\ pc' = [h \in Handlers |-> "idle"] /\ target' = [h \in Handlers |-> None]
  BY <1>1 DEF ProcessDies, history
<1>3. disk' \subseteq disk \cup dirty /\ dirty' \in {dirty, {}} BY DEF ProcessCrash, PowerLoss
<1>4. Shape' BY <1>2 DEF Shape, Positions
<1>5. AtSync' BY <1>2 DEF AtSync
<1> QED BY <1>2, <1>3, <1>4, <1>5 DEF IInv, LoadsAlone, IndexedOnDisk, DeletedSynced, DeletedStaysDeleted

(* The inductive invariant holds. *)
LEMMA StoreInvariant == Spec => []IInv
<1>1. Init => IInv
  BY DEF Init, IInv, Shape, Positions, LoadsAlone, AtSync, IndexedOnDisk, DeletedSynced, DeletedStaysDeleted
<1>2. ASSUME IInv, [Next]_vars PROVE IInv'
  <2> USE <1>2
  <2>1. CASE \E i \in Items : Expire(i)
    BY <2>1, Frame DEF Expire, index, loading, requests, directory, history
  <2>2. CASE UNCHANGED vars BY <2>2, Frame DEF vars, index, loading, requests, directory, history
  <2>3. ASSUME NEW h \in Handlers, HandlerStep(h) PROVE IInv'
    BY <2>3, RequestStep, PutStep, RemoveStep DEF HandlerStep
  <2> QED BY <2>1, <2>2, <2>3, OpeningStep, RequestStep, RemoveStep, CrashStep DEF Next
<1> QED BY <1>1, <1>2, PTL DEF Spec

(* The node never serves, counts or acknowledges again an item whose file  *)
(* a restart would not find: Put indexes after the fsync, Delete and Sweep *)
(* drop file and entry in one section, and failed fsyncs leave files only. *)
THEOREM IndexHasFiles == Spec => []IndexedOnDisk
BY StoreInvariant, PTL DEF IInv

(* A deletion that was reported lasts across failed fsyncs, kills, power   *)
(* losses and restarts, until a Put writes the item again.                 *)
THEOREM DeletionsLast == Spec => []DeletedStaysDeleted
BY StoreInvariant, PTL DEF IInv

-----------------------------------------------------------------------------
(* Lemmas about charges *)

INSTANCE FiniteSetTheorems

(* The units of finitely many items are finitely many. *)
LEMMA UnitsFinite ==
  ASSUME NEW S \in SUBSET Items
  PROVE  IsFiniteSet(Units(S))
<1> DEFINE f == [i \in S |-> {i} \X (1..ChargeOf[i])]
           T == {{i} \X (1..ChargeOf[i]) : i \in S}
<1>1. f \in Surjection(S, T) BY DEF Surjection
<1>2. IsFiniteSet(S) BY ItemsAreOrdered, FS_Subset
<1>3. IsFiniteSet(T) BY <1>1, <1>2, FS_Surjection
<1>4. ASSUME NEW i \in S PROVE IsFiniteSet({i} \X (1..ChargeOf[i]))
  <2>1. ChargeOf[i] \in Int BY ItemData, SMT
  <2>2. IsFiniteSet(1..ChargeOf[i]) BY <2>1, FS_Interval, SMT
  <2>3. IsFiniteSet({i}) BY FS_Singleton
  <2> QED BY <2>2, <2>3, FS_Product
<1> QED BY <1>3, <1>4, FS_UNION DEF Units

(* A charge is a number, and nothing is charged for no item. *)
LEMMA ChargeType ==
  ASSUME NEW S \in SUBSET Items
  PROVE  Charge(S) \in Nat /\ (S = {} => Charge(S) = 0)
<1>1. S = {} => Units(S) = {} BY DEF Units
<1> QED BY <1>1, UnitsFinite, FS_CardinalityType, FS_EmptySet DEF Charge

(* Taking items away takes their charge away. *)
LEMMA ChargeWithout ==
  ASSUME NEW S \in SUBSET Items, NEW T \in SUBSET S
  PROVE  Charge(S \ T) = Charge(S) - Charge(T)
<1>1. Units(S \ T) = Units(S) \ Units(T) BY SMT DEF Units
<1>2. Units(S) \cap Units(T) = Units(T) BY DEF Units
<1>3. IsFiniteSet(Units(S)) BY UnitsFinite
<1>4. Cardinality(Units(S) \ Units(T)) = Cardinality(Units(S)) - Cardinality(Units(S) \cap Units(T))
  BY <1>3, FS_Difference
<1> QED BY <1>1, <1>2, <1>4 DEF Charge

(* A part is not charged more than the whole. *)
LEMMA ChargeMonotone ==
  ASSUME NEW S \in SUBSET Items, NEW T \in SUBSET S
  PROVE  Charge(T) <= Charge(S)
<1>1. Units(T) \subseteq Units(S) BY DEF Units
<1> QED BY <1>1, UnitsFinite, FS_Subset DEF Charge

(* One item's charge. *)
LEMMA ChargeOne ==
  ASSUME NEW i \in Items
  PROVE  Charge({i}) = ChargeOf[i]
<1>1. Units({i}) = {i} \X (1..ChargeOf[i]) BY DEF Units
<1>2. ChargeOf[i] \in Nat \ {0} BY ItemData
<1>3. IsFiniteSet(1..ChargeOf[i]) /\ Cardinality(1..ChargeOf[i]) = ChargeOf[i] BY <1>2, FS_Interval, SMT
<1>4. IsFiniteSet({i}) /\ Cardinality({i}) = 1 BY FS_Singleton
<1>5. Cardinality({i} \X (1..ChargeOf[i])) = Cardinality({i}) * Cardinality(1..ChargeOf[i]) BY <1>3, <1>4, FS_Product
<1>6. Cardinality({i} \X (1..ChargeOf[i])) = 1 * ChargeOf[i] BY <1>3, <1>4, <1>5
<1>7. 1 * ChargeOf[i] = ChargeOf[i] BY <1>2, SMT
<1> QED BY <1>1, <1>6, <1>7 DEF Charge

(* An item that is added adds its charge. *)
LEMMA ChargeWith ==
  ASSUME NEW S \in SUBSET Items, NEW i \in Items \ S
  PROVE  Charge(S \cup {i}) = Charge(S) + ChargeOf[i]
<1> DEFINE U == S \cup {i}
<1>1. U \in SUBSET Items /\ {i} \in SUBSET U /\ U \ {i} = S OBVIOUS
<1> HIDE DEF U
<1>2. Charge(U \ {i}) = Charge(U) - Charge({i}) BY <1>1, ChargeWithout
<1>3. Charge({i}) = ChargeOf[i] /\ ChargeOf[i] \in Nat BY ChargeOne, ItemData
<1>4. Charge(U) \in Nat BY <1>1, ChargeType
<1>5. Charge(S) = Charge(U) - ChargeOf[i] BY <1>1, <1>2, <1>3
<1>6. Charge(U) = Charge(S) + ChargeOf[i] BY <1>3, <1>4, <1>5, SMT
<1> QED BY <1>6 DEF U

(* What fits still fits when items go. *)
LEMMA FittingPart ==
  ASSUME NEW S \in SUBSET Items, NEW T \in SUBSET S, Fitting(S)
  PROVE  Fitting(T)
<1>1. ASSUME NEW A \in SUBSET Items, NEW B \in SUBSET A, NEW m \in Nat, NEW n \in Nat,
             Charge(A) <= m, Cardinality(A) <= n
      PROVE  Charge(B) <= m /\ Cardinality(B) <= n
  <2>1. IsFiniteSet(A) BY ItemsAreOrdered, FS_Subset
  <2>2. Charge(A) \in Nat /\ Charge(B) \in Nat BY ChargeType
  <2>3. Cardinality(A) \in Nat /\ Cardinality(B) \in Nat BY <2>1, FS_Subset, FS_CardinalityType
  <2>4. Charge(B) <= Charge(A) BY ChargeMonotone
  <2>5. Cardinality(B) <= Cardinality(A) BY <2>1, FS_Subset
  <2> QED BY <1>1, <2>2, <2>3, <2>4, <2>5, SMT
<1>2. /\ Capacity \in Nat /\ MaxStoredItems \in Nat
      /\ RouteQuota \in Nat /\ MaxItemsPerRoute \in Nat
  BY Limits, SMT
<1>3. ASSUME NEW r \in Routes PROVE On(r, T) \subseteq On(r, S) /\ On(r, S) \subseteq Items
  BY DEF On
<1>4. Charge(T) <= Capacity /\ Cardinality(T) <= MaxStoredItems BY <1>1, <1>2 DEF Fitting
<1>5. ASSUME NEW r \in Routes PROVE Charge(On(r, T)) <= RouteQuota /\ Cardinality(On(r, T)) <= MaxItemsPerRoute
  <2>1. Charge(On(r, S)) <= RouteQuota /\ Cardinality(On(r, S)) <= MaxItemsPerRoute BY DEF Fitting
  <2> QED BY <1>1, <1>2, <1>3, <2>1
<1> QED BY <1>4, <1>5 DEF Fitting

(* One more item: its charge and one place more, in all and on its route. *)
LEMMA OneMore ==
  ASSUME NEW S \in SUBSET Items, NEW i \in Items \ S
  PROVE  /\ Charge(S \cup {i}) = Charge(S) + ChargeOf[i] /\ Charge(S) \in Nat /\ ChargeOf[i] \in Nat
         /\ Cardinality(S \cup {i}) = Cardinality(S) + 1 /\ Cardinality(S) \in Nat
<1>1. IsFiniteSet(S) BY ItemsAreOrdered, FS_Subset
<1>2. Cardinality(S \cup {i}) = Cardinality(S) + 1 BY <1>1, FS_AddElement
<1> QED BY <1>1, <1>2, ChargeWith, ChargeType, ItemData, FS_CardinalityType

(* The index as Books describes it, in terms of Fitting. *)
LEMMA BooksMeans ==
  Books <=> /\ byRoute \in [Routes -> SUBSET Items] /\ routeUsed \in [Routes -> Nat]
            /\ used = Charge(items) /\ Fitting(items)
            /\ \A r \in Routes : byRoute[r] = On(r, items) /\ routeUsed[r] = Charge(On(r, items))
<1>1. ASSUME NEW r \in Routes PROVE On(r, items) = {i \in items : RouteOf[i] = r} BY DEF On
<1> QED BY <1>1 DEF Books, AccountingExact, Fitting

(* The checks of Put and of NewDiskStore before they index an item say     *)
(* exactly that the index with the item passes no limit.                   *)
LEMMA FitsMeans ==
  ASSUME Books, items \subseteq Items, NEW i \in Items \ items
  PROVE  Fits(i) <=> Fitting(items \cup {i})
<1> DEFINE r == RouteOf[i]
           T == items \cup {i}
<1>1. r \in Routes BY ItemData
<1>2. /\ Fitting(items) /\ used = Charge(items)
      /\ byRoute[r] = On(r, items) /\ routeUsed[r] = Charge(On(r, items))
  BY <1>1, BooksMeans
<1>3. On(r, T) = On(r, items) \cup {i} /\ On(r, items) \in SUBSET Items /\ i \notin On(r, items) BY DEF On
<1>4. ASSUME NEW q \in Routes \ {r} PROVE On(q, T) = On(q, items) BY DEF On
<1>5. /\ Charge(T) = used + ChargeOf[i] /\ used \in Nat
      /\ Cardinality(T) = Cardinality(items) + 1 /\ Cardinality(items) \in Nat
  <2>1. items \in SUBSET Items OBVIOUS
  <2> QED BY <1>2, <2>1, OneMore
<1>6. /\ Charge(On(r, T)) = routeUsed[r] + ChargeOf[i] /\ routeUsed[r] \in Nat /\ ChargeOf[i] \in Nat
      /\ Cardinality(On(r, T)) = Cardinality(byRoute[r]) + 1 /\ Cardinality(byRoute[r]) \in Nat
  <2> DEFINE B == On(r, items)
  <2> HIDE DEF r, T, B
  <2>1. B \in SUBSET Items /\ i \in Items \ B BY <1>3 DEF B
  <2>2. /\ Charge(B \cup {i}) = Charge(B) + ChargeOf[i] /\ Charge(B) \in Nat /\ ChargeOf[i] \in Nat
        /\ Cardinality(B \cup {i}) = Cardinality(B) + 1 /\ Cardinality(B) \in Nat
    BY <2>1, OneMore
  <2>3. On(r, T) = B \cup {i} /\ byRoute[r] = B /\ routeUsed[r] = Charge(B) BY <1>2, <1>3 DEF B
  <2> QED BY <2>2, <2>3
<1>7. ASSUME NEW q \in Routes \ {r}
      PROVE  Charge(On(q, T)) <= RouteQuota /\ Cardinality(On(q, T)) <= MaxItemsPerRoute
  BY <1>2, <1>4, <1>7 DEF Fitting
<1>8. Fitting(T) <=> /\ Charge(T) <= Capacity /\ Cardinality(T) <= MaxStoredItems
                     /\ Charge(On(r, T)) <= RouteQuota /\ Cardinality(On(r, T)) <= MaxItemsPerRoute
  BY <1>1, <1>7 DEF Fitting
<1>9. Fits(i) <=> /\ ~(Cardinality(items) >= MaxStoredItems) /\ ~(used + ChargeOf[i] > Capacity)
                  /\ ~(Cardinality(byRoute[r]) >= MaxItemsPerRoute) /\ ~(routeUsed[r] + ChargeOf[i] > RouteQuota)
  BY DEF Fits, StorageFull, MailboxFull
<1> HIDE DEF r, T
<1>10. Fits(i) <=> Fitting(T) BY <1>5, <1>6, <1>8, <1>9, Limits, SMT
<1> QED BY <1>10 DEF T

-----------------------------------------------------------------------------
(* The accounts are kept *)

(* Indexing an item that fits keeps the books. *)
LEMMA AddBooks ==
  ASSUME Books, items \subseteq Items, NEW i \in Items \ items, Fits(i), AddToIndex(i)
  PROVE  Books'
<1> DEFINE r == RouteOf[i]
           T == items \cup {i}
<1>1. r \in Routes BY ItemData
<1>2. /\ items' = T /\ used' = used + ChargeOf[i]
      /\ byRoute' = [byRoute EXCEPT ![r] = @ \cup {i}] /\ routeUsed' = [routeUsed EXCEPT ![r] = @ + ChargeOf[i]]
  BY DEF AddToIndex
<1>3. /\ byRoute \in [Routes -> SUBSET Items] /\ routeUsed \in [Routes -> Nat] /\ used = Charge(items)
      /\ \A q \in Routes : byRoute[q] = On(q, items) /\ routeUsed[q] = Charge(On(q, items))
  BY BooksMeans
<1>4. On(r, T) = On(r, items) \cup {i} /\ On(r, items) \in SUBSET Items /\ i \notin On(r, items) BY DEF On
<1>5. ASSUME NEW q \in Routes \ {r} PROVE On(q, T) = On(q, items) BY DEF On
<1>6. Fitting(T) BY FitsMeans
<1>7. Charge(T) = used' /\ ChargeOf[i] \in Nat
  <2>1. items \in SUBSET Items OBVIOUS
  <2> QED BY <1>2, <1>3, <2>1, OneMore
<1> HIDE DEF r, T
<1>8. Charge(On(r, T)) = Charge(On(r, items)) + ChargeOf[i] BY <1>4, OneMore
<1>9. byRoute' \in [Routes -> SUBSET Items] /\ routeUsed' \in [Routes -> Nat] BY <1>1, <1>2, <1>3, <1>7, SMT
<1>10. ASSUME NEW q \in Routes
       PROVE  byRoute'[q] = On(q, T) /\ routeUsed'[q] = Charge(On(q, T))
  <2>1. CASE q = r BY <1>1, <1>2, <1>3, <1>4, <1>8, <2>1
  <2>2. CASE q # r BY <1>1, <1>2, <1>3, <1>5, <2>2
  <2> QED BY <2>1, <2>2
<1>11. ASSUME NEW q \in Routes PROVE On(q, T) = {j \in T : RouteOf[j] = q} BY DEF On
<1>12. used' = Charge(items') /\ used' <= Capacity /\ Cardinality(items') <= MaxStoredItems
  BY <1>2, <1>6, <1>7 DEF Fitting
<1>13. ASSUME NEW q \in Routes
       PROVE  /\ byRoute'[q] = {j \in items' : RouteOf[j] = q}
              /\ routeUsed'[q] = Charge(byRoute'[q]) /\ routeUsed'[q] <= RouteQuota
              /\ Cardinality(byRoute'[q]) <= MaxItemsPerRoute
  BY <1>2, <1>6, <1>10, <1>11 DEF Fitting
<1> QED BY <1>9, <1>12, <1>13 DEF Books, AccountingExact

(* So does dropping items; a route that loses its last item counts nothing. *)
LEMMA RemoveBooks ==
  ASSUME Books, items \subseteq Items, NEW S \in SUBSET items, RemoveFromIndex(S)
  PROVE  Books'
<1> DEFINE T == items \ S
<1>1. /\ items' = T /\ used' = used - Charge(S)
      /\ byRoute' = [r \in Routes |-> byRoute[r] \ S]
      /\ routeUsed' = [r \in Routes |-> RouteUsedWithout(r, S)]
  BY DEF RemoveFromIndex
<1>2. /\ byRoute \in [Routes -> SUBSET Items] /\ routeUsed \in [Routes -> Nat] /\ used = Charge(items)
      /\ \A q \in Routes : byRoute[q] = On(q, items) /\ routeUsed[q] = Charge(On(q, items))
  BY BooksMeans
<1>3. Fitting(T) BY FittingPart, BooksMeans
<1>4. used' = Charge(T) BY <1>1, <1>2, ChargeWithout
<1>5. ASSUME NEW r \in Routes
      PROVE  /\ byRoute'[r] = On(r, T) /\ routeUsed'[r] = Charge(On(r, T))
             /\ byRoute'[r] \in SUBSET Items /\ routeUsed'[r] \in Nat
  <2> DEFINE B == On(r, items)
             D == S \cap B
  <2>1. B \in SUBSET Items /\ D \in SUBSET B /\ On(r, T) = B \ D /\ B \ D = B \ S /\ B \ D \in SUBSET Items BY DEF On
  <2>2. byRoute[r] = B /\ routeUsed[r] = Charge(B) BY <1>2
  <2>3. byRoute'[r] = B \ S BY <1>1, <2>2
  <2>4. routeUsed'[r] = IF B \ S = {} THEN 0 ELSE Charge(B) - Charge(D) BY <1>1, <2>2 DEF RouteUsedWithout
  <2> HIDE DEF B, D, T
  <2>5. Charge(B \ D) = Charge(B) - Charge(D) BY <2>1, ChargeWithout
  <2>6. Charge(B \ D) \in Nat /\ (B \ D = {} => Charge(B \ D) = 0) BY <2>1, ChargeType
  <2>7. routeUsed'[r] = Charge(B \ D) BY <2>1, <2>4, <2>5, <2>6
  <2> QED BY <2>1, <2>3, <2>6, <2>7
<1>6. byRoute' \in [Routes -> SUBSET Items] /\ routeUsed' \in [Routes -> Nat] BY <1>1, <1>5
<1>7. ASSUME NEW q \in Routes PROVE On(q, T) = {j \in T : RouteOf[j] = q} BY DEF On
<1> HIDE DEF T
<1> QED BY <1>1, <1>3, <1>4, <1>5, <1>6, <1>7 DEF Books, AccountingExact, Fitting

(* An index that was just made is in order. *)
LEMMA EmptyBooks ==
  ASSUME items' = {}, used' = 0, byRoute' = [r \in Routes |-> {}], routeUsed' = [r \in Routes |-> 0]
  PROVE  Books'
<1>1. Charge({}) = 0 /\ Cardinality({}) = 0 BY ChargeType, FS_EmptySet
<1>2. \A r \in Routes : {i \in items' : RouteOf[i] = r} = {} OBVIOUS
<1> QED BY <1>1, <1>2, Limits, SMT DEF Books, AccountingExact

(* The inductive invariant of the accounts. *)
BInv == Known /\ Exclusive /\ RoomKept /\ Books

(* What handlers and maps hold stays of its type. *)
LEMMA KnownStep ==
  ASSUME IInv, Known, [Next]_vars
  PROVE  Known'
<1> USE DEF Known, IInv, Shape, index, loading, requests, directory, history
<1>1. CASE NewDiskStore \/ LoadDone \/ Close BY <1>1 DEF NewDiskStore, LoadDone, Close
<1>2. CASE LoadFile
  <2> USE <1>2
  <2>1. PICK i \in unread : disk' \in {disk, disk \ {i}} /\ dirty' \in {dirty, dirty \cup {i}} BY DEF LoadFile
  <2>2. UNCHANGED requests /\ i \in disk BY DEF LoadFile, LoadsAlone
  <2> QED BY <2>1, <2>2
<1>3. ASSUME NEW h \in Handlers, NEW i \in Items, HandleStore(h, i) \/ HandleDelete(h, i) PROVE Known'
  BY <1>3 DEF HandleStore, HandleDelete
<1>4. ASSUME NEW h \in Handlers, PutRefuse(h) \/ PutDuplicate(h) \/ DeleteRefuse(h) PROVE Known'
  BY <1>4 DEF PutRefuse, PutDuplicate, DeleteRefuse, Respond
<1>5. ASSUME NEW h \in Handlers, PutRename(h) PROVE Known'
  <2> USE <1>5
  <2>1. target[h] \in Items BY DEF PutRename
  <2>2. disk' \in {disk, disk \cup {target[h]}} /\ dirty' \in {dirty, dirty \cup {target[h]}} BY DEF PutRename
  <2>3. \/ pc' = [pc EXCEPT ![h] = "putSync"] /\ UNCHANGED target
        \/ Respond(h)
    BY DEF PutRename
  <2>4. \A g \in Handlers : pc'[g] # "idle" => target'[g] \in Items BY <2>1, <2>3 DEF Respond
  <2> QED BY <2>1, <2>2, <2>4
<1>6. ASSUME NEW h \in Handlers, PutSync(h) \/ DeleteSync(h) PROVE Known'
  <2>1. disk' = disk /\ dirty' \in {dirty, {}} /\ Respond(h) BY <1>6 DEF PutSync, DeleteSync, SyncDirectory
  <2> QED BY <2>1 DEF Respond
<1>7. ASSUME NEW h \in Handlers, DeleteRemove(h) PROVE Known'
  <2>1. /\ target[h] \in Items /\ pc' = [pc EXCEPT ![h] = "delSync"] /\ target' = target
        /\ disk' = disk \ {target[h]} /\ dirty' = dirty \cup {target[h]}
    BY <1>7 DEF DeleteRemove, RemoveFiles
  <2> QED BY <2>1
<1>8. CASE Sweep
  <2> USE <1>8
  <2>1. PICK S \in SUBSET items : disk' = disk \ S /\ dirty' = dirty \cup S
    BY DEF Sweep, Sweepable, RemoveFiles
  <2>2. UNCHANGED requests BY DEF Sweep
  <2> QED BY <2>1, <2>2 DEF IndexedOnDisk
<1>9. CASE SweepSync
  <2>1. disk' = disk /\ dirty' \in {dirty, {}} /\ UNCHANGED requests BY <1>9 DEF SweepSync, SyncDirectory
  <2> QED BY <2>1
<1>10. CASE ProcessCrash \/ PowerLoss
  <2> USE <1>10
  <2>1. pc' = [h \in Handlers |-> "idle"] BY DEF ProcessCrash, PowerLoss, ProcessDies
  <2>2. disk' \subseteq disk \cup dirty /\ dirty' \in {dirty, {}} BY DEF ProcessCrash, PowerLoss
  <2> QED BY <2>1, <2>2
<1>11. CASE UNCHANGED vars \/ \E i \in Items : Expire(i) BY <1>11 DEF vars, Expire
<1> QED BY <1>1, <1>2, <1>3, <1>4, <1>5, <1>6, <1>7, <1>8, <1>9, <1>10, <1>11 DEF Next, HandlerStep

(* A section starts only when no other is under way, in an open store. *)
LEMMA ExclusiveStep ==
  ASSUME IInv, Exclusive, [Next]_vars
  PROVE  Exclusive'
<1> USE DEF IInv, Shape, Syncing, index, loading, requests, directory, history
<1>1. CASE NewDiskStore
  <2>1. status' = "loading" /\ UNCHANGED <<sweeping, pc>> /\ \A h \in Handlers : pc[h] = "idle"
    BY <1>1 DEF NewDiskStore
  <2> QED BY <2>1 DEF Exclusive
<1>2. CASE LoadFile BY <1>2 DEF LoadFile, Exclusive
<1>3. CASE LoadDone BY <1>3 DEF LoadDone, LoadsAlone, Exclusive
<1>4. CASE Close BY <1>4 DEF Close, Unlocked, Exclusive
<1>5. ASSUME NEW h \in Handlers, NEW p \in {"put", "delete", "idle"},
             pc' = [pc EXCEPT ![h] = p], UNCHANGED <<status, unread, sweeping>>
      PROVE  Exclusive'
  <2> USE <1>5
  <2>1. \A g \in Handlers : Syncing(g)' => Syncing(g) OBVIOUS
  <2> QED BY <2>1 DEF Exclusive
<1>6. ASSUME NEW h \in Handlers, PutRename(h) \/ DeleteRemove(h) PROVE Exclusive'
  <2> USE <1>6
  <2>1. Unlocked /\ status = "open" /\ UNCHANGED <<status, unread, sweeping>>
    BY DEF PutRename, DeleteRemove
  <2>2. pc' \in {[pc EXCEPT ![h] = "putSync"], [pc EXCEPT ![h] = "delSync"], [pc EXCEPT ![h] = "idle"]}
    BY DEF PutRename, DeleteRemove, Respond
  <2>3. \A g \in Handlers : Syncing(g)' => g = h BY <2>1, <2>2 DEF Unlocked
  <2> QED BY <2>1, <2>3 DEF Exclusive, Unlocked
<1>7. ASSUME NEW h \in Handlers, HandlerStep(h) \/ \E i \in Items : HandleStore(h, i) \/ HandleDelete(h, i) PROVE Exclusive'
  <2>1. CASE PutRename(h) \/ DeleteRemove(h) BY <2>1, <1>6
  <2>2. CASE PutRefuse(h) \/ PutDuplicate(h) \/ PutSync(h) \/ DeleteRefuse(h) \/ DeleteSync(h)
    <3>1. pc' = [pc EXCEPT ![h] = "idle"] /\ UNCHANGED <<status, unread, sweeping>>
      BY <2>2 DEF PutRefuse, PutDuplicate, PutSync, DeleteRefuse, DeleteSync, Respond
    <3> QED BY <3>1, <1>5
  <2>3. CASE \E i \in Items : HandleStore(h, i) \/ HandleDelete(h, i)
    <3> USE <2>3
    <3>1. UNCHANGED <<status, unread, sweeping>> BY DEF HandleStore, HandleDelete
    <3>2. \E p \in {"put", "delete"} : pc' = [pc EXCEPT ![h] = p] BY DEF HandleStore, HandleDelete
    <3> QED BY <3>1, <3>2, <1>5
  <2> QED BY <1>7, <2>1, <2>2, <2>3 DEF HandlerStep
<1>8. CASE Sweep
  <2>1. Unlocked /\ status = "open" /\ UNCHANGED <<status, unread, pc>> BY <1>8 DEF Sweep
  <2> QED BY <2>1 DEF Unlocked, Exclusive
<1>9. CASE SweepSync
  <2>1. sweeping' = FALSE /\ UNCHANGED <<status, unread, pc>> BY <1>9 DEF SweepSync
  <2> QED BY <2>1 DEF Exclusive
<1>10. CASE ProcessCrash \/ PowerLoss
  <2>1. pc' = [h \in Handlers |-> "idle"] /\ unread' = {} BY <1>10 DEF ProcessCrash, PowerLoss, ProcessDies
  <2> QED BY <2>1 DEF Exclusive
<1>11. CASE UNCHANGED vars \/ \E i \in Items : Expire(i) BY <1>11, SMT DEF vars, Expire, Exclusive
<1> QED BY <1>1, <1>2, <1>3, <1>4, <1>7, <1>8, <1>9, <1>10, <1>11 DEF Next

(* While a Put waits for its fsync nothing else changes the index. *)
LEMMA RoomStep ==
  ASSUME IInv, Exclusive, RoomKept, [Next]_vars
  PROVE  RoomKept'
<1> USE DEF IInv, Shape, Syncing, loading, requests, directory, history
<1>1. ASSUME UNCHANGED index, \A h \in Handlers : pc'[h] = "putSync" => pc[h] = "putSync" /\ target'[h] = target[h]
      PROVE  RoomKept'
  BY <1>1 DEF RoomKept, Fits, StorageFull, MailboxFull, index
<1>2. ASSUME \A h \in Handlers : pc'[h] # "putSync" PROVE RoomKept' BY <1>2 DEF RoomKept
<1>3. CASE NewDiskStore \/ ProcessCrash \/ PowerLoss
  <2>1. \A h \in Handlers : pc'[h] = "idle" BY <1>3 DEF NewDiskStore, ProcessCrash, PowerLoss, ProcessDies
  <2> QED BY <2>1, <1>2
<1>4. CASE LoadFile
  <2>1. pc' = pc /\ \A h \in Handlers : pc[h] = "idle" BY <1>4 DEF LoadFile, LoadsAlone
  <2> QED BY <2>1, <1>2
<1>5. CASE LoadDone \/ Close \/ SweepSync \/ UNCHANGED vars \/ \E i \in Items : Expire(i)
  <2>1. UNCHANGED <<index, pc, target>> BY <1>5 DEF LoadDone, Close, SweepSync, vars, Expire
  <2> QED BY <2>1, <1>1
<1>6. CASE Sweep
  <2>1. pc' = pc /\ \A h \in Handlers : pc[h] # "putSync" BY <1>6 DEF Sweep, Unlocked
  <2> QED BY <2>1, <1>2
<1>7. ASSUME NEW h \in Handlers, HandlerStep(h) \/ \E i \in Items : HandleStore(h, i) \/ HandleDelete(h, i) PROVE RoomKept'
  <2>1. CASE PutRename(h)
    <3> USE <2>1
    <3>1. UNCHANGED index /\ target[h] \notin items /\ Fits(target[h]) /\ \A g \in Handlers : pc[g] # "putSync"
      BY DEF PutRename, Unlocked
    <3>2. \/ pc' = [pc EXCEPT ![h] = "putSync"] /\ UNCHANGED target
          \/ pc' = [pc EXCEPT ![h] = "idle"]
      BY DEF PutRename, Respond
    <3>3. ASSUME NEW g \in Handlers, pc'[g] = "putSync" PROVE target'[g] \notin items' /\ Fits(target[h]) /\ target'[g] = target[h]
      BY <3>1, <3>2, <3>3 DEF index
    <3> QED BY <3>1, <3>3 DEF RoomKept, Fits, StorageFull, MailboxFull, index
  <2>2. CASE PutSync(h)
    <3>1. pc' = [pc EXCEPT ![h] = "idle"] /\ pc[h] = "putSync" BY <2>2 DEF PutSync, Respond
    <3>2. \A g \in Handlers : pc'[g] # "putSync" BY <3>1 DEF Exclusive
    <3> QED BY <3>2, <1>2
  <2>3. CASE DeleteRemove(h)
    <3>1. pc' = [pc EXCEPT ![h] = "delSync"] /\ \A g \in Handlers : pc[g] # "putSync" BY <2>3 DEF DeleteRemove, Unlocked
    <3> QED BY <3>1, <1>2
  <2>4. CASE PutRefuse(h) \/ PutDuplicate(h) \/ DeleteRefuse(h) \/ DeleteSync(h)
    <3>1. UNCHANGED index /\ Respond(h)
      BY <2>4 DEF PutRefuse, PutDuplicate, DeleteRefuse, DeleteSync
    <3> QED BY <3>1, <1>1 DEF Respond
  <2>5. CASE \E i \in Items : HandleStore(h, i) \/ HandleDelete(h, i)
    <3> USE <2>5
    <3>1. UNCHANGED index BY DEF HandleStore, HandleDelete
    <3>2. \E p \in {"put", "delete"}, i \in Items : pc' = [pc EXCEPT ![h] = p] /\ target' = [target EXCEPT ![h] = i]
      BY DEF HandleStore, HandleDelete
    <3> QED BY <3>1, <3>2, <1>1
  <2> QED BY <1>7, <2>1, <2>2, <2>3, <2>4, <2>5 DEF HandlerStep
<1> QED BY <1>3, <1>4, <1>5, <1>6, <1>7 DEF Next

(* Every step that changes the index is one of the three above. *)
LEMMA BooksStep ==
  ASSUME IInv, BInv, [Next]_vars
  PROVE  Books'
<1> USE DEF IInv, BInv, Shape, loading, requests, directory, history
<1>1. items \subseteq Items BY DEF Known, IndexedOnDisk
<1>2. ASSUME UNCHANGED index PROVE Books' BY <1>2 DEF Books, AccountingExact, index
<1>3. ASSUME NEW S \in SUBSET items, RemoveFromIndex(S) PROVE Books' BY <1>1, <1>3, RemoveBooks
<1>4. CASE NewDiskStore \/ ProcessCrash \/ PowerLoss
  BY <1>4, EmptyBooks DEF NewDiskStore, ProcessCrash, PowerLoss, ProcessDies
<1>5. CASE LoadFile
  <2> USE <1>5
  <2>1. PICK i \in unread : (Fits(i) /\ AddToIndex(i)) \/ UNCHANGED index BY DEF LoadFile
  <2>2. i \in Items \ items BY DEF LoadFile, LoadsAlone, Known
  <2> QED BY <1>1, <1>2, <2>1, <2>2, AddBooks
<1>6. CASE LoadDone \/ Close \/ SweepSync \/ UNCHANGED vars \/ \E i \in Items : Expire(i)
  BY <1>2, <1>6 DEF LoadDone, Close, SweepSync, vars, Expire
<1>7. CASE Sweep
  <2>1. PICK S \in SUBSET Sweepable : RemoveFiles(S) BY <1>7 DEF Sweep
  <2> QED BY <2>1, <1>3 DEF RemoveFiles, Sweepable
<1>8. ASSUME NEW h \in Handlers, HandlerStep(h) \/ \E i \in Items : HandleStore(h, i) \/ HandleDelete(h, i) PROVE Books'
  <2>1. CASE PutSync(h)
    <3> USE <2>1
    <3>1. AddToIndex(target[h]) \/ UNCHANGED index BY DEF PutSync
    <3>2. target[h] \in Items \ items /\ Fits(target[h]) BY DEF PutSync, Known, RoomKept
    <3> QED BY <1>1, <1>2, <3>1, <3>2, AddBooks
  <2>2. CASE DeleteRemove(h)
    <3>1. target[h] \in items /\ RemoveFromIndex({target[h]}) BY <2>2 DEF DeleteRemove, StillIndexed, RemoveFiles
    <3> QED BY <3>1, <1>3
  <2>3. CASE PutRefuse(h) \/ PutDuplicate(h) \/ PutRename(h) \/ DeleteRefuse(h) \/ DeleteSync(h)
             \/ \E i \in Items : HandleStore(h, i) \/ HandleDelete(h, i)
    BY <1>2, <2>3 DEF PutRefuse, PutDuplicate, PutRename, DeleteRefuse, DeleteSync, HandleStore, HandleDelete
  <2> QED BY <1>8, <2>1, <2>2, <2>3 DEF HandlerStep
<1> QED BY <1>4, <1>5, <1>6, <1>7, <1>8 DEF Next

(* A store that is not open has empty accounts. *)
LEMMA InitBInv == Init => BInv
<1> SUFFICES ASSUME Init PROVE BInv OBVIOUS
<1>1. Charge({}) = 0 /\ Cardinality({}) = 0 BY ChargeType, FS_EmptySet
<1>2. \A r \in Routes : {i \in items : RouteOf[i] = r} = {} BY DEF Init
<1>3. Books BY <1>1, <1>2, Limits, SMT DEF Init, Books, AccountingExact
<1> QED BY <1>3 DEF Init, BInv, Known, Exclusive, RoomKept, Syncing

(* The invariant of the accounts holds. *)
LEMMA BooksInvariant == Spec => []BInv
<1>1. IInv /\ BInv /\ [Next]_vars => BInv' BY KnownStep, ExclusiveStep, RoomStep, BooksStep DEF BInv
<1> QED BY <1>1, InitBInv, StoreInvariant, PTL DEF Spec

(* Whatever requests, sweeps, failures and restarts do, the four maps of   *)
(* the index stay in step and no limit is passed: the check that Put makes *)
(* before it writes still holds when it indexes after its fsync.           *)
THEOREM AccountsBalance == Spec => []AccountingExact
BY BooksInvariant, PTL DEF BInv, Books

-----------------------------------------------------------------------------
(* Acknowledged items survive *)

(* The lost fsync is remembered. *)
LEMMA SlipsLast ==
  ASSUME [Next]_vars, ~slipped'
  PROVE  ~slipped
<1> USE DEF directory
<1>1. CASE NewDiskStore \/ LoadFile \/ LoadDone \/ Close BY <1>1 DEF NewDiskStore, LoadFile, LoadDone, Close
<1>2. ASSUME NEW h \in Handlers, HandlerStep(h) \/ \E i \in Items : HandleStore(h, i) \/ HandleDelete(h, i) PROVE ~slipped
  BY <1>2 DEF HandlerStep, HandleStore, HandleDelete, PutRefuse, PutDuplicate, PutRename, PutSync,
              DeleteRefuse, DeleteRemove, DeleteSync, SyncDirectory, RemoveFiles
<1>3. CASE Sweep \/ SweepSync \/ ProcessCrash \/ PowerLoss
  BY <1>3 DEF Sweep, SweepSync, SyncDirectory, RemoveFiles, ProcessCrash, PowerLoss
<1>4. CASE UNCHANGED vars \/ \E i \in Items : Expire(i) BY <1>4 DEF vars, Expire
<1> QED BY <1>1, <1>2, <1>3, <1>4 DEF Next

(* The files a restart would keep are items of the model. *)
LEMMA LiveKnown ==
  ASSUME Known
  PROVE  (disk \cup dirty) \ expired \in SUBSET Items
BY DEF Known

(* Fewer files fit as well. *)
LEMMA ReloadFewer ==
  ASSUME Known, ReloadFits, (disk' \cup dirty') \ expired' \subseteq (disk \cup dirty) \ expired
  PROVE  ReloadFits'
BY LiveKnown, FittingPart DEF ReloadFits, Fitting, On

(* Time, and requests that come and go, change no file and no entry. *)
LEMMA QuietSurvives ==
  ASSUME IInv, BInv, FilesSafe, UNCHANGED <<items, unread, disk, dirty, owed>>, expired \subseteq expired',
         status' = status \/ (status' \in {"open", "closed"} /\ status = "open"),
         \A h \in Handlers : Syncing(h) \/ Syncing(h)' => pc'[h] = pc[h] /\ target'[h] = target[h]
  PROVE  FilesSafe'
<1> USE DEF FilesSafe
<1>1. ReloadFits' BY ReloadFewer DEF BInv
<1>2. SyncTargets' = SyncTargets BY DEF SyncTargets, Syncing
<1>3. Covered' BY <1>2 DEF Covered
<1>4. LoadFits'
  <2> SUFFICES ASSUME status' = "loading" PROVE Fitting(items' \cup (unread' \ expired'))
    BY DEF LoadFits, Fitting, On
  <2>1. Fitting(items \cup (unread \ expired)) BY DEF LoadFits
  <2>2. items \cup (unread \ expired) \in SUBSET Items BY DEF IInv, BInv, Known, IndexedOnDisk, LoadsAlone
  <2>3. items' \cup (unread' \ expired') \subseteq items \cup (unread \ expired) OBVIOUS
  <2> QED BY <2>1, <2>2, <2>3, FittingPart
<1>5. PendingFiles' BY SMT DEF PendingFiles, Syncing
<1>6. OwedKept' BY DEF OwedKept
<1> QED BY <1>1, <1>3, <1>4, <1>5, <1>6

(* No section is under way: the pending files and targets are none. *)
LEMMA NoSection ==
  ASSUME \A h \in Handlers : ~Syncing(h)
  PROVE  SyncTargets = {} /\ (PendingFiles => dirty \cap disk = {})
BY DEF SyncTargets, PendingFiles, Syncing

(* Opening: what was covered by the old index is read again, it fits, and  *)
(* only expired files are dropped.                                         *)
LEMMA OpeningSurvives ==
  ASSUME IInv, BInv, FilesSafe, ~slipped', NewDiskStore \/ LoadFile \/ LoadDone
  PROVE  FilesSafe'
<1> USE DEF FilesSafe, loading, requests, directory, index, history
<1>1. \A h \in Handlers : ~Syncing(h) /\ ~Syncing(h)'
  BY DEF NewDiskStore, LoadFile, LoadDone, IInv, LoadsAlone, Syncing
<1>2. SyncTargets = {} /\ SyncTargets' = {} /\ dirty \cap disk = {} BY <1>1, NoSection DEF SyncTargets
<1>3. items \subseteq disk BY DEF IInv, IndexedOnDisk
<1>4. CASE NewDiskStore
  <2>1. /\ items' = {} /\ unread' = disk /\ status' = "loading" /\ status \in {"down", "closed"}
        /\ UNCHANGED <<disk, dirty, owed, expired>>
    BY <1>4 DEF NewDiskStore
  <2>2. ReloadFits' BY <2>1, ReloadFewer DEF BInv
  <2>3. (disk \cup dirty) \ expired \subseteq disk
    <3>1. unread = {} BY <2>1 DEF BInv, Exclusive
    <3> QED BY <1>2, <1>3, <3>1 DEF Covered
  <2>4. Covered' BY <2>1, <2>3 DEF Covered
  <2>5. LoadFits'
    <3>1. items' \cup (unread' \ expired') = disk \ expired BY <2>1
    <3>2. Fitting(disk \ expired) BY LiveKnown, FittingPart DEF BInv, ReloadFits
    <3> QED BY <3>1, <3>2 DEF LoadFits, Fitting, On
  <2>6. PendingFiles' /\ OwedKept' BY <2>1, <1>2 DEF PendingFiles, OwedKept
  <2> QED BY <2>2, <2>4, <2>5, <2>6
<1>5. CASE LoadFile
  <2> USE <1>5
  <2>1. PICK i \in unread :
          /\ unread' = unread \ {i}
          /\ \/ i \notin expired /\ Fits(i) /\ items' = items \cup {i} /\ UNCHANGED <<disk, dirty, owed>>
             \/ /\ i \in expired \/ ~Fits(i)
                /\ \/ disk' = disk \ {i} /\ dirty' = dirty \cup {i}
                   \/ UNCHANGED <<disk, dirty>>
                /\ owed' = owed \ (expired \cap {i}) /\ items' = items
    BY DEF LoadFile, AddToIndex
  <2>2. UNCHANGED <<status, expired>> /\ status = "loading" BY DEF LoadFile
  <2>3. unread \subseteq disk \ items /\ unread \subseteq Items /\ items \subseteq Items
    BY <2>2, <1>3 DEF IInv, LoadsAlone, BInv, Known
  <2>4. i \in Items \ items BY <2>3
  <2> DEFINE L == items \cup (unread \ expired)
  <2>5. Fitting(L) /\ L \in SUBSET Items BY <2>2, <2>3 DEF LoadFits
  <2>6. i \notin expired => Fits(i)
    <3> SUFFICES ASSUME i \notin expired PROVE Fits(i) OBVIOUS
    <3>1. items \cup {i} \in SUBSET L OBVIOUS
    <3> HIDE DEF L
    <3>2. Fitting(items \cup {i}) BY <2>5, <3>1, FittingPart
    <3> QED BY <2>3, <2>4, <3>2, FitsMeans DEF BInv
  <2>7. disk' \cup dirty' = disk \cup dirty BY <2>1, <2>3
  <2>8. Covered'
    <3>1. (disk \cup dirty) \ expired \subseteq items \cup unread BY <1>2, <2>2 DEF Covered
    <3>2. i \in expired \/ i \in items' BY <2>1, <2>6
    <3>3. (disk \cup dirty) \ expired \subseteq items' \cup unread' BY <2>1, <3>1, <3>2
    <3> QED BY <1>2, <2>2, <2>7, <3>3 DEF Covered
  <2>9. items' \cup (unread' \ expired') \subseteq L BY <2>1, <2>2
  <2>10. Fitting(items' \cup (unread' \ expired')) BY <2>5, <2>9, FittingPart
  <2>11. LoadFits' BY <2>10 DEF LoadFits, Fitting, On
  <2>12. PendingFiles' BY <1>2, <2>1 DEF PendingFiles
  <2>13. OwedKept' BY <2>1, <2>2, <2>6 DEF OwedKept
  <2>14. ReloadFits' BY <2>2, <2>7, ReloadFewer DEF BInv
  <2> QED BY <2>8, <2>11, <2>12, <2>13, <2>14
<1>6. CASE LoadDone
  <2>1. UNCHANGED <<items, unread, disk, owed, expired>> /\ dirty' \in {dirty, {}} /\ status' = "open" /\ status = "loading"
    BY <1>6 DEF LoadDone
  <2>2. ReloadFits' BY <2>1, ReloadFewer DEF BInv
  <2>3. Covered' /\ LoadFits' BY <1>2, <2>1 DEF Covered, LoadFits
  <2>4. PendingFiles' /\ OwedKept' BY <1>2, <2>1 DEF PendingFiles, OwedKept
  <2> QED BY <2>2, <2>3, <2>4
<1> QED BY <1>4, <1>5, <1>6

(* Put acknowledges an item that is indexed and durable. *)
LEMMA PutSurvives ==
  ASSUME IInv, BInv, FilesSafe, ~slipped', NEW h \in Handlers, PutDuplicate(h) \/ PutRename(h) \/ PutSync(h)
  PROVE  FilesSafe'
<1> USE DEF FilesSafe, loading, requests, directory, index, history
<1>1. status = "open" /\ status' = status /\ unread = {} /\ UNCHANGED <<unread, expired>> /\ items \subseteq disk
  BY DEF PutDuplicate, PutRename, PutSync, IInv, BInv, IndexedOnDisk, Exclusive, Syncing
<1>2. LoadFits' BY <1>1 DEF LoadFits
<1>3. pc \in [Handlers -> Positions] /\ target \in [Handlers -> Items \cup {None}] BY DEF IInv, Shape
<1> DEFINE t == target[h]
<1>4. CASE PutDuplicate(h)
  <2> USE <1>4
  <2>1. UNCHANGED <<items, disk, dirty>> /\ owed' = owed \cup {t} /\ Respond(h) /\ t \in items
    BY DEF PutDuplicate
  <2>2. \A g \in Handlers : ~Syncing(g) /\ ~Syncing(g)' BY <1>3, <2>1 DEF PutDuplicate, Unlocked, Syncing, Respond
  <2>3. SyncTargets = {} /\ SyncTargets' = {} /\ dirty \cap disk = {} BY <2>2, NoSection DEF SyncTargets
  <2>4. ReloadFits' BY <1>1, <2>1, ReloadFewer DEF BInv
  <2>5. Covered' BY <1>1, <2>1, <2>3 DEF Covered
  <2>6. PendingFiles' BY <2>1, <2>3 DEF PendingFiles
  <2>7. OwedKept' BY <1>1, <2>1, <2>3 DEF OwedKept
  <2> QED BY <1>2, <2>4, <2>5, <2>6, <2>7
<1>5. CASE PutRename(h)
  <2> USE <1>5
  <2>1. UNCHANGED <<items, owed>> /\ t \notin items /\ Fits(t) /\ t \in Items BY DEF PutRename, BInv, Known
  <2>2. \A g \in Handlers : ~Syncing(g) BY DEF PutRename, Unlocked, Syncing
  <2>3. SyncTargets = {} /\ dirty \cap disk = {} BY <2>2, NoSection
  <2>4. (disk \cup dirty) \ expired \subseteq items BY <1>1, <2>3 DEF Covered
  <2>5. CASE Respond(h) /\ UNCHANGED <<disk, dirty>>
    <3> USE <2>5
    <3>1. \A g \in Handlers : ~Syncing(g)' BY <1>3, <2>2 DEF Syncing, Respond
    <3>2. SyncTargets' = {} BY <3>1 DEF SyncTargets
    <3>3. ReloadFits' BY <1>1, ReloadFewer DEF BInv
    <3>4. Covered' BY <1>1, <2>1, <2>4, <3>2 DEF Covered
    <3>5. PendingFiles' /\ OwedKept' BY <1>1, <2>1, <2>3 DEF PendingFiles, OwedKept
    <3> QED BY <1>2, <3>3, <3>4, <3>5
  <2>6. CASE /\ disk' = disk \cup {t} /\ dirty' = dirty \cup {t}
             /\ pc' = [pc EXCEPT ![h] = "putSync"] /\ UNCHANGED target
    <3> USE <2>6
    <3>1. SyncTargets' = {t}
      <4>1. \A g \in Handlers : Syncing(g)' <=> g = h BY <1>3, <2>2 DEF Syncing
      <4> QED BY <4>1 DEF SyncTargets
    <3>2. ReloadFits'
      <4>1. Fitting(items \cup {t}) BY <2>1, FitsMeans DEF BInv, Known, IInv, IndexedOnDisk
      <4>2. items \cup {t} \in SUBSET Items BY <1>1, <2>1 DEF BInv, Known
      <4>3. (disk' \cup dirty') \ expired' \in SUBSET (items \cup {t}) BY <1>1, <2>4
      <4>4. Fitting((disk' \cup dirty') \ expired') BY <4>1, <4>2, <4>3, FittingPart
      <4> QED BY <4>4 DEF ReloadFits, Fitting, On
    <3>3. Covered' BY <1>1, <2>1, <2>4, <3>1 DEF Covered
    <3>4. PendingFiles'
      <4>1. \A i \in dirty' \cap disk' : i = t BY <1>1, <2>3 DEF OwedKept
      <4>2. pc'[h] = "putSync" /\ target'[h] = t BY <1>3
      <4> QED BY <4>1, <4>2 DEF PendingFiles
    <3>5. OwedKept' BY <1>1, <2>1 DEF OwedKept
    <3> QED BY <1>2, <3>2, <3>3, <3>4, <3>5
  <2> QED BY <2>5, <2>6 DEF PutRename
<1>6. CASE PutSync(h)
  <2> USE <1>6
  <2>1. items' = items \cup {t} /\ owed' = owed \cup {t} /\ dirty' = {} /\ disk' = disk /\ Respond(h)
    BY DEF PutSync, SyncDirectory, AddToIndex
  <2>2. pc[h] = "putSync" /\ t \in disk BY DEF PutSync, IInv, AtSync
  <2>3. \A g \in Handlers : Syncing(g) <=> g = h BY <2>2 DEF BInv, Exclusive, Syncing
  <2>4. SyncTargets = {t} BY <2>3 DEF SyncTargets
  <2>5. ReloadFits' BY <1>1, <2>1, ReloadFewer DEF BInv
  <2>6. Covered' BY <1>1, <2>1, <2>4 DEF Covered
  <2>7. PendingFiles' /\ OwedKept' BY <1>1, <2>1, <2>2 DEF PendingFiles, OwedKept
  <2> QED BY <1>2, <2>5, <2>6, <2>7
<1> QED BY <1>4, <1>5, <1>6

(* Files are removed only with their entry and their acknowledgement. *)
LEMMA RemoveSurvives ==
  ASSUME IInv, BInv, FilesSafe, ~slipped', Sweep \/ SweepSync \/ \E h \in Handlers : DeleteRemove(h) \/ DeleteSync(h)
  PROVE  FilesSafe'
<1> USE DEF FilesSafe, loading, requests, directory, index, history
<1>1. pc \in [Handlers -> Positions] /\ target \in [Handlers -> Items \cup {None}] /\ items \subseteq disk
  BY DEF IInv, Shape, IndexedOnDisk
<1>2. CASE Sweep
  <2> USE <1>2
  <2>1. status = "open" /\ unread = {} /\ UNCHANGED <<status, unread, expired, pc, target>>
    BY DEF Sweep, BInv, Exclusive
  <2>2. \A g \in Handlers : ~Syncing(g) /\ ~Syncing(g)' BY <2>1 DEF Sweep, Unlocked, Syncing
  <2>3. SyncTargets = {} /\ SyncTargets' = {} /\ dirty \cap disk = {} BY <2>2, NoSection DEF SyncTargets
  <2>4. PICK S \in SUBSET (expired \cap items) :
          disk' = disk \ S /\ dirty' = dirty \cup S /\ items' = items \ S /\ owed' = owed \ S
    BY DEF Sweep, Sweepable, RemoveFiles, RemoveFromIndex
  <2>5. disk' \cup dirty' = disk \cup dirty BY <1>1, <2>4
  <2>6. ReloadFits' BY <2>1, <2>5, ReloadFewer DEF BInv
  <2>7. Covered' /\ LoadFits' BY <2>1, <2>3, <2>4, <2>5 DEF Covered, LoadFits
  <2>8. PendingFiles' /\ OwedKept' BY <2>1, <2>3, <2>4 DEF PendingFiles, OwedKept
  <2> QED BY <2>6, <2>7, <2>8
<1>3. CASE SweepSync
  <2>1. UNCHANGED <<items, unread, status, expired, pc, target, disk, owed>> /\ dirty' = {} /\ sweeping
    BY <1>3 DEF SweepSync, SyncDirectory
  <2>2. SyncTargets' = SyncTargets BY <2>1 DEF SyncTargets, Syncing
  <2>3. ReloadFits' BY <2>1, ReloadFewer DEF BInv
  <2>4. Covered' BY <2>1, <2>2 DEF Covered
  <2>5. LoadFits' BY <2>1 DEF LoadFits, Fitting, On
  <2>6. PendingFiles' /\ OwedKept' BY <2>1 DEF PendingFiles, OwedKept
  <2> QED BY <2>3, <2>4, <2>5, <2>6
<1>4. ASSUME NEW h \in Handlers, DeleteRemove(h) PROVE FilesSafe'
  <2> USE <1>4
  <2> DEFINE t == target[h]
  <2>1. status = "open" /\ unread = {} /\ UNCHANGED <<status, unread, expired, target>>
    BY DEF DeleteRemove, BInv, Exclusive
  <2>2. /\ t \in items /\ pc' = [pc EXCEPT ![h] = "delSync"] /\ disk' = disk \ {t}
        /\ dirty' = dirty \cup {t} /\ items' = items \ {t} /\ owed' = owed \ {t}
    BY DEF DeleteRemove, StillIndexed, RemoveFiles, RemoveFromIndex
  <2>3. \A g \in Handlers : ~Syncing(g) BY DEF DeleteRemove, Unlocked, Syncing
  <2>4. SyncTargets = {} /\ dirty \cap disk = {} BY <2>3, NoSection
  <2>5. SyncTargets' = {t}
    <3>1. \A g \in Handlers : Syncing(g)' <=> g = h BY <1>1, <2>2, <2>3 DEF Syncing
    <3> QED BY <3>1, <2>1 DEF SyncTargets
  <2>6. disk' \cup dirty' = disk \cup dirty BY <1>1, <2>2
  <2>7. ReloadFits' BY <2>1, <2>6, ReloadFewer DEF BInv
  <2>8. Covered' BY <2>1, <2>2, <2>4, <2>5, <2>6 DEF Covered
  <2>9. LoadFits' /\ PendingFiles' /\ OwedKept' BY <2>1, <2>2, <2>4 DEF LoadFits, PendingFiles, OwedKept
  <2> QED BY <2>7, <2>8, <2>9
<1>5. ASSUME NEW h \in Handlers, DeleteSync(h) PROVE FilesSafe'
  <2>1. UNCHANGED <<items, unread, status, disk, expired, owed>> /\ dirty' = {} /\ pc[h] = "delSync"
    BY <1>5 DEF DeleteSync, SyncDirectory
  <2>2. target[h] \notin disk /\ status = "open" BY <2>1 DEF IInv, AtSync, BInv, Exclusive, Syncing
  <2>3. \A g \in Handlers : Syncing(g) <=> g = h BY <2>1 DEF BInv, Exclusive, Syncing
  <2>4. SyncTargets = {target[h]} BY <2>3 DEF SyncTargets
  <2>5. ReloadFits' BY <2>1, ReloadFewer DEF BInv
  <2>6. Covered' BY <2>1, <2>2, <2>4 DEF Covered
  <2>7. LoadFits' /\ PendingFiles' /\ OwedKept' BY <2>1, <2>2 DEF LoadFits, PendingFiles, OwedKept
  <2> QED BY <2>5, <2>6, <2>7
<1> QED BY <1>2, <1>3, <1>4, <1>5

(* A kill with an fsync pending counts as a lost one; a power loss decides *)
(* only entries that nobody was told about.                                *)
LEMMA CrashSurvives ==
  ASSUME IInv, BInv, FilesSafe, ~slipped', ProcessCrash \/ PowerLoss
  PROVE  FilesSafe'
<1> USE DEF FilesSafe
<1>1. status' = "down" /\ UNCHANGED <<expired, owed>> BY DEF ProcessCrash, PowerLoss, ProcessDies, history
<1>2. dirty' = {} /\ disk' \subseteq disk \cup dirty /\ disk \ dirty \subseteq disk' BY DEF ProcessCrash, PowerLoss
<1>3. ReloadFits' BY <1>1, <1>2, ReloadFewer DEF BInv
<1>4. Covered' /\ LoadFits' /\ PendingFiles' /\ OwedKept'
  BY <1>1, <1>2 DEF Covered, LoadFits, PendingFiles, OwedKept
<1> QED BY <1>3, <1>4

(* The invariant behind AckedSurvives holds. *)
LEMMA SurvivalInvariant == Spec => []Survival
<1>1. Init => Survival
  <2> SUFFICES ASSUME Init PROVE FilesSafe BY DEF Survival
  <2>1. (disk \cup dirty) \ expired = {} BY DEF Init
  <2>2. \A r \in Routes : On(r, {}) = {} BY DEF On
  <2>3. Charge({}) = 0 /\ Cardinality({}) = 0 BY ChargeType, FS_EmptySet
  <2>4. ReloadFits BY <2>1, <2>2, <2>3, Limits, SMT DEF ReloadFits, Fitting
  <2> QED BY <2>4 DEF Init, FilesSafe, Covered, LoadFits, PendingFiles, OwedKept
<1>2. ASSUME IInv, BInv, Survival, [Next]_vars PROVE Survival'
  <2> USE <1>2
  <2> SUFFICES ASSUME ~slipped' PROVE FilesSafe' BY DEF Survival
  <2>1. FilesSafe BY SlipsLast DEF Survival
  <2> USE DEF index, loading, requests, directory, history
  <2>2. CASE UNCHANGED vars \/ Close \/ \E i \in Items : Expire(i)
    <3>1. /\ UNCHANGED <<items, unread, disk, dirty, owed, pc, target>> /\ expired \subseteq expired'
          /\ status' = status \/ (status' \in {"open", "closed"} /\ status = "open")
      BY <2>2 DEF vars, Close, Expire
    <3> QED BY <2>1, <3>1, QuietSurvives DEF Syncing
  <2>3. ASSUME NEW h \in Handlers,
               PutRefuse(h) \/ DeleteRefuse(h) \/ \E i \in Items : HandleStore(h, i) \/ HandleDelete(h, i)
        PROVE  FilesSafe'
    <3> USE <2>3
    <3>1. UNCHANGED <<items, unread, disk, dirty, owed, expired, status>>
      BY DEF PutRefuse, DeleteRefuse, HandleStore, HandleDelete
    <3>2. pc[h] \in {"put", "delete", "idle"} BY DEF PutRefuse, DeleteRefuse, HandleStore, HandleDelete, Admitted
    <3>3. PICK p \in {"put", "delete", "idle"}, i \in Items \cup {None} :
            pc' = [pc EXCEPT ![h] = p] /\ target' = [target EXCEPT ![h] = i]
      BY DEF PutRefuse, DeleteRefuse, HandleStore, HandleDelete, Respond
    <3>4. \A g \in Handlers : Syncing(g) \/ Syncing(g)' => pc'[g] = pc[g] /\ target'[g] = target[g]
      BY <3>2, <3>3 DEF IInv, Shape, Syncing
    <3> QED BY <2>1, <3>1, <3>4, QuietSurvives
  <2>4. ASSUME NEW h \in Handlers, HandlerStep(h) PROVE FilesSafe'
    BY <2>1, <2>3, <2>4, PutSurvives, RemoveSurvives DEF HandlerStep
  <2> QED BY <2>1, <2>2, <2>3, <2>4, OpeningSurvives, RemoveSurvives, CrashSurvives DEF Next
<1> QED BY <1>1, <1>2, StoreInvariant, BooksInvariant, PTL DEF Spec

(* An item whose Put was acknowledged is in the index of every open store  *)
(* until it is deleted or expires, through power losses and restarts, as   *)
(* long as no fsync is lost: open reads a durable file for it, and never   *)
(* drops it for want of room.                                              *)
THEOREM AcknowledgedLast == Spec => []AckedSurvives
<1>1. IInv /\ BInv /\ Survival => AckedSurvives
  BY DEF BInv, Exclusive, Survival, FilesSafe, OwedKept, AckedSurvives
<1> QED BY <1>1, StoreInvariant, BooksInvariant, SurvivalInvariant, PTL
=============================================================================

------------------------- MODULE FileTransferProofs -------------------------
(***************************************************************************)
(* For any nodes, quorum, file, limits, devices and faults: a stored file  *)
(* is not lost before a device has had all of it, and a Retrieve of it     *)
(* fails only for want of answers.                                         *)
(***************************************************************************)
EXTENDS FileTransfer, FiniteSetTheorems, TLAPS

HoldersOf(c) == {n \in Nodes : <<c, sender.attempt>> \in held[n]}

(* The chunks that the current call of Store has brought to a quorum. *)
Delivered == {c \in Chunks : sender.st = "stored" \/ (sender.st = "storing" /\ c < sender.next)}

(* Each of them has a quorum of nodes that hold it or have lost something. *)
QuorumLeft ==
  opened = {} => \A c \in Delivered : Cardinality(HoldersOf(c) \cup lossy) >= WriteQuorum

(* Deletions begin after a device has opened the file. *)
DeletesOpened == \A r \in Retrievers : reader[r].st = "delete" => opened # {}

Shape ==
  /\ held = [n \in Nodes |-> held[n]] /\ lossy \subseteq Nodes
  /\ sender \in [st : {"storing", "failed", "stored"}, attempt : Nat, next : Nat]
  /\ DOMAIN reader = Retrievers /\ reader = [r \in Retrievers |-> reader[r]]
  /\ \A r \in Retrievers : "st" \in DOMAIN reader[r]

(* The inductive invariant. *)
IInv == Shape /\ DeletesOpened /\ QuorumLeft

(* The types of what the nodes hold and of how far a Retrieve is. *)
Readers ==
  [st : {"idle", "fetch", "decrypt", "delete", "failed", "kept", "done"}, from : Nat, ask : SUBSET Nodes,
   seen : SUBSET Items, ok : BOOLEAN, best : SUBSET Items, sure : BOOLEAN, missed : SUBSET Nodes, large : BOOLEAN]

ReaderShape ==
  /\ held \in [Nodes -> SUBSET Items] /\ reader \in [Retrievers -> Readers]
  /\ sender.next \in Chunks /\ sender.attempt \in 1..MaxAttempts

(* A call of Retrieve that Retrievable is about, and one that may fail. *)
Counts(x) == x.sure /\ opened = {} /\ ~x.large
MayFail(x) == Cardinality(x.missed \cup lossy) >= WriteQuorum

(* The call has chunk c. *)
Has(x, c) == c \in ChunksOf(x.best) \/ MayFail(x)

(* Chunk c of the batch has been seen, or those who may have it are still  *)
(* to be asked, did not answer or have lost something.                     *)
Sees(x, c) == c \in ChunksOf(x.seen) \/ HoldersOf(c) \subseteq x.ask \cup x.missed \cup lossy

(* The chunks before the batch are there, those of the batch being asked   *)
(* for.                                                                    *)
SoFar(x) == \A c \in Chunks : (c < x.from => Has(x, c)) /\ (c \in x.from..BatchEnd(x.from) => Sees(x, c))

(* How far a Retrieve is. *)
Progress(x) ==
  /\ x.st = "fetch" => x.from \in Chunks /\ (~x.ok => Nodes \ x.ask \subseteq x.missed)
  /\ Counts(x) /\ x.st \in {"fetch", "decrypt", "failed"} =>
       /\ sender.st = "stored"
       /\ x.st = "fetch" => SoFar(x)
       /\ x.st = "decrypt" => \A c \in Chunks : Has(x, c)
       /\ x.st = "failed" => MayFail(x)

(* The second inductive invariant, beside the first. *)
Reading == ReaderShape /\ \A r \in Retrievers : Progress(reader[r])

-----------------------------------------------------------------------------
(* A chunk's number is at most the number of chunks, as those before it    *)
(* are chunks too.                                                         *)
LEMMA LastChunk == \A c \in Chunks : c <= NumChunks
<1> TAKE c \in Chunks
<1>1. c \in Nat /\ (c - 1) * ChunkBytes < FileBytes BY Sizes DEF Chunks
<1>2. ASSUME NEW d \in 1..c PROVE d \in Chunks
  <2>1. d \in 1..FileBytes BY Sizes DEF Chunks
  <2>2. \A a, b, m \in Nat : a <= b => a * m <= b * m OBVIOUS
  <2>3. d - 1 \in Nat /\ c - 1 \in Nat /\ ChunkBytes \in Nat BY <1>1, Sizes
  <2>4. (d - 1) * ChunkBytes <= (c - 1) * ChunkBytes BY <2>2, <2>3, <1>1
  <2>5. (d - 1) * ChunkBytes \in Int /\ (c - 1) * ChunkBytes \in Int BY <2>3
  <2> QED BY <2>1, <2>4, <2>5, <1>1, Sizes DEF Chunks
<1>3. 1..c \in SUBSET Chunks BY <1>2
<1>4. IsFiniteSet(Chunks)
  <2>1. IsFiniteSet(1..FileBytes) BY Sizes, FS_Interval
  <2>2. Chunks \in SUBSET (1..FileBytes) BY DEF Chunks
  <2> QED BY <2>1, <2>2, FS_Subset
<1>5. Cardinality(1..c) = c
  <2>1. Cardinality(1..c) = IF 1 > c THEN 0 ELSE c - 1 + 1 BY <1>1, FS_Interval
  <2> QED BY <2>1, <1>1
<1> QED BY <1>3, <1>4, <1>5, FS_Subset DEF NumChunks

(* The sets of nodes in the invariant are finite. *)
LEMMA NodeSets ==
  ASSUME NEW S \in SUBSET Nodes, NEW T \in SUBSET S
  PROVE  IsFiniteSet(S) /\ Cardinality(S) \in Nat /\ Cardinality(T) \in Nat /\ Cardinality(T) <= Cardinality(S)
<1>1. IsFiniteSet(S) BY NodesAreNumbers, FS_Subset
<1>2. IsFiniteSet(T) BY <1>1, FS_Subset
<1> QED BY <1>1, <1>2, FS_Subset, FS_CardinalityType

(* Store: a chunk that is delivered is on a quorum of nodes. *)
LEMMA StoreStep ==
  ASSUME IInv, StoreChunk \/ StoreAgain
  PROVE  IInv'
<1> USE DEF IInv
<1>1. UNCHANGED <<reader, lossy, opened>> BY DEF StoreChunk, StoreAgain
<1>2. DeletesOpened' BY <1>1 DEF DeletesOpened
<1>3. CASE StoreAgain
  <2>1. held' = held /\ sender' = [st |-> "storing", attempt |-> sender.attempt + 1, next |-> 1]
    BY <1>3 DEF StoreAgain
  <2>2. Shape' BY <1>1, <2>1 DEF Shape
  <2>3. Delivered' = {} BY <2>1, Sizes DEF Delivered, Chunks
  <2> QED BY <1>2, <2>2, <2>3 DEF QuorumLeft
<1>4. CASE StoreChunk
  <2> USE <1>4
  <2>1. PICK down \in SUBSET Nodes, lost \in SUBSET Nodes :
          /\ held' = [n \in Nodes |-> held[n] \cup (IF n \in down THEN {} ELSE {<<sender.next, sender.attempt>>})]
          /\ sender' = IF ~IsDelivered(Nodes \ (down \cup lost)) THEN [sender EXCEPT !.st = "failed"]
                       ELSE IF sender.next = NumChunks THEN [sender EXCEPT !.st = "stored"]
                       ELSE [sender EXCEPT !.next = @ + 1]
    BY DEF StoreChunk
  <2>2. sender.st = "storing" /\ sender.next \in Nat BY DEF StoreChunk, Shape
  <2>3. Shape'
    <3>1. sender' \in [st : {"storing", "failed", "stored"}, attempt : Nat, next : Nat] BY <2>1, <2>2 DEF Shape
    <3>2. held' = [n \in Nodes |-> held'[n]] BY <2>1
    <3> QED BY <1>1, <3>1, <3>2 DEF Shape
  <2>4. sender'.attempt = sender.attempt BY <2>1 DEF Shape
  <2>5. ASSUME opened = {}, NEW c \in Delivered' PROVE Cardinality(HoldersOf(c)' \cup lossy) >= WriteQuorum
    <3> USE <2>5
    <3>1. IsDelivered(Nodes \ (down \cup lost)) BY <2>1 DEF Delivered, Shape
    <3>2. c \in Chunks /\ (c < sender.next \/ c = sender.next)
      <4>1. c \in Chunks /\ c \in Int BY Sizes DEF Delivered, Chunks
      <4>2. CASE sender.next = NumChunks BY <2>2, <4>1, <4>2, LastChunk
      <4>3. CASE sender.next # NumChunks
        <5>1. sender'.st = "storing" /\ sender'.next = sender.next + 1 BY <2>1, <2>2, <3>1, <4>3 DEF Shape
        <5> QED BY <2>2, <4>1, <5>1 DEF Delivered
      <4> QED BY <4>2, <4>3
    <3>3. lossy \subseteq Nodes /\ HoldersOf(c)' \cup lossy \in SUBSET Nodes BY DEF Shape, HoldersOf
    <3>4. CASE c < sender.next
      <4>1. c \in Delivered BY <2>2, <3>2, <3>4 DEF Delivered
      <4>2. Cardinality(HoldersOf(c) \cup lossy) >= WriteQuorum BY <4>1 DEF QuorumLeft
      <4>3. HoldersOf(c) \cup lossy \in SUBSET (HoldersOf(c)' \cup lossy) BY <2>1, <2>4 DEF HoldersOf
      <4> QED BY <3>3, <4>2, <4>3, NodeSets, NodesAreNumbers
    <3>5. CASE c = sender.next
      <4>1. Nodes \ (down \cup lost) \in SUBSET (HoldersOf(c)' \cup lossy) BY <2>1, <2>4, <3>5 DEF HoldersOf
      <4> QED BY <3>1, <3>3, <4>1, NodeSets, NodesAreNumbers DEF IsDelivered
    <3> QED BY <3>2, <3>4, <3>5
  <2> QED BY <1>1, <1>2, <2>3, <2>5 DEF QuorumLeft
<1> QED BY <1>3, <1>4

(* A node that loses an item joins the lossy ones. *)
LEMMA ForgetStep ==
  ASSUME IInv, NEW n \in Nodes, Forget(n)
  PROVE  IInv'
<1>1. UNCHANGED <<sender, reader, opened>> /\ lossy' = lossy \cup {n} BY DEF Forget
<1>2. PICK i : held' = [held EXCEPT ![n] = @ \ {i}] BY DEF Forget
<1>3. Shape' BY <1>1, <1>2 DEF IInv, Shape
<1>4. ASSUME opened = {}, NEW c \in Delivered PROVE Cardinality(HoldersOf(c)' \cup lossy') >= WriteQuorum
  <2>1. Cardinality(HoldersOf(c) \cup lossy) >= WriteQuorum BY <1>4 DEF IInv, QuorumLeft
  <2>2. HoldersOf(c) \cup lossy \in SUBSET (HoldersOf(c)' \cup lossy') BY <1>1, <1>2 DEF IInv, Shape, HoldersOf
  <2>3. HoldersOf(c)' \cup lossy' \in SUBSET Nodes BY <1>3 DEF Shape, HoldersOf
  <2> QED BY <2>1, <2>2, <2>3, NodeSets, NodesAreNumbers
<1>5. Delivered' = Delivered BY <1>1 DEF Delivered
<1>6. DeletesOpened' BY <1>1 DEF IInv, DeletesOpened
<1> QED BY <1>1, <1>3, <1>4, <1>5, <1>6 DEF IInv, QuorumLeft

(* A reader moves; the nodes keep what they hold unless somebody has       *)
(* opened the file.                                                        *)
LEMMA ReaderMoves ==
  ASSUME IInv, NEW r \in Retrievers, NEW x, Set(r, x), "st" \in DOMAIN x, UNCHANGED <<sender, lossy>>,
         opened \subseteq opened', x.st = "delete" => opened' # {},
         held' = held \/ (opened # {} /\ held' = [n \in Nodes |-> held'[n]])
  PROVE  IInv'
<1>1. reader'[r] = x /\ \A q \in Retrievers : q # r => reader'[q] = reader[q] BY DEF IInv, Shape, Set
<1>2. DOMAIN reader' = Retrievers /\ reader' = [q \in Retrievers |-> reader'[q]] BY DEF IInv, Shape, Set
<1>3. Shape' BY <1>1, <1>2 DEF IInv, Shape
<1>4. DeletesOpened' BY <1>1 DEF IInv, DeletesOpened
<1>5. QuorumLeft' BY DEF IInv, QuorumLeft, Delivered, HoldersOf
<1> QED BY <1>3, <1>4, <1>5 DEF IInv

(* Retrieve: only a device that has all the chunks has any deleted. *)
LEMMA RetrieveStep ==
  ASSUME IInv, NEW r \in Retrievers,
         Retrieve(r) \/ FetchNext(r) \/ FetchEnd(r) \/ Decrypt(r) \/ DeleteNext(r) \/ Crash(r)
  PROVE  IInv'
<1> DEFINE x == reader[r]
<1>0. "st" \in DOMAIN x BY DEF IInv, Shape
<1>1. ASSUME NEW y, Set(r, y), "st" \in DOMAIN y, y.st # "delete", UNCHANGED <<held, sender, lossy, opened>>
      PROVE  IInv'
  BY <1>1, ReaderMoves
<1>2. \A y : "st" \in DOMAIN Failed(y) /\ Failed(y).st = "failed" /\ "st" \in DOMAIN Idle /\ Idle.st = "idle"
  BY DEF Failed, Idle
<1>3. CASE Retrieve(r)
  <2> USE <1>3
  <2>1. PICK b : Set(r, [Idle EXCEPT !.st = "fetch", !.ask = Nodes, !.sure = b]) BY DEF Retrieve
  <2> DEFINE y == [Idle EXCEPT !.st = "fetch", !.ask = Nodes, !.sure = b]
  <2>2. "st" \in DOMAIN y /\ y.st = "fetch" BY DEF Idle
  <2>3. Set(r, y) /\ UNCHANGED <<held, sender, lossy, opened>> BY <2>1 DEF Retrieve
  <2> HIDE DEF y
  <2> QED BY <1>1, <2>2, <2>3
<1>4. CASE FetchNext(r)
  <2> USE <1>4
  <2>0. x.st = "fetch" /\ UNCHANGED <<held, sender, lossy, opened>> BY DEF FetchNext
  <2> DEFINE n == Min(x.ask)
             all == x.seen \cup Answer(n, x.from)
  <2>1. CASE Set(r, [x EXCEPT !.ask = @ \ {n}, !.missed = @ \cup {n}]) BY <1>0, <1>1, <2>0, <2>1
  <2>2. CASE Set(r, [x EXCEPT !.ask = @ \ {n}, !.missed = @ \cup {n}, !.large = TRUE]) BY <1>0, <1>1, <2>0, <2>2
  <2>3. CASE Set(r, [x EXCEPT !.ask = @ \ {n}, !.ok = TRUE, !.seen = all]) BY <1>0, <1>1, <2>0, <2>3
  <2>4. CASE Set(r, [Failed(x) EXCEPT !.large = TRUE]) BY <1>1, <1>2, <2>0, <2>4
  <2> QED BY <2>1, <2>2, <2>3, <2>4 DEF FetchNext
<1>5. CASE FetchEnd(r)
  <2> USE <1>5
  <2>0. UNCHANGED <<held, sender, lossy, opened>> BY DEF FetchEnd
  <2> DEFINE last == BatchEnd(x.from) = NumChunks
             y == [x EXCEPT !.best = @ \cup Latest(x.seen), !.seen = {}, !.ok = FALSE,
                            !.st = IF last THEN "decrypt" ELSE "fetch",
                            !.from = IF last THEN 1 ELSE BatchEnd(x.from) + 1, !.ask = IF last THEN {} ELSE Nodes]
  <2>1. Set(r, Failed(x)) \/ Set(r, y) BY DEF FetchEnd
  <2>2. "st" \in DOMAIN y /\ y.st # "delete" BY <1>0
  <2> HIDE DEF y
  <2> QED BY <1>1, <1>2, <2>0, <2>1, <2>2
<1>6. CASE Decrypt(r)
  <2> USE <1>6
  <2>0. UNCHANGED <<held, sender, lossy>> BY DEF Decrypt
  <2>1. CASE Set(r, Failed(x)) /\ UNCHANGED opened BY <1>1, <1>2, <2>0, <2>1
  <2>2. CASE Set(r, [Idle EXCEPT !.st = "kept"]) /\ UNCHANGED opened BY <1>1, <2>0, <2>2 DEF Idle
  <2>3. CASE Opens(x) /\ Set(r, [x EXCEPT !.st = "delete", !.ask = Everywhere])
             /\ opened' = IF ChunksOf(x.best) = Chunks THEN opened \cup {r} ELSE opened
    <3> USE <2>3
    <3> DEFINE y == [x EXCEPT !.st = "delete", !.ask = Everywhere]
    <3>1. "st" \in DOMAIN y /\ Set(r, y) BY <1>0
    <3>2. opened' = opened \cup {r} BY DEF Opens
    <3> HIDE DEF y
    <3> QED BY <2>0, <3>1, <3>2, ReaderMoves
  <2> QED BY <2>1, <2>2, <2>3 DEF Decrypt
<1>7. CASE DeleteNext(r)
  <2> USE <1>7
  <2>0. x.st = "delete" /\ UNCHANGED <<sender, lossy, opened>> BY DEF DeleteNext
  <2>1. opened # {} BY <2>0 DEF IInv, DeletesOpened
  <2>2. held' = [n \in Nodes |-> held'[n]] BY DEF DeleteNext, IInv, Shape
  <2> DEFINE n == Min(x.ask)
             y == IF x.ask # {n} THEN [x EXCEPT !.ask = @ \ {n}]
                  ELSE IF x.from < NumChunks THEN [x EXCEPT !.ask = Everywhere, !.from = @ + 1]
                  ELSE [Idle EXCEPT !.st = "done"]
  <2>3. "st" \in DOMAIN y BY <1>0 DEF Idle
  <2>4. Set(r, y) BY DEF DeleteNext
  <2> HIDE DEF y
  <2> QED BY <2>0, <2>1, <2>2, <2>3, <2>4, ReaderMoves
<1>8. CASE Crash(r) BY <1>8, <1>1, <1>2 DEF Crash
<1> QED BY <1>3, <1>4, <1>5, <1>6, <1>7, <1>8

(* The inductive invariant holds. *)
LEMMA FileInvariant == Spec => []IInv
<1>1. Init => IInv
  BY Sizes DEF Init, Idle, IInv, Shape, DeletesOpened, QuorumLeft, Delivered, Chunks
<1>2. IInv /\ [Next]_vars => IInv'
  <2>1. IInv /\ UNCHANGED vars => IInv'
    BY DEF vars, IInv, Shape, DeletesOpened, QuorumLeft, Delivered, HoldersOf
  <2>2. ASSUME IInv, Next PROVE IInv'
    <3> USE <2>2
    <3>1. CASE StoreChunk \/ StoreAgain BY <3>1, StoreStep
    <3>2. ASSUME NEW r \in Retrievers,
                 Retrieve(r) \/ FetchNext(r) \/ FetchEnd(r) \/ Decrypt(r) \/ DeleteNext(r) \/ Crash(r)
          PROVE  IInv'
      BY <3>2, RetrieveStep
    <3>3. ASSUME NEW n \in Nodes, Forget(n) PROVE IInv' BY <3>3, ForgetStep
    <3> QED BY <3>1, <3>2, <3>3 DEF Next
  <2> QED BY <2>1, <2>2
<1> QED BY <1>1, <1>2, PTL DEF Spec

(* A file whose Store returned without an error can be put together again  *)
(* until a device has had all of it, if fewer than a write quorum of nodes *)
(* have lost anything: Retrieve never deletes before DecryptFile.          *)
THEOREM FilesLast == Spec => []NeverLostUnread
<1>1. IInv => NeverLostUnread
  <2>1. SUFFICES ASSUME IInv, sender.st = "stored", Cardinality(lossy) < WriteQuorum, opened = {}, NEW c \in Chunks
                 PROVE  Available(c)
    BY DEF NeverLostUnread
  <2>2. Cardinality(HoldersOf(c) \cup lossy) >= WriteQuorum
    <3>1. c \in Delivered BY <2>1 DEF Delivered
    <3> QED BY <2>1, <3>1 DEF IInv, QuorumLeft
  <2>3. HoldersOf(c) # {}
    <3>1. SUFFICES ASSUME HoldersOf(c) = {} PROVE FALSE OBVIOUS
    <3>2. HoldersOf(c) \cup lossy = lossy /\ lossy \in SUBSET Nodes BY <2>1, <3>1 DEF IInv, Shape
    <3>3. Cardinality(lossy) \in Nat BY <3>2, NodeSets
    <3> QED BY <2>1, <2>2, <3>2, <3>3, NodesAreNumbers
  <2>4. PICK n \in Nodes : <<c, sender.attempt>> \in held[n] BY <2>3 DEF HoldersOf
  <2> QED BY <2>4 DEF Available, ChunksOf
<1> QED BY <1>1, FileInvariant, PTL
-----------------------------------------------------------------------------
(* Numbers and chunks *)

(* A set of numbers has a least one. *)
LEMMA Least ==
  ASSUME NEW S \in SUBSET Nat, S # {}
  PROVE  \E x \in S : \A y \in S : x <= y
<1> DEFINE R == OpToRel(<, Nat)
<1>1. IsWellFoundedOn(R, Nat) BY NatLessThanWellFounded
<1>2. \A x, y \in Nat : x < y => <<x, y>> \in R BY DEF OpToRel
<1> HIDE DEF R
<1>3. PICK x \in S : \A y \in S : ~(<<y, x>> \in R) BY <1>1, WFMin
<1>4. x \in Nat OBVIOUS
<1>5. ASSUME NEW y \in S PROVE x <= y
  <2>1. y \in Nat /\ ~(y < x) BY <1>2, <1>3, <1>4
  <2> QED BY <1>4, <2>1
<1> QED BY <1>5

(* Core.Fetch and the deletions ask one of those left to ask. *)
LEMMA NextAsked ==
  ASSUME NEW S \in SUBSET Nodes, S # {}
  PROVE  Min(S) \in S
<1>1. S \in SUBSET Nat BY NodesAreNumbers
<1>2. \E x \in S : \A y \in S : x <= y BY <1>1, Least
<1> QED BY <1>2 DEF Min

(* min of the batch size, of a batch's end and of the last chunk's length. *)
LEMMA MinTwo == \A a, b \in Int : Min({a, b}) = IF a <= b THEN a ELSE b
<1> TAKE a, b \in Int
<1>1. \E x \in {a, b} : \A y \in {a, b} : x <= y OBVIOUS
<1>2. Min({a, b}) \in {a, b} /\ \A y \in {a, b} : Min({a, b}) <= y BY <1>1 DEF Min
<1> QED BY <1>2

(* Products with a chunk size are ordered as their factors. *)
LEMMA Products ==
  ASSUME NEW a \in Nat, NEW b \in Nat, NEW m \in Nat
  PROVE  /\ a * m \in Nat /\ b * m \in Nat /\ (a <= b => a * m <= b * m)
         /\ a < b => a * m + m <= b * m
<1>1. a * m \in Nat /\ b * m \in Nat OBVIOUS
<1>2. a <= b => a * m <= b * m OBVIOUS
<1>3. (a + 1) * m = a * m + m OBVIOUS
<1>4. a + 1 <= b => (a + 1) * m <= b * m OBVIOUS
<1> QED BY <1>1, <1>2, <1>3, <1>4

(* Every byte is at a place of a chunk. *)
LEMMA Division ==
  ASSUME NEW a \in Nat, NEW b \in Nat \ {0}
  PROVE  \E q \in Nat, r \in Nat : a = q * b + r /\ r < b /\ q * b \in Nat /\ q * b <= a /\ q <= q * b
<1>1. a \div b \in Nat /\ a % b \in Nat /\ a % b < b /\ a = b * (a \div b) + (a % b) OBVIOUS
<1>2. PICK q \in Nat, r \in Nat : a = q * b + r /\ r < b BY <1>1
<1>3. q * b \in Nat /\ q * 1 <= q * b /\ q * 1 = q OBVIOUS
<1>4. q * b <= a BY <1>2, <1>3
<1> QED BY <1>2, <1>3, <1>4

(* The chunks are numbered through. *)
LEMMA ChunkNumbers == NumChunks \in Nat /\ Chunks = 1..NumChunks /\ 1 \in Chunks
<1>0. FileBytes - 1 \in Nat /\ ChunkBytes \in Nat \ {0} /\ FileBytes \in Nat /\ ChunkBytes \in Nat BY Sizes
<1>1. PICK q \in Nat, r \in Nat : FileBytes - 1 = q * ChunkBytes + r /\ r < ChunkBytes
                                  /\ q * ChunkBytes \in Nat /\ q * ChunkBytes <= FileBytes - 1 /\ q <= q * ChunkBytes
  BY <1>0, Division
<1>2. ASSUME NEW c \in Chunks PROVE c \in 1..(q + 1)
  <2>1. c \in Nat /\ c - 1 \in Nat /\ (c - 1) * ChunkBytes < FileBytes BY <1>0 DEF Chunks
  <2>2. q < c - 1 => q * ChunkBytes + ChunkBytes <= (c - 1) * ChunkBytes BY <1>0, <2>1, Products
  <2>3. (c - 1) * ChunkBytes \in Nat BY <1>0, <2>1, Products
  <2>4. ~(q < c - 1) BY <1>0, <1>1, <2>1, <2>2, <2>3
  <2>5. c >= 1 BY <2>1
  <2> QED BY <2>1, <2>4, <2>5
<1>3. ASSUME NEW c \in 1..(q + 1) PROVE c \in Chunks
  <2>1. c \in Nat /\ c - 1 \in Nat /\ c - 1 <= q BY <1>1
  <2>2. (c - 1) * ChunkBytes <= q * ChunkBytes /\ (c - 1) * ChunkBytes \in Nat BY <1>0, <2>1, Products
  <2>3. (c - 1) * ChunkBytes < FileBytes BY <1>0, <1>1, <2>2
  <2>4. c \in 1..FileBytes BY <1>0, <1>1, <2>1
  <2> QED BY <2>3, <2>4 DEF Chunks
<1>4. Chunks = 1..(q + 1) BY <1>2, <1>3
<1>5. Cardinality(1..(q + 1)) = q + 1
  <2>1. 1 \in Int /\ q + 1 \in Int OBVIOUS
  <2>2. Cardinality(1..(q + 1)) = IF 1 > q + 1 THEN 0 ELSE (q + 1) - 1 + 1 BY <2>1, FS_Interval
  <2> QED BY <2>2
<1>6. NumChunks = q + 1 BY <1>4, <1>5 DEF NumChunks
<1> QED BY <1>4, <1>6

(* The length of a chunk's plaintext. *)
LEMMA Lengths ==
  ASSUME NEW c \in Chunks
  PROVE  /\ c - 1 \in Nat /\ (c - 1) * ChunkBytes \in Nat /\ PlainLength(c) \in Nat \ {0}
         /\ PlainLength(c) <= ChunkBytes /\ PlainLength(c) <= FileBytes - (c - 1) * ChunkBytes
         /\ PlainLength(c) = ChunkBytes \/ PlainLength(c) = FileBytes - (c - 1) * ChunkBytes
<1>0. ChunkBytes \in Nat \ {0} /\ FileBytes \in Nat BY Sizes
<1>1. c - 1 \in Nat /\ (c - 1) * ChunkBytes < FileBytes BY <1>0 DEF Chunks
<1>2. (c - 1) * ChunkBytes \in Nat BY <1>0, <1>1, Products
<1> DEFINE s == (c - 1) * ChunkBytes
<1>3. PlainLength(c) = IF ChunkBytes <= FileBytes - s THEN ChunkBytes ELSE FileBytes - s
  BY <1>0, <1>2, MinTwo DEF PlainLength
<1>4. s \in Nat /\ s < FileBytes BY <1>1, <1>2
<1> HIDE DEF s
<1>5. /\ PlainLength(c) \in Nat \ {0} /\ PlainLength(c) <= ChunkBytes /\ PlainLength(c) <= FileBytes - s
      /\ PlainLength(c) = ChunkBytes \/ PlainLength(c) = FileBytes - s
  BY <1>0, <1>3, <1>4
<1> QED BY <1>1, <1>2, <1>5 DEF s

(* The lengths of all chunks add up to that of the file: a byte of the     *)
(* file is at one place of one chunk.                                      *)
LEMMA AllBytes == Cardinality(Plaintext(Chunks)) = FileBytes
<1> DEFINE P == Plaintext(Chunks)
           At(p) == (p[1] - 1) * ChunkBytes + p[2]
           f == [p \in P |-> At(p)]
<1>0. ChunkBytes \in Nat \ {0} /\ FileBytes \in Nat \ {0} BY Sizes
<1>1. ASSUME NEW p \in P
      PROVE  /\ p[1] \in Chunks /\ p[2] \in 1..PlainLength(p[1]) /\ p = <<p[1], p[2]>>
             /\ p[2] \in Nat /\ p[2] >= 1 /\ p[2] <= ChunkBytes /\ p[2] <= FileBytes - (p[1] - 1) * ChunkBytes
             /\ p[1] - 1 \in Nat /\ (p[1] - 1) * ChunkBytes \in Nat
  <2>1. p[1] \in Chunks /\ p[2] \in 1..PlainLength(p[1]) /\ p = <<p[1], p[2]>> BY DEF Plaintext
  <2> DEFINE l == PlainLength(p[1])
             s == (p[1] - 1) * ChunkBytes
  <2>2. p[1] - 1 \in Nat /\ s \in Nat /\ l \in Nat /\ l <= ChunkBytes /\ l <= FileBytes - s BY <2>1, Lengths
  <2>3. p[2] \in 1..l BY <2>1
  <2> HIDE DEF l, s
  <2>4. p[2] \in Nat /\ p[2] >= 1 /\ p[2] <= ChunkBytes /\ p[2] <= FileBytes - s BY <1>0, <2>2, <2>3
  <2> QED BY <2>1, <2>2, <2>4 DEF s
<1>2. ASSUME NEW p \in P PROVE At(p) \in 1..FileBytes
  <2> DEFINE s == (p[1] - 1) * ChunkBytes
  <2>1. s \in Nat /\ p[2] \in Nat /\ p[2] >= 1 /\ p[2] <= FileBytes - s BY <1>1
  <2> HIDE DEF s
  <2>2. s + p[2] \in 1..FileBytes BY <1>0, <2>1
  <2> QED BY <2>2 DEF s
<1>3. ASSUME NEW p \in P, NEW t \in P, p[1] < t[1] PROVE At(p) < At(t)
  <2> DEFINE a == (p[1] - 1) * ChunkBytes
             b == (t[1] - 1) * ChunkBytes
  <2>1. p[1] - 1 \in Nat /\ t[1] - 1 \in Nat /\ p[1] - 1 < t[1] - 1
    <3>1. p[1] - 1 \in Nat /\ t[1] - 1 \in Nat /\ p[1] \in Nat /\ t[1] \in Nat BY <1>0, <1>1 DEF Chunks
    <3> QED BY <1>3, <3>1
  <2>2. a + ChunkBytes <= b /\ a \in Nat /\ b \in Nat BY <1>0, <2>1, Products
  <2>3. p[2] \in Nat /\ p[2] <= ChunkBytes /\ t[2] \in Nat /\ t[2] >= 1 BY <1>1
  <2> HIDE DEF a, b
  <2>4. a + p[2] < b + t[2] BY <1>0, <2>2, <2>3
  <2> QED BY <2>4 DEF a, b
<1>4. ASSUME NEW p \in P, NEW t \in P, At(p) = At(t) PROVE p = t
  <2> USE <1>4
  <2>1. p[1] \in Nat /\ t[1] \in Nat BY <1>0, <1>1 DEF Chunks
  <2>2. At(p) \in Nat /\ At(t) \in Nat BY <1>0, <1>2
  <2>3. ~(p[1] < t[1]) /\ ~(t[1] < p[1])
    <3> HIDE DEF At
    <3> QED BY <1>3, <2>2
  <2>4. p[1] = t[1] BY <2>1, <2>3
  <2> DEFINE s == (p[1] - 1) * ChunkBytes
  <2>5. s \in Nat /\ s + p[2] = s + t[2] /\ p[2] \in Nat /\ t[2] \in Nat BY <1>1, <2>4
  <2> HIDE DEF s
  <2>6. p[2] = t[2] BY <2>5
  <2> QED BY <1>1, <2>4, <2>6
<1>5. ASSUME NEW b \in 1..FileBytes PROVE \E p \in P : At(p) = b
  <2>1. b - 1 \in Nat BY <1>0
  <2>2. PICK q \in Nat, r \in Nat : b - 1 = q * ChunkBytes + r /\ r < ChunkBytes
                                    /\ q * ChunkBytes \in Nat /\ q * ChunkBytes <= b - 1 /\ q <= q * ChunkBytes
    BY <1>0, <2>1, Division
  <2>3. (q + 1) - 1 = q OBVIOUS
  <2>4. q * ChunkBytes < FileBytes /\ q + 1 \in 1..FileBytes BY <1>0, <2>1, <2>2
  <2>5. q + 1 \in Chunks BY <2>3, <2>4 DEF Chunks
  <2>6. PlainLength(q + 1) = ChunkBytes \/ PlainLength(q + 1) = FileBytes - q * ChunkBytes BY <2>3, <2>5, Lengths
  <2> DEFINE s == q * ChunkBytes
  <2>7. s \in Nat /\ b - 1 = s + r BY <2>2
  <2>8. PlainLength(q + 1) = ChunkBytes \/ PlainLength(q + 1) = FileBytes - s BY <2>6
  <2> HIDE DEF s
  <2>9. r + 1 <= ChunkBytes /\ r + 1 <= FileBytes - s /\ r + 1 \in Nat /\ r + 1 >= 1 BY <1>0, <2>2, <2>7
  <2>10. r + 1 \in 1..PlainLength(q + 1) BY <1>0, <2>7, <2>8, <2>9
  <2>11. <<q + 1, r + 1>> \in P BY <2>5, <2>10 DEF Plaintext
  <2>12. s + (r + 1) = b BY <2>7, <2>1
  <2>13. At(<<q + 1, r + 1>>) = b BY <2>3, <2>12 DEF s
  <2> QED BY <2>11, <2>13
<1> HIDE DEF At, P
<1>6. f \in [P -> 1..FileBytes]
  <2>1. \A p \in P : At(p) \in 1..FileBytes BY <1>2
  <2> QED BY <2>1
<1>7. f \in Injection(P, 1..FileBytes) /\ f \in Surjection(P, 1..FileBytes)
  <2>1. \A p, t \in P : f[p] = f[t] => p = t BY <1>4
  <2>2. \A b \in 1..FileBytes : \E p \in P : f[p] = b BY <1>5
  <2> HIDE DEF f
  <2> QED BY <1>6, <2>1, <2>2 DEF Injection, IsInjective, Surjection
<1>8. IsFiniteSet(1..FileBytes) /\ Cardinality(1..FileBytes) = FileBytes
  <2>1. 1 \in Int /\ FileBytes \in Int BY <1>0
  <2>2. IsFiniteSet(1..FileBytes) /\ Cardinality(1..FileBytes) = IF 1 > FileBytes THEN 0 ELSE FileBytes - 1 + 1
    BY <2>1, FS_Interval
  <2> QED BY <1>0, <2>2
<1> HIDE DEF f
<1>9. Cardinality(P) = Cardinality(1..FileBytes) BY <1>7, <1>8, FS_Injection
<1> QED BY <1>8, <1>9 DEF P

(* For any file length and chunk size, validateManifest accepts the number *)
(* of chunks that the loop of EncryptFile cuts, and DecryptFile finds as   *)
(* many bytes in them as the manifest says.                                *)
THEOREM CutExactly == ValidManifest /\ Cardinality(Plaintext(Chunks)) = FileBytes
<1> DEFINE k == NumChunks
           a == FileBytes + ChunkBytes - 1
           d == a \div ChunkBytes
<1>0. FileBytes \in Nat \ {0} /\ ChunkBytes \in Nat \ {0} /\ a \in Nat BY Sizes
<1>1. k \in Nat \ {0} /\ Chunks = 1..k
  <2>1. NumChunks \in Nat /\ Chunks = 1..NumChunks /\ 1 \in Chunks BY ChunkNumbers
  <2>2. 1 \in 1..NumChunks BY <2>1
  <2> QED BY <2>1, <2>2
<1> HIDE DEF k
<1>2. (k - 1) * ChunkBytes < FileBytes
  <2>1. k \in Chunks BY <1>1
  <2> QED BY <2>1 DEF Chunks
<1>3. FileBytes <= k * ChunkBytes
  <2>1. k * 1 <= k * ChunkBytes /\ k * 1 = k /\ k * ChunkBytes \in Nat BY <1>0, <1>1
  <2>2. CASE k + 1 <= FileBytes
    <3>1. k + 1 \in 1..FileBytes /\ k + 1 \notin Chunks BY <1>0, <1>1, <2>2
    <3>2. (k + 1) - 1 = k BY <1>1
    <3>3. ~(k * ChunkBytes < FileBytes) BY <3>1, <3>2 DEF Chunks
    <3> QED BY <1>0, <2>1, <3>3
  <2> QED BY <1>0, <1>1, <2>1, <2>2
<1>4. k * ChunkBytes \in Nat /\ k * ChunkBytes <= a /\ a < k * ChunkBytes + ChunkBytes
  <2>1. k - 1 \in Nat /\ k - 1 < k BY <1>1
  <2>2. k * ChunkBytes = (k - 1) * ChunkBytes + ChunkBytes BY <1>0, <1>1
  <2>3. k * ChunkBytes \in Nat /\ (k - 1) * ChunkBytes \in Nat BY <1>0, <1>1, <2>1, Products
  <2> QED BY <1>0, <1>2, <1>3, <2>2, <2>3
<1>5. d \in Nat /\ d * ChunkBytes \in Nat /\ d * ChunkBytes <= a /\ a < d * ChunkBytes + ChunkBytes
  <2>1. d \in Nat /\ a % ChunkBytes \in Nat /\ a % ChunkBytes < ChunkBytes /\ a = ChunkBytes * d + (a % ChunkBytes) BY <1>0
  <2>2. PICK r \in Nat : r < ChunkBytes /\ a = d * ChunkBytes + r BY <1>0, <2>1
  <2>3. d * ChunkBytes \in Nat BY <1>0, <2>1, Products
  <2> QED BY <1>0, <2>1, <2>2, <2>3
<1> HIDE DEF a, d
<1>6. ~(d < k)
  <2>1. d < k => d * ChunkBytes + ChunkBytes <= k * ChunkBytes BY <1>0, <1>1, <1>5, Products
  <2> QED BY <1>0, <1>4, <1>5, <2>1
<1>7. ~(k < d)
  <2>1. k < d => k * ChunkBytes + ChunkBytes <= d * ChunkBytes BY <1>0, <1>1, <1>5, Products
  <2> QED BY <1>0, <1>4, <1>5, <2>1
<1>8. k = d BY <1>1, <1>5, <1>6, <1>7
<1>9. ValidManifest BY <1>8 DEF ValidManifest, k, d, a
<1> QED BY <1>9, AllBytes

-----------------------------------------------------------------------------
(* Retrieve *)

(* A batch is a part of the chunks, and not empty. *)
LEMMA BatchNumbers ==
  ASSUME NEW f \in Chunks
  PROVE  /\ BatchEnd(f) \in Chunks /\ f <= BatchEnd(f) /\ f \in Nat /\ BatchEnd(f) \in Nat
         /\ BatchEnd(f) # NumChunks => BatchEnd(f) + 1 \in Chunks
<1>1. f \in Nat /\ f >= 1 /\ f <= NumChunks /\ NumChunks \in Nat BY ChunkNumbers
<1>2. BatchSize \in Nat \ {0} BY Limits, MinTwo DEF BatchSize
<1>3. BatchEnd(f) = IF f + BatchSize - 1 <= NumChunks THEN f + BatchSize - 1 ELSE NumChunks
  BY <1>1, <1>2, MinTwo DEF BatchEnd
<1>4. BatchEnd(f) \in Nat /\ f <= BatchEnd(f) /\ BatchEnd(f) <= NumChunks BY <1>1, <1>2, <1>3
<1> QED BY <1>1, <1>4, ChunkNumbers

(* itemByIndex keeps an item of every chunk that was fetched. *)
LEMMA LatestKept ==
  ASSUME NEW S \in SUBSET Items
  PROVE  ChunksOf(Latest(S)) = ChunksOf(S) /\ Latest(S) \subseteq S /\ ChunksOf(S) \subseteq Chunks
<1>1. Latest(S) \subseteq S BY DEF Latest
<1>2. ASSUME NEW i \in S PROVE \E j \in Latest(S) : j[1] = i[1]
  <2> DEFINE T == {m \in Nat : \E j \in S : j[1] = i[1] /\ m = MaxAttempts - j[2]}
  <2>1. \A j \in S : j[2] \in Nat /\ MaxAttempts - j[2] \in Nat /\ MaxAttempts \in Nat BY Bounds DEF Items
  <2>2. T \in SUBSET Nat /\ T # {} BY <2>1
  <2>3. PICK m \in T : \A k \in T : m <= k BY <2>2, Least
  <2>4. PICK j \in S : j[1] = i[1] /\ m = MaxAttempts - j[2] BY <2>3
  <2>5. ASSUME NEW k \in S, k[1] = j[1] PROVE k[2] <= j[2]
    <3>1. MaxAttempts - k[2] \in T BY <2>1, <2>4, <2>5
    <3>2. MaxAttempts - j[2] <= MaxAttempts - k[2] BY <2>3, <2>4, <3>1
    <3> QED BY <2>1, <3>2
  <2>6. j \in Latest(S) BY <2>5 DEF Latest
  <2> QED BY <2>4, <2>6
<1>3. ChunksOf(S) \subseteq Chunks BY DEF ChunksOf, Items
<1>4. ChunksOf(S) \subseteq ChunksOf(Latest(S)) BY <1>2 DEF ChunksOf
<1> QED BY <1>1, <1>3, <1>4 DEF ChunksOf

(* More nodes that did not answer or have lost something. *)
LEMMA MayFailStays ==
  ASSUME NEW A \in SUBSET Nodes, NEW B \in SUBSET A, Cardinality(B) >= WriteQuorum
  PROVE  Cardinality(A) >= WriteQuorum
BY NodeSets, NodesAreNumbers

(* A call of Retrieve is not touched by what does not touch the nodes. *)
LEMMA ProgressStays ==
  ASSUME NEW x, Progress(x), opened \subseteq opened', UNCHANGED lossy,
         UNCHANGED <<held, sender>> \/ opened' # {} \/ sender.st # "stored"
  PROVE  Progress(x)'
<1>1. CASE UNCHANGED <<held, sender>>
  BY <1>1 DEF Progress, SoFar, Counts, Has, Sees, MayFail, HoldersOf
<1>2. CASE opened' # {} BY <1>2 DEF Progress, Counts
<1>3. CASE sender.st # "stored" BY <1>3 DEF Progress, Counts
<1> QED BY <1>1, <1>2, <1>3

(* A reader moves, and the others are where they were. *)
LEMMA OneReads ==
  ASSUME Reading, NEW r \in Retrievers, NEW y \in Readers, Set(r, y), Progress(y)', opened \subseteq opened',
         UNCHANGED <<sender, lossy>>, held' \in [Nodes -> SUBSET Items], UNCHANGED held \/ opened' # {}
  PROVE  Reading'
<1>1. reader' \in [Retrievers -> Readers] /\ \A q \in Retrievers : reader'[q] = IF q = r THEN y ELSE reader[q]
  BY DEF Reading, ReaderShape, Set
<1>2. ReaderShape' BY <1>1 DEF Reading, ReaderShape
<1>3. ASSUME NEW q \in Retrievers PROVE Progress(reader[q])'
  <2>1. PICK z : z = reader'[q] OBVIOUS
  <2>2. Progress(z)'
    <3>1. CASE q = r BY <1>1, <2>1, <3>1
    <3>2. CASE q # r
      <4>1. z = reader[q] /\ Progress(z) BY <1>1, <2>1, <3>2 DEF Reading
      <4> QED BY <4>1, ProgressStays
    <3> QED BY <3>1, <3>2
  <2> QED BY <2>1, <2>2 DEF Progress, SoFar, Counts, Has, Sees, MayFail, HoldersOf
<1> QED BY <1>2, <1>3 DEF Reading

(* A reader moves and nothing else does. *)
LEMMA ReadsOn ==
  ASSUME Reading, NEW r \in Retrievers, NEW y \in Readers, Set(r, y), Progress(y),
         UNCHANGED <<held, sender, lossy, opened>>
  PROVE  Reading'
<1>1. Progress(y)' BY ProgressStays
<1>2. held' \in [Nodes -> SUBSET Items] BY DEF Reading, ReaderShape
<1> QED BY <1>1, <1>2, OneReads

(* A call that has failed, and one that has not begun. *)
LEMMA FailedReader ==
  ASSUME NEW x \in Readers
  PROVE  /\ Idle \in Readers /\ Progress(Idle) /\ Failed(x) \in Readers /\ [Failed(x) EXCEPT !.large = TRUE] \in Readers
         /\ (Counts(x) => sender.st = "stored" /\ MayFail(x)) => Progress(Failed(x))
         /\ Progress([Failed(x) EXCEPT !.large = TRUE])
<1>1. Idle \in Readers /\ Idle.st = "idle"
  <2>1. 1 \in Nat /\ {} \in SUBSET Nodes /\ {} \in SUBSET Items OBVIOUS
  <2> QED BY <2>1 DEF Idle, Readers
<1>2. /\ Failed(x) \in Readers /\ Failed(x).st = "failed" /\ Failed(x).sure = x.sure
      /\ Failed(x).missed = x.missed /\ Failed(x).large = x.large
  BY <1>1 DEF Failed, Idle, Readers
<1>3. PICK y : y = Failed(x) OBVIOUS
<1>4. /\ y \in Readers /\ y.st = "failed" /\ y.sure = x.sure /\ y.missed = x.missed /\ y.large = x.large BY <1>2, <1>3
<1>5. [y EXCEPT !.large = TRUE] \in Readers /\ [y EXCEPT !.large = TRUE].large = TRUE /\ [y EXCEPT !.large = TRUE].st = "failed"
  BY <1>4 DEF Readers
<1>6. (Counts(x) => sender.st = "stored" /\ MayFail(x)) => Progress(y) BY <1>4 DEF Progress, Counts, MayFail
<1>7. Progress([y EXCEPT !.large = TRUE]) BY <1>5 DEF Progress, Counts
<1>8. Progress(Idle) BY <1>1 DEF Progress
<1> QED BY <1>1, <1>2, <1>3, <1>5, <1>6, <1>7, <1>8

(* Retrieve begins. *)
LEMMA RetrieveReads ==
  ASSUME Reading, NEW r \in Retrievers, Retrieve(r)
  PROVE  Reading'
<1>1. PICK b \in BOOLEAN : b = (sender.st = "stored" /\ opened = {}) OBVIOUS
<1>2. PICK y : y = [Idle EXCEPT !.st = "fetch", !.ask = Nodes, !.sure = b] OBVIOUS
<1>3. Set(r, y) /\ UNCHANGED <<held, sender, lossy, opened>> BY <1>1, <1>2 DEF Retrieve
<1>4. y \in Readers /\ y.st = "fetch" /\ y.ask = Nodes /\ y.sure = b /\ y.from = 1 /\ y.missed = {}
  <2>1. 1 \in Nat /\ {} \in SUBSET Nodes /\ {} \in SUBSET Items /\ Nodes \in SUBSET Nodes OBVIOUS
  <2> QED BY <1>2, <2>1 DEF Idle, Readers
<1>5. Progress(y)
  <2>1. 1 \in Chunks /\ \A c \in Chunks : ~(c < 1)
    <3>1. \A c \in Chunks : c \in Nat /\ c >= 1 BY ChunkNumbers
    <3> QED BY <3>1, ChunkNumbers
  <2>2. \A c \in Chunks : Sees(y, c) BY <1>4 DEF Sees, HoldersOf
  <2> QED BY <1>1, <1>4, <2>1, <2>2 DEF Progress, SoFar, Counts
<1> QED BY <1>3, <1>4, <1>5, ReadsOn

(* Core.Fetch asks a node. *)
LEMMA FetchNextReads ==
  ASSUME Reading, Shape, NEW r \in Retrievers, FetchNext(r)
  PROVE  Reading'
<1>1. PICK x : x = reader[r] OBVIOUS
<1>2. x \in Readers /\ Progress(x) /\ x.st = "fetch" /\ x.ask # {} /\ UNCHANGED <<held, sender, lossy, opened>>
  BY <1>1 DEF Reading, ReaderShape, FetchNext
<1>3. PICK n : n = Min(x.ask) OBVIOUS
<1>4. n \in x.ask /\ n \in Nodes /\ x.ask \in SUBSET Nodes
  <2>1. x.ask \in SUBSET Nodes BY <1>2 DEF Readers
  <2> QED BY <1>2, <1>3, <2>1, NextAsked
<1>5. x.from \in Chunks /\ (~x.ok => Nodes \ x.ask \subseteq x.missed) /\ x.missed \in SUBSET Nodes /\ lossy \in SUBSET Nodes
      /\ x.seen \in SUBSET Items /\ x.ok \in BOOLEAN
  BY <1>2 DEF Progress, Readers, Shape
<1>6. ASSUME Counts(x)
      PROVE  /\ sender.st = "stored"
             /\ \A c \in Chunks : (c < x.from => Has(x, c)) /\ (c \in x.from..BatchEnd(x.from) => Sees(x, c))
  <2>1. x.st \in {"fetch", "decrypt", "failed"} BY <1>2
  <2>2. sender.st = "stored" /\ SoFar(x) BY <1>2, <1>6, <2>1, Zenon DEF Progress
  <2> QED BY <2>2 DEF SoFar
<1>7. ASSUME NEW y \in Readers, Set(r, y), y.large = TRUE, y.st = "fetch", y.from = x.from, y.ask = x.ask \ {n},
             y.missed = x.missed \cup {n}, y.ok = x.ok
      PROVE  Reading'
  <2> USE <1>7
  <2>1. Progress(y) BY <1>5 DEF Progress, Counts
  <2> QED BY <1>2, <2>1, ReadsOn
<1>8. CASE Set(r, [x EXCEPT !.ask = @ \ {n}, !.missed = @ \cup {n}])
  <2>1. PICK y : y = [x EXCEPT !.ask = @ \ {n}, !.missed = @ \cup {n}] OBVIOUS
  <2>2. /\ y \in Readers /\ y.st = "fetch" /\ y.from = x.from /\ y.ask = x.ask \ {n} /\ y.missed = x.missed \cup {n}
        /\ y.ok = x.ok /\ y.best = x.best /\ y.seen = x.seen /\ y.sure = x.sure /\ y.large = x.large
    <3>1. x.ask \ {n} \in SUBSET Nodes /\ x.missed \cup {n} \in SUBSET Nodes BY <1>4, <1>5
    <3> QED BY <1>2, <2>1, <3>1 DEF Readers
  <2>3. ASSUME NEW c, Has(x, c) PROVE Has(y, c)
    <3>1. MayFail(x) => MayFail(y)
      <4>1. y.missed \cup lossy \in SUBSET Nodes /\ x.missed \cup lossy \in SUBSET (y.missed \cup lossy) BY <1>4, <1>5, <2>2
      <4> QED BY <4>1, MayFailStays DEF MayFail
    <3> QED BY <2>2, <2>3, <3>1 DEF Has
  <2>4. ASSUME NEW c, Sees(x, c) PROVE Sees(y, c)
    <3>1. y.ask \cup y.missed = x.ask \cup x.missed BY <1>4, <2>2
    <3>2. HoldersOf(c) \subseteq x.ask \cup x.missed \cup lossy => HoldersOf(c) \subseteq y.ask \cup y.missed \cup lossy
      BY <3>1
    <3> QED BY <2>2, <2>4, <3>2 DEF Sees
  <2>5. Counts(y) <=> Counts(x) BY <2>2 DEF Counts
  <2>6. Progress(y) BY <1>5, <1>6, <2>2, <2>3, <2>4, <2>5 DEF Progress, SoFar
  <2> QED BY <1>2, <1>8, <2>1, <2>2, <2>6, ReadsOn
<1>9. CASE Set(r, [x EXCEPT !.ask = @ \ {n}, !.missed = @ \cup {n}, !.large = TRUE])
  <2>1. PICK y : y = [x EXCEPT !.ask = @ \ {n}, !.missed = @ \cup {n}, !.large = TRUE] OBVIOUS
  <2>2. x.ask \ {n} \in SUBSET Nodes /\ x.missed \cup {n} \in SUBSET Nodes BY <1>4, <1>5
  <2>3. /\ y \in Readers /\ y.large = TRUE /\ y.st = "fetch" /\ y.from = x.from /\ y.ask = x.ask \ {n}
        /\ y.missed = x.missed \cup {n} /\ y.ok = x.ok
    BY <1>2, <2>1, <2>2 DEF Readers
  <2> QED BY <1>7, <1>9, <2>1, <2>3
<1>10. CASE Set(r, [x EXCEPT !.ask = @ \ {n}, !.ok = TRUE, !.seen = x.seen \cup Answer(n, x.from)])
  <2>1. PICK y : y = [x EXCEPT !.ask = @ \ {n}, !.ok = TRUE, !.seen = x.seen \cup Answer(n, x.from)] OBVIOUS
  <2>2. x.ask \ {n} \in SUBSET Nodes /\ x.seen \cup Answer(n, x.from) \in SUBSET Items
    BY <1>4, <1>5 DEF Answer, Reading, ReaderShape
  <2>3. /\ y \in Readers /\ y.st = "fetch" /\ y.from = x.from /\ y.ask = x.ask \ {n} /\ y.missed = x.missed
        /\ y.ok = TRUE /\ y.best = x.best /\ y.seen = x.seen \cup Answer(n, x.from) /\ y.sure = x.sure /\ y.large = x.large
    BY <1>2, <2>1, <2>2 DEF Readers
  <2>4. ASSUME NEW c, Has(x, c) PROVE Has(y, c) BY <2>3, <2>4 DEF Has, MayFail
  <2>5. ASSUME NEW c \in x.from..BatchEnd(x.from), Sees(x, c) PROVE Sees(y, c)
    <3>1. CASE c \in ChunksOf(x.seen) BY <2>3, <3>1 DEF Sees, ChunksOf
    <3>2. CASE n \in HoldersOf(c)
      <4>1. <<c, sender.attempt>> \in Answer(n, x.from) BY <3>2 DEF HoldersOf, Answer
      <4>2. c \in ChunksOf(y.seen)
        <5>1. <<c, sender.attempt>>[1] = c OBVIOUS
        <5> QED BY <2>3, <4>1, <5>1 DEF ChunksOf
      <4> QED BY <4>2 DEF Sees
    <3>3. CASE HoldersOf(c) \subseteq x.ask \cup x.missed \cup lossy /\ n \notin HoldersOf(c)
      BY <2>3, <3>3 DEF Sees
    <3> QED BY <2>5, <3>1, <3>2, <3>3 DEF Sees
  <2>6. Counts(y) <=> Counts(x) BY <2>3 DEF Counts
  <2>7. Progress(y) BY <1>5, <1>6, <2>3, <2>4, <2>5, <2>6 DEF Progress, SoFar
  <2> QED BY <1>2, <1>10, <2>1, <2>3, <2>7, ReadsOn
<1>11. CASE Set(r, [Failed(x) EXCEPT !.large = TRUE]) BY <1>2, <1>11, FailedReader, ReadsOn
<1> QED BY <1>1, <1>3, <1>8, <1>9, <1>10, <1>11 DEF FetchNext
(* A batch has been fetched. *)
LEMMA FetchEndReads ==
  ASSUME Reading, IInv, NEW r \in Retrievers, FetchEnd(r)
  PROVE  Reading'
<1>1. PICK x : x = reader[r] OBVIOUS
<1>2. x \in Readers /\ Progress(x) /\ x.st = "fetch" /\ x.ask = {} /\ UNCHANGED <<held, sender, lossy, opened>>
  BY <1>1 DEF Reading, ReaderShape, FetchEnd
<1>3. /\ x.from \in Chunks /\ (~x.ok => Nodes \ x.ask \subseteq x.missed) /\ x.missed \in SUBSET Nodes
      /\ lossy \in SUBSET Nodes /\ x.seen \in SUBSET Items /\ x.best \in SUBSET Items
  BY <1>2 DEF Progress, Readers, IInv, Shape
<1>4. ASSUME Counts(x)
      PROVE  /\ sender.st = "stored"
             /\ \A c \in Chunks : (c < x.from => Has(x, c)) /\ (c \in x.from..BatchEnd(x.from) => Sees(x, c))
  <2>1. x.st \in {"fetch", "decrypt", "failed"} BY <1>2
  <2>2. sender.st = "stored" /\ SoFar(x) BY <1>2, <1>4, <2>1, Zenon DEF Progress
  <2> QED BY <2>2 DEF SoFar
<1>5. CASE ~x.ok /\ Set(r, Failed(x))
  <2> USE <1>5
  <2>1. MayFail(x)
    <3>1. x.missed \cup lossy = Nodes BY <1>2, <1>3
    <3>2. Cardinality(Nodes) >= WriteQuorum BY NodesAreNumbers, FS_CardinalityType
    <3> QED BY <3>1, <3>2 DEF MayFail
  <2> QED BY <1>2, <1>4, <2>1, FailedReader, ReadsOn
<1>6. ASSUME Counts(x), NEW c \in Chunks, c <= BatchEnd(x.from)
      PROVE  c \in ChunksOf(x.best \cup Latest(x.seen)) \/ MayFail(x)
  <2> USE <1>6
  <2>0. c \in Nat /\ x.from \in Nat /\ BatchEnd(x.from) \in Nat BY <1>3, ChunkNumbers, BatchNumbers
  <2>1. CASE c < x.from BY <1>4, <2>1 DEF Has, ChunksOf
  <2>2. CASE c \in ChunksOf(x.seen)
    <3>1. c \in ChunksOf(Latest(x.seen)) BY <1>3, <2>2, LatestKept
    <3> QED BY <3>1 DEF ChunksOf
  <2>3. CASE HoldersOf(c) \subseteq x.ask \cup x.missed \cup lossy
    <3>1. c \in Delivered /\ opened = {} BY <1>4 DEF Delivered, Counts
    <3>2. Cardinality(HoldersOf(c) \cup lossy) >= WriteQuorum BY <3>1 DEF IInv, QuorumLeft
    <3>3. HoldersOf(c) \cup lossy \in SUBSET (x.missed \cup lossy) /\ x.missed \cup lossy \in SUBSET Nodes
      BY <1>2, <1>3, <2>3
    <3> QED BY <3>2, <3>3, MayFailStays DEF MayFail
  <2>4. CASE ~(c < x.from)
    <3>1. c \in x.from..BatchEnd(x.from) BY <2>0, <2>4
    <3>2. Sees(x, c) BY <1>4, <3>1
    <3> QED BY <2>2, <2>3, <3>2 DEF Sees
  <2> QED BY <2>1, <2>4
<1>7. CASE Set(r, [x EXCEPT !.best = @ \cup Latest(x.seen), !.seen = {}, !.ok = FALSE,
                            !.st = IF BatchEnd(x.from) = NumChunks THEN "decrypt" ELSE "fetch",
                            !.from = IF BatchEnd(x.from) = NumChunks THEN 1 ELSE BatchEnd(x.from) + 1,
                            !.ask = IF BatchEnd(x.from) = NumChunks THEN {} ELSE Nodes])
  <2>0. BatchEnd(x.from) \in Nat /\ (BatchEnd(x.from) # NumChunks => BatchEnd(x.from) + 1 \in Chunks) BY <1>3, BatchNumbers
  <2>1. PICK st, f, a : /\ st = IF BatchEnd(x.from) = NumChunks THEN "decrypt" ELSE "fetch"
                        /\ f = IF BatchEnd(x.from) = NumChunks THEN 1 ELSE BatchEnd(x.from) + 1
                        /\ a = IF BatchEnd(x.from) = NumChunks THEN {} ELSE Nodes
    OBVIOUS
  <2>2. PICK y : y = [x EXCEPT !.best = @ \cup Latest(x.seen), !.seen = {}, !.ok = FALSE, !.st = st, !.from = f, !.ask = a]
    OBVIOUS
  <2>3. Set(r, y) BY <1>7, <2>1, <2>2
  <2>4. st \in {"fetch", "decrypt"} /\ f \in Nat /\ a \in SUBSET Nodes BY <2>0, <2>1
  <2>5. x.best \cup Latest(x.seen) \in SUBSET Items BY <1>3, LatestKept
  <2>6. /\ y \in Readers /\ y.st = st /\ y.from = f /\ y.ask = a /\ y.missed = x.missed /\ y.sure = x.sure
        /\ y.large = x.large /\ y.best = x.best \cup Latest(x.seen) /\ y.seen = {} /\ y.ok = FALSE
    BY <1>2, <2>2, <2>4, <2>5 DEF Readers
  <2>7. (Counts(y) <=> Counts(x)) /\ (MayFail(x) <=> MayFail(y)) BY <2>6 DEF Counts, MayFail
  <2>8. ASSUME Counts(x), NEW c \in Chunks, c <= BatchEnd(x.from) PROVE Has(y, c) BY <1>6, <2>6, <2>7, <2>8 DEF Has
  <2>9. CASE BatchEnd(x.from) = NumChunks
    <3> USE <2>9
    <3>1. st = "decrypt" BY <2>1
    <3>2. ASSUME Counts(x), NEW c \in Chunks PROVE Has(y, c)
      <4>1. c <= BatchEnd(x.from) BY LastChunk
      <4> QED BY <2>8, <3>2, <4>1
    <3>3. Progress(y) BY <1>4, <2>6, <2>7, <3>1, <3>2 DEF Progress
    <3> QED BY <1>2, <2>3, <2>6, <3>3, ReadsOn
  <2>10. CASE BatchEnd(x.from) # NumChunks
    <3>1. st = "fetch" /\ f = BatchEnd(x.from) + 1 /\ a = Nodes /\ f \in Chunks BY <2>0, <2>1, <2>10
    <3>2. ASSUME Counts(x), NEW c \in Chunks, c < f PROVE Has(y, c)
      <4> USE <3>2
      <4>1. c \in Nat BY ChunkNumbers
      <4>2. c <= BatchEnd(x.from) BY <2>0, <3>1, <4>1
      <4> QED BY <2>8, <4>2
    <3>3. ASSUME NEW c PROVE Sees(y, c) BY <2>6, <3>1 DEF Sees, HoldersOf
    <3>4. Progress(y) BY <1>4, <2>6, <2>7, <3>1, <3>2, <3>3 DEF Progress, SoFar
    <3> QED BY <1>2, <2>3, <2>6, <3>4, ReadsOn
  <2> QED BY <2>9, <2>10
<1> QED BY <1>1, <1>5, <1>7 DEF FetchEnd

(* DecryptFile, which fails only when a chunk is missing. *)
LEMMA DecryptReads ==
  ASSUME Reading, IInv, NEW r \in Retrievers, Decrypt(r)
  PROVE  Reading'
<1>1. PICK x : x = reader[r] OBVIOUS
<1>2. x \in Readers /\ Progress(x) /\ x.st = "decrypt" /\ UNCHANGED <<held, sender, lossy>>
  BY <1>1 DEF Reading, ReaderShape, Decrypt
<1>3. CASE ~Opens(x) /\ Set(r, Failed(x)) /\ UNCHANGED opened
  <2> USE <1>3
  <2>1. ASSUME Counts(x) PROVE sender.st = "stored" /\ MayFail(x)
    <3> USE <2>1
    <3>1. x.st \in {"fetch", "decrypt", "failed"} BY <1>2
    <3>2. sender.st = "stored" BY <1>2, <3>1, Zenon DEF Progress
    <3>3. \A c \in Chunks : Has(x, c) BY <1>2, <3>1, Zenon DEF Progress
    <3>4. CASE Chunks \subseteq ChunksOf(x.best)
      <4>1. x.best \in SUBSET Items BY <1>2 DEF Readers
      <4>2. ChunksOf(x.best) = Chunks BY <3>4, <4>1, LatestKept
      <4> QED BY <4>2, AllBytes DEF Opens
    <3> QED BY <3>2, <3>3, <3>4 DEF Has
  <2> QED BY <1>2, <2>1, FailedReader, ReadsOn
<1>4. CASE Set(r, [Idle EXCEPT !.st = "kept"]) /\ UNCHANGED opened
  <2>1. PICK y : y = [Idle EXCEPT !.st = "kept"] OBVIOUS
  <2>2. y \in Readers /\ y.st = "kept" BY <1>2, <2>1, FailedReader DEF Readers
  <2>3. Progress(y) BY <2>2 DEF Progress
  <2> QED BY <1>2, <1>4, <2>1, <2>2, <2>3, ReadsOn
<1>5. CASE Set(r, [x EXCEPT !.st = "delete", !.ask = Everywhere]) /\ opened \subseteq opened'
  <2>1. PICK y : y = [x EXCEPT !.st = "delete", !.ask = Everywhere] OBVIOUS
  <2>2. y \in Readers /\ y.st = "delete" BY <1>2, <2>1 DEF Readers, Everywhere
  <2>3. Progress(y)' BY <2>2 DEF Progress
  <2>4. held' \in [Nodes -> SUBSET Items] BY <1>2 DEF Reading, ReaderShape
  <2> QED BY <1>2, <1>5, <2>1, <2>2, <2>3, <2>4, OneReads
<1> QED BY <1>1, <1>3, <1>4, <1>5 DEF Decrypt

(* DeleteItemEverywhere, which begins when a device has opened the file. *)
LEMMA DeleteNextReads ==
  ASSUME Reading, IInv, NEW r \in Retrievers, DeleteNext(r)
  PROVE  Reading'
<1>1. PICK x : x = reader[r] OBVIOUS
<1>2. x \in Readers /\ x.st = "delete" /\ UNCHANGED <<sender, lossy, opened>>
  BY <1>1 DEF Reading, ReaderShape, DeleteNext
<1>3. opened # {} BY <1>1, <1>2 DEF IInv, DeletesOpened
<1>4. held' \in [Nodes -> SUBSET Items]
  <2>1. held \in [Nodes -> SUBSET Items] BY DEF Reading, ReaderShape
  <2>2. \E n, g : held' = held \/ held' = [held EXCEPT ![n] = @ \ g] BY DEF DeleteNext
  <2>3. PICK n, g : held' = held \/ held' = [held EXCEPT ![n] = @ \ g] BY <2>2
  <2>4. CASE held' = [held EXCEPT ![n] = @ \ g] BY <2>1, <2>4
  <2> QED BY <2>1, <2>3, <2>4
<1> DEFINE n == Min(x.ask)
           y == IF x.ask # {n} THEN [x EXCEPT !.ask = @ \ {n}]
                ELSE IF x.from < NumChunks THEN [x EXCEPT !.ask = Everywhere, !.from = @ + 1]
                ELSE [Idle EXCEPT !.st = "done"]
<1>5. y \in Readers /\ y.st \in {"delete", "done"}
  <2>1. PICK a \in SUBSET Nodes : a = x.ask \ {n} BY <1>2 DEF Readers
  <2>2. Idle \in Readers BY <1>2, FailedReader
  <2>3. x.from + 1 \in Nat /\ Everywhere \in SUBSET Nodes BY <1>2 DEF Readers, Everywhere
  <2>4. [x EXCEPT !.ask = a] \in Readers /\ [x EXCEPT !.ask = a].st = "delete" BY <1>2 DEF Readers
  <2>5. /\ [x EXCEPT !.ask = Everywhere, !.from = @ + 1] \in Readers
        /\ [x EXCEPT !.ask = Everywhere, !.from = @ + 1].st = "delete"
    BY <1>2, <2>3 DEF Readers
  <2>6. [Idle EXCEPT !.st = "done"] \in Readers /\ [Idle EXCEPT !.st = "done"].st = "done" BY <2>2 DEF Readers
  <2>7. y = [x EXCEPT !.ask = a] \/ y = [x EXCEPT !.ask = Everywhere, !.from = @ + 1] \/ y = [Idle EXCEPT !.st = "done"]
    BY <2>1
  <2> HIDE DEF y
  <2> QED BY <2>4, <2>5, <2>6, <2>7
<1>6. Set(r, y) BY <1>1 DEF DeleteNext
<1> HIDE DEF y
<1>8. Progress(y)' BY <1>5 DEF Progress
<1> QED BY <1>2, <1>3, <1>4, <1>5, <1>6, <1>8, OneReads

(* A device that stops has no call left. *)
LEMMA CrashReads ==
  ASSUME Reading, NEW r \in Retrievers, Crash(r)
  PROVE  Reading'
<1>1. reader[r] \in Readers /\ Set(r, Idle) /\ UNCHANGED <<held, sender, lossy, opened>>
  BY DEF Crash, Reading, ReaderShape
<1>2. Idle \in Readers /\ Progress(Idle) BY <1>1, FailedReader
<1> QED BY <1>1, <1>2, ReadsOn

(* Store adds items, and no call that counts has begun before its end. *)
LEMMA StoreReads ==
  ASSUME Reading, IInv, StoreChunk \/ StoreAgain
  PROVE  Reading'
<1>1. UNCHANGED <<reader, lossy, opened>> /\ sender.st # "stored" BY DEF StoreChunk, StoreAgain
<1>2. ASSUME NEW r \in Retrievers PROVE Progress(reader[r])'
  <2>1. PICK z : z = reader[r] OBVIOUS
  <2>2. Progress(z) BY <2>1 DEF Reading
  <2>3. Progress(z)' BY <1>1, <2>2, ProgressStays
  <2>4. z = reader'[r] BY <1>1, <2>1
  <2> QED BY <2>3, <2>4 DEF Progress, SoFar, Counts, Has, Sees, MayFail, HoldersOf
<1>3. /\ held \in [Nodes -> SUBSET Items] /\ reader \in [Retrievers -> Readers] /\ sender.next \in Chunks
      /\ sender.attempt \in 1..MaxAttempts /\ sender \in [st : {"storing", "failed", "stored"}, attempt : Nat, next : Nat]
  BY DEF Reading, ReaderShape, IInv, Shape
<1>4. CASE StoreAgain
  <2>1. held' = held /\ sender' = [st |-> "storing", attempt |-> sender.attempt + 1, next |-> 1] /\ sender.attempt < MaxAttempts
    BY <1>4 DEF StoreAgain
  <2>2. sender.attempt + 1 \in 1..MaxAttempts BY <1>3, <2>1, Bounds
  <2>3. ReaderShape' BY <1>1, <1>3, <2>1, <2>2, ChunkNumbers DEF ReaderShape
  <2> QED BY <1>2, <2>3 DEF Reading
<1>5. CASE StoreChunk
  <2>1. PICK down \in SUBSET Nodes, lost \in SUBSET Nodes :
          /\ held' = [n \in Nodes |-> held[n] \cup (IF n \in down THEN {} ELSE {<<sender.next, sender.attempt>>})]
          /\ sender' = IF ~IsDelivered(Nodes \ (down \cup lost)) THEN [sender EXCEPT !.st = "failed"]
                       ELSE IF sender.next = NumChunks THEN [sender EXCEPT !.st = "stored"]
                       ELSE [sender EXCEPT !.next = @ + 1]
    BY <1>5 DEF StoreChunk
  <2>2. held' \in [Nodes -> SUBSET Items]
    <3>1. <<sender.next, sender.attempt>> \in Items BY <1>3 DEF Items
    <3>2. ASSUME NEW n \in Nodes
          PROVE  held[n] \cup (IF n \in down THEN {} ELSE {<<sender.next, sender.attempt>>}) \in SUBSET Items
      BY <1>3, <3>1
    <3> QED BY <2>1, <3>2
  <2>3. sender'.attempt = sender.attempt
        /\ (sender'.next = sender.next \/ (sender.next # NumChunks /\ sender'.next = sender.next + 1))
    BY <1>3, <2>1
  <2>4. sender'.next \in Chunks
    <3>1. sender.next \in 1..NumChunks /\ NumChunks \in Nat BY <1>3, ChunkNumbers
    <3>2. sender.next # NumChunks => sender.next + 1 \in 1..NumChunks BY <3>1
    <3> QED BY <1>3, <2>3, <3>2, ChunkNumbers
  <2>5. ReaderShape' BY <1>1, <1>3, <2>2, <2>3, <2>4 DEF ReaderShape
  <2> QED BY <1>2, <2>5 DEF Reading
<1> QED BY <1>4, <1>5

(* A node that loses an item counts as one that may not answer. *)
LEMMA ForgetReads ==
  ASSUME Reading, IInv, NEW n \in Nodes, Forget(n)
  PROVE  Reading'
<1>1. UNCHANGED <<sender, reader, opened>> /\ lossy' = lossy \cup {n} /\ lossy \in SUBSET Nodes
  BY DEF Forget, IInv, Shape
<1>2. PICK i : held' = [held EXCEPT ![n] = @ \ {i}] BY DEF Forget
<1>3. held \in [Nodes -> SUBSET Items] BY DEF Reading, ReaderShape
<1>4. ReaderShape' BY <1>1, <1>2, <1>3 DEF Reading, ReaderShape
<1>5. ASSUME NEW r \in Retrievers PROVE Progress(reader[r])'
  <2>1. PICK z : z = reader[r] OBVIOUS
  <2>2. Progress(z) /\ z.missed \in SUBSET Nodes BY <2>1 DEF Reading, ReaderShape, Readers
  <2>3. MayFail(z) => MayFail(z)'
    <3>1. z.missed \cup lossy' \in SUBSET Nodes /\ z.missed \cup lossy \in SUBSET (z.missed \cup lossy') BY <1>1, <2>2
    <3> QED BY <3>1, MayFailStays DEF MayFail
  <2>4. \A c : Has(z, c) => Has(z, c)' BY <2>3 DEF Has
  <2>5. \A c : Sees(z, c) => Sees(z, c)'
    <3>1. \A c : HoldersOf(c)' \subseteq HoldersOf(c) BY <1>1, <1>2, <1>3 DEF HoldersOf
    <3> QED BY <1>1, <3>1 DEF Sees
  <2>6. Counts(z)' <=> Counts(z) BY <1>1 DEF Counts
  <2>7. SoFar(z) => SoFar(z)' BY <2>4, <2>5 DEF SoFar
  <2>8. Progress(z)' BY <1>1, <2>2, <2>3, <2>4, <2>6, <2>7 DEF Progress
  <2>9. z = reader'[r] BY <1>1, <2>1
  <2> QED BY <2>8, <2>9 DEF Progress, SoFar, Counts, Has, Sees, MayFail, HoldersOf
<1> QED BY <1>4, <1>5 DEF Reading
(* What the calls of Retrieve have collected, whatever the others do. *)
LEMMA ReadingInvariant == Spec => []Reading
<1>1. Init => Reading
  <2> SUFFICES ASSUME Init PROVE Reading OBVIOUS
  <2>1. Idle \in Readers /\ Idle.st = "idle"
    <3>1. 1 \in Nat /\ {} \in SUBSET Nodes /\ {} \in SUBSET Items OBVIOUS
    <3> QED BY <3>1 DEF Idle, Readers
  <2>2. Progress(Idle) BY <2>1 DEF Progress
  <2>3. 1 \in 1..MaxAttempts BY Bounds
  <2>4. ReaderShape BY <2>1, <2>3, ChunkNumbers DEF Init, ReaderShape
  <2> QED BY <2>2, <2>4 DEF Init, Reading
<1>2. IInv /\ Reading /\ [Next]_vars => Reading'
  <2>1. Reading /\ UNCHANGED vars => Reading'
    BY DEF vars, Reading, ReaderShape, Progress, SoFar, Counts, Has, Sees, MayFail, HoldersOf
  <2>2. ASSUME IInv, Reading, Next PROVE Reading'
    <3> USE <2>2
    <3>1. CASE StoreChunk \/ StoreAgain BY <3>1, StoreReads
    <3>2. ASSUME NEW r \in Retrievers, Retrieve(r) PROVE Reading' BY <3>2, RetrieveReads
    <3>3. ASSUME NEW r \in Retrievers, FetchNext(r) PROVE Reading'
      <4>1. Shape BY DEF IInv
      <4> QED BY <3>3, <4>1, FetchNextReads
    <3>4. ASSUME NEW r \in Retrievers, FetchEnd(r) PROVE Reading' BY <3>4, FetchEndReads
    <3>5. ASSUME NEW r \in Retrievers, Decrypt(r) PROVE Reading' BY <3>5, DecryptReads
    <3>6. ASSUME NEW r \in Retrievers, DeleteNext(r) PROVE Reading' BY <3>6, DeleteNextReads
    <3>7. ASSUME NEW r \in Retrievers, Crash(r) PROVE Reading' BY <3>7, CrashReads
    <3>8. ASSUME NEW n \in Nodes, Forget(n) PROVE Reading' BY <3>8, ForgetReads
    <3> QED BY <3>1, <3>2, <3>3, <3>4, <3>5, <3>6, <3>7, <3>8 DEF Next
  <2> QED BY <2>1, <2>2
<1> QED BY <1>1, <1>2, FileInvariant, PTL DEF Spec

(* A Retrieve that began after Store had returned, and whose batches fit,  *)
(* fails only if a write quorum of nodes did not answer it or have lost    *)
(* something, or another device has opened the file meanwhile.             *)
THEOREM FilesRetrievable == Spec => []Retrievable
<1>1. Reading => Retrievable
  <2> SUFFICES ASSUME Reading, NEW r \in Retrievers, reader[r].st = "failed", reader[r].sure, opened = {},
                      ~reader[r].large
               PROVE  Cardinality(reader[r].missed \cup lossy) >= WriteQuorum
    BY DEF Retrievable
  <2>1. Counts(reader[r]) BY DEF Counts
  <2>2. Progress(reader[r]) BY DEF Reading
  <2>3. MayFail(reader[r])
    <3>1. reader[r].st \in {"fetch", "decrypt", "failed"} OBVIOUS
    <3> QED BY <2>1, <2>2, <3>1, Zenon DEF Progress
  <2> QED BY <2>3 DEF MayFail
<1> QED BY <1>1, ReadingInvariant, PTL
=============================================================================

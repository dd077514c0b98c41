-------------------------- MODULE ClientStoreProofs --------------------------
(***************************************************************************)
(* For any records, limits and faults: the client store's byte count is    *)
(* the sum of what it indexes and within its limit, its index is the       *)
(* directory while no fsync was lost, protected records stay, the store    *)
(* can be opened again, and a prune takes only what it must.               *)
(***************************************************************************)
EXTENDS ClientStore, Integers, TLAPS

Files == [Ids -> Versions \cup {Absent}]

CTypeOK ==
  /\ entries \in Files /\ used \in Nat /\ maxBytes \in Nat
  /\ status \in {"down", "loading", "open"} /\ unread \subseteq Ids
  /\ section \in Sections \cup {Absent}
  /\ disk \in Files /\ maybe \in [Ids -> SUBSET (Versions \cup {Absent})]
  /\ now \in Nat /\ slips \in Nat /\ kept \in Files

(* The operation is at stage st with record id. *)
Touching(st, id) == section # Absent /\ section.stage = st /\ section.id = id

OldCharge(id) == IF id \in Held THEN entries[id].charge ELSE 0

(* What an operation that holds the lock has made sure of. *)
Secured ==
  /\ status = IF section.op = "load" THEN "loading" ELSE "open"
  /\ section.stage = "deleteSync" <=> section.op = "delete"
  /\ section.stage = "putSync" => section.op = "put" /\ disk[section.id] = section.rec
  /\ section.op = "put" =>
       /\ section.id \in Ids /\ section.rec \in Versions
       /\ used + section.rec.charge <= maxBytes + OldCharge(section.id)
       /\ Cardinality(Held \cup {section.id}) <= MaxClientStoreRecords
  /\ section.op = "limit" => section.bytes \in Limits /\ used <= section.bytes

Lock ==
  /\ status = "down" => section = Absent /\ entries = Empty
  /\ status # "down" => maxBytes \in Limits
  /\ section # Absent => Secured

(* The index and the directory. *)
Mirror ==
  /\ status = "loading" =>
       \A id \in Ids : IF id \in unread THEN disk[id] # Absent /\ entries[id] = Absent
                                        ELSE entries[id] = disk[id]
  /\ status = "open" /\ slips = 0 => \A id \in Ids : entries[id] = disk[id] \/ Touching("putSync", id)

(* What a record that must be kept looks like, whatever happened. *)
KeptSafe ==
  \A id \in Ids : Protected(kept[id]) =>
    /\ maybe[id] = {kept[id]} /\ disk[id] = kept[id]
    /\ status = "open" => entries[id] = kept[id]

(* What a power loss can bring back, as long as no fsync was lost: nothing *)
(* that is protected, but for the record whose fsync is still to come.     *)
Settled ==
  slips = 0 => \A id \in Ids : \A v \in maybe[id] :
    \/ v = disk[id] \/ ~Protected(v)
    \/ Touching("putSync", id) \/ Touching("deleteSync", id)

(* The directories that a power loss can leave. *)
Directories == {d \in Files : \A id \in Ids : d[id] \in maybe[id]}

ProtectedIn(d) == {id \in Ids : Protected(d[id])}

CanOpen(d) ==
  /\ \E limit \in Limits : Charge(d, ProtectedIn(d)) <= limit
  /\ Cardinality(ProtectedIn(d)) <= MaxClientStoreRecords

AllOpen ==
  /\ disk \in Directories
  /\ slips = 0 => \A d \in Directories : CanOpen(d)

(* The inductive invariant. *)
CInv == CTypeOK /\ WithinLimit /\ Lock /\ Mirror

(* S is a set of records of the directory f. *)
Records(f, S) == S \subseteq Ids /\ \A id \in S : f[id] \in Versions

(* What the proofs use of finite sets: numbers of records, and charges.    *)
(* That it holds is the lemma CountingHolds.                               *)
Counting ==
  /\ Cardinality({}) = 0
  /\ \A S \in SUBSET Ids : \A T \in SUBSET S :
       /\ Cardinality(S) \in Nat /\ Cardinality(T) \in Nat /\ Cardinality(T) <= Cardinality(S)
       /\ Cardinality(S \ T) = Cardinality(S) - Cardinality(T) /\ (T # S => Cardinality(T) # Cardinality(S))
  /\ \A S \in SUBSET Ids : \A id \in Ids \ S : Cardinality(S \cup {id}) = Cardinality(S) + 1
  /\ \A f, S : Records(f, S) => \A T \in SUBSET S :
       /\ Charge(f, S) \in Nat /\ Charge(f, T) \in Nat /\ Charge(f, T) <= Charge(f, S)
       /\ Charge(f, S \ T) = Charge(f, S) - Charge(f, T)
  /\ \A f : \A id \in Ids : f[id] \in Versions => Charge(f, {id}) = f[id].charge
-----------------------------------------------------------------------------
(* Charges *)

USE Zenon

(* A record's charge is a positive number. *)
LEMMA VersionCharge == \A v \in Versions : v.charge \in Nat \ {0} /\ v.created \in Nat /\ v # Absent
BY VersionsTyped, AbsentApart

(* The index is a set of records. *)
LEMMA HeldRecords ==
  ASSUME CTypeOK
  PROVE  Records(entries, Held) /\ \A id \in Ids \ Held : entries[id] = Absent
BY DEF CTypeOK, Files, Records, Held

(* A charge is a number, and nothing is charged for no record. *)
LEMMA ChargeType ==
  ASSUME Counting, NEW f, NEW S, Records(f, S)
  PROVE  Charge(f, S) \in Nat /\ Cardinality(S) \in Nat
BY DEF Counting, Records

(* Taking records away takes their charge and their number away. *)
LEMMA ChargeWithout ==
  ASSUME Counting, NEW f, NEW S, Records(f, S), NEW T \in SUBSET S
  PROVE  /\ Records(f, T) /\ Records(f, S \ T)
         /\ Charge(f, S \ T) = Charge(f, S) - Charge(f, T)
         /\ Cardinality(S \ T) = Cardinality(S) - Cardinality(T)
<1>1. S \in SUBSET Ids /\ Records(f, T) /\ Records(f, S \ T) BY DEF Records
<1>2. Charge(f, S \ T) = Charge(f, S) - Charge(f, T) BY SMT DEF Counting
<1>3. Cardinality(S \ T) = Cardinality(S) - Cardinality(T) BY <1>1 DEF Counting
<1> QED BY <1>1, <1>2, <1>3

(* A part is not charged more than the whole. *)
LEMMA ChargeMonotone ==
  ASSUME Counting, NEW f, NEW S, Records(f, S), NEW T \in SUBSET S
  PROVE  /\ Records(f, T) /\ Charge(f, T) <= Charge(f, S) /\ Cardinality(T) <= Cardinality(S)
         /\ Charge(f, T) \in Nat /\ Cardinality(T) \in Nat /\ Charge(f, S) \in Nat /\ Cardinality(S) \in Nat
<1>1. S \in SUBSET Ids /\ Records(f, T) BY DEF Records
<1> QED BY <1>1 DEF Counting

(* Only the records charged for matter. *)
LEMMA ChargeSame ==
  ASSUME NEW f, NEW g, NEW S, \A id \in S : f[id] = g[id]
  PROVE  Charge(f, S) = Charge(g, S)
<1>1. Units(f, S) = Units(g, S) BY DEF Units
<1> QED BY <1>1 DEF Charge

(* One record's charge. *)
LEMMA ChargeOne ==
  ASSUME Counting, NEW f, NEW id \in Ids, f[id] \in Versions
  PROVE  Charge(f, {id}) = f[id].charge /\ f[id].charge \in Nat /\ Records(f, {id})
<1>1. f[id].charge \in Nat /\ Records(f, {id}) BY VersionCharge DEF Records
<1> QED BY <1>1 DEF Counting

(* A record that is added adds its charge. *)
LEMMA ChargeWith ==
  ASSUME Counting, NEW f, NEW S, Records(f, S), NEW id \in Ids \ S, f[id] \in Versions
  PROVE  /\ Records(f, S \cup {id})
         /\ Charge(f, S \cup {id}) = Charge(f, S) + f[id].charge
         /\ Cardinality(S \cup {id}) = Cardinality(S) + 1
<1> DEFINE U == S \cup {id}
<1>1. Records(f, U) /\ {id} \in SUBSET U /\ U \ {id} = S BY DEF Records
<1> HIDE DEF U
<1>2. Charge(f, U \ {id}) = Charge(f, U) - Charge(f, {id}) BY <1>1, ChargeWithout
<1>3. Charge(f, {id}) = f[id].charge /\ f[id].charge \in Nat BY ChargeOne
<1>4. Charge(f, U) \in Nat BY <1>1, ChargeType
<1>5. Charge(f, S) = Charge(f, U) - f[id].charge BY <1>1, <1>2, <1>3
<1>6. Charge(f, U) = Charge(f, S) + f[id].charge BY <1>3, <1>4, <1>5, SMT
<1>7. S \in SUBSET Ids BY DEF Records
<1>8. Cardinality(S \cup {id}) = Cardinality(S) + 1 BY <1>7 DEF Counting
<1> QED BY <1>1, <1>6, <1>8 DEF U

(* What is charged for the other records. *)
LEMMA ChargeRest ==
  ASSUME Counting, CTypeOK, used = Charge(entries, Held), NEW id \in Ids
  PROVE  /\ Records(entries, Held \ {id}) /\ Charge(entries, Held \ {id}) \in Nat /\ OldCharge(id) \in Nat
         /\ Charge(entries, Held \ {id}) + OldCharge(id) = used
<1>1. Records(entries, Held) /\ used \in Nat BY HeldRecords DEF CTypeOK
<1> DEFINE R == Held \ {id}
<1>2. CASE id \in Held
  <2> USE <1>2
  <2>1. {id} \in SUBSET Held /\ entries[id] \in Versions BY <1>1 DEF Records
  <2>2. Charge(entries, R) = Charge(entries, Held) - Charge(entries, {id}) /\ Records(entries, R)
    BY <1>1, <2>1, ChargeWithout
  <2>3. Charge(entries, {id}) = entries[id].charge /\ entries[id].charge \in Nat BY <2>1, ChargeOne
  <2>4. OldCharge(id) = entries[id].charge BY DEF OldCharge
  <2>5. Charge(entries, R) \in Nat BY <2>2, ChargeType
  <2> HIDE DEF R
  <2>6. Charge(entries, R) + OldCharge(id) = used BY <1>1, <2>2, <2>3, <2>4, <2>5, SMT
  <2> QED BY <2>2, <2>3, <2>4, <2>5, <2>6 DEF R
<1>3. CASE id \notin Held
  <2>1. R = Held /\ OldCharge(id) = 0 BY <1>3 DEF OldCharge
  <2> QED BY <1>1, <2>1, SMT
<1> QED BY <1>2, <1>3
-----------------------------------------------------------------------------
(* The sorted candidates, and what a prune takes of them *)

(* sort.Slice gets a strict order: expired ones first, then by age, then   *)
(* by id.                                                                  *)
LEMMA PruneOrder ==
  ASSUME CTypeOK, NEW a \in Held, NEW b \in Held, NEW c \in Held
  PROVE  /\ ~PruneBefore(a, a)
         /\ a # b => PruneBefore(a, b) \/ PruneBefore(b, a)
         /\ PruneBefore(a, b) /\ PruneBefore(b, c) => PruneBefore(a, c)
         /\ PruneBefore(a, b) => ~PruneBefore(b, a)
<1>1. a \in Nat /\ b \in Nat /\ c \in Nat BY IdsAreOrdered DEF Held
<1>2. entries[a] \in Versions /\ entries[b] \in Versions /\ entries[c] \in Versions
  BY HeldRecords DEF Records
<1>3. entries[a].created \in Nat /\ entries[b].created \in Nat /\ entries[c].created \in Nat
  BY <1>2, VersionCharge
<1> DEFINE x == Expired(entries[a])
           y == Expired(entries[b])
           z == Expired(entries[c])
           i == entries[a].created
           j == entries[b].created
           k == entries[c].created
<1>4. i \in Nat /\ j \in Nat /\ k \in Nat BY <1>3
<1>5. /\ PruneBefore(a, a) <=> IF x # x THEN x ELSE IF i = i THEN a < a ELSE i < i
      /\ PruneBefore(a, b) <=> IF x # y THEN x ELSE IF i = j THEN a < b ELSE i < j
      /\ PruneBefore(b, a) <=> IF y # x THEN y ELSE IF j = i THEN b < a ELSE j < i
      /\ PruneBefore(b, c) <=> IF y # z THEN y ELSE IF j = k THEN b < c ELSE j < k
      /\ PruneBefore(a, c) <=> IF x # z THEN x ELSE IF i = k THEN a < c ELSE i < k
  BY DEF PruneBefore
<1>6. /\ PruneBefore(a, a) <=> (i = i /\ a < a) \/ i < i
      /\ PruneBefore(a, b) <=> (x /\ ~y) \/ ((x <=> y) /\ ((i = j /\ a < b) \/ i < j))
      /\ PruneBefore(b, a) <=> (y /\ ~x) \/ ((y <=> x) /\ ((j = i /\ b < a) \/ j < i))
      /\ PruneBefore(b, c) <=> (y /\ ~z) \/ ((y <=> z) /\ ((j = k /\ b < c) \/ j < k))
      /\ PruneBefore(a, c) <=> (x /\ ~z) \/ ((x <=> z) /\ ((i = k /\ a < c) \/ i < k))
  BY <1>4, <1>5, SMT DEF Expired
<1> HIDE DEF x, y, z, i, j, k
<1> QED BY <1>1, <1>4, <1>6, SMT

(* The places of the candidates are those of a list. *)
LEMMA Places ==
  ASSUME Counting, CTypeOK, NEW C \in SUBSET Held
  PROVE  /\ Cardinality(C) \in Nat
         /\ \A a \in C : Place(a, C) \in 0..(Cardinality(C) - 1)
         /\ \A a, b \in C : Place(a, C) < Place(b, C) <=> PruneBefore(a, b)
<1>0. C \in SUBSET Ids BY DEF Held
<1>1. Cardinality(C) \in Nat BY <1>0 DEF Counting
<1>2. ASSUME NEW a \in C PROVE Place(a, C) \in 0..(Cardinality(C) - 1)
  <2> DEFINE A == {o \in C : PruneBefore(o, a)}
  <2>1. A \in SUBSET C /\ a \notin A BY PruneOrder
  <2>2. Place(a, C) = Cardinality(A) BY DEF Place
  <2> HIDE DEF A
  <2>3. A # C BY <2>1
  <2>4. Cardinality(A) \in Nat /\ Cardinality(A) <= Cardinality(C) /\ Cardinality(A) # Cardinality(C)
    BY <1>0, <2>1, <2>3 DEF Counting
  <2> QED BY <1>1, <2>2, <2>4, SMT
<1>3. ASSUME NEW a \in C, NEW b \in C, PruneBefore(a, b) PROVE Place(a, C) < Place(b, C)
  <2> USE <1>3
  <2> DEFINE A == {o \in C : PruneBefore(o, a)}
             B == {o \in C : PruneBefore(o, b)}
  <2>1. A \in SUBSET B
    <3>1. ASSUME NEW o \in C, PruneBefore(o, a) PROVE PruneBefore(o, b) BY <3>1, PruneOrder
    <3> QED BY <3>1
  <2>2. a \in B /\ a \notin A BY PruneOrder
  <2>3. B \in SUBSET Ids BY <1>0
  <2>4. Place(a, C) = Cardinality(A) /\ Place(b, C) = Cardinality(B) BY DEF Place
  <2> HIDE DEF A, B
  <2>5. A # B BY <2>2
  <2>6. /\ Cardinality(A) \in Nat /\ Cardinality(B) \in Nat
        /\ Cardinality(A) <= Cardinality(B) /\ Cardinality(A) # Cardinality(B)
    BY <2>1, <2>3, <2>5 DEF Counting
  <2> QED BY <2>4, <2>6, SMT
<1>4. ASSUME NEW a \in C, NEW b \in C, ~PruneBefore(a, b) PROVE ~(Place(a, C) < Place(b, C))
  <2>0. Place(a, C) \in Nat /\ Place(b, C) \in Nat BY <1>1, <1>2, SMT
  <2>1. CASE a = b BY <2>0, <2>1, SMT
  <2>2. CASE a # b
    <3>1. PruneBefore(b, a) BY <1>4, <2>2, PruneOrder
    <3>2. Place(b, C) < Place(a, C) BY <1>3, <3>1
    <3> QED BY <2>0, <3>2, SMT
  <2> QED BY <2>1, <2>2
<1> QED BY <1>1, <1>2, <1>3, <1>4

(* All candidates, and those before one of them. *)
LEMMA Firsts ==
  ASSUME Counting, CTypeOK, NEW C \in SUBSET Held
  PROVE  /\ First(C, Cardinality(C)) = C
         /\ \A a \in C : First(C, Place(a, C)) = {o \in C : PruneBefore(o, a)}
<1>1. Cardinality(C) \in Nat /\ \A a \in C : Place(a, C) \in 0..(Cardinality(C) - 1) BY Places
<1>2. \A a \in C : Place(a, C) < Cardinality(C) BY <1>1, SMT
<1>3. First(C, Cardinality(C)) = C BY <1>2 DEF First
<1>4. \A a \in C : First(C, Place(a, C)) = {o \in C : PruneBefore(o, a)} BY Places DEF First
<1> QED BY <1>3, <1>4

(* What is indexed and not sorted before id is part of what would stay.    *)
LEMMA RestHolds ==
  ASSUME CTypeOK, \A o \in Held : entries[o] = disk[o], NEW x, NEW id \in Held
  PROVE  Held \ {o \in Candidates(x) : PruneBefore(o, id)} \in SUBSET Rest(id, x)
<1> SUFFICES ASSUME NEW o \in Held, ~(o \in Candidates(x) /\ PruneBefore(o, id)), o # x, Prunable(disk[o])
             PROVE  o \in Ids /\ disk[o] # Absent /\ ~GoesBefore(o, id)
  BY DEF Rest, Held
<1>1. o \in Ids /\ disk[o] = entries[o] /\ disk[o] # Absent /\ disk[id] = entries[id] /\ disk[id] # Absent BY DEF Held
<1>2. o \in Candidates(x) BY <1>1 DEF Candidates
<1>3. ~PruneBefore(o, id) BY <1>2
<1>4. disk[o] \in Versions /\ disk[id] \in Versions BY <1>1 DEF CTypeOK, Files, Held
<1>5. disk[o].created \in Nat /\ disk[id].created \in Nat /\ o \in Nat /\ id \in Nat
  BY <1>1, <1>4, VersionCharge, IdsAreOrdered DEF Held
<1>6. PruneBefore(o, id) <=>
        IF Expired(disk[o]) # Expired(disk[id]) THEN Expired(disk[o])
        ELSE IF disk[o].created = disk[id].created THEN o < id ELSE disk[o].created < disk[id].created
  BY <1>1 DEF PruneBefore
<1>7. GoesBefore(o, id) => PruneBefore(o, id) BY <1>5, <1>6, SMT DEF GoesBefore, Expired
<1> QED BY <1>1, <1>3, <1>7

(* A prune that takes an unexpired record was not done with everything     *)
(* that is sorted before it.                                               *)
LEMMA PruneTakes ==
  ASSUME Counting, CTypeOK, used = Charge(entries, Held), \A o \in Held : entries[o] = disk[o],
         NEW op, NEW x, NEW rec, NEW b \in Nat, NEW r \in Nat, Prune(op, x, rec, b, r),
         NEW id \in Ids, disk[id] # Absent, disk'[id] = Absent, ~Expired(disk[id])
  PROVE  /\ disk[id].policy = "oldest"
         /\ Charge(disk, Rest(id, x)) > b \/ Cardinality(Rest(id, x)) > r
<1> DEFINE C == Candidates(x)
           F == {o \in C : PruneBefore(o, id)}
<1>1. C \in SUBSET Held BY DEF Candidates
<1>2. PICK n \in 0..Cardinality(C) : PruneGoesOn(C, n, b, r) /\ DeleteMeta(First(C, n)) BY DEF Prune, PruneStops
<1>3. id \in C /\ Place(id, C) < n BY <1>2 DEF DeleteMeta, RemoveFiles, First
<1>4. id \in Held /\ disk[id] = entries[id] /\ Prunable(entries[id]) BY <1>1, <1>3 DEF Candidates
<1>5. disk[id].policy = "oldest" BY <1>4 DEF Prunable
<1>6. ~Suffices(F, b, r)
  <2>1. Cardinality(C) \in Nat /\ Place(id, C) \in 0..(Cardinality(C) - 1) BY <1>1, <1>3, Places
  <2>2. Place(id, C) \in 0..(n - 1)
    <3> DEFINE p == Place(id, C)
               c == Cardinality(C)
    <3>1. c \in Nat /\ p \in 0..(c - 1) /\ n \in 0..c /\ p < n BY <1>2, <1>3, <2>1
    <3> HIDE DEF p, c
    <3>2. p \in 0..(n - 1) BY <3>1, SMT
    <3> QED BY <3>2 DEF p
  <2>3. ~Suffices(First(C, Place(id, C)), b, r) BY <1>2, <2>2 DEF PruneGoesOn
  <2>4. First(C, Place(id, C)) = F BY <1>1, <1>3, Firsts
  <2> QED BY <2>3, <2>4
<1>7. F \in SUBSET Held BY <1>1
<1>8. Held \ F \in SUBSET Rest(id, x) BY <1>4, RestHolds
<1>9. Records(disk, Rest(id, x)) BY DEF Records, Rest, CTypeOK, Files
<1>10. /\ Charge(disk, Held \ F) <= Charge(disk, Rest(id, x)) /\ Cardinality(Held \ F) <= Cardinality(Rest(id, x))
       /\ Charge(disk, Rest(id, x)) \in Nat /\ Cardinality(Rest(id, x)) \in Nat
       /\ Charge(disk, Held \ F) \in Nat /\ Cardinality(Held \ F) \in Nat
  <2> DEFINE T == Held \ F
             U == Rest(id, x)
  <2>1. T \in SUBSET U /\ Records(disk, U) BY <1>8, <1>9
  <2> HIDE DEF T, U
  <2>2. /\ Charge(disk, T) <= Charge(disk, U) /\ Cardinality(T) <= Cardinality(U)
        /\ Charge(disk, U) \in Nat /\ Cardinality(U) \in Nat /\ Charge(disk, T) \in Nat /\ Cardinality(T) \in Nat
    BY <2>1, ChargeMonotone
  <2> QED BY <2>2 DEF T, U
<1>11. Charge(disk, Held \ F) = Charge(entries, Held \ F)
  <2>1. \A o \in Held \ F : disk[o] = entries[o] OBVIOUS
  <2> QED BY <2>1, ChargeSame
<1> HIDE DEF F
<1>12. Records(entries, Held) BY HeldRecords
<1>13. /\ Charge(entries, Held \ F) = Charge(entries, Held) - Charge(entries, F)
       /\ Cardinality(Held \ F) = Cardinality(Held) - Cardinality(F)
  BY <1>7, <1>12, ChargeWithout, SMT
<1>14. /\ Charge(entries, F) \in Nat /\ Cardinality(F) \in Nat
       /\ Charge(entries, Held) \in Nat /\ Cardinality(Held) \in Nat
  BY <1>7, <1>12, ChargeMonotone
<1>15. ~(used <= b + Charge(entries, F)) \/ ~(Cardinality(Held) <= r + Cardinality(F)) BY <1>6 DEF Suffices
<1> DEFINE u == Charge(disk, Held \ F)
           h == Cardinality(Held \ F)
           c == Charge(entries, F)
           k == Cardinality(F)
           m == Cardinality(Held)
           U == Charge(disk, Rest(id, x))
           H == Cardinality(Rest(id, x))
<1>16. /\ u = used - c /\ h = m - k /\ used \in Nat /\ c \in Nat /\ k \in Nat /\ m \in Nat /\ u \in Nat /\ h \in Nat
       /\ (~(used <= b + c) \/ ~(m <= r + k)) /\ u <= U /\ h <= H /\ U \in Nat /\ H \in Nat
  BY <1>10, <1>11, <1>13, <1>14, <1>15
<1> HIDE DEF u, h, c, k, m, U, H
<1>17. U > b \/ H > r BY <1>16, SMT
<1> QED BY <1>5, <1>17 DEF U, H
-----------------------------------------------------------------------------
(* What the protected records of a directory need *)

(* A record can only lose its protection by expiring. *)
LEMMA ProtectedBefore ==
  ASSUME CInv, [Next]_vars, NEW v \in Versions \cup {Absent}, Protected(v)'
  PROVE  Protected(v) /\ v \in Versions /\ ~Prunable(v)
<1>1. now \in Nat BY DEF CInv, CTypeOK
<1>2. now' = now \/ now' = now + 1
  BY DEF index, Next, vars, Tick, Put, Delete, LoadFile, PutRename, PutSync, DeleteSync, PruneSync, PruneDone,
     SyncFails, PruneTo, SetLimit, Open, LoadPrune, LoadDone, Close, ProcessCrash, PowerLoss, Gone
<1>3. v \in Versions /\ v.policy # "oldest" /\ ~(v.expires # 0 /\ v.expires <= now')
  BY DEF Protected, Expired
<1>4. v.expires \in Nat BY <1>3, VersionsTyped
<1>5. ~(v.expires # 0 /\ v.expires <= now) BY <1>1, <1>2, <1>3, <1>4, SMT
<1> QED BY <1>3, <1>5, VersionCharge DEF Protected, Expired, Prunable

(* While Put renames, the other protected records of any directory that a  *)
(* power loss can leave are those of the index.                            *)
LEMMA RenamedSame ==
  ASSUME CInv, Settled, slips = 0, PutRename, NEW d \in Files,
         \A id \in Ids : id # section.id => d[id] \in maybe[id]
  PROVE  \A id \in ProtectedIn(d) : id # section.id => d[id] = entries[id] /\ id \in Held
<1> SUFFICES ASSUME NEW id \in ProtectedIn(d), id # section.id PROVE d[id] = entries[id] /\ id \in Held OBVIOUS
<1>1. id \in Ids /\ Protected(d[id]) /\ d[id] \in maybe[id] /\ status = "open"
  BY DEF ProtectedIn, PutRename, CInv, Lock, Secured
<1>2. ~Touching("putSync", id) /\ ~Touching("deleteSync", id) BY DEF PutRename, Touching
<1>3. d[id] = disk[id] BY <1>1, <1>2 DEF Settled
<1>4. entries[id] = disk[id] BY <1>1, <1>2 DEF CInv, Mirror
<1> QED BY <1>1, <1>3, <1>4 DEF Held, Protected

(* A directory whose protected records are among those of one that can be  *)
(* opened can be opened.                                                   *)
LEMMA FewerProtected ==
  ASSUME Counting, CInv, [Next]_vars, NEW d \in Files, NEW e \in Files, CanOpen(e),
         \A id \in Ids : Protected(d[id])' => e[id] = d[id]
  PROVE  CanOpen(d)'
<1>1. PICK P : P = {id \in Ids : Protected(d[id])'} OBVIOUS
<1>2. \A id \in P : Protected(d[id]) /\ d[id] \in Versions /\ e[id] = d[id]
  <2> SUFFICES ASSUME NEW id \in P PROVE Protected(d[id]) /\ d[id] \in Versions /\ e[id] = d[id] OBVIOUS
  <2>1. id \in Ids /\ Protected(d[id])' /\ e[id] = d[id] BY <1>1
  <2>2. d[id] \in Versions \cup {Absent} BY <2>1 DEF Files
  <2> QED BY <2>1, <2>2, ProtectedBefore
<1>3. P \in SUBSET ProtectedIn(e) BY <1>1, <1>2 DEF ProtectedIn
<1>4. Records(e, ProtectedIn(e)) BY DEF Records, ProtectedIn, Protected, Files
<1>5. /\ Charge(e, P) <= Charge(e, ProtectedIn(e)) /\ Cardinality(P) <= Cardinality(ProtectedIn(e))
      /\ Charge(e, P) \in Nat /\ Charge(e, ProtectedIn(e)) \in Nat
      /\ Cardinality(P) \in Nat /\ Cardinality(ProtectedIn(e)) \in Nat
  BY <1>3, <1>4, ChargeMonotone
<1>6. Charge(d, P) = Charge(e, P) BY <1>2, ChargeSame
<1>7. PICK limit \in Limits : Charge(e, ProtectedIn(e)) <= limit BY DEF CanOpen
<1>8. Charge(d, P) <= limit /\ Cardinality(P) <= MaxClientStoreRecords
  <2>1. limit \in Nat /\ MaxClientStoreRecords \in Nat BY LimitsTyped
  <2>2. Cardinality(ProtectedIn(e)) <= MaxClientStoreRecords BY DEF CanOpen
  <2> QED BY <1>5, <1>6, <1>7, <2>1, <2>2, SMT
<1>9. ProtectedIn(d)' = P BY <1>1 DEF ProtectedIn
<1>10. Charge(d, ProtectedIn(d))' = Charge(d, P) BY <1>9 DEF Charge, Units
<1> QED BY <1>8, <1>9, <1>10 DEF CanOpen

(* With the record that Put renames into place, the protected records of   *)
(* any directory a power loss can leave are within the limit.              *)
LEMMA RenamedFits ==
  ASSUME Counting, CInv, Settled, [Next]_vars, slips = 0, PutRename, NEW d \in Files, d[section.id] = section.rec,
         \A id \in Ids : id # section.id => d[id] \in maybe[id]
  PROVE  CanOpen(d)
<1> DEFINE x == section.id
           P == ProtectedIn(d)
           R == Held \ {x}
<1> /\ x \in Ids /\ d[x] \in Versions /\ status = "open" /\ maxBytes \in Limits /\ maxBytes \in Nat
      /\ used = Charge(entries, Held) /\ used \in Nat /\ Records(entries, Held)
      /\ used + d[x].charge <= maxBytes + OldCharge(x) /\ Cardinality(Held \cup {x}) <= MaxClientStoreRecords
  BY HeldRecords DEF PutRename, CInv, Lock, Secured, WithinLimit, CTypeOK
<1>1. \A id \in P : id # x => d[id] = entries[id] /\ id \in Held BY RenamedSame
<1>2. Records(d, P) BY DEF Records, ProtectedIn, Protected, Files
<1>3. P \in SUBSET (Held \cup {x}) /\ P \ {x} \in SUBSET R BY <1>1
<1>4. Cardinality(P) <= MaxClientStoreRecords
  <2>1. Held \cup {x} \in SUBSET Ids BY DEF Held
  <2>2. /\ Cardinality(P) \in Nat /\ Cardinality(Held \cup {x}) \in Nat
        /\ Cardinality(P) <= Cardinality(Held \cup {x})
    BY <1>3, <2>1 DEF Counting
  <2> QED BY <2>2, LimitsTyped, SMT
<1>5. Charge(entries, R) + OldCharge(x) = used /\ OldCharge(x) \in Nat /\ Charge(entries, R) \in Nat /\ Records(entries, R)
  BY ChargeRest DEF CInv
<1>6. Charge(d, P \ {x}) <= Charge(entries, R) /\ Charge(d, P \ {x}) \in Nat
  <2>1. Charge(entries, P \ {x}) <= Charge(entries, R) /\ Charge(entries, P \ {x}) \in Nat
    <3> DEFINE T == P \ {x}
    <3>1. T \in SUBSET R BY <1>3
    <3> HIDE DEF T, R
    <3>2. Charge(entries, T) <= Charge(entries, R) /\ Charge(entries, T) \in Nat BY <1>5, <3>1, ChargeMonotone
    <3> QED BY <3>2 DEF T
  <2>2. \A id \in P \ {x} : d[id] = entries[id] BY <1>1
  <2>3. Charge(d, P \ {x}) = Charge(entries, P \ {x}) BY <2>2, ChargeSame, SMT
  <2> QED BY <2>1, <2>3
<1>7. Charge(d, P) <= Charge(d, P \ {x}) + d[x].charge /\ Charge(d, P) \in Nat /\ d[x].charge \in Nat
  <2>0. Charge(d, P) \in Nat /\ d[x].charge \in Nat BY <1>2, ChargeType, VersionCharge
  <2>1. CASE x \in P
    <3>1. {x} \in SUBSET P BY <2>1
    <3> HIDE DEF P
    <3>2. Charge(d, P \ {x}) = Charge(d, P) - Charge(d, {x}) BY <1>2, <3>1, ChargeWithout, SMT
    <3>3. Charge(d, {x}) = d[x].charge BY ChargeOne
    <3> QED BY <2>0, <3>2, <3>3, SMT
  <2>2. CASE x \notin P
    <3>1. P \ {x} = P BY <2>2
    <3> HIDE DEF P
    <3> QED BY <2>0, <3>1, SMT
  <2> QED BY <2>1, <2>2
<1> HIDE DEF P, R, x
<1>8. Charge(d, P) <= maxBytes BY <1>5, <1>6, <1>7, SMT
<1> QED BY <1>4, <1>8 DEF CanOpen, P
-----------------------------------------------------------------------------
(* What a prune does *)

(* A prune that is not refused removes candidates. *)
LEMMA PruneMeans ==
  ASSUME NEW op, NEW exclude, NEW rec, NEW bytes, NEW records, Prune(op, exclude, rec, bytes, records)
  PROVE  \E S \in SUBSET Candidates(exclude), st \in {"pruned", "pruneSync"} :
           /\ DeleteMeta(S)
           /\ section' = [op |-> op, id |-> exclude, rec |-> rec, bytes |-> bytes, records |-> records, stage |-> st]
<1> DEFINE C == Candidates(exclude)
<1>1. PICK n \in 0..Cardinality(C) :
        /\ DeleteMeta(First(C, n))
        /\ section' = [op |-> op, id |-> exclude, rec |-> rec, bytes |-> bytes, records |-> records,
                       stage |-> IF n = 0 THEN "pruned" ELSE "pruneSync"]
  BY DEF Prune
<1>2. First(C, n) \in SUBSET C BY DEF First
<1>3. (IF n = 0 THEN "pruned" ELSE "pruneSync") \in {"pruned", "pruneSync"} OBVIOUS
<1> QED BY <1>1, <1>2, <1>3

(* A prune that stops in the middle has removed candidates too. *)
LEMMA PartialMeans ==
  ASSUME NEW exclude, NEW bytes, NEW records, NEW S \in PartialPrunes(exclude, bytes, records)
  PROVE  S \subseteq Candidates(exclude)
BY DEF PartialPrunes, First

(* A prune for an operation, finished or stopped. *)
LEMMA PruneForMeans ==
  ASSUME NEW op, NEW exclude, NEW rec, NEW bytes, NEW records,
         PruneFor(op, exclude, rec, bytes, records)
  PROVE  \E S \in SUBSET Candidates(exclude) :
           /\ DeleteMeta(S)
           /\ \/ UNCHANGED section
              \/ \E st \in {"pruned", "pruneSync"} :
                   section' = [op |-> op, id |-> exclude, rec |-> rec, bytes |-> bytes,
                               records |-> records, stage |-> st]
<1>1. CASE Prune(op, exclude, rec, bytes, records) BY <1>1, PruneMeans
<1>2. CASE \E S \in PartialPrunes(exclude, bytes, records) : DeleteMeta(S) /\ UNCHANGED section
  BY <1>2, PartialMeans
<1> QED BY <1>1, <1>2 DEF PruneFor

(* What Put asks of a prune is a number of bytes and of records. *)
LEMMA PutTargets ==
  ASSUME CTypeOK, NEW id \in Ids, NEW v \in Versions,
         maxBytes + (IF id \in Held THEN entries[id].charge ELSE 0) >= v.charge
  PROVE  /\ PutTarget(id, v) \in Nat /\ PutTarget(id, v) + v.charge = maxBytes + OldCharge(id)
         /\ OldCharge(id) \in Nat /\ v.charge \in Nat
         /\ (MaxClientStoreRecords - (IF id \in Held THEN 0 ELSE 1)) \in Nat
<1>1. v.charge \in Nat /\ maxBytes \in Nat BY VersionCharge DEF CTypeOK
<1>2. OldCharge(id) \in Nat /\ OldCharge(id) = IF id \in Held THEN entries[id].charge ELSE 0
  BY HeldRecords, VersionCharge DEF OldCharge, Records
<1>3. PutTarget(id, v) = maxBytes + OldCharge(id) - v.charge BY <1>2 DEF PutTarget
<1>4. maxBytes + OldCharge(id) >= v.charge BY <1>2
<1> QED BY <1>1, <1>2, <1>3, <1>4, LimitsTyped, SMT
-----------------------------------------------------------------------------
(* Types, the lock, the index and the directory *)

(* A prune, by whichever operation: records it may remove are removed from *)
(* the directory, and from the index unless the index goes altogether.     *)
Pruning(S) ==
  /\ S \subseteq Held /\ (\A id \in S : Prunable(entries[id])) /\ section = Absent
  /\ RemoveFiles(S) /\ UNCHANGED <<maxBytes, slips, now, kept>>
  /\ \/ /\ DeleteMeta(S) /\ UNCHANGED <<status, unread>>
        /\ section' = Absent \/ (section'.op # "delete" /\ section'.stage \in {"pruned", "pruneSync"})
     \/ status' = "down" /\ entries' = Empty /\ used' = 0 /\ section' = Absent

(* Put, PruneTo, SetLimit and open prune, and change nothing else. *)
LEMMA OperationPrunes ==
  ASSUME CTypeOK,
         \/ \E id \in Ids, v \in Versions : Put(id, v)
         \/ \E bytes : PruneTo(bytes) \/ SetLimit(bytes)
         \/ LoadPrune
  PROVE  \E S : Pruning(S)
<1>1. ASSUME NEW x PROVE Candidates(x) \subseteq Held /\ \A id \in Candidates(x) : Prunable(entries[id])
  BY DEF Candidates
<1>2. ASSUME NEW op \in {"put", "prune", "limit", "load"}, NEW x, NEW v, NEW b, NEW r, PruneFor(op, x, v, b, r), section = Absent,
             UNCHANGED <<maxBytes, status, unread, slips, now, kept>>
      PROVE  \E S : Pruning(S)
  <2> USE <1>2
  <2>1. PICK S \in SUBSET Candidates(x) :
          DeleteMeta(S) /\ (section' = Absent \/ (section'.op # "delete" /\ section'.stage \in {"pruned", "pruneSync"}))
    BY PruneForMeans, SMT
  <2>2. S \subseteq Held /\ \A id \in S : Prunable(entries[id]) BY <1>1, <2>1
  <2> QED BY <2>1, <2>2 DEF Pruning, DeleteMeta
<1>3. CASE \E id \in Ids, v \in Versions : Put(id, v) BY <1>2, <1>3 DEF Put, Ready
<1>4. CASE \E bytes : PruneTo(bytes) \/ SetLimit(bytes) BY <1>2, <1>4 DEF PruneTo, SetLimit, Ready
<1>5. CASE LoadPrune
  <2> USE <1>5
  <2>1. CASE /\ Prune("load", 0, Absent, maxBytes, MaxClientStoreRecords)
             /\ UNCHANGED <<maxBytes, status, unread, slips, now, kept>>
    <3> USE <2>1
    <3>1. PruneFor("load", 0, Absent, maxBytes, MaxClientStoreRecords) BY DEF PruneFor
    <3> QED BY <1>2, <3>1 DEF LoadPrune
  <2>2. CASE \E S \in PartialPrunes(0, maxBytes, MaxClientStoreRecords) : RemoveFiles(S) /\ Gone /\ UNCHANGED slips
    <3>1. PICK S \in PartialPrunes(0, maxBytes, MaxClientStoreRecords) : RemoveFiles(S) /\ Gone /\ UNCHANGED slips
      BY <2>2
    <3>2. S \subseteq Candidates(0) BY <3>1, PartialMeans
    <3>3. S \subseteq Held /\ \A id \in S : Prunable(entries[id]) BY <1>1, <3>2
    <3> QED BY <3>1, <3>3 DEF Pruning, Gone, LoadPrune
  <2>3. CASE Gone /\ UNCHANGED <<disk, maybe, slips>>
    <3> USE <2>3
    <3>1. RemoveFiles({}) BY DEF RemoveFiles, CTypeOK, Files
    <3> QED BY <3>1 DEF Pruning, Gone, LoadPrune
  <2> QED BY <2>1, <2>2, <2>3 DEF LoadPrune
<1> QED BY <1>3, <1>4, <1>5

(* A step that leaves the files alone. *)
Quiet ==
  /\ UNCHANGED <<disk, maybe, kept>>
  /\ status' = "open" => (status = "open" /\ UNCHANGED entries) \/ LoadDone
  /\ \/ slips' # slips \/ ~Pending
     \/ section' = section \/ section = Absent \/ section.stage = "pruned"

(* Every step is quiet, a prune, or one of five that touch the files.      *)
LEMMA FilesStep ==
  ASSUME CTypeOK, [Next]_vars
  PROVE  \/ Quiet
         \/ \E S : Pruning(S)
         \/ \E id \in Ids : Delete(id)
         \/ PutRename \/ PutSync \/ PowerLoss
         \/ Sync /\ UNCHANGED <<disk, kept, entries, status>>
<1>1. CASE ProcessCrash
  <2> USE <1>1
  <2>1. slips' # slips \/ ~Pending BY SMT DEF ProcessCrash, CTypeOK
  <2> QED BY <2>1 DEF ProcessCrash, Gone, Quiet
<1>2. CASE SyncFails
  <2> USE <1>2
  <2>1. slips' # slips BY SMT DEF SyncFails, CTypeOK
  <2> QED BY <2>1 DEF SyncFails, Quiet
<1>3. CASE DeleteSync \/ PruneSync BY <1>3 DEF DeleteSync, PruneSync, index
<1>4. CASE Close \/ LoadDone \/ PruneDone BY <1>4 DEF Close, Gone, Ready, LoadDone, PruneDone, Quiet
<1>5. CASE (\E limit \in Limits : Open(limit)) \/ (\E id \in Ids : LoadFile(id)) BY <1>5 DEF Open, LoadFile, Quiet
<1>6. CASE Tick \/ UNCHANGED vars BY <1>6 DEF Tick, vars, index, Quiet
<1> QED BY <1>1, <1>2, <1>3, <1>4, <1>5, <1>6, OperationPrunes DEF Next

(* An operation other than Delete takes the lock with a prune.             *)
Begins(op, x, rec, b, r) ==
  /\ Prune(op, x, rec, b, r) /\ b \in Nat /\ r \in Nat /\ op # "delete"
  /\ section' \in Sections /\ section'.op = op /\ section'.id = x /\ section'.rec = rec
  /\ section'.bytes = b /\ section'.records = r /\ section'.stage \in {"pruned", "pruneSync"}
  /\ UNCHANGED <<status, maxBytes>> /\ status = IF op = "load" THEN "loading" ELSE "open"
  /\ op = "put" => x \in Ids /\ rec \in Versions /\ Put(x, rec)
  /\ op = "limit" => b \in Limits

(* A section that begins, other than for Delete, begins with a prune.      *)
LEMMA SectionPrunes ==
  ASSUME CTypeOK, [Next]_vars, section = Absent, section' # Absent, section'.op # "delete"
  PROVE  \E op, x, rec, b, r : Begins(op, x, rec, b, r)
<1>1. ASSUME NEW op \in {"put", "prune", "limit", "load"}, NEW x \in Ids \cup {0}, NEW rec \in Versions \cup {Absent},
             NEW b \in Nat, NEW r \in Nat, PruneFor(op, x, rec, b, r), UNCHANGED <<status, maxBytes>>,
             status = IF op = "load" THEN "loading" ELSE "open",
             op = "put" => x \in Ids /\ rec \in Versions /\ Put(x, rec), op = "limit" => b \in Limits
      PROVE  Begins(op, x, rec, b, r)
  <2> USE <1>1
  <2>1. Prune(op, x, rec, b, r) BY DEF PruneFor
  <2>2. PICK st \in {"pruned", "pruneSync"} :
          section' = [op |-> op, id |-> x, rec |-> rec, bytes |-> b, records |-> r, stage |-> st]
    BY <2>1, PruneMeans
  <2>3. section' \in Sections BY <2>2 DEF Sections
  <2> QED BY <2>1, <2>2, <2>3 DEF Begins
<1>2. ASSUME NEW id \in Ids, NEW v \in Versions, Put(id, v)
      PROVE  \E op, x, rec, b, r : Begins(op, x, rec, b, r)
  <2> USE <1>2
  <2> DEFINE b == PutTarget(id, v)
             r == MaxClientStoreRecords - (IF id \in Held THEN 0 ELSE 1)
  <2>1. b \in Nat /\ r \in Nat /\ PruneFor("put", id, v, b, r) BY PutTargets DEF Put
  <2> HIDE DEF b, r
  <2>2. UNCHANGED <<status, maxBytes>> /\ status = "open" BY DEF Put, Ready
  <2>3. Begins("put", id, v, b, r) BY <1>1, <2>1, <2>2
  <2> QED BY <2>3
<1>3. MaxClientStoreRecords \in Nat /\ maxBytes \in Nat BY LimitsTyped DEF CTypeOK
<1>4. CASE \E b \in Targets : PruneTo(b) BY <1>1, <1>3, <1>4, LimitsTyped, SMT DEF PruneTo, Ready
<1>5. CASE \E l \in Limits : SetLimit(l) BY <1>1, <1>3, <1>5, LimitsTyped, SMT DEF SetLimit, Ready
<1>6. CASE LoadPrune
  <2>1. PruneFor("load", 0, Absent, maxBytes, MaxClientStoreRecords) /\ status = "loading" /\ UNCHANGED <<status, maxBytes>>
    BY <1>6 DEF LoadPrune, Gone, PruneFor
  <2> QED BY <1>1, <1>3, <2>1, SMT
<1>7. CASE \E id \in Ids : Delete(id) BY <1>7, SMT DEF Delete
<1> QED BY <1>2, <1>4, <1>5, <1>6, <1>7 DEF index, Next, vars, Tick, LoadFile, PutRename, PutSync, DeleteSync, PruneSync,
        PruneDone, SyncFails, Open, LoadDone, Close, ProcessCrash, PowerLoss, Gone

(* Every step leaves the index alone, deletes records from it, drops it,   *)
(* reads a file into it or puts a record into it.                          *)
LEMMA IndexStep ==
  ASSUME CTypeOK, [Next]_vars
  PROVE  \/ UNCHANGED <<entries, used>>
         \/ \E S \in SUBSET Held : DeleteMeta(S) /\ UNCHANGED <<maxBytes, status>>
         \/ entries' = Empty /\ used' = 0 /\ status' = "down"
         \/ \E id \in Ids : LoadFile(id)
         \/ PutSync
<1>1. CASE \E S : Pruning(S) BY <1>1 DEF Pruning
<1>2. CASE \E id \in Ids : Delete(id)
  <2>1. PICK id \in Ids : Delete(id) BY <1>2
  <2>2. {id} \in SUBSET Held BY <2>1 DEF Delete
  <2> QED BY <2>1, <2>2 DEF Delete
<1>3. CASE SyncFails BY <1>3 DEF SyncFails
<1> QED BY <1>1, <1>2, <1>3, OperationPrunes DEF index, Next, vars, Tick, PutRename, DeleteSync, PruneSync, PruneDone, Open,
        LoadDone, Close, ProcessCrash, PowerLoss, Gone

(* LoadFile reads the file of a record that is not in the index yet. *)
LEMMA LoadAdds ==
  ASSUME CInv, NEW id \in Ids, LoadFile(id)
  PROVE  /\ disk[id] \in Versions /\ entries' = [entries EXCEPT ![id] = disk[id]]
         /\ used' = used + disk[id].charge - OldCharge(id)
<1>1. disk[id] # Absent /\ entries[id] = Absent BY DEF LoadFile, CInv, Mirror
<1>2. disk[id] \in Versions BY <1>1 DEF CInv, CTypeOK, Files
<1>3. disk[id].charge \in Nat /\ used \in Nat BY <1>2, VersionCharge DEF CInv, CTypeOK
<1>4. OldCharge(id) = 0 BY <1>1 DEF OldCharge, Held
<1>5. used' = used + disk[id].charge /\ entries' = [entries EXCEPT ![id] = disk[id]] BY DEF LoadFile
<1> QED BY <1>2, <1>3, <1>4, <1>5, SMT

(* PutSync puts the record that the lock stands for. *)
LEMMA PutAdds ==
  ASSUME CInv, PutSync
  PROVE  /\ section \in Sections /\ section.id \in Ids /\ section.rec \in Versions /\ status = "open"
         /\ entries' = [entries EXCEPT ![section.id] = section.rec] /\ disk[section.id] = section.rec
         /\ used' = used + section.rec.charge - OldCharge(section.id)
         /\ used + section.rec.charge <= maxBytes + OldCharge(section.id)
         /\ Cardinality(Held \cup {section.id}) <= MaxClientStoreRecords
BY DEF PutSync, UsedAfterPut, OldCharge, CInv, Lock, Secured, CTypeOK

(* Every step keeps the types, if it keeps the byte count a number.        *)
LEMMA TypeStep ==
  ASSUME CInv, [Next]_vars, used' \in Nat
  PROVE  CTypeOK'
<1> USE DEF index
<1> CTypeOK BY DEF CInv
<1>1. entries' \in Files
  <2> USE DEF Files
  <2>1. CASE UNCHANGED <<entries, used>> BY <2>1 DEF CTypeOK
  <2>2. CASE \E S \in SUBSET Held : DeleteMeta(S) BY <2>2 DEF DeleteMeta, CTypeOK
  <2>3. CASE entries' = Empty /\ used' = 0 BY <2>3 DEF Empty
  <2>4. CASE \E id \in Ids : LoadFile(id) BY <2>4, LoadAdds DEF CTypeOK
  <2>5. CASE PutSync BY <2>5, PutAdds DEF CTypeOK
  <2> QED BY <2>1, <2>2, <2>3, <2>4, <2>5, IndexStep
<1>2. maxBytes' \in Nat
  <2>1. CASE PruneDone BY <2>1 DEF PruneDone, CTypeOK, Sections
  <2>2. CASE \E limit \in Limits : Open(limit) BY <2>2, LimitsTyped DEF Open
  <2>3. CASE UNCHANGED maxBytes BY <2>3 DEF CTypeOK
  <2> QED BY <2>1, <2>2, <2>3 DEF Next, vars, Tick, Put, Delete, LoadFile, PutRename, PutSync, DeleteSync, PruneSync,
          SyncFails, PruneTo, SetLimit, LoadPrune, LoadDone, Close, ProcessCrash, PowerLoss, Gone
<1>3. slips' \in {slips, slips + 1}
  <2>1. CASE ProcessCrash BY <2>1, SMT DEF ProcessCrash, CTypeOK
  <2>2. CASE SyncFails BY <2>2 DEF SyncFails
  <2> QED BY <2>1, <2>2 DEF Next, vars, Tick, Put, Delete, LoadFile, PutRename, PutSync, DeleteSync, PruneSync, PruneDone,
          PruneTo, SetLimit, Open, LoadPrune, LoadDone, Close, PowerLoss, Gone
<1>4. slips' \in Nat BY <1>3, SMT DEF CTypeOK
<1>5. now' \in Nat
  <2>1. now \in Nat BY DEF CTypeOK
  <2>2. CASE Tick BY <2>1, <2>2, SMT DEF Tick
  <2>3. CASE UNCHANGED now BY <2>1, <2>3
  <2> QED BY <2>2, <2>3 DEF Next, vars, Put, Delete, LoadFile, PutRename, PutSync, DeleteSync, PruneSync, PruneDone,
          SyncFails, PruneTo, SetLimit, Open, LoadPrune, LoadDone, Close, ProcessCrash, PowerLoss, Gone
<1>6. status' \in {"down", "loading", "open"} /\ unread' \subseteq Ids
  <2>1. status \in {"down", "loading", "open"} /\ unread \subseteq Ids BY DEF CTypeOK
  <2>2. status' = status \/ status' = "down" \/ status' = "loading" \/ status' = "open" BY DEF Next, vars, Tick, Put, Delete, LoadFile, PutRename, PutSync, DeleteSync, PruneSync, PruneDone,
          SyncFails, PruneTo, SetLimit, Open, LoadPrune, LoadDone, Close, ProcessCrash, PowerLoss, Gone
  <2>3. unread' = unread \/ unread' = {} \/ (\E id : unread' = unread \ {id}) \/ unread' = {id \in Ids : disk[id] # Absent}
    BY DEF Next, vars, Tick, Put, Delete, LoadFile, PutRename, PutSync, DeleteSync, PruneSync, PruneDone,
          SyncFails, PruneTo, SetLimit, Open, LoadPrune, LoadDone, Close, ProcessCrash, PowerLoss, Gone
  <2> QED BY <2>1, <2>2, <2>3
<1>7. section' \in Sections \cup {Absent}
  <2>1. CASE section = Absent /\ section' # Absent /\ section'.op # "delete" BY <2>1, SectionPrunes, SMT DEF Begins
  <2>2. CASE \E S : Pruning(S) BY <2>1, <2>2 DEF Pruning
  <2>3. CASE \E id \in Ids : Delete(id) BY <2>3, SMT DEF Delete, Sections
  <2>4. CASE PruneSync \/ PutRename BY <2>4, SMT DEF PruneSync, PutRename, CTypeOK, Sections
  <2>5. CASE section' \in {section, Absent} BY <2>5 DEF CTypeOK
  <2> QED BY <2>2, <2>3, <2>4, <2>5, OperationPrunes DEF Next, vars, Tick, LoadFile, PutSync, DeleteSync, PruneDone,
          SyncFails, Open, LoadDone, Close, ProcessCrash, PowerLoss, Gone
<1>8. disk' \in Files /\ maybe' \in [Ids -> SUBSET (Versions \cup {Absent})] /\ kept' \in Files
  <2> USE DEF CTypeOK, Files
  <2>1. CASE Quiet BY <2>1 DEF Quiet
  <2>2. ASSUME NEW S, RemoveFiles(S) PROVE disk' \in Files /\ maybe' \in [Ids -> SUBSET (Versions \cup {Absent})]
    BY <2>2 DEF RemoveFiles
  <2>3. ASSUME Sync, disk' = disk PROVE disk' \in Files /\ maybe' \in [Ids -> SUBSET (Versions \cup {Absent})]
    BY <2>3 DEF Sync
  <2>4. CASE \E S : Pruning(S) BY <2>2, <2>4 DEF Pruning
  <2>5. CASE \E id \in Ids : Delete(id) BY <2>2, <2>5 DEF Delete, DeleteMeta
  <2>6. CASE PutRename
    <3> USE <2>6
    <3>1. section.id \in Ids /\ section.rec \in Versions BY DEF PutRename, CInv, Lock, Secured
    <3> QED BY <3>1, SMT DEF PutRename
  <2>7. CASE PutSync
    <3> USE <2>7
    <3>1. section.id \in Ids /\ section.rec \in Versions BY PutAdds
    <3> QED BY <2>3, <3>1 DEF PutSync
  <2>8. CASE PowerLoss
    <3> USE <2>8
    <3>1. \A id \in Ids : disk'[id] \in maybe[id] BY DEF PowerLoss
    <3>2. disk' \in Files BY <3>1 DEF PowerLoss
    <3> QED BY <3>2 DEF PowerLoss, Gone
  <2>9. CASE Sync /\ UNCHANGED <<disk, kept>> BY <2>3, <2>9
  <2> QED BY <2>1, <2>4, <2>5, <2>6, <2>7, <2>8, <2>9, FilesStep
<1> QED BY <1>1, <1>2, <1>7, <1>8, <1>5, <1>6, <1>4 DEF CTypeOK

(* The store is open after a step if it was, or when open has read all. *)
LEMMA OpenStep ==
  ASSUME CInv, [Next]_vars, status' = "open"
  PROVE  \/ status = "open" /\ (maxBytes' = maxBytes \/ PruneDone)
         \/ LoadDone
<1>1. CASE PruneDone BY <1>1 DEF PruneDone
<1>2. CASE LoadDone BY <1>2
<1> QED BY <1>1, <1>2 DEF index, Next, vars, Tick, Put, Delete, LoadFile, PutRename, PutSync, DeleteSync, PruneSync,
        SyncFails, PruneTo, SetLimit, Open, LoadPrune, Close, ProcessCrash, PowerLoss, Gone

(* Every step keeps what an operation relies on under the lock, if a prune *)
(* that it starts with secures that.                                       *)
LEMMA LockStep ==
  ASSUME CInv, [Next]_vars, CTypeOK',
         section = Absent /\ section' # Absent /\ section'.op # "delete" => Secured'
  PROVE  Lock'
<1> USE DEF index
<1> CTypeOK /\ Lock /\ CTypeOK' BY DEF CInv
<1>1. ASSUME status' = "down" PROVE section' = Absent /\ entries' = Empty
  <2> USE <1>1
  <2>1. CASE status = "down" /\ section = Absent /\ entries = Empty
    BY <2>1 DEF Next, vars, Tick, Put, Delete, LoadFile, PutRename, PutSync, DeleteSync, PruneSync, PruneDone,
       SyncFails, PruneTo, SetLimit, Open, LoadPrune, LoadDone, Close, ProcessCrash, PowerLoss, Gone, Ready
  <2>2. CASE status # "down"
    <3> USE <2>2
    <3>1. CASE SyncFails BY <3>1 DEF SyncFails
    <3>2. CASE LoadPrune BY <3>2 DEF LoadPrune, Gone
    <3> QED BY <3>1, <3>2 DEF Next, vars, Tick, Put, Delete, LoadFile, PutRename, PutSync, DeleteSync,
            PruneSync, PruneDone, PruneTo, SetLimit, Open, LoadDone, Close, ProcessCrash, PowerLoss, Gone
  <2> QED BY <2>1, <2>2 DEF Lock
<1>2. ASSUME status' # "down" PROVE maxBytes' \in Limits
  <2> USE <1>2
  <2>1. CASE \E limit \in Limits : Open(limit) BY <2>1 DEF Open
  <2>2. CASE PruneDone BY <2>2 DEF PruneDone, Lock, Secured
  <2>3. CASE UNCHANGED maxBytes /\ status # "down" BY <2>3 DEF Lock
  <2>4. CASE SyncFails BY <2>4 DEF Lock, SyncFails
  <2> QED BY <2>1, <2>2, <2>3, <2>4 DEF Lock, Next, vars, Tick, Put, Delete, LoadFile, PutRename, PutSync, DeleteSync,
          PruneSync, PruneTo, SetLimit, LoadPrune, LoadDone, Close, ProcessCrash, PowerLoss, Gone, Ready
<1>3. ASSUME section' # Absent PROVE Secured'
  <2> USE <1>3
  <2> USE DEF Secured
  <2>1. CASE UNCHANGED <<entries, used, maxBytes, status, section, disk>>
    <3> USE <2>1
    <3>1. Held' = Held /\ OldCharge(section.id)' = OldCharge(section.id) BY DEF Held, OldCharge
    <3> QED BY <3>1 DEF Lock
  <2>2. CASE PruneSync
    <3> USE <2>2
    <3>1. Held' = Held /\ OldCharge(section.id)' = OldCharge(section.id)
      BY DEF Held, OldCharge, PruneSync, CTypeOK, Sections
    <3> QED BY <3>1 DEF Lock, PruneSync, CTypeOK, Sections
  <2>3. CASE PutRename
    <3> USE <2>3
    <3>1. section \in Sections /\ section' = [section EXCEPT !.stage = "putSync"]
      BY DEF PutRename, CTypeOK
    <3>2. section.id \in Ids /\ section.rec \in Versions /\ disk' = [disk EXCEPT ![section.id] = section.rec]
      BY DEF PutRename, Lock
    <3>3. Held' = Held /\ OldCharge(section.id)' = OldCharge(section.id)
      BY <3>1 DEF Held, OldCharge, PutRename, Sections
    <3>4. disk'[section'.id] = section'.rec BY <3>1, <3>2 DEF CTypeOK, Files, Sections
    <3> QED BY <3>1, <3>2, <3>3, <3>4 DEF Lock, PutRename, Sections
  <2>4. CASE \E S : Pruning(S) BY <2>4 DEF Pruning
  <2>9. CASE \E id \in Ids : Delete(id) BY <2>9, SMT DEF Delete, Ready
  <2>10. CASE Tick \/ UNCHANGED vars BY <2>1, <2>10 DEF Tick, vars
  <2>11. CASE (\E limit \in Limits : Open(limit)) \/ LoadDone \/ \E id \in Ids : LoadFile(id)
    BY <2>11 DEF Open, LoadDone, LoadFile, Lock
  <2>12. CASE PutSync \/ DeleteSync \/ PruneDone \/ SyncFails \/ Close \/ ProcessCrash \/ PowerLoss
    BY <2>12 DEF PutSync, DeleteSync, PruneDone, SyncFails, Close, ProcessCrash, PowerLoss, Gone
  <2> QED BY <2>2, <2>3, <2>4, <2>9, <2>10, <2>11, <2>12, OperationPrunes DEF Next
<1> QED BY <1>1, <1>2, <1>3 DEF Lock

(* A lost fsync stays counted. *)
LEMMA SlipsStep ==
  ASSUME CTypeOK, [Next]_vars, slips' = 0
  PROVE  slips = 0 /\ ~SyncFails
<1>1. slips \in Nat BY DEF CTypeOK
<1>2. CASE SyncFails BY <1>1, <1>2, SMT DEF SyncFails
<1>3. CASE ProcessCrash
  <2>1. slips' = slips \/ slips' = slips + 1 BY <1>1, <1>3, SMT DEF ProcessCrash
  <2>2. ~SyncFails BY <1>1, SMT DEF SyncFails
  <2> QED BY <1>1, <2>1, <2>2, SMT
<1>4. CASE UNCHANGED slips /\ ~SyncFails BY <1>4
<1> QED BY <1>2, <1>3, <1>4 DEF index, Next, vars, Tick, Put, Delete, LoadFile, PutRename, PutSync, DeleteSync, PruneSync, PruneDone,
        PruneTo, SetLimit, Open, LoadPrune, LoadDone, Close, PowerLoss, Gone

(* Every step keeps index and directory together. *)
LEMMA MirrorStep ==
  ASSUME CInv, [Next]_vars
  PROVE  Mirror'
<1> USE DEF index
<1> CTypeOK /\ Lock /\ Mirror BY DEF CInv
<1>1. ASSUME NEW S, S \subseteq Held, DeleteMeta(S), UNCHANGED <<status, unread, slips>>, section = Absent,
             section' = Absent \/ section'.stage # "putSync"
      PROVE  Mirror'
  <2> USE <1>1
  <2>1. \A id \in Ids : /\ entries'[id] = IF id \in S THEN Absent ELSE entries[id]
                        /\ disk'[id] = IF id \in S THEN Absent ELSE disk[id]
    BY DEF DeleteMeta, RemoveFiles
  <2>2. \A id \in S : entries[id] # Absent BY DEF Held
  <2>3. \A id \in Ids : ~Touching("putSync", id) BY DEF Touching
  <2> QED BY <2>1, <2>2, <2>3 DEF Mirror
<1>2. CASE \E S : Pruning(S)
  <2>1. CASE status' = "down" BY <2>1 DEF Mirror
  <2> QED BY <1>1, <1>2, <2>1 DEF Pruning
<1>3. CASE \E id \in Ids : Delete(id)
  <2>1. PICK id \in Ids : Delete(id) BY <1>3
  <2>2. {id} \subseteq Held /\ DeleteMeta({id}) /\ section = Absent /\ section'.stage = "deleteSync"
    BY <2>1 DEF Delete, Ready
  <2> QED BY <1>1, <2>1, <2>2 DEF Delete
<1>4. CASE UNCHANGED <<entries, disk, status, unread, section, slips>> BY <1>4 DEF Mirror, Touching
<1>5. CASE \E limit \in Limits : Open(limit)
  <2> USE <1>5
  <2>1. entries = Empty BY DEF Open, Lock
  <2> QED BY <2>1 DEF Open, Mirror, Empty
<1>6. CASE \E id \in Ids : LoadFile(id)
  <2>1. PICK id \in Ids : LoadFile(id) BY <1>6
  <2>2. entries' = [entries EXCEPT ![id] = disk[id]] /\ disk' = disk /\ unread' = unread \ {id}
        /\ status = "loading" /\ status' = "loading"
    BY <2>1 DEF LoadFile
  <2> QED BY <2>2 DEF Mirror, CTypeOK, Files
<1>7. CASE LoadDone BY <1>7 DEF LoadDone, Mirror
<1>8. CASE PutRename
  <2> USE <1>8
  <2>1. section \in Sections /\ section.id \in Ids /\ status = "open" BY DEF PutRename, Lock, Secured, CTypeOK
  <2>2. \A id \in Ids : ~Touching("putSync", id) BY DEF PutRename, Touching
  <2>3. CASE disk' = [disk EXCEPT ![section.id] = section.rec] /\ section' = [section EXCEPT !.stage = "putSync"]
    <3> USE <2>3
    <3>1. section' # Absent /\ section'.stage = "putSync" /\ section'.id = section.id
      BY <2>1, AbsentApart DEF Sections
    <3>2. Touching("putSync", section.id)' BY <3>1 DEF Touching
    <3>3. \A id \in Ids : id = section.id \/ disk'[id] = disk[id] BY DEF CTypeOK, Files
    <3> QED BY <2>1, <2>2, <3>1, <3>3, SMT DEF Mirror, PutRename, Touching
  <2>4. CASE disk' = disk BY <2>1, <2>2, <2>4 DEF Mirror, PutRename
  <2> QED BY <2>3, <2>4 DEF PutRename
<1>9. CASE PutSync
  <2> USE <1>9
  <2>1. /\ section.id \in Ids /\ status = "open" /\ disk[section.id] = section.rec
        /\ entries' = [entries EXCEPT ![section.id] = section.rec]
    BY PutAdds
  <2>2. \A id \in Ids : id # section.id => entries'[id] = entries[id] /\ ~Touching("putSync", id)
    BY <2>1 DEF CTypeOK, Files, Touching
  <2>3. entries'[section.id] = disk[section.id] BY <2>1 DEF CTypeOK, Files
  <2> QED BY <2>1, <2>2, <2>3 DEF Mirror, PutSync
<1>10. CASE DeleteSync \/ PruneSync \/ PruneDone
  <2> USE <1>10
  <2>1. \A id \in Ids : ~Touching("putSync", id) BY DEF DeleteSync, PruneSync, PruneDone, Touching
  <2> QED BY <2>1 DEF Mirror, DeleteSync, PruneSync, PruneDone
<1>11. CASE SyncFails
  <2> USE <1>11
  <2>1. slips' # 0 BY SMT DEF SyncFails, CTypeOK
  <2>2. status' = "loading" => UNCHANGED <<entries, disk, unread, status>> BY DEF SyncFails
  <2> QED BY <2>1, <2>2 DEF Mirror
<1>12. CASE Close \/ ProcessCrash \/ PowerLoss BY <1>12 DEF Close, ProcessCrash, PowerLoss, Gone, Mirror
<1>13. CASE Tick \/ UNCHANGED vars BY <1>4, <1>13 DEF Tick, vars
<1> QED BY <1>2, <1>3, <1>5, <1>6, <1>7, <1>8, <1>9, <1>10, <1>11, <1>12, <1>13, OperationPrunes DEF Next
-----------------------------------------------------------------------------
(* Protected records, and what a power loss may leave *)

(* No step touches a record that is kept, but Put and Delete of it. *)
LEMMA KeptStep ==
  ASSUME CInv, KeptSafe, [Next]_vars, CTypeOK'
  PROVE  KeptSafe'
<1> USE DEF index
<1> SUFFICES ASSUME NEW id \in Ids, Protected(kept[id])'
             PROVE  /\ maybe'[id] = {kept'[id]} /\ disk'[id] = kept'[id]
                    /\ status' = "open" => entries'[id] = kept'[id]
  BY DEF KeptSafe
<1> DEFINE Goal == /\ maybe'[id] = {kept'[id]} /\ disk'[id] = kept'[id]
                   /\ status' = "open" => entries'[id] = kept'[id]
<1> CTypeOK /\ Lock /\ Mirror /\ CTypeOK' BY DEF CInv
<1>1. kept'[id] \in Versions /\ ~Prunable(kept'[id]) /\ Protected(kept'[id])
  <2>1. PICK v : v = kept'[id] OBVIOUS
  <2>2. v \in Versions \cup {Absent} BY <2>1 DEF CTypeOK, Files
  <2>3. Protected(v)' BY <2>1 DEF Protected, Expired
  <2>4. Protected(v) /\ v \in Versions /\ ~Prunable(v) BY <2>2, <2>3, ProtectedBefore
  <2> QED BY <2>1, <2>4 DEF Protected, Prunable, Expired
<1>2. ASSUME kept'[id] = kept[id]
      PROVE  maybe[id] = {kept[id]} /\ disk[id] = kept[id] /\ (status = "open" => entries[id] = kept[id])
  BY <1>1, <1>2 DEF KeptSafe
<1>3. ASSUME NEW S, id \notin S, RemoveFiles(S), kept'[id] = kept[id],
             (UNCHANGED status /\ DeleteMeta(S)) \/ status' = "down"
      PROVE  Goal
  <2> USE <1>3
  <2>1. maybe'[id] = maybe[id] /\ disk'[id] = disk[id] BY DEF RemoveFiles
  <2>2. DeleteMeta(S) => entries'[id] = entries[id] BY DEF DeleteMeta
  <2> QED BY <1>2, <2>1, <2>2
<1>4. CASE \E S : Pruning(S)
  <2>1. PICK S : Pruning(S) BY <1>4
  <2>2. S \subseteq Held /\ (\A o \in S : Prunable(entries[o])) /\ section = Absent /\ kept' = kept /\ RemoveFiles(S)
        /\ ((UNCHANGED status /\ DeleteMeta(S)) \/ status' = "down")
    BY <2>1 DEF Pruning
  <2>3. id \notin S
    <3>1. SUFFICES ASSUME id \in Held PROVE entries[id] = kept[id] BY <1>1, <2>2
    <3>2. disk[id] = kept[id] /\ (status = "open" => entries[id] = kept[id]) BY <1>2, <2>2
    <3>3. CASE status = "loading" BY <3>1, <3>2, <3>3 DEF Mirror, Held
    <3>4. CASE status = "down" BY <3>1, <3>4 DEF Lock, Held, Empty
    <3> QED BY <3>2, <3>3, <3>4 DEF CTypeOK
  <2> QED BY <1>3, <2>2, <2>3
<1>5. CASE \E o \in Ids : Delete(o)
  <2>1. PICK o \in Ids : Delete(o) BY <1>5
  <2>2. DeleteMeta({o}) /\ RemoveFiles({o}) /\ UNCHANGED status /\ kept' = [kept EXCEPT ![o] = Absent]
    BY <2>1 DEF Delete, DeleteMeta
  <2>3. id # o BY <1>1, <2>2, VersionCharge DEF CTypeOK, Files
  <2>4. kept'[id] = kept[id] /\ id \notin {o} BY <2>2, <2>3 DEF CTypeOK, Files
  <2> QED BY <1>3, <2>2, <2>4
<1>6. CASE Quiet
  <2> USE <1>6
  <2>1. CASE LoadDone
    <3> USE <2>1
    <3>1. entries[id] = disk[id] BY DEF LoadDone, Mirror
    <3> QED BY <1>2, <3>1 DEF Quiet, LoadDone, index
  <2>2. CASE ~LoadDone BY <1>2, <2>2 DEF Quiet
  <2> QED BY <2>1, <2>2
<1>7. CASE UNCHANGED <<disk, kept, entries, status>> /\ Sync BY <1>2, <1>7 DEF Sync
<1>8. CASE PutRename
  <2> USE <1>8
  <2>1. CASE UNCHANGED <<disk, maybe, kept>> BY <1>2, <2>1 DEF PutRename
  <2>2. CASE /\ disk' = [disk EXCEPT ![section.id] = section.rec]
             /\ maybe' = [maybe EXCEPT ![section.id] = @ \cup {section.rec}]
             /\ kept' = [kept EXCEPT ![section.id] = Absent]
    <3> USE <2>2
    <3>1. id # section.id BY <1>1, VersionCharge, SMT DEF CTypeOK, Files
    <3>2. disk'[id] = disk[id] /\ maybe'[id] = maybe[id] /\ kept'[id] = kept[id]
      BY <3>1 DEF CTypeOK, Files
    <3> QED BY <1>2, <3>2 DEF PutRename
  <2> QED BY <2>1, <2>2 DEF PutRename
<1>9. CASE PutSync
  <2> USE <1>9
  <2>1. /\ section.id \in Ids /\ disk[section.id] = section.rec
        /\ entries' = [entries EXCEPT ![section.id] = section.rec] /\ status = "open"
    BY PutAdds
  <2>2. /\ kept' = [kept EXCEPT ![section.id] = IF section.rec.policy = "oldest" THEN Absent ELSE section.rec]
        /\ maybe'[id] = {disk[id]} /\ disk' = disk
    BY DEF PutSync, Sync
  <2>3. CASE id = section.id
    <3> USE <2>3
    <3>1. kept'[id] = section.rec BY <1>1, <2>2, VersionCharge DEF CTypeOK, Files
    <3>2. entries'[id] = section.rec BY <2>1, SMT DEF CTypeOK, Files
    <3> QED BY <2>1, <2>2, <3>1, <3>2
  <2>4. CASE id # section.id
    <3>1. kept'[id] = kept[id] /\ entries'[id] = entries[id] BY <2>1, <2>2, <2>4 DEF CTypeOK, Files
    <3> QED BY <1>2, <2>1, <2>2, <3>1
  <2> QED BY <2>3, <2>4
<1>10. CASE PowerLoss
  <2>1. kept'[id] = kept[id] /\ disk'[id] \in maybe[id] /\ maybe'[id] = {disk'[id]} /\ status' = "down"
    BY <1>10 DEF PowerLoss, Gone
  <2> QED BY <1>2, <2>1
<1> QED BY <1>4, <1>5, <1>6, <1>7, <1>8, <1>9, <1>10, FilesStep

(* What a power loss may bring back stays unprotected. *)
LEMMA SettledStep ==
  ASSUME CInv, Settled, [Next]_vars, CTypeOK'
  PROVE  Settled'
<1> USE DEF index
<1> SUFFICES ASSUME slips' = 0, NEW id \in Ids, NEW v \in maybe'[id], v # disk'[id], Protected(v)'
             PROVE  Touching("putSync", id)' \/ Touching("deleteSync", id)'
  BY DEF Settled
<1> CTypeOK /\ Lock /\ Mirror /\ CTypeOK' /\ slips = 0 /\ ~SyncFails BY SlipsStep DEF CInv
<1>1. v \in Versions /\ Protected(v) /\ ~Prunable(v)
  <2>1. v \in Versions \cup {Absent} BY DEF CTypeOK
  <2> QED BY <2>1, ProtectedBefore
<1>2. v # Absent BY <1>1, VersionCharge
<1>3. ASSUME v \in maybe[id] PROVE v = disk[id] \/ Touching("putSync", id) \/ Touching("deleteSync", id)
  BY <1>1, <1>3 DEF Settled
<1>4. CASE \E S : Pruning(S)
  <2>1. PICK S : Pruning(S) BY <1>4
  <2>2. S \subseteq Held /\ (\A o \in S : Prunable(entries[o])) /\ section = Absent /\ RemoveFiles(S) BY <2>1 DEF Pruning
  <2>3. v \in maybe[id] BY <1>2, <2>2 DEF RemoveFiles
  <2>4. v = disk[id] BY <1>3, <2>2, <2>3 DEF Touching
  <2>5. id \in S BY <2>2, <2>4 DEF RemoveFiles
  <2>6. status # "down" BY <2>2, <2>5 DEF Lock, Held, Empty
  <2>7. entries[id] = disk[id] BY <2>2, <2>5, <2>6 DEF Mirror, Held, Touching, CTypeOK
  <2> QED BY <1>1, <2>2, <2>4, <2>5, <2>7
<1>5. CASE \E o \in Ids : Delete(o)
  <2>1. PICK o \in Ids : Delete(o) BY <1>5
  <2>2. RemoveFiles({o}) /\ section = Absent BY <2>1 DEF Delete, DeleteMeta, Ready
  <2>3. v \in maybe[id] BY <1>2, <2>2 DEF RemoveFiles
  <2>4. v = disk[id] BY <1>3, <2>2, <2>3 DEF Touching
  <2>5. id = o BY <2>2, <2>4 DEF RemoveFiles
  <2>6. section' = [op |-> "delete", id |-> o, rec |-> Absent, bytes |-> 0, records |-> 0, stage |-> "deleteSync"]
    BY <2>1 DEF Delete
  <2>7. section' \in Sections BY <2>6 DEF Sections
  <2> QED BY <2>5, <2>6, <2>7, AbsentApart DEF Touching
<1>6. CASE Sync /\ disk' = disk BY <1>6 DEF Sync
<1>7. CASE PowerLoss BY <1>7 DEF PowerLoss
<1>8. CASE PutRename
  <2> USE <1>8
  <2>1. \A o : ~Touching("putSync", o) /\ ~Touching("deleteSync", o) BY DEF PutRename, Touching
  <2>2. CASE disk' = disk /\ maybe' = maybe BY <1>3, <2>1, <2>2
  <2>3. CASE /\ disk' = [disk EXCEPT ![section.id] = section.rec]
             /\ maybe' = [maybe EXCEPT ![section.id] = @ \cup {section.rec}]
             /\ section' = [section EXCEPT !.stage = "putSync"]
    <3> USE <2>3
    <3>1. id = section.id
      <4>1. SUFFICES ASSUME id # section.id PROVE FALSE OBVIOUS
      <4>2. disk'[id] = disk[id] /\ maybe'[id] = maybe[id] BY <4>1 DEF CTypeOK, Files
      <4> QED BY <1>3, <2>1, <4>2
    <3>2. section \in Sections BY DEF PutRename, CTypeOK
    <3>3. section' \in Sections /\ section'.id = id /\ section'.stage = "putSync" BY <3>1, <3>2 DEF Sections
    <3> QED BY <3>3, AbsentApart DEF Touching
  <2> QED BY <2>2, <2>3 DEF PutRename
<1>9. CASE Quiet BY <1>3, <1>9 DEF Quiet, Pending, Touching
<1>10. CASE PutSync BY <1>6, <1>10 DEF PutSync
<1> QED BY <1>4, <1>5, <1>6, <1>7, <1>8, <1>9, <1>10, FilesStep

(* The directory is one of those that a power loss may leave. *)
LEMMA DiskPossible ==
  ASSUME CInv, disk \in Directories, [Next]_vars
  PROVE  \A id \in Ids : disk'[id] \in maybe'[id]
<1> CTypeOK /\ \A id \in Ids : disk[id] \in maybe[id] BY DEF CInv, Directories
<1>1. ASSUME NEW S, RemoveFiles(S) PROVE \A id \in Ids : disk'[id] \in maybe'[id] BY <1>1 DEF RemoveFiles
<1>2. CASE Sync /\ disk' = disk BY <1>2 DEF Sync
<1>3. CASE PowerLoss BY <1>3 DEF PowerLoss
<1>4. CASE UNCHANGED <<disk, maybe>> BY <1>4
<1>5. CASE PutRename BY <1>4, <1>5, SMT DEF PutRename, CTypeOK, Files
<1>6. CASE (\E S : Pruning(S)) \/ \E id \in Ids : Delete(id) BY <1>1, <1>6 DEF Pruning, Delete, DeleteMeta
<1> QED BY <1>2, <1>3, <1>4, <1>5, <1>6, FilesStep DEF Quiet, PutSync

(* The protected records of a directory that a power loss may leave after  *)
(* a step are those of one that it might have left before, but for the     *)
(* record that Put renames.                                                *)
LEMMA DirectoryBefore ==
  ASSUME CInv, disk \in Directories, [Next]_vars, NEW d \in Files, \A id \in Ids : d[id] \in maybe'[id]
  PROVE  \E e \in Files :
           /\ \A id \in Ids : Protected(d[id])' => e[id] = d[id]
           /\ \/ \A id \in Ids : e[id] \in maybe[id]
              \/ /\ PutRename /\ e[section.id] = section.rec
                 /\ \A id \in Ids : id # section.id => e[id] \in maybe[id]
<1> DEFINE Goal == \E e \in Files :
             /\ \A id \in Ids : Protected(d[id])' => e[id] = d[id]
             /\ \/ \A id \in Ids : e[id] \in maybe[id]
                \/ /\ PutRename /\ e[section.id] = section.rec
                   /\ \A id \in Ids : id # section.id => e[id] \in maybe[id]
<1> SUFFICES Goal OBVIOUS
<1> CTypeOK /\ Lock /\ disk \in Files /\ \A id \in Ids : disk[id] \in maybe[id]
  BY DEF CInv, CTypeOK, Directories
<1>1. CASE \A id \in Ids : d[id] \in maybe[id] BY <1>1
<1>2. CASE \E S : RemoveFiles(S)
  <2>1. PICK e : e = [id \in Ids |-> IF d[id] \in maybe[id] THEN d[id] ELSE disk[id]] OBVIOUS
  <2>2. e \in Files /\ \A id \in Ids : e[id] \in maybe[id] BY <2>1 DEF Files
  <2>3. \A id \in Ids : d[id] \in maybe[id] \/ d[id] = Absent
    <3>1. \A id \in Ids : maybe'[id] = maybe[id] \/ maybe'[id] = maybe[id] \cup {Absent} BY <1>2 DEF RemoveFiles
    <3> QED BY <3>1
  <2>4. \A id \in Ids : Protected(d[id])' => e[id] = d[id] BY <2>1, <2>3 DEF Protected
  <2> QED BY <2>2, <2>4
<1> HIDE DEF Goal
<1>3. CASE Sync BY <1>1, <1>3 DEF Sync
<1>4. CASE PowerLoss BY <1>1, <1>4 DEF PowerLoss
<1>5. CASE UNCHANGED maybe BY <1>1, <1>5
<1>6. CASE PutRename
  <2> USE <1>6
  <2>1. CASE d[section.id] = section.rec /\ \A id \in Ids : id # section.id => d[id] \in maybe[id]
    BY <2>1 DEF Goal
  <2>2. CASE maybe' = [maybe EXCEPT ![section.id] = @ \cup {section.rec}]
    <3> USE <2>2
    <3>1. section.id \in Ids BY DEF PutRename, Lock, Secured
    <3>2. \A id \in Ids : id # section.id => d[id] \in maybe[id] BY DEF CTypeOK
    <3>3. d[section.id] \in maybe[section.id] \/ d[section.id] = section.rec BY <3>1 DEF CTypeOK
    <3> QED BY <1>1, <2>1, <3>2, <3>3
  <2> QED BY <1>5, <2>2 DEF PutRename
<1>7. CASE (\E S : Pruning(S)) \/ \E id \in Ids : Delete(id) BY <1>2, <1>7 DEF Pruning, Delete, DeleteMeta
<1> QED BY <1>3, <1>4, <1>5, <1>6, <1>7, FilesStep DEF Quiet, PutSync
-----------------------------------------------------------------------------
(* The byte count *)

(* A prune that is not refused removes candidates, enough of them. *)
LEMMA PruneEnough ==
  ASSUME Counting, CTypeOK, NEW op, NEW exclude, NEW rec, NEW bytes, NEW records, Prune(op, exclude, rec, bytes, records)
  PROVE  \E S \in SUBSET Candidates(exclude), st \in {"pruned", "pruneSync"} :
           /\ Suffices(S, bytes, records) /\ DeleteMeta(S)
           /\ section' = [op |-> op, id |-> exclude, rec |-> rec, bytes |-> bytes, records |-> records, stage |-> st]
<1> DEFINE C == Candidates(exclude)
<1>1. C \in SUBSET Held BY DEF Candidates
<1>2. PICK n \in 0..Cardinality(C) :
        /\ Suffices(First(C, n), bytes, records) \/ n = Cardinality(C)
        /\ DeleteMeta(First(C, n))
        /\ section' = [op |-> op, id |-> exclude, rec |-> rec, bytes |-> bytes, records |-> records,
                       stage |-> IF n = 0 THEN "pruned" ELSE "pruneSync"]
  BY DEF Prune, PruneStops
<1>3. Suffices(C, bytes, records) BY DEF Prune, PruneFull
<1>4. First(C, Cardinality(C)) = C BY <1>1, Firsts
<1>5. First(C, n) \in SUBSET C BY DEF First
<1>6. Suffices(First(C, n), bytes, records) BY <1>2, <1>3, <1>4
<1>7. (IF n = 0 THEN "pruned" ELSE "pruneSync") \in {"pruned", "pruneSync"} OBVIOUS
<1> QED BY <1>2, <1>5, <1>6, <1>7

(* deleteMetaLocked keeps the byte count right. *)
LEMMA DeleteBooks ==
  ASSUME Counting, CTypeOK, used = Charge(entries, Held), NEW S \in SUBSET Held, DeleteMeta(S)
  PROVE  /\ entries' \in Files /\ disk' \in Files /\ maybe' \in [Ids -> SUBSET (Versions \cup {Absent})]
         /\ Held' = Held \ S /\ used' = Charge(entries, Held)' /\ used' \in Nat /\ used' <= used
         /\ Cardinality(Held)' <= Cardinality(Held) /\ Cardinality(Held) \in Nat /\ Cardinality(Held)' \in Nat
         /\ \A bytes, records \in Nat :
              Suffices(S, bytes, records) => used' <= bytes /\ Cardinality(Held)' <= records
<1>1. entries' = [id \in Ids |-> IF id \in S THEN Absent ELSE entries[id]] /\ used' = used - Charge(entries, S)
  BY DEF DeleteMeta, UsedWithout
<1>2. entries' \in Files /\ disk' \in Files /\ maybe' \in [Ids -> SUBSET (Versions \cup {Absent})]
  BY <1>1 DEF CTypeOK, Files, DeleteMeta, RemoveFiles
<1>3. Held' = Held \ S BY <1>1 DEF Held
<1>4. Records(entries, Held) BY HeldRecords
<1>5. /\ Charge(entries, Held \ S) = Charge(entries, Held) - Charge(entries, S)
      /\ Cardinality(Held \ S) = Cardinality(Held) - Cardinality(S)
  BY <1>4, ChargeWithout, SMT
<1>6. \A id \in Held \ S : entries'[id] = entries[id] BY <1>1 DEF Held
<1>7. Charge(entries', Held \ S) = Charge(entries, Held \ S) BY <1>6, ChargeSame, SMT
<1>8. Charge(entries, Held)' = Charge(entries', Held \ S)
  BY <1>3 DEF Charge, Units
<1>9. used' = Charge(entries, Held)' BY <1>1, <1>5, <1>7, <1>8
<1>10. /\ Charge(entries, S) <= Charge(entries, Held) /\ Charge(entries, S) \in Nat /\ Charge(entries, Held) \in Nat
       /\ Cardinality(S) <= Cardinality(Held) /\ Cardinality(S) \in Nat /\ Cardinality(Held) \in Nat
  BY <1>4, ChargeMonotone
<1>11. used' \in Nat /\ used' <= used BY <1>1, <1>10, SMT
<1>12. /\ Cardinality(Held') = Cardinality(Held) - Cardinality(S) /\ Cardinality(Held') \in Nat
       /\ Cardinality(Held') <= Cardinality(Held)
  <2>1. Cardinality(Held') = Cardinality(Held) - Cardinality(S) BY <1>3, <1>5
  <2> QED BY <2>1, <1>10, SMT
<1>13. ASSUME NEW bytes \in Nat, NEW records \in Nat, Suffices(S, bytes, records)
       PROVE  used' <= bytes /\ Cardinality(Held') <= records
  <2>1. used <= bytes + Charge(entries, S) /\ Cardinality(Held) <= records + Cardinality(S)
    BY <1>13 DEF Suffices
  <2> QED BY <1>1, <1>10, <1>12, <2>1, SMT
<1> QED BY <1>2, <1>3, <1>9, <1>10, <1>11, <1>12, <1>13

(* An empty index holds and charges nothing. *)
LEMMA EmptyBooks ==
  ASSUME Counting
  PROVE  /\ Empty \in Files /\ {id \in Ids : Empty[id] # Absent} = {}
         /\ \A f : Charge(f, {}) = 0
<1>1. Empty \in Files /\ {id \in Ids : Empty[id] # Absent} = {} BY DEF Empty, Files
<1>2. \A f : Units(f, {}) = {} BY DEF Units
<1> QED BY <1>1, <1>2 DEF Charge, Counting

(* Reading a file and putting a record count its bytes. *)
LEMMA AddBooks ==
  ASSUME Counting, CInv, NEW id \in Ids, NEW v \in Versions, entries' = [entries EXCEPT ![id] = v],
         used' = used + v.charge - OldCharge(id)
  PROVE  /\ entries' \in Files /\ Held' = Held \cup {id} /\ used' = Charge(entries, Held)' /\ used' \in Nat
         /\ OldCharge(id) \in Nat /\ v.charge \in Nat
<1> DEFINE R == Held \ {id}
<1> entries \in Files /\ used = Charge(entries, Held) /\ used \in Nat BY DEF CInv, CTypeOK, WithinLimit
<1>2. entries' \in Files /\ entries'[id] = v /\ \A o \in R : entries'[o] = entries[o] BY DEF Files, Held
<1>3. v # Absent BY VersionCharge
<1>4. Held' = Held \cup {id} BY <1>2, <1>3 DEF Held, Files
<1>5. Records(entries, Held) /\ Records(entries, R) /\ Records(entries', R)
  <2>1. Records(entries, Held) BY HeldRecords DEF CInv
  <2>2. Records(entries, R) BY <2>1 DEF Records
  <2>3. Records(entries', R) BY <2>2, <1>2 DEF Records
  <2> QED BY <2>1, <2>2, <2>3
<1>6. Charge(entries', R) = Charge(entries, R)
  <2> HIDE DEF R
  <2> DEFINE g == entries'
  <2>1. \A o \in R : g[o] = entries[o] BY <1>2
  <2> HIDE DEF g
  <2>2. Charge(g, R) = Charge(entries, R) BY <2>1, ChargeSame, SMT
  <2> QED BY <2>2 DEF g
<1>7. Charge(entries', R \cup {id}) = Charge(entries', R) + v.charge
  <2>1. id \in Ids \ R OBVIOUS
  <2> HIDE DEF R
  <2> DEFINE g == entries'
  <2>2. Records(g, R) /\ g[id] = v /\ g[id] \in Versions BY <1>2, <1>5
  <2> HIDE DEF g
  <2>3. Charge(g, R \cup {id}) = Charge(g, R) + g[id].charge BY <2>1, <2>2, ChargeWith
  <2>4. Charge(g, R \cup {id}) = Charge(g, R) + v.charge BY <2>2, <2>3
  <2> QED BY <2>4 DEF g
<1>8. R \cup {id} = Held \cup {id} OBVIOUS
<1>9. Charge(entries, R) + OldCharge(id) = used /\ OldCharge(id) \in Nat /\ Charge(entries, R) \in Nat
  BY ChargeRest DEF CInv
<1>10. v.charge \in Nat BY VersionCharge
<1>11. Charge(entries, Held)' = Charge(entries', R \cup {id})
  BY <1>4, <1>8 DEF Charge, Units
<1> HIDE DEF R
<1>12. used' = Charge(entries, R) + v.charge /\ used' \in Nat BY <1>9, <1>10, SMT
<1> QED BY <1>2, <1>4, <1>6, <1>7, <1>9, <1>10, <1>11, <1>12
-----------------------------------------------------------------------------
(* The byte count, the limits and what an operation secures *)

(* Every step keeps the byte count and the limits. *)
LEMMA LimitStep ==
  ASSUME Counting, CInv, [Next]_vars
  PROVE  WithinLimit' /\ used' \in Nat
<1> CTypeOK /\ used = Charge(entries, Held) /\ used \in Nat /\ maxBytes \in Nat BY DEF CInv, WithinLimit, CTypeOK
<1>1. ASSUME status = "open" PROVE used <= maxBytes /\ Cardinality(Held) <= MaxClientStoreRecords
  BY <1>1 DEF CInv, WithinLimit
<1>2. CASE UNCHANGED <<entries, used>>
  <2> USE <1>2
  <2>1. Held' = Held BY DEF Held
  <2>2. used' = Charge(entries, Held)' BY <2>1 DEF Charge, Units
  <2>3. ASSUME status' = "open" PROVE used <= maxBytes' /\ Cardinality(Held) <= MaxClientStoreRecords
    <3>1. CASE LoadDone BY <3>1 DEF LoadDone, index
    <3>2. CASE status = "open" /\ maxBytes' = maxBytes BY <1>1, <3>2
    <3>3. CASE status = "open" /\ PruneDone
      <4> USE <3>3
      <4>1. section.op = "limit" => used <= section.bytes BY DEF PruneDone, CInv, Lock, Secured
      <4> QED BY <1>1, <4>1 DEF PruneDone
    <3> QED BY <2>3, <3>1, <3>2, <3>3, OpenStep
  <2> QED BY <2>1, <2>2, <2>3 DEF WithinLimit
<1>3. CASE \E S \in SUBSET Held : DeleteMeta(S) /\ UNCHANGED <<maxBytes, status>>
  <2>1. PICK S \in SUBSET Held : DeleteMeta(S) /\ UNCHANGED <<maxBytes, status>> BY <1>3
  <2>2. /\ used' = Charge(entries, Held)' /\ used' \in Nat /\ used' <= used
        /\ Cardinality(Held)' <= Cardinality(Held) /\ Cardinality(Held) \in Nat /\ Cardinality(Held)' \in Nat
    BY <2>1, DeleteBooks
  <2>3. MaxClientStoreRecords \in Nat BY LimitsTyped
  <2>4. ASSUME status' = "open" PROVE used' <= maxBytes' /\ Cardinality(Held)' <= MaxClientStoreRecords
    BY <1>1, <2>1, <2>2, <2>3, <2>4, SMT
  <2> QED BY <2>2, <2>4 DEF WithinLimit
<1>4. CASE entries' = Empty /\ used' = 0 /\ status' = "down"
  <2> USE <1>4
  <2>1. Held' = {} BY EmptyBooks DEF Held
  <2>2. Charge(entries, Held)' = Charge(Empty, {}) BY <2>1 DEF Charge, Units
  <2> QED BY <2>2, EmptyBooks DEF WithinLimit
<1>5. CASE \E id \in Ids : LoadFile(id)
  <2>1. PICK id \in Ids : LoadFile(id) BY <1>5
  <2>2. used' = Charge(entries, Held)' /\ used' \in Nat BY <2>1, LoadAdds, AddBooks
  <2>3. status' = "loading" BY <2>1 DEF LoadFile
  <2> QED BY <2>2, <2>3 DEF WithinLimit
<1>6. CASE PutSync
  <2> USE <1>6
  <2> DEFINE id == section.id
             v == section.rec
  <2>1. /\ id \in Ids /\ v \in Versions /\ entries' = [entries EXCEPT ![id] = v]
        /\ used' = used + v.charge - OldCharge(id) /\ used + v.charge <= maxBytes + OldCharge(id)
        /\ Cardinality(Held \cup {id}) <= MaxClientStoreRecords
    BY PutAdds
  <2>2. maxBytes' = maxBytes BY DEF PutSync
  <2> HIDE DEF id, v
  <2>3. /\ Held' = Held \cup {id} /\ used' = Charge(entries, Held)' /\ used' \in Nat
        /\ OldCharge(id) \in Nat /\ v.charge \in Nat
    BY <2>1, AddBooks
  <2>4. used' <= maxBytes' BY <2>1, <2>2, <2>3, SMT
  <2>5. Cardinality(Held)' <= MaxClientStoreRecords BY <2>1, <2>3
  <2> QED BY <2>3, <2>4, <2>5 DEF WithinLimit
<1> QED BY <1>2, <1>3, <1>4, <1>5, <1>6, IndexStep

(* A prune gets what it is asked for. *)
LEMMA PruneLocks ==
  ASSUME Counting, CInv, NEW op, NEW x, NEW v, NEW b \in Nat, NEW r \in Nat, Prune(op, x, v, b, r)
  PROVE  /\ used' <= b /\ used' \in Nat /\ Cardinality(Held') <= r
         /\ \E S \in SUBSET Candidates(x) : DeleteMeta(S)
<1>1. CTypeOK /\ used = Charge(entries, Held) BY DEF CInv, WithinLimit
<1>2. PICK S \in SUBSET Candidates(x) : DeleteMeta(S) /\ Suffices(S, b, r) BY <1>1, PruneEnough
<1>3. S \in SUBSET Held BY DEF Candidates
<1>4. used' <= b /\ used' \in Nat /\ Cardinality(Held)' <= r BY <1>1, <1>2, <1>3, DeleteBooks
<1> QED BY <1>2, <1>4

(* When Put has the lock, the new record has room. *)
LEMMA PutLocks ==
  ASSUME Counting, CInv, NEW id \in Ids, NEW v \in Versions, Put(id, v), section' # Absent
  PROVE  /\ used' + v.charge <= maxBytes + OldCharge(id)' /\ Cardinality(Held' \cup {id}) <= MaxClientStoreRecords
<1> DEFINE b == PutTarget(id, v)
           r == MaxClientStoreRecords - (IF id \in Held THEN 0 ELSE 1)
<1>0. Prune("put", id, v, b, r) BY DEF Put, Ready, PruneFor
<1>1. /\ b \in Nat /\ b + v.charge = maxBytes + OldCharge(id)
      /\ OldCharge(id) \in Nat /\ v.charge \in Nat /\ r \in Nat
  BY PutTargets DEF CInv, Put
<1>2. r = IF id \in Held THEN MaxClientStoreRecords ELSE MaxClientStoreRecords - 1 BY LimitsTyped, SMT
<1> HIDE DEF b, r
<1>3. used' <= b /\ used' \in Nat /\ Cardinality(Held') <= r /\ \E S \in SUBSET Candidates(id) : DeleteMeta(S)
  BY <1>0, <1>1, PruneLocks
<1>4. PICK S \in SUBSET Candidates(id) : DeleteMeta(S) BY <1>3
<1>5. entries' = [o \in Ids |-> IF o \in S THEN Absent ELSE entries[o]] /\ id \notin S BY <1>4 DEF DeleteMeta, Candidates
<1>6. entries'[id] = entries[id] /\ (id \in Held' <=> id \in Held) BY <1>5 DEF Held
<1>7. OldCharge(id)' = OldCharge(id) BY <1>6 DEF OldCharge
<1>8. maxBytes \in Nat BY DEF CInv, CTypeOK
<1>9. used' + v.charge <= maxBytes + OldCharge(id)' BY <1>1, <1>3, <1>7, <1>8, SMT
<1>10. Cardinality(Held' \cup {id}) <= MaxClientStoreRecords
  <2>1. CASE id \in Held
    <3> USE <2>1
    <3>1. Held' \cup {id} = Held' BY <1>6
    <3> QED BY <1>2, <1>3, <3>1
  <2>2. CASE id \notin Held
    <3> USE <2>2
    <3>1. Held' \in SUBSET Ids BY DEF Held
    <3>2. id \notin Held' BY <1>6
    <3>3. Cardinality(Held' \cup {id}) = Cardinality(Held') + 1 /\ Cardinality(Held') \in Nat
      BY <3>1, <3>2 DEF Counting
    <3> QED BY <1>2, <1>3, <3>3, LimitsTyped, SMT
  <2> QED BY <2>1, <2>2
<1> QED BY <1>9, <1>10

(* An operation that starts with a prune has secured what it relies on.    *)
LEMMA PruneSecures ==
  ASSUME Counting, CInv, [Next]_vars, section = Absent, section' # Absent, section'.op # "delete"
  PROVE  Secured'
<1>1. PICK op, x, rec, b, r : Begins(op, x, rec, b, r) BY SectionPrunes DEF CInv
<1>2. used' <= b BY <1>1, PruneLocks DEF Begins
<1>3. ASSUME op = "put"
      PROVE  /\ x \in Ids /\ rec \in Versions /\ used' + rec.charge <= maxBytes' + OldCharge(x)'
             /\ Cardinality(Held' \cup {x}) <= MaxClientStoreRecords
  BY <1>1, <1>3, PutLocks DEF Begins
<1>4. OldCharge(section.id)' = OldCharge(x)' BY <1>1 DEF Begins, OldCharge
<1> QED BY <1>1, <1>2, <1>3, <1>4 DEF Begins, Secured

(* The store starts without records and without an index. *)
LEMMA InitCInv ==
  ASSUME Counting, Init
  PROVE  CInv
<1>1. CTypeOK BY EmptyBooks DEF Init, CTypeOK
<1>2. Held = {} BY EmptyBooks DEF Init, Held
<1>3. WithinLimit BY <1>2, EmptyBooks DEF Init, WithinLimit
<1>4. Lock /\ Mirror BY DEF Init, Lock, Mirror
<1> QED BY <1>1, <1>3, <1>4 DEF CInv

(* Every step keeps the inductive invariant. *)
LEMMA InvariantStep ==
  ASSUME Counting, CInv, [Next]_vars
  PROVE  CInv'
<1>1. WithinLimit' /\ used' \in Nat BY LimitStep
<1>2. CTypeOK' BY <1>1, TypeStep
<1>3. Lock' BY <1>2, PruneSecures, LockStep
<1>4. Mirror' BY MirrorStep
<1> QED BY <1>1, <1>2, <1>3, <1>4 DEF CInv
-----------------------------------------------------------------------------
(* Opening again *)

(* A new store has nothing to open. *)
LEMMA EmptyOpens ==
  ASSUME Counting, Init
  PROVE  Settled /\ AllOpen
<1>1. \A id \in Ids : maybe[id] = {Absent} /\ disk[id] = Absent BY DEF Init, Empty
<1>2. Settled BY <1>1, SMT DEF Settled
<1>3. disk \in Directories BY <1>1, EmptyBooks DEF Init, Directories
<1>4. ASSUME NEW d \in Directories PROVE CanOpen(d)
  <2>1. ProtectedIn(d) = {} BY <1>1 DEF Directories, ProtectedIn, Protected
  <2>3. Charge(d, {}) = 0 /\ Cardinality({}) = 0 BY EmptyBooks DEF Counting
  <2>4. PICK limit \in Limits : limit \in Nat /\ MaxClientStoreRecords \in Nat BY LimitsTyped
  <2>5. 0 <= limit /\ 0 <= MaxClientStoreRecords BY <2>4, SMT
  <2> QED BY <2>1, <2>3, <2>5 DEF CanOpen
<1> QED BY <1>2, <1>3, <1>4 DEF AllOpen

(* Every step leaves only directories that can be opened. *)
LEMMA OpenAgainStep ==
  ASSUME Counting, CInv, Settled, AllOpen, [Next]_vars, CTypeOK'
  PROVE  AllOpen'
<1>1. disk \in Directories BY DEF AllOpen
<1>2. \A id \in Ids : disk'[id] \in maybe'[id] BY <1>1, DiskPossible
<1>3. ASSUME slips = 0, NEW d \in Files, \A id \in Ids : d[id] \in maybe'[id]
      PROVE  CanOpen(d)'
  <2> USE <1>3
  <2>1. PICK e \in Files :
          /\ \A id \in Ids : Protected(d[id])' => e[id] = d[id]
          /\ \/ \A id \in Ids : e[id] \in maybe[id]
             \/ /\ PutRename /\ e[section.id] = section.rec
                /\ \A id \in Ids : id # section.id => e[id] \in maybe[id]
    BY <1>1, DirectoryBefore
  <2>2. CanOpen(e)
    <3>1. CASE \A id \in Ids : e[id] \in maybe[id] BY <3>1 DEF AllOpen, Directories
    <3>2. CASE /\ PutRename /\ e[section.id] = section.rec
               /\ \A id \in Ids : id # section.id => e[id] \in maybe[id]
      BY <3>2, RenamedFits
    <3> QED BY <2>1, <3>1, <3>2
  <2> QED BY <2>1, <2>2, FewerProtected
<1>4. disk' \in Files /\ (slips' = 0 => slips = 0) BY SlipsStep DEF CInv, CTypeOK
<1> QED BY <1>2, <1>3, <1>4 DEF AllOpen, Directories
(* A prune of a step takes only what it must. *)
LEMMA StepPrunes ==
  ASSUME Counting, CInv, [Next]_vars, slips = 0, section = Absent, section' # Absent, section'.op # "delete",
         NEW id \in Ids, disk[id] # Absent, disk'[id] = Absent, ~Expired(disk[id])
  PROVE  /\ disk[id].policy = "oldest"
         /\ \/ Charge(disk, Rest(id, section'.id)) > section'.bytes
            \/ Cardinality(Rest(id, section'.id)) > section'.records
<1>1. PICK op, x, rec, b, r : Begins(op, x, rec, b, r) BY SectionPrunes DEF CInv
<1>2. Prune(op, x, rec, b, r) /\ b \in Nat /\ r \in Nat /\ section'.id = x /\ section'.bytes = b /\ section'.records = r
  BY <1>1 DEF Begins
<1>3. CTypeOK /\ used = Charge(entries, Held) /\ status # "down" BY <1>1 DEF Begins, CInv, WithinLimit
<1>4. \A o \in Held : entries[o] = disk[o] BY <1>3 DEF CInv, CTypeOK, Mirror, Touching, Held
<1>5. /\ disk[id].policy = "oldest"
      /\ Charge(disk, Rest(id, x)) > b \/ Cardinality(Rest(id, x)) > r
  BY <1>2, <1>3, <1>4, PruneTakes
<1> QED BY <1>2, <1>5
-----------------------------------------------------------------------------
(* Counting *)

INSTANCE FiniteSetTheorems

(* The charged bytes are finitely many. *)
LEMMA UnitsFinite ==
  ASSUME NEW f, NEW S, Records(f, S)
  PROVE  IsFiniteSet(Units(f, S)) /\ IsFiniteSet(S)
<1> DEFINE g == [id \in S |-> {id} \X (1..f[id].charge)]
           T == {{id} \X (1..f[id].charge) : id \in S}
<1>1. g \in Surjection(S, T) BY DEF Surjection
<1>2. S \in SUBSET Ids BY DEF Records
<1>3. IsFiniteSet(S) BY <1>2, IdsAreOrdered, FS_Subset
<1>4. IsFiniteSet(T) BY <1>1, <1>3, FS_Surjection
<1>5. ASSUME NEW id \in S PROVE IsFiniteSet({id} \X (1..f[id].charge))
  <2>1. f[id].charge \in Int BY VersionCharge, SMT DEF Records
  <2>2. IsFiniteSet(1..f[id].charge) BY <2>1, FS_Interval, SMT
  <2>3. IsFiniteSet({id}) BY FS_Singleton
  <2> QED BY <2>2, <2>3, FS_Product
<1> QED BY <1>3, <1>4, <1>5, FS_UNION DEF Units

(* The records of a set are counted.                                       *)
LEMMA SubsetsCounted ==
  ASSUME NEW S \in SUBSET Ids, NEW T \in SUBSET S
  PROVE  /\ Cardinality(S) \in Nat /\ Cardinality(T) \in Nat /\ Cardinality(T) <= Cardinality(S)
         /\ Cardinality(S \ T) = Cardinality(S) - Cardinality(T) /\ (T # S => Cardinality(T) # Cardinality(S))
<1>1. IsFiniteSet(S) BY IdsAreOrdered, FS_Subset
<1>2. IsFiniteSet(T) /\ Cardinality(T) <= Cardinality(S) /\ (T # S => Cardinality(T) # Cardinality(S))
  BY <1>1, FS_Subset
<1>3. Cardinality(S) \in Nat /\ Cardinality(T) \in Nat BY <1>1, <1>2, FS_CardinalityType
<1>4. Cardinality(S \ T) = Cardinality(S) - Cardinality(S \cap T) BY <1>1, FS_Difference
<1>5. S \cap T = T OBVIOUS
<1> QED BY <1>2, <1>3, <1>4, <1>5

(* So are the bytes charged for them.                                      *)
LEMMA UnitsCounted ==
  ASSUME NEW f, NEW S, Records(f, S), NEW T \in SUBSET S
  PROVE  /\ Charge(f, S) \in Nat /\ Charge(f, T) \in Nat /\ Charge(f, T) <= Charge(f, S)
         /\ Charge(f, S \ T) = Charge(f, S) - Charge(f, T)
<1> DEFINE U == Units(f, S)
           V == Units(f, T)
<1>1. Units(f, S \ T) = U \ V BY SMT DEF Units
<1>2. V \subseteq U /\ U \cap V = V BY DEF Units
<1>3. IsFiniteSet(U) BY UnitsFinite
<1> HIDE DEF U, V
<1>4. IsFiniteSet(V) /\ Cardinality(V) <= Cardinality(U) BY <1>2, <1>3, FS_Subset
<1>5. Cardinality(U) \in Nat /\ Cardinality(V) \in Nat BY <1>3, <1>4, FS_CardinalityType
<1>6. Cardinality(U \ V) = Cardinality(U) - Cardinality(U \cap V) BY <1>3, FS_Difference
<1> QED BY <1>1, <1>2, <1>4, <1>5, <1>6 DEF Charge, U, V

(* One record's charge. *)
LEMMA OneCharged ==
  ASSUME NEW f, NEW id \in Ids, f[id] \in Versions
  PROVE  Charge(f, {id}) = f[id].charge
<1> DEFINE c == f[id].charge
<1>1. Units(f, {id}) = {id} \X (1..c) BY DEF Units
<1>2. c \in Nat \ {0} BY VersionCharge
<1> HIDE DEF c
<1>3. IsFiniteSet(1..c) /\ Cardinality(1..c) = c BY <1>2, FS_Interval, SMT
<1>4. IsFiniteSet({id}) /\ Cardinality({id}) = 1 BY FS_Singleton
<1>5. Cardinality({id} \X (1..c)) = Cardinality({id}) * Cardinality(1..c) BY <1>3, <1>4, FS_Product
<1>6. Cardinality({id} \X (1..c)) = 1 * c BY <1>3, <1>4, <1>5
<1>7. 1 * c = c BY <1>2, SMT
<1> QED BY <1>1, <1>6, <1>7 DEF Charge, c

(* Counting is what the cardinalities of finite sets give. *)
LEMMA CountingHolds == Counting
<1>1. Cardinality({}) = 0 BY FS_EmptySet
<1>2. ASSUME NEW S \in SUBSET Ids, NEW id \in Ids \ S PROVE Cardinality(S \cup {id}) = Cardinality(S) + 1
  <2>1. IsFiniteSet(S) BY IdsAreOrdered, FS_Subset
  <2> QED BY <2>1, FS_AddElement
<1> QED BY <1>1, <1>2, SubsetsCounted, UnitsCounted, OneCharged DEF Counting
-----------------------------------------------------------------------------
(* The theorems *)

(* The inductive invariant. *)
LEMMA StoreInvariant == Spec => []CInv
<1>1. Init => CInv BY CountingHolds, InitCInv
<1>2. CInv /\ [Next]_vars => CInv' BY CountingHolds, InvariantStep
<1> QED BY <1>1, <1>2, PTL DEF Spec

(* WithinLimit for any records, limits and faults: the bytes that Put,     *)
(* Delete, the prunes and open add and take away are the charges of what   *)
(* is indexed, and an open store is within its limits.                     *)
THEOREM LimitKept == Spec => []WithinLimit
<1>1. CInv => WithinLimit BY DEF CInv
<1> QED BY <1>1, StoreInvariant, PTL

(* IndexIsDirectory for any records, limits and faults: between operations *)
(* the index of an open store is its directory if no fsync was lost.       *)
THEOREM IndexMatches == Spec => []IndexIsDirectory
<1>1. CInv => IndexIsDirectory
  <2> SUFFICES ASSUME CInv, Ready, slips = 0 PROVE entries = disk BY DEF IndexIsDirectory
  <2>1. \A id \in Ids : entries[id] = disk[id] BY DEF CInv, Mirror, Ready, Touching
  <2> QED BY <2>1, SMT DEF CInv, CTypeOK, Files
<1> QED BY <1>1, StoreInvariant, PTL

(* ProtectedKept for any records, limits and faults: what Put reported as  *)
(* stored under a protecting policy is there in every open store, with its *)
(* value, until it is deleted, replaced or expires.                        *)
THEOREM ProtectedStays == Spec => []ProtectedKept
<1>1. Init => KeptSafe BY DEF Init, KeptSafe, Protected, Empty
<1>2. CInv /\ CInv' /\ KeptSafe /\ [Next]_vars => KeptSafe' BY KeptStep DEF CInv
<1>3. KeptSafe => ProtectedKept BY DEF KeptSafe, ProtectedKept, Ready
<1> QED BY <1>1, <1>2, <1>3, StoreInvariant, PTL DEF Spec

(* Reopenable for any records, limits and faults: as long as no fsync was  *)
(* lost, the protected records of the directory, and of every directory    *)
(* that a power loss can make of it, fit a limit that the store may have.  *)
THEOREM OpensAgain == Spec => []Reopenable
<1>1. Init => Settled /\ AllOpen BY CountingHolds, EmptyOpens
<1>2. CInv /\ CInv' /\ Settled /\ AllOpen /\ [Next]_vars => Settled' /\ AllOpen' BY CountingHolds, SettledStep, OpenAgainStep DEF CInv
<1>3. AllOpen => Reopenable
  BY DEF AllOpen, Reopenable, CanOpen, ProtectedIn
<1> QED BY <1>1, <1>2, <1>3, StoreInvariant, PTL DEF Spec

(* PrunesOnlyWhatMust for any records, limits and faults: the candidates'  *)
(* order and the loop that stops at enough never take an unexpired record  *)
(* that a directory-wide look would have spared.                           *)
THEOREM PrunesLeast == Spec => PrunesOnlyWhatMust
<1>1. CInv /\ [Next]_vars =>
        [(slips = 0 /\ section = Absent /\ section' # Absent /\ section'.op # "delete") =>
           \A id \in Ids : (disk[id] # Absent /\ disk'[id] = Absent /\ ~Expired(disk[id])) =>
             /\ disk[id].policy = "oldest"
             /\ \/ Charge(disk, Rest(id, section'.id)) > section'.bytes
                \/ Cardinality(Rest(id, section'.id)) > section'.records]_vars
  BY CountingHolds, StepPrunes
<1> QED BY <1>1, StoreInvariant, PTL DEF Spec, PrunesOnlyWhatMust
=============================================================================

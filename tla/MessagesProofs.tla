--------------------------- MODULE MessagesProofs ---------------------------
(***************************************************************************)
(* For any devices, profiles, retention, skew and number of messages: a    *)
(* message is accepted once until it expires, a revoked device is refused, *)
(* receipts are evidence that verifies, and who has signed can be loaded   *)
(* again.                                                                  *)
(***************************************************************************)
EXTENDS Messages, WellFoundedInduction, TLAPS

Message == [by : FromDevices, revision : Nat, created : Nat, expires : Nat]

Receipt == [id : Ids, by : ToDevices, revision : Nat, at : Nat]

MTypeOK ==
  /\ now \in Nat /\ ahead \in [Accounts -> 0..Skew]
  /\ vault \in [Devices -> Nat] /\ local \in [Devices -> Nat]
  /\ msgs \in Seq(Message) /\ Len(msgs) <= MaxMessages
  /\ opening \in [ToDevices -> SUBSET [id : 1..Len(msgs), again : BOOLEAN]]
  /\ replays \in [ToDevices -> SUBSET Ids] /\ inHand \in [ToDevices -> SUBSET Ids]
  /\ accepted \in [ToDevices -> [Ids -> Nat]]
  /\ receipts \subseteq Receipt

(* Only messages that were sent are accepted, and until they expire the    *)
(* replay store remembers them.                                            *)
Remembered ==
  \A d \in ToDevices, i \in Ids :
    accepted[d][i] > 0 => i \in 1..Len(msgs) /\ (Clock(d) < msgs[i].expires => i \in replays[d])

(* What an application holds, what a receipt says and what the sender      *)
(* believes was accepted.                                                  *)
Evidence ==
  /\ \A d \in ToDevices : \A i \in inHand[d] : accepted[d][i] > 0
  /\ \A c \in receipts : accepted[c.by][c.id] > 0
  /\ confirmed \subseteq Ids \X ToDevices /\ ReceiptMeansAccepted

(* A receipt was made by a device that had an account, within the window   *)
(* of its message and not later than now, on a clock ahead by Skew at most. *)
InWindow ==
  \A c \in receipts :
    /\ c.id \in 1..Len(msgs) /\ c.revision # 0
    /\ c.at >= msgs[c.id].created - Skew /\ c.at <= msgs[c.id].expires + Skew
    /\ c.at <= now + Skew

-----------------------------------------------------------------------------
(* Every device of the recipient joined with one of its revisions. *)
LEMMA Linked ==
  \A d \in ToDevices :
    LinkedAt(d) \in Nat /\ LinkedAt(d) \in Revisions(Recipient) /\ Lists(Recipient, LinkedAt(d), d)
<1> SUFFICES ASSUME NEW d \in ToDevices
             PROVE  LinkedAt(d) \in Nat /\ LinkedAt(d) \in Revisions(Recipient) /\ Lists(Recipient, LinkedAt(d), d)
  OBVIOUS
<1>1. AccountOf(d) = Recipient BY TwoAccounts DEF AccountOf
<1> DEFINE S == {r \in Revisions(Recipient) : Lists(Recipient, r, d)}
<1>2. Members[Recipient] \in Seq(Seq(Devices)) BY Registered DEF Accounts
<1>3. S \subseteq Nat BY <1>2 DEF Revisions
<1>4. S # {}
  <2>1. PICK r \in Revisions(Recipient) : d \in {Members[Recipient][r][k] : k \in 1..Len(Members[Recipient][r])}
    BY DEF ToDevices, DevicesOf
  <2> QED BY <2>1 DEF Lists
<1>5. PICK r \in S : \A q \in S : r <= q
  <2>1. PICK r \in S : \A q \in S : <<q, r>> \notin OpToRel(<, Nat)
    BY <1>3, <1>4, WFMin, NatLessThanWellFounded, Zenon
  <2> HIDE DEF S
  <2>2. ASSUME NEW q \in S PROVE ~(q < r)
    <3>1. q \in Nat /\ r \in Nat BY <1>3
    <3>2. ASSUME q < r PROVE <<q, r>> \in OpToRel(<, Nat)
      BY <3>1, <3>2 DEF OpToRel
    <3> QED BY <2>1, <3>2, Zenon
  <2> QED BY <1>3, <2>2
<1>6. \A q \in 1..(r - 1) : ~Lists(Recipient, q, d) BY <1>2, <1>3, <1>5 DEF Revisions
<1>7. \E q \in Revisions(Recipient) : Lists(Recipient, q, d) /\ \A p \in 1..(q - 1) : ~Lists(Recipient, p, d)
  BY <1>5, <1>6
<1>8. LinkedAt(d) \in Revisions(Recipient) /\ Lists(Recipient, LinkedAt(d), d) BY <1>1, <1>7 DEF LinkedAt
<1> QED BY <1>2, <1>8 DEF Revisions

(* A device belongs to one of the two accounts, and its clock counts from 0. *)
LEMMA ClockType ==
  ASSUME MTypeOK
  PROVE  \A d \in Devices : Clock(d) \in Nat /\ Clock(d) >= now /\ Clock(d) <= now + Skew
<1> SUFFICES ASSUME NEW d \in Devices
             PROVE  Clock(d) \in Nat /\ Clock(d) >= now /\ Clock(d) <= now + Skew
  OBVIOUS
<1>1. AccountOf(d) \in Accounts BY DEF AccountOf, Accounts
<1>2. ahead[AccountOf(d)] \in 0..Skew BY <1>1 DEF MTypeOK
<1> QED BY <1>2, Times DEF MTypeOK, Clock

(* The first state has its types. *)
LEMMA InitTyped == Init => MTypeOK
<1> SUFFICES ASSUME Init PROVE MTypeOK OBVIOUS
<1>1. vault \in [Devices -> Nat] /\ local \in [Devices -> Nat] BY Linked DEF Init
<1> QED BY <1>1, Times, Bounds DEF Init, MTypeOK, Ids, Receipt

(* Types are kept. *)
LEMMA TypeStep ==
  ASSUME MTypeOK, [Next]_vars
  PROVE  MTypeOK'
<1> USE DEF accounts, arrivals, proofs
<1>0. ToDevices \subseteq Devices /\ FromDevices \subseteq Devices /\ Online \subseteq ToDevices
  BY SomeOnline DEF Devices
<1>c. \A d \in Devices : Clock(d) \in Nat BY ClockType
<1>1. CASE Tick BY <1>1 DEF Tick, MTypeOK
<1>2. ASSUME NEW a \in Accounts, SignPublicProfile(a) PROVE MTypeOK' BY <1>2 DEF SignPublicProfile, MTypeOK
<1>l. ASSUME NEW d \in FromDevices, LinkDevice(d) PROVE MTypeOK'
  <2>1. PICK r \in Revisions(AccountOf(d)) : vault' = [vault EXCEPT ![d] = r] BY <1>l DEF LinkDevice
  <2>2. r \in Nat BY DEF Revisions
  <2>3. vault' \in [Devices -> Nat] BY <2>1, <2>2 DEF MTypeOK
  <2> QED BY <1>l, <2>3 DEF LinkDevice, MTypeOK
<1>3. ASSUME NEW d \in FromDevices, Register(d) PROVE MTypeOK'
  <2> USE <1>3
  <2>1. ASSUME NEW f \in [Devices -> Nat], NEW x \in Nat PROVE [f EXCEPT ![d] = x] \in [Devices -> Nat] OBVIOUS
  <2>2. PICK x, y \in Nat : vault' = [vault EXCEPT ![d] = x] /\ local' = [local EXCEPT ![d] = y]
    <3>1. PICK stored \in BOOLEAN : /\ vault' = [vault EXCEPT ![d] = IF stored THEN 1 ELSE 0]
                                     /\ local' = [local EXCEPT ![d] = IF Returned(stored) THEN 1 ELSE 0]
      BY DEF Register
    <3>2. (IF stored THEN 1 ELSE 0) \in Nat /\ (IF Returned(stored) THEN 1 ELSE 0) \in Nat OBVIOUS
    <3> QED BY <3>1, <3>2
  <2>3. vault' \in [Devices -> Nat] /\ local' \in [Devices -> Nat] BY <2>1, <2>2 DEF MTypeOK
  <2> QED BY <2>3 DEF Register, MTypeOK
<1>4. ASSUME NEW d \in FromDevices, SendDirect(d) PROVE MTypeOK'
  <2> USE <1>4
  <2>1. NewDirect(d) \in Message
    BY <1>0, <1>c, Times DEF NewDirect, Message, MTypeOK
  <2>2. msgs' = Append(msgs, NewDirect(d)) /\ Len(msgs) < MaxMessages BY DEF SendDirect
  <2>3. msgs' \in Seq(Message) /\ Len(msgs') = Len(msgs) + 1 /\ Len(msgs') <= MaxMessages
    BY <2>1, <2>2, Bounds DEF MTypeOK
  <2>4. [id : 1..Len(msgs), again : BOOLEAN] \subseteq [id : 1..Len(msgs'), again : BOOLEAN]
    BY <2>3 DEF MTypeOK
  <2>5. opening' \in [ToDevices -> SUBSET [id : 1..Len(msgs'), again : BOOLEAN]]
    BY <2>4 DEF SendDirect, MTypeOK
  <2> QED BY <2>3, <2>5 DEF SendDirect, MTypeOK
<1>5. ASSUME NEW d \in Online, Resolve(d) PROVE MTypeOK' BY <1>5 DEF Resolve, MTypeOK
<1>6. ASSUME NEW d \in FromDevices \cup Online, Load(d) PROVE MTypeOK' BY <1>6, <1>0 DEF Load, MTypeOK
<1>7. ASSUME NEW d \in FromDevices \cup Online, Restart(d) PROVE MTypeOK' BY <1>7 DEF Restart, MTypeOK
<1>8. ASSUME NEW s \in sending, SendNext(s) PROVE MTypeOK' BY <1>8 DEF SendNext, MTypeOK
<1>9. ASSUME NEW d \in Online, NEW i \in 1..Len(msgs), OpenDirect(d, i) PROVE MTypeOK'
  <2> USE <1>9
  <2>1. [id |-> i, again |-> i \in spent[d]] \in [id : 1..Len(msgs), again : BOOLEAN] OBVIOUS
  <2>2. opening' \in [ToDevices -> SUBSET [id : 1..Len(msgs), again : BOOLEAN]]
    <3>1. PICK x \in SUBSET {[id |-> i, again |-> i \in spent[d]]} : opening' = [opening EXCEPT ![d] = @ \cup x]
      BY DEF OpenDirect
    <3> QED BY <1>0, <2>1, <3>1 DEF MTypeOK
  <2> QED BY <2>2 DEF OpenDirect, MTypeOK
<1>10. ASSUME NEW d \in Online, NEW i \in 1..Len(msgs), ForgetReplay(d, i) PROVE MTypeOK'
  BY <1>10 DEF ForgetReplay, MTypeOK
<1>11. ASSUME NEW d \in Online, NEW i \in 1..Len(msgs), NewDeliveryReceipt(d, i) PROVE MTypeOK'
  <2>1. [id |-> i, by |-> d, revision |-> local[d], at |-> Clock(d)] \in Receipt
    BY <1>0, <1>c, Bounds DEF Receipt, MTypeOK, Ids
  <2> QED BY <1>11, <2>1 DEF NewDeliveryReceipt, MTypeOK
<1>12. ASSUME NEW d \in Online, NEW o \in opening[d], Accept(d, o) PROVE MTypeOK'
  <2> USE <1>12
  <2>1. o.id \in Ids BY <1>0, Bounds DEF MTypeOK, Ids
  <2>2. opening' \in [ToDevices -> SUBSET [id : 1..Len(msgs), again : BOOLEAN]]
    BY DEF Accept, MTypeOK
  <2>3. replays' \in [ToDevices -> SUBSET Ids]
    <3>1. PICK x \in SUBSET {o.id} : replays' = [replays EXCEPT ![d] = @ \cup x]
      <4>1. replays[d] \cup {} = replays[d] OBVIOUS
      <4> QED BY <4>1 DEF Accept
    <3> QED BY <2>1, <3>1 DEF MTypeOK
  <2>4. inHand' \in [ToDevices -> SUBSET Ids] BY <2>1 DEF Accept, MTypeOK
  <2>5. accepted' \in [ToDevices -> [Ids -> Nat]]
    <3>1. accepted[d][o.id] + 1 \in Nat BY <1>0, <2>1 DEF MTypeOK
    <3>2. [accepted[d] EXCEPT ![o.id] = @ + 1] \in [Ids -> Nat] BY <1>0, <3>1 DEF MTypeOK
    <3> QED BY <3>2 DEF Accept, MTypeOK
  <2> QED BY <2>2, <2>3, <2>4, <2>5 DEF Accept, MTypeOK
<1>13. ASSUME NEW d \in FromDevices, NEW c \in receipts, NEW i \in 1..Len(msgs), VerifyDeliveryReceipt(d, c, i)
       PROVE  MTypeOK'
  BY <1>13 DEF VerifyDeliveryReceipt, MTypeOK
<1>14. CASE UNCHANGED vars BY <1>14 DEF vars, MTypeOK
<1> QED BY <1>1, <1>2, <1>l, <1>3, <1>4, <1>5, <1>6, <1>7, <1>8, <1>9, <1>10, <1>11, <1>12, <1>13, <1>14 DEF Next

(* The times of a message are numbers. *)
LEMMA Fields ==
  ASSUME MTypeOK
  PROVE  \A i \in 1..Len(msgs) : msgs[i].created \in Nat /\ msgs[i].expires \in Nat
<1> SUFFICES ASSUME NEW i \in 1..Len(msgs) PROVE msgs[i].created \in Nat /\ msgs[i].expires \in Nat OBVIOUS
<1>1. msgs[i] \in Message BY DEF MTypeOK
<1> QED BY <1>1 DEF Message

(* A new message leaves the earlier ones as they are. *)
LEMMA Appended ==
  ASSUME MTypeOK, NEW m \in Message
  PROVE  /\ Len(Append(msgs, m)) = Len(msgs) + 1 /\ Len(msgs) \in Nat
         /\ \A i \in 1..Len(msgs) : Append(msgs, m)[i] = msgs[i]
BY DEF MTypeOK

(* What Accept does: nothing is forgotten, and what it newly accepts was   *)
(* not in the replay store, and is afterwards.                             *)
LEMMA AcceptEffect ==
  ASSUME MTypeOK, NEW d \in ToDevices, NEW o \in opening[d], Accept(d, o)
  PROVE  /\ o.id \in 1..Len(msgs) /\ o.id \in Ids
         /\ \A e \in ToDevices : replays[e] \subseteq replays'[e]
         /\ \A e \in ToDevices, i \in Ids :
              \/ accepted'[e][i] = accepted[e][i]
              \/ e = d /\ i = o.id /\ i \notin replays[e] /\ i \in replays'[e] /\ accepted'[e][i] = accepted[e][i] + 1
         /\ \A e \in ToDevices : inHand'[e] \subseteq inHand[e] \cup {i \in Ids : accepted'[e][i] > accepted[e][i]}
<1>1. o.id \in 1..Len(msgs) /\ o.id \in Ids BY Bounds DEF MTypeOK, Ids
<1>2. PICK ok, written \in BOOLEAN :
        /\ ok => written = IsNew(d, o.id)
        /\ replays' = [replays EXCEPT ![d] = IF written THEN @ \cup {o.id} ELSE @]
        /\ IF ok /\ written THEN /\ inHand' = [inHand EXCEPT ![d] = @ \cup {o.id}]
                                 /\ accepted' = [accepted EXCEPT ![d][o.id] = @ + 1]
                            ELSE UNCHANGED <<inHand, accepted>>
  BY DEF Accept
<1>3. \A e \in ToDevices : replays[e] \subseteq replays'[e] BY <1>2 DEF MTypeOK
<1>4. CASE ~(ok /\ written) BY <1>1, <1>2, <1>3, <1>4
<1>5. CASE ok /\ written
  <2> USE <1>5
  <2>1. o.id \notin replays[d] /\ o.id \in replays'[d] BY <1>2 DEF MTypeOK, IsNew
  <2>2. \A e \in ToDevices, i \in Ids :
          accepted'[e][i] = IF e = d /\ i = o.id THEN accepted[e][i] + 1 ELSE accepted[e][i]
    BY <1>1, <1>2 DEF MTypeOK
  <2>3. accepted'[d][o.id] > accepted[d][o.id] BY <1>1, <2>2 DEF MTypeOK
  <2>4. \A e \in ToDevices : inHand'[e] \subseteq inHand[e] \cup {i \in Ids : accepted'[e][i] > accepted[e][i]}
    <3>1. \A e \in ToDevices : inHand'[e] = IF e = d THEN inHand[e] \cup {o.id} ELSE inHand[e]
      BY <1>2 DEF MTypeOK
    <3> QED BY <1>1, <2>3, <3>1
  <2> QED BY <1>1, <1>3, <2>1, <2>2, <2>4
<1> QED BY <1>4, <1>5

(* The replay store forgets nothing that has not expired. *)
LEMMA RememberedStep ==
  ASSUME MTypeOK, MTypeOK', Remembered, [Next]_vars
  PROVE  Remembered'
<1> USE DEF accounts, arrivals, proofs
<1>0. ToDevices \subseteq Devices /\ Online \subseteq ToDevices BY SomeOnline DEF Devices
<1>1. ASSUME UNCHANGED <<now, ahead, msgs, replays, accepted>> PROVE Remembered'
  BY <1>1 DEF Remembered, Clock
<1>2. CASE Tick
  <2> USE <1>2
  <2>1. \A d \in ToDevices : Clock(d)' = Clock(d) + 1 /\ Clock(d) \in Nat
    <3>1. \A d \in Devices : Clock(d) \in Nat BY ClockType
    <3> SUFFICES ASSUME NEW d \in ToDevices PROVE Clock(d)' = Clock(d) + 1 /\ Clock(d) \in Nat OBVIOUS
    <3>2. AccountOf(d) \in Accounts BY DEF AccountOf, Accounts
    <3>3. ahead[AccountOf(d)] \in 0..Skew BY <3>2 DEF MTypeOK
    <3>4. now' = now + 1 /\ ahead' = ahead /\ now \in Nat BY DEF Tick, MTypeOK
    <3>5. Clock(d)' = now + 1 + ahead[AccountOf(d)] BY <3>4 DEF Clock
    <3> QED BY <1>0, <3>1, <3>3, <3>4, <3>5, Times DEF Clock
  <2>2. \A i \in 1..Len(msgs) : msgs[i].expires \in Nat BY Fields
  <2> QED BY <2>1, <2>2 DEF Tick, Remembered
<1>3. ASSUME NEW d \in FromDevices, SendDirect(d) PROVE Remembered'
  <2> USE <1>3
  <2>1. NewDirect(d) \in Message
    <3>1. d \in Devices /\ Clock(d) \in Nat BY ClockType DEF Devices
    <3> QED BY <3>1, Times DEF NewDirect, Message, MTypeOK
  <2>2. Len(msgs') = Len(msgs) + 1 /\ Len(msgs) \in Nat /\ \A i \in 1..Len(msgs) : msgs'[i] = msgs[i]
    BY <2>1, Appended DEF SendDirect
  <2> QED BY <2>2 DEF SendDirect, Remembered, Clock
<1>4. ASSUME NEW d \in Online, NEW i \in 1..Len(msgs), ForgetReplay(d, i) PROVE Remembered'
  <2> USE <1>4
  <2>1. \A e \in ToDevices : Clock(e) \in Nat BY <1>0, ClockType
  <2>2. msgs[i].expires \in Nat BY Fields
  <2>3. \A e \in ToDevices : replays'[e] = IF e = d THEN replays[e] \ {i} ELSE replays[e]
    BY DEF ForgetReplay, MTypeOK
  <2> QED BY <1>0, <2>1, <2>2, <2>3 DEF ForgetReplay, MayForget, Remembered, Clock
<1>5. ASSUME NEW d \in Online, NEW o \in opening[d], Accept(d, o) PROVE Remembered'
  <2> USE <1>5
  <2>1. UNCHANGED <<now, ahead, msgs>> BY DEF Accept
  <2>2. \A e \in ToDevices : replays[e] \subseteq replays'[e] BY <1>0, AcceptEffect
  <2>3. \A e \in ToDevices, i \in Ids : accepted'[e][i] = accepted[e][i] \/ (i \in 1..Len(msgs) /\ i \in replays'[e])
    BY <1>0, AcceptEffect
  <2>4. \A e \in ToDevices : Clock(e)' = Clock(e) BY <2>1 DEF Clock
  <2> QED BY <2>1, <2>2, <2>3, <2>4 DEF Remembered
<1>6. CASE UNCHANGED vars BY <1>1, <1>6 DEF vars
<1> QED
  BY <1>1, <1>2, <1>3, <1>4, <1>5, <1>6 DEF Next, SignPublicProfile, LinkDevice, Register, Resolve, Load, Restart,
     SendNext, OpenDirect, NewDeliveryReceipt, VerifyDeliveryReceipt

(* Nothing that was accepted becomes unaccepted. *)
LEMMA AcceptedStays ==
  ASSUME MTypeOK, [Next]_vars
  PROVE  \A e \in ToDevices, i \in Ids : accepted'[e][i] >= accepted[e][i] /\ accepted[e][i] \in Nat
<1> USE DEF accounts, arrivals, proofs
<1>1. \A e \in ToDevices, i \in Ids : accepted[e][i] \in Nat BY DEF MTypeOK
<1>2. CASE accepted' = accepted BY <1>1, <1>2
<1>3. ASSUME NEW d \in Online, NEW o \in opening[d], Accept(d, o)
      PROVE  \A e \in ToDevices, i \in Ids : accepted'[e][i] >= accepted[e][i]
  <2>1. d \in ToDevices BY SomeOnline
  <2> QED BY <1>1, <1>3, <2>1, AcceptEffect
<1> QED
  BY <1>1, <1>2, <1>3 DEF Next, vars, Tick, SignPublicProfile, LinkDevice, Register, SendDirect, Resolve, Load, Restart,
     SendNext, OpenDirect, ForgetReplay, NewDeliveryReceipt, VerifyDeliveryReceipt

(* Only an accepted message comes into an application's hands, from there  *)
(* into a receipt, and from a receipt to the sender's knowledge.           *)
LEMMA EvidenceStep ==
  ASSUME MTypeOK, MTypeOK', Evidence, [Next]_vars
  PROVE  Evidence'
<1> USE DEF accounts, arrivals, proofs
<1>0. Online \subseteq ToDevices BY SomeOnline
<1>1. \A e \in ToDevices, i \in Ids : accepted[e][i] > 0 => accepted'[e][i] > 0
  <2>1. \A e \in ToDevices, i \in Ids : accepted'[e][i] \in Nat BY DEF MTypeOK
  <2> QED BY <2>1, AcceptedStays
<1>2. \A c \in receipts : c.by \in ToDevices /\ c.id \in Ids BY DEF MTypeOK, Receipt
<1>3. \A e \in ToDevices : inHand[e] \subseteq Ids BY DEF MTypeOK
<1>4. ASSUME \A e \in ToDevices : inHand'[e] \subseteq inHand[e], UNCHANGED <<receipts, confirmed>> PROVE Evidence'
  BY <1>1, <1>2, <1>3, <1>4 DEF Evidence, ReceiptMeansAccepted
<1>5. ASSUME NEW d \in FromDevices \cup Online, Restart(d) PROVE Evidence'
  <2> USE <1>5
  <2>1. \A e \in ToDevices : inHand'[e] \subseteq inHand[e] BY DEF Restart
  <2> QED BY <1>4, <2>1 DEF Restart
<1>6. ASSUME NEW d \in Online, NEW o \in opening[d], Accept(d, o) PROVE Evidence'
  <2> USE <1>6
  <2>1. \A e \in ToDevices : inHand'[e] \subseteq inHand[e] \cup {i \in Ids : accepted'[e][i] > accepted[e][i]}
    BY <1>0, AcceptEffect
  <2>2. \A e \in ToDevices, i \in Ids : accepted[e][i] \in Nat /\ accepted'[e][i] \in Nat BY DEF MTypeOK
  <2>3. \A e \in ToDevices : \A i \in inHand'[e] : accepted'[e][i] > 0
    BY <1>1, <1>3, <2>1, <2>2 DEF Evidence
  <2> QED BY <1>1, <1>2, <2>3 DEF Accept, Evidence, ReceiptMeansAccepted
<1>7. ASSUME NEW d \in Online, NEW i \in 1..Len(msgs), NewDeliveryReceipt(d, i) PROVE Evidence'
  <2> USE <1>7
  <2>1. inHand' = inHand BY DEF NewDeliveryReceipt
  <2>2. i \in inHand[d] /\ d \in ToDevices /\ accepted'[d][i] > 0
    BY <1>0, <1>1, <1>3 DEF NewDeliveryReceipt, Evidence
  <2>3. \A c \in receipts' : accepted'[c.by][c.id] > 0
    <3>1. \A c \in receipts : accepted'[c.by][c.id] > 0 BY <1>1, <1>2 DEF Evidence
    <3> DEFINE new == [id |-> i, by |-> d, revision |-> local[d], at |-> Clock(d)]
    <3>2. receipts' = receipts \cup {new} BY DEF NewDeliveryReceipt
    <3>3. new.by = d /\ new.id = i OBVIOUS
    <3> HIDE DEF new
    <3> QED BY <2>2, <3>1, <3>2, <3>3
  <2> QED BY <1>1, <1>3, <2>1, <2>3 DEF NewDeliveryReceipt, Evidence, ReceiptMeansAccepted
<1>8. ASSUME NEW d \in FromDevices, NEW c \in receipts, NEW i \in 1..Len(msgs), VerifyDeliveryReceipt(d, c, i)
      PROVE  Evidence'
  <2> USE <1>8
  <2>1. confirmed' = confirmed \cup {<<c.id, c.by>>} /\ accepted' = accepted
    BY DEF VerifyDeliveryReceipt, VerifyReceipt, Matches
  <2>2. accepted[c.by][c.id] > 0 BY DEF Evidence
  <2>3. UNCHANGED <<inHand, receipts>> BY DEF VerifyDeliveryReceipt
  <2>4. ReceiptMeansAccepted' BY <2>1, <2>2 DEF Evidence, ReceiptMeansAccepted
  <2>5. confirmed' \subseteq Ids \X ToDevices BY <1>2, <2>1 DEF Evidence
  <2> QED BY <2>1, <2>3, <2>4, <2>5 DEF Evidence
<1>9. CASE UNCHANGED vars BY <1>4, <1>9 DEF vars
<1> QED
  BY <1>4, <1>5, <1>6, <1>7, <1>8, <1>9 DEF Next, Tick, SignPublicProfile, LinkDevice, Register, SendDirect, Resolve,
     Load, SendNext, OpenDirect, ForgetReplay

(* A receipt keeps its message, and time only moves away from it. *)
LEMMA WindowStep ==
  ASSUME MTypeOK, InWindow, [Next]_vars
  PROVE  InWindow'
<1> USE DEF accounts, arrivals, proofs
<1>1. ASSUME UNCHANGED <<now, msgs, receipts>> PROVE InWindow' BY <1>1 DEF InWindow
<1>2. CASE Tick
  <2> USE <1>2
  <2>1. \A c \in receipts : c.at \in Nat BY DEF MTypeOK, Receipt
  <2>2. now' = now + 1 /\ now \in Nat BY DEF Tick, MTypeOK
  <2> QED BY <2>1, <2>2, Times DEF Tick, InWindow
<1>3. ASSUME NEW d \in FromDevices, SendDirect(d) PROVE InWindow'
  <2> USE <1>3
  <2>1. NewDirect(d) \in Message
    <3>1. d \in Devices /\ Clock(d) \in Nat BY ClockType DEF Devices
    <3> QED BY <3>1, Times DEF NewDirect, Message, MTypeOK
  <2>2. Len(msgs') = Len(msgs) + 1 /\ Len(msgs) \in Nat /\ \A i \in 1..Len(msgs) : msgs'[i] = msgs[i]
    BY <2>1, Appended DEF SendDirect
  <2>3. UNCHANGED <<now, receipts>> BY DEF SendDirect
  <2>4. \A i \in 1..Len(msgs) : i \in 1..Len(msgs') BY <2>2
  <2> QED BY <2>2, <2>3, <2>4 DEF InWindow
<1>4. ASSUME NEW d \in Online, NEW i \in 1..Len(msgs), NewDeliveryReceipt(d, i) PROVE InWindow'
  <2> USE <1>4
  <2>1. Clock(d) <= now + Skew
    <3>1. d \in Devices BY SomeOnline DEF Devices
    <3> QED BY <3>1, ClockType
  <2>2. MayReceipt(msgs[i], Clock(d)) /\ UNCHANGED <<now, msgs>>
        /\ receipts' = receipts \cup {[id |-> i, by |-> d, revision |-> local[d], at |-> Clock(d)]}
    BY DEF NewDeliveryReceipt
  <2>3. local[d] # 0 BY DEF NewDeliveryReceipt
  <2> QED BY <2>1, <2>2, <2>3 DEF MayReceipt, InWindow
<1>5. CASE UNCHANGED vars BY <1>1, <1>5 DEF vars
<1> QED
  BY <1>1, <1>2, <1>3, <1>4, <1>5 DEF Next, SignPublicProfile, LinkDevice, Register, Resolve, Load, Restart,
     SendNext, OpenDirect, ForgetReplay, Accept, VerifyDeliveryReceipt

(* The inductive invariant. *)
MInv == MTypeOK /\ Remembered /\ Evidence /\ InWindow

(* The inductive invariant holds. *)
LEMMA MessagesInvariant == Spec => []MInv
<1>1. Init => MInv
  <2> SUFFICES ASSUME Init PROVE Remembered /\ Evidence /\ InWindow BY InitTyped DEF MInv
  <2> QED BY DEF Init, Remembered, Evidence, InWindow, ReceiptMeansAccepted
<1>2. MInv /\ [Next]_vars => MInv'
  BY TypeStep, RememberedStep, EvidenceStep, WindowStep DEF MInv
<1> QED BY <1>1, <1>2, PTL DEF Spec

(* Whatever the ratchet decrypts again, whatever calls overlap and devices *)
(* restart: OpenDirect returns a message a second time only after its      *)
(* expiry, when the replay store may have dropped the entry.               *)
THEOREM NoReplayBeforeExpiry == Spec => OnceUntilExpired
<1> DEFINE Once == \A d \in Online, i \in Ids :
             accepted[d][i] > 0 /\ accepted'[d][i] > accepted[d][i] => Clock(d) >= msgs[i].expires
<1>1. ASSUME MInv, [Next]_vars PROVE [Once]_vars
  <2> USE <1>1
  <2> SUFFICES ASSUME NEW d \in Online, NEW i \in Ids, accepted[d][i] > 0, accepted'[d][i] > accepted[d][i]
               PROVE  Clock(d) >= msgs[i].expires
    OBVIOUS
  <2>0. d \in ToDevices /\ d \in Devices BY SomeOnline DEF Devices
  <2>1. accepted[d][i] \in Nat BY <2>0 DEF MInv, MTypeOK
  <2>2. accepted' # accepted BY <2>1
  <2>3. \E e \in Online : \E o \in opening[e] : Accept(e, o)
    BY <2>2 DEF Next, vars, accounts, arrivals, proofs, Tick, SignPublicProfile, LinkDevice, Register, SendDirect,
     Resolve, Load, Restart, SendNext, OpenDirect, ForgetReplay, NewDeliveryReceipt, VerifyDeliveryReceipt
  <2>4. PICK e \in Online : \E o \in opening[e] : Accept(e, o) BY <2>3
  <2>5. PICK o \in opening[e] : Accept(e, o) BY <2>4
  <2>6. e \in ToDevices /\ MTypeOK BY SomeOnline DEF MInv
  <2>7. accepted'[d][i] = accepted[d][i] \/ i \notin replays[d] BY <2>0, <2>5, <2>6, AcceptEffect
  <2>8. i \notin replays[d] BY <2>1, <2>7
  <2>9. i \in 1..Len(msgs) /\ ~(Clock(d) < msgs[i].expires) BY <2>0, <2>8 DEF MInv, Remembered
  <2>10. Clock(d) \in Nat /\ msgs[i].expires \in Nat BY <2>0, <2>6, <2>9, ClockType, Fields
  <2> QED BY <2>9, <2>10
<1> QED BY <1>1, MessagesInvariant, PTL DEF Spec, OnceUntilExpired

(* A device the recipient has seen revoked is refused, whichever of the    *)
(* old profiles the directory still returns.                               *)
THEOREM RevokedStaysRevoked == Spec => RevokedRefused
<1> DEFINE Refused == \A d \in Online : \A o \in opening'[d] \ opening[d] :
             \E r \in 1..signed[Sender] : r >= known[d] /\ Lists(Sender, r, msgs[o.id].by)
<1>1. ASSUME MInv, [Next]_vars PROVE [Refused]_vars
  <2> USE <1>1
  <2> SUFFICES ASSUME NEW d \in Online, NEW o \in opening'[d], o \notin opening[d]
               PROVE  \E r \in 1..signed[Sender] : r >= known[d] /\ Lists(Sender, r, msgs[o.id].by)
    OBVIOUS
  <2>0. d \in ToDevices /\ MTypeOK BY SomeOnline DEF MInv
  <2>1. \E e \in Online : \E i \in 1..Len(msgs) : OpenDirect(e, i)
    <3>1. ASSUME NEW e \in Online, NEW q \in opening[e], Accept(e, q) PROVE FALSE
      BY <2>0, <3>1 DEF Accept, MTypeOK
    <3>2. ASSUME NEW e \in FromDevices \cup Online, Restart(e) PROVE FALSE BY <2>0, <3>2 DEF Restart
    <3> QED
      BY <3>1, <3>2 DEF Next, vars, accounts, arrivals, proofs, Tick, SignPublicProfile, LinkDevice, Register,
     SendDirect, Resolve, Load, SendNext, ForgetReplay, NewDeliveryReceipt, VerifyDeliveryReceipt
  <2>2. PICK e \in Online : \E i \in 1..Len(msgs) : OpenDirect(e, i) BY <2>1
  <2>3. PICK i \in 1..Len(msgs) : OpenDirect(e, i) BY <2>2
  <2>4. PICK r \in Revisions(Sender) :
          /\ ResolveVerified(e, r)
          /\ opening' = [opening EXCEPT ![e] = @ \cup IF VerifyDirect(msgs[i], r, Clock(e))
                                                     THEN {[id |-> i, again |-> i \in spent[e]]} ELSE {}]
    BY <2>3 DEF OpenDirect
  <2>5. e = d /\ VerifyDirect(msgs[i], r, Clock(e)) /\ o.id = i
    <3> DEFINE new == IF VerifyDirect(msgs[i], r, Clock(e)) THEN {[id |-> i, again |-> i \in spent[e]]} ELSE {}
    <3>1. e \in ToDevices /\ DOMAIN opening = ToDevices BY <2>0, SomeOnline DEF MTypeOK
    <3>2. opening' = [opening EXCEPT ![e] = @ \cup new] BY <2>4
    <3> HIDE DEF new
    <3>3. e = d /\ o \in new BY <2>0, <3>1, <3>2 DEF MTypeOK
    <3> QED BY <3>3 DEF new
  <2>6. Peer(d) = Sender BY <2>0, TwoAccounts DEF Peer
  <2> QED BY <2>4, <2>5, <2>6 DEF ResolveVerified, NotRolledBack, VerifyDirect, VerifyPublicProfile
<1> QED BY <1>1, MessagesInvariant, PTL DEF Spec, RevokedRefused

(* A verified receipt proves that its device accepted this very message. *)
THEOREM ReceiptsAreEvidence == Spec => []ReceiptMeansAccepted
<1>1. MInv => ReceiptMeansAccepted BY DEF MInv, Evidence
<1> QED BY <1>1, MessagesInvariant, PTL

(* Clocks that differ by at most the tolerated skew never make a genuine   *)
(* receipt fail its time checks.                                           *)
THEOREM ReceiptsAlwaysVerify == Spec => []ReceiptsVerify
<1>1. ASSUME MInv PROVE ReceiptsVerify
  <2> USE <1>1
  <2> SUFFICES ASSUME NEW c \in receipts, NEW r \in c.revision..signed[Recipient], Lists(Recipient, r, c.by),
                      NEW d \in FromDevices
               PROVE  VerifyReceipt(c, c.id, r, Clock(d))
    BY DEF ReceiptsVerify
  <2>1. c.revision \in Nat /\ c.at \in Nat /\ MTypeOK BY DEF MInv, MTypeOK, Receipt
  <2>2. Clock(d) \in Nat /\ Clock(d) >= now /\ now \in Nat
    <3>1. d \in Devices BY DEF Devices
    <3> QED BY <2>1, <3>1, ClockType DEF MTypeOK
  <2>3. c.at <= Clock(d) + Skew BY <2>1, <2>2, Times DEF MInv, InWindow
  <2>4. r >= c.revision /\ VerifyPublicProfile(Recipient, r)
    <3>1. c.revision >= 1 BY <2>1 DEF MInv, InWindow
    <3> QED BY <2>1, <3>1 DEF VerifyPublicProfile
  <2> QED BY <2>3, <2>4 DEF VerifyReceipt, Matches, MInv, InWindow
<1> QED BY <1>1, MessagesInvariant, PTL

-----------------------------------------------------------------------------
(* A device with an account, and one that has signed, can load its record; *)
(* a record is of a revision that was signed and lists its device.         *)
Loadable ==
  /\ signed \in [Accounts -> Nat]
  /\ \A d \in Devices : local[d] # 0 => CanLoad(d)
  /\ Reloadable

(* The devices that signed a message or a receipt. *)
Signers == {m.by : m \in {msgs[i] : i \in 1..Len(msgs)}} \cup {c.by : c \in receipts}

(* What a vault holds stays: Register does not run for an account that     *)
(* exists, and only a device without a record is linked.                   *)
LEMMA LoadStays ==
  ASSUME MTypeOK, Loadable, [Next]_vars
  PROVE  signed' \in [Accounts -> Nat] /\ \A e \in Devices : CanLoad(e) => CanLoad(e)'
<1> USE DEF accounts, arrivals, proofs, Loadable
<1>0. FromDevices \subseteq Devices /\ \A e \in Devices : AccountOf(e) \in Accounts
  BY DEF Devices, AccountOf, Accounts
<1>1. ASSUME UNCHANGED <<signed, vault>> PROVE signed' \in [Accounts -> Nat] /\ \A e \in Devices : CanLoad(e) => CanLoad(e)'
  BY <1>1 DEF CanLoad, VerifyPublicProfile
<1>2. ASSUME NEW a \in Accounts, SignPublicProfile(a)
      PROVE  signed' \in [Accounts -> Nat] /\ \A e \in Devices : CanLoad(e) => CanLoad(e)'
  <2>1. /\ signed' = [signed EXCEPT ![a] = signed[a] + 1]
        /\ vault' = vault
    BY <1>2 DEF SignPublicProfile
  <2>2. signed[a] \in Nat /\ signed[a] + 1 \in Nat /\ signed' \in [Accounts -> Nat] BY <2>1
  <2>3. \A b \in Accounts : signed'[b] >= signed[b] /\ signed[b] \in Nat /\ signed'[b] \in Nat BY <2>1, <2>2
  <2> QED BY <1>0, <2>1, <2>2, <2>3 DEF CanLoad, VerifyPublicProfile, MTypeOK
<1>l. ASSUME NEW d \in FromDevices, LinkDevice(d)
      PROVE  signed' \in [Accounts -> Nat] /\ \A e \in Devices : CanLoad(e) => CanLoad(e)'
  <2>1. signed' = signed /\ \A e \in Devices : vault[e] # 0 => vault'[e] = vault[e] BY <1>l DEF LinkDevice, MTypeOK
  <2> QED BY <2>1 DEF CanLoad, VerifyPublicProfile
<1>3. ASSUME NEW d \in FromDevices, Register(d)
      PROVE  signed' \in [Accounts -> Nat] /\ \A e \in Devices : CanLoad(e) => CanLoad(e)'
  <2> USE <1>3
  <2>1. PICK x, y \in {0, 1} : vault' = [vault EXCEPT ![d] = x] /\ signed' = [signed EXCEPT ![AccountOf(d)] = y]
    <3>1. PICK stored \in BOOLEAN :
            /\ vault' = [vault EXCEPT ![d] = IF stored THEN 1 ELSE 0]
            /\ signed' = [signed EXCEPT ![AccountOf(d)] = IF Returned(stored) THEN 1 ELSE 0]
      BY DEF Register
    <3>2. (IF stored THEN 1 ELSE 0) \in {0, 1} /\ (IF Returned(stored) THEN 1 ELSE 0) \in {0, 1} OBVIOUS
    <3> QED BY <3>1, <3>2
  <2>2. signed' \in [Accounts -> Nat]
    <3>1. y \in Nat BY <2>1
    <3>2. signed \in [Accounts -> Nat] OBVIOUS
    <3> HIDE DEF Loadable
    <3> QED BY <2>1, <3>1, <3>2
  <2>3. signed[AccountOf(d)] = 0 BY DEF Register
  <2>4. ASSUME NEW e \in Devices, CanLoad(e) PROVE CanLoad(e)'
    <3> USE <2>4
    <3>1. AccountOf(e) # AccountOf(d) BY <2>3 DEF CanLoad, VerifyPublicProfile
    <3>2. vault'[e] = vault[e] /\ signed'[AccountOf(e)] = signed[AccountOf(e)] BY <1>0, <2>1, <3>1 DEF MTypeOK
    <3> QED BY <3>2 DEF CanLoad, VerifyPublicProfile
  <2> QED BY <2>2, <2>4
<1> QED
  BY <1>1, <1>2, <1>l, <1>3 DEF Next, vars, Tick, SendDirect, Resolve, Load, Restart, SendNext, OpenDirect, ForgetReplay,
     NewDeliveryReceipt, Accept, VerifyDeliveryReceipt

(* A device gets an account only with its record in the vault, and signs   *)
(* only with an account.                                                   *)
LEMMA LoadableStep ==
  ASSUME MTypeOK, Loadable, [Next]_vars
  PROVE  Loadable'
<1> USE DEF accounts, arrivals, proofs
<1>0. /\ FromDevices \subseteq Devices /\ Online \subseteq Devices
      /\ \A e \in Devices : AccountOf(e) \in Accounts
  BY SomeOnline DEF Devices, AccountOf, Accounts
<1>1. signed' \in [Accounts -> Nat] /\ \A e \in Devices : CanLoad(e) => CanLoad(e)' BY LoadStays
<1>2. ASSUME NEW e \in Devices, local'[e] # 0 PROVE CanLoad(e)'
  <2> USE <1>2
  <2>1. CASE local'[e] = local[e] BY <1>1, <2>1 DEF Loadable
  <2>2. ASSUME NEW d \in FromDevices \cup Online, Load(d) PROVE local'[e] = local[e] \/ CanLoad(e)
    BY <1>0, <2>2 DEF Load, MTypeOK
  <2>3. ASSUME NEW d \in FromDevices \cup Online, Restart(d) PROVE local'[e] = local[e] \/ local'[e] = 0
    BY <1>0, <2>3 DEF Restart, MTypeOK
  <2>4. ASSUME NEW d \in FromDevices, Register(d) PROVE local'[e] = local[e] \/ CanLoad(e)'
    <3> USE <2>4
    <3>1. PICK stored \in BOOLEAN :
            /\ vault' = [vault EXCEPT ![d] = IF stored THEN 1 ELSE 0]
            /\ local' = [local EXCEPT ![d] = IF Returned(stored) THEN 1 ELSE 0]
            /\ signed' = [signed EXCEPT ![AccountOf(d)] = IF Returned(stored) THEN 1 ELSE 0]
      BY DEF Register
    <3>2. CASE e # d BY <1>0, <3>1, <3>2 DEF MTypeOK
    <3>3. CASE e = d
      <4> USE <3>3
      <4>1. stored BY <3>1 DEF MTypeOK, Returned
      <4>2. vault'[d] = 1 /\ signed'[AccountOf(d)] = 1 BY <1>0, <3>1, <4>1 DEF MTypeOK, Loadable, Returned
      <4> QED BY <4>2 DEF Register, CanLoad, VerifyPublicProfile
    <3> QED BY <3>2, <3>3
  <2> QED
    BY <1>1, <2>1, <2>2, <2>3, <2>4 DEF Next, vars, Tick, SignPublicProfile, LinkDevice, SendDirect, Resolve,
     SendNext, OpenDirect, ForgetReplay, NewDeliveryReceipt, Accept, VerifyDeliveryReceipt
<1>3. Signers \subseteq Devices
  <2>1. \A i \in 1..Len(msgs) : msgs[i].by \in FromDevices
    <3>1. \A i \in 1..Len(msgs) : msgs[i] \in Message BY DEF MTypeOK
    <3> QED BY <3>1 DEF Message
  <2> QED BY <2>1 DEF Signers, MTypeOK, Receipt, Devices
<1>4. ASSUME NEW e \in Signers' PROVE e \in Signers \/ (e \in Devices /\ local[e] # 0)
  <2> USE <1>4
  <2>1. CASE UNCHANGED <<msgs, receipts>> BY <2>1 DEF Signers
  <2>2. ASSUME NEW d \in FromDevices, SendDirect(d) PROVE e \in Signers \/ (e \in Devices /\ local[e] # 0)
    <3>1. receipts' = receipts /\ msgs' = Append(msgs, NewDirect(d)) /\ local[d] # 0 BY <2>2 DEF SendDirect
    <3>2. msgs \in Seq(Message) BY DEF MTypeOK
    <3>3. Len(msgs') = Len(msgs) + 1 /\ Len(msgs) \in Nat BY <3>1, <3>2
    <3>4. ASSUME NEW i \in 1..Len(msgs') PROVE msgs'[i] = IF i = Len(msgs) + 1 THEN NewDirect(d) ELSE msgs[i]
      BY <3>1, <3>2, <3>3
    <3>5. NewDirect(d).by = d BY DEF NewDirect
    <3>6. CASE \E c \in receipts : e = c.by BY <3>6 DEF Signers
    <3>7. ASSUME NEW i \in 1..Len(msgs'), e = msgs'[i].by PROVE e \in Signers \/ e = d
      <4> USE <3>7
      <4>1. CASE i = Len(msgs) + 1 BY <3>4, <3>5, <4>1
      <4>2. CASE i # Len(msgs) + 1
        <5>1. i \in 1..Len(msgs) /\ e = msgs[i].by BY <3>3, <3>4, <4>2
        <5> QED BY <5>1 DEF Signers
      <4> QED BY <4>1, <4>2
    <3> QED BY <1>0, <3>1, <3>6, <3>7 DEF Signers
  <2>3. ASSUME NEW d \in Online, NEW i \in 1..Len(msgs), NewDeliveryReceipt(d, i)
        PROVE  e \in Signers \/ (e \in Devices /\ local[e] # 0)
    BY <1>0, <2>3 DEF NewDeliveryReceipt, Signers
  <2> QED
    BY <2>1, <2>2, <2>3 DEF Next, vars, Tick, SignPublicProfile, LinkDevice, Register, Resolve, Load, Restart,
     SendNext, OpenDirect, ForgetReplay, Accept, VerifyDeliveryReceipt
<1>5. Reloadable' BY <1>1, <1>3, <1>4 DEF Loadable, Reloadable, Signers
<1> QED BY <1>1, <1>2, <1>5 DEF Loadable

(* A device of the recipient that everybody knows can be loaded. *)
LEMMA InitLoadable == Init => Loadable
<1> SUFFICES ASSUME Init PROVE Loadable OBVIOUS
<1>1. \A a \in Accounts : Len(Members[a]) \in Nat BY Registered
<1>2. signed \in [Accounts -> Nat] BY <1>1 DEF Init
<1>3. ASSUME NEW d \in Devices, local[d] # 0 PROVE CanLoad(d)
  <2>1. d \in ToDevices /\ vault[d] = LinkedAt(d) BY <1>3 DEF Init
  <2>2. AccountOf(d) = Recipient /\ Recipient \in Accounts BY <2>1, TwoAccounts DEF AccountOf, Accounts
  <2>3. signed[Recipient] = Len(Members[Recipient]) BY <2>2 DEF Init
  <2>4. LinkedAt(d) \in Revisions(Recipient) /\ Lists(Recipient, LinkedAt(d), d) BY <2>1, Linked
  <2> QED BY <1>1, <2>1, <2>2, <2>3, <2>4 DEF CanLoad, VerifyPublicProfile, Revisions
<1>4. Reloadable BY DEF Init, Reloadable
<1> QED BY <1>2, <1>3, <1>4 DEF Loadable

(* Whoever has signed a message or a receipt comes back after a restart,   *)
(* whatever the vault refused before: Register returns no account that it  *)
(* did not store, and no later profile takes a record away.                *)
THEOREM SignersReload == Spec => []Reloadable
<1>1. MInv /\ Loadable /\ [Next]_vars => Loadable' BY LoadableStep DEF MInv
<1>2. Loadable => Reloadable BY DEF Loadable
<1> QED BY <1>1, <1>2, InitLoadable, MessagesInvariant, PTL DEF Spec
=============================================================================

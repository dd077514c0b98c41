------------------------------ MODULE Messages ------------------------------
(***************************************************************************)
(* Direct messages between two accounts on the strict path: accounts and   *)
(* their signed profiles (account/registration.go, account/profile.go),    *)
(* SendDirect and OpenDirect (message/pipeline.go), the message and its    *)
(* delivery receipt (message/message.go, message/receipt.go).              *)
(*                                                                         *)
(* The ratchet, the transport, the replay store, the profile directory and *)
(* the vault are interfaces: they are modelled by what their comments      *)
(* demand.  Signatures are sound, so a message is what a device of the     *)
(* sender made and a receipt what a device of the recipient made.  A       *)
(* message is named by its random ID, here its position in msgs.           *)
(***************************************************************************)
EXTENDS Integers, Sequences

CONSTANTS
  Sender, Recipient,   \* the two accounts
  Members,             \* Members[a][r]: the devices of revision r of a's profile, in order
  Retention,           \* lifetime the sender gives a message
  Skew,                \* the five minutes of every time check
  Online,              \* the devices of the recipient that are switched on
  Clocks,              \* how far the clocks of the two accounts may run ahead
  Faults,              \* which of "store", "send", "replay", "again", "crash" occur
  MaxFaults,           \* bound on the faults explored
  MaxTime,             \* bound on the time explored
  MaxMessages          \* bound on the calls of SendDirect

Accounts == {Sender, Recipient}

Revisions(a) == 1..Len(Members[a])

DevicesOf(a) == UNION {{Members[a][r][k] : k \in 1..Len(Members[a][r])} : r \in Revisions(a)}

(* ProfileContainsDevice, for revision r of a's profile. *)
Lists(a, r, d) == \E k \in 1..Len(Members[a][r]) : Members[a][r][k] = d

FromDevices == DevicesOf(Sender)

ToDevices == DevicesOf(Recipient)

Devices == FromDevices \cup ToDevices

AccountOf(d) == IF d \in FromDevices THEN Sender ELSE Recipient

Peer(d) == IF d \in FromDevices THEN Recipient ELSE Sender

(* The revision with which d joined its account, as its application linked it. *)
LinkedAt(d) == CHOOSE r \in Revisions(AccountOf(d)) :
                 Lists(AccountOf(d), r, d) /\ \A q \in 1..(r - 1) : ~Lists(AccountOf(d), q, d)

ASSUME TwoAccounts == Sender # Recipient /\ FromDevices \cap ToDevices = {}
ASSUME Registered == (\A a \in Accounts : Members[a] \in Seq(Seq(Devices))) /\ Len(Members[Sender][1]) = 1
ASSUME SomeOnline == Online \subseteq ToDevices
ASSUME Times == Retention \in Nat \ {0} /\ Skew \in Nat /\ MaxTime \in Nat /\ Clocks \subseteq [Accounts -> 0..Skew]
ASSUME Bounds == MaxFaults \in Nat /\ MaxMessages \in Nat

VARIABLES
  now,        \* the true time
  ahead,      \* how far the clocks of an account's devices run ahead
  signed,     \* the latest revision of each profile
  vault,      \* the revision in each device's protected record, 0 without one
  local,      \* the revision in its LocalAccount, 0 while there is none
  known,      \* the minimumRevision it keeps for its peer
  msgs,       \* the messages signed so far
  sending,    \* the SendDirect calls that are under way
  net,        \* ciphertexts the transport can deliver: <<message, device>>
  spent,      \* the messages whose ratchet keys a device has used
  opening,    \* the OpenDirect calls that have verified their message
  replays,    \* the replay store of each device
  inHand,     \* the VerifiedMessages a device's application holds
  receipts,   \* the delivery receipts made
  faults,
  accepted,   \* history: how often OpenDirect returned a message
  confirmed   \* history: the receipts that verified: <<message, device>>

accounts == <<signed, vault, local>>
arrivals == <<spent, opening, replays, inHand, accepted>>
proofs == <<receipts, confirmed>>
vars == <<now, ahead, accounts, known, msgs, sending, net, arrivals, proofs, faults>>

Ids == 1..MaxMessages

Clock(d) == now + ahead[AccountOf(d)]

(* The recipient has its account and all its devices already. *)
Init ==
  /\ now = 0 /\ ahead \in Clocks
  /\ signed = [a \in Accounts |-> IF a = Recipient THEN Len(Members[a]) ELSE 0]
  /\ vault = [d \in Devices |-> IF d \in ToDevices THEN LinkedAt(d) ELSE 0] /\ local = vault
  /\ known = [d \in Devices |-> 0]
  /\ msgs = <<>> /\ sending = {} /\ net = {}
  /\ spent = [d \in ToDevices |-> {}] /\ opening = spent /\ replays = spent /\ inHand = spent
  /\ receipts = {} /\ confirmed = {} /\ faults = 0
  /\ accepted = [d \in ToDevices |-> [i \in Ids |-> 0]]

Fault(f) == f \in Faults /\ faults < MaxFaults /\ faults' = faults + 1

NoFault == faults' = faults

(* Nothing depends on the time before the first message. *)
Tick ==
  /\ msgs # <<>> /\ now < MaxTime /\ now' = now + 1
  /\ UNCHANGED <<ahead, accounts, known, msgs, sending, net, arrivals, proofs, faults>>

-----------------------------------------------------------------------------
(* Accounts and profiles *)

(* Revision r of account a has been signed.  Its UpdatedAt is not ahead of *)
(* anyone's clock by more than Skew.                                       *)
VerifyPublicProfile(a, r) == r \in 1..signed[a]

(* Mutant: Register returns the account although the vault failed. *)
ReturnedAlways(stored) == TRUE

Returned(stored) == stored

(* Register makes the account with its first device.  The account exists   *)
(* for its peers once Register has returned it.                            *)
Register(d) ==
  /\ signed[AccountOf(d)] = 0 /\ Lists(AccountOf(d), 1, d)
  /\ \E stored \in BOOLEAN :
       /\ IF stored THEN NoFault ELSE Fault("store")
       /\ vault' = [vault EXCEPT ![d] = IF stored THEN 1 ELSE 0]
       /\ local' = [local EXCEPT ![d] = IF Returned(stored) THEN 1 ELSE 0]
       /\ signed' = [signed EXCEPT ![AccountOf(d)] = IF Returned(stored) THEN 1 ELSE 0]
  /\ UNCHANGED <<now, ahead, known, msgs, sending, net, arrivals, proofs>>

(* The next revision is signed on one of the devices. *)
SignPublicProfile(a) ==
  /\ signed[a] \in 1..(Len(Members[a]) - 1)
  /\ signed' = [signed EXCEPT ![a] = @ + 1]
  /\ UNCHANGED <<now, ahead, vault, local, known, msgs, sending, net, arrivals, proofs, faults>>

(* The application links a device that the latest revision brings in: it   *)
(* gives it a protected record, which Load then finds.                     *)
LinkDevice(d) ==
  /\ vault[d] = 0
  /\ \E r \in Revisions(AccountOf(d)) :
       /\ r = signed[AccountOf(d)] /\ Lists(AccountOf(d), r, d)
       /\ vault' = [vault EXCEPT ![d] = r]
  /\ UNCHANGED <<now, ahead, signed, local, known, msgs, sending, net, arrivals, proofs, faults>>

CanLoad(d) == vault[d] # 0 /\ VerifyPublicProfile(AccountOf(d), vault[d]) /\ Lists(AccountOf(d), vault[d], d)

Load(d) ==
  /\ local[d] = 0 /\ CanLoad(d)
  /\ local' = [local EXCEPT ![d] = vault[d]]
  /\ UNCHANGED <<now, ahead, signed, vault, known, msgs, sending, net, arrivals, proofs, faults>>

(* Mutant: any profile of the account will do. *)
NotRolledBackUnchecked(r, minimum) == TRUE

NotRolledBack(r, minimum) == r >= minimum

(* The device resolves its peer's profile, and the directory answers with  *)
(* revision r, any of those signed so far.                                 *)
ResolveVerified(d, r) == VerifyPublicProfile(Peer(d), r) /\ NotRolledBack(r, known[d])

(* The caller keeps the highest revision it has seen as the minimum of its *)
(* next lookup, in "locally protected state" that survives a restart.      *)
Pin(d, r) == known' = [known EXCEPT ![d] = IF r > @ THEN r ELSE @]

(* Besides the calls that use the profile, the recipient's application     *)
(* looks it up at any time.                                                *)
Resolve(d) ==
  /\ \E r \in Revisions(Peer(d)) : ResolveVerified(d, r) /\ Pin(d, r)
  /\ UNCHANGED <<now, ahead, accounts, msgs, sending, net, arrivals, proofs, faults>>

(* The process of a device ends: what only its memory held is gone. *)
Restart(d) ==
  /\ local[d] # 0 /\ Fault("crash")
  /\ local' = [local EXCEPT ![d] = 0]
  /\ sending' = {s \in sending : s.by # d}
  /\ opening' = [e \in ToDevices |-> IF e = d THEN {} ELSE opening[e]]
  /\ inHand' = [e \in ToDevices |-> IF e = d THEN {} ELSE inHand[e]]
  /\ UNCHANGED <<now, ahead, signed, vault, known, msgs, net, spent, replays, accepted, proofs>>

-----------------------------------------------------------------------------
(* Sending *)

NewDirect(d) == [by |-> d, revision |-> local[d], created |-> Clock(d), expires |-> Clock(d) + Retention]

(* SendDirect up to its loop over the devices of the recipient's profile;  *)
(* a device makes one call at a time.                                      *)
SendDirect(d) ==
  /\ local[d] # 0 /\ Len(msgs) < MaxMessages /\ \A s \in sending : s.by # d
  /\ msgs' = Append(msgs, NewDirect(d))
  /\ \E r \in Revisions(Recipient) :
       /\ ResolveVerified(d, r) /\ Pin(d, r)
       /\ sending' = sending \cup {[by |-> d, id |-> Len(msgs) + 1, to |-> Members[Recipient][r]]}
  /\ UNCHANGED <<now, ahead, accounts, net, arrivals, proofs, faults>>

(* One turn of the loop: Encrypt and Send.  After an error SendDirect      *)
(* returns, and the ciphertext may have been stored all the same.          *)
SendNext(s) ==
  /\ \E ok, stored \in BOOLEAN :
       /\ IF ok THEN NoFault /\ stored ELSE Fault("send")
       /\ net' = IF stored THEN net \cup {<<s.id, Head(s.to)>>} ELSE net
       /\ sending' = (sending \ {s}) \cup (IF ok /\ Len(s.to) > 1 THEN {[s EXCEPT !.to = Tail(@)]} ELSE {})
  /\ UNCHANGED <<now, ahead, accounts, known, msgs, arrivals, proofs>>

-----------------------------------------------------------------------------
(* Opening *)

(* validateDirectStructure *)
Timely(m, t) == m.created <= t + Skew /\ t <= m.expires + Skew

(* VerifyDirect with revision r of the sender's profile. *)
VerifyDirect(m, r, t) ==
  /\ Timely(m, t)
  /\ r >= m.revision /\ VerifyPublicProfile(Sender, r) /\ Lists(Sender, r, m.by)

(* OpenDirect up to VerifyDirect.  Decrypt uses up the key, so the message *)
(* is lost when the verification fails; a weak provider decrypts again.    *)
OpenDirect(d, i) ==
  /\ <<i, d>> \in net /\ local[d] # 0
  /\ IF i \in spent[d] THEN Fault("again") ELSE NoFault
  /\ spent' = [spent EXCEPT ![d] = @ \cup {i}]
  /\ \E r \in Revisions(Sender) :
       /\ ResolveVerified(d, r) /\ Pin(d, r)
       /\ opening' = [opening EXCEPT ![d] = @ \cup IF VerifyDirect(msgs[i], r, Clock(d))
                                                  THEN {[id |-> i, again |-> i \in spent[d]]} ELSE {}]
  /\ UNCHANGED <<now, ahead, accounts, msgs, sending, net, replays, inHand, accepted, proofs>>

(* Mutant: the entry is written without looking for one. *)
IsNewUnchecked(d, i) == TRUE

IsNew(d, i) == i \notin replays[d]

(* The rest of OpenDirect: Accept of the replay store, which is atomic.    *)
(* It may fail, and have written all the same.                             *)
Accept(d, o) ==
  /\ opening' = [opening EXCEPT ![d] = @ \ {o}]
  /\ \E ok, written \in BOOLEAN :
       /\ IF ok THEN NoFault /\ written = IsNew(d, o.id) ELSE Fault("replay")
       /\ replays' = [replays EXCEPT ![d] = IF written THEN @ \cup {o.id} ELSE @]
       /\ IF ok /\ written THEN /\ inHand' = [inHand EXCEPT ![d] = @ \cup {o.id}]
                                /\ accepted' = [accepted EXCEPT ![d][o.id] = @ + 1]
                           ELSE UNCHANGED <<inHand, accepted>>
  /\ UNCHANGED <<now, ahead, accounts, known, msgs, sending, net, spent, proofs>>

MayForget(m, t) == t >= m.expires

(* The replay store keeps entries "at least until expiresAt". *)
ForgetReplay(d, i) ==
  /\ i \in replays[d] /\ MayForget(msgs[i], Clock(d))
  /\ replays' = [replays EXCEPT ![d] = @ \ {i}]
  /\ UNCHANGED <<now, ahead, accounts, known, msgs, sending, net, spent, opening, inHand, accepted, proofs, faults>>

-----------------------------------------------------------------------------
(* Receipts *)

(* Mutant: only the beginning of the window is checked. *)
MayReceiptLate(m, t) == t >= m.created - Skew

MayReceipt(m, t) == t >= m.created - Skew /\ t <= m.expires + Skew

(* The application may ask for a receipt as long as it holds the message. *)
NewDeliveryReceipt(d, i) ==
  /\ i \in inHand[d] /\ local[d] # 0 /\ MayReceipt(msgs[i], Clock(d))
  /\ receipts' = receipts \cup {[id |-> i, by |-> d, revision |-> local[d], at |-> Clock(d)]}
  /\ UNCHANGED <<now, ahead, accounts, known, msgs, sending, net, arrivals, confirmed, faults>>

(* Mutant: the receipt is not compared with the message. *)
MatchesAny(c, i) == TRUE

Matches(c, i) == c.id = i

(* VerifyDeliveryReceipt of c for message i with revision r of the         *)
(* recipient's profile.                                                    *)
VerifyReceipt(c, i, r, t) ==
  /\ Matches(c, i) /\ r >= c.revision
  /\ c.at >= msgs[i].created - Skew /\ c.at <= msgs[i].expires + Skew /\ c.at <= t + Skew
  /\ VerifyPublicProfile(Recipient, r) /\ Lists(Recipient, r, c.by)

VerifyDeliveryReceipt(d, c, i) ==
  /\ local[d] # 0 /\ msgs[i].by = d
  /\ \E r \in Revisions(Recipient) : ResolveVerified(d, r) /\ Pin(d, r) /\ VerifyReceipt(c, i, r, Clock(d))
  /\ confirmed' = confirmed \cup {<<i, c.by>>}
  /\ UNCHANGED <<now, ahead, accounts, msgs, sending, net, arrivals, receipts, faults>>

-----------------------------------------------------------------------------
Next ==
  \/ Tick
  \/ \E a \in Accounts : SignPublicProfile(a)
  \/ \E d \in FromDevices : Register(d) \/ LinkDevice(d) \/ SendDirect(d)
  \/ \E d \in Online : Resolve(d)
  \/ \E d \in FromDevices \cup Online : Load(d) \/ Restart(d)
  \/ \E s \in sending : SendNext(s)
  \/ \E d \in Online :
       \/ \E i \in 1..Len(msgs) : OpenDirect(d, i) \/ ForgetReplay(d, i) \/ NewDeliveryReceipt(d, i)
       \/ \E o \in opening[d] : Accept(d, o)
  \/ \E d \in FromDevices, c \in receipts, i \in 1..Len(msgs) : VerifyDeliveryReceipt(d, c, i)

Spec == Init /\ [][Next]_vars

-----------------------------------------------------------------------------
(* A device returns a message to its application a second time only when   *)
(* the message has expired, even if the ratchet decrypts it again: until   *)
(* then the replay store has its entry, whatever calls overlap and         *)
(* whenever the process restarts.                                          *)
OnceUntilExpired ==
  [][\A d \in Online, i \in Ids :
       accepted[d][i] > 0 /\ accepted'[d][i] > accepted[d][i] => Clock(d) >= msgs[i].expires]_vars

(* A message passes only if its device is in the profile its recipient had *)
(* pinned when the call began, or in a later one: a device the recipient   *)
(* has seen revoked stays revoked, although the directory still has the    *)
(* old profile.                                                            *)
RevokedRefused ==
  [][\A d \in Online : \A o \in opening'[d] \ opening[d] :
       \E r \in 1..signed[Sender] : r >= known[d] /\ Lists(Sender, r, msgs[o.id].by)]_vars

(* A receipt that verifies for a message comes from a device that accepted *)
(* this very message: a retried SendDirect makes another message, whose    *)
(* receipts say nothing about the first.                                   *)
ReceiptMeansAccepted == \A p \in confirmed : accepted[p[2]][p[1]] > 0

(* A receipt, once made, verifies at any later time with any profile that  *)
(* lists its device and is no older than the one it names, although the    *)
(* clocks of the two sides differ.                                         *)
ReceiptsVerify ==
  \A c \in receipts : \A r \in c.revision..signed[Recipient] :
    Lists(Recipient, r, c.by) => \A d \in FromDevices : VerifyReceipt(c, c.id, r, Clock(d))

(* A device that has signed a message or a receipt can be loaded again     *)
(* after a restart: Register hands out no account the vault does not hold. *)
Reloadable == \A d \in {m.by : m \in {msgs[i] : i \in 1..Len(msgs)}} \cup {c.by : c \in receipts} : CanLoad(d)
=============================================================================

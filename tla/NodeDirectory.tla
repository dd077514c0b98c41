----------------------------- MODULE NodeDirectory -----------------------------
(***************************************************************************)
(* The node directory (nodedir/registry.go, nodedir/agent.go): every node  *)
(* runs an agent that renews its signed lease, has it attested by the      *)
(* pinned seeds, and merges the seeds' snapshots into its registry.        *)
(*                                                                         *)
(* An announcement is identified by its node and its sequence; signatures  *)
(* are perfect.  Clocks agree, so the checks against MaxClockSkew do not   *)
(* appear.  SyncOnce is cut where it talks to a seed; requests and answers *)
(* can be lost.                                                            *)
(***************************************************************************)
EXTENDS Naturals, Sequences, FiniteSets

CONSTANTS
  Nodes,
  SeedOrder,         \* Policy.Seeds: nodes, in the order SyncOnce visits them
  AuthorityQuorum,
  MaxNodes,          \* Policy.MaxNodes of each agent
  ClientMaxNodes,    \* DirectoryBootstrap.MaxNodes of a client
  MinSeedResponses,
  Leases,            \* the leases each agent may be started with
  Syncing,           \* the agents whose interval for SyncOnce falls into the time explored
  Failures,          \* subset of {"lost", "restart"}
  MaxFailures,       \* bound on the failures that happen
  MaxTime            \* bound on the time explored

Seeds == {SeedOrder[i] : i \in 1..Len(SeedOrder)}

ASSUME SeedsAreNodes == SeedOrder \in Seq(Nodes) /\ IsFiniteSet(Nodes)
ASSUME QuorumOfSeeds == AuthorityQuorum \in 1..Cardinality(Seeds)
ASSUME DirectoryBounds == MaxNodes \in [Nodes -> Nat \ {0}] /\ MaxTime \in Nat \ {0} /\ MaxFailures \in Nat
ASSUME BootstrapBounds == ClientMaxNodes \in Nat \ {0} /\ MinSeedResponses \in 1..Cardinality(Seeds)
ASSUME LeasesPositive == Leases \in [Nodes -> SUBSET (Nat \ {0}) \ {{}}]

VARIABLES
  now,
  registry,    \* Registry.records of each agent
  self,        \* Agent.self
  sequence,    \* Agent.sequence
  lease,       \* Agent.lease
  phase,       \* where SyncOnce is, which seed is next, the time it was given
  failures,    \* the number of failures so far
  attested,    \* history: the attestations signed
  newest,      \* history: the highest sequence each agent has held of each node
  until        \* history: when that lease ends

directoryVars == <<now, registry, self, sequence, lease, phase, failures, attested, newest, until>>

NoRecord == [seq |-> 0, exp |-> 0, att |-> {}]
Empty == [n \in Nodes |-> NoRecord]
Idle == [at |-> "idle", seed |-> 1, now |-> 0]

Known(records) == {n \in Nodes : records[n].seq # 0}

Failure(kind) == kind \in Failures /\ failures < MaxFailures /\ failures' = failures + 1

(* A set of records with one entry. *)
Only(n, record) == [Empty EXCEPT ![n] = record]

-----------------------------------------------------------------------------
(* Registry *)

(* Mutant: one attestation more than the quorum. *)
IsAdmittedAbove(n, record, t) ==
  record.exp > t /\ (n \in Seeds \/ Cardinality(record.att) > AuthorityQuorum)

(* VerifyRecord: the lease runs, and the node is pinned or has its quorum. *)
IsAdmitted(n, record, t) ==
  /\ record.exp > t
  /\ n \in Seeds \/ Cardinality(record.att) >= AuthorityQuorum

(* Mutant: a lower sequence is merged as well. *)
IsRollbackNever(held, record) == FALSE

IsRollback(held, record) == record.seq < held.seq

(* Mutant: off by one at the limit. *)
HasRoomOffByOne(held, max, records) ==
  LET all == Known(held) \cup Known(records) IN all = Known(held) \/ Cardinality(all) <= max + 1

HasRoom(held, max, records) ==
  LET all == Known(held) \cup Known(records) IN all = Known(held) \/ Cardinality(all) <= max

(* mergeVerifiedRecord, for all the records or for none of them. *)
CanMerge(held, max, records) ==
  /\ \A n \in Known(records) : ~IsRollback(held[n], records[n])
  /\ HasRoom(held, max, records)

(* Mutant: the attestations held are dropped. *)
MergeRecordReplacing(held, record) == record

MergeRecord(held, record) ==
  IF record.seq = held.seq THEN [record EXCEPT !.att = @ \cup held.att] ELSE record

Merged(held, records) ==
  [n \in Nodes |-> IF n \in Known(records) THEN MergeRecord(held[n], records[n]) ELSE held[n]]

(* Merge and MergeSnapshot verify everything before they change anything. *)
MayMerge(held, max, records, t) ==
  /\ \A n \in Known(records) : IsAdmitted(n, records[n], t)
  /\ CanMerge(held, max, records)

Accepts(a, records, t) == MayMerge(registry[a], MaxNodes[a], records, t)

Higher(x, y) == IF x < y THEN y ELSE x

(* The registry of agent a after a call of Merge or MergeSnapshot. *)
Merge(a, records, t) ==
  /\ registry' = [registry EXCEPT ![a] = IF Accepts(a, records, t) THEN Merged(@, records) ELSE @]
  /\ newest' = [newest EXCEPT ![a] =
       IF Accepts(a, records, t) THEN [n \in Nodes |-> Higher(@[n], records[n].seq)] ELSE @]
  /\ until' = [until EXCEPT ![a] =
       IF Accepts(a, records, t)
         THEN [n \in Nodes |-> IF n \in Known(records) /\ newest[a][n] <= records[n].seq THEN records[n].exp ELSE @[n]]
         ELSE @]

Active(a, t) == [n \in Nodes |-> IF registry[a][n].exp > t THEN registry[a][n] ELSE NoRecord]

-----------------------------------------------------------------------------
(* Bootstrap of a client, which changes nothing in the directory *)

(* The orders in which the answers of some of the seeds can arrive. *)
Arrivals == {o \in UNION {[1..k -> Seeds] : k \in 0..Cardinality(Seeds)} :
               \A i, j \in DOMAIN o : o[i] = o[j] => i = j}

(* The client's new registry after the answers: a view that MergeSnapshot  *)
(* refuses counts as a failure of its seed.                                *)
Reconciled(arrival) ==
  LET after[i \in 0..Len(arrival)] ==
        IF i = 0 THEN [records |-> Empty, merged |-> {}]
        ELSE LET before == after[i - 1]
                 view == Active(arrival[i], now)
             IN IF MayMerge(before.records, ClientMaxNodes, view, now)
                  THEN [records |-> Merged(before.records, view), merged |-> before.merged \cup {arrival[i]}]
                  ELSE before
  IN after[Len(arrival)]

(* What FetchNodeDirectory returns; without enough views it is an error. *)
FetchNodeDirectory(arrival) ==
  LET client == Reconciled(arrival)
  IN [ok |-> Cardinality(client.merged) >= MinSeedResponses,
      records |-> client.records, merged |-> client.merged]

-----------------------------------------------------------------------------
(* Agent *)

NeedsRenewal(a) == self[a].exp <= now + (lease[a] \div 2)

(* Mutant: the attestations of the old lease are kept. *)
RenewedKeeping(a, seq, term) == [seq |-> seq, exp |-> now + term, att |-> self[a].att]

Renewed(a, seq, term) == [seq |-> seq, exp |-> now + term, att |-> {}]

(* renew: the sequence is the time, or one more than the last. *)
Renew(a, seq, term) ==
  /\ sequence' = [sequence EXCEPT ![a] = seq]
  /\ self' = [self EXCEPT ![a] = Renewed(a, seq, term)]
  /\ IF a \in Seeds THEN Merge(a, Only(a, Renewed(a, seq, term)), now) ELSE UNCHANGED <<registry, newest, until>>

Step(a, at, seed) == phase' = [phase EXCEPT ![a] = [at |-> at, seed |-> seed, now |-> @.now]]

(* The step after seed i, which is the first of the next phase after the last seed. *)
StepOn(a, at, next) ==
  IF phase[a].seed < Len(SeedOrder) THEN Step(a, at, phase[a].seed + 1) ELSE Step(a, next, 1)

(* When renew cannot merge a seed's own record, SyncOnce ends. *)
SyncStart(a) ==
  /\ phase[a].at = "idle" /\ a \in Syncing
  /\ IF NeedsRenewal(a)
       THEN LET seq == Higher(now, sequence[a] + 1) IN
            /\ Renew(a, seq, lease[a])
            /\ phase' = IF a \in Seeds /\ ~Accepts(a, Only(a, Renewed(a, seq, lease[a])), now) THEN phase
                        ELSE [phase EXCEPT ![a] = [at |-> "register", seed |-> 1, now |-> now]]
       ELSE /\ phase' = [phase EXCEPT ![a] = [at |-> "register", seed |-> 1, now |-> now]]
            /\ UNCHANGED <<sequence, self, registry, newest, until>>
  /\ UNCHANGED <<now, lease, failures, attested>>

(* AcceptRegistration at seed s: attest, and merge once there is a quorum. *)
Registration(s, a) == [self[a] EXCEPT !.att = @ \cup {s}]

RegistrationAnswered(s, a) ==
  /\ self[a].exp > now
  /\ IsAdmitted(a, Registration(s, a), now) => Accepts(s, Only(a, Registration(s, a)), now)

AcceptRegistration(s, a) ==
  /\ self[a].exp > now
  /\ attested' = attested \cup {<<s, a, self[a].seq>>}
  /\ Merge(s, Only(a, Registration(s, a)), now)

(* One round trip of SyncOnce to a seed; an agent does not visit itself.   *)
Register(a) ==
  LET s == SeedOrder[phase[a].seed] IN
  /\ phase[a].at = "register" /\ s # a
  /\ AcceptRegistration(s, a)
  /\ self' = [self EXCEPT ![a] =
       IF RegistrationAnswered(s, a) /\ Registration(s, a).exp > phase[a].now THEN Registration(s, a) ELSE @]
  /\ StepOn(a, "register", "merge")
  /\ UNCHANGED <<now, sequence, lease, failures>>

(* The seed is the agent itself or refuses the lease; or the request is    *)
(* lost.                                                                   *)
RegisterSkipped(a) ==
  LET s == SeedOrder[phase[a].seed] IN
  /\ phase[a].at = "register"
  /\ \/ (s = a \/ self[a].exp <= now) /\ UNCHANGED failures
     \/ Failure("lost")
  /\ StepOn(a, "register", "merge")
  /\ UNCHANGED <<now, registry, self, sequence, lease, attested, newest, until>>

(* The seed has done its part, but the answer is lost. *)
RegisterUnanswered(a) ==
  LET s == SeedOrder[phase[a].seed] IN
  /\ phase[a].at = "register" /\ s # a /\ Failure("lost")
  /\ AcceptRegistration(s, a)
  /\ StepOn(a, "register", "merge")
  /\ UNCHANGED <<now, self, sequence, lease>>

MergeSelf(a) ==
  /\ phase[a].at = "merge"
  /\ Merge(a, Only(a, self[a]), phase[a].now)
  /\ Step(a, "pull", 1)
  /\ UNCHANGED <<now, self, sequence, lease, failures, attested>>

(* FetchSnapshot and MergeSnapshot. *)
Pull(a) ==
  /\ phase[a].at = "pull"
  /\ Merge(a, Active(SeedOrder[phase[a].seed], now), phase[a].now)
  /\ StepOn(a, "pull", "sweep")
  /\ UNCHANGED <<now, self, sequence, lease, failures, attested>>

PullLost(a) ==
  /\ phase[a].at = "pull" /\ Failure("lost")
  /\ StepOn(a, "pull", "sweep")
  /\ UNCHANGED <<now, registry, self, sequence, lease, attested, newest, until>>

RegistrySweep(a) ==
  /\ phase[a].at = "sweep"
  /\ registry' = [registry EXCEPT ![a] = Active(a, phase[a].now)]
  /\ phase' = [phase EXCEPT ![a] = Idle]
  /\ UNCHANGED <<now, self, sequence, lease, failures, attested, newest, until>>

(* The process starts again: NewAgent, with nothing but its key.  The new  *)
(* process starts at a later millisecond than its last announcement.       *)
Restart(a) ==
  /\ Failure("restart") /\ now > sequence[a]
  /\ \E term \in Leases[a] :
       LET mine == Renewed(a, now, term) IN
       /\ lease' = [lease EXCEPT ![a] = term]
       /\ sequence' = [sequence EXCEPT ![a] = now]
       /\ self' = [self EXCEPT ![a] = mine]
       /\ registry' = [registry EXCEPT ![a] = IF a \in Seeds THEN Only(a, mine) ELSE Empty]
       /\ newest' = [newest EXCEPT ![a] = [n \in Nodes |-> registry'[a][n].seq]]
       /\ until' = [until EXCEPT ![a] = [n \in Nodes |-> registry'[a][n].exp]]
  /\ phase' = [phase EXCEPT ![a] = Idle]
  /\ UNCHANGED <<now, attested>>

Tick == now < MaxTime /\ now' = now + 1
        /\ UNCHANGED <<registry, self, sequence, lease, phase, failures, attested, newest, until>>

(* All agents start at time 1. *)
DirectoryInit ==
  /\ now = 1 /\ failures = 0 /\ attested = {}
  /\ lease \in {l \in [Nodes -> UNION {Leases[a] : a \in Nodes}] : \A a \in Nodes : l[a] \in Leases[a]}
  /\ sequence = [a \in Nodes |-> 1]
  /\ self = [a \in Nodes |-> [seq |-> 1, exp |-> 1 + lease[a], att |-> {}]]
  /\ registry = [a \in Nodes |-> IF a \in Seeds THEN Only(a, self[a]) ELSE Empty]
  /\ newest = [a \in Nodes |-> [n \in Nodes |-> registry[a][n].seq]]
  /\ until = [a \in Nodes |-> [n \in Nodes |-> registry[a][n].exp]]
  /\ phase = [a \in Nodes |-> Idle]

Sync(a) ==
  \/ SyncStart(a) \/ Register(a) \/ RegisterSkipped(a) \/ RegisterUnanswered(a)
  \/ MergeSelf(a) \/ Pull(a) \/ PullLost(a) \/ RegistrySweep(a)

DirectoryNext == Tick \/ \E a \in Nodes : Sync(a) \/ Restart(a)

DirectorySpec == DirectoryInit /\ [][DirectoryNext]_directoryVars

(* Run calls SyncOnce at every interval, and every request ends, in an     *)
(* answer or in a timeout.                                                 *)
FairSpec == DirectorySpec /\ \A a \in Syncing : WF_directoryVars(Sync(a))

-----------------------------------------------------------------------------
(* Properties *)

Records == [seq : 0..MaxTime, exp : Nat, att : SUBSET Seeds]

(* Type correctness, and registries within their bound. *)
TypeOK ==
  /\ now \in 1..MaxTime
  /\ \A a, n \in Nodes : registry[a][n] \in Records /\ self[a] \in Records
  /\ \A a \in Nodes : Cardinality(Known(registry[a])) <= MaxNodes[a]
  /\ \A a \in Nodes : phase[a].at \in {"idle", "register", "merge", "pull", "sweep"}

(* A node that is not pinned is in a registry only with a quorum of seeds  *)
(* that each attested this very lease: attestations are never carried over *)
(* from another lease, by renewal, merging, loss or restart.               *)
AdmittedByQuorum ==
  \A a, n \in Nodes : registry[a][n].seq # 0 =>
    /\ \A s \in registry[a][n].att : <<s, n, registry[a][n].seq>> \in attested
    /\ n \in Seeds \/ Cardinality(registry[a][n].att) >= AuthorityQuorum

(* While its process runs, an agent keeps the newest lease it has had of a *)
(* node for as long as this lease runs: no older lease replaces it and no  *)
(* sweep removes it, whatever order records travel in, and although a      *)
(* restarted node may have signed leases of different lengths.             *)
RunningLeaseKept ==
  \A a, n \in Nodes : until[a][n] > now => registry[a][n].seq = newest[a][n]

(* The comment of Merge: "The monotonically increasing sequence prevents   *)
(* rollback to an older lease for the same node."  So, while its process   *)
(* runs, an agent never goes back to an older lease of a node.             *)
NoRollback == \A a, n \in Nodes : registry[a][n].seq # 0 => registry[a][n].seq = newest[a][n]

(* FetchNodeDirectory returns what its comment says, "the union of all     *)
(* successfully verified views", in whatever order the answers came in: of *)
(* every node the newest lease that a merged view has, with all that these *)
(* views know of its attestations.  A seed is counted as failed only if    *)
(* its view is behind one that came before, or too large in union with it. *)
UnionOfViews ==
  LET views == [s \in Seeds |-> Active(s, now)] IN
  \A arrival \in Arrivals :
    LET result == FetchNodeDirectory(arrival)
        had == [n \in Nodes |-> {views[s][n] : s \in result.merged}]
        news == [n \in Nodes |-> {v \in had[n] : \A w \in had[n] : w.seq <= v.seq}]
    IN /\ result.ok => \A n \in Nodes :
            /\ \E v \in news[n] : result.records[n].seq = v.seq /\ result.records[n].exp = v.exp
            /\ result.records[n].att = UNION {v.att : v \in news[n]}
       /\ \A i \in DOMAIN arrival : arrival[i] \notin result.merged =>
            \/ \E n \in Known(views[arrival[i]]) : \E v \in had[n] : v.seq > views[arrival[i]][n].seq
            \/ Cardinality(UNION {Known(views[s]) : s \in result.merged \cup {arrival[i]}}) > ClientMaxNodes

(* Once time stands still, whoever has room for all knows the last lease   *)
(* of every node that still has one, whatever was lost, restarted, expired *)
(* or refused before.                                                      *)
Converges ==
  <>[](\A a, n \in Nodes : (MaxNodes[a] >= Cardinality(Nodes) /\ self[n].exp > now)
                             => registry[a][n].seq = self[n].seq)
=============================================================================

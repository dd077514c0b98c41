# Propagare / ENIG: a TLA+ model of the core

The repository is a Go library and node program for end-to-end encrypted
messaging over untrusted, replicated storage nodes. This directory holds TLA+
modules translated from that code, the TLC configurations that check them on
small instances, and TLAPS proofs of the properties that matter most.

`PROJECT.json` maps every definition to the source lines it stands for, and
lists the runs, the hazards, the findings and the theorems.

## 1. The system

| Part | Source | State | Operations that change it |
|---|---|---|---|
| Mix scheduler | `mixtransport/scheduler.go` | queue, reservations, slot counter, running, terminal error, result channels | `Enqueue`, `Run`, `dispatchSlot`, `failQueued`, `Ticket.Wait` |
| Node disk store | `node/store.go`, `node/keys.go` | item index, per-route usage, used bytes, files, lock | `NewDiskStore`, `Put`, `Delete`, `Sweep`, `Close` |
| Node server | `node/server.go`, `node/config.go` | request slots, directory rate limit | store, delete, fetch, proof and directory handlers |
| Encrypted client store | `client/store.go` | record metadata, charge total, limit, files | open, `Put`, `Delete`, `PruneTo`, `SetLimit`, `Close` |
| Client core | `client/core.go` | local delivery records, reputation | `StoreReplicated`, `Fetch`, `Audit`, `AuditAndRepair`, `Delete`, `DeleteItemEverywhere` |
| Reputation | `client/reputation.go` | failures, exclusion time per node | `Success`, `Failure`, `Exclude` |
| Node directory | `nodedir/*.go`, `client/directory.go` | record per node, own lease | `Merge`, `MergeSnapshot`, `Sweep`, `renew`, `AcceptRegistration`, `SyncOnce`, `FetchNodeDirectory` |
| Calls | `call/call.go` | seen call ids, active count, session | `Start`, `Accept`, `ApplyAnswer`, `Close`, duration timer |
| Groups | `group/state.go` | epoch, hash, member roles | `New`, `Apply` (six actions) |
| Messages | `message/*.go` | replay store, ratchet (both external) | `SendDirect`, `OpenDirect`, `NewDeliveryReceipt`, `VerifyDeliveryReceipt` |
| Media | `media/file.go` | stored chunks | `Store`, `Retrieve` |
| Accounts | `account/*.go` | vault, signed profile, pinned revisions | `Register`, `Load`, `SignPublicProfile`, `ResolveVerified` |
| Transport | `transportauth`, `client/http_node.go` | cached certificate | pinned TLS, JSON requests |
| Cryptography, ids, encodings | `pqcrypto`, `identity`, `protocol` | none | pure functions |

How they interact: a client encrypts and signs a message, asks several nodes
for their parameters, solves one proof of work for the largest group that
agrees on an epoch, and stores the same ciphertext on them. Each node answers
with a signed receipt. The receipts are kept in the encrypted client store and
drive audits, repair and deletion. Nodes find each other, and clients find
nodes, through a gossiped directory of signed, attested leases. The mix
scheduler is the constant-rate path that will carry commands to the nodes.
Calls and groups use their own signed messages on top.

What makes this hard: critical sections that are split for I/O (`Enqueue`, the
node handlers, `Accept`); files that are renamed before the directory is
synchronised; memory and disk that are updated one after the other; quorums
with lost answers and retries; leases whose holders are forgotten by a sweep;
time read in one place and compared in another; several counters kept in step
by hand.

What correctness means here, part by part: a command handed to the mix
scheduler is answered exactly once and in order; a node never loses an item it
acknowledged nor revives one it deleted, and its counters are exact; the client
store keeps protected records and its limits; a group has one owner, and
replicas that saw the same number of actions agree; an endpoint does not take
an offer twice or leak a place; the directory admits a node only with a quorum
for its current lease and keeps a lease that runs; the client pays for the work of a
quorum, its copies last, and it keeps the record of an item while a node it
names holds it; a stored file stays complete until somebody has had all of it;
a device accepts a message once, from a device that its sender has not revoked,
and a receipt says what happened.

## 2. Modules

Each module is named after its component and keeps the names of the code. A
critical section is one step unless something (another goroutine, a crash, a
failing fsync) can get in between. `MC_*` modules only hold values for
constants, and say where it matters that the instance means what it should:
bytes are counted as the number of units that a set of records or chunks has
(`Charge`, `Plaintext`), so that the proofs can use facts about finite sets, and
`ChargeAddsUp` and `LengthsAddUp` let TLC compare this with the sum.

**MixScheduler, MixTickets** (`mixtransport`). `Enqueue` is two critical
sections, reserve and append, with the preparation of the packet between them;
`Run` is a loop of `select`, `coverCommand`, the slot decision and the send;
`failQueued` answers what is left. State: queue, reservations, slot counter,
terminal error, the result of each ticket. `MixTickets` is the abstract service:
tickets are issued in order, answered once and in order, and all of them once
the service has started. `MixScheduler` implements it.

**NodeStore** (`node/store.go`, `node/keys.go`, the store and delete handlers,
the sweep ticker). State: the index with its four maps, the directory with the
entries that no fsync has covered (`dirty`), the request slots. Faults: failed
writes, removes and fsyncs, a killed process, a power loss that keeps any subset
of `dirty`.

**ClientStore** (`client/store.go`). Records with a policy and an expiry, the
prune order, limits, opening a directory record by record, and the same faults.

**GroupRules, GroupState, GroupReplicas** (`group/state.go`). `GroupRules` says
what each of the six kinds of actions does to the roles and who may do it;
`GroupState` is `Apply` on one copy, the abstract specification. `GroupReplicas`
has many copies and a network that repeats, reorders and delays signed actions; a
hash of a state is the state. Each replica implements `GroupState`.

**CallEndpoint** (`call/call.go`). Slots are goroutines in `Start`, `Accept` or
a session. `acquire` and `release` are steps; verifying, setting up and closing
a connection lie between them. Signals are never removed, so they arrive late
and repeatedly. Each endpoint's clock may be ahead.

**NodeDirectory** (`nodedir`, `client/directory.go`). Every agent has a
registry, a lease and a round of `SyncOnce` that registers with the seeds one by
one, merges itself, pulls the snapshots and sweeps. A pull is one step, the answer
of the seed and its merge together. A record is a sequence, an
expiry and the seeds that attested it. Requests and answers get lost; agents
restart. `FetchNodeDirectory`, which changes nothing in the directory, is a
function of its state and of the order in which the seeds' answers arrive, so
that it can be asked in every state.

**ClientCore** (`client/core.go`, `client/reputation.go`, `client/http_node.go`).
One item on several nodes: write with parameters, selection, primaries and
replacements; audit and repair; both deletions; the record in the client store,
whose update may fail before or after it was written; a context that is cancelled
while the work is solved; and the scores, which a concurrent fetch shares. The client store is used as
`ClientStore` specifies it (a put happens or fails as a whole), and a node as
`NodeStore` does (an acknowledged item is there; a deleted one is gone).

**FileTransfer** (`media/file.go`, with `Core.Fetch`, `FetchLimited` and
`handleFetch`). One file: `Store` chunk by chunk, repeated by the application
after an error under the same route tags; `Retrieve` by several devices in
batches, node by node, with the limits of the answer on both sides; decryption
only of a complete file; deletion chunk by chunk and node by node (what `Retrieve`
reports about the deletions is left out, since nothing depends on it). An item is a
chunk and the attempt that made it. Writing one item is taken from `ClientCore`:
it reaches its quorum or it fails with some copies left.

**Messages** (`message`, `account`). Two accounts, one of which replaces its
device: registration and reload from the vault, profiles with revisions and the
pin a recipient keeps, sending device by device, and opening in two steps, since
`Decrypt` uses up the ratchet's key before `Accept` of the replay store is asked;
receipts and their verification on another clock. What the application does is
marked external: it links a new device by giving it a vault record (`LinkDevice`)
and keeps the highest revision it has seen (`Pin`), which `ResolveVerified` is
given as its minimum and never writes itself. The interfaces (ratchet,
transport, replay store, directory, vault) do what their comments demand and no
more: the replay store may forget an entry once its message has expired.

## 3. Runs

| Run | Shows |
|---|---|
| `mix` | three concurrent `Enqueue` calls for two places: the limit holds, polls keep their cadence, an ended scheduler stays ended, every ticket is answered, also behind a `Run` that finishes; the scheduler implements `MixTickets` (answers once and in order) |
| `node_faults` | under all faults: exact accounting, every indexed item has its file, deleted items stay deleted; while every fsync was completed, an acknowledged item survives power losses |
| `node_put_sync` | finding 1 |
| `client_store` | under all faults: limits, exact byte count, protected records kept; while every fsync was completed, index and directory agree, the store reopens, prunes take only what they must |
| `group` | two replicas, four people, three places, four actions: every state is one that `validState` accepts (one owner, within the limit), roles change only downwards, replicas agree unless the group was forked, never mix branches, catch up, and implement `GroupState` |
| `call` | the active count is exact and within its limit, every place is freed, an offer is taken twice only when it has expired |
| `directory` | quorum for exactly this lease, bounded registries, a lease that runs is never replaced by an older one; a client gets the union of the views it merged, in any order of answers; everybody with room learns every live node's last lease |
| `directory_rollback` | finding 3 |
| `core` | the work solved is the least that satisfies a quorum; a write makes no more than `Replicas` copies, and fewer only after trying every node; a promised quorum of copies lasts until a deletion; the record goes only when none of its nodes holds the item; an exclusion lasts its time |
| `files` | a stored file is never lost unread; a `Retrieve` fails only when a quorum is missing or another device has opened the file |
| `file_retry` | finding 2 |
| `messages` | no message is accepted twice before it expires; a device that was seen revoked is refused; receipts verify in spite of the clocks, and mean acceptance; a device that signed anything can be loaded again |

Bounds. Limits are met exactly and exceeded by one (`MaxQueue` 2 with three calls, three items for
a capacity of three units, three group places for four people, one call place
for two goroutines, two registry places of the ordinary node for three nodes, an
answer with room for a chunk stored twice but not three times). Two limits of the
node store, `MaxStoredItems` and `MaxItemsPerRoute`, never bind in its run, where
the bytes run out first; that they hold is shown by the theorem `AccountsBalance`
only.
Times are multiples of the shortest interval that matters: within `MaxTime` 2 a
lease of 2 is renewed while the old one still runs, and a lease of 1 expires and
is swept; the lifetime 2 and skew 1 of a signal end within `MaxTime` 3, and so
do the retention 1 and skew 1 of a message within 2. `SlotWrap` 2 makes the slot
counter wrap after one poll period. Four nodes with two epochs and two
difficulties give every tie in the choice of a group. `MaxFaults` (`MaxFailures`
in `directory`) limits how
many messages are lost, nodes fail or processes stop in one behaviour: two in
`files`, where a retry and a failing retrieval have to come together, one in
`directory`, `core` and `messages`. In `core` an exclusion needs no fault of the
budget, since wrong proofs and the 404 of a repeated deletion are failures as
well. `MaxSlips` allows the client store one fsync that fails or is cut off by a
kill; the properties that need every fsync say so (`slips = 0`, `~slipped`),
because a file whose write was reported as failed may then be on disk. `Syncing`
names the agents that run rounds: one seed and one ordinary node, the other seed
answers. `Online` names the recipient's devices that are switched on. `Uses`
names what the application calls. Symmetry is used over the handlers of
`NodeStore` and the devices of `FileTransfer`, whose runs check invariants only.

Fairness. `MixScheduler`: `Run` goes on once started (its context bounds every
provider and sink call); callers need not. `CallEndpoint`: time passes, timers
ring, set-up ends in success or failure. `NodeDirectory`: `Run` repeats
`SyncOnce` and every request ends by its timeout. `GroupReplicas`: the transport,
which is outside the package, delivers an action some day. Nothing is assumed of
users, clients or operators, so `ClientCore`, `FileTransfer` and `Messages`,
where every operation is a call that may fail and need not be repeated, have no
liveness of their own.

Deadlock is checked where the system never stops: in the call and directory
runs. Elsewhere it may: the scheduler ends, a group reaches the bound on its
actions, a store is closed, a file has been retrieved.

## 4. Findings

1. `node_put_sync`: `Put` returns success for an item it already holds without
   synchronising the directory. If the process was killed between the rename and
   the fsync, the restarted node indexes the file, and the client's retry is
   acknowledged although the entry may still be lost.
2. `file_retry`: `Retrieve` sizes its batches for one item per route tag. A
   `Store` repeated after a lost receipt leaves a second item under the same
   tags; a batch that filled the answer no longer fits, and the file cannot be
   retrieved although it is stored and the architecture document says that
   batches keep to the limit.
3. `directory_rollback`: `Sweep` forgets the sequence together with the record.
   When a node is restarted with a shorter lease, a registry that has swept the
   newer lease accepts the older and longer one again, although the comment at
   `nodedir/registry.go:41` says that the sequence prevents this. It takes a seed
   that never saw the newer lease. While the newest lease runs it stays
   (`RunningLeaseKept`), and nothing goes back when every node keeps its lease
   length (theorem `NeverRollsBack`).

Observations that no run checks; they follow from the definitions named.

- Directory. One record older than the one held makes `MergeSnapshot` refuse the
  whole snapshot (`CanMerge`), which happens without any fault to a node that has
  just renewed its lease; `Converges` shows that later rounds repair it. Whether a
  client reaches `MinSeedResponses` therefore depends on the order of the answers.
- Client core. Only a stored item and a proof reset the count of failures, so
  three failures exclude a node that answered fetches in between; SECURITY.md:231
  speaks of three consecutive ones. A repair replaces the stored receipts, so a
  node that was unreachable only for a moment keeps the item and is no longer
  named, and `Delete` does not reach it. An answer that is too large counts as a
  failure of its node.
- Files. `Retrieve` returns the plaintext after the deletions, so a stop in
  between loses the file (`NeverLostUnread` ends when a device has had all
  chunks, not when its user has). The duplicates of a repeated `Store` are never
  deleted, since only the latest item of a chunk is kept and deleted (`Latest`).
- Messages. A message is accepted until five minutes after it expires, while the
  comment at `message/pipeline.go:69` lets a replay store forget it when it
  expires: in those minutes only the ratchet keeps a replay out, which is why
  `OnceUntilExpired` ends with the expiry. A message that meets an out-of-date
  profile, or a stop between `Decrypt` and `Accept`, is lost, since the ratchet's
  key is used up. A repeated `SendDirect` sends the text under a new ID.

## 5. Proofs

The theorems hold for every value of the constants that satisfies the named
assumptions, not only for the instances above.

- `MixSchedulerProofs`. The inductive invariant `IInv` joins the types,
  `CapacityAccounted`, `TicketsAccounted`, `PhasesAgree` (what each phase of
  `Run` says about the queue and the error) and `ResultsAgree` (a ticket is an
  accepted request; an answered one has a result). The two strengthenings are
  needed because that nothing is stranded depends on the queue staying empty
  after `failQueued`, hence on `Enqueue` refusing once the error is set. From it
  follow `TypeCorrect`, `CapacitySafe`, `AccountingSafe`, `NothingStranded`,
  `EndedForGood` and `Refinement` (the safety part of `MixTickets`).
  `PollsInCadence` rests on `Cadence`: the packets since the last poll are the
  slot counter modulo `PollEverySlots`. It is proved for a counter that comes
  round in step with the polls or does not come round (`InStep`). The code's
  counter has 64 bits and polls every sixth slot; 2^64 is no multiple of 6, so
  there the theorem covers the first 2^64 - 1 slots.
- `NodeStoreProofs`. `IInv` joins `IndexedOnDisk` and `DeletedStaysDeleted`
  with where each request is: before its fsync a `Put` has its file and a
  `Delete` has neither file nor entry (`AtSync`), no entry of a deleted item
  waits for an fsync (`DeletedSynced`, needed because a power loss revives any
  subset of those), and opening works alone and indexes only files that exist
  (`LoadsAlone`). `IndexHasFiles` and `DeletionsLast` follow, for any faults.
  `AccountsBalance` (all four counters exact and within their limits) needs in
  addition that one section at a time waits for its fsync (`Exclusive`) and that
  the room it found is still there (`RoomKept`). `AcknowledgedLast` rests on
  `Survival`, which holds as long as every fsync was completed: the files that
  have not expired, together with those that a power loss can bring back, pass
  no limit, so that opening drops none of them (`ReloadFits`, `LoadFits`); each
  is indexed, still to be read or the subject of the section under way
  (`Covered`); and an acknowledged item has a durable file (`OwedKept`).
- `ClientStoreProofs`. `CInv` joins the types, `WithinLimit`, what an operation
  has made sure of while it holds the lock (`Lock`), and how the index relates to
  the directory (`Mirror`, which gives `IndexMatches`); `LimitKept` follows, for
  any faults. `ProtectedStays` rests on `KeptSafe`: of a record that must be kept
  no other version is on disk or can come back. `OpensAgain` rests on `Settled`
  and `AllOpen`: a power loss can bring back only what may be pruned, besides the
  record whose fsync is to come, so every directory it can leave has few enough
  protected records to be opened. `PrunesLeast` is about one step: a prune
  takes a beginning of the prune order, so for each record it takes, what goes
  before that record was not enough. All use sums of charges through `Counting`, a
  handful of facts about finite sets proved once.
- `ClientCoreProofs`. `ExclusionLasts` needs only the ranges of the scores.
  `IInv` says that the operation's sets are sets of nodes, that a receipt
  stands for a copy or for one the node has lost (`ReceiptsOK`), that a `Delete`
  without an error has emptied the nodes it is through with (`DeletionOK`), and
  `Durable`. `DurableWrites` counts: copies and losses together only grow while
  no deletion is under way. `RecordOutlivesReplicas` is `DeletionOK` at the last
  step of `Delete`. `WorkIsCheapest` is about the choice of a group: the node at
  the place of the quorum in the sorted group has the least difficulty that a
  quorum of it accepts, and no other epoch has a better group. For
  `WritesReachReplicas`, `WriteOK` follows a write: the nodes that accept the
  work are those left, those written to and those that failed.
- `FileTransferProofs`. Each chunk the current `Store` has delivered is on a
  quorum of nodes that hold it or have lost something (`QuorumLeft`), and
  deletions begin only after a device has opened the file (`DeletesOpened`).
  `CutExactly` is about the cutting: `validateManifest` accepts the number of chunks
  that are cut, and together they have the bytes of the file.
  `FilesLast` follows. `FilesRetrievable` needs `Reading`, which follows a
  `Retrieve` batch by batch: it has the chunks before the batch, and of each
  chunk in it those who may hold it are still to be asked, did not answer or have
  lost something, unless it was seen. So it fails only when a quorum was missing.
- `MessagesProofs`. `MInv` joins the types, `Remembered` (an accepted message is
  in the replay store until it expires), `Evidence` (a receipt's device has
  accepted its message) and `InWindow` (when a receipt was made, on which clock).
  `NoReplayBeforeExpiry`, `RevokedStaysRevoked`, `ReceiptsAreEvidence` and
  `ReceiptsAlwaysVerify` follow, for clocks within the skew of each other.
  `SignersReload` needs `Loadable`: an account in use was loaded from a vault
  record, and later profiles never make that record unloadable.
- `CallEndpointProofs`. `PlacesInv` says that a closing session owes exactly one
  release and that the counter is the number of busy slots; with the guard of
  `acquire` (`UnderLimit`) it gives `PlacesBalance`. `ReplayInv` says that a
  verified offer expires within the retention and that an ID once taken is in the
  cache until its offer has expired; `NoEarlyReplay` follows, however far the
  clocks are apart, because `verifySignal` refuses what is created too far in the
  future.
- `MembershipProofs`, groups. `GroupSafe`: types, one owner and the size bound
  are inductive together; the lemmas say what `After` does to each.
  `RankRespected`: who may change whom. For the replicas, the invariant says that
  every replica, and every state an action was signed over, is the genesis or the
  result of a signed action (`Grounded`), that without a fork there is one such
  state per epoch (`OneBranch`, an induction over epochs in the form of an
  invariant), and that epochs are counted by the actions signed (`Counted`).
  `Agreement`, `NeverMixed` and `ReplicaRefinement` follow.
- `MembershipProofs`, directory. `DirectoryInv` says of every registry that it
  keeps its bound, that each of its leases is one of a seed or has a quorum of
  attestations, and that each attestation was given for this very sequence
  (`Sound`); the last is needed of the agents' own leases too (`OwnAttested`),
  since a renewed lease is registered with one seed after the other while the old
  attestations are still about. `DirectoryWithinBounds` and `QuorumHolds` follow.
  `RunningInv` says that a registry has the newest lease it has seen of a node as
  long as this lease runs by the agent's clock, which while `SyncOnce` runs is the
  time it started with. A merge keeps it whatever the records are, so that it does
  not matter when a pulled snapshot was taken, and a sweep takes only what has
  expired: `RunningLeasesStay`, with restarts and leases of any length. `MemoryInv`
  says more, that a registry without the newest lease it ever had of a node has
  none. It holds when a later lease of a node ends later, for then an older one
  than a lease that was swept has expired too, and `MayMerge` refuses it:
  `NeverRollsBack`, for nodes that keep their lease length (`LeasesKept`). The run
  `directory_rollback` shows that this hypothesis is needed. `ViewsUnite`
  is the induction step of `UnionOfViews`: whatever views were merged, the next
  is united with them, or its seed counts as failed because its view is behind
  one of them or leaves no room.

Types are part of the inductive invariants (`TypeCorrect`, `GroupSafe` and
`DirectoryWithinBounds` state them as theorems).

Only model-checked:

- liveness, which needs fairness and `ENABLED`: `EveryTicketAnswered`,
  `PlacesFreed`, `CatchUp`, `Converges`, and the liveness part of
  `ImplementsTickets` (its safety part is `Refinement`);
- `UnionOfViews` as a whole: it is about a recursive function over the order of
  the answers, and needs an induction over that sequence; its start and its step
  are `ViewsUnite`;
- that `Charge` and `Plaintext` are sums, for the same reason; the proofs need
  only that they add up over disjoint sets, which is proved.

## 6. What is not modelled

- Cryptography, encodings and the proof of work itself: a signature that verifies
  comes from its signer, an id stands for its content, and an item has the work
  it has. The envelopes of device synchronisation (`SealSyncEvent`,
  `OpenSyncEvent`) are functions of their arguments.
- TLS and certificates: a connection reaches the node it names. For the same
  reason `ConnectDirectoryRecords`, which checks who answers at an endpoint, is
  left out, and so is the parsing of seed files.
- The node server's directory rate limit and work slots: one request per second
  and address. Seeds are pinned, so a registration refused for this reason only
  comes a round later; two nodes behind one address whose rounds stay in step can
  refuse each other for longer.
- The checks in constructors (`NewStrictPipeline`, configurations): the
  assumptions of the modules state what they leave.
- The file locks, which the stores are assumed to hold.
- The external providers (ratchet, mix network, MLS, secret vault) beyond what
  the code that calls them relies on.
- Clocks that are set back. Where the code compares times of two processes (a
  sequence after a restart of an agent, expiry when a client store is opened) the
  model takes the later process to have the later time. The same holds for the
  `CreatedAt` of a group action, which is checked against the clock with five
  minutes' tolerance and is left out.
- Two failures on opening a node's store that have the effect of a stop while it
  is loaded, which is modelled: an error of `cleanupPrivateTemporaries`, and a file
  that cannot be read.
- The check of a profile's `UpdatedAt`, which always passes when clocks are within
  the skew; no API changes the profile revision inside a `LocalAccount`, so the
  model takes it from the profile that the device was linked with.

## 7. What could follow

`ServerLimits` for the rate limit above; an abstract `DeliveryService` that
`ClientCore` implements and `FileTransfer` and `Messages` use, in place of the
agreement in words between them; a variant of `NodeDirectory` in which a sweep
keeps the sequence of what it drops, for which `NoRollback` would need no
hypothesis.

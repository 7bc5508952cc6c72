# TLA+ models of the sn_node duty dispatcher and reward churn

These modules model the core of `sn_node` in this repository: `Node::handle`
in `src/src/node/handle.rs`, and the routing-event translator in
`src/src/node/node_duties/network_events.rs`. Together they form the
role-transition and reward-churn engine described in `spec.md`.

## 1. Inventory

### Components and their state

| Component | Source | State | Operations |
|---|---|---|---|
| Duty Dispatcher | `handle.rs` `Node::handle` (35-382) | none of its own. It borrows the node's subsystems for one duty | one arm per `NodeDuty` variant. Each returns follow-up duties or an error |
| Role Subsystem Set | `handle.rs` fields `chunks`, `meta_data`, `transfers`, `section_funds`; getters 384-433 | which of the four subsystems exist | `Genesis`/`EldersChanged{newbie}` → `level_up`; `LevelDown`; `SectionSplit{newbie}` |
| Section Funds | `handle.rs` 96-109, 416-433 | `None`, `Churning{process, wallets, payments}` or `KeepingNodeWallets{wallets, payments}` | `SectionSplit` (oldie) opens a round; completion switches to `KeepingNodeWallets`; `AddPayment` |
| Reward Churn Process | `section_funds::reward_process` (not in the sources) | `RewardStage`, plus partial evidence per `CreditId` | `receive_churn_proposal`, `receive_wallet_accumulation`, `stage` |
| Reward Wallet Registry | `handle.rs` 119-152 | member identity → wallet and age | `SetNodeWallet` (checks live membership), `ProcessLostMember` |
| Network Event Translator | `network_events.rs` | none | routing `Event` → duty: `MemberLeft`, `MemberJoined`, `EldersChanged`, `PromotedToElder`, `Relocated`/`Demoted` (age re-check), `MessageReceived` (decode or drop) |
| Collaborators | chunk store, metadata, transfer ledger, `network_api` (not in the sources) | out of scope | awaited calls that may fail |

### How the parts interact

Routing events go through the translator and become duties. The runtime loop
feeds each duty to `Node::handle`, one at a time per node. The handler calls
the subsystems the node has at that moment and returns follow-up duties. A
`Send` or `SendToNodes` duty puts messages on the network. Elders talk to each
other only through messages: a reward proposal goes out when an oldie begins a
split, a vote (accumulation) goes out in answer to a proposal, and a completed
round sends propagate-credit duties to the payees' sections.

### What makes it hard

* **Message passing between Elders.** Proposals and votes may be lost,
  duplicated or reordered. A message that arrives while the receiver is not
  `Churning` is dropped with `Ok` (handle.rs 84, 112). This includes a message
  that arrives before the receiver's own `SectionSplit`.
* **Partial failure inside one handler.** The state is changed first and a
  later `?` can return an error afterwards. This happens in `LevelDown`
  (Chunks::new, 164-171), on round completion (section_public_key, 104) and in
  `ProcessLostMember` (trigger_chunk_replication, 151).
* **Role changes in the middle of a protocol.** A demotion, a promotion or a
  re-split discards an open round.
* **Races between routing's state and queued duties.** Membership can change
  between `MemberLeft` and the `ProcessLostMember` duty it produces, and a node
  can be promoted or demoted while its age is being re-read. A pushed
  registry can be applied after the departures that happened since the push,
  and a node chosen to receive a chunk can leave before the chunk reaches it.

### Properties that make each component correct

* Role set: at rest every node is exactly an Adult or an Elder (spec 3).
* Section funds: a completed round pays out every finalized proof in the same
  step that switches to `KeepingNodeWallets` (spec 4.3; violated when
  `section_public_key` fails). Funds follow the abstract lifecycle of
  `RewardAbstract`: created only by `level_up`, rounds closed only on a
  quorum, wallets and payments carried (spec 3, 4.3-4.4).
* Reward process: no round closes without a quorum of distinct Elders, so
  duplicates do not count (spec 4.2), checked through the refinement.
  Completion of a stalled round is left by spec 5 to the membership
  protocol, so no liveness property is stated for it.
* Wallet registry: wallets belong only to live members, or to members whose
  departure is still pending (spec 3).
* Dispatcher: a duty whose subsystem is absent fails with a typed error
  (spec 4.1, 8).
* Translator: promotion and demotion events take effect only when the age
  really clears `MIN_AGE` (spec 4.5).

## 2. Plan

| # | Module | Models | State |
|---|---|---|---|
| 1 | `RewardProcess` | reward stage and quorum merge of one Elder, as pure operators (written from the spec) | done |
| 2 | `NodeDuties` + `MC_NodeDuties` | every arm of `Node::handle` for a set of nodes, reward messages between Elders, membership events | done (this sitting) |
| 3 | `NetworkEvents` | `process_network_event`: node age, `MIN_AGE` checks on `Relocated`/`Demoted`, unconditional `PromotedToElder`, composed with `NodeDuties` through a FIFO of routing events per node; decode failures as lost messages | done |
| 5 | `RewardAbstract` | abstract lifecycle of the section funds: funds from level_up only, rounds opened by splits, votes only while Churning, close only on quorum, registry and payments carried; `NodeDuties` shown to implement it with `INSTANCE ... WITH` | done |
| 5a | `Replication` | the chunk replication path after a member leaves: ProcessLostMember, ReplicateChunk, GetChunkForReplication, StoreChunkForReplication and its correlation id | done |
| 6 | `SynchState` / `push_state` wallet sync between Elders | a non-newbie `EldersChanged` pushes the registry, `SynchState` installs it (both collaborators written from spec 4.4) | done: a push applied after a departure restores the departed member's wallet |

## 3. Modules

### `RewardProcess.tla` (from the spec)

`reward_process.rs` and `reward_stage.rs` are not among the sources. The
module gives a process as a record `[stage, evidence]`, where `evidence[c]` is
the set of Elders that sent a vote for credit `c`. `receive_churn_proposal`
moves the stage from `AwaitingProposals` to `Accumulating`.
`receive_wallet_accumulation` adds the sender to the set and moves to
`Completed` when every credit has `Quorum` voters. Because evidence is a set,
merging is idempotent and order-independent, as spec 4.2 requires. That
holds by construction, so no run checks it on its own; what the runs check
is that `Node::handle`, driving this merge, never closes a round without a
quorum of distinct voters (`RewardAbstractSpec`).

### `NodeDuties.tla` (handle.rs, network_events.rs 47-79)

Variables:

* `chunks`, `meta_data`, `transfers`: the `Option` fields of `Node` (TRUE = Some).
* `section_funds`: a record `[mode, process, wallets, payments]` with `mode` in
  `None | Churning | KeepingNodeWallets`.
* `members`: routing's live membership, `network_api.our_members()`.
* `lost[n]`: `ProcessLostMember` duties queued at node `n`.
* `splitting[n]`: an oldie `SectionSplit` duty queued at node `n`.
* `msgs`: reward proposals and votes in flight.
* `voted`: history of votes sent, mapped to the abstract `votes`.
* `last`: the node, duty, result and propagated credits of the last step, used
  by the action properties.

Actions. Each is one whole arm of the match, including the state changes of
the calls it makes:

* `Genesis`, `EldersChanged` (`ElderPromotedOnChurn` or
  `ElderUpdatedOnChurn`), `SectionSplit` (`SplitAsNewbie` or
  `SplitAsOldie`), `LevelDown`.
* `ReceiveRewardProposal`, `ReceiveRewardAccumulation`. Their awaited
  calls may fail: `receive_churn_proposal` (82) and
  `receive_wallet_accumulation` (93) leave the process as it was, while a
  failed `propagate_credits` (98) returns after the merge has completed the
  process in place, so the funds stay Churning with a Completed process
  and the next accumulation closes the round.
* `SetNodeWallet`, `ProcessLostMember`, `AddPayment`.
* `SynchState`, which hands a pushed registry to `synch_state`. A non-newbie
  `EldersChanged` returns that push (`push_state`) as a `sync` message to
  the other nodes.
* `Transfers`, `ReadChunk`, `WriteChunk`, `ReplicateChunk`,
  `StoreChunkForReplication`, `ProcessRead`, `ProcessWrite`, `Misc`,
  `GetSectionElders`, `GetNodeWalletKey`, `NoOp`.
* Environment: `MemberLeft` and `MemberJoined` (routing), `SplitOccurs`
  (routing queues `SectionSplit{newbie: false}` at every current Elder,
  recorded in `splitting[n]`), `LoseMessage` (transport).

What an awaited call returns is modelled by `Outcome(kind)`. If the kind is in
the constant `Faults`, the call may fail, and `?` then returns the error with
whatever state the handler had already assigned. The `Send` duties returned by
a step go onto the network in that same step. Chunks, queries and transfers
themselves are not represented. The model keeps only which subsystem serves a
duty and the typed result: `NoChunks`, `NoMetadata`, `NoTransfers`,
`NoSectionFunds`, `NodeNotFoundForReward` or a collaborator error. The
forwarding branch of `ReadChunk`/`ProcessRead` (address outside our prefix)
and the correlation-id check of `StoreChunkForReplication` are boolean
inputs.

The environment guards are routing's promises, not checks in the code:

* `Genesis` goes only to a node of a network with no Elder yet.
* `EldersChanged{newbie}` goes exactly to a node that is not an Elder.
* `SectionSplit{newbie: true}` goes to a node that is not an Elder yet. The
  oldie duty is queued by `SplitOccurs` and may be handled after a demotion,
  in which case `begin_split_as_oldie` finds no section funds.

`level_up`, `begin_split_as_oldie`, the vote broadcast, `push_state` and
`synch_state` come from spec 4.4. `synch_state` replaces the registry with the
pushed one and keeps the mode and the payments.

### `NetworkEvents.tla` (network_events.rs 34-128, composed with `NodeDuties`)

Routing's own state is in three variables: `age` (what `network.age()`
returns), `routing_elder` (routing's Elder set), and `events[n]`, the FIFO of
routing events not yet processed by node `n`. Routing actions change routing's
state and queue the matching event:

* `RoutingRelocate` ages a non-Elder by one. A startup relocation of an infant
  leaves its age.
* `RoutingPromote` makes an Adult past `MIN_AGE` an Elder.
* `RoutingDemote` demotes an Elder.

`ProcessNetworkEvent` takes the head event and hands its duty to
`Node::handle` in the same step:

* `PromotedToElder` → `setup_as_elder` → `level_up`. This happens
  unconditionally.
* `Relocated` and `Demoted` → `LevelDown` when the age read now exceeds
  `MIN_AGE`. Otherwise the event is ignored.

The other duties of `NodeDuties` run in between, except those that change the
role, so routing is the only source of roles. Among them is the non-newbie
arm of `EldersChanged` (`ElderUpdatedOnChurn`), which pushes the Elder's
state to the other node. An infant (age `MIN_AGE`)
starts with no subsystem; an older node starts as an Adult.

### `Replication.tla` (handle.rs 145-152, 341-379)

When a member leaves, one Elder's metadata sends `ReplicateChunk` for every
chunk the member held to a live node that lacks it. That node asks a holder
(`GetChunkForReplication`). The holder sends `StoreChunkForReplication` back
with the instruction's id. The new holder stores the chunk when the id equals
`MessageId::combine(address, our name)`, modelled as the pair. The choice of
new holder and the chunk store's messages are written from spec 6, because
that code is not in the repository. `Duplicates` lets the transport deliver a
message twice.

### `RewardAbstract.tla` (abstract)

The section funds of every node as an abstract state machine over `mode`,
`wallets`, `payments` and `votes`, with these actions:

* `LevelUp` (from `None`) and `LevelDown` (to `None`), both with a fresh
  registry.
* `OpenRound`, which keeps the registry.
* `Vote`, only while Churning.
* `CloseRound`, only when every credit has a quorum of voters, and keeping
  the registry.
* `UpdateRegistry`, under which payments only grow.

`NodeDuties` defines
`RA == INSTANCE RewardAbstract WITH mode <- ..., votes <- voted`, and the runs
check `RewardAbstractSpec == RA!ASpec` as a property.

## 4. Runs

| Run | cfg | Expect | Properties | What it shows |
|---|---|---|---|---|
| dispatch | `MC_NodeDuties_dispatch.cfg` | pass | TypeOK, RoleExclusive, WalletsOfMembers, RewardAbstractSpec | One node takes every duty in every role. It completes rounds of two credits on its own votes (Quorum 1) while members leave and rejoin and collaborators fail, the reward merge and `propagate_credits` included. Roles stay exclusive, wallets stay with members (one node receives no push; see `stale_sync`), and every step implements `RewardAbstract`. |
| churn | `MC_NodeDuties_churn.cfg` | pass | RewardAbstractSpec | Two Elders with Quorum 2, lost and duplicated votes, re-splits, demotions and every fault. Every step implements `RewardAbstract`, so no round closes before both Elders have voted for every credit, however the votes were duplicated or reordered. |
| stale_sync | `MC_NodeDuties_stale_sync.cfg` | violation | WalletsOfMembers | Finding: n1 pushes its registry holding m1; m1 leaves and n2 handles the loss; n2 then handles the push and m1's wallet is back for a non-member. The `SynchState` arm has no membership check, unlike `SetNodeWallet`. |
| leveldown_fault | `MC_NodeDuties_leveldown_fault.cfg` | violation | RoleExclusive | Finding: a failed `Chunks::new` leaves a demoted node without any subsystem. |
| sectionkey_fault | `MC_NodeDuties_sectionkey_fault.cfg` | violation | CompletionPropagates | Finding: a failed `section_public_key` after completion drops the propagate-credit duties, and the round can never be completed again at this node. Only this fault is enabled, so the violation is due to it alone. |
| roles | `MC_NetworkEvents_roles.cfg` | pass | RoleFollowsRouting, RewardAbstractSpec | Two nodes that routing relocates, promotes and demotes. Each has up to two pending events, and ages run from `MIN_AGE` to `MIN_AGE`+2. Elders that stay Elders push their state on `EldersChanged` and handle each other's `SynchState`. Once a node has drained its events, it is an Elder exactly when routing says so, and an Adult exactly when it is not and is past `MIN_AGE`. Every step, a sync included, implements `RewardAbstract`: no payment is dropped and the mode is kept. |
| restore | `MC_Replication_restore.cfg` | pass | LostReplicaRestored | Five Adults and three chunks on two holders; one holder leaves, and each chunk may go to a different new holder. Under fair handling, every chunk returns to two live holders (about 4,000 states). |
| replay | `MC_Replication_replay.cfg` | violation | ReplayRejected | Finding: a `StoreChunkForReplication` delivered twice passes the correlation-id check twice, because the id depends only on the address and the receiver. |
| replica_churn | `MC_Replication_churn.cfg` | violation | LostReplicaRestored | Finding: five Adults, one chunk on three holders, two departures. A node chosen as the new holder leaves before it has stored the chunk. Its own `ProcessLostMember` has nothing of that chunk to re-replicate, so the chunk stays at two live replicas for ever. |
| lostmember_fault | `MC_NodeDuties_lostmember_fault.cfg` | violation | ErrorLeavesFundsUntouched | Finding: when `trigger_chunk_replication` fails, `ProcessLostMember` returns an error after removing the wallet. Spec 8 requires that a mutating operation fully applies or fully no-ops. A failed `propagate_credits` (98) is a second path: the evidence has already been merged into the process in place. |

### Bounds and why they are enough

* **Credits.** Two credits in `dispatch` let a round finish one id before the
  other. That is the case where propagating only some proofs would go
  unnoticed with one credit.
* **Churn nodes.** Two nodes with Quorum 2 in `churn` make every completion
  depend on a peer's vote. They exercise loss, duplicate votes (an Elder votes
  again on each proposal), a vote from an earlier round, and demotion in the
  middle of a round. Three nodes with every fault give more than a million
  states and do not finish within the time limit.
* **Routing events.** `roles` keeps two events per node. That is enough for
  a promotion and a demotion to be pending together, and for a relocation to
  queue behind a demotion. Ages run from `MIN_AGE` to `MIN_AGE`+2, so a
  demoted Elder can be just past the threshold. Credits are left out of
  `roles` because they play no part in roles and multiply the state space.
* **Replication.** `restore` allows one departure, which is where the path
  is expected to work. `replica_churn` allows two departures over five
  Adults with three replicas. That is the smallest instance where a chosen
  new holder can leave mid-protocol while live holders remain, so the loss
  of every holder cannot hide the race. Duplicate delivery is left out of
  `restore`. A transport that duplicates for ever lets one message be
  handled again and again under weak fairness, starving the others; that is
  an artifact of unbounded duplication, not of the code.
* **Members.** One payment and two members are enough to tell a dropped or
  stale entry from a kept one.
* **State sync.** `roles` has one payment and no member. With a member as
  well it does not finish in the time limit, and its question, whether a sync
  keeps the mode and the payments, needs only the payment. `stale_sync` has
  the member and two nodes, and TLC finds the stale push within about 14,000
  states. `churn` lets a `sync` message be in flight only when
  no other message is (`CONSTRAINT SyncAlone`). Its pushes and syncs happen
  between rounds but not in the middle of one. With pushes unrestricted,
  `churn` needs three to four times the states and over four minutes.

### Symmetry and views

The `churn` run uses symmetry over the node and member model values. That is
sound for its safety property. `churn` also uses `VIEW StateView`, which
leaves out `last`. No action reads `last`, and the one property of that run
reads only `last'`, so states that differ only in `last` have the same
futures. `roles` uses symmetry over nodes and `NEView`, which drops `last` for the
same reason: `RoleFollowsRouting` is an invariant that does not read it.
`dispatch` keeps `last` in its states, so the duties that change only
their result are counted as distinct steps.

### Mutants

Each property of a passing run is broken by one plausible bug in the code it
is about:

* `VotesToMembers` (votes sent to members) breaks TypeOK.
* `LevelDownKeepsTransfers` breaks RoleExclusive.
* `SetNodeWalletUnchecked` (no membership check) breaks WalletsOfMembers.
* `IsChurningAnyFunds` (`get_churning_funds` accepting Keeping funds, so a
  Keeping Elder votes) breaks RewardAbstractSpec in `dispatch`.
* `KeepingNodeWalletsFresh` (registry and payments not carried into
  KeepingNodeWallets) breaks RewardAbstractSpec in `churn`.
* `AgeClearsMinAgeStrict` (threshold one year too high) breaks
  RoleFollowsRouting.
* `CorrelationIdSwapped` (operands of `combine` swapped) breaks
  LostReplicaRestored.
* `synch_state_pushed_only` (the funds rebuilt from the push alone, dropping
  the receiver's pending payments) breaks RewardAbstractSpec in `roles`.

## 5. Fairness

`Spec` is safety-only (`Init /\ [][Next]_vars`). No liveness property is
stated for the reward round: spec 5 leaves a round that never reaches quorum
to the surrounding membership protocol, which restarts it on the next
membership change, and the quorum is derived outside the sources. An Elder
that is not Churning when a proposal reaches it drops it with `Ok`
(handle.rs 84); whether the round then completes depends on that protocol,
not on this code.

`RSpec` (Replication) assumes weak fairness of each node's handling of
`ProcessLostMember`, `ReplicateChunk`, `GetChunkForReplication` and
`StoreChunkForReplication`, for the same reason: each node's loop drains its
duties. `restore` does not check deadlock: after the one departure is
repaired, nothing is left to do.

## 6. Not modelled

* Chunk storage, the metadata store and the transfer ledger. They are
  external collaborators outside the sources, so the model keeps only their
  presence and a possible error.
* Signatures, BLS keys, `MessageId::combine` hashing and serialization. A
  correlation-id match is a boolean input.
* Wallet ages. They come from membership at write time and nothing compares
  them. Node ages are modelled in `NetworkEvents`.
* The `EldersChanged` routing event and the `MemberJoined` new/relocated
  member duties. They become `ElderDuty` operations whose handlers are not in
  the sources. `analysis.evaluate` of a decoded message is not in the sources
  either.
* `GetNodeWalletKey`, `GetSectionElders` and `NoOp` change no state. They are
  actions whose only effect is their result.
* The bodies of `push_state` and `synch_state` are not in the sources. The
  model keeps what spec 4.4 says they do to the wallet registry, not the
  transfer-ledger replicas they also carry.
* Why the components marked "partly" stay that way:
  * Reward Churn Process: `reward_process.rs` and `reward_stage.rs` are not
    in the sources. Their merge is written from spec 4.2; its order
    independence holds by construction and is not checked separately.
    Votes carry no round, so whether a new process rejects evidence of the
    round it superseded is not decided by this code.
  * Network Event Translator: the `EldersChanged` and `MessageReceived`
    arms (network_events.rs 80-100) hand their result to handlers outside
    the sources.
  * Transport: `send` and `send_to_nodes` are a set of reward messages that
    may be lost. Other outbound messages are results.
  * Chunk replication: the metadata's choice of new holder and its
    bookkeeping of holders are written from spec 6. A holder promoted to
    Elder loses its chunk store, and nothing in the sources re-replicates
    its chunks; that is left out because `level_up` is not in the sources
    either.
* Symmetry and liveness: `roles` and `churn` use symmetry and check only
  safety and action properties. The liveness properties run without
  symmetry (`restore`, `replica_churn`).

---------------------------- MODULE NodeDuties ----------------------------
(***************************************************************************)
(* Node::handle (src/src/node/handle.rs) for every node of one section,   *)
(* composed with the reward churn protocol that the Elders among them     *)
(* run by message passing, and with the membership events of routing      *)
(* (src/src/node/node_duties/network_events.rs) that feed it.             *)
(*                                                                         *)
(* A node handles one NodeDuty at a time; each action below is one whole  *)
(* arm of the match in Node::handle, including the collaborator calls it  *)
(* awaits and the follow-up duties it returns.  Returned Send duties are  *)
(* put on the network in the same step (handle.rs 289-295 does nothing    *)
(* else with them).  Data is abstracted: a chunk, a query, a transfer is  *)
(* not represented; only which subsystem serves it and the result.        *)
(***************************************************************************)
EXTENDS Naturals, FiniteSets, RewardProcess

CONSTANTS
    Members,     \* node identities routing may report as section members
    PaymentIds,  \* CreditIds of payments that AddPayment can deliver
    Faults,      \* the collaborator calls that may fail, a subset of FaultKinds
    NoNode       \* model value: no duty handled yet

\* Chunks::new (handle.rs 164-171), network_api.section_public_key
\* (handle.rs 104) and any other awaited collaborator (chunk store,
\* metadata, transfers, messaging).
FaultKinds == {"ChunksNew", "SectionKey", "Collaborator"}

VARIABLES
    chunks,         \* self.chunks is Some
    meta_data,      \* self.meta_data is Some
    transfers,      \* self.transfers is Some
    section_funds,  \* self.section_funds: None, Churning or KeepingNodeWallets
    members,        \* network_api.our_members(): the live membership
    lost,           \* ProcessLostMember duties not yet handled, per node
    splitting,      \* a SectionSplit{newbie: false} duty is queued, per node
    msgs,           \* reward proposals and accumulations in flight
    voted,          \* history: <<elder, credit>> for every vote ever sent
    last            \* the duty handled by the last step and its outcome

vars == <<chunks, meta_data, transfers, section_funds, members, lost, splitting, msgs,
          voted, last>>

Modes == {"None", "Churning", "KeepingNodeWallets"}

FundsStates ==
    [mode : Modes, process : ProcessStates,
     wallets : SUBSET Members, payments : SUBSET PaymentIds]

NoFunds ==
    [mode |-> "None", process |-> NewProcess, wallets |-> {}, payments |-> {}]

Messages ==
    [kind : {"proposal"}, from : Nodes, to : Nodes]
    \cup [kind : {"accumulation"}, from : Nodes, to : Nodes, credit : Credits]
    \cup [kind : {"sync"}, from : Nodes, to : Nodes, wallets : SUBSET Members]

Results ==
    {"Ok", "NoChunks", "NoMetadata", "NoTransfers", "NoSectionFunds",
     "NodeNotFoundForReward", "CollaboratorError"}

DutyNames ==
    {"None", "Genesis", "EldersChanged", "SectionSplit", "ReceiveRewardProposal",
     "ReceiveRewardAccumulation", "SetNodeWallet", "ProcessLostMember",
     "LevelDown", "AddPayment", "Transfers", "ReadChunk", "WriteChunk",
     "ReplicateChunk",
     "StoreChunkForReplication", "ProcessRead", "ProcessWrite", "Misc",
     "GetSectionElders", "GetNodeWalletKey", "NoOp",
     "PromotedToElder", "Relocated", "Demoted", "SynchState"}

\* The outcomes of an awaited call that may fail with fault kind f.
Outcome(f) == IF f \in Faults THEN {"Ok", "CollaboratorError"} ELSE {"Ok"}

IsElder(n) ==
    ~chunks[n] /\ meta_data[n] /\ transfers[n] /\ section_funds[n].mode # "None"

IsAdult(n) ==
    chunks[n] /\ ~meta_data[n] /\ ~transfers[n] /\ section_funds[n].mode = "None"

\* get_churning_funds accepting any section funds, not only Churning ones.
IsChurningAnyFunds(n) == section_funds[n].mode # "None"

IsChurning(n) == section_funds[n].mode = "Churning"

\* The step's duty, result and the credits it propagated.
Handled(n, duty, result, propagated) ==
    last' = [node |-> n, duty |-> duty, result |-> result,
             propagated |-> propagated]

\* get_chunks / get_metadata / get_transfers / get_section_funds: the
\* result of a duty served by a subsystem that may be absent.
Served(present, missing) ==
    IF present THEN Outcome("Collaborator") ELSE {missing}

(***************************************************************************)
(* Role transitions.  level_up, begin_split_as_newbie and                  *)
(* begin_split_as_oldie are not among the sources: modelled from spec 4.4. *)
(***************************************************************************)

\* level_up: tear down the Adult set, build metadata, transfers and
\* section funds from scratch with an empty wallet registry.
level_up(n) ==
    /\ chunks' = [chunks EXCEPT ![n] = FALSE]
    /\ meta_data' = [meta_data EXCEPT ![n] = TRUE]
    /\ transfers' = [transfers EXCEPT ![n] = TRUE]
    /\ section_funds' = [section_funds EXCEPT ![n] =
                            [NoFunds EXCEPT !.mode = "KeepingNodeWallets"]]

\* The proposal every oldie broadcasts to the Elders when a split begins.
Proposals(n) == [kind : {"proposal"}, from : {n}, to : Nodes]

\* begin_split_as_oldie: a new churn process supersedes any open one;
\* wallets and pending payments are carried into it.
begin_split_as_oldie(n) ==
    /\ section_funds' = [section_funds EXCEPT ![n] =
                            [@ EXCEPT !.mode = "Churning", !.process = NewProcess]]
    /\ msgs' = msgs \cup Proposals(n)

\* Genesis (handle.rs 38-41).  Routing issues it to the first node of the
\* network only, hence the guard that no node is an Elder yet.
Genesis(n) ==
    /\ \A m \in Nodes : ~IsElder(m)
    /\ level_up(n)
    /\ Handled(n, "Genesis", "Ok", {})
    /\ UNCHANGED <<members, lost, splitting, msgs, voted>>

\* push_state: the Send carrying this Elder's replicated state, here its
\* wallet registry, to the other nodes of the section, which handle it as
\* SynchState.  Not among the sources: modelled from spec 4.4.
push_state(n) ==
    [kind : {"sync"}, from : {n}, to : Nodes \ {n},
     wallets : {section_funds[n].wallets}]

\* EldersChanged (handle.rs 42-58).  newbie is set by routing exactly when
\* this node was not an Elder.  A non-newbie runs update_replicas, which
\* refreshes the transfer replicas, and returns push_state (a Send); if
\* update_replicas fails, `?` returns before the push.
ElderPromotedOnChurn(n) ==
    /\ ~IsElder(n)
    /\ level_up(n)
    /\ Handled(n, "EldersChanged", "Ok", {})
    /\ UNCHANGED <<members, lost, splitting, msgs, voted>>

ElderUpdatedOnChurn(n) ==
    /\ IsElder(n)
    /\ \E r \in Served(transfers[n], "NoTransfers") :
          /\ Handled(n, "EldersChanged", r, {})
          /\ msgs' = IF r = "Ok" THEN msgs \cup push_state(n) ELSE msgs
    /\ UNCHANGED <<chunks, meta_data, transfers, section_funds, members,
                   lost, splitting, voted>>

EldersChanged(n) == ElderPromotedOnChurn(n) \/ ElderUpdatedOnChurn(n)

\* SectionSplit (handle.rs 59-74).  The newbie side is a node that routing
\* makes an Elder of the new section: it bootstraps afresh.  The oldie side
\* handles the duty queued at every Elder when the section split; by then
\* it may have been demoted, and without section funds the round cannot
\* be opened.
SplitAsNewbie(n) ==
    /\ ~IsElder(n)
    /\ level_up(n)
    /\ Handled(n, "SectionSplit", "Ok", {})
    /\ UNCHANGED <<members, lost, splitting, msgs, voted>>

SplitAsOldie(n) ==
    /\ splitting[n]
    /\ splitting' = [splitting EXCEPT ![n] = FALSE]
    /\ IF section_funds[n].mode = "None"
       THEN /\ Handled(n, "SectionSplit", "NoSectionFunds", {})
            /\ UNCHANGED <<section_funds, msgs>>
       ELSE /\ begin_split_as_oldie(n)
            /\ Handled(n, "SectionSplit", "Ok", {})
    /\ UNCHANGED <<chunks, meta_data, transfers, members, lost, voted>>

SectionSplit(n) == SplitAsNewbie(n) \/ SplitAsOldie(n)

\* LevelDown with the Elder subsystems left in place: the bug where the
\* demotion forgets to drop the transfer ledger.
LevelDownKeepsTransfers(n) ==
    /\ meta_data' = [meta_data EXCEPT ![n] = FALSE]
    /\ UNCHANGED transfers
    /\ section_funds' = [section_funds EXCEPT ![n] = NoFunds]
    /\ \E r \in Outcome("ChunksNew") :
          /\ chunks' = [chunks EXCEPT ![n] = IF r = "Ok" THEN TRUE ELSE @]
          /\ Handled(n, "LevelDown", r, {})
    /\ UNCHANGED <<members, lost, splitting, msgs, voted>>

\* LevelDown (handle.rs 159-173): the Elder subsystems are dropped first,
\* then Chunks::new is awaited; if it fails, `?` returns the error and
\* self.chunks keeps its old value.
LevelDown(n) ==
    /\ meta_data' = [meta_data EXCEPT ![n] = FALSE]
    /\ transfers' = [transfers EXCEPT ![n] = FALSE]
    /\ section_funds' = [section_funds EXCEPT ![n] = NoFunds]
    /\ \E r \in Outcome("ChunksNew") :
          /\ chunks' = [chunks EXCEPT ![n] = IF r = "Ok" THEN TRUE ELSE @]
          /\ Handled(n, "LevelDown", r, {})
    /\ UNCHANGED <<members, lost, splitting, msgs, voted>>

(***************************************************************************)
(* Reward churn (handle.rs 79-116, get_churning_funds 416-433).           *)
(***************************************************************************)

\* Votes sent to section members instead of the Elders running the round.
VotesToMembers(n) ==
    [kind : {"accumulation"}, from : {n}, to : Members, credit : Credits]

\* The accumulation vote receive_churn_proposal returns: one piece of
\* evidence per CreditId, to every Elder.
Votes(n) == [kind : {"accumulation"}, from : {n}, to : Nodes, credit : Credits]

\* ReceiveRewardProposal (handle.rs 79-87): a node that is not Churning (an
\* Adult, or an Elder keeping wallets) ignores the proposal with Ok(vec![]).
\* If receive_churn_proposal fails, `?` returns the error and no vote is
\* sent; its body is not among the sources, so the failure is taken to
\* leave the process as it was.
ReceiveRewardProposal(n) ==
    \E m \in msgs :
       /\ m.kind = "proposal" /\ m.to = n
       /\ \E r \in IF IsChurning(n) THEN Outcome("Collaborator") ELSE {"Ok"} :
             /\ Handled(n, "ReceiveRewardProposal", r, {})
             /\ IF IsChurning(n) /\ r = "Ok"
                THEN /\ section_funds' = [section_funds EXCEPT ![n].process =
                                             receive_churn_proposal(@)]
                     /\ msgs' = (msgs \ {m}) \cup Votes(n)
                     /\ voted' = voted \cup ({n} \X Credits)
                ELSE /\ msgs' = msgs \ {m}
                     /\ UNCHANGED <<section_funds, voted>>
       /\ UNCHANGED <<chunks, meta_data, transfers, members, lost, splitting>>

\* The mode switch with the registry and payments not carried over.
KeepingNodeWalletsFresh(f) == [NoFunds EXCEPT !.mode = "KeepingNodeWallets"]

\* SectionFunds::KeepingNodeWallets { wallets: reward_wallets.clone(),
\* payments: payments.clone() } built from the Churning funds f.
KeepingNodeWallets(f) ==
    [f EXCEPT !.mode = "KeepingNodeWallets", !.process = NewProcess]

\* propagate_credits: one propagate-credit duty per finalized proof.
propagate_credits(p) == CompletedProofs(p)

\* ReceiveRewardAccumulation (handle.rs 88-116): merge the evidence; when
\* the stage is then Completed, build the propagate duties, switch the funds
\* to KeepingNodeWallets, and only then await section_public_key: if that
\* fails, `?` returns the error and the propagate duties in ops are lost.
\* The merge works on the process in place (get_churning_funds lends it
\* mutably): if receive_wallet_accumulation fails (93) nothing is merged,
\* but if propagate_credits fails (98) the merged, Completed process stays
\* while the funds are still Churning.
ReceiveRewardAccumulation(n) ==
    \E m \in msgs :
       /\ m.kind = "accumulation" /\ m.to = n
       /\ msgs' = msgs \ {m}
       /\ IF IsChurning(n)
          THEN LET p == receive_wallet_accumulation(section_funds[n].process,
                                                    m.from, m.credit)
               IN  \E merged \in Outcome("Collaborator") :
                   \/ /\ merged # "Ok"
                      /\ UNCHANGED section_funds
                      /\ Handled(n, "ReceiveRewardAccumulation", merged, {})
                   \/ /\ merged = "Ok" /\ p.stage # "Completed"
                      /\ section_funds' = [section_funds EXCEPT ![n].process = p]
                      /\ Handled(n, "ReceiveRewardAccumulation", "Ok", {})
                   \/ /\ merged = "Ok" /\ p.stage = "Completed"
                      /\ \E proved \in Outcome("Collaborator") :
                         IF proved = "Ok"
                         THEN /\ section_funds' = [section_funds EXCEPT ![n] =
                                                      KeepingNodeWallets(@)]
                              /\ \E r \in Outcome("SectionKey") :
                                    Handled(n, "ReceiveRewardAccumulation", r,
                                            IF r = "Ok" THEN propagate_credits(p) ELSE {})
                         ELSE /\ section_funds' = [section_funds EXCEPT ![n].process = p]
                              /\ Handled(n, "ReceiveRewardAccumulation", proved, {})
          ELSE /\ UNCHANGED section_funds
               /\ Handled(n, "ReceiveRewardAccumulation", "Ok", {})
       /\ UNCHANGED <<chunks, meta_data, transfers, members, lost, splitting, voted>>

(***************************************************************************)
(* Reward wallet registry and payments (handle.rs 119-152, 337-340,       *)
(* get_section_funds 408-414).                                             *)
(***************************************************************************)

\* SetNodeWallet trusting the caller: no cross-check against membership.
SetNodeWalletUnchecked(n) ==
    \E id \in Members :
       /\ \/ /\ section_funds[n].mode = "None"
             /\ Handled(n, "SetNodeWallet", "NoSectionFunds", {})
             /\ UNCHANGED section_funds
          \/ /\ section_funds[n].mode # "None"
             /\ section_funds' = [section_funds EXCEPT ![n].wallets = @ \cup {id}]
             /\ Handled(n, "SetNodeWallet", "Ok", {})
       /\ UNCHANGED <<chunks, meta_data, transfers, members, lost, splitting, msgs, voted>>

\* SetNodeWallet: the age comes from the live membership; an identity
\* that is not a member is refused with NodeNotFoundForReward.
SetNodeWallet(n) ==
    \E id \in Members :
       /\ \/ /\ section_funds[n].mode = "None"
             /\ Handled(n, "SetNodeWallet", "NoSectionFunds", {})
             /\ UNCHANGED section_funds
          \/ /\ section_funds[n].mode # "None" /\ id \in members
             /\ section_funds' = [section_funds EXCEPT ![n].wallets = @ \cup {id}]
             /\ Handled(n, "SetNodeWallet", "Ok", {})
          \/ /\ section_funds[n].mode # "None" /\ id \notin members
             /\ Handled(n, "SetNodeWallet", "NodeNotFoundForReward", {})
             /\ UNCHANGED section_funds
       /\ UNCHANGED <<chunks, meta_data, transfers, members, lost, splitting, msgs, voted>>

\* ProcessLostMember: remove the wallet, then have the metadata trigger
\* chunk replication; the wallet is gone even if the latter fails.
ProcessLostMember(n) ==
    \E name \in lost[n] :
       /\ lost' = [lost EXCEPT ![n] = @ \ {name}]
       /\ \/ /\ section_funds[n].mode = "None"
             /\ Handled(n, "ProcessLostMember", "NoSectionFunds", {})
             /\ UNCHANGED section_funds
          \/ /\ section_funds[n].mode # "None"
             /\ section_funds' = [section_funds EXCEPT ![n].wallets = @ \ {name}]
             /\ \E r \in Served(meta_data[n], "NoMetadata") :
                   Handled(n, "ProcessLostMember", r, {})
       /\ UNCHANGED <<chunks, meta_data, transfers, members, splitting, msgs, voted>>

\* synch_state rebuilding the funds from the pushed state alone, so the
\* payments pending at the receiver are dropped.
synch_state_pushed_only(f, wallets) == [f EXCEPT !.wallets = wallets, !.payments = {}]

\* synch_state: the registry becomes the pushed one.  Not among the
\* sources: modelled from spec 4.4 (resynchronize the replicated state).
synch_state(f, wallets) == [f EXCEPT !.wallets = wallets]

\* SynchState (handle.rs 155-158): the pushed node_rewards go to
\* synch_state as they are; unlike SetNodeWallet (125-127) the arm does
\* not consult the live membership.  Without section funds synch_state
\* has no registry to write; a failed await leaves the registry as it was.
SynchState(n) ==
    \E m \in msgs :
       /\ m.kind = "sync" /\ m.to = n
       /\ msgs' = msgs \ {m}
       /\ \/ /\ section_funds[n].mode = "None"
             /\ Handled(n, "SynchState", "NoSectionFunds", {})
             /\ UNCHANGED section_funds
          \/ /\ section_funds[n].mode # "None"
             /\ \E r \in Outcome("Collaborator") :
                   /\ section_funds' = IF r = "Ok"
                                       THEN [section_funds EXCEPT ![n] =
                                                synch_state(@, m.wallets)]
                                       ELSE section_funds
                   /\ Handled(n, "SynchState", r, {})
       /\ UNCHANGED <<chunks, meta_data, transfers, members, lost, splitting, voted>>

\* AddPayment: record a credit paid to the section.
AddPayment(n) ==
    \E pay \in PaymentIds :
       /\ \/ /\ section_funds[n].mode = "None"
             /\ Handled(n, "AddPayment", "NoSectionFunds", {})
             /\ UNCHANGED section_funds
          \/ /\ section_funds[n].mode # "None"
             /\ section_funds' = [section_funds EXCEPT ![n].payments = @ \cup {pay}]
             /\ Handled(n, "AddPayment", "Ok", {})
       /\ UNCHANGED <<chunks, meta_data, transfers, members, lost, splitting, msgs, voted>>

(***************************************************************************)
(* Duties served by one subsystem; a missing subsystem is a typed error.  *)
(***************************************************************************)

\* Transfer duties (handle.rs 176-234, 284-288, 333-336, get_transfers
\* 400-406): GetTransferReplicaEvents, PropagateTransfer,
\* ValidateClientTransfer, SimulatePayout, GetTransfersHistory, GetBalance,
\* GetStoreCost, RegisterTransfer, IncrementFullNodeCount,
\* ProcessDataPayment.
Transfers(n) ==
    /\ \E r \in Served(transfers[n], "NoTransfers") : Handled(n, "Transfers", r, {})
    /\ UNCHANGED <<chunks, meta_data, transfers, section_funds, members, lost, splitting,
                   msgs, voted>>

\* ReadChunk (handle.rs 237-272): a read for an address outside our prefix
\* is forwarded to the owning section; otherwise the chunk store reads it
\* and checks its capacity.
ReadChunk(n) ==
    /\ \E ours \in BOOLEAN :
          \E r \in IF ours THEN Served(chunks[n], "NoChunks") ELSE {"Ok"} :
             Handled(n, "ReadChunk", r, {})
    /\ UNCHANGED <<chunks, meta_data, transfers, section_funds, members, lost, splitting,
                   msgs, voted>>

\* WriteChunk (handle.rs 273-280, get_chunks 384-390).
WriteChunk(n) ==
    /\ \E r \in Served(chunks[n], "NoChunks") : Handled(n, "WriteChunk", r, {})
    /\ UNCHANGED <<chunks, meta_data, transfers, section_funds, members, lost, splitting,
                   msgs, voted>>

\* ReplicateChunk and GetChunkForReplication (handle.rs 341-362).
ReplicateChunk(n) ==
    /\ \E r \in Served(chunks[n], "NoChunks") : Handled(n, "ReplicateChunk", r, {})
    /\ UNCHANGED <<chunks, meta_data, transfers, section_funds, members, lost, splitting,
                   msgs, voted>>

\* StoreChunkForReplication (handle.rs 363-379): the correlation id must
\* equal MessageId::combine(chunk address, our name); a mismatch is
\* discarded with Ok(vec![]) before the chunk store is even looked up.
StoreChunkForReplication(n) ==
    /\ \E matches \in BOOLEAN :
          \E r \in IF matches THEN Served(chunks[n], "NoChunks") ELSE {"Ok"} :
             Handled(n, "StoreChunkForReplication", r, {})
    /\ UNCHANGED <<chunks, meta_data, transfers, section_funds, members, lost, splitting,
                   msgs, voted>>

\* ProcessRead (handle.rs 303-328): forwarded unless our prefix matches.
ProcessRead(n) ==
    /\ \E ours \in BOOLEAN :
          \E r \in IF ours THEN Served(meta_data[n], "NoMetadata") ELSE {"Ok"} :
             Handled(n, "ProcessRead", r, {})
    /\ UNCHANGED <<chunks, meta_data, transfers, section_funds, members, lost, splitting,
                   msgs, voted>>

\* ProcessWrite (handle.rs 329-332, get_metadata 392-398).
ProcessWrite(n) ==
    /\ \E r \in Served(meta_data[n], "NoMetadata") : Handled(n, "ProcessWrite", r, {})
    /\ UNCHANGED <<chunks, meta_data, transfers, section_funds, members, lost, splitting,
                   msgs, voted>>

\* Duties that need no subsystem: ReachingMaxCapacity, Send, SendToNodes,
\* SetNodeJoinsAllowed (handle.rs 281-300).  IncrementFullNodeCount
\* (284-288) needs the transfers and is part of Transfers.
Misc(n) ==
    /\ \E r \in Outcome("Collaborator") : Handled(n, "Misc", r, {})
    /\ UNCHANGED <<chunks, meta_data, transfers, section_funds, members, lost, splitting,
                   msgs, voted>>

\* GetSectionElders (handle.rs 75-78): a remote section asks for our
\* Elders; get_section_elders needs no subsystem and may fail.
GetSectionElders(n) ==
    /\ \E r \in Outcome("Collaborator") : Handled(n, "GetSectionElders", r, {})
    /\ UNCHANGED <<chunks, meta_data, transfers, section_funds, members, lost, splitting,
                   msgs, voted>>

\* GetNodeWalletKey (handle.rs 140-144) answers Ok(vec![]) without a
\* lookup, whatever the role.
GetNodeWalletKey(n) ==
    /\ Handled(n, "GetNodeWalletKey", "Ok", {})
    /\ UNCHANGED <<chunks, meta_data, transfers, section_funds, members, lost, splitting,
                   msgs, voted>>

\* NoOp (handle.rs 380).
NoOp(n) ==
    /\ Handled(n, "NoOp", "Ok", {})
    /\ UNCHANGED <<chunks, meta_data, transfers, section_funds, members, lost, splitting,
                   msgs, voted>>

(***************************************************************************)
(* Routing and transport.                                                  *)
(***************************************************************************)

\* RoutingEvent::MemberLeft becomes a ProcessLostMember duty at every node
\* (network_events.rs 47-56).
MemberLeft(m) ==
    /\ m \in members
    /\ members' = members \ {m}
    /\ lost' = [n \in Nodes |-> lost[n] \cup {m}]
    /\ UNCHANGED <<chunks, meta_data, transfers, section_funds, splitting, msgs,
                   voted, last>>

\* RoutingEvent::MemberJoined (network_events.rs 57-79): the member is live
\* again; the ProcessNewMember duty it may produce has no arm in handle.rs.
MemberJoined(m) ==
    /\ m \in Members \ members
    /\ members' = members \cup {m}
    /\ UNCHANGED <<chunks, meta_data, transfers, section_funds, lost, splitting,
                   msgs, voted, last>>

\* Routing splits the section: a SectionSplit{newbie: false} duty is queued
\* at every Elder, which handles it in its own time.
SplitOccurs ==
    /\ \E n \in Nodes : IsElder(n)
    /\ splitting' = [n \in Nodes |-> splitting[n] \/ IsElder(n)]
    /\ UNCHANGED <<chunks, meta_data, transfers, section_funds, members, lost,
                   msgs, voted, last>>

\* A reward message is lost: the transport drops it, or evaluate_msg fails
\* to deserialize its MsgEnvelope and drops it with a log line
\* (network_events.rs 130-144).
LoseMessage ==
    /\ \E m \in msgs : msgs' = msgs \ {m}
    /\ UNCHANGED <<chunks, meta_data, transfers, section_funds, members, lost, splitting, voted, last>>

(***************************************************************************)
(* Specification                                                           *)
(***************************************************************************)

\* Every node has joined as an Adult; routing reports every member.
Init ==
    /\ chunks = [n \in Nodes |-> TRUE]
    /\ meta_data = [n \in Nodes |-> FALSE]
    /\ transfers = [n \in Nodes |-> FALSE]
    /\ section_funds = [n \in Nodes |-> NoFunds]
    /\ members = Members
    /\ lost = [n \in Nodes |-> {}]
    /\ splitting = [n \in Nodes |-> FALSE]
    /\ msgs = {}
    /\ voted = {}
    /\ last = [node |-> NoNode, duty |-> "None", result |-> "Ok", propagated |-> {}]

Handle(n) ==
    \/ Genesis(n) \/ EldersChanged(n) \/ SectionSplit(n) \/ LevelDown(n)
    \/ ReceiveRewardProposal(n) \/ ReceiveRewardAccumulation(n)
    \/ SetNodeWallet(n) \/ ProcessLostMember(n) \/ AddPayment(n)
    \/ SynchState(n)
    \/ Transfers(n) \/ ReadChunk(n) \/ WriteChunk(n) \/ ReplicateChunk(n)
    \/ StoreChunkForReplication(n)
    \/ ProcessRead(n) \/ ProcessWrite(n) \/ Misc(n)
    \/ GetSectionElders(n) \/ GetNodeWalletKey(n) \/ NoOp(n)

Next ==
    \/ \E n \in Nodes : Handle(n)
    \/ \E m \in Members : MemberLeft(m) \/ MemberJoined(m)
    \/ SplitOccurs
    \/ LoseMessage

Spec == Init /\ [][Next]_vars

(***************************************************************************)
(* Properties                                                              *)
(***************************************************************************)

TypeOK ==
    /\ chunks \in [Nodes -> BOOLEAN]
    /\ meta_data \in [Nodes -> BOOLEAN]
    /\ transfers \in [Nodes -> BOOLEAN]
    /\ section_funds \in [Nodes -> FundsStates]
    /\ members \subseteq Members
    /\ lost \in [Nodes -> SUBSET Members]
    /\ splitting \in [Nodes -> BOOLEAN]
    /\ msgs \subseteq Messages
    /\ voted \subseteq Nodes \X Credits
    /\ last \in [node : Nodes \cup {NoNode}, duty : DutyNames, result : Results,
                 propagated : SUBSET Credits]

\* Spec 3 NodeRole: between duties every node is exactly an Adult (chunk
\* store only) or an Elder (metadata, transfers and section funds, no chunk
\* store), whatever sequence of Genesis, EldersChanged, SectionSplit and
\* LevelDown duties it has handled.
RoleExclusive == \A n \in Nodes : IsAdult(n) \/ IsElder(n)

\* Spec 3 RewardWalletRegistry: a node's registry holds a wallet only for
\* a live member, or for one whose departure routing has reported and the
\* node has not yet processed (its ProcessLostMember duty is pending),
\* whatever the interleaving of SetNodeWallet, MemberLeft, MemberJoined,
\* ProcessLostMember, churn rounds and role changes.
WalletsOfMembers ==
    \A n \in Nodes : section_funds[n].wallets \subseteq members \cup lost[n]

\* Spec 4.3: the step in which a churn round completes (handle.rs 96-109)
\* both switches the funds to KeepingNodeWallets and emits a propagate duty
\* for every finalized proof; no round is closed without paying out.
CompletionPropagates ==
    [][\A n \in Nodes :
         (/\ last'.node = n /\ last'.duty = "ReceiveRewardAccumulation"
          /\ IsChurning(n) /\ section_funds'[n].mode = "KeepingNodeWallets")
         => last'.propagated = Credits]_vars

\* The duties that end or replace a node's round by changing its role or
\* opening a new one (spec 5: the only cancellation path).
RoleDuties == {"Genesis", "EldersChanged", "SectionSplit", "LevelDown"}

\* Spec 8: no error leaves the wallet registry or the churn process
\* partially updated; a duty other than a role change that fails leaves
\* the section funds as they were.  ProcessLostMember removes the wallet
\* before it awaits trigger_chunk_replication (handle.rs 145-152).
ErrorLeavesFundsUntouched ==
    [][(last'.duty \notin RoleDuties /\ last'.result # "Ok")
       => section_funds' = section_funds]_vars
\* Spec 3 and 4.3-4.4: every step of Node::handle, seen through the mode,
\* registry and payments of its section funds and the votes cast, is a
\* step of RewardAbstract: funds come only from level_up and go only with
\* LevelDown, a split opens a round and carries the registry, only a
\* Churning Elder votes (handle.rs 79-87, get_churning_funds 416-433), a
\* round closes only with a quorum for every credit and carries wallets
\* and payments (handle.rs 88-116), and payments are never dropped.
RA == INSTANCE RewardAbstract
         WITH mode <- [n \in Nodes |-> section_funds[n].mode],
              wallets <- [n \in Nodes |-> section_funds[n].wallets],
              payments <- [n \in Nodes |-> section_funds[n].payments],
              votes <- voted

RewardAbstractSpec == RA!ASpec
=============================================================================

--------------------------- MODULE NetworkEvents ---------------------------
(***************************************************************************)
(* NetworkEvents::process_network_event (src/src/node/node_duties/        *)
(* network_events.rs) composed with Node::handle.  Routing decides who is *)
(* an Elder and how old every node is; it tells each node through a FIFO  *)
(* of events.  The node takes one event at a time, re-reads its age from  *)
(* routing when the event is Relocated or Demoted, and turns the event    *)
(* into a role change of NodeDuties.  Role changes reach a node only this *)
(* way here: Genesis, EldersChanged{newbie} and the newbie side of a      *)
(* split are left out, so that routing's view is the one the node must    *)
(* follow.                                                                 *)
(***************************************************************************)
EXTENDS NodeDuties, Sequences

CONSTANTS
    MIN_AGE,     \* sn_routing::MIN_AGE: a node older than this is an Adult
    MaxAge,      \* bound on relocations: ages stay in MIN_AGE..MaxAge
    MaxEvents    \* bound on routing events queued at one node

VARIABLES
    age,            \* network.age(): routing's age of every node
    routing_elder,  \* routing's Elder set
    events          \* routing events not yet processed, per node

ne_vars == <<vars, age, routing_elder, events>>

EventKinds == {"PromotedToElder", "Relocated", "Demoted"}

\* network.age() > MIN_AGE (network_events.rs 103-104 and 114-115).
AgeClearsMinAgeStrict(n) == age[n] > MIN_AGE + 1

AgeClearsMinAge(n) == age[n] > MIN_AGE

(***************************************************************************)
(* Routing.  Each change of routing's state queues its event at the node. *)
(***************************************************************************)

Emit(n, e) ==
    /\ Len(events[n]) < MaxEvents
    /\ events' = [events EXCEPT ![n] = Append(@, e)]

\* A relocation makes the node one year older; the relocation of a node
\* that starts up (MemberJoined with startup_relocation) leaves its age.
RoutingRelocate(n) ==
    /\ ~routing_elder[n]
    /\ \/ /\ age[n] < MaxAge
          /\ age' = [age EXCEPT ![n] = @ + 1]
       \/ /\ age[n] = MIN_AGE
          /\ UNCHANGED age
    /\ Emit(n, "Relocated")
    /\ UNCHANGED <<vars, routing_elder>>

\* Routing picks its Elders among the Adults.
RoutingPromote(n) ==
    /\ ~routing_elder[n]
    /\ age[n] > MIN_AGE
    /\ routing_elder' = [routing_elder EXCEPT ![n] = TRUE]
    /\ Emit(n, "PromotedToElder")
    /\ UNCHANGED <<vars, age>>

RoutingDemote(n) ==
    /\ routing_elder[n]
    /\ routing_elder' = [routing_elder EXCEPT ![n] = FALSE]
    /\ Emit(n, "Demoted")
    /\ UNCHANGED <<vars, age>>

(***************************************************************************)
(* The translator and the duty it hands to Node::handle, in one step: the *)
(* node's loop handles the returned operation before its next event.      *)
(***************************************************************************)

\* duty_cfg.setup_as_elder (network_events.rs 43-46): the node levels up,
\* whatever it is at the moment.  DutyConfig is not among the sources; the
\* promotion is level_up of spec 4.4.
PromotedToElder(n) ==
    /\ level_up(n)
    /\ Handled(n, "PromotedToElder", "Ok", {})
    /\ UNCHANGED <<members, lost, splitting, msgs, voted>>

\* Relocated and Demoted (network_events.rs 101-124): the age is read now;
\* past MIN_AGE, setup_as_adult hands the node a LevelDown, otherwise the
\* event is ignored.
SetupAsAdultIfOfAge(n, e) ==
    IF AgeClearsMinAge(n)
    THEN LevelDown(n)
    ELSE /\ Handled(n, e, "Ok", {})
         /\ UNCHANGED <<chunks, meta_data, transfers, section_funds, members,
                        lost, splitting, msgs, voted>>

ProcessNetworkEvent(n) ==
    /\ events[n] # <<>>
    /\ events' = [events EXCEPT ![n] = Tail(@)]
    /\ LET e == Head(events[n]) IN
          IF e = "PromotedToElder" THEN PromotedToElder(n)
          ELSE SetupAsAdultIfOfAge(n, e)
    /\ UNCHANGED <<age, routing_elder>>

(***************************************************************************)
(* Specification                                                           *)
(***************************************************************************)

\* Every node has joined: an infant (age MIN_AGE) has no subsystem yet
\* (spec 4.4: Uninitialized), an older node is an Adult.  Routing has no
\* Elder and no event is pending.
NEInit ==
    /\ age \in [Nodes -> {MIN_AGE, MIN_AGE + 1}]
    /\ chunks = [n \in Nodes |-> age[n] > MIN_AGE]
    /\ meta_data = [n \in Nodes |-> FALSE]
    /\ transfers = [n \in Nodes |-> FALSE]
    /\ section_funds = [n \in Nodes |-> NoFunds]
    /\ members = Members
    /\ lost = [n \in Nodes |-> {}]
    /\ splitting = [n \in Nodes |-> FALSE]
    /\ msgs = {}
    /\ voted = {}
    /\ last = [node |-> NoNode, duty |-> "None", result |-> "Ok", propagated |-> {}]
    /\ routing_elder = [n \in Nodes |-> FALSE]
    /\ events = [n \in Nodes |-> <<>>]

\* The duties of Node::handle that do not change the role, among them the
\* EldersChanged{newbie: false} that routing sends to an Elder that stays.
HandleInRole(n) ==
    \/ SplitAsOldie(n) \/ ElderUpdatedOnChurn(n)
    \/ ReceiveRewardProposal(n) \/ ReceiveRewardAccumulation(n)
    \/ SetNodeWallet(n) \/ ProcessLostMember(n) \/ AddPayment(n)
    \/ SynchState(n)
    \/ Transfers(n) \/ ReadChunk(n) \/ WriteChunk(n) \/ ReplicateChunk(n)
    \/ StoreChunkForReplication(n)
    \/ ProcessRead(n) \/ ProcessWrite(n) \/ Misc(n)
    \/ GetSectionElders(n) \/ GetNodeWalletKey(n) \/ NoOp(n)

NENext ==
    \/ \E n \in Nodes :
          \/ RoutingRelocate(n) \/ RoutingPromote(n) \/ RoutingDemote(n)
          \/ ProcessNetworkEvent(n)
          \/ HandleInRole(n) /\ UNCHANGED <<age, routing_elder, events>>
    \/ /\ \/ \E m \in Members : MemberLeft(m) \/ MemberJoined(m)
          \/ SplitOccurs
          \/ LoseMessage
       /\ UNCHANGED <<age, routing_elder, events>>

NESpec == NEInit /\ [][NENext]_ne_vars

(***************************************************************************)
(* Properties                                                              *)
(***************************************************************************)

\* Spec 3 and 4.5: once a node has processed every routing event sent to
\* it, its subsystems are those of the role routing gives it: Elder
\* exactly when routing counts it among the Elders, Adult exactly when it
\* is not an Elder and is past MIN_AGE.  This is about the order in which
\* PromotedToElder, Demoted and Relocated are processed, the age re-read
\* at processing time (network_events.rs 103, 114), and setup_as_elder
\* acting without looking at the current role (network_events.rs 45).
RoleFollowsRouting ==
    \A n \in Nodes :
       events[n] = <<>> =>
          /\ IsElder(n) <=> routing_elder[n]
          /\ IsAdult(n) <=> ~routing_elder[n] /\ age[n] > MIN_AGE

====

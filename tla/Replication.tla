---------------------------- MODULE Replication ----------------------------
(***************************************************************************)
(* The chunk replication path through Node::handle (handle.rs 145-152,    *)
(* 341-379).  When a member leaves, the Elder handling ProcessLostMember  *)
(* has its metadata instruct a new holder per chunk the member held       *)
(* (ReplicateChunk); the new holder asks the current holders for the      *)
(* chunk (GetChunkForReplication); a holder sends it back                 *)
(* (StoreChunkForReplication), and the new holder stores it if the        *)
(* correlation id is MessageId::combine(address, our name).  The metadata *)
(* and chunk store internals are not among the sources: which node is     *)
(* chosen and which messages they send are modelled from spec 6.          *)
(***************************************************************************)
EXTENDS Naturals, FiniteSets

CONSTANTS
    Adults,          \* nodes with a chunk store
    Addresses,       \* chunk addresses
    InitialHolders,  \* the Adults holding every chunk at the start
    MaxLeft,         \* bound on members leaving
    Faults,          \* {"Collaborator"}: trigger_chunk_replication may fail
    Duplicates,      \* the transport may deliver a message twice
    NoAdult          \* model value: no store handled yet

VARIABLES
    live,     \* routing's live members among the Adults
    held,     \* the chunks in each node's chunk store
    lost,     \* departed members whose ProcessLostMember is not handled yet
    rmsgs,    \* replication messages in flight
    pending,  \* instructions issued and not yet stored: <<address, holder>>
    last      \* the last StoreChunkForReplication and what it did

rvars == <<live, held, lost, rmsgs, pending, last>>

Replicas == Cardinality(InitialHolders)

LiveHolders(a) == {n \in live : a \in held[n]}

Messages ==
    [kind : {"replicate"}, to : Adults, address : Addresses,
     holders : SUBSET Adults, id : Addresses \X Adults]
    \cup [kind : {"get"}, to : Adults, address : Addresses,
          new_holder : Adults, id : Addresses \X Adults]
    \cup [kind : {"store"}, to : Adults, address : Addresses,
          id : Addresses \X Adults]

\* A handled message leaves the network, unless the transport delivers it
\* once more; the messages the handler sends join it.
Reply(m, out) ==
    \E rest \in IF Duplicates THEN {rmsgs \ {m}, rmsgs} ELSE {rmsgs \ {m}} :
       rmsgs' = rest \cup out

(***************************************************************************)
(* Routing and the Elder's metadata.                                       *)
(***************************************************************************)

\* RoutingEvent::MemberLeft becomes ProcessLostMember (network_events.rs
\* 47-56).
MemberLeft(n) ==
    /\ n \in live
    /\ Cardinality(Adults \ live) < MaxLeft
    /\ live' = live \ {n}
    /\ lost' = lost \cup {n}
    /\ UNCHANGED <<held, rmsgs, pending, last>>

\* The id the metadata gives the instruction for the new holder t.
InstructionId(a, t) == <<a, t>>

\* ProcessLostMember, replication part (handle.rs 150-151): the metadata
\* picks, for every chunk the member held that still has a live holder, a
\* live node without it and sends it ReplicateChunk.  If the call fails,
\* `?` returns the error and no instruction is sent; the duty is gone.
ProcessLostMember(n) ==
    /\ n \in lost
    /\ lost' = lost \ {n}
    /\ LET todo == {a \in held[n] : LiveHolders(a) # {} /\ live \ LiveHolders(a) # {}}
       IN \E ok \in IF "Collaborator" \in Faults THEN {TRUE, FALSE} ELSE {TRUE} :
             IF ok
             THEN \E target \in [todo -> live] :
                     /\ \A a \in todo : target[a] \notin LiveHolders(a)
                     /\ rmsgs' = rmsgs \cup
                          {[kind |-> "replicate", to |-> target[a], address |-> a,
                            holders |-> LiveHolders(a),
                            id |-> InstructionId(a, target[a])] : a \in todo}
                     /\ pending' = pending \cup {<<a, target[a]>> : a \in todo}
             ELSE UNCHANGED <<rmsgs, pending>>
    /\ UNCHANGED <<live, held, last>>

(***************************************************************************)
(* Node::handle at the Adults.                                             *)
(***************************************************************************)

\* ReplicateChunk (handle.rs 341-350): chunks.replicate_chunk asks a
\* current holder for the chunk on behalf of this node.
ReplicateChunk(n) ==
    \E m \in rmsgs :
       /\ m.kind = "replicate" /\ m.to = n /\ n \in live
       /\ \E h \in m.holders :
             Reply(m, {[kind |-> "get", to |-> h, address |-> m.address,
                        new_holder |-> n, id |-> m.id]})
       /\ UNCHANGED <<live, held, lost, pending, last>>

\* GetChunkForReplication (handle.rs 351-362): a holder sends the chunk to
\* the new holder with the id it was given; without the chunk,
\* get_chunk_for_replication fails and nothing is sent.
GetChunkForReplication(n) ==
    \E m \in rmsgs :
       /\ m.kind = "get" /\ m.to = n /\ n \in live
       /\ Reply(m, IF m.address \in held[n]
                   THEN {[kind |-> "store", to |-> m.new_holder,
                          address |-> m.address, id |-> m.id]}
                   ELSE {})
       /\ UNCHANGED <<live, held, lost, pending, last>>

CorrelationIdSwapped(a, n) == <<n, a>>

\* MessageId::combine(vec![address name, our_name]) (handle.rs 366-369).
CorrelationId(a, n) == <<a, n>>

\* StoreChunkForReplication (handle.rs 363-379): store the chunk if the
\* correlation id is the one re-derived from the address and our name,
\* otherwise discard it with Ok(vec![]).
StoreChunkForReplication(n) ==
    \E m \in rmsgs :
       /\ m.kind = "store" /\ m.to = n /\ n \in live
       /\ Reply(m, {})
       /\ IF m.id = CorrelationId(m.address, n)
          THEN /\ held' = [held EXCEPT ![n] = @ \cup {m.address}]
               /\ pending' = pending \ {<<m.address, n>>}
               /\ last' = [node |-> n, address |-> m.address, result |-> "Stored"]
          ELSE /\ last' = [node |-> n, address |-> m.address, result |-> "Discarded"]
               /\ UNCHANGED <<held, pending>>
       /\ UNCHANGED <<live, lost>>

(***************************************************************************)
(* Specification                                                           *)
(***************************************************************************)

RInit ==
    /\ live = Adults
    /\ held = [n \in Adults |-> IF n \in InitialHolders THEN Addresses ELSE {}]
    /\ lost = {}
    /\ rmsgs = {}
    /\ pending = {}
    /\ last = [node |-> NoAdult, address |-> CHOOSE a \in Addresses : TRUE,
               result |-> "None"]

RNext ==
    \E n \in Adults :
       \/ MemberLeft(n) \/ ProcessLostMember(n)
       \/ ReplicateChunk(n) \/ GetChunkForReplication(n)
       \/ StoreChunkForReplication(n)

\* Every node's loop drains the duties addressed to it, and the Elder
\* handles every ProcessLostMember.
RFairness ==
    \A n \in Adults :
       /\ WF_rvars(ProcessLostMember(n))
       /\ WF_rvars(ReplicateChunk(n))
       /\ WF_rvars(GetChunkForReplication(n))
       /\ WF_rvars(StoreChunkForReplication(n))

RSafeSpec == RInit /\ [][RNext]_rvars

RSpec == RSafeSpec /\ RFairness

(***************************************************************************)
(* Properties                                                              *)
(***************************************************************************)

\* Spec 4.1 and 9: ProcessLostMember triggers the re-replication of every
\* chunk the departed member held, and the ReplicateChunk,
\* GetChunkForReplication and StoreChunkForReplication duties carry it to
\* a new holder: a chunk that lost a replica and still has a live one is
\* eventually back at as many live nodes as there were at the start.
LostReplicaRestored ==
    \A a \in Addresses :
       [](LiveHolders(a) # {} /\ Cardinality(LiveHolders(a)) < Replicas
          => <>(Cardinality(LiveHolders(a)) >= Replicas))

\* Spec 4.1 and 10 (correlation id): the id check of
\* StoreChunkForReplication (handle.rs 366-377) rejects stale duplicates,
\* so a chunk is stored only in answer to an instruction that has not
\* been served yet.
ReplayRejected ==
    [][last'.result = "Stored" => <<last'.address, last'.node>> \in pending]_rvars

====

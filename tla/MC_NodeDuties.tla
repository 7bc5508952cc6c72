--------------------------- MODULE MC_NodeDuties ---------------------------
(* Model-checking instance of NodeDuties: model values for the nodes,     *)
(* members, credits and payments are given in the .cfg files.             *)
EXTENDS NodeDuties, TLC

\* Nodes and members are interchangeable identities.
Symmetry == Permutations(Nodes) \cup Permutations(Members)

\* No action reads last: it records the duty a step handled for the action
\* properties, which read it only in the primed state.  States that differ
\* only in last have the same successors, so they are identified.
StateView == <<chunks, meta_data, transfers, section_funds, members, lost, splitting, msgs, voted>>

\* The churn run is about the reward round: a push_state from a
\* non-newbie EldersChanged is in flight there only while no reward
\* message is, which keeps the run within bounds.
SyncAlone == \A m \in msgs : m.kind = "sync" => msgs = {m}
=============================================================================

--------------------------- MODULE RewardProcess ---------------------------
(***************************************************************************)
(* The reward churn process of one Elder: section_funds::reward_process   *)
(* and section_funds::reward_stage.  Their code is not among the sources  *)
(* of this repository, so every operator here is written from the spec    *)
(* (spec.md 3 RewardChurnProcess/RewardStage, 4.2).  The process is a pure *)
(* value; the node that owns it (NodeDuties) calls these operators from   *)
(* Node::handle.                                                           *)
(***************************************************************************)
EXTENDS Naturals, FiniteSets

CONSTANTS
    Nodes,      \* the Elders that can contribute evidence
    Credits,    \* the CreditIds whose split the round agrees on
    Quorum      \* evidence threshold, derived from the section membership

Stages == {"AwaitingProposals", "Accumulating", "Completed"}

\* A process is its RewardStage plus the partial evidence per CreditId.
ProcessStates == [stage : Stages, evidence : [Credits -> SUBSET Nodes]]

\* RewardProcess::new: a fresh round holds no evidence.
NewProcess ==
    [stage |-> "AwaitingProposals", evidence |-> [c \in Credits |-> {}]]

\* Quorum test on the set of distinct Elders that sent evidence for one id.
HasQuorum(voters) == Cardinality(voters) >= Quorum

\* receive_churn_proposal: records the proposal; the stage leaves
\* AwaitingProposals but never becomes Completed here.
receive_churn_proposal(p) ==
    IF p.stage = "AwaitingProposals" THEN [p EXCEPT !.stage = "Accumulating"]
                                     ELSE p

\* receive_wallet_accumulation: merge one Elder's evidence for one id; the
\* round completes when every id has quorum.  Evidence is a set of senders,
\* so a duplicate does not count twice and the order of merges is immaterial.
receive_wallet_accumulation(p, from, c) ==
    LET ev == [p.evidence EXCEPT ![c] = @ \cup {from}]
    IN  IF p.stage = "Completed" THEN p
        ELSE [stage    |-> IF \A x \in Credits : HasQuorum(ev[x])
                           THEN "Completed" ELSE p.stage,
              evidence |-> ev]

\* The finalized CreditAgreementProofs of a completed round.
CompletedProofs(p) == {c \in Credits : HasQuorum(p.evidence[c])}
=============================================================================

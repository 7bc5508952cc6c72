------------------------- MODULE MC_NetworkEvents --------------------------
EXTENDS NetworkEvents, TLC

NESymmetry == Permutations(Nodes)

\* last is written by every step and read by no action or invariant here.
NEView == <<chunks, meta_data, transfers, section_funds, members, lost,
           splitting, msgs, voted, age, routing_elder, events>>
=============================================================================

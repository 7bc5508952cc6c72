-------------------------- MODULE MC_Replication ---------------------------
EXTENDS Replication, TLC
=============================================================================

--------------------------- MODULE RewardAbstract ---------------------------
(***************************************************************************)
(* What the section funds of every node promise (spec 3 and 4.3-4.4),     *)
(* with the reward protocol reduced to the votes the Elders have cast:    *)
(*   - a node without funds gets them only by levelling up, and loses     *)
(*     them only by levelling down; both start the registry afresh;       *)
(*   - a split opens a round and carries the wallets and payments;        *)
(*   - a node votes only while its round is open;                         *)
(*   - a round closes only when every credit has a quorum of voters, and  *)
(*     closing carries the wallets and payments;                          *)
(*   - while a node has funds, payments are never dropped.                *)
(***************************************************************************)
EXTENDS Naturals, FiniteSets

CONSTANTS Nodes, Credits, Quorum, Members, PaymentIds

VARIABLES
    mode,      \* per node: "None", "Churning" or "KeepingNodeWallets"
    wallets,   \* per node: members with a wallet in the registry
    payments,  \* per node: payments received
    votes      \* <<elder, credit>> for every vote cast

avars == <<mode, wallets, payments, votes>>

AInit ==
    /\ mode = [n \in Nodes |-> "None"]
    /\ wallets = [n \in Nodes |-> {}]
    /\ payments = [n \in Nodes |-> {}]
    /\ votes = {}

Fresh(n, m) ==
    /\ mode' = [mode EXCEPT ![n] = m]
    /\ wallets' = [wallets EXCEPT ![n] = {}]
    /\ payments' = [payments EXCEPT ![n] = {}]
    /\ UNCHANGED votes

LevelUp(n) == mode[n] = "None" /\ Fresh(n, "KeepingNodeWallets")

LevelDown(n) == Fresh(n, "None")

OpenRound(n) ==
    /\ mode[n] # "None"
    /\ mode' = [mode EXCEPT ![n] = "Churning"]
    /\ UNCHANGED <<wallets, payments, votes>>

Vote(n) ==
    /\ mode[n] = "Churning"
    /\ votes' = votes \cup ({n} \X Credits)
    /\ UNCHANGED <<mode, wallets, payments>>

CloseRound(n) ==
    /\ mode[n] = "Churning"
    /\ \A c \in Credits : Cardinality({v \in Nodes : <<v, c>> \in votes}) >= Quorum
    /\ mode' = [mode EXCEPT ![n] = "KeepingNodeWallets"]
    /\ UNCHANGED <<wallets, payments, votes>>

UpdateRegistry(n) ==
    /\ mode[n] # "None"
    /\ wallets' \in [Nodes -> SUBSET Members]
    /\ payments' \in [Nodes -> SUBSET PaymentIds]
    /\ \A m \in Nodes \ {n} : wallets'[m] = wallets[m] /\ payments'[m] = payments[m]
    /\ payments[n] \subseteq payments'[n]
    /\ UNCHANGED <<mode, votes>>

ANext ==
    \E n \in Nodes :
       \/ LevelUp(n) \/ LevelDown(n) \/ OpenRound(n) \/ Vote(n)
       \/ CloseRound(n) \/ UpdateRegistry(n)

ASpec == AInit /\ [][ANext]_avars

====

------------------------------ MODULE MCStaking ------------------------------
(***************************************************************************)
(* Small instances of Staking.                                             *)
(***************************************************************************)
EXTENDS Staking

MCAccounts == {"staker", "delegator"}
MCEpochs == 1..9
MCPlans == {[e \in {2} |-> 1], [e \in {2, 3} |-> 1]}
MCBalance == [a \in Accounts |-> 2]
MCThresholds == <<2, 1>>
MCRaised == <<1, 2>>
MCEvidence == {2}
==============================================================================

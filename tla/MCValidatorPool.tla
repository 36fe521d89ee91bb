-------------------------- MODULE MCValidatorPool --------------------------
(* Instances of ValidatorPool for TLC: the validators change in every round.  *)
EXTENDS ValidatorPool

CONSTANTS n1, n2, n3, n4

MCIndex[n \in 0..MaxNumber] ==
    IF n = 0 THEN [lo |-> 0, hi |-> 1] ELSE EndBlock(MCIndex[n - 1], n)

MCElected ==
    [r \in 0..5 |-> CASE r <= 1 -> {n1, n2} [] r = 2 -> {n2, n3} [] r = 3 -> {n3, n4}
                      [] r = 4 -> {n4, n1} [] OTHER -> {n1, n3}]
=============================================================================

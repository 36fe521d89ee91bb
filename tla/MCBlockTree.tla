---------------------------- MODULE MCBlockTree ----------------------------
(***************************************************************************)
(* A block universe for BlockTree.  A chain is the set of the views that   *)
(* added a block to it, written as a bit mask: view v is bit v, genesis is *)
(* 0, and the parent of a block lacks its highest bit.  Each view adds at  *)
(* most one block to a chain, as with Amount = 1, and every subset of the  *)
(* Views views is a chain, so every fork over them is present.  The views  *)
(* from EpochView on belong to the second epoch and count from 0 again.    *)
(***************************************************************************)
EXTENDS BlockTree, FiniteSets, FiniteSetsExt

CONSTANTS Views, EpochView

Bits(b) == {v \in 0..(Views - 1) : (b \div 2^v) % 2 = 1}

MCBlock == 0..(2^Views - 1)
MCGenesis == 0
MCParent == [b \in MCBlock |-> IF b = 0 THEN 0 ELSE b - 2^Max(Bits(b))]
MCNumber == [b \in MCBlock |-> Cardinality(Bits(b))]
MCEpoch == [b \in MCBlock |->
    CASE b = 0 -> 0 [] b > 0 /\ b < 2^EpochView -> 1 [] OTHER -> 2]
MCViewNumber == [b \in MCBlock |->
    CASE b = 0 -> 0
      [] b > 0 /\ b < 2^EpochView -> Max(Bits(b))
      [] OTHER -> Max(Bits(b)) - EpochView]
=============================================================================

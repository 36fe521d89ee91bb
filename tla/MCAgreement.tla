---------------------------- MODULE MCAgreement ----------------------------
(***************************************************************************)
(* Four validators, one of them faulty: two of the three correct ones      *)
(* suffice for a certificate.  Blocks 2 and 3 fill view 0, so that 4 opens *)
(* view 1 on block 3 without a ViewChangeQC; 5 follows it and commits 3.   *)
(* The first place of view 2 has two blocks, 6 on block 2 and 7 on the     *)
(* genesis block.                                                          *)
(***************************************************************************)
EXTENDS Agreement, FiniteSetsExt, TLC

MCBlock == 1..7
MCGenesis == 1
MCParent ==     <<1, 1, 2, 3, 4, 2, 1>>
MCNumber ==     <<0, 1, 2, 3, 4, 2, 1>>
MCEpoch ==      <<0, 1, 1, 1, 1, 1, 1>>
MCViewNumber == <<0, 0, 0, 1, 1, 2, 2>>
MCBlockIndex == <<0, 0, 1, 0, 1, 0, 0>>
MCChain == <<{1}, {1, 2}, {1, 2, 3}, {1, 2, 3, 4}, {1, 2, 3, 4, 5}, {1, 2, 6}, {1, 7}>>
MCQuorum == kSubset(2, Validator)
Sym == Permutations(Validator)
=============================================================================

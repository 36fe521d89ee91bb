---------------------------- MODULE MCSnapshotDB ----------------------------
(***************************************************************************)
(* A chain of four blocks and block 5, a fork of the second; block 3 is    *)
(* sealed here.                                                            *)
(***************************************************************************)
EXTENDS SnapshotDB

MCBlock == 0..5
MCParent == 0 :> 0 @@ <<0, 1, 2, 3, 1>>
MCNumber == 0 :> 0 @@ <<1, 2, 3, 4, 2>>
MCFinal == <<1, 2, 3, 4>>
MCTouch == <<{1, 2, 3}, {1}, {3}, {2}, {1, 2}>>
MCWipe == <<{}, {}, {1}, {}, {}>>
MCReads == {<<3, 2>>}
MCRanks == {<<3, 0>>, <<3, 1>>}
=============================================================================

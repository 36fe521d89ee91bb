----------------------------- MODULE MCCbftNode -----------------------------
(***************************************************************************)
(* A block universe for CbftNode.  A chain is written as a number in base  *)
(* Amount + 1: digit v is the number of blocks that the v-th view added to *)
(* it.  Genesis is 0 and the parent of a block has one block less in its   *)
(* last view.  The block itself is the number plus one, so that a table of *)
(* values is a function on blocks.  The views from EpochView on belong to  *)
(* the second epoch and count from 0 again; a block belongs to the second  *)
(* epoch exactly when its number is above EpochSize.  The proposer of each *)
(* view picks one block of an earlier view (or genesis) and proposes       *)
(* Amount blocks on it, or as many as the epoch has left.                  *)
(***************************************************************************)
EXTENDS CbftNode, FiniteSetsExt

CONSTANTS Views, EpochView

Size == (Amount + 1)^Views

Digit(c, v) == (c \div (Amount + 1)^v) % (Amount + 1)

Top(c) == Max({v \in 0..(Views - 1) : Digit(c, v) > 0} \cup {0})

(* The values of f on the chains 0..(Size - 1), computed once. *)
Table(f(_)) == <<>> \o [b \in 1..Size |-> f(b - 1)]

BlockTable == 1..Size
ParentTable ==
    Table(LAMBDA c : IF c = 0 THEN 1 ELSE c - (Amount + 1)^Top(c) + 1)
NumberTable ==
    Table(LAMBDA c : MapThenSumSet(LAMBDA v : Digit(c, v), 0..(Views - 1)))
EpochTable ==
    Table(LAMBDA c : CASE c = 0 -> 0 [] c > 0 /\ Top(c) < EpochView -> 1 [] OTHER -> 2)
ViewTable ==
    Table(LAMBDA c : IF Top(c) >= EpochView THEN Top(c) - EpochView ELSE Top(c))
IndexTable ==
    Table(LAMBDA c : IF c = 0 THEN 0 ELSE Digit(c, Top(c)) - 1)

MCBlock == BlockTable
MCGenesis == 1
MCParent == ParentTable
MCNumber == NumberTable
MCEpoch == EpochTable
MCViewNumber == ViewTable
MCBlockIndex == IndexTable
MCNone == 0 - 1
MCReady == 0 - 2

(* The proposals of view v on base: an epoch starts when the previous one   *)
(* is complete and ends with its last block.                                *)
On(base, v) ==
    {b \in {base + k * (Amount + 1)^v : k \in 1..Amount} :
        IF v < EpochView THEN NumberTable[b] <= EpochSize
        ELSE NumberTable[base] >= EpochSize}

(* The sets of proposals of the first v views. *)
Scenarios[v \in 0..Views] ==
    IF v = 0 THEN {{}}
    ELSE UNION {{P \cup On(base, v - 1) : base \in P \cup {1}} : P \in Scenarios[v - 1]}

(* The largest sets of certified blocks: a smaller one allows no more.      *)
Certifiable(P) ==
    LET A == {Q \in SUBSET P : Agreed(P, Q)}
    IN  {Q \in A : \A R \in A : Q \subseteq R => Q = R}

MCOutcomes ==
    UNION {{[proposed |-> P, certified |-> Q] : Q \in Certifiable(P)} : P \in Scenarios[Views]}
=============================================================================

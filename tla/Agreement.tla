----------------------------- MODULE Agreement -----------------------------
(***************************************************************************)
(* The validators of one epoch together: what they propose, vote for,      *)
(* insert and report.  Each signs as Voter promises, one signature at a    *)
(* time; between them is a network that loses, delays and reorders         *)
(* everything: a message that exists may reach any validator at any time   *)
(* or never, so the messages are the sets of signatures themselves.        *)
(* Validators lag and stop, and come back with what they signed (one that  *)
(* forgot it counts as faulty); several blocks may be proposed for one     *)
(* place of a view.                                                        *)
(*                                                                         *)
(* The signatures of faulty validators are not constrained: whatever       *)
(* certificate they could complete counts as complete.  So Quorum holds    *)
(* the sets of CORRECT validators that suffice.  With n validators,        *)
(* f <= (n-1)/3 of them faulty and the threshold n-(n-1)/3 of cbft.go,     *)
(* that is every set of n-(n-1)/3-f correct ones, and any two of these     *)
(* share a member.  Proposals, however, come only from validators that run *)
(* this code: what OnSeal builds on is part of the argument, not only what *)
(* the voters check.                                                       *)
(***************************************************************************)
EXTENDS Votes, FiniteSets

CONSTANTS Chain,        \* the ancestors of a block, the block included
          Validator,    \* the correct validators of the epoch
          Quorum,       \* the sets of them that suffice for a certificate
          Amount,       \* Sys.Amount: blocks per view (10 in params/config.go)
          ChangeView    \* bound: the views for which ViewChanges are signed

ASSUME AgreementAssumption ==
    /\ BlockIndex \in [Block -> Nat]
    /\ Chain \in [Block -> SUBSET Block]
    /\ Chain[Genesis] = {Genesis}
    /\ \A b \in Block \ {Genesis} : Chain[b] = Chain[Parent[b]] \cup {b}
    /\ Quorum \subseteq SUBSET Validator
    /\ \A Q, R \in Quorum : Q \cap R # {}
    /\ Amount \in Nat \ {0, 1} /\ ChangeView \subseteq Nat
    /\ \A b \in Block : Epoch[b] = (IF b = Genesis THEN 0 ELSE 1)

VARIABLES votes,     \* votes[n]: blocks n signed a PrepareVote for
          changes,   \* changes[n]: the ViewChanges n signed
          known,     \* known[n]: the certified blocks n has inserted in its tree
          proposals  \* the blocks that proposers have sent

vars == <<votes, changes, known, proposals>>

(* A block with a quorum certificate: enough votes for it exist.  Genesis   *)
(* needs none.                                                              *)
Certified(b) == b = Genesis \/ \E Q \in Quorum : \A n \in Q : b \in votes[n]

CertifiedBlocks == {b \in Block : Certified(b)}

(* A ViewChangeQC of view v whose MaxBlock is m can be made: no correct     *)
(* signer reported a higher block, and m is certified (a faulty signer may  *)
(* be the one who reported it).                                             *)
HasViewChangeQC(v, m) ==
    /\ Certified(m)
    /\ \E Q \in Quorum : \A n \in Q : \E c \in changes[n] :
          c.number = v /\ ~HigherQuorumCert(c.block, m)

(* HighestQCBlock of n. *)
IsHighest(n, p) == p \in known[n] /\ \A y \in known[n] : ~HigherQuorumCert(y, p)

(* The last block of view v is certified and n holds it, so tryChangeView   *)
(* takes n to the next view without a ViewChangeQC.                         *)
HoldsLast(n, v) ==
    \E l \in known[n] \ {Genesis} : ViewNumber[l] = v /\ BlockIndex[l] + 1 = Amount

(* The block that n, proposer of view v, builds its first block on          *)
(* (HighestExecutedBlock).  It came to the view without a ViewChangeQC: its *)
(* highest certified block, of which OnSeal's own checkViewChangeQC wants   *)
(* the last index unless it is genesis.  Or with one: its max block.  A     *)
(* node with nothing but genesis does not need to hold that block, and then *)
(* builds on genesis, since a block of number 1 is not checked.             *)
Base(n, v, p) ==
    \/ /\ v > 0 => HoldsLast(n, v - 1)
       /\ IsHighest(n, p)
       /\ p = Genesis \/ BlockIndex[p] + 1 = Amount
    \/ /\ v > 0 /\ p \in known[n]
       /\ HasViewChangeQC(v - 1, p)
    \/ /\ v > 0 /\ known[n] = {Genesis} /\ p = Genesis
       /\ \E m \in Block : HasViewChangeQC(v - 1, m)

Init ==
    /\ votes = [n \in Validator |-> {}] /\ changes = [n \in Validator |-> {}]
    /\ known = [n \in Validator |-> {Genesis}] /\ proposals = {}

(* Validator n, proposer of the view of b, seals and sends b: on the        *)
(* previous block of its view, or as the first one, when it has no          *)
(* certificate of the view yet.                                             *)
Propose(n, b) ==
    /\ b # Genesis /\ b \notin proposals /\ BlockIndex[b] < Amount
    /\ IF BlockIndex[b] > 0
       THEN /\ Parent[b] \in proposals /\ ViewNumber[Parent[b]] = ViewNumber[b]
            /\ BlockIndex[Parent[b]] + 1 = BlockIndex[b]
       ELSE /\ \A y \in known[n] \ {Genesis} : ViewNumber[y] < ViewNumber[b]
            /\ Base(n, ViewNumber[b], Parent[b])
    /\ proposals' = proposals \cup {b}
    /\ UNCHANGED <<votes, changes, known>>

(* Validator n inserts b with its certificate (insertQCBlock).  A block     *)
(* below its highest certified one is not taken in.                         *)
Insert(n, b) ==
    /\ b \notin known[n] /\ Parent[b] \in known[n]
    /\ \A y \in known[n] : Number[y] <= Number[b]
    /\ Certified(b)
    /\ known' = [known EXCEPT ![n] = @ \cup {b}]
    /\ UNCHANGED <<votes, changes, proposals>>

(* Mutant of Vote: a second block of the same place gets a vote too.        *)
VoteTwice(n, b) ==
    /\ b \in proposals /\ b \notin votes[n]
    /\ \A c \in changes[n] : c.number < ViewNumber[b]
    /\ \A d \in votes[n] : ViewNumber[d] <= ViewNumber[b]
    /\ Parent[b] \in known[n]
    /\ \A y \in known[n] \ {Genesis} : ViewNumber[y] <= ViewNumber[b]
    /\ votes' = [votes EXCEPT ![n] = @ \cup {b}]
    /\ UNCHANGED <<changes, known, proposals>>

(* Validator n signs a PrepareVote for a proposed block: in its view, that  *)
(* of no certificate it holds is after, with the parent in its tree.        *)
Vote(n, b) ==
    /\ b \in proposals /\ b \notin votes[n]
    /\ Parent[b] \in known[n]
    /\ CanVote(b, votes[n], changes[n])
    /\ \A y \in known[n] \ {Genesis} : ViewNumber[y] <= ViewNumber[b]
    /\ votes' = [votes EXCEPT ![n] = @ \cup {b}]
    /\ UNCHANGED <<changes, known, proposals>>

(* Mutant of Change: the block reported need not be the highest certified.  *)
ChangeLower(n, v, m) ==
    LET c == [epoch |-> 1, number |-> v, block |-> m]
    IN  /\ \A b \in votes[n] : ViewNumber[b] <= v
        /\ \A d \in changes[n] : d.number < v
        /\ changes' = [changes EXCEPT ![n] = @ \cup {c}]
        /\ UNCHANGED <<votes, known, proposals>>

(* Validator n signs a ViewChange for view v on block m of its tree.        *)
Change(n, v, m) ==
    LET c == [epoch |-> 1, number |-> v, block |-> m]
    IN  /\ CanChange(c, votes[n], changes[n])
        /\ changes' = [changes EXCEPT ![n] = @ \cup {c}]
        /\ UNCHANGED <<votes, known, proposals>>

Next == \E n \in Validator :
           \/ \E b \in Block : Propose(n, b) \/ Insert(n, b) \/ Vote(n, b)
           \/ \E v \in ChangeView, m \in known[n] : Change(n, v, m)

Spec == Init /\ [][Next]_vars
-----------------------------------------------------------------------------
(* Type invariant: a validator signs votes for blocks and ViewChanges of    *)
(* this epoch.                                                              *)
TypeOK ==
    /\ votes \in [Validator -> SUBSET (Block \ {Genesis})]
    /\ changes \in [Validator -> SUBSET [epoch : {1}, number : Nat, block : Block]]
    /\ known \in [Validator -> SUBSET Block]
    /\ proposals \subseteq Block \ {Genesis}

(* What the signatures made so far keep to.  A validator votes once for a   *)
(* place of a view, for proposals on parents of its tree; its ViewChanges   *)
(* are not below the parent of any block it voted for in that view or       *)
(* before; and a certificate it took in of a later view than one of its     *)
(* votes is not below the parent it voted on.                               *)
Evidence ==
    \A n \in Validator :
        /\ \A b, d \in votes[n] : SameSlot(b, d) => b = d
        /\ \A c \in changes[n], b \in votes[n] :
              ViewNumber[b] <= c.number => ~HigherQuorumCert(Parent[b], c.block)
        /\ \A b \in votes[n] : b \in proposals /\ Parent[b] \in known[n]
        /\ \A b \in votes[n], q \in known[n] \ {Genesis} :
              ViewNumber[q] > ViewNumber[b] => Number[q] >= Number[Parent[b]]
        /\ \A b \in known[n] : Certified(b)

(* What stays true of a proposal of OnSeal.  A first block of a later view  *)
(* is on the max block of a ViewChangeQC of the view before, or on a last   *)
(* block not below a certified last block of the view before, or is block 1.*)
Justified(b) ==
    LET p == Parent[b]
        v == ViewNumber[b]
    IN  /\ BlockIndex[b] > 0 =>
              p # Genesis /\ ViewNumber[p] = v /\ BlockIndex[p] + 1 = BlockIndex[b]
        /\ BlockIndex[b] = 0 /\ v = 0 => p = Genesis
        /\ BlockIndex[b] = 0 /\ v > 0 =>
              \/ HasViewChangeQC(v - 1, p)
              \/ /\ p # Genesis /\ ViewNumber[p] < v /\ BlockIndex[p] + 1 = Amount
                 /\ \E l \in CertifiedBlocks \ {Genesis} :
                       /\ ViewNumber[l] + 1 = v /\ BlockIndex[l] + 1 = Amount
                       /\ ~HigherQuorumCert(l, p)
              \/ p = Genesis

ProposalsJustified == \A b \in proposals : BlockIndex[b] < Amount /\ Justified(b)

(* No place of a view gets two certificates, whatever the proposer sends to *)
(* whom.                                                                    *)
OneCertificate ==
    LET C == CertifiedBlocks \ {Genesis}
    IN  \A b, d \in C : (ViewNumber[b] = ViewNumber[d] /\ BlockIndex[b] = BlockIndex[d])
                            => b = d

(* The certificate of b commits its grandparent (tryCommitNewBlock).  It is *)
(* a close commit when b and its parent are of the same view or of          *)
(* consecutive ones.                                                        *)
Close(b) == Number[b] > 2 /\ ViewNumber[b] <= ViewNumber[Parent[b]] + 1

(* Every certificate of a later view is of a descendant of the block that a *)
(* close commit committed.  Only a block 1 of a proposer that knew nothing  *)
(* but genesis may still get one, and never a certified successor.          *)
Finality ==
    LET C == CertifiedBlocks \ {Genesis}
    IN  \A b, x \in C :
           Close(b) /\ ViewNumber[x] > ViewNumber[b] /\ Number[x] > 1
               => Parent[Parent[b]] \in Chain[x]

(* Two validators never commit different blocks of one height, if both      *)
(* commits are close.                                                       *)
CommitsAgree ==
    LET C == {Parent[Parent[b]] : b \in {d \in CertifiedBlocks \ {Genesis} : Close(d)}}
    IN  \A c, d \in C : Number[c] = Number[d] => c = d
=============================================================================

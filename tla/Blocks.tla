------------------------------- MODULE Blocks -------------------------------
(***************************************************************************)
(* The universe of blocks, the quorum certificates they carry, and the     *)
(* pure operations of consensus/cbft/types/block_tree.go.                  *)
(*                                                                         *)
(* A block is an opaque value (its hash).  Parent, Number, Epoch and       *)
(* ViewNumber are the fields of the block and of the one quorum            *)
(* certificate it can obtain: a block is proposed in one view, so its      *)
(* certificate names that epoch and view.  The genesis block carries none. *)
(*                                                                         *)
(* A block tree is the set of blocks held in the nested map "blocks"       *)
(* together with its root.  Parent and Children pointers are not stored:   *)
(* every caller inserts a block only when its parent is in the tree, so    *)
(* fixTree sets the pointer of b exactly when b is not the root and        *)
(* Parent[b] is in the tree.                                               *)
(***************************************************************************)
EXTENDS Naturals

CONSTANTS Block,       \* the blocks that may ever exist
          Genesis,     \* the block of number 0
          Parent,      \* Block.ParentHash()
          Number,      \* Block.NumberU64()
          Epoch,       \* QuorumCert.Epoch
          ViewNumber   \* QuorumCert.ViewNumber

ASSUME BlockAssumption ==
    /\ Genesis \in Block
    /\ Parent \in [Block -> Block]
    /\ Number \in [Block -> Nat]
    /\ Epoch \in [Block -> Nat]
    /\ ViewNumber \in [Block -> Nat]
    /\ Parent[Genesis] = Genesis
    /\ Number[Genesis] = 0
    /\ \A b \in Block \ {Genesis} : Number[b] = Number[Parent[b]] + 1

-----------------------------------------------------------------------------
(* QuorumCert.HigherBlockView: certificates are ordered by epoch, then view. *)
HigherBlockView(b, c) ==
    \/ Epoch[b] > Epoch[c]
    \/ Epoch[b] = Epoch[c] /\ ViewNumber[b] > ViewNumber[c]

(* QuorumCert.HigherQuorumCert: by block number first.                      *)
HigherQuorumCert(b, c) ==
    \/ Number[b] > Number[c]
    \/ Number[b] = Number[c] /\ HigherBlockView(b, c)

-----------------------------------------------------------------------------
(* blockExt.Parent # nil *)
HasParent(b, tree, root) == b # root /\ Parent[b] \in tree

(* findForkedBlockExts and the block itself: the blocks of one height.      *)
SameHeight(b, tree) == {e \in tree : Number[e] = Number[b]}

(* The view number of a blockExt plus one; the root view number of genesis  *)
(* is math.MaxUint64, whose successor wraps to 0.                           *)
ViewRank(b) == IF b = Genesis THEN 0 ELSE ViewNumber[b] + 1

(* The blocks maxBlock may return for b: b itself unless a block of the     *)
(* same height with a parent has a strictly higher view (the epoch is not   *)
(* compared).  Go iterates the map in any order, so among equally high ones *)
(* any may be returned.                                                     *)
maxBlock(b, tree, root) ==
    LET linked == {e \in SameHeight(b, tree) : HasParent(e, tree, root)}
    IN  {m \in linked \cup {b} :
            /\ \A e \in linked : ViewRank(e) <= ViewRank(m)
            /\ m = b \/ ViewRank(m) > ViewRank(b)}

(* commitBlock: the lock block of m is its parent, the commit block its     *)
(* grandparent; a child of the root has the root as both.                   *)
lockOf(m) == Parent[m]
commitOf(m, root) == IF lockOf(m) = root THEN root ELSE Parent[lockOf(m)]

(* commitBlock dereferences ext.Parent and lock.Parent: it panics when one  *)
(* is nil.                                                                  *)
commitBlockPanics(m, tree, root) ==
    \/ ~HasParent(m, tree, root)
    \/ lockOf(m) # root /\ ~HasParent(lockOf(m), tree, root)

(* blockExt.Children of the blocks of S *)
Children(S, tree) == {b \in tree : b # Genesis /\ Parent[b] \in S}

(* pruneBranch from the blocks of S: everything reachable from S through    *)
(* Children.  Three generations reach every leaf: when a block is           *)
(* committed the tree ends two levels above it (ThreeLevels in BlockTree).  *)
Branches(S, tree) ==
    LET one == Children(S, tree)
        two == Children(one, tree)
    IN  S \cup one \cup two \cup Children(two, tree)

(* Mutant of PruneBlock: the siblings go, the branches above them stay.     *)
PruneSiblingsOnly(commit, tree) ==
    {b \in tree : Number[b] > Number[commit] \/ b = commit}

(* Mutant of PruneBlock: the commit block goes with the heights below it.   *)
PruneCommitToo(commit, tree) ==
    LET rest == {b \in tree : Number[b] > Number[commit]}
    IN  rest \ Branches(SameHeight(commit, tree) \ {commit}, rest)

(* PruneBlock followed by NewRoot: the heights below the commit block, its  *)
(* siblings, and the branches that start at those siblings are deleted.     *)
PruneBlock(commit, tree) ==
    LET rest == {b \in tree : Number[b] >= Number[commit]}
    IN  rest \ Branches(SameHeight(commit, tree) \ {commit}, rest)
=============================================================================

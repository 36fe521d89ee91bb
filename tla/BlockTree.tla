------------------------------ MODULE BlockTree ------------------------------
(***************************************************************************)
(* The block tree of one node and the three highest blocks of its          *)
(* ViewState: what insertQCBlock, TrySetHighestQCBlock, tryCommitNewBlock  *)
(* and FastSyncCommitHead do to them.                                      *)
(*                                                                         *)
(* The environment is left as free as it can be: a certified block may     *)
(* arrive in any order, from any view and on any fork, as long as its      *)
(* parent is in the tree (QCBlockRules and insertPrepareQC both check it). *)
(* What holds here therefore holds whatever the other validators sign.     *)
(***************************************************************************)
EXTENDS Blocks

VARIABLES blocks,         \* BlockTree.blocks, as a set
          root,           \* BlockTree.root
          highestQC,      \* ViewState.highestQCBlock
          highestLock,    \* ViewState.highestLockBlock
          highestCommit,  \* ViewState.highestCommitBlock
          panicked        \* the process died in BlockTree.commitBlock

vars == <<blocks, root, highestQC, highestLock, highestCommit, panicked>>

(* NewBlockTree and Start on a fresh chain. *)
Init ==
    /\ blocks = {Genesis}
    /\ root = Genesis
    /\ highestQC = Genesis
    /\ highestLock = Genesis
    /\ highestCommit = Genesis
    /\ panicked = FALSE

(* Cbft.HasBlock *)
HasBlock(b) ==
    \/ Number[highestQC] > Number[b]
    \/ Number[highestQC] = Number[b] /\ highestQC = b

(* Mutants of TrySetHighestQCBlock: certificates compared by view alone;    *)
(* every inserted block becomes the highest.                                *)
TrySetHigherView(b) ==
    highestQC' = IF highestQC = Genesis \/ HigherBlockView(b, highestQC)
                 THEN b ELSE highestQC

SetHighestAlways(b) == highestQC' = b

(* TrySetHighestQCBlock: genesis has no certificate, and neither has a      *)
(* highest block that is no longer in the tree.                             *)
TrySetHighestQCBlock(b) ==
    highestQC' = IF \/ highestQC = Genesis
                    \/ highestQC \notin blocks
                    \/ HigherQuorumCert(b, highestQC)
                 THEN b ELSE highestQC

(* Mutant of tryCommitNewBlock: the commit guard is off by one.             *)
CommitOffByOne(m, b, t) ==
    LET commit == commitOf(m, root)
    IN  IF /\ Number[commit] + 2 = Number[b]
           /\ Number[highestCommit] + 2 = Number[commit]
        THEN /\ highestLock' = lockOf(m)
             /\ highestCommit' = commit
             /\ blocks' = PruneBlock(commit, t)
             /\ root' = commit
        ELSE /\ blocks' = t
             /\ UNCHANGED <<root, highestLock, highestCommit>>

(* Mutant of tryCommitNewBlock: SetHighestLockBlock is forgotten.           *)
CommitKeepsLock(m, b, t) ==
    LET commit == commitOf(m, root)
    IN  IF /\ Number[commit] + 2 = Number[b]
           /\ Number[highestCommit] + 1 = Number[commit]
        THEN /\ highestCommit' = commit
             /\ blocks' = PruneBlock(commit, t)
             /\ root' = commit
             /\ UNCHANGED highestLock
        ELSE /\ blocks' = t
             /\ UNCHANGED <<root, highestLock, highestCommit>>

(* tryCommitNewBlock with the lock and commit blocks of m, for the newly    *)
(* certified b in the tree t.  The fork branch only rewrites the WAL's      *)
(* chain state, see Wal.tla.                                                *)
tryCommitNewBlock(m, b, t) ==
    LET commit == commitOf(m, root)
    IN  IF /\ Number[commit] + 2 = Number[b]
           /\ Number[highestCommit] + 1 = Number[commit]
        THEN /\ highestLock' = lockOf(m)
             /\ highestCommit' = commit
             /\ blocks' = PruneBlock(commit, t)
             /\ root' = commit
        ELSE /\ blocks' = t
             /\ UNCHANGED <<root, highestLock, highestCommit>>

(* insertQCBlock for a block that passes its two early returns and is not   *)
(* in the tree yet (BlockTree.insertBlock answers nil, nil for one that is, *)
(* which changes nothing).                                                  *)
insertQCBlock(b) ==
    LET t == blocks \cup {b}
    IN  /\ ~panicked
        /\ b # Genesis /\ Parent[b] \in blocks
        /\ Number[b] > Number[highestLock]
        /\ ~HasBlock(b)
        /\ b \notin blocks
        /\ \E m \in maxBlock(b, t, root) :
              IF commitBlockPanics(m, t, root)
              THEN /\ panicked' = TRUE
                   /\ blocks' = t
                   /\ UNCHANGED <<root, highestQC, highestLock, highestCommit>>
              ELSE /\ TrySetHighestQCBlock(b)
                   /\ tryCommitNewBlock(m, b, t)
                   /\ UNCHANGED panicked

(* FastSyncCommitHead: the downloader has written the chain up to b, whose  *)
(* number is above the local commit block.                                  *)
FastSyncCommitHead(b) ==
    /\ ~panicked
    /\ Number[b] > Number[highestCommit]
    /\ blocks' = {b}
    /\ root' = b
    /\ highestQC' = b
    /\ highestLock' = b
    /\ highestCommit' = b
    /\ UNCHANGED panicked

Next == \E b \in Block : insertQCBlock(b) \/ FastSyncCommitHead(b)

Spec == Init /\ [][Next]_vars

-----------------------------------------------------------------------------
(* Type invariant: the tree is a set of blocks, and the highest blocks are  *)
(* set after every insertion, prune and fast sync.                          *)
TypeOK ==
    /\ blocks \subseteq Block
    /\ root \in Block
    /\ highestQC \in Block
    /\ highestLock \in Block
    /\ highestCommit \in Block
    /\ panicked \in BOOLEAN

(* Pruning leaves no orphan: every block of the tree but the root has its   *)
(* parent in the tree, and the root is the last committed block.  This is   *)
(* what commitBlock relies on when it follows Parent twice.                 *)
Rooted ==
    /\ root = highestCommit
    /\ root \in blocks
    /\ \A b \in blocks \ {root} :
          b # Genesis /\ Parent[b] \in blocks /\ Number[b] > Number[root]

(* The tree holds at most the commit block and the two levels above it: the *)
(* third level commits the first one.                                       *)
ThreeLevels == \A b \in blocks : Number[b] <= Number[root] + 2

(* The three highest blocks are in the tree after every prune; the lock     *)
(* block is the commit block or a child of it, and nothing in the tree is   *)
(* higher than the highest certified block.                                 *)
HighestInTree ==
    /\ {highestQC, highestLock, highestCommit} \subseteq blocks
    /\ highestLock = highestCommit \/ Parent[highestLock] = highestCommit
    /\ \A b \in blocks : ~HigherQuorumCert(b, highestQC)

(* Whatever certified blocks arrive, BlockTree.commitBlock never meets the  *)
(* nil Parent pointer it panics on.                                         *)
NoPanic == ~panicked

(* Consensus commits one block at a time, each the child of the one         *)
(* committed before, and only when two certified blocks follow it in a      *)
(* row: the new lock block and the new highest block.                       *)
CommitsThreeChain ==
    [][highestCommit' # highestCommit =>
          \/ /\ Parent[highestCommit'] = highestCommit
             /\ Parent[highestLock'] = highestCommit'
             /\ Parent[highestQC'] = highestLock'
          \/ FastSyncCommitHead(highestCommit')]_vars

(* The highest certified block only moves up in (number, epoch, view), and  *)
(* the lock and commit blocks never move down.                              *)
HighestMonotonic ==
    [][\/ \E b \in Block : FastSyncCommitHead(b)
       \/ /\ highestQC' # highestQC =>
                highestQC = Genesis \/ HigherQuorumCert(highestQC', highestQC)
          /\ Number[highestLock'] >= Number[highestLock]
          /\ Number[highestCommit'] >= Number[highestCommit]]_vars
=============================================================================

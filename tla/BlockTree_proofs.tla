-------------------------- MODULE BlockTree_proofs --------------------------
(***************************************************************************)
(* The invariants and action properties of BlockTree, for every universe   *)
(* of blocks that satisfies BlockAssumption.  The inductive invariant is   *)
(* the conjunction of the invariants the run checks: none of them is       *)
(* inductive by itself (ThreeLevels needs the commit rule to fire, which   *)
(* needs Rooted; Rooted after a prune needs ThreeLevels).                  *)
(***************************************************************************)
EXTENDS BlockTree, TLAPS

IInv == TypeOK /\ Rooted /\ ThreeLevels /\ HighestInTree /\ NoPanic

-----------------------------------------------------------------------------
(* Every non-genesis block is one above its parent, and the parent of a     *)
(* block is a block.                                                        *)
LEMMA ParentNumber ==
    ASSUME NEW b \in Block
    PROVE  /\ Parent[b] \in Block
           /\ Number[b] \in Nat /\ Number[Parent[b]] \in Nat
           /\ b # Genesis => Number[b] = Number[Parent[b]] + 1
           /\ Number[b] # 0 => b # Genesis
  BY BlockAssumption

(* HigherQuorumCert (QuorumCert.HigherQuorumCert) is a strict order.        *)
LEMMA HigherStrict ==
    ASSUME NEW b \in Block, NEW c \in Block, NEW d \in Block
    PROVE  /\ ~HigherQuorumCert(b, b)
           /\ HigherQuorumCert(b, c) /\ HigherQuorumCert(d, b) => HigherQuorumCert(d, c)
           /\ Number[b] < Number[c] => ~HigherQuorumCert(b, c)
           /\ Number[b] > Number[c] => HigherQuorumCert(b, c)
  BY BlockAssumption DEF HigherQuorumCert, HigherBlockView

(* BlockTree.maxBlock always answers a block of the same height that is     *)
(* linked to its parent, when the inserted block is.                        *)
LEMMA MaxBlockLinked ==
    ASSUME NEW t, NEW r, NEW b \in t, HasParent(b, t, r), NEW m \in maxBlock(b, t, r)
    PROVE  m \in t /\ HasParent(m, t, r) /\ Number[m] = Number[b]
  BY DEF maxBlock, SameHeight

(* The next three lemmas follow a certified block b that insertQCBlock adds *)
(* to a tree that satisfies the invariant.                                  *)
LEMMA InsertedLinked ==
    ASSUME IInv, NEW b \in Block, insertQCBlock(b)
    PROVE  /\ b \notin blocks /\ b # root /\ b # Genesis
           /\ Parent[b] \in blocks
           /\ HasParent(b, blocks \cup {b}, root)
           /\ Number[b] = Number[Parent[b]] + 1
           /\ Number[b] > Number[root]
           /\ Number[b] <= Number[root] + 3
           /\ ~HasBlock(b) /\ ~panicked
  <1>1. /\ b \notin blocks /\ b # Genesis /\ Parent[b] \in blocks
        /\ ~HasBlock(b) /\ ~panicked
    BY DEF insertQCBlock
  <1>2. b # root
    BY <1>1 DEF IInv, Rooted
  <1>3. Number[b] = Number[Parent[b]] + 1
    BY <1>1, ParentNumber
  <1>4. Number[Parent[b]] >= Number[root] /\ Number[Parent[b]] <= Number[root] + 2
    <2>1. Number[Parent[b]] = Number[root] \/ Number[Parent[b]] > Number[root]
      BY <1>1 DEF IInv, Rooted
    <2> QED BY <1>1, <2>1, ParentNumber DEF IInv, ThreeLevels, TypeOK
  <1>5. Number[root] \in Nat /\ Number[b] \in Nat /\ Number[Parent[b]] \in Nat
    BY ParentNumber DEF IInv, TypeOK
  <1> QED BY <1>1, <1>2, <1>3, <1>4, <1>5 DEF HasParent

(* The lock and commit pointers commitBlock follows are never nil.          *)
LEMMA PointersSet ==
    ASSUME IInv, NEW b \in Block, insertQCBlock(b),
           NEW m \in maxBlock(b, blocks \cup {b}, root)
    PROVE  /\ m \in blocks \cup {b} /\ m # root /\ m # Genesis
           /\ Number[m] = Number[b]
           /\ lockOf(m) \in blocks
           /\ lockOf(m) # root => Parent[lockOf(m)] \in blocks
           /\ ~commitBlockPanics(m, blocks \cup {b}, root)
  <1> DEFINE t == blocks \cup {b}
  <1>1. b \in t /\ HasParent(b, t, root)
    BY InsertedLinked
  <1>2. m \in t /\ HasParent(m, t, root) /\ Number[m] = Number[b]
    BY <1>1, MaxBlockLinked
  <1>3. m # root /\ Parent[m] \in t
    BY <1>2 DEF HasParent
  <1>4. m # Genesis
    BY <1>2, <1>3, InsertedLinked DEF IInv, Rooted
  <1>5. m \in Block
    BY <1>2 DEF IInv, TypeOK
  <1>6. Parent[m] # b
    BY <1>2, <1>4, <1>5, ParentNumber
  <1>7. lockOf(m) \in blocks
    BY <1>3, <1>6 DEF lockOf
  <1>8. lockOf(m) # root => Parent[lockOf(m)] \in blocks
    BY <1>7 DEF IInv, Rooted
  <1>9. ~commitBlockPanics(m, t, root)
    BY <1>2, <1>8 DEF commitBlockPanics, HasParent
  <1> QED BY <1>2, <1>3, <1>4, <1>7, <1>8, <1>9

(* When tryCommitNewBlock commits, b is three above the root: it is alone   *)
(* at its height, and root, commit block, lock block, b form a chain.       *)
LEMMA CommitChain ==
    ASSUME IInv, NEW b \in Block, insertQCBlock(b),
           NEW m \in maxBlock(b, blocks \cup {b}, root),
           Number[commitOf(m, root)] + 2 = Number[b],
           Number[highestCommit] + 1 = Number[commitOf(m, root)]
    PROVE  /\ m = b
           /\ Number[b] = Number[root] + 3
           /\ commitOf(m, root) = Parent[lockOf(m)]
           /\ {lockOf(m), commitOf(m, root)} \subseteq blocks \ {root, Genesis}
           /\ Parent[commitOf(m, root)] = root
           /\ Number[lockOf(m)] = Number[commitOf(m, root)] + 1
  <1>1. root = highestCommit /\ root \in Block /\ blocks \subseteq Block
    BY DEF IInv, Rooted, TypeOK
  <1>2. Number[b] = Number[root] + 3
    <2>1. commitOf(m, root) \in Block
      BY <1>1, PointersSet DEF commitOf
    <2> QED BY <1>1, <2>1, ParentNumber
  <1>3. m = b
    <2>1. \A e \in blocks : Number[e] \in Nat /\ Number[e] <= Number[root] + 2
      BY <1>1, ParentNumber DEF IInv, ThreeLevels
    <2> QED BY <1>1, <1>2, <2>1, PointersSet, ParentNumber
  <1>4. lockOf(m) \in blocks /\ Number[lockOf(m)] = Number[root] + 2
    BY <1>1, <1>2, <1>3, PointersSet, ParentNumber DEF lockOf
  <1>5. lockOf(m) # root /\ lockOf(m) # Genesis
    BY <1>1, <1>4, ParentNumber
  <1>6. commitOf(m, root) = Parent[lockOf(m)] /\ Parent[lockOf(m)] \in blocks
    BY <1>5, PointersSet DEF commitOf
  <1>7. Number[commitOf(m, root)] = Number[root] + 1
    BY <1>1, <1>4, <1>5, <1>6, ParentNumber
  <1>8. commitOf(m, root) \in blocks \ {root, Genesis}
    BY <1>1, <1>6, <1>7, ParentNumber
  <1>9. Parent[commitOf(m, root)] = root
    <2>1. /\ Parent[commitOf(m, root)] \in blocks
          /\ Number[Parent[commitOf(m, root)]] = Number[root]
      BY <1>1, <1>7, <1>8, ParentNumber DEF IInv, Rooted
    <2> QED BY <1>1, <2>1, ParentNumber DEF IInv, Rooted
  <1> QED BY <1>1, <1>2, <1>3, <1>4, <1>5, <1>6, <1>7, <1>8, <1>9, ParentNumber

Prunable(t, r, c) ==
    /\ t \subseteq Block /\ r \in t /\ c \in t
    /\ \A x \in t \ {r} : x # Genesis /\ Parent[x] \in t
    /\ Number[r] < Number[c]
    /\ \A x \in t : Number[x] <= Number[c] + 2

Pruned(t, c, kept) ==
    /\ kept \subseteq t
    /\ c \in kept
    /\ \A x \in kept \ {c} : Number[x] > Number[c] /\ Parent[x] \in kept
    /\ \A x \in t : x # Genesis /\ Parent[x] = c => x \in kept
    /\ \A x \in t :
          (/\ x # Genesis /\ Parent[x] # Genesis
           /\ Parent[x] \in t /\ Parent[Parent[x]] = c) => x \in kept

(* What PruneBlock leaves of a tree whose blocks have their parents in it   *)
(* down to the root, and which ends two levels above the commit block: the  *)
(* part of the tree that descends from the commit block.                    *)
LEMMA PruneKeepsTree ==
    ASSUME NEW t, NEW r, NEW c, Prunable(t, r, c)
    PROVE  Pruned(t, c, PruneBlock(c, t))
  <1> DEFINE rest == {x \in t : Number[x] >= Number[c]}
             S == SameHeight(c, t) \ {c}
             one == Children(S, rest)
             two == Children(one, rest)
             three == Children(two, rest)
  <1>0. PruneBlock(c, t) = rest \ (S \cup one \cup two \cup three)
    BY DEF PruneBlock, Branches
  <1> USE DEF Prunable
  <1>1. \A x \in t : Number[x] \in Nat /\ Number[c] \in Nat /\ x \in Block
    BY ParentNumber
  <1>2. \A x \in S : Number[x] = Number[c] /\ x # c
    BY DEF SameHeight
  <1>3. \A x \in one : Number[x] = Number[c] + 1 /\ Parent[x] \in S /\ x \in rest
    BY <1>1, <1>2, ParentNumber DEF Children
  <1>4. \A x \in two : Number[x] = Number[c] + 2 /\ Parent[x] \in one /\ x \in rest
    BY <1>1, <1>3, ParentNumber DEF Children
  <1>5. \A x \in rest : x \notin three
    <2>1. \A x \in three : Number[x] = Number[c] + 3 /\ x \in t
      BY <1>1, <1>4, ParentNumber DEF Children
    <2> HIDE DEF rest, S, one, two, three
    <2> QED BY <1>1, <2>1
  <1>6. /\ \A x : x \in rest <=> x \in t /\ Number[x] >= Number[c]
        /\ \A x \in rest : Number[x] = Number[c] => x \in S \/ x = c
        /\ \A x \in rest : x # Genesis =>
              /\ Parent[x] \in S => x \in one
              /\ Parent[x] \in one => x \in two
              /\ Parent[x] \in two => x \in three
    BY DEF SameHeight, Children
  <1> HIDE DEF rest, S, one, two, three
  <1>7. c \in PruneBlock(c, t)
    BY <1>0, <1>1, <1>2, <1>3, <1>4, <1>5, <1>6
  <1>8. ASSUME NEW x \in PruneBlock(c, t) \ {c}
        PROVE  Number[x] > Number[c] /\ Parent[x] \in PruneBlock(c, t)
    <2>1. x \in rest /\ x \notin S /\ x \notin one /\ x \notin two /\ x \in t
      BY <1>0, <1>6
    <2>2. Number[x] > Number[c]
      BY <1>1, <1>6, <2>1
    <2>3. x # r /\ x # Genesis /\ Parent[x] \in t
      BY <1>1, <2>1, <2>2
    <2>4. Parent[x] \in rest
      BY <1>1, <1>6, <2>1, <2>2, <2>3, ParentNumber
    <2> QED BY <1>0, <1>5, <1>6, <2>1, <2>2, <2>3, <2>4
  <1>9. ASSUME NEW x \in t, x # Genesis, Parent[x] = c
        PROVE  x \in PruneBlock(c, t) /\ Number[x] = Number[c] + 1
    <2>1. Number[x] = Number[c] + 1
      BY <1>1, <1>9, ParentNumber
    <2>2. x \in rest
      BY <1>1, <1>6, <2>1
    <2>3. x \notin S /\ x \notin one /\ x \notin two
      BY <1>1, <1>2, <1>3, <1>4, <1>9, <2>1
    <2> QED BY <1>0, <1>5, <2>1, <2>2, <2>3
  <1>10. ASSUME NEW x \in t, x # Genesis, Parent[x] # Genesis,
                Parent[x] \in t, Parent[Parent[x]] = c
         PROVE  x \in PruneBlock(c, t)
    <2>1. Number[Parent[x]] = Number[c] + 1 /\ Parent[x] \in PruneBlock(c, t)
      BY <1>9, <1>10
    <2>2. Number[x] = Number[c] + 2
      BY <1>1, <1>10, <2>1, ParentNumber
    <2>3. x \in rest
      BY <1>1, <1>6, <2>2
    <2>4. x \notin S /\ x \notin one
      BY <1>1, <1>2, <1>3, <2>2
    <2>5. x \notin two
      BY <1>0, <1>4, <2>1
    <2> QED BY <1>0, <1>5, <2>3, <2>4, <2>5
  <1>11. PruneBlock(c, t) \subseteq t
    BY <1>0, <1>6
  <1> QED BY <1>7, <1>8, <1>9, <1>10, <1>11 DEF Pruned
-----------------------------------------------------------------------------
(* The fresh tree of NewBlockTree satisfies it.                             *)
LEMMA InitIInv == Init => IInv
  <1> SUFFICES ASSUME Init PROVE IInv
    OBVIOUS
  <1>0. Rooted
    BY DEF Init, Rooted
  <1>1. TypeOK /\ NoPanic
    BY BlockAssumption, Zenon DEF Init, TypeOK, NoPanic
  <1>2. ThreeLevels
    <2>1. blocks = {Genesis} /\ root = Genesis
      BY Zenon DEF Init
    <2>2. Number[Genesis] <= Number[Genesis] + 2
      BY BlockAssumption
    <2> QED BY <2>1, <2>2 DEF ThreeLevels
  <1>3. HighestInTree
    BY BlockAssumption, HigherStrict DEF Init, HighestInTree
  <1> QED BY <1>0, <1>1, <1>2, <1>3 DEF IInv

(* A step of insertQCBlock that commits: the pruned tree is rooted at the   *)
(* new commit block and holds the new lock and highest blocks.              *)
LEMMA CommitStep ==
    ASSUME IInv, NEW b \in Block, insertQCBlock(b),
           NEW m \in maxBlock(b, blocks \cup {b}, root),
           Number[commitOf(m, root)] + 2 = Number[b],
           Number[highestCommit] + 1 = Number[commitOf(m, root)],
           TrySetHighestQCBlock(b),
           tryCommitNewBlock(m, b, blocks \cup {b}),
           UNCHANGED panicked
    PROVE  /\ IInv'
           /\ highestQC' = b /\ highestLock' = Parent[b]
           /\ highestCommit' = Parent[Parent[b]]
           /\ Parent[highestCommit'] = highestCommit
           /\ Number[highestLock'] >= Number[highestLock]
           /\ Number[highestCommit'] >= Number[highestCommit]
           /\ HigherQuorumCert(b, highestQC)
  <1> DEFINE t == blocks \cup {b}
             c == commitOf(m, root)
  <1>1. /\ m = b /\ Number[b] = Number[root] + 3
        /\ c = Parent[lockOf(m)] /\ lockOf(m) = Parent[b]
        /\ {lockOf(m), c} \subseteq blocks \ {root, Genesis}
        /\ Parent[c] = root
        /\ Number[lockOf(m)] = Number[c] + 1
    BY CommitChain DEF lockOf
  <1>2. /\ highestLock' = Parent[b] /\ highestCommit' = c /\ root' = c
        /\ blocks' = PruneBlock(c, t)
    BY <1>1 DEF tryCommitNewBlock
  <1>3. /\ root = highestCommit /\ root \in blocks /\ blocks \subseteq Block
        /\ highestQC \in blocks /\ highestLock \in blocks
    BY DEF IInv, Rooted, TypeOK, HighestInTree
  <1>4. Number[root] \in Nat /\ Number[c] = Number[root] + 1
    BY <1>1, <1>3, ParentNumber
  <1>5. \A x \in t : x \in Block /\ Number[x] \in Nat /\ Number[x] <= Number[c] + 2
    BY <1>1, <1>3, <1>4, ParentNumber DEF IInv, ThreeLevels
  <1>6. \A x \in t \ {root} : x # Genesis /\ Parent[x] \in t
    BY InsertedLinked DEF IInv, Rooted
  <1>7. /\ blocks' \subseteq t
        /\ c \in blocks'
        /\ \A x \in blocks' \ {c} : Number[x] > Number[c] /\ Parent[x] \in blocks'
        /\ Parent[b] \in blocks'
        /\ b \in blocks'
    <2>1. t \in SUBSET Block /\ root \in t /\ c \in t /\ Number[root] < Number[c]
      BY <1>1, <1>3, <1>4
    <2>2. b # Genesis /\ Parent[b] # Genesis /\ Parent[b] \in t /\ b \in t
          /\ Parent[Parent[b]] = c
      BY <1>1, InsertedLinked
    <2> HIDE DEF t, c
    <2>3. Prunable(t, root, c)
      BY <1>5, <1>6, <2>1 DEF Prunable
    <2>4. Pruned(t, c, blocks')
      BY <1>2, <2>3, PruneKeepsTree
    <2> QED BY <2>1, <2>2, <2>4 DEF Pruned
  <1>8. HigherQuorumCert(b, highestQC) /\ highestQC' = b
    <2>1. Number[b] > Number[highestQC]
      BY <1>1, <1>3, <1>4, <1>5 DEF IInv, ThreeLevels
    <2> QED BY <1>3, <2>1, HigherStrict DEF TrySetHighestQCBlock
  <1>9. TypeOK'
    BY <1>2, <1>5, <1>7, <1>8, <1>1, <1>3 DEF TypeOK, IInv
  <1>10. Rooted'
    <2>1. \A x \in blocks' \ {c} : x # Genesis
      BY <1>7, <1>4, <1>5, BlockAssumption
    <2> QED BY <1>2, <1>7, <2>1 DEF Rooted
  <1>11. ThreeLevels'
    BY <1>2, <1>5, <1>7 DEF ThreeLevels
  <1>12. HighestInTree'
    <2>1. \A x \in blocks' : ~HigherQuorumCert(x, b)
      <3>1. SUFFICES ASSUME NEW x \in blocks' PROVE ~HigherQuorumCert(x, b)
        OBVIOUS
      <3>2. x = b \/ Number[x] < Number[b]
        <4>1. x \in t
          BY <1>7
        <4>2. x \in blocks => Number[x] <= Number[root] + 2
          BY DEF IInv, ThreeLevels
        <4> QED BY <1>1, <1>3, <1>4, <1>5, <4>1, <4>2
      <3> QED BY <1>5, <1>7, <3>2, HigherStrict
    <2> QED BY <1>1, <1>2, <1>7, <1>8, <2>1 DEF HighestInTree
  <1>13. NoPanic'
    BY InsertedLinked DEF NoPanic, IInv
  <1>14. Number[highestLock'] >= Number[highestLock]
    BY <1>1, <1>2, <1>3, <1>4, <1>5 DEF IInv, ThreeLevels
  <1> QED BY <1>1, <1>2, <1>3, <1>4, <1>8, <1>9, <1>10, <1>11, <1>12, <1>13, <1>14 DEF IInv

(* A certified block three levels above the root always commits.            *)
LEMMA ThirdLevelCommits ==
    ASSUME IInv, NEW b \in Block, insertQCBlock(b),
           NEW m \in maxBlock(b, blocks \cup {b}, root),
           Number[b] = Number[root] + 3
    PROVE  /\ Number[commitOf(m, root)] + 2 = Number[b]
           /\ Number[highestCommit] + 1 = Number[commitOf(m, root)]
  <1>1. root = highestCommit /\ root \in Block /\ blocks \subseteq Block
    BY DEF IInv, Rooted, TypeOK
  <1>2. m \in Block /\ m # Genesis /\ Number[m] = Number[root] + 3
    BY <1>1, PointersSet
  <1>3. lockOf(m) \in blocks /\ Number[lockOf(m)] = Number[root] + 2
    BY <1>1, <1>2, PointersSet, ParentNumber DEF lockOf
  <1>4. lockOf(m) # root /\ lockOf(m) # Genesis
    BY <1>1, <1>3, ParentNumber
  <1>5. commitOf(m, root) = Parent[lockOf(m)]
    BY <1>4 DEF commitOf
  <1>6. Number[commitOf(m, root)] = Number[root] + 1
    BY <1>1, <1>3, <1>4, <1>5, ParentNumber
  <1> QED BY <1>1, <1>6, ParentNumber

(* A step of insertQCBlock that commits nothing.                            *)
LEMMA StayStep ==
    ASSUME IInv, NEW b \in Block, insertQCBlock(b),
           NEW m \in maxBlock(b, blocks \cup {b}, root),
           ~(/\ Number[commitOf(m, root)] + 2 = Number[b]
             /\ Number[highestCommit] + 1 = Number[commitOf(m, root)]),
           TrySetHighestQCBlock(b),
           tryCommitNewBlock(m, b, blocks \cup {b}),
           UNCHANGED panicked
    PROVE  /\ IInv'
           /\ UNCHANGED <<highestLock, highestCommit>>
           /\ highestQC' # highestQC => HigherQuorumCert(highestQC', highestQC)
  <1>1. blocks' = blocks \cup {b} /\ UNCHANGED <<root, highestLock, highestCommit>>
    BY DEF tryCommitNewBlock
  <1>2. /\ root \in Block /\ blocks \subseteq Block /\ highestQC \in blocks
        /\ Number[root] \in Nat /\ Number[b] \in Nat
    BY ParentNumber DEF IInv, TypeOK, HighestInTree
  <1>3. Number[b] <= Number[root] + 2
    BY <1>2, ThirdLevelCommits, InsertedLinked
  <1>4. \/ highestQC' = b /\ HigherQuorumCert(b, highestQC)
        \/ highestQC' = highestQC /\ ~HigherQuorumCert(b, highestQC)
    <2>1. highestQC = Genesis => HigherQuorumCert(b, highestQC)
      <3>1. Number[b] = Number[Parent[b]] + 1 /\ Number[Parent[b]] \in Nat
        BY InsertedLinked, ParentNumber
      <3>2. Number[b] > Number[Genesis] /\ Genesis \in Block
        BY <3>1, BlockAssumption
      <3> QED BY <3>2, HigherStrict
    <2> QED BY <1>2, <2>1 DEF TrySetHighestQCBlock
  <1>5. TypeOK'
    BY <1>1, <1>4 DEF IInv, TypeOK
  <1>6. Rooted'
    BY <1>1, InsertedLinked DEF IInv, Rooted
  <1>7. ThreeLevels'
    BY <1>1, <1>3 DEF IInv, ThreeLevels
  <1>8. HighestInTree'
    <2>1. \A x \in blocks' : ~HigherQuorumCert(x, highestQC')
      <3>1. \A x \in blocks : ~HigherQuorumCert(x, highestQC)
        BY DEF IInv, HighestInTree
      <3>2. CASE highestQC' = b /\ HigherQuorumCert(b, highestQC)
        BY <1>1, <1>2, <3>1, <3>2, HigherStrict
      <3>3. CASE highestQC' = highestQC /\ ~HigherQuorumCert(b, highestQC)
        BY <1>1, <3>1, <3>3
      <3> QED BY <1>4, <3>2, <3>3
    <2> QED BY <1>1, <1>4, <2>1 DEF IInv, HighestInTree
  <1>9. NoPanic'
    BY InsertedLinked DEF NoPanic, IInv
  <1> QED BY <1>1, <1>4, <1>5, <1>6, <1>7, <1>8, <1>9 DEF IInv

(* FastSyncCommitHead resets the tree to its one committed block.           *)
LEMMA FastSyncStep ==
    ASSUME IInv, NEW b \in Block, FastSyncCommitHead(b)
    PROVE  IInv'
  <1>1. /\ blocks' = {b} /\ root' = b /\ highestQC' = b
        /\ highestLock' = b /\ highestCommit' = b /\ panicked' = panicked
    BY DEF FastSyncCommitHead
  <1>2. TypeOK'
    BY <1>1 DEF IInv, TypeOK
  <1>3. Rooted'
    BY <1>1 DEF Rooted
  <1>4. ThreeLevels'
    BY <1>1, ParentNumber DEF ThreeLevels
  <1>5. HighestInTree'
    BY <1>1, HigherStrict DEF HighestInTree
  <1>6. NoPanic'
    BY <1>1 DEF IInv, NoPanic
  <1> QED BY <1>2, <1>3, <1>4, <1>5, <1>6 DEF IInv

(* Both outcomes of insertQCBlock together.                                 *)
LEMMA InsertStep ==
    ASSUME IInv, NEW b \in Block, insertQCBlock(b)
    PROVE  /\ IInv'
           /\ \/ UNCHANGED <<highestLock, highestCommit>>
              \/ /\ Parent[highestCommit'] = highestCommit
                 /\ Parent[highestLock'] = highestCommit'
                 /\ Parent[highestQC'] = highestLock'
                 /\ Number[highestLock'] >= Number[highestLock]
                 /\ Number[highestCommit'] >= Number[highestCommit]
           /\ highestQC' # highestQC => HigherQuorumCert(highestQC', highestQC)
  <1>1. PICK m \in maxBlock(b, blocks \cup {b}, root) :
           /\ TrySetHighestQCBlock(b)
           /\ tryCommitNewBlock(m, b, blocks \cup {b})
           /\ UNCHANGED panicked
    BY PointersSet DEF insertQCBlock
  <1>2. CASE /\ Number[commitOf(m, root)] + 2 = Number[b]
             /\ Number[highestCommit] + 1 = Number[commitOf(m, root)]
    BY <1>1, <1>2, CommitStep
  <1>3. CASE ~(/\ Number[commitOf(m, root)] + 2 = Number[b]
               /\ Number[highestCommit] + 1 = Number[commitOf(m, root)])
    BY <1>1, <1>3, StayStep
  <1> QED BY <1>2, <1>3

(* Every step preserves the conjunction of the invariants.                  *)
LEMMA NextIInv == IInv /\ [Next]_vars => IInv'
  <1> SUFFICES ASSUME IInv, [Next]_vars PROVE IInv'
    OBVIOUS
  <1>1. ASSUME NEW b \in Block, insertQCBlock(b) PROVE IInv'
    BY <1>1, InsertStep
  <1>2. ASSUME NEW b \in Block, FastSyncCommitHead(b) PROVE IInv'
    BY <1>2, FastSyncStep
  <1>3. CASE UNCHANGED vars
    BY <1>3 DEF vars, IInv, TypeOK, Rooted, ThreeLevels, HighestInTree, NoPanic
  <1> QED BY <1>1, <1>2, <1>3 DEF Next

-----------------------------------------------------------------------------
(* The inductive invariant holds of every behaviour of the tree.            *)
THEOREM Invariant == Spec => []IInv
  BY InitIInv, NextIInv, PTL DEF Spec

(* The fields of the tree and of ViewState keep their types.                *)
THEOREM TypeCorrect == Spec => []TypeOK
  BY Invariant, PTL DEF IInv

(* After every insertion and every prune the tree hangs from the last       *)
(* committed block with no orphan in it.                                    *)
THEOREM TreeRooted == Spec => []Rooted
  BY Invariant, PTL DEF IInv

(* The tree never grows beyond the two levels above the commit block.       *)
THEOREM TreeBounded == Spec => []ThreeLevels
  BY Invariant, PTL DEF IInv

(* The highest, lock and commit blocks survive every prune, and the highest *)
(* one is a maximum of the tree.                                            *)
THEOREM HighestTracked == Spec => []HighestInTree
  BY Invariant, PTL DEF IInv

(* BlockTree.commitBlock never panics, in whatever order and from whatever  *)
(* fork certified blocks arrive.                                            *)
THEOREM NeverPanics == Spec => []NoPanic
  BY Invariant, PTL DEF IInv

(* tryCommitNewBlock extends the committed chain by one block that has two  *)
(* certified descendants.                                                   *)
THEOREM CommitRule == Spec => CommitsThreeChain
  <1> DEFINE A == highestCommit' # highestCommit =>
                    \/ /\ Parent[highestCommit'] = highestCommit
                       /\ Parent[highestLock'] = highestCommit'
                       /\ Parent[highestQC'] = highestLock'
                    \/ FastSyncCommitHead(highestCommit')
  <1>1. IInv /\ [Next]_vars => [A]_vars
    <2> SUFFICES ASSUME IInv, Next PROVE A
      OBVIOUS
    <2>1. ASSUME NEW b \in Block, insertQCBlock(b) PROVE A
      BY <2>1, InsertStep
    <2>2. ASSUME NEW b \in Block, FastSyncCommitHead(b) PROVE A
      <3>1. highestCommit' = b
        BY <2>2 DEF FastSyncCommitHead
      <3> QED BY <2>2, <3>1
    <2> QED BY <2>1, <2>2 DEF Next
  <1> QED BY <1>1, Invariant, PTL DEF Spec, CommitsThreeChain

(* Outside a fast sync the highest certified block only moves up, and lock  *)
(* and commit never move down.                                              *)
THEOREM Monotonic == Spec => HighestMonotonic
  <1> DEFINE A == \/ \E b \in Block : FastSyncCommitHead(b)
                  \/ /\ highestQC' # highestQC =>
                          highestQC = Genesis \/ HigherQuorumCert(highestQC', highestQC)
                     /\ Number[highestLock'] >= Number[highestLock]
                     /\ Number[highestCommit'] >= Number[highestCommit]
  <1>1. IInv /\ [Next]_vars => [A]_vars
    <2> SUFFICES ASSUME IInv, Next, ~\E b \in Block : FastSyncCommitHead(b) PROVE A
      OBVIOUS
    <2>1. PICK b \in Block : insertQCBlock(b)
      BY DEF Next
    <2>2. Number[highestLock] \in Nat /\ Number[highestCommit] \in Nat
      BY ParentNumber DEF IInv, TypeOK
    <2> QED BY <2>1, <2>2, InsertStep
  <1> QED BY <1>1, Invariant, PTL DEF Spec, HighestMonotonic
=============================================================================

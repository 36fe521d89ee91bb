----------------------- MODULE CbftProcedures_proofs -----------------------
(***************************************************************************)
(* The procedures of CbftNode, for every universe of blocks, every number  *)
(* of validators, blocks per view and blocks per epoch.                    *)
(*                                                                         *)
(* A handler is a composition of procedures on the state record, so the    *)
(* inductive invariant is a predicate of that record: Good(s) holds        *)
(* between any two procedures.  Each procedure has a lemma that says it    *)
(* preserves Good and what it signs.                                       *)
(***************************************************************************)
EXTENDS CbftNode, TLAPS

-----------------------------------------------------------------------------
(* The state record *)

OptBlock == Block \cup {None}

ViewType ==
    [epoch : Nat, number : Nat, executing : [index : Int, finish : BOOLEAN],
     blocks : [Index -> OptBlock], qcs : SUBSET Index, pending : Seq(Block),
     hadSend : SUBSET Index, votes : [Index -> Nat], own : OptBlock, changes : Nat,
     maxChange : OptBlock, last : OptBlock, deadline : BOOLEAN]

TreeType == [blocks : SUBSET Block, root : Block, qc : Block, lock : Block, commit : Block]

PoolType == [epoch : Nat, switchPoint : Nat, lastNumber : Nat]

ChangeType == [epoch : Nat, number : Nat, block : Block]

SentType == [votes : SUBSET Block, changes : SUBSET ChangeType, executed : SUBSET Block]

StateType ==
    [view : ViewType, tree : TreeType, pool : PoolType, tasks : Seq(Block),
     sent : SentType, fault : SUBSET {"panic", "wrongQC"}]

-----------------------------------------------------------------------------
(* The invariant of the state record *)

(* The tree, as in BlockTree: it hangs from the commit block, has at most   *)
(* two levels above it, and the highest block is a maximum of it.  All of   *)
(* it is certified and of no view after the current one.                    *)
Rooted(s) ==
    /\ s.tree.root = s.tree.commit /\ s.tree.root \in s.tree.blocks
    /\ \A b \in s.tree.blocks \ {s.tree.root} :
          b # Genesis /\ Parent[b] \in s.tree.blocks /\ Number[b] > Number[s.tree.root]
    /\ \A b \in s.tree.blocks : Number[b] <= Number[s.tree.root] + 2

Highest(s) ==
    /\ s.tree.qc \in s.tree.blocks /\ s.tree.lock \in s.tree.blocks
    /\ \A b \in s.tree.blocks : ~HigherQuorumCert(b, s.tree.qc)

Behind(s) ==
    \A b \in s.tree.blocks \ {Genesis} :
        /\ b \in certified
        /\ NotAfter(Epoch[b], ViewNumber[b], s.view.epoch, s.view.number)

(* The views of its blocks are bounded, so maxBlock has an answer.          *)
Bounded(s) == \E n \in Nat : \A b \in s.tree.blocks : ViewNumber[b] <= n

TreeOK(s) == Rooted(s) /\ Highest(s) /\ Behind(s) /\ Bounded(s)

(* The blocks of the current view are at their index, and those with a      *)
(* certificate are not above the highest block.                             *)
BlocksOK(s) ==
    /\ \A i \in Index : s.view.blocks[i] # None =>
          /\ s.view.blocks[i] \in proposed
          /\ InView(s, s.view.blocks[i]) /\ BlockIndex[s.view.blocks[i]] = i
    /\ \A i \in s.view.qcs :
          s.view.blocks[i] # None /\ Number[s.view.blocks[i]] <= Number[s.tree.qc]
    /\ \A i \in Index : s.view.votes[i] + 1 >= threshold => s.view.blocks[i] \in certified

(* The block being executed and the one before it are there.                *)
ExecutingOK(s) ==
    LET x == s.view.executing
    IN  /\ x.index >= NoIndex
        /\ x.index >= 0 => x.index \in Index /\ s.view.blocks[x.index] # None
        /\ x.index >= 1 /\ ~x.finish => s.view.blocks[x.index - 1] # None

(* Index i has been executed.                                               *)
Done(s, i) ==
    i <= s.view.executing.index /\ (~s.view.executing.finish => i < s.view.executing.index)

(* The pending votes are for executed blocks of the view, in the order of   *)
(* the view, and come after the ones sent.                                  *)
PendingOK(s) ==
    LET p == s.view.pending
    IN  /\ \A j \in 1..Len(p) :
              /\ p[j] \in s.sent.executed /\ BlockIndex[p[j]] \in Index
              /\ p[j] = s.view.blocks[BlockIndex[p[j]]]
              /\ Done(s, BlockIndex[p[j]])
              /\ \A h \in s.view.hadSend : h < BlockIndex[p[j]]
        /\ \A j, k \in 1..Len(p) : j < k => BlockIndex[p[j]] < BlockIndex[p[k]]

(* So do the votes sent; the parent of one that gets certified is in the    *)
(* tree until the lock passes it.                                           *)
HadSendOK(s) ==
    \A h \in s.view.hadSend :
        /\ s.view.blocks[h] # None /\ Done(s, h)
        /\ s.view.blocks[h] \in certified
              /\ Number[s.view.blocks[h]] > Number[s.tree.lock]
           => Parent[s.view.blocks[h]] \in s.tree.blocks

(* ViewChanges report certified blocks.                                     *)
ChangesOK(s) ==
    /\ {s.view.own, s.view.maxChange} \subseteq certified \cup {Genesis, None}
    /\ s.view.changes > 0 => s.view.maxChange # None

(* The last block of epoch e.                                               *)
End(e) == e * EpochSize

(* The pool is at the epoch of the view or has switched to the next one.    *)
PoolOK(s) ==
    /\ 1 <= s.view.epoch
    /\ s.view.epoch <= s.pool.epoch /\ s.pool.epoch <= s.view.epoch + 1
    /\ s.pool.switchPoint = End(s.pool.epoch - 1) /\ s.pool.lastNumber = End(s.pool.epoch)

(* Everything voted for is executed, of no later view, and its parent not   *)
(* above the highest block; so for the blocks reported, and a ViewChange of *)
(* the current view is the one of OnViewTimeout.                            *)
VotesOK(s) ==
    \A b \in s.sent.votes :
        /\ b \in s.sent.executed /\ b \in proposed
        /\ NotAfter(Epoch[b], ViewNumber[b], s.view.epoch, s.view.number)
        /\ ~HigherQuorumCert(Parent[b], s.tree.qc)

ReportsOK(s) ==
    \A c \in s.sent.changes :
        /\ ~HigherQuorumCert(c.block, s.tree.qc)
        /\ \/ Signer!Before(c.epoch, c.number, s.view.epoch, s.view.number)
           \/ /\ c.epoch = s.view.epoch /\ c.number = s.view.number
              /\ s.view.deadline /\ s.view.own # None

Good(s) ==
    /\ s \in StateType /\ s.fault = {}
    /\ TreeOK(s) /\ BlocksOK(s) /\ ExecutingOK(s) /\ PendingOK(s) /\ HadSendOK(s)
    /\ ChangesOK(s) /\ PoolOK(s) /\ VotesOK(s) /\ ReportsOK(s)

(* Between two handlers the oldest pending vote waits for its parent.       *)
VotesWait(s) ==
    \/ s.view.deadline
    \/ s.view.pending = <<>>
    \/ Parent[s.view.pending[1]] \notin s.tree.blocks

(* What is assumed of the other validators: the proposals and certificates  *)
(* of a behaviour are fixed at its start.  The least-number principle is    *)
(* a hypothesis too, so that only CbftNode_proofs, where it is proved,      *)
(* needs the theory of well-founded relations.                              *)
WellOrdered == \A T \in SUBSET Nat : T # {} => \E x \in T : \A y \in T : x <= y

Env == Proposable(proposed) /\ Agreed(proposed, certified) /\ WellOrdered

-----------------------------------------------------------------------------
(* The constants *)

(* Every non-genesis block is one above its parent, and the parent of a     *)
(* block is a block.                                                        *)
LEMMA ParentNumber ==
    ASSUME NEW b \in Block
    PROVE  /\ Parent[b] \in Block
           /\ Number[b] \in Nat /\ Number[Parent[b]] \in Nat
           /\ b # Genesis => Number[b] = Number[Parent[b]] + 1
           /\ Number[b] # 0 => b # Genesis
  BY BlockAssumption

(* HigherQuorumCert (QuorumCert.HigherQuorumCert) is a strict order.        *)
LEMMA HigherStrict ==
    ASSUME NEW b \in Block, NEW c \in Block, NEW d \in Block
    PROVE  /\ ~HigherQuorumCert(b, b)
           /\ HigherQuorumCert(b, c) /\ HigherQuorumCert(d, b) => HigherQuorumCert(d, c)
           /\ Number[b] < Number[c] => ~HigherQuorumCert(b, c)
           /\ Number[b] > Number[c] => HigherQuorumCert(b, c)
  BY BlockAssumption DEF HigherQuorumCert, HigherBlockView

(* BlockTree.maxBlock always answers a block of the same height that is     *)
(* linked to its parent, when the inserted block is.                        *)
LEMMA MaxBlockLinked ==
    ASSUME NEW t, NEW r, NEW b \in t, HasParent(b, t, r), NEW m \in maxBlock(b, t, r)
    PROVE  m \in t /\ HasParent(m, t, r) /\ Number[m] = Number[b]
  BY DEF maxBlock, SameHeight

Prunable(t, r, c) ==
    /\ t \subseteq Block /\ r \in t /\ c \in t
    /\ \A x \in t \ {r} : x # Genesis /\ Parent[x] \in t
    /\ Number[r] < Number[c]
    /\ \A x \in t : Number[x] <= Number[c] + 2

Pruned(t, c, kept) ==
    /\ kept \subseteq t
    /\ c \in kept
    /\ \A x \in kept \ {c} : Number[x] > Number[c] /\ Parent[x] \in kept
    /\ \A x \in t : x # Genesis /\ Parent[x] = c => x \in kept
    /\ \A x \in t :
          (/\ x # Genesis /\ Parent[x] # Genesis
           /\ Parent[x] \in t /\ Parent[Parent[x]] = c) => x \in kept

(* What PruneBlock leaves of a tree whose blocks have their parents in it   *)
(* down to the root, and which ends two levels above the commit block: the  *)
(* part of the tree that descends from the commit block.                    *)
LEMMA PruneKeepsTree ==
    ASSUME NEW t, NEW r, NEW c, Prunable(t, r, c)
    PROVE  Pruned(t, c, PruneBlock(c, t))
  <1> DEFINE rest == {x \in t : Number[x] >= Number[c]}
             S == SameHeight(c, t) \ {c}
             one == Children(S, rest)
             two == Children(one, rest)
             three == Children(two, rest)
  <1>0. PruneBlock(c, t) = rest \ (S \cup one \cup two \cup three)
    BY DEF PruneBlock, Branches
  <1> USE DEF Prunable
  <1>1. \A x \in t : Number[x] \in Nat /\ Number[c] \in Nat /\ x \in Block
    BY ParentNumber
  <1>2. \A x \in S : Number[x] = Number[c] /\ x # c
    BY DEF SameHeight
  <1>3. \A x \in one : Number[x] = Number[c] + 1 /\ Parent[x] \in S /\ x \in rest
    BY <1>1, <1>2, ParentNumber DEF Children
  <1>4. \A x \in two : Number[x] = Number[c] + 2 /\ Parent[x] \in one /\ x \in rest
    BY <1>1, <1>3, ParentNumber DEF Children
  <1>5. \A x \in rest : x \notin three
    <2>1. \A x \in three : Number[x] = Number[c] + 3 /\ x \in t
      BY <1>1, <1>4, ParentNumber DEF Children
    <2> HIDE DEF rest, S, one, two, three
    <2> QED BY <1>1, <2>1
  <1>6. /\ \A x : x \in rest <=> x \in t /\ Number[x] >= Number[c]
        /\ \A x \in rest : Number[x] = Number[c] => x \in S \/ x = c
        /\ \A x \in rest : x # Genesis =>
              /\ Parent[x] \in S => x \in one
              /\ Parent[x] \in one => x \in two
              /\ Parent[x] \in two => x \in three
    BY Zenon DEF SameHeight, Children
  <1> HIDE DEF rest, S, one, two, three
  <1>7. c \in PruneBlock(c, t)
    BY <1>0, <1>1, <1>2, <1>3, <1>4, <1>5, <1>6
  <1>8. ASSUME NEW x \in PruneBlock(c, t) \ {c}
        PROVE  Number[x] > Number[c] /\ Parent[x] \in PruneBlock(c, t)
    <2>1. x \in rest /\ x \notin S /\ x \notin one /\ x \notin two /\ x \in t
      BY <1>0, <1>6
    <2>2. Number[x] > Number[c]
      BY <1>1, <1>6, <2>1
    <2>3. x # r /\ x # Genesis /\ Parent[x] \in t
      BY <1>1, <2>1, <2>2
    <2>4. Parent[x] \in rest
      BY <1>1, <1>6, <2>1, <2>2, <2>3, ParentNumber
    <2> QED BY <1>0, <1>5, <1>6, <2>1, <2>2, <2>3, <2>4
  <1>9. ASSUME NEW x \in t, x # Genesis, Parent[x] = c
        PROVE  x \in PruneBlock(c, t) /\ Number[x] = Number[c] + 1
    <2>1. Number[x] = Number[c] + 1
      BY <1>1, <1>9, ParentNumber
    <2>2. x \in rest
      BY <1>1, <1>6, <2>1
    <2>3. x \notin S /\ x \notin one /\ x \notin two
      BY <1>1, <1>2, <1>3, <1>4, <1>9, <2>1
    <2> QED BY <1>0, <1>5, <2>1, <2>2, <2>3
  <1>10. ASSUME NEW x \in t, x # Genesis, Parent[x] # Genesis,
                Parent[x] \in t, Parent[Parent[x]] = c
         PROVE  x \in PruneBlock(c, t)
    <2>1. Number[Parent[x]] = Number[c] + 1 /\ Parent[x] \in PruneBlock(c, t)
      BY <1>9, <1>10, Zenon
    <2>2. Number[x] = Number[c] + 2
      BY <1>1, <1>10, <2>1, ParentNumber
    <2>3. x \in rest
      BY <1>1, <1>6, <2>2, Zenon
    <2>4. x \notin S /\ x \notin one
      BY <1>1, <1>2, <1>3, <2>2
    <2>5. x \notin two
      BY <1>0, <1>4, <2>1
    <2> QED BY <1>0, <1>5, <2>3, <2>4, <2>5, Zenon
  <1>11. PruneBlock(c, t) \subseteq t
    BY <1>0, <1>6, Zenon
  <1> QED BY <1>7, <1>8, <1>9, <1>10, <1>11 DEF Pruned

\* The sizes of the configuration: a block needs a vote of another validator.
LEMMA Sizes ==
    /\ Amount \in Nat /\ Amount >= 1 /\ Index = 0..(Amount - 1)
    /\ N \in Nat /\ threshold \in Nat /\ threshold >= 2
    /\ None \notin Block
    /\ BlockIndex \in [Block -> Nat]
  <1>1. N \in Nat /\ N >= 2 /\ Amount \in Nat /\ Amount >= 1
    BY NodeAssumption
  <1>2. (N - 1) \div 3 \in Nat /\ (N - 1) \div 3 <= N - 2
    BY <1>1
  <1> QED
    BY <1>1, <1>2, NodeAssumption DEF threshold, Index

\* MaxIndex of a set of indices below n: its maximum, or NoIndex.
LEMMA MaxOfSet ==
    ASSUME WellOrdered, NEW n \in Nat, NEW S \in SUBSET (0..n)
    PROVE  /\ S = {} => MaxOf(S) = -1
           /\ S # {} => MaxOf(S) \in S
           /\ \A i \in S : i <= MaxOf(S)
           /\ MaxOf(S) \in Int /\ -1 <= MaxOf(S) /\ MaxOf(S) <= n
  <1>1. CASE S = {}
    BY <1>1 DEF MaxOf, NoIndex
  <1>2. CASE S # {}
    <2> DEFINE T == {n - i : i \in S}
    <2>1. T \in SUBSET Nat /\ T # {}
      <3>1. \A i \in S : i \in 0..n /\ n - i \in Nat
        OBVIOUS
      <3>2. PICK i \in S : TRUE
        BY <1>2, Zenon
      <3>3. n - i \in T
        BY Zenon
      <3> QED BY <3>1, <3>3
    <2>2. PICK x \in T : \A y \in T : x <= y
      <3> HIDE DEF T
      <3> QED BY <2>1, Zenon DEF WellOrdered
    <2>3. PICK i \in S : x = n - i
      BY <2>2
    <2>4. \A j \in S : j <= i
      <3> SUFFICES ASSUME NEW j \in S PROVE j <= i
        BY Zenon
      <3>1. n - j \in T
        BY Zenon
      <3>2. n - i <= n - j /\ i \in 0..n /\ j \in 0..n
        BY <2>2, <2>3, <3>1, Zenon
      <3> QED BY <3>2
    <2>5. \E k \in S : \A j \in S : j <= k
      BY <2>4
    <2>6. MaxOf(S) = CHOOSE k \in S : \A j \in S : j <= k
      BY <1>2 DEF MaxOf
    <2>7. MaxOf(S) \in S /\ \A j \in S : j <= MaxOf(S)
      BY <2>5, <2>6, Zenon
    <2>8. MaxOf(S) \in 0..n
      BY <2>7, Zenon
    <2> HIDE DEF T
    <2> QED BY <1>2, <2>7, <2>8
  <1> QED BY <1>1, <1>2

\* The same for the indices of a view.
LEMMA MaxOfIndex ==
    ASSUME Env, NEW S \in SUBSET Index
    PROVE  /\ S = {} => MaxOf(S) = -1
           /\ S # {} => MaxOf(S) \in S
           /\ \A i \in S : i <= MaxOf(S)
           /\ MaxOf(S) \in Int /\ -1 <= MaxOf(S) /\ MaxOf(S) < Amount
  <1>1. PICK n \in Nat : n = Amount - 1
    BY Sizes
  <1>2. S \in SUBSET (0..n)
    BY <1>1, Sizes
  <1>3. /\ S = {} => MaxOf(S) = -1
        /\ S # {} => MaxOf(S) \in S
        /\ \A i \in S : i <= MaxOf(S)
        /\ MaxOf(S) \in Int /\ -1 <= MaxOf(S) /\ MaxOf(S) <= n
    BY <1>2, MaxOfSet, Zenon DEF Env
  <1> QED BY <1>1, <1>3, Sizes

\* The ends of the epochs are in order.
LEMMA Ends ==
    /\ \A e \in Nat : End(e) \in Nat
    /\ \A e, f \in Nat : e < f => End(e) < End(f)
    /\ \A e, f \in Nat : e <= f => End(e) <= End(f)
    /\ \A e \in Nat : End(e) + EpochSize = End(e + 1)
  <1>1. EpochSize \in Nat /\ EpochSize > 0
    BY NodeAssumption
  <1>2. ASSUME NEW e \in Nat, NEW f \in Nat
        PROVE  /\ End(e) \in Nat /\ End(e) + EpochSize = End(e + 1)
               /\ e < f => End(e) < End(f)
               /\ e <= f => End(e) <= End(f)
    BY <1>1 DEF End
  <1> QED BY <1>2

\* A proposed block is within its epoch, and the blocks of a view are in order.
LEMMA Proposed ==
    ASSUME Env, NEW b \in proposed
    PROVE  /\ b \in Block \ {Genesis} /\ Parent[b] \in Block
           /\ Number[b] \in Nat /\ Number[b] = Number[Parent[b]] + 1
           /\ Epoch[b] \in Nat /\ Epoch[b] >= 1 /\ ViewNumber[b] \in Nat
           /\ BlockIndex[b] \in Nat
           /\ End(Epoch[b] - 1) < Number[b] /\ Number[b] <= End(Epoch[b])
  <1>1. b \in Block \ {Genesis} /\ Epoch[b] > 0
        /\ (Epoch[b] - 1) * EpochSize < Number[b] /\ Number[b] <= Epoch[b] * EpochSize
    BY Zenon DEF Env, Proposable
  <1>2. Epoch[b] \in Nat /\ ViewNumber[b] \in Nat
    BY <1>1, BlockAssumption
  <1> QED BY <1>1, <1>2, ParentNumber, Sizes DEF End

\* The blocks of one view are numbered as they are indexed.
LEMMA SameViewOrder ==
    ASSUME Env, NEW b \in proposed, NEW d \in proposed,
           Epoch[b] = Epoch[d], ViewNumber[b] = ViewNumber[d]
    PROVE  /\ Number[b] + BlockIndex[d] = Number[d] + BlockIndex[b]
           /\ BlockIndex[b] = BlockIndex[d] => b = d
  BY DEF Env, Proposable

\* A certified block is proposed, and certificates of one height commit one block.
LEMMA CertifiedBlock ==
    ASSUME Env, NEW b \in certified
    PROVE  /\ b \in proposed
           /\ \A d \in certified : Number[b] = Number[d] => Parent[Parent[b]] = Parent[Parent[d]]
  BY DEF Env, Agreed

-----------------------------------------------------------------------------
(* trySendPrepareVote *)

\* What is sent of the pending votes: the first k, whose parents are in the tree.
LEMMA SendPrefix ==
    ASSUME Env, NEW s, Good(s), ~s.view.deadline
    PROVE  LET p == s.view.pending
           IN  \E k \in 0..Len(p) :
                 /\ \A j \in 1..k : Parent[p[j]] \in s.tree.blocks
                 /\ k < Len(p) => Parent[p[k + 1]] \notin s.tree.blocks
                 /\ trySendPrepareVote(s) =
                      [s EXCEPT !.view.pending = SubSeq(p, k + 1, Len(p)),
                                !.view.hadSend = @ \cup {BlockIndex[b] : b \in {p[j] : j \in 1..k}},
                                !.sent.votes = @ \cup {p[j] : j \in 1..k}]
  <1> DEFINE p == s.view.pending
             sendable(j) ==
                /\ BlockIndex[p[j]] \notin s.view.hadSend
                /\ \A i \in 1..(j - 1) : BlockIndex[p[i]] # BlockIndex[p[j]]
                /\ Parent[p[j]] \in s.tree.blocks
             S == {n \in 0..Len(p) : \A j \in 1..n : sendable(j)}
             k == MaxOf(S)
  <1>1. p \in Seq(Block) /\ Len(p) \in Nat
    BY DEF Good, StateType, ViewType
  <1>2. \A j \in 1..Len(p) : sendable(j) <=> Parent[p[j]] \in s.tree.blocks
    <2> SUFFICES ASSUME NEW j \in 1..Len(p) PROVE sendable(j) <=> Parent[p[j]] \in s.tree.blocks
      BY Zenon
    <2>1. /\ BlockIndex[p[j]] \in Index
          /\ \A h \in s.view.hadSend : h < BlockIndex[p[j]]
          /\ \A i \in 1..(j - 1) : BlockIndex[p[i]] < BlockIndex[p[j]] /\ BlockIndex[p[i]] \in Index
      BY <1>1 DEF Good, PendingOK
    <2>2. s.view.hadSend \subseteq Index /\ \A i \in Index : i \in Int
      <3>1. s \in StateType
        BY Zenon DEF Good
      <3> QED BY Sizes, <3>1 DEF StateType, ViewType
    <2> HIDE DEF p
    <2> QED BY <2>1, <2>2
  <1>3. S \in SUBSET (0..Len(p)) /\ 0 \in S
    BY <1>1
  <1>4. k \in S /\ \A n \in S : n <= k
    <2> HIDE DEF S
    <2> QED BY <1>1, <1>3, MaxOfSet, Zenon DEF Env
  <1>5. k < Len(p) => ~sendable(k + 1)
    <2> SUFFICES ASSUME k < Len(p), sendable(k + 1) PROVE FALSE
      BY Zenon
    <2>1. k \in 0..Len(p) /\ \A j \in 1..k : sendable(j)
      BY <1>4, Zenon
    <2> HIDE DEF k, sendable
    <2>2. \A j \in 1..(k + 1) : sendable(j)
      BY <2>1
    <2>3. k + 1 \in S
      BY <1>1, <2>1, <2>2
    <2> QED BY <1>4, <2>1, <2>3
  <1>6. trySendPrepareVote(s) =
          [s EXCEPT !.view.pending = SubSeq(p, k + 1, Len(p)),
                    !.view.hadSend = @ \cup {BlockIndex[b] : b \in {p[j] : j \in 1..k}},
                    !.sent.votes = @ \cup {p[j] : j \in 1..k}]
    BY DEF trySendPrepareVote
  <1>7. k \in 0..Len(p) /\ \A j \in 1..k : Parent[p[j]] \in s.tree.blocks
    BY <1>4, Zenon
  <1>8. k < Len(p) => Parent[p[k + 1]] \notin s.tree.blocks
    <2> SUFFICES ASSUME k < Len(p) PROVE Parent[p[k + 1]] \notin s.tree.blocks
      BY Zenon
    <2> HIDE DEF k, sendable, p
    <2>1. k + 1 \in 1..Len(p)
      BY <1>1, <1>7
    <2> QED BY <1>2, <1>5, <2>1, Zenon
  <1> HIDE DEF k, p
  <1> QED BY <1>6, <1>7, <1>8, Zenon DEF p

\* What t has of s when only the pending votes, and the votes sent, differ.
Unsent(s, t) ==
    /\ t.tree = s.tree /\ t.pool = s.pool /\ t.tasks = s.tasks /\ t.fault = s.fault
    /\ t.sent.changes = s.sent.changes /\ t.sent.executed = s.sent.executed
    /\ t.view.epoch = s.view.epoch /\ t.view.number = s.view.number
    /\ t.view.executing = s.view.executing /\ t.view.blocks = s.view.blocks
    /\ t.view.qcs = s.view.qcs /\ t.view.votes = s.view.votes /\ t.view.own = s.view.own
    /\ t.view.changes = s.view.changes /\ t.view.maxChange = s.view.maxChange
    /\ t.view.last = s.view.last /\ t.view.deadline = s.view.deadline

\* Votes go from the pending ones, of which q are left, to the sent ones.
Sending(s, q, hs, go) ==
    [s EXCEPT !.view.pending = q, !.view.hadSend = @ \cup hs, !.sent.votes = @ \cup go]

HasSent(s, t, q, hs, go) ==
    /\ t \in StateType /\ Unsent(s, t)
    /\ t.view.pending = q
    /\ t.view.hadSend = s.view.hadSend \cup hs
    /\ t.sent.votes = s.sent.votes \cup go

\* Nothing else is touched.
LEMMA SentFields ==
    ASSUME NEW s \in StateType, NEW rest \in Seq(Block), NEW at \in SUBSET Index,
           NEW new \in SUBSET Block
    PROVE  HasSent(s, Sending(s, rest, at, new), rest, at, new)
  <1>1. Sending(s, rest, at, new) \in StateType
    BY Zenon DEF StateType, ViewType, SentType, Sending
  <1>2. Unsent(s, Sending(s, rest, at, new))
    BY Zenon DEF StateType, ViewType, SentType, Unsent, Sending
  <1>3. /\ Sending(s, rest, at, new).view.pending = rest
        /\ Sending(s, rest, at, new).view.hadSend = s.view.hadSend \cup at
        /\ Sending(s, rest, at, new).sent.votes = s.sent.votes \cup new
    BY Zenon DEF StateType, ViewType, SentType, Sending
  <1> QED BY <1>1, <1>2, <1>3, Zenon DEF HasSent

\* The votes that are in t and not in s are for blocks of the view of s, on
\* certified blocks that t has, and after those that s had sent.
NewVotes(s, t) ==
    /\ s.sent.votes \subseteq t.sent.votes
    /\ \A b \in t.sent.votes \ s.sent.votes :
          /\ b \in proposed /\ InView(s, b) /\ ~s.view.deadline
          /\ Parent[b] \in t.tree.blocks
          /\ \A h \in s.view.hadSend : h < BlockIndex[b]

\* The votes sent were pending.
FromPending(s, t) ==
    /\ \A b \in t.sent.votes \ s.sent.votes :
          \E j \in 1..Len(s.view.pending) : b = s.view.pending[j]
    /\ \A h \in t.view.hadSend \ s.view.hadSend :
          \E j \in 1..Len(s.view.pending) : h = BlockIndex[s.view.pending[j]]

\* trySendPrepareVote leaves no vote behind that it could send.
LEMMA Send ==
    ASSUME Env, NEW s, Good(s)
    PROVE  LET t == trySendPrepareVote(s)
           IN  /\ Good(t) /\ VotesWait(t) /\ Unsent(s, t) /\ NewVotes(s, t)
               /\ FromPending(s, t)
  <1> DEFINE t == trySendPrepareVote(s)
  <1> SUFFICES /\ Good(t) /\ VotesWait(t) /\ Unsent(s, t) /\ NewVotes(s, t)
               /\ FromPending(s, t)
    BY Zenon
  <1> HIDE DEF t
  <1>1. CASE s.view.deadline
    <2>1. t = s
      BY <1>1 DEF trySendPrepareVote, t
    <2> QED BY <1>1, <2>1, Zenon DEF VotesWait, Unsent, NewVotes, FromPending
  <1>2. CASE ~s.view.deadline
    <2> DEFINE p == s.view.pending
    <2>0. p \in Seq(Block) /\ Len(p) \in Nat
      BY DEF Good, StateType, ViewType
    <2>1. PICK k \in 0..Len(p) :
             /\ \A j \in 1..k : Parent[p[j]] \in s.tree.blocks
             /\ k < Len(p) => Parent[p[k + 1]] \notin s.tree.blocks
             /\ t = [s EXCEPT !.view.pending = SubSeq(p, k + 1, Len(p)),
                              !.view.hadSend = @ \cup {BlockIndex[b] : b \in {p[j] : j \in 1..k}},
                              !.sent.votes = @ \cup {p[j] : j \in 1..k}]
      BY <1>2, SendPrefix, Zenon DEF t
    <2> DEFINE q == SubSeq(p, k + 1, Len(p))
               go == {p[j] : j \in 1..k}
               hs == {BlockIndex[b] : b \in go}
    <2>2. /\ q \in Seq(Block) /\ Len(q) = Len(p) - k
          /\ \A j \in 1..Len(q) : q[j] = p[j + k] /\ j + k \in 1..Len(p)
      BY <2>0
    <2>3. /\ go \subseteq Block /\ hs \subseteq Index
          /\ \A b \in go : \E j \in 1..k : b = p[j] /\ j \in 1..Len(p)
          /\ \A h \in hs : \E j \in 1..k : h = BlockIndex[p[j]] /\ j \in 1..Len(p)
      <3>1. PendingOK(s)
        BY Zenon DEF Good
      <3> QED BY <2>0, <3>1 DEF PendingOK
    <2> HIDE DEF q, go, hs
    <2>4. /\ Unsent(s, t) /\ t \in StateType
          /\ t.view.pending = q /\ t.view.hadSend = s.view.hadSend \cup hs
          /\ t.sent.votes = s.sent.votes \cup go
      <3>1. t = Sending(s, q, hs, go)
        BY <2>1 DEF q, hs, go, Sending
      <3>2. s \in StateType /\ q \in Seq(Block) /\ hs \in SUBSET Index /\ go \in SUBSET Block
        BY <2>2, <2>3, Zenon DEF Good
      <3>3. HasSent(s, t, q, hs, go)
        BY <3>1, <3>2, SentFields
      <3> QED BY <3>3, Zenon DEF HasSent
    <2>5. \A j \in 1..Len(p) :
             /\ p[j] \in s.sent.executed /\ p[j] \in Block
             /\ BlockIndex[p[j]] \in Index /\ BlockIndex[p[j]] \in Int
             /\ p[j] = s.view.blocks[BlockIndex[p[j]]] /\ Done(s, BlockIndex[p[j]])
             /\ \A h \in s.view.hadSend : h < BlockIndex[p[j]]
             /\ p[j] # None /\ p[j] \in proposed /\ InView(s, p[j])
      <3>1. PendingOK(s) /\ BlocksOK(s)
        BY Zenon DEF Good
      <3> QED BY <2>0, Sizes, <3>1 DEF PendingOK, BlocksOK
    <2>6. \A i, j \in 1..Len(p) : i < j => BlockIndex[p[i]] < BlockIndex[p[j]]
      BY Zenon DEF Good, PendingOK
    <2> HIDE DEF p
    <2>7. \A i : Done(t, i) <=> Done(s, i)
      BY <2>4, Zenon DEF Unsent, Done
    <2>8. PendingOK(t)
      <3>1. ASSUME NEW j \in 1..Len(q)
            PROVE  /\ q[j] \in t.sent.executed /\ BlockIndex[q[j]] \in Index
                   /\ q[j] = t.view.blocks[BlockIndex[q[j]]]
                   /\ Done(t, BlockIndex[q[j]])
                   /\ \A h \in t.view.hadSend : h < BlockIndex[q[j]]
        <4>1. q[j] = p[j + k] /\ j + k \in 1..Len(p)
          BY <2>2
        <4>2. ASSUME NEW h \in hs PROVE h < BlockIndex[q[j]]
          <5>1. PICK i \in 1..k : h = BlockIndex[p[i]] /\ i \in 1..Len(p)
            BY <2>3, Zenon
          <5>2. i < j + k
            BY <2>0, <2>2
          <5> QED BY <2>6, <4>1, <5>1, <5>2, Zenon
        <4> QED BY <2>4, <2>5, <2>7, <4>1, <4>2, Zenon DEF Unsent
      <3>2. ASSUME NEW i \in 1..Len(q), NEW j \in 1..Len(q), i < j
            PROVE  BlockIndex[q[i]] < BlockIndex[q[j]]
        <4>1. q[i] = p[i + k] /\ q[j] = p[j + k] /\ i + k \in 1..Len(p) /\ j + k \in 1..Len(p)
          BY <2>2, Zenon
        <4>2. i + k < j + k
          BY <2>0, <2>2, <3>2
        <4> QED BY <2>6, <4>1, <4>2, Zenon
      <3> QED BY <2>4, <3>1, <3>2, Zenon DEF PendingOK
    <2>9. HadSendOK(t)
      <3> SUFFICES ASSUME NEW h \in t.view.hadSend
                   PROVE  /\ t.view.blocks[h] # None /\ Done(t, h)
                          /\ t.view.blocks[h] \in certified
                                /\ Number[t.view.blocks[h]] > Number[t.tree.lock]
                             => Parent[t.view.blocks[h]] \in t.tree.blocks
        BY Zenon DEF HadSendOK
      <3>1. CASE h \in s.view.hadSend
        BY <2>4, <2>7, <3>1, Zenon DEF Good, HadSendOK, Unsent
      <3>2. CASE h \in hs
        <4>1. PICK j \in 1..k : h = BlockIndex[p[j]] /\ j \in 1..Len(p)
          BY <2>3, <3>2, Zenon
        <4>2. t.view.blocks[h] = p[j] /\ Parent[p[j]] \in t.tree.blocks
          BY <2>1, <2>4, <2>5, <4>1, Zenon DEF Unsent
        <4> QED BY <2>5, <2>7, <4>1, <4>2, Zenon
      <3> QED BY <2>4, <3>1, <3>2, Zenon
    <2>10. \A b \in go : /\ b \in proposed /\ InView(s, b) /\ b \in s.sent.executed
                         /\ Parent[b] \in s.tree.blocks
                         /\ \A h \in s.view.hadSend : h < BlockIndex[b]
      BY <2>1, <2>3, <2>5
    <2>11. VotesOK(t)
      <3>1. \A b \in go : /\ NotAfter(Epoch[b], ViewNumber[b], s.view.epoch, s.view.number)
                          /\ ~HigherQuorumCert(Parent[b], s.tree.qc)
        <4>1. \A b \in go : ~HigherQuorumCert(Parent[b], s.tree.qc)
          BY <2>10, Zenon DEF Good, TreeOK, Highest
        <4>2. s.view.number \in Nat
          BY Zenon DEF Good, StateType, ViewType
        <4> QED BY <2>10, <4>1, <4>2 DEF InView, NotAfter, Signer!NotAfter
      <3> QED BY <2>4, <2>10, <3>1, Zenon DEF Good, VotesOK, Unsent
    <2>12. Good(t)
      <3>1. TreeOK(t) /\ t.fault = {}
        BY <2>4, Zenon DEF Good, Unsent, TreeOK, Rooted, Highest, Behind, Bounded
      <3>2. BlocksOK(t) /\ ExecutingOK(t)
        <4>1. BlocksOK(t)
          BY <2>4, Zenon DEF Good, Unsent, BlocksOK, InView
        <4>2. ExecutingOK(t)
          BY <2>4, Zenon DEF Good, Unsent, ExecutingOK
        <4> QED BY <4>1, <4>2, Zenon
      <3>3. ChangesOK(t) /\ PoolOK(t)
        BY <2>4, Zenon DEF Good, Unsent, ChangesOK, PoolOK
      <3>4. ReportsOK(t)
        BY <2>4, Zenon DEF Good, Unsent, ReportsOK
      <3> QED BY <2>4, <2>8, <2>9, <2>11, <3>1, <3>2, <3>3, <3>4, Zenon DEF Good
    <2>13. VotesWait(t)
      <3>1. CASE k = Len(p)
        <4>1. q = <<>>
          BY <2>0, <3>1 DEF q
        <4> QED BY <2>4, <4>1, Zenon DEF VotesWait
      <3>2. CASE k < Len(p)
        <4>1. 1 \in 1..Len(q)
          BY <2>0, <2>2, <3>2
        <4>2. q[1] = p[k + 1]
          BY <2>2, <4>1
        <4> QED BY <2>1, <2>4, <3>2, <4>2, Zenon DEF VotesWait, Unsent
      <3> QED BY <2>0, <3>1, <3>2
    <2>14. NewVotes(s, t)
      BY <1>2, <2>4, <2>10, Zenon DEF NewVotes, Unsent
    <2>15. FromPending(s, t)
      BY <2>3, <2>4, Zenon DEF FromPending, p
    <2> QED BY <2>4, <2>12, <2>13, <2>14, <2>15, Zenon
  <1> QED BY <1>1, <1>2

\* When the oldest pending vote waits for its parent there is nothing to send.
LEMMA SendIdle ==
    ASSUME Env, NEW s, Good(s), VotesWait(s)
    PROVE  trySendPrepareVote(s) = s
  <1>1. CASE s.view.deadline
    BY <1>1 DEF trySendPrepareVote
  <1>2. CASE ~s.view.deadline
    <2> DEFINE p == s.view.pending
    <2>0. p \in Seq(Block) /\ Len(p) \in Nat /\ s \in StateType
      BY DEF Good, StateType, ViewType
    <2>1. PICK k \in 0..Len(p) :
             /\ \A j \in 1..k : Parent[p[j]] \in s.tree.blocks
             /\ trySendPrepareVote(s) =
                  Sending(s, SubSeq(p, k + 1, Len(p)),
                          {BlockIndex[b] : b \in {p[j] : j \in 1..k}}, {p[j] : j \in 1..k})
      BY <1>2, SendPrefix, Zenon DEF Sending
    <2>2. k = 0
      <3>1. CASE p = <<>>
        BY <3>1
      <3>2. CASE Parent[p[1]] \notin s.tree.blocks
        BY <2>0, <2>1, <3>2
      <3> QED BY <1>2, <3>1, <3>2, Zenon DEF VotesWait
    <2>3. /\ SubSeq(p, k + 1, Len(p)) = p
          /\ {p[j] : j \in 1..k} = {}
          /\ {BlockIndex[b] : b \in {p[j] : j \in 1..k}} = {}
      BY <2>0, <2>2
    <2>4. Sending(s, p, {}, {}) = s
      <3>1. [s.view EXCEPT !.pending = s.view.pending,
                           !.hadSend = s.view.hadSend \cup {}] = s.view
        <4>1. s.view.hadSend \cup {} = s.view.hadSend
          BY Zenon
        <4> QED BY <2>0, <4>1, Zenon DEF StateType, ViewType
      <3>2. [s.sent EXCEPT !.votes = s.sent.votes \cup {}] = s.sent
        <4>1. s.sent.votes \cup {} = s.sent.votes
          BY Zenon
        <4> QED BY <2>0, <4>1 DEF StateType, SentType
      <3>3. Sending(s, p, {}, {}) =
              [s EXCEPT !.view = [s.view EXCEPT !.pending = s.view.pending,
                                                !.hadSend = s.view.hadSend \cup {}],
                        !.sent = [s.sent EXCEPT !.votes = s.sent.votes \cup {}]]
        BY <2>0, Zenon DEF Sending, StateType, ViewType, SentType
      <3>4. [s EXCEPT !.view = s.view, !.sent = s.sent] = s
        BY <2>0, Zenon DEF StateType
      <3> QED BY <3>1, <3>2, <3>3, <3>4, Zenon
    <2> QED BY <2>1, <2>3, <2>4, Zenon
  <1> QED BY <1>1, <1>2

-----------------------------------------------------------------------------
(* signBlock *)

\* Fields that the vote queue does not share.
OnlyPending(s, t) ==
    /\ t \in StateType /\ Unsent(s, t)
    /\ t.view.hadSend = s.view.hadSend /\ t.sent.votes = s.sent.votes

Queued(s, b) == [s EXCEPT !.view.pending = Append(@, b)]

\* signBlock's new pending vote changes the pending votes only.
LEMMA QueuedFields ==
    ASSUME NEW s \in StateType, NEW b \in Block
    PROVE  /\ OnlyPending(s, Queued(s, b))
           /\ Queued(s, b).view.pending = Append(s.view.pending, b)
  <1>1. Queued(s, b) \in StateType
    <2>1. Append(s.view.pending, b) \in Seq(Block)
      BY DEF StateType, ViewType
    <2> QED BY <2>1, Zenon DEF StateType, ViewType, Queued
  <1>2. Unsent(s, Queued(s, b))
    BY Zenon DEF StateType, ViewType, SentType, Unsent, Queued
  <1> QED BY <1>1, <1>2, Zenon DEF StateType, ViewType, SentType, Queued, OnlyPending

\* Block b of the view has been executed, after every block that is voted for.
Votes(s, b) ==
    /\ b \in s.sent.executed /\ BlockIndex[b] \in Index
    /\ b = s.view.blocks[BlockIndex[b]] /\ Done(s, BlockIndex[b])
    /\ \A h \in s.view.hadSend : h < BlockIndex[b]
    /\ \A j \in 1..Len(s.view.pending) : BlockIndex[s.view.pending[j]] < BlockIndex[b]

\* signBlock sends the vote when it can; nothing comes after it in the view.
LEMMA Sign ==
    ASSUME Env, NEW s, Good(s), VotesWait(s), NEW b \in Block, Votes(s, b)
    PROVE  LET t == signBlock(s, b)
           IN  /\ Good(t) /\ VotesWait(t) /\ Unsent(s, t) /\ NewVotes(s, t)
               /\ \A d \in t.sent.votes \ s.sent.votes :
                     \A h \in t.view.hadSend : h <= BlockIndex[d]
  <1> DEFINE a == Queued(s, b)
             t == signBlock(s, b)
             p == s.view.pending
  <1>0. p \in Seq(Block) /\ Len(p) \in Nat /\ s \in StateType
    BY DEF Good, StateType, ViewType
  <1>1. t = trySendPrepareVote(a)
    BY DEF signBlock, Queued
  <1>2. OnlyPending(s, a) /\ a.view.pending = Append(p, b)
    BY <1>0, QueuedFields, Zenon
  <1>3. /\ Len(Append(p, b)) = Len(p) + 1
        /\ Append(p, b)[Len(p) + 1] = b
        /\ \A j \in 1..Len(p) : Append(p, b)[j] = p[j]
    BY <1>0
  <1> SUFFICES /\ Good(t) /\ VotesWait(t) /\ Unsent(s, t) /\ NewVotes(s, t)
               /\ \A d \in t.sent.votes \ s.sent.votes :
                     \A h \in t.view.hadSend : h <= BlockIndex[d]
    BY Zenon
  <1> HIDE DEF a, t
  <1>4. \A i : Done(a, i) <=> Done(s, i)
    BY <1>2, Zenon DEF OnlyPending, Unsent, Done
  <1>5. PendingOK(a)
    <2> DEFINE q == Append(p, b)
    <2>1. \A j \in 1..Len(q) : j \in 1..Len(p) \/ (j = Len(p) + 1 /\ q[j] = b)
      BY <1>0, <1>3
    <2>2. \A j \in 1..Len(p) : q[j] = p[j]
      BY <1>3, Zenon
    <2>3. Len(q) = Len(p) + 1
      BY <1>3, Zenon
    <2>a. \A j \in 1..Len(p) :
             /\ p[j] \in s.sent.executed /\ BlockIndex[p[j]] \in Index
             /\ p[j] = s.view.blocks[BlockIndex[p[j]]] /\ Done(s, BlockIndex[p[j]])
             /\ \A h \in s.view.hadSend : h < BlockIndex[p[j]]
             /\ BlockIndex[p[j]] < BlockIndex[b]
      BY Zenon DEF Good, PendingOK, Votes
    <2>b. \A i, j \in 1..Len(p) : i < j => BlockIndex[p[i]] < BlockIndex[p[j]]
      BY Zenon DEF Good, PendingOK
    <2> HIDE DEF p, q
    <2>4. ASSUME NEW j \in 1..Len(q)
          PROVE  /\ q[j] \in a.sent.executed /\ BlockIndex[q[j]] \in Index
                 /\ q[j] = a.view.blocks[BlockIndex[q[j]]]
                 /\ Done(a, BlockIndex[q[j]])
                 /\ \A h \in a.view.hadSend : h < BlockIndex[q[j]]
      <3>1. CASE j \in 1..Len(p)
        BY <1>2, <1>4, <2>2, <2>a, <3>1, Zenon DEF OnlyPending, Unsent
      <3>2. CASE q[j] = b
        BY <1>2, <1>4, <3>2, Zenon DEF OnlyPending, Unsent, Votes
      <3> QED BY <2>1, <3>1, <3>2, Zenon
    <2>5. ASSUME NEW i \in 1..Len(q), NEW j \in 1..Len(q), i < j
          PROVE  BlockIndex[q[i]] < BlockIndex[q[j]]
      <3>1. i \in 1..Len(p)
        BY <1>0, <2>3, <2>5
      <3> QED BY <2>1, <2>2, <2>a, <2>b, <2>5, <3>1, Zenon
    <2>6. a.view.pending = q
      BY <1>2, Zenon DEF p, q
    <2> QED BY <2>4, <2>5, <2>6, Zenon DEF PendingOK
  <1>6. Good(a)
    <2>1. TreeOK(a) /\ a.fault = {} /\ a \in StateType
      BY <1>2, Zenon DEF Good, OnlyPending, Unsent, TreeOK, Rooted, Highest, Behind, Bounded
    <2>2. BlocksOK(a) /\ ExecutingOK(a)
      <3>1. BlocksOK(a)
        BY <1>2, Zenon DEF Good, OnlyPending, Unsent, BlocksOK, InView
      <3>2. ExecutingOK(a)
        BY <1>2, Zenon DEF Good, OnlyPending, Unsent, ExecutingOK
      <3> QED BY <3>1, <3>2, Zenon
    <2>3. ChangesOK(a) /\ PoolOK(a)
      BY <1>2, Zenon DEF Good, OnlyPending, Unsent, ChangesOK, PoolOK
    <2>4. ReportsOK(a) /\ VotesOK(a)
      BY <1>2, Zenon DEF Good, OnlyPending, Unsent, ReportsOK, VotesOK
    <2>5. HadSendOK(a)
      BY <1>2, <1>4, Zenon DEF Good, OnlyPending, Unsent, HadSendOK
    <2> QED BY <1>5, <2>1, <2>2, <2>3, <2>4, <2>5, Zenon DEF Good
  <1>7. /\ Good(t) /\ VotesWait(t) /\ Unsent(a, t) /\ NewVotes(a, t)
        /\ FromPending(a, t)
    BY <1>1, <1>6, Send, Zenon
  <1>8. Unsent(s, t)
    BY <1>2, <1>7, Zenon DEF OnlyPending, Unsent
  <1>9. NewVotes(s, t)
    BY <1>2, <1>7, Zenon DEF OnlyPending, Unsent, NewVotes, InView
  <1>10. ASSUME NEW d \in t.sent.votes \ s.sent.votes, NEW h \in t.view.hadSend
         PROVE  h <= BlockIndex[d]
    <2>1. CASE p = <<>>
      <3>1. a.view.pending = <<b>>
        BY <1>2, <2>1
      <3>2. d = b /\ (h = BlockIndex[b] \/ h \in s.view.hadSend)
        BY <1>2, <1>7, <3>1 DEF OnlyPending, FromPending
      <3>3. BlockIndex[b] \in Int /\ \A i \in Index : i \in Int
        BY Sizes
      <3>4. h \in Index
        BY <1>7, Zenon DEF Good, StateType, ViewType
      <3> QED BY <3>2, <3>3, <3>4 DEF Votes
    <2>2. CASE p # <<>>
      <3>1. VotesWait(a)
        <4>1. Append(p, b)[1] = p[1]
          BY <1>0, <2>2
        <4> QED BY <1>2, <2>2, <4>1, Zenon DEF VotesWait, OnlyPending, Unsent
      <3>2. t = a
        BY <1>1, <1>6, <3>1, SendIdle, Zenon
      <3> QED BY <1>2, <3>2, Zenon DEF OnlyPending
    <2> QED BY <2>1, <2>2, Zenon
  <1> QED BY <1>7, <1>8, <1>9, <1>10, Zenon

\* What no change of view touches.
Around(s, t) ==
    /\ t.tree = s.tree /\ t.pool = s.pool /\ t.tasks = s.tasks /\ t.sent = s.sent
    /\ t.fault = s.fault

-----------------------------------------------------------------------------
(* insertTree *)

\* maxBlock has an answer in a tree whose views are bounded.
LEMMA MaxBlockExists ==
    ASSUME Env, NEW T \in SUBSET Block, NEW n \in Nat, \A x \in T : ViewNumber[x] <= n,
           NEW b \in T, NEW r
    PROVE  maxBlock(b, T, r) # {}
  <1> DEFINE linked == {e \in SameHeight(b, T) : HasParent(e, T, r)}
             S == {ViewRank(e) : e \in linked \cup {b}}
  <1>1. \A e \in T : ViewRank(e) \in 0..(n + 1)
    BY BlockAssumption DEF ViewRank
  <1>2. linked \subseteq T
    BY Zenon DEF SameHeight
  <1>3. S \in SUBSET (0..(n + 1)) /\ S # {} /\ n + 1 \in Nat
    <2>1. ViewRank(b) \in S
      BY Zenon
    <2> QED BY <1>1, <1>2, <2>1
  <1>4. MaxOf(S) \in S /\ \A i \in S : i <= MaxOf(S)
    <2> HIDE DEF S
    <2>1. PICK k \in Nat : k = n + 1
      BY <1>3
    <2> QED BY <1>3, <2>1, MaxOfSet, Zenon DEF Env
  <1>5. PICK m \in linked \cup {b} : ViewRank(m) = MaxOf(S)
    <2>1. \A v \in S : \E m \in linked \cup {b} : v = ViewRank(m)
      BY Zenon
    <2> HIDE DEF S
    <2> QED BY <1>4, <2>1, Zenon
  <1>6. \A e \in linked \cup {b} : ViewRank(e) <= ViewRank(m)
    BY <1>4, <1>5, Zenon
  <1> HIDE DEF linked, S
  <1>7. CASE ViewRank(m) > ViewRank(b)
    <2>1. m \in maxBlock(b, T, r)
      BY <1>5, <1>6, <1>7, Zenon DEF maxBlock, linked
    <2> QED BY <2>1
  <1>8. CASE ~(ViewRank(m) > ViewRank(b))
    <2>1. ViewRank(m) = ViewRank(b)
      BY <1>1, <1>2, <1>5, <1>6, <1>8
    <2>2. b \in maxBlock(b, T, r)
      BY <1>6, <2>1, Zenon DEF maxBlock, linked
    <2> QED BY <2>2
  <1> QED BY <1>7, <1>8

BesidesTree(s, t) ==
    /\ t \in StateType /\ t.view = s.view /\ t.pool = s.pool /\ t.tasks = s.tasks
    /\ t.sent = s.sent /\ t.fault = s.fault

TreeIs(t, T, r, q, l, c) ==
    /\ t.tree.blocks = T /\ t.tree.root = r /\ t.tree.qc = q /\ t.tree.lock = l
    /\ t.tree.commit = c

WithTree(s, R) == [s EXCEPT !.tree = R]

\* A new tree leaves the rest of the state alone.
LEMMA WithTreeFields ==
    ASSUME NEW s \in StateType, NEW R \in TreeType
    PROVE  BesidesTree(s, WithTree(s, R)) /\ WithTree(s, R).tree = R
  BY DEF StateType, WithTree, BesidesTree

Grow(s, T, q) == [s EXCEPT !.tree.blocks = T, !.tree.qc = q]

\* A block added to the tree: its blocks and the highest block.
LEMMA GrowFields ==
    ASSUME NEW s \in StateType, NEW T \in SUBSET Block, NEW q \in Block
    PROVE  /\ BesidesTree(s, Grow(s, T, q))
           /\ TreeIs(Grow(s, T, q), T, s.tree.root, q, s.tree.lock, s.tree.commit)
  <1> DEFINE R1 == [s.tree EXCEPT !.blocks = T]
             s1 == WithTree(s, R1)
             R2 == [s1.tree EXCEPT !.qc = q]
             s2 == WithTree(s1, R2)
  <1>1. Grow(s, T, q) = s2
    BY Zenon DEF Grow, WithTree
  <1>2. /\ R1 \in TreeType /\ R1.blocks = T /\ R1.root = s.tree.root
        /\ R1.lock = s.tree.lock /\ R1.commit = s.tree.commit
    BY DEF StateType, TreeType
  <1>3. BesidesTree(s, s1) /\ s1.tree = R1
    <2> HIDE DEF R1
    <2> QED BY <1>2, WithTreeFields, Zenon
  <1> HIDE DEF R1, s1
  <1>4. /\ R2 \in TreeType /\ R2.blocks = T /\ R2.root = s.tree.root
        /\ R2.lock = s.tree.lock /\ R2.commit = s.tree.commit /\ R2.qc = q
    BY <1>2, <1>3 DEF TreeType
  <1>5. BesidesTree(s1, s2) /\ s2.tree = R2
    <2> HIDE DEF R2
    <2> QED BY <1>3, <1>4, WithTreeFields, Zenon DEF BesidesTree
  <1> HIDE DEF R2, s2
  <1> QED BY <1>1, <1>3, <1>4, <1>5, Zenon DEF BesidesTree, TreeIs

Commit(s, l, c, T) ==
    [s EXCEPT !.tree.lock = l, !.tree.commit = c, !.tree.blocks = T, !.tree.root = c]

\* A commit: the root, the lock, the commit block and what is pruned.
LEMMA CommitFields ==
    ASSUME NEW s \in StateType, NEW T \in SUBSET Block, NEW l \in Block, NEW c \in Block
    PROVE  /\ BesidesTree(s, Commit(s, l, c, T))
           /\ TreeIs(Commit(s, l, c, T), T, c, s.tree.qc, l, c)
  <1> DEFINE R1 == [s.tree EXCEPT !.lock = l]
             s1 == WithTree(s, R1)
             R2 == [s1.tree EXCEPT !.commit = c]
             s2 == WithTree(s1, R2)
             R3 == [s2.tree EXCEPT !.blocks = T]
             s3 == WithTree(s2, R3)
             R4 == [s3.tree EXCEPT !.root = c]
             s4 == WithTree(s3, R4)
  <1>1. Commit(s, l, c, T) = s4
    BY Zenon DEF Commit, WithTree
  <1>2. R1 \in TreeType /\ R1.lock = l /\ R1.qc = s.tree.qc
    BY DEF StateType, TreeType
  <1>3. BesidesTree(s, s1) /\ s1.tree = R1
    <2> HIDE DEF R1
    <2> QED BY <1>2, WithTreeFields, Zenon
  <1> HIDE DEF R1, s1
  <1>4. R2 \in TreeType /\ R2.lock = l /\ R2.qc = s.tree.qc /\ R2.commit = c
    BY <1>2, <1>3 DEF TreeType
  <1>5. BesidesTree(s1, s2) /\ s2.tree = R2
    <2> HIDE DEF R2
    <2> QED BY <1>3, <1>4, WithTreeFields, Zenon DEF BesidesTree
  <1> HIDE DEF R2, s2
  <1>6. /\ R3 \in TreeType /\ R3.lock = l /\ R3.qc = s.tree.qc /\ R3.commit = c
        /\ R3.blocks = T
    BY <1>4, <1>5 DEF TreeType
  <1>7. BesidesTree(s2, s3) /\ s3.tree = R3
    <2> HIDE DEF R3
    <2> QED BY <1>5, <1>6, WithTreeFields, Zenon DEF BesidesTree
  <1> HIDE DEF R3, s3
  <1>8. /\ R4 \in TreeType /\ R4.lock = l /\ R4.qc = s.tree.qc /\ R4.commit = c
        /\ R4.blocks = T /\ R4.root = c
    BY <1>6, <1>7 DEF TreeType
  <1>9. BesidesTree(s3, s4) /\ s4.tree = R4
    <2> HIDE DEF R4
    <2> QED BY <1>7, <1>8, WithTreeFields, Zenon DEF BesidesTree
  <1> HIDE DEF R4, s4
  <1> QED BY <1>1, <1>3, <1>5, <1>7, <1>8, <1>9, Zenon DEF BesidesTree, TreeIs

\* What an insertion does to the tree: the highest block and the lock block only
\* go up, and the blocks that the pending work is about stay.
Grown(s, t, b) ==
    /\ TreeOK(t) /\ t.tree.blocks \subseteq s.tree.blocks \cup {b}
    /\ Number[b] <= Number[t.tree.qc] /\ Number[s.tree.qc] <= Number[t.tree.qc]
    /\ \A x \in Block :
          ~HigherQuorumCert(x, s.tree.qc) => ~HigherQuorumCert(x, t.tree.qc)
    /\ Number[s.tree.lock] <= Number[t.tree.lock]
    /\ \A p \in s.tree.blocks :
          p = Parent[b] \/ Number[p] >= Number[b] => p \in t.tree.blocks
    /\ \A d \in certified :
          Number[d] > Number[t.tree.lock] /\ Parent[d] \in s.tree.blocks
          => Parent[d] \in t.tree.blocks

\* A certified block that extends the tree and is not below the highest block.
Insertable(s, b) ==
    /\ b \in certified /\ Parent[b] \in s.tree.blocks /\ ~HasBlock(s, b)
    /\ NotAfter(Epoch[b], ViewNumber[b], s.view.epoch, s.view.number)

\* The numbers of the blocks around one that is inserted.
LEMMA TreeFacts ==
    ASSUME Env, NEW s \in StateType, TreeOK(s), NEW b, Insertable(s, b)
    PROVE  /\ b \in Block /\ b # Genesis /\ Number[b] \in Nat /\ Parent[b] \in Block
           /\ Number[b] = Number[Parent[b]] + 1
           /\ s.tree.blocks \subseteq Block
           /\ \A x \in s.tree.blocks : Number[x] \in Nat
           /\ {s.tree.root, s.tree.qc, s.tree.lock} \subseteq s.tree.blocks
           /\ s.tree.commit = s.tree.root
           /\ Number[s.tree.qc] <= Number[b]
           /\ \A x \in s.tree.blocks :
                 /\ Number[s.tree.root] <= Number[x] /\ Number[x] <= Number[s.tree.root] + 2
                 /\ x # s.tree.root => /\ x # Genesis /\ Parent[x] \in s.tree.blocks
                                       /\ Number[x] > Number[s.tree.root]
           /\ \E n \in Nat : \A x \in s.tree.blocks \cup {b} : ViewNumber[x] <= n
  <1>1. b \in proposed /\ b \in certified
    BY CertifiedBlock, Zenon DEF Insertable
  <1>2. /\ b \in Block /\ b # Genesis /\ Number[b] \in Nat /\ Parent[b] \in Block
        /\ Number[b] = Number[Parent[b]] + 1 /\ ViewNumber[b] \in Nat
    BY <1>1, Proposed, Zenon
  <1>3. s.tree.blocks \subseteq Block
    BY DEF StateType, TreeType
  <1>4. \A x \in s.tree.blocks : Number[x] \in Nat /\ ViewNumber[x] \in Nat
    BY <1>3, BlockAssumption, Zenon
  <1>5. /\ {s.tree.root, s.tree.qc, s.tree.lock} \subseteq s.tree.blocks
        /\ s.tree.commit = s.tree.root
    BY Zenon DEF TreeOK, Rooted, Highest
  <1>6. \A x \in s.tree.blocks :
           /\ Number[s.tree.root] <= Number[x] /\ Number[x] <= Number[s.tree.root] + 2
           /\ x # s.tree.root => /\ x # Genesis /\ Parent[x] \in s.tree.blocks
                                 /\ Number[x] > Number[s.tree.root]
    BY <1>4, <1>5 DEF TreeOK, Rooted
  <1>7. Number[s.tree.qc] <= Number[b]
    BY <1>2, <1>4, <1>5 DEF Insertable, HasBlock
  <1>8. \E n \in Nat : \A x \in s.tree.blocks \cup {b} : ViewNumber[x] <= n
    <2>1. PICK n \in Nat : \A x \in s.tree.blocks : ViewNumber[x] <= n
      BY Zenon DEF TreeOK, Bounded
    <2>2. CASE ViewNumber[b] <= n
      BY <2>1, <2>2, Zenon
    <2>3. CASE ~(ViewNumber[b] <= n)
      <3>1. \A x \in s.tree.blocks \cup {b} : ViewNumber[x] <= ViewNumber[b]
        BY <1>2, <1>4, <2>1, <2>3
      <3> QED BY <1>2, <3>1, Zenon
    <2> QED BY <2>2, <2>3, Zenon
  <1> QED BY <1>2, <1>3, <1>4, <1>5, <1>6, <1>7, <1>8, Zenon

\* The highest block after the insertion.
NewHighest(s, b) == IF HigherQuorumCert(b, s.tree.qc) THEN b ELSE s.tree.qc

\* insertTree: known before, added without a commit, or with one.
LEMMA InsertCases ==
    ASSUME Env, NEW s \in StateType, TreeOK(s), NEW b, Insertable(s, b)
    PROVE  LET T == s.tree.blocks \cup {b}
               i == Grow(s, T, NewHighest(s, b))
               m == CHOOSE x \in maxBlock(b, T, s.tree.root) : TRUE
           IN  /\ b \in s.tree.blocks => insertTree(s, b) = i
               /\ b \notin s.tree.blocks =>
                     /\ insertTree(s, b) = tryCommitNewBlock(i, m, b)
                     /\ m \in T /\ HasParent(m, T, s.tree.root) /\ Number[m] = Number[b]
  <1> DEFINE T == s.tree.blocks \cup {b}
             r == s.tree.root
             i == Grow(s, T, NewHighest(s, b))
             m == CHOOSE x \in maxBlock(b, T, r) : TRUE
             higher == \/ s.tree.qc = Genesis \/ s.tree.qc \notin T
                       \/ HigherQuorumCert(b, s.tree.qc)
  <1>1. higher <=> HigherQuorumCert(b, s.tree.qc)
    <2>1. s.tree.qc \in T /\ Number[s.tree.qc] \in Nat
      BY TreeFacts, Zenon
    <2>2. s.tree.qc = Genesis => Number[b] > Number[s.tree.qc]
      BY TreeFacts, BlockAssumption
    <2> QED BY <2>1, <2>2, Zenon DEF HigherQuorumCert
  <1>2. i = [s EXCEPT !.tree.blocks = T, !.tree.qc = IF higher THEN b ELSE @]
    <2> DEFINE s1 == [s EXCEPT !.tree = [s.tree EXCEPT !.blocks = T]]
    <2>1. s1.tree.qc = s.tree.qc
      BY DEF StateType, TreeType
    <2>2. [s EXCEPT !.tree.blocks = T, !.tree.qc = IF higher THEN b ELSE @] =
             [s1 EXCEPT !.tree = [s1.tree EXCEPT !.qc = IF higher THEN b ELSE s1.tree.qc]]
      BY Zenon
    <2>3. i = [s1 EXCEPT !.tree = [s1.tree EXCEPT !.qc = NewHighest(s, b)]]
      BY Zenon DEF Grow
    <2>4. (IF higher THEN b ELSE s1.tree.qc) = NewHighest(s, b)
      <3> HIDE DEF higher, s1
      <3> QED BY <1>1, <2>1, Zenon DEF NewHighest
    <2> HIDE DEF higher, s1, i
    <2> QED BY <2>2, <2>3, <2>4
  <1>3. insertTree(s, b) =
          CASE b \in s.tree.blocks -> i
            [] b \notin s.tree.blocks /\ commitBlockPanics(m, T, r) ->
                  [i EXCEPT !.fault = @ \cup {"panic"}]
            [] OTHER -> tryCommitNewBlock(i, m, b)
    BY <1>2, Zenon DEF insertTree
  <1>4. ASSUME b \notin s.tree.blocks
        PROVE  /\ m \in T /\ HasParent(m, T, r) /\ Number[m] = Number[b]
               /\ ~commitBlockPanics(m, T, r)
    <2>1. PICK n \in Nat : \A x \in T : ViewNumber[x] <= n
      BY TreeFacts, Zenon
    <2>2. T \in SUBSET Block /\ b \in T /\ r \in T /\ b # r
      BY <1>4, TreeFacts, Zenon
    <2>3. HasParent(b, T, r)
      BY <2>2, Zenon DEF HasParent, Insertable
    <2>4. maxBlock(b, T, r) # {}
      <3> HIDE DEF T, r
      <3> QED BY <2>1, <2>2, MaxBlockExists, Zenon
    <2>5. m \in maxBlock(b, T, r)
      BY <2>4, Zenon
    <2>6. m \in T /\ HasParent(m, T, r) /\ Number[m] = Number[b]
      <3> HIDE DEF T, r, m
      <3> QED BY <2>2, <2>3, <2>5, MaxBlockLinked
    <2>7. ~commitBlockPanics(m, T, r)
      <3>1. Parent[m] \in s.tree.blocks
        <4> HIDE DEF m
        <4>1. m \in Block /\ Parent[m] \in T /\ Number[m] \in Nat /\ m # Genesis
          BY <2>2, <2>6, TreeFacts, ParentNumber, Zenon DEF HasParent
        <4>2. Number[m] = Number[Parent[m]] + 1 /\ Number[Parent[m]] \in Nat
          BY <4>1, ParentNumber, Zenon
        <4>3. Parent[m] # b
          <5>1. Number[m] = Number[b]
            BY <2>6, Zenon
          <5> SUFFICES ASSUME Parent[m] = b PROVE FALSE
            BY Zenon
          <5> QED BY <4>2, <5>1
        <4> QED BY <4>1, <4>3, Zenon
      <3>2. Parent[m] # r => Parent[Parent[m]] \in T
        BY <3>1, TreeFacts, Zenon
      <3> HIDE DEF T, r, m
      <3> QED BY <2>6, <3>2, Zenon DEF commitBlockPanics, lockOf, HasParent
    <2> QED BY <2>6, <2>7, Zenon
  <1> HIDE DEF i, m, T, r
  <1>5. b \in s.tree.blocks => insertTree(s, b) = i
    BY <1>3
  <1>6. b \notin s.tree.blocks => insertTree(s, b) = tryCommitNewBlock(i, m, b)
    BY <1>3, <1>4
  <1> QED BY <1>4, <1>5, <1>6, Zenon DEF i, m, T, r

\* An insertion that commits: the new block is the only one of its height, and
\* what descends from its grandparent is kept.
LEMMA CommitTree ==
    ASSUME Env, NEW s \in StateType, TreeOK(s), NEW b, Insertable(s, b),
           b \notin s.tree.blocks, Number[b] = Number[s.tree.root] + 3
    PROVE  LET T == s.tree.blocks \cup {b}
               c == Parent[Parent[b]]
           IN  /\ Parent[b] # s.tree.root /\ c \in s.tree.blocks /\ Parent[b] \in Block
               /\ Number[c] = Number[s.tree.root] + 1
               /\ Number[Parent[b]] = Number[s.tree.root] + 2
               /\ NewHighest(s, b) = b
               /\ Pruned(T, c, PruneBlock(c, T))
  <1> DEFINE T == s.tree.blocks \cup {b}
             r == s.tree.root
             l == Parent[b]
             c == Parent[l]
  <1>1. /\ r \in s.tree.blocks /\ l \in s.tree.blocks /\ Number[r] \in Nat
        /\ Number[l] = Number[r] + 2 /\ s.tree.blocks \subseteq Block /\ b \in Block
        /\ \A x \in s.tree.blocks : Number[x] \in Nat
    BY TreeFacts DEF Insertable
  <1>2. l # r /\ l # Genesis /\ c \in s.tree.blocks
    <2>1. l # r
      BY <1>1
    <2> QED BY <1>1, <2>1, TreeFacts, Zenon
  <1>3. Number[c] = Number[r] + 1
    BY <1>1, <1>2, ParentNumber
  <1>4. NewHighest(s, b) = b
    <2>1. Number[s.tree.qc] <= Number[r] + 2 /\ Number[s.tree.qc] \in Nat
      BY TreeFacts, Zenon
    <2> QED BY <1>1, <2>1 DEF NewHighest, HigherQuorumCert
  <1>5. Prunable(T, r, c)
    <2>1. \A x \in T \ {r} : x # Genesis /\ Parent[x] \in T
      BY <1>1, TreeFacts, Zenon
    <2>2. \A x \in T : Number[x] <= Number[c] + 2
      <3>1. \A x \in s.tree.blocks : Number[x] <= Number[r] + 2
        BY TreeFacts, Zenon
      <3> QED BY <1>1, <1>3, <3>1
    <2> HIDE DEF l, c
    <2> QED BY <1>1, <1>2, <1>3, <2>1, <2>2 DEF Prunable
  <1>6. Pruned(T, c, PruneBlock(c, T))
    <2> HIDE DEF T, r, c
    <2> QED BY <1>5, PruneKeepsTree, Zenon
  <1> QED BY <1>1, <1>2, <1>3, <1>4, <1>6, TreeFacts, Zenon

\* The tree after an insertion that commits.
Committed(s, t, b) ==
    /\ BesidesTree(s, t)
    /\ TreeIs(t, PruneBlock(Parent[Parent[b]], s.tree.blocks \cup {b}),
              Parent[Parent[b]], b, Parent[b], Parent[Parent[b]])

\* With a commit the tree grows and loses what is below the new root.
LEMMA CommitGrown ==
    ASSUME Env, NEW s \in StateType, TreeOK(s), NEW b, Insertable(s, b),
           b \notin s.tree.blocks, Number[b] = Number[s.tree.root] + 3,
           NEW t, Committed(s, t, b)
    PROVE  Grown(s, t, b)
  <1> DEFINE T == s.tree.blocks \cup {b}
             r == s.tree.root
             l == Parent[b]
             c == Parent[l]
             K == PruneBlock(c, T)
  <1>1. /\ Parent[b] # r /\ c \in s.tree.blocks /\ Parent[b] \in Block
        /\ Number[c] = Number[r] + 1 /\ Number[l] = Number[r] + 2
        /\ Pruned(T, c, K)
    BY CommitTree, Zenon
  <1>2. /\ l \in s.tree.blocks /\ b \in Block /\ b # Genesis /\ Number[r] \in Nat
        /\ s.tree.blocks \subseteq Block
        /\ \A x \in s.tree.blocks :
              /\ Number[x] \in Nat /\ Number[x] <= Number[r] + 2
              /\ x # r => x # Genesis
    BY TreeFacts, Zenon DEF Insertable
  <1>3. /\ t.tree.blocks = K /\ t.tree.root = c /\ t.tree.qc = b /\ t.tree.lock = l
        /\ t.tree.commit = c /\ BesidesTree(s, t)
    BY Zenon DEF TreeIs, Committed
  <1>4. l # Genesis /\ l # r
    BY <1>1, <1>2, Zenon
  <1> HIDE DEF l
  <1>0. Parent[b] = l
    BY Zenon DEF l
  <1> HIDE DEF r, c
  <1>5. Parent[l] = c
    BY Zenon DEF c
  <1> HIDE DEF K
  <1>6. /\ K \subseteq T /\ c \in K
        /\ \A x \in K \ {c} : Number[x] > Number[c] /\ Parent[x] \in K
    BY <1>1, Zenon DEF Pruned
  <1>7. l \in K /\ b \in K
    BY <1>0, <1>1, <1>2, <1>4, <1>5, Zenon DEF Pruned
  <1>8. Number[b] = Number[c] + 2 /\ Number[c] \in Nat
    BY <1>1, <1>2 DEF r
  <1>9. \A x \in T : x \in Block /\ Number[x] \in Nat /\ Number[x] <= Number[c] + 2
    BY <1>1, <1>2, <1>8
  <1>10. \A x \in s.tree.blocks : Number[x] < Number[b]
    BY <1>1, <1>2, <1>8
  <1>11. Rooted(t)
    <2>1. \A x \in K \ {c} : x # Genesis
      BY <1>6, <1>8, <1>9, BlockAssumption
    <2> QED BY <1>3, <1>6, <1>9, <2>1, Zenon DEF Rooted
  <1>12. Highest(t)
    <2>1. \A x \in K : ~HigherQuorumCert(x, b)
      BY <1>2, <1>6, <1>9, <1>10, HigherStrict, Zenon
    <2> QED BY <1>3, <1>7, <2>1, Zenon DEF Highest
  <1>13. Behind(t)
    BY <1>3, <1>6, Zenon DEF Behind, TreeOK, Insertable, BesidesTree
  <1>14. Bounded(t)
    BY <1>3, <1>6, TreeFacts, Zenon DEF Bounded
  <1>15. /\ Number[b] <= Number[t.tree.qc] /\ Number[s.tree.qc] <= Number[t.tree.qc]
         /\ Number[s.tree.lock] <= Number[t.tree.lock]
    BY <1>1, <1>2, <1>3, <1>9, TreeFacts DEF r
  <1>16. \A x \in Block :
            ~HigherQuorumCert(x, s.tree.qc) => ~HigherQuorumCert(x, t.tree.qc)
    <2>1. s.tree.qc \in s.tree.blocks
      BY TreeFacts, Zenon
    <2>2. HigherQuorumCert(b, s.tree.qc) /\ s.tree.qc \in Block
      BY <1>2, <1>9, <1>10, <2>1, HigherStrict, Zenon
    <2> QED BY <1>2, <1>3, <2>2, HigherStrict, Zenon
  <1>17. \A p \in s.tree.blocks :
            p = Parent[b] \/ Number[p] >= Number[b] => p \in t.tree.blocks
    BY <1>0, <1>2, <1>3, <1>7, <1>9, <1>10
  <1>18. ASSUME NEW d \in certified, Number[d] > Number[t.tree.lock],
                Parent[d] \in s.tree.blocks
         PROVE  Parent[d] \in t.tree.blocks
    <2>1. d \in proposed
      BY CertifiedBlock, Zenon
    <2>2. Number[d] = Number[Parent[d]] + 1 /\ Number[d] \in Nat
      BY <2>1, Proposed, Zenon
    <2>3. Number[d] = Number[b] /\ Number[Parent[d]] = Number[r] + 2
      BY <1>1, <1>2, <1>3, <1>8, <1>18, <2>2
    <2>4. Parent[Parent[d]] = c
      BY <1>0, <1>5, <2>3, CertifiedBlock, Zenon DEF Insertable
    <2>5. Parent[d] # Genesis
      BY <1>2, <2>3, BlockAssumption
    <2> QED BY <1>1, <1>3, <1>18, <2>4, <2>5, Zenon DEF Pruned
  <1> QED
    BY <1>3, <1>6, <1>11, <1>12, <1>13, <1>14, <1>15, <1>16, <1>17, <1>18, Zenon
       DEF Grown, TreeOK

\* The tree after an insertion that commits nothing.
Stayed(s, t, b) ==
    /\ BesidesTree(s, t)
    /\ TreeIs(t, s.tree.blocks \cup {b}, s.tree.root, NewHighest(s, b),
              s.tree.lock, s.tree.commit)

\* Without a commit the tree only grows.
LEMMA StayGrown ==
    ASSUME Env, NEW s \in StateType, TreeOK(s), NEW b, Insertable(s, b),
           Number[b] <= Number[s.tree.root] + 2,
           NEW t, Stayed(s, t, b)
    PROVE  Grown(s, t, b)
  <1> DEFINE T == s.tree.blocks \cup {b}
             q == NewHighest(s, b)
  <1>1. /\ t.tree.blocks = T /\ t.tree.root = s.tree.root /\ t.tree.qc = q
        /\ t.tree.lock = s.tree.lock /\ t.tree.commit = s.tree.commit
        /\ BesidesTree(s, t)
    BY Zenon DEF TreeIs, Stayed
  <1>2. /\ b \in Block /\ b # Genesis /\ Number[b] \in Nat
        /\ Parent[b] \in s.tree.blocks /\ Number[b] = Number[Parent[b]] + 1
        /\ s.tree.blocks \subseteq Block /\ s.tree.qc \in s.tree.blocks
        /\ s.tree.root \in s.tree.blocks /\ s.tree.lock \in s.tree.blocks
        /\ s.tree.commit = s.tree.root
        /\ \A x \in s.tree.blocks :
              /\ Number[x] \in Nat /\ Number[s.tree.root] <= Number[x]
              /\ Number[x] <= Number[s.tree.root] + 2
    BY TreeFacts, Zenon DEF Insertable
  <1>3. /\ q \in T /\ q \in Block /\ ~HigherQuorumCert(b, q)
        /\ \A x \in Block : ~HigherQuorumCert(x, s.tree.qc) => ~HigherQuorumCert(x, q)
    <2>1. CASE HigherQuorumCert(b, s.tree.qc)
      <3>1. q = b
        BY <2>1, Zenon DEF NewHighest
      <3> QED BY <1>2, <2>1, <3>1, HigherStrict, Zenon
    <2>2. CASE ~HigherQuorumCert(b, s.tree.qc)
      BY <1>2, <2>2, Zenon DEF NewHighest
    <2> QED BY <2>1, <2>2, Zenon
  <1>4. Number[q] \in Nat /\ Number[b] <= Number[q] /\ Number[s.tree.qc] <= Number[q]
    <2>1. q \in T /\ q \in Block /\ ~HigherQuorumCert(b, q)
      BY <1>3, Zenon
    <2>2. ~HigherQuorumCert(s.tree.qc, q)
      BY <1>2, <1>3, HigherStrict, Zenon
    <2> HIDE DEF q
    <2> QED BY <1>2, <2>1, <2>2 DEF HigherQuorumCert
  <1> HIDE DEF q
  <1>5. Rooted(t)
    <2>1. \A x \in T \ {s.tree.root} :
             x # Genesis /\ Parent[x] \in T /\ Number[x] > Number[s.tree.root]
      <3>1. \A x \in s.tree.blocks \ {s.tree.root} :
               x # Genesis /\ Parent[x] \in T /\ Number[x] > Number[s.tree.root]
        BY TreeFacts, Zenon
      <3>2. Number[b] > Number[s.tree.root] /\ Parent[b] \in T
        BY <1>2
      <3> QED BY <1>2, <3>1, <3>2, Zenon
    <2>2. \A x \in T : Number[x] <= Number[s.tree.root] + 2
      BY <1>2, Zenon
    <2> QED BY <1>1, <1>2, <2>1, <2>2, Zenon DEF Rooted
  <1>6. Highest(t)
    <2>1. \A x \in s.tree.blocks : ~HigherQuorumCert(x, s.tree.qc)
      BY Zenon DEF TreeOK, Highest
    <2>2. \A x \in T : ~HigherQuorumCert(x, q)
      <3>1. /\ \A x \in Block : ~HigherQuorumCert(x, s.tree.qc) => ~HigherQuorumCert(x, q)
            /\ ~HigherQuorumCert(b, q)
        BY <1>3, Zenon
      <3>2. s.tree.blocks \subseteq Block
        BY <1>2, Zenon
      <3> QED BY <2>1, <3>1, <3>2, Zenon
    <2> QED BY <1>1, <1>2, <1>3, <2>2, Zenon DEF Highest
  <1>7. Behind(t)
    BY <1>1, Zenon DEF Behind, TreeOK, Insertable, BesidesTree
  <1>8. Bounded(t)
    BY <1>1, TreeFacts, Zenon DEF Bounded
  <1>9. Number[s.tree.lock] <= Number[t.tree.lock]
    BY <1>1, <1>2
  <1> QED BY <1>1, <1>3, <1>4, <1>5, <1>6, <1>7, <1>8, <1>9, Zenon DEF Grown, TreeOK

\* insertTree keeps the tree in order and never follows a missing parent.
LEMMA InsertTree ==
    ASSUME Env, NEW s \in StateType, TreeOK(s), NEW b, Insertable(s, b)
    PROVE  BesidesTree(s, insertTree(s, b)) /\ Grown(s, insertTree(s, b), b)
  <1> DEFINE T == s.tree.blocks \cup {b}
             r == s.tree.root
             q == NewHighest(s, b)
             i == Grow(s, T, q)
             m == CHOOSE x \in maxBlock(b, T, r) : TRUE
             t == insertTree(s, b)
             c == commitOf(m, r)
  <1>1. /\ b \in s.tree.blocks => t = i
        /\ b \notin s.tree.blocks =>
              /\ t = tryCommitNewBlock(i, m, b)
              /\ m \in T /\ HasParent(m, T, r) /\ Number[m] = Number[b]
    BY InsertCases, Zenon
  <1>2. T \in SUBSET Block /\ q \in Block
    BY TreeFacts, Zenon DEF NewHighest
  <1>3. BesidesTree(s, i) /\ TreeIs(i, T, r, q, s.tree.lock, s.tree.commit)
    <2> HIDE DEF T, q
    <2> QED BY <1>2, GrowFields, Zenon
  <1>4. /\ i.tree.root = r /\ i.tree.commit = r /\ i.tree.blocks = T /\ i.tree.qc = q
        /\ i \in StateType
    <2>1. s.tree.commit = r
      BY TreeFacts, Zenon
    <2> HIDE DEF i, T, q, r
    <2> QED BY <1>3, <2>1, Zenon DEF TreeIs, BesidesTree
  <1> SUFFICES BesidesTree(s, t) /\ Grown(s, t, b)
    BY Zenon
  <1> HIDE DEF t, i, m, q
  <1>5. ASSUME t = i, Number[b] <= Number[r] + 2
        PROVE  BesidesTree(s, t) /\ Grown(s, t, b)
    <2>1. Stayed(s, i, b)
      BY <1>3, Zenon DEF q, Stayed
    <2>2. Grown(s, i, b)
      BY <1>5, <2>1, StayGrown, Zenon
    <2> QED BY <1>3, <1>5, <2>2, Zenon
  <1>6. CASE b \in s.tree.blocks
    <2>1. Number[b] <= Number[r] + 2
      BY <1>6, TreeFacts, Zenon
    <2> QED BY <1>1, <1>5, <1>6, <2>1, Zenon
  <1>7. CASE b \notin s.tree.blocks /\ Number[b] # Number[r] + 3
    <2>1. /\ Number[b] \in Nat /\ Number[Parent[b]] <= Number[r] + 2 /\ Number[r] \in Nat
          /\ Number[b] = Number[Parent[b]] + 1 /\ Number[Parent[b]] \in Nat
      BY TreeFacts, Zenon DEF Insertable
    <2>2. Number[b] <= Number[r] + 2
      BY <1>7, <2>1
    <2>3. c \in Block
      <3>1. m \in Block
        BY <1>1, <1>2, <1>7, Zenon
      <3> QED BY <3>1, TreeFacts, ParentNumber, Zenon DEF commitOf, lockOf
    <2>4. ~(Number[c] + 2 = Number[b] /\ Number[r] + 1 = Number[c])
      BY <1>7, <2>1, <2>3, ParentNumber
    <2>5. t = i
      BY <1>1, <1>4, <1>7, <2>4 DEF tryCommitNewBlock
    <2> QED BY <1>5, <2>2, <2>5, Zenon
  <1>8. CASE b \notin s.tree.blocks /\ Number[b] = Number[r] + 3
    <2>1. m = b
      <3>1. \A x \in s.tree.blocks : Number[x] <= Number[r] + 2 /\ Number[x] \in Nat
                                     /\ Number[r] \in Nat
        BY TreeFacts, Zenon
      <3> QED BY <1>1, <1>8, <3>1
    <2> DEFINE l == Parent[b]
               g == Parent[Parent[b]]
               K == PruneBlock(g, T)
    <2>2. /\ l # r /\ g \in s.tree.blocks /\ l \in Block
          /\ Number[g] = Number[r] + 1 /\ Number[l] = Number[r] + 2
          /\ q = b /\ Pruned(T, g, K)
      BY <1>8, CommitTree, Zenon DEF q
    <2>3. c = g
      BY <2>1, <2>2, Zenon DEF commitOf, lockOf
    <2>4. Number[g] + 2 = Number[b] /\ Number[r] \in Nat
      BY <1>8, <2>2, TreeFacts
    <2>5. t = Commit(i, l, g, K)
      BY <1>1, <1>4, <1>8, <2>1, <2>2, <2>3, <2>4, Zenon DEF tryCommitNewBlock, Commit, lockOf
    <2>6. K \in SUBSET Block /\ g \in Block
      <3>1. K \subseteq T
        <4> HIDE DEF T, K, g
        <4> QED BY <2>2, Zenon DEF Pruned
      <3>2. s.tree.blocks \subseteq Block
        BY TreeFacts, Zenon
      <3> HIDE DEF T, K, g
      <3> QED BY <1>2, <2>2, <3>1, <3>2, Zenon
    <2>7. BesidesTree(i, t) /\ TreeIs(t, K, g, i.tree.qc, l, g)
      <3> HIDE DEF K, g, l
      <3> QED BY <1>4, <2>2, <2>5, <2>6, CommitFields, Zenon
    <2>8. BesidesTree(s, t)
      BY <1>3, <2>7, Zenon DEF BesidesTree
    <2>9. Committed(s, t, b)
      BY <1>4, <2>2, <2>7, <2>8, Zenon DEF Committed
    <2>10. Grown(s, t, b)
      BY <1>8, <2>9, CommitGrown, Zenon
    <2> QED BY <2>8, <2>10, Zenon
  <1> QED BY <1>6, <1>7, <1>8, Zenon

-----------------------------------------------------------------------------
(* insertQCBlock *)

\* The fields of the view that a certificate does not touch.
SameFields(v, w) ==
    /\ w.epoch = v.epoch /\ w.number = v.number /\ w.executing = v.executing
    /\ w.pending = v.pending /\ w.hadSend = v.hadSend /\ w.votes = v.votes
    /\ w.own = v.own /\ w.changes = v.changes /\ w.maxChange = v.maxChange
    /\ w.last = v.last /\ w.deadline = v.deadline

SameView(s, t) == SameFields(s.view, t.view)

\* The view knows block b and its certificate, when they are of this view.
AddedQC(s, t, b) ==
    /\ \A j \in Index :
          \/ t.view.blocks[j] = s.view.blocks[j]
          \/ /\ s.view.blocks[j] = None /\ t.view.blocks[j] = b
             /\ j = BlockIndex[b] /\ InView(s, b)
    /\ s.view.qcs \subseteq t.view.qcs
    /\ \A j \in t.view.qcs \ s.view.qcs :
          j = BlockIndex[b] /\ InView(s, b) /\ t.view.blocks[j] = b
    /\ InView(s, b) /\ BlockIndex[b] \in Index => BlockIndex[b] \in t.view.qcs

WithBlock(s, i, b) ==
    [s EXCEPT !.view.blocks[i] = IF @ = None THEN b ELSE @, !.view.qcs = @ \cup {i}]

WithView(s, w) == [s EXCEPT !.view = w]

\* A new view record leaves the rest of the state alone.
LEMMA WithViewFields ==
    ASSUME NEW s \in StateType, NEW w \in ViewType
    PROVE  /\ WithView(s, w) \in StateType /\ Around(s, WithView(s, w))
           /\ WithView(s, w).view = w
  BY DEF StateType, WithView, Around

SetBlocks(w, B) == [w EXCEPT !.blocks = B]

\* Setting the blocks of a view leaves its other fields alone.
LEMMA SetBlocksFields ==
    ASSUME NEW w \in ViewType, NEW B \in [Index -> OptBlock]
    PROVE  /\ SetBlocks(w, B) \in ViewType /\ SameFields(w, SetBlocks(w, B))
           /\ SetBlocks(w, B).blocks = B /\ SetBlocks(w, B).qcs = w.qcs
  <1>1. SetBlocks(w, B) \in ViewType
    BY ZenonT(60) DEF ViewType, SetBlocks
  <1> QED BY <1>1, ZenonT(60) DEF ViewType, SetBlocks, SameFields

SetQCs(w, Q) == [w EXCEPT !.qcs = Q]

\* Setting the certificates of a view leaves its other fields alone.
LEMMA SetQCsFields ==
    ASSUME NEW w \in ViewType, NEW Q \in SUBSET Index
    PROVE  /\ SetQCs(w, Q) \in ViewType /\ SameFields(w, SetQCs(w, Q))
           /\ SetQCs(w, Q).blocks = w.blocks /\ SetQCs(w, Q).qcs = Q
  <1>1. SetQCs(w, Q) \in ViewType
    BY ZenonT(60) DEF ViewType, SetQCs
  <1> QED BY <1>1, ZenonT(60) DEF ViewType, SetQCs, SameFields

\* A certified block stored at its index.
LEMMA WithBlockFields ==
    ASSUME NEW s \in StateType, NEW i \in Index, NEW b \in Block
    PROVE  LET t == WithBlock(s, i, b)
           IN  /\ t \in StateType /\ Around(s, t) /\ SameView(s, t)
               /\ t.view.qcs = s.view.qcs \cup {i}
               /\ \A j \in Index : t.view.blocks[j] =
                     IF j = i /\ s.view.blocks[i] = None THEN b ELSE s.view.blocks[j]
  <1> DEFINE B == [s.view.blocks EXCEPT ![i] = IF @ = None THEN b ELSE @]
             w1 == [s.view EXCEPT !.blocks = B]
             s1 == WithView(s, w1)
             w2 == [s1.view EXCEPT !.qcs = s1.view.qcs \cup {i}]
             s2 == WithView(s1, w2)
  <1>1. WithBlock(s, i, b) = s2
    BY Zenon DEF WithBlock, WithView
  <1>2. /\ B \in [Index -> OptBlock]
        /\ \A j \in Index : B[j] =
              IF j = i /\ s.view.blocks[i] = None THEN b ELSE s.view.blocks[j]
    BY Zenon DEF StateType, ViewType, OptBlock
  <1> HIDE DEF B
  <1>3. /\ w1 \in ViewType /\ SameFields(s.view, w1)
        /\ w1.qcs = s.view.qcs /\ w1.blocks = B
    <2>1. s.view \in ViewType
      BY DEF StateType
    <2>2. w1 = SetBlocks(s.view, B)
      BY DEF SetBlocks
    <2> HIDE DEF w1
    <2> QED BY <1>2, <2>1, <2>2, SetBlocksFields, Zenon
  <1>4. s1 \in StateType /\ Around(s, s1) /\ s1.view = w1
    <2> HIDE DEF w1
    <2> QED BY <1>3, WithViewFields, Zenon
  <1> HIDE DEF w1, s1
  <1>5. /\ w2 \in ViewType /\ SameFields(s.view, w2)
        /\ w2.qcs = s.view.qcs \cup {i} /\ w2.blocks = B
    <2>1. w1.qcs \cup {i} \in SUBSET Index
      BY <1>3, Zenon DEF ViewType
    <2>2. w2 = SetQCs(w1, w1.qcs \cup {i})
      BY <1>4 DEF SetQCs
    <2> HIDE DEF w2
    <2>3. /\ w2 \in ViewType /\ SameFields(w1, w2)
          /\ w2.qcs = w1.qcs \cup {i} /\ w2.blocks = w1.blocks
      BY <1>3, <2>1, <2>2, SetQCsFields, Zenon
    <2> QED BY <1>3, <2>3, Zenon DEF SameFields
  <1>6. s2 \in StateType /\ Around(s1, s2) /\ s2.view = w2
    <2> HIDE DEF w2
    <2> QED BY <1>4, <1>5, WithViewFields, Zenon
  <1> HIDE DEF w2, s2
  <1>7. Around(s, s2) /\ SameView(s, s2)
    BY <1>4, <1>5, <1>6, Zenon DEF Around, SameView
  <1> QED BY <1>1, <1>2, <1>5, <1>6, <1>7, Zenon

\* addQC stores a certificate of the view, and no other.
LEMMA AddQC ==
    ASSUME Env, NEW s, Good(s), NEW b \in certified
    PROVE  LET t == addQC(s, b, b)
           IN  t \in StateType /\ Around(s, t) /\ SameView(s, t) /\ AddedQC(s, t, b)
  <1> DEFINE i == BlockIndex[b]
             t == addQC(s, b, b)
  <1>0. s \in StateType /\ b \in proposed /\ b \in Block
    BY CertifiedBlock, Proposed, Zenon DEF Good
  <1>1. CASE InView(s, b) /\ i \in Index
    <2>1. t = WithBlock(s, i, b)
      BY <1>1 DEF addQC, WithBlock
    <2>2. /\ t \in StateType /\ Around(s, t) /\ SameView(s, t)
          /\ t.view.qcs = s.view.qcs \cup {i}
          /\ \A j \in Index : t.view.blocks[j] =
                IF j = i /\ s.view.blocks[i] = None THEN b ELSE s.view.blocks[j]
      <3> HIDE DEF i
      <3> QED BY <1>0, <1>1, <2>1, WithBlockFields
    <2>3. s.view.blocks[i] # None => s.view.blocks[i] = b
      <3> SUFFICES ASSUME s.view.blocks[i] # None PROVE s.view.blocks[i] = b
        BY Zenon
      <3>1. /\ s.view.blocks[i] \in proposed /\ InView(s, s.view.blocks[i])
            /\ BlockIndex[s.view.blocks[i]] = i
        BY <1>1, Zenon DEF Good, BlocksOK
      <3> QED BY <1>0, <1>1, <3>1, SameViewOrder, Zenon DEF InView
    <2> HIDE DEF t
    <2>4. t.view.blocks[i] = b
      BY <1>1, <2>2, <2>3, Zenon
    <2>5. AddedQC(s, t, b)
      BY <1>1, <2>2, <2>4, Zenon DEF AddedQC
    <2> QED BY <2>2, <2>5, Zenon DEF t
  <1>2. CASE ~(InView(s, b) /\ i \in Index)
    <2>1. t = s
      BY <1>2 DEF addQC
    <2> QED BY <1>0, <1>2, <2>1, Zenon DEF Around, SameView, SameFields, AddedQC
  <1> QED BY <1>1, <1>2, Zenon

\* A block of the view at the index of b is b.
LEMMA OneBlock ==
    ASSUME Env, NEW s, Good(s), NEW b \in proposed, InView(s, b),
           NEW j \in Index, s.view.blocks[j] # None
    PROVE  /\ s.view.blocks[j] \in proposed /\ BlockIndex[s.view.blocks[j]] = j
           /\ j = BlockIndex[b] => s.view.blocks[j] = b
           /\ Number[s.view.blocks[j]] + BlockIndex[b] = Number[b] + j
  <1> DEFINE d == s.view.blocks[j]
  <1>1. d \in proposed /\ InView(s, d) /\ BlockIndex[d] = j
    BY Zenon DEF Good, BlocksOK
  <1>2. Epoch[d] = Epoch[b] /\ ViewNumber[d] = ViewNumber[b]
    BY <1>1, Zenon DEF InView
  <1> HIDE DEF d
  <1>3. /\ Number[d] + BlockIndex[b] = Number[b] + BlockIndex[d]
        /\ BlockIndex[d] = BlockIndex[b] => d = b
    BY <1>1, <1>2, SameViewOrder, Zenon
  <1> QED BY <1>1, <1>3, Zenon DEF d

\* Up to here insertQCBlock has taken the block into the view and the tree.
Inserted(s, t, b) ==
    /\ t.pool = s.pool /\ t.tasks = s.tasks /\ t.sent = s.sent
    /\ SameView(s, t) /\ AddedQC(s, t, b) /\ Grown(s, t, b)

\* insertQCBlock's storing and inserting of a certified block.
LEMMA Insert ==
    ASSUME Env, NEW s, Good(s), NEW b, Insertable(s, b)
    PROVE  LET t == insertTree(addQC(s, b, b), b)
           IN  Good(t) /\ Inserted(s, t, b)
  <1> DEFINE a == addQC(s, b, b)
             t == insertTree(a, b)
  <1>1. a \in StateType /\ Around(s, a) /\ SameView(s, a) /\ AddedQC(s, a, b)
    BY AddQC, Zenon DEF Insertable
  <1> SUFFICES Good(t) /\ Inserted(s, t, b)
    BY Zenon
  <1> HIDE DEF a
  <1>2. TreeOK(a) /\ Insertable(a, b)
    BY <1>1, Zenon DEF Good, TreeOK, Rooted, Highest, Behind, Bounded, Around, SameView, SameFields,
                Insertable, HasBlock
  <1>3. BesidesTree(a, t) /\ Grown(a, t, b)
    BY <1>1, <1>2, InsertTree, Zenon
  <1> HIDE DEF t
  <1>4. Inserted(s, t, b)
    <2>1. Grown(s, t, b)
      BY <1>1, <1>3, Zenon DEF Grown, Around
    <2>2. SameView(s, t) /\ AddedQC(s, t, b)
      BY <1>1, <1>3, Zenon DEF SameView, AddedQC, BesidesTree
    <2> QED BY <1>1, <1>3, <2>1, <2>2, Zenon DEF Inserted, Around, BesidesTree
  <1>5. t \in StateType /\ t.fault = {} /\ TreeOK(t)
    BY <1>1, <1>3, Zenon DEF BesidesTree, Around, Good, Grown
  <1>6. /\ b \in proposed /\ b \in Block /\ Number[b] \in Nat /\ b # None /\ b \in certified
        /\ s.tree.blocks \subseteq Block /\ s.tree.qc \in Block /\ t.tree.qc \in Block
        /\ Number[s.tree.qc] \in Nat /\ Number[t.tree.qc] \in Nat
        /\ Number[b] <= Number[t.tree.qc] /\ Number[s.tree.qc] <= Number[t.tree.qc]
    <2>1. b \in proposed /\ b \in certified
      BY CertifiedBlock, Zenon DEF Insertable
    <2>2. b \in Block /\ Number[b] \in Nat /\ b # None
      BY <2>1, Proposed, Sizes, Zenon
    <2>3. s.tree.blocks \subseteq Block /\ s.tree.qc \in Block /\ t.tree.qc \in Block
      BY <1>5, Zenon DEF Good, StateType, TreeType
    <2> QED BY <1>4, <2>1, <2>2, <2>3, BlockAssumption, Zenon DEF Inserted, Grown
  <1>7. \A j \in Index :
           /\ s.view.blocks[j] # None => t.view.blocks[j] = s.view.blocks[j]
           /\ t.view.blocks[j] = s.view.blocks[j]
              \/ (s.view.blocks[j] = None /\ t.view.blocks[j] = b
                    /\ j = BlockIndex[b] /\ InView(s, b))
    BY <1>4, Zenon DEF Inserted, AddedQC
  <1>8. /\ t.view.epoch = s.view.epoch /\ t.view.number = s.view.number
        /\ t.view.executing = s.view.executing /\ t.view.pending = s.view.pending
        /\ t.view.hadSend = s.view.hadSend /\ t.view.votes = s.view.votes
        /\ t.view.own = s.view.own /\ t.view.changes = s.view.changes
        /\ t.view.maxChange = s.view.maxChange /\ t.view.deadline = s.view.deadline
        /\ t.pool = s.pool /\ t.sent = s.sent
    BY <1>4, Zenon DEF Inserted, SameView, SameFields
  <1>9. BlocksOK(t)
    <2>1. ASSUME NEW j \in Index, t.view.blocks[j] # None
          PROVE  /\ t.view.blocks[j] \in proposed /\ InView(t, t.view.blocks[j])
                 /\ BlockIndex[t.view.blocks[j]] = j
      <3>1. BlocksOK(s)
        BY Zenon DEF Good
      <3> QED BY <1>6, <1>7, <1>8, <2>1, <3>1 DEF BlocksOK, InView
    <2>2. ASSUME NEW j \in t.view.qcs
          PROVE  t.view.blocks[j] # None /\ Number[t.view.blocks[j]] <= Number[t.tree.qc]
      <3>1. CASE j \in s.view.qcs
        <4>1. /\ j \in Index /\ s.view.blocks[j] # None
              /\ Number[s.view.blocks[j]] <= Number[s.tree.qc]
              /\ s.view.blocks[j] \in proposed
          BY <3>1, Zenon DEF Good, BlocksOK, StateType, ViewType
        <4>2. Number[s.view.blocks[j]] \in Nat
          BY <4>1, Proposed, Zenon
        <4> QED BY <1>6, <1>7, <4>1, <4>2
      <3>2. CASE j \notin s.view.qcs
        BY <1>4, <1>6, <3>2 DEF Inserted, AddedQC
      <3> QED BY <3>1, <3>2, Zenon
    <2>3. ASSUME NEW j \in Index, t.view.votes[j] + 1 >= threshold
          PROVE  t.view.blocks[j] \in certified
      BY <1>6, <1>7, <1>8, <2>3, Zenon DEF Good, BlocksOK
    <2> QED BY <2>1, <2>2, <2>3, Zenon DEF BlocksOK
  <1>10. ExecutingOK(t)
    <2>1. s.view.executing.index \in Int
      BY Zenon DEF Good, StateType, ViewType
    <2>2. s.view.executing.index >= 1 /\ s.view.executing.index \in Index
            => s.view.executing.index - 1 \in Index
      BY <2>1, Sizes
    <2> QED
      <3>1. ExecutingOK(s)
        BY Zenon DEF Good
      <3> QED BY <1>6, <1>7, <1>8, <2>1, <2>2, <3>1 DEF ExecutingOK
  <1>11. \A i : Done(t, i) <=> Done(s, i)
    BY <1>8, Zenon DEF Done
  <1>12. PendingOK(t)
    <2> DEFINE p == s.view.pending
    <2>1. p \in Seq(Block) /\ PendingOK(s) /\ t.view.pending = p
      BY <1>8, Zenon DEF Good, StateType, ViewType
    <2>2. ASSUME NEW j \in 1..Len(p)
          PROVE  /\ p[j] \in t.sent.executed /\ BlockIndex[p[j]] \in Index
                 /\ p[j] = t.view.blocks[BlockIndex[p[j]]]
                 /\ Done(t, BlockIndex[p[j]])
                 /\ \A h \in t.view.hadSend : h < BlockIndex[p[j]]
      <3>1. p[j] \in Block
        BY <2>1
      <3>2. p[j] # None
        BY <3>1, Sizes, Zenon
      <3>3. /\ p[j] \in s.sent.executed /\ BlockIndex[p[j]] \in Index
            /\ p[j] = s.view.blocks[BlockIndex[p[j]]]
            /\ Done(s, BlockIndex[p[j]])
            /\ \A h \in s.view.hadSend : h < BlockIndex[p[j]]
        BY <2>1, Zenon DEF PendingOK
      <3>4. t.view.blocks[BlockIndex[p[j]]] = s.view.blocks[BlockIndex[p[j]]]
        BY <1>7, <3>2, <3>3, Zenon
      <3> QED BY <1>8, <1>11, <3>3, <3>4, Zenon
    <2>3. \A j, k \in 1..Len(p) : j < k => BlockIndex[p[j]] < BlockIndex[p[k]]
      BY <2>1, Zenon DEF PendingOK
    <2> QED BY <2>1, <2>2, <2>3, Zenon DEF PendingOK
  <1>13. HadSendOK(t)
    <2> SUFFICES ASSUME NEW h \in t.view.hadSend
                 PROVE  /\ t.view.blocks[h] # None /\ Done(t, h)
                        /\ t.view.blocks[h] \in certified
                              /\ Number[t.view.blocks[h]] > Number[t.tree.lock]
                           => Parent[t.view.blocks[h]] \in t.tree.blocks
      BY Zenon DEF HadSendOK
    <2> DEFINE d == t.view.blocks[h]
    <2>1. h \in Index /\ h \in s.view.hadSend
      BY <1>8, Zenon DEF Good, StateType, ViewType
    <2>2. s.view.blocks[h] # None /\ d = s.view.blocks[h] /\ Done(t, h)
      BY <1>7, <1>11, <2>1, Zenon DEF Good, HadSendOK
    <2> HIDE DEF d
    <2>3. ASSUME d \in certified, Number[d] > Number[t.tree.lock]
          PROVE  Parent[d] \in t.tree.blocks
      <3>1. Number[d] \in Nat
        BY <2>3, CertifiedBlock, Proposed, Zenon
      <3>2. /\ Number[s.tree.lock] \in Nat /\ Number[t.tree.lock] \in Nat
            /\ Number[s.tree.lock] <= Number[t.tree.lock]
        BY <1>4, <1>5, BlockAssumption, Zenon DEF Inserted, Grown, Good, StateType, TreeType
      <3>3. Number[d] > Number[s.tree.lock]
        BY <2>3, <3>1, <3>2
      <3>4. Parent[d] \in s.tree.blocks
        BY <2>1, <2>2, <2>3, <3>3, Zenon DEF Good, HadSendOK
      <3> QED BY <1>4, <2>3, <3>4, Zenon DEF Inserted, Grown
    <2> QED BY <2>2, <2>3, Zenon DEF d
  <1>14. ChangesOK(t) /\ PoolOK(t)
    BY <1>8, Zenon DEF Good, ChangesOK, PoolOK
  <1>15. VotesOK(t) /\ ReportsOK(t)
    <2>1. \A x \in Block : ~HigherQuorumCert(x, s.tree.qc) => ~HigherQuorumCert(x, t.tree.qc)
      BY <1>4, Zenon DEF Inserted, Grown
    <2>2. \A x \in s.sent.votes : Parent[x] \in Block
      BY ParentNumber, Zenon DEF Good, StateType, SentType
    <2>3. \A c \in s.sent.changes : c.block \in Block
      BY Zenon DEF Good, StateType, SentType, ChangeType
    <2>4. VotesOK(t)
      BY <1>8, <2>1, <2>2, Zenon DEF Good, VotesOK
    <2>5. ReportsOK(t)
      BY <1>8, <2>1, <2>3, Zenon DEF Good, ReportsOK
    <2> QED BY <2>4, <2>5, Zenon
  <1> QED
    BY <1>4, <1>5, <1>9, <1>10, <1>12, <1>13, <1>14, <1>15, Zenon DEF Good

-----------------------------------------------------------------------------
(* Changing view *)

Fresh(s) == \E e, v \in Nat, m \in OptBlock : s.view = newView(e, v, m)

\* What changeView needs of the state: the ViewChanges may be of its view.
Leaving(s) ==
    /\ s \in StateType /\ s.fault = {} /\ TreeOK(s) /\ VotesOK(s)
    /\ \A c \in s.sent.changes :
          /\ ~HigherQuorumCert(c.block, s.tree.qc)
          /\ NotAfter(c.epoch, c.number, s.view.epoch, s.view.number)
    /\ 1 <= s.view.epoch
    /\ s.pool.switchPoint = End(s.pool.epoch - 1) /\ s.pool.lastNumber = End(s.pool.epoch)

\* Nothing signed is of a later view, so the view may be left.
LEMMA GoodLeaving ==
    ASSUME NEW s, Good(s)
    PROVE  Leaving(s)
  <1>1. \A c \in s.sent.changes : c.number \in Nat /\ s.view.number \in Nat
    BY DEF Good, StateType, ViewType, SentType, ChangeType
  <1>2. \A c \in s.sent.changes : NotAfter(c.epoch, c.number, s.view.epoch, s.view.number)
    <2>1. ReportsOK(s)
      BY Zenon DEF Good
    <2> QED BY <1>1, <2>1 DEF ReportsOK, Signer!Before, NotAfter, Signer!NotAfter
  <1> QED
    <2>1. /\ ReportsOK(s) /\ PoolOK(s) /\ TreeOK(s) /\ VotesOK(s) /\ s \in StateType
          /\ s.fault = {}
      BY Zenon DEF Good
    <2> QED BY <1>2, <2>1 DEF ReportsOK, PoolOK, Leaving

\* A new view keeps no promise of the old one.
LEMMA Change ==
    ASSUME Env, NEW s, Leaving(s), NEW e \in Nat, NEW v \in Nat, NEW m \in OptBlock,
           Signer!Before(s.view.epoch, s.view.number, e, v),
           e <= s.pool.epoch, s.pool.epoch <= e + 1
    PROVE  LET t == changeView(s, e, v, m)
           IN  Good(t) /\ Fresh(t) /\ Around(s, t) /\ t.view = newView(e, v, m)
  <1> DEFINE t == changeView(s, e, v, m)
             w == newView(e, v, m)
  <1> SUFFICES Good(t) /\ Fresh(t) /\ Around(s, t) /\ t.view = w
    BY Zenon
  <1>1. w \in ViewType
    BY Sizes DEF newView, ViewType, NoIndex, OptBlock
  <1>2. /\ w.epoch = e /\ w.number = v /\ w.executing = [index |-> -1, finish |-> FALSE]
        /\ w.blocks = [i \in Index |-> None] /\ w.qcs = {} /\ w.pending = <<>>
        /\ w.hadSend = {} /\ w.votes = [i \in Index |-> 0] /\ w.own = None
        /\ w.changes = 0 /\ w.maxChange = None
    BY Zenon DEF newView, NoIndex
  <1> HIDE DEF w
  <1>3. t \in StateType /\ t.view = w /\ Around(s, t)
    BY <1>1, Zenon DEF changeView, Leaving, StateType, Around, w
  <1> HIDE DEF t
  <1>4. /\ s.view.epoch \in Nat /\ s.view.number \in Nat
        /\ \A c \in s.sent.changes : c.epoch \in Nat /\ c.number \in Nat
        /\ \A b \in Block : Epoch[b] \in Nat /\ ViewNumber[b] \in Nat
        /\ s.sent.votes \subseteq Block /\ s.tree.blocks \subseteq Block
    <2>1. s \in StateType
      BY DEF Leaving
    <2>2. s.view \in ViewType /\ s.tree \in TreeType /\ s.sent \in SentType
      BY <2>1 DEF StateType
    <2>3. s.sent.changes \subseteq ChangeType /\ s.sent.votes \subseteq Block
      BY <2>2 DEF SentType
    <2>4. \A c \in s.sent.changes : c.epoch \in Nat /\ c.number \in Nat
      BY <2>3 DEF ChangeType
    <2>5. s.view.epoch \in Nat /\ s.view.number \in Nat
      BY <2>2, Zenon DEF ViewType
    <2>6. s.tree.blocks \subseteq Block
      BY <2>2 DEF TreeType
    <2> QED BY <2>3, <2>4, <2>5, <2>6, BlockAssumption, Zenon
  <1>5. \A f, u \in Nat : NotAfter(f, u, s.view.epoch, s.view.number)
                          => Signer!Before(f, u, e, v) /\ NotAfter(f, u, e, v)
    BY <1>4 DEF NotAfter, Signer!NotAfter, Signer!Before
  <1>6. TreeOK(t)
    BY <1>2, <1>3, <1>4, <1>5, Zenon
       DEF Leaving, TreeOK, Rooted, Highest, Behind, Bounded, Around
  <1>7. BlocksOK(t)
    BY <1>2, <1>3, Sizes DEF BlocksOK
  <1>8. ExecutingOK(t) /\ PendingOK(t) /\ HadSendOK(t) /\ ChangesOK(t)
    BY <1>2, <1>3 DEF ExecutingOK, PendingOK, HadSendOK, ChangesOK, NoIndex
  <1>9. 1 <= e
    BY <1>4 DEF Signer!Before, Leaving
  <1>10. PoolOK(t)
    BY <1>2, <1>3, <1>9, Zenon DEF PoolOK, Around, Leaving
  <1>11. VotesOK(t) /\ ReportsOK(t)
    BY <1>2, <1>3, <1>4, <1>5, Zenon DEF VotesOK, ReportsOK, Around, Leaving
  <1>12. Fresh(t)
    BY <1>3, Zenon DEF Fresh, w
  <1> QED
    BY <1>3, <1>6, <1>7, <1>8, <1>10, <1>11, <1>12, Zenon DEF Good, Around, Leaving

\* What is known of a new view.
LEMMA FreshFields ==
    ASSUME NEW s, Fresh(s)
    PROVE  /\ s.view.pending = <<>> /\ s.view.hadSend = {} /\ s.view.qcs = {}
           /\ s.view.blocks = [i \in Index |-> None]
           /\ s.view.executing = [index |-> -1, finish |-> FALSE]
           /\ s.view.own = None /\ s.view.changes = 0 /\ ~s.view.deadline
  BY DEF Fresh, newView, NoIndex

-----------------------------------------------------------------------------
(* tryChangeView *)

\* The epoch of the view has ended, or the view is full.
EpochEnded(s) ==
    /\ s.tree.qc # Genesis /\ Epoch[s.tree.qc] = s.view.epoch
    /\ ShouldSwitch(s, Number[s.tree.qc])

Enough(s) == MaxQCIndex(s) + 1 = Amount \/ EpochEnded(s)

\* The state after the validators were updated.
Updated(s) ==
    IF ShouldSwitch(s, Number[s.tree.qc]) THEN Update(s, Number[s.tree.qc]) ELSE s

\* The number of ViewChanges, and the block they agree on.
ChangesIn(s) == s.view.changes + (IF s.view.own = None THEN 0 ELSE 1)

MaxReported(s) == Higher(s.view.own, s.view.maxChange)

\* tryChangeView, by the reason to leave the view.
LEMMA TryChangeView ==
    ASSUME NEW s
    PROVE  tryChangeView(s) =
             LET u == Updated(s)
                 n == Number[s.tree.qc]
             IN  CASE Enough(s) /\ EqualSwitchPoint(u, n) ->
                         changeView(u, u.view.epoch + 1, 0, None)
                   [] Enough(s) /\ ~EqualSwitchPoint(u, n) ->
                         changeView(u, u.view.epoch, u.view.number + 1, None)
                   [] ~Enough(s) /\ ChangesIn(s) >= threshold ->
                         tryChangeViewByViewChange(u, MaxReported(u))
                   [] OTHER -> u
  BY DEF tryChangeView, Updated, Enough, EpochEnded, ChangesIn, MaxReported

\* No validators are left to update.
Settled(s) ==
    LET n == Number[s.tree.qc]
    IN  /\ ~(ShouldSwitch(s, n) /\ n > s.pool.switchPoint)
        /\ EpochEnded(s) => EqualSwitchPoint(s, n)

\* What the update leaves alone.
Besides(s, t) ==
    /\ t.tree = s.tree /\ t.tasks = s.tasks /\ t.sent = s.sent /\ t.fault = s.fault
    /\ t.view = s.view

\* Where the highest block is: within the epoch of the view.
LEMMA HighestNumber ==
    ASSUME Env, NEW s, Good(s)
    PROVE  /\ Number[s.tree.qc] \in Nat /\ s.tree.qc \in Block
           /\ s.tree.qc = Genesis => Number[s.tree.qc] = 0
           /\ s.tree.qc # Genesis =>
                 /\ s.tree.qc \in certified
                 /\ Epoch[s.tree.qc] \in Nat /\ Epoch[s.tree.qc] <= s.view.epoch
                 /\ Number[s.tree.qc] <= End(s.view.epoch)
                 /\ Epoch[s.tree.qc] = s.view.epoch
                    => Number[s.tree.qc] > End(s.view.epoch - 1)
           /\ s.view.epoch \in Nat /\ s.pool.epoch \in Nat /\ s.pool.switchPoint \in Nat
           /\ s.pool.lastNumber \in Nat
  <1>1. s.tree.qc \in s.tree.blocks /\ s.tree.qc \in Block /\ s.tree.blocks \subseteq Block
    BY DEF Good, TreeOK, Highest, StateType, TreeType
  <1>2. /\ s.view.epoch \in Nat /\ s.pool.epoch \in Nat /\ s.pool.switchPoint \in Nat
        /\ s.pool.lastNumber \in Nat
    BY Zenon DEF Good, StateType, ViewType, PoolType
  <1>3. Number[s.tree.qc] \in Nat /\ (s.tree.qc = Genesis => Number[s.tree.qc] = 0)
    BY <1>1, BlockAssumption, Zenon
  <1>4. ASSUME s.tree.qc # Genesis
        PROVE  /\ s.tree.qc \in certified
               /\ Epoch[s.tree.qc] \in Nat /\ Epoch[s.tree.qc] <= s.view.epoch
               /\ Number[s.tree.qc] <= End(s.view.epoch)
               /\ Epoch[s.tree.qc] = s.view.epoch
                    => Number[s.tree.qc] > End(s.view.epoch - 1)
    <2>1. s.tree.qc \in certified
      BY <1>1, <1>4, Zenon DEF Good, TreeOK, Behind
    <2>2. s.tree.qc \in proposed
      BY <2>1, CertifiedBlock
    <2>3. /\ Epoch[s.tree.qc] \in Nat /\ Epoch[s.tree.qc] >= 1
          /\ End(Epoch[s.tree.qc] - 1) < Number[s.tree.qc]
          /\ Number[s.tree.qc] <= End(Epoch[s.tree.qc])
      BY <2>2, Proposed, Zenon
    <2>4. Epoch[s.tree.qc] <= s.view.epoch
      <3>1. TreeOK(s)
        BY Zenon DEF Good
      <3> QED BY <1>1, <1>2, <1>4, <2>3, <3>1 DEF TreeOK, Behind, NotAfter, Signer!NotAfter
    <2>5. End(Epoch[s.tree.qc]) <= End(s.view.epoch)
      BY <1>2, <2>3, <2>4, Ends, Zenon
    <2>6. End(Epoch[s.tree.qc]) \in Nat /\ End(s.view.epoch) \in Nat
      BY <1>2, <2>3, Ends, Zenon
    <2>7. Number[s.tree.qc] <= End(s.view.epoch)
      BY <1>3, <2>3, <2>5, <2>6
    <2> QED BY <2>1, <2>3, <2>4, <2>7, Zenon
  <1> QED BY <1>1, <1>2, <1>3, <1>4, Zenon

\* Update happens at the last block of the epoch of the view, once.
LEMMA UpdatedGood ==
    ASSUME Env, NEW s, Good(s)
    PROVE  LET u == Updated(s)
           IN  /\ Good(u) /\ Besides(s, u) /\ Settled(u)
               /\ Enough(u) <=> Enough(s)
  <1> DEFINE n == Number[s.tree.qc]
             u == Updated(s)
  <1>0. s \in StateType
    BY Zenon DEF Good
  <1>1. CASE ShouldSwitch(s, n) /\ n > s.pool.switchPoint
    <2>1. n = s.pool.lastNumber /\ n # 0 /\ n \in Nat
      BY <1>1, HighestNumber DEF ShouldSwitch
    <2>2. s.tree.qc # Genesis /\ n <= End(s.view.epoch)
      BY <2>1, HighestNumber, Zenon
    <2>3. s.pool.epoch = s.view.epoch
      <3>1. s.pool.epoch \in {s.view.epoch, s.view.epoch + 1} /\ s.view.epoch \in Nat
            /\ n = End(s.pool.epoch)
        <4>1. PoolOK(s)
          BY Zenon DEF Good
        <4>2. /\ s.view.epoch <= s.pool.epoch /\ s.pool.epoch <= s.view.epoch + 1
              /\ s.pool.lastNumber = End(s.pool.epoch)
          BY <4>1, Zenon DEF PoolOK
        <4>3. s.view.epoch \in Nat /\ s.pool.epoch \in Nat
          BY HighestNumber, Zenon
        <4>4. s.pool.epoch \in {s.view.epoch, s.view.epoch + 1}
          BY <4>2, <4>3
        <4> QED BY <2>1, <4>2, <4>3, <4>4, Zenon
      <3>2. End(s.view.epoch) < End(s.view.epoch + 1)
            /\ End(s.view.epoch) \in Nat /\ End(s.view.epoch + 1) \in Nat
        <4>1. s.view.epoch + 1 \in Nat /\ s.view.epoch < s.view.epoch + 1
          BY <3>1
        <4> QED BY <3>1, <4>1, Ends, Zenon
      <3> QED BY <2>2, <3>1, <3>2
    <2>4. n = End(s.view.epoch) /\ s.view.epoch \in Nat
      BY <2>1, <2>3, HighestNumber, Zenon DEF Good, PoolOK
    <2>5. u = [s EXCEPT !.pool = [epoch |-> s.view.epoch + 1, switchPoint |-> n,
                                  lastNumber |-> n + EpochSize]]
      BY <1>1, HighestNumber DEF Updated, Update
    <2>6. EpochSize \in Nat /\ n + EpochSize = End(s.view.epoch + 1)
      <3>1. End(s.view.epoch) + EpochSize = End(s.view.epoch + 1)
        BY <2>4, Ends, Zenon
      <3> QED BY <2>4, <3>1, NodeAssumption, Zenon
    <2> HIDE DEF n, u
    <2>7. u \in StateType /\ Besides(s, u)
          /\ u.pool.epoch = s.view.epoch + 1 /\ u.pool.switchPoint = n
          /\ u.pool.lastNumber = n + EpochSize
      <3>1. [epoch |-> s.view.epoch + 1, switchPoint |-> n, lastNumber |-> n + EpochSize]
              \in PoolType
        BY <2>1, <2>4, <2>6 DEF PoolType, n
      <3> QED BY <1>0, <2>5, <3>1, Zenon DEF StateType, Besides
    <2>8. PoolOK(u)
      <3>1. PoolOK(s)
        BY Zenon DEF Good
      <3>2. 1 <= s.view.epoch /\ u.view = s.view
        BY <2>7, <3>1, Zenon DEF PoolOK, Besides
      <3>3. /\ s.view.epoch <= u.pool.epoch /\ u.pool.epoch <= s.view.epoch + 1
            /\ u.pool.epoch - 1 = s.view.epoch
        BY <2>4, <2>7
      <3> QED BY <2>4, <2>6, <2>7, <3>2, <3>3, Zenon DEF PoolOK
    <2>9. Good(u)
      <3>1. TreeOK(u) /\ BlocksOK(u) /\ ExecutingOK(u)
        <4>1. u.tree = s.tree /\ u.view = s.view
          BY <2>7, Zenon DEF Besides
        <4>2. TreeOK(u)
          BY <4>1, Zenon DEF Good, TreeOK, Rooted, Highest, Behind, Bounded
        <4>3. BlocksOK(u)
          BY <4>1, Zenon DEF Good, BlocksOK, InView
        <4>4. ExecutingOK(u)
          BY <4>1, Zenon DEF Good, ExecutingOK
        <4> QED BY <4>2, <4>3, <4>4, Zenon
      <3>2. PendingOK(u) /\ HadSendOK(u) /\ ChangesOK(u)
        BY <2>7, Zenon DEF Good, Besides, PendingOK, HadSendOK, ChangesOK, Done
      <3>3. VotesOK(u) /\ ReportsOK(u) /\ u.fault = {}
        BY <2>7, Zenon DEF Good, Besides, VotesOK, ReportsOK
      <3> QED BY <2>7, <2>8, <3>1, <3>2, <3>3, Zenon DEF Good
    <2>10. ShouldSwitch(u, n) /\ EqualSwitchPoint(u, n) /\ ~(n > u.pool.switchPoint)
      BY <2>1, <2>7 DEF ShouldSwitch, EqualSwitchPoint
    <2>11. Enough(u) <=> Enough(s)
      BY <1>1, <2>7, <2>10, Zenon DEF Enough, EpochEnded, Besides, MaxQCIndex, n
    <2> QED BY <2>7, <2>9, <2>10, <2>11, Zenon DEF Settled, Besides, n, u
  <1>2. CASE ~(ShouldSwitch(s, n) /\ n > s.pool.switchPoint)
    <2>1. u = s
      BY <1>2, HighestNumber DEF Updated, Update
    <2>2. ShouldSwitch(s, n) => EqualSwitchPoint(s, n)
      <3> SUFFICES ASSUME ShouldSwitch(s, n) PROVE EqualSwitchPoint(s, n)
        BY Zenon
      <3>1. n # 0 /\ n \in Nat /\ n <= s.pool.switchPoint
            /\ n \in {s.pool.switchPoint, s.pool.lastNumber}
        BY <1>2, HighestNumber DEF ShouldSwitch
      <3>2. s.pool.switchPoint < s.pool.lastNumber
        <4>1. /\ s.pool.switchPoint = End(s.pool.epoch - 1)
              /\ s.pool.lastNumber = End(s.pool.epoch) /\ s.pool.epoch \in Nat
              /\ s.pool.epoch >= 1
          <5>1. PoolOK(s)
            BY Zenon DEF Good
          <5>2. /\ s.pool.switchPoint = End(s.pool.epoch - 1)
                /\ s.pool.lastNumber = End(s.pool.epoch)
                /\ 1 <= s.view.epoch /\ s.view.epoch <= s.pool.epoch
            BY <5>1, Zenon DEF PoolOK
          <5>3. s.view.epoch \in Nat /\ s.pool.epoch \in Nat
            BY HighestNumber, Zenon
          <5>4. s.pool.epoch >= 1
            BY <5>2, <5>3
          <5> QED BY <5>2, <5>3, <5>4, Zenon
        <4>2. s.pool.epoch - 1 \in Nat /\ s.pool.epoch - 1 < s.pool.epoch
          BY <4>1
        <4> QED BY <4>1, <4>2, Ends, Zenon
      <3>3. s.pool.switchPoint \in Nat /\ s.pool.lastNumber \in Nat
        BY HighestNumber, Zenon
      <3> QED BY <3>1, <3>2, <3>3 DEF EqualSwitchPoint
    <2>3. Settled(s) /\ (EpochEnded(s) => EqualSwitchPoint(s, n))
      BY <1>2, <2>2, Zenon DEF Settled, EpochEnded
    <2> QED BY <2>1, <2>3, Zenon DEF Besides
  <1> QED BY <1>1, <1>2, Zenon

\* tryChangeView has nothing to do: the view is not over, and what the
\* ViewChanges agree on, when there are enough, is not in the tree.
ChangeWaits(s) ==
    /\ ~Enough(s) /\ Settled(s)
    /\ \/ ChangesIn(s) < threshold
       \/ /\ s.tree.qc # Genesis
          /\ richViewChangeQC(s, MaxReported(s)).max \notin s.tree.blocks \ {Genesis}

\* A new view of another epoch, or after a view that did not end its epoch.
LEMMA FreshWaits ==
    ASSUME Env, NEW s, Good(s), NEW t, Good(t), Fresh(t), t.tree = s.tree, t.pool = s.pool,
           \/ s.view.epoch < t.view.epoch
           \/ t.view.epoch = s.view.epoch /\ Settled(s) /\ ~EpochEnded(s)
    PROVE  ChangeWaits(t)
  <1> DEFINE n == Number[s.tree.qc]
  <1>1. MaxQCIndex(t) + 1 # Amount
    BY FreshFields, Sizes DEF MaxQCIndex, MaxOf, NoIndex
  <1>2. ChangesIn(t) < threshold
    BY FreshFields, Sizes DEF ChangesIn
  <1>3. ~EpochEnded(t) /\ Settled(t)
    <2>1. CASE t.view.epoch = s.view.epoch /\ Settled(s) /\ ~EpochEnded(s)
      BY <2>1, Zenon DEF Settled, EpochEnded, ShouldSwitch, EqualSwitchPoint
    <2>2. CASE s.view.epoch < t.view.epoch
      <3>1. s.view.epoch \in Nat /\ t.view.epoch \in Nat /\ s.pool.epoch \in Nat
        BY HighestNumber, Zenon
      <3>2. ~EpochEnded(t)
        BY <2>2, <3>1, HighestNumber DEF EpochEnded
      <3>3. s.pool.epoch - 1 = s.view.epoch
        BY <2>2, <3>1 DEF Good, PoolOK
      <3>4. s.pool.switchPoint = End(s.view.epoch)
        BY <3>3, Zenon DEF Good, PoolOK
      <3>5. ~(ShouldSwitch(t, n) /\ n > t.pool.switchPoint)
        <4>1. CASE s.tree.qc = Genesis
          BY <4>1, HighestNumber, Zenon DEF ShouldSwitch
        <4>2. CASE s.tree.qc # Genesis
          <5>1. n <= s.pool.switchPoint /\ n \in Nat /\ s.pool.switchPoint \in Nat
            BY <3>4, <4>2, HighestNumber, Zenon
          <5> QED BY <5>1
        <4> QED BY <4>1, <4>2, Zenon
      <3> QED BY <3>2, <3>5, Zenon DEF Settled
    <2> QED BY <2>1, <2>2, Zenon
  <1> QED BY <1>1, <1>2, <1>3, Zenon DEF ChangeWaits, Enough

\* What tryChangeView does to a state: it stays in the view and signs nothing,
\* or starts a new one, in which case it may sign a ViewChange for the view it
\* leaves, when it has not done so, for its highest block.
Turn(s, t) ==
    /\ Good(t) /\ t.tree = s.tree /\ t.tasks = s.tasks
    /\ t.sent.votes = s.sent.votes /\ t.sent.executed = s.sent.executed
    /\ s.sent.changes \subseteq t.sent.changes
    /\ \/ t.view = s.view /\ t.sent = s.sent
       \/ /\ Fresh(t)
          /\ Signer!Before(s.view.epoch, s.view.number, t.view.epoch, t.view.number)
    /\ \A c \in t.sent.changes \ s.sent.changes :
          /\ c.epoch = s.view.epoch /\ c.number = s.view.number /\ c.block = s.tree.qc
          /\ s.view.own = None

Signed(s, C) == [s EXCEPT !.sent.changes = @ \cup C]

\* What tryChangeViewByViewChange may sign, and the block it goes on from.
Generated(s, m) ==
    IF s.tree.qc = Genesis THEN {}
    ELSE {[epoch |-> s.view.epoch, number |-> s.view.number, block |-> b] :
             b \in richViewChangeQC(s, m).generated}

Top(s, m) == IF s.tree.qc = Genesis THEN m ELSE richViewChangeQC(s, m).max

\* tryChangeViewByViewChange, by what is known of the block reported.
LEMMA ByViewChangeCases ==
    ASSUME NEW s, NEW m
    PROVE  tryChangeViewByViewChange(s, m) =
             LET t == Signed(s, Generated(s, m))
                 top == Top(s, m)
             IN  IF s.tree.qc # Genesis /\ top \notin s.tree.blocks \ {Genesis} THEN t
                 ELSE IF EqualSwitchPoint(s, Number[top]) /\ Epoch[top] = s.view.epoch
                      THEN changeView(t, s.view.epoch + 1, 0, top)
                      ELSE changeView(t, s.view.epoch, s.view.number + 1, top)
  <1> DEFINE rich == IF s.tree.qc = Genesis THEN [max |-> m, generated |-> {}]
                     ELSE richViewChangeQC(s, m)
             signed == {[epoch |-> s.view.epoch, number |-> s.view.number, block |-> b] :
                           b \in rich.generated}
             after(top, t) ==
                IF s.tree.qc # Genesis /\ top \notin s.tree.blocks \ {Genesis} THEN t
                ELSE IF EqualSwitchPoint(s, Number[top]) /\ Epoch[top] = s.view.epoch
                     THEN changeView(t, s.view.epoch + 1, 0, top)
                     ELSE changeView(t, s.view.epoch, s.view.number + 1, top)
  <1>1. rich.max = Top(s, m)
    BY Zenon DEF Top
  <1>2. signed = Generated(s, m)
    <2>1. CASE s.tree.qc = Genesis
      <3>1. rich.generated = {}
        BY <2>1
      <3> HIDE DEF rich
      <3> QED BY <2>1, <3>1, Zenon DEF Generated
    <2>2. CASE s.tree.qc # Genesis
      BY <2>2, Zenon DEF Generated
    <2> QED BY <2>1, <2>2, Zenon
  <1>3. tryChangeViewByViewChange(s, m) = after(rich.max, Signed(s, signed))
    BY Zenon DEF tryChangeViewByViewChange, Signed
  <1>4. tryChangeViewByViewChange(s, m) = after(Top(s, m), Signed(s, Generated(s, m)))
    <2> HIDE DEF rich, signed, after
    <2> QED BY <1>1, <1>2, <1>3, Zenon
  <1> QED BY <1>4, Zenon

\* Signing ViewChanges changes nothing but what was signed.
LEMMA SignedFields ==
    ASSUME NEW s \in StateType, NEW C \in SUBSET ChangeType
    PROVE  /\ Signed(s, C) \in StateType
           /\ Signed(s, C).tree = s.tree /\ Signed(s, C).pool = s.pool
           /\ Signed(s, C).tasks = s.tasks /\ Signed(s, C).fault = s.fault
           /\ Signed(s, C).view = s.view
           /\ Signed(s, C).sent.votes = s.sent.votes
           /\ Signed(s, C).sent.executed = s.sent.executed
           /\ Signed(s, C).sent.changes = s.sent.changes \cup C
  <1> DEFINE new == [s.sent EXCEPT !.changes = s.sent.changes \cup C]
  <1>1. s.sent.changes \cup C \in SUBSET ChangeType
    BY DEF StateType, SentType
  <1>2. /\ new \in SentType /\ new.votes = s.sent.votes
        /\ new.executed = s.sent.executed /\ new.changes = s.sent.changes \cup C
    BY <1>1 DEF StateType, SentType
  <1>3. Signed(s, C) = [s EXCEPT !.sent = new]
    BY DEF Signed
  <1> HIDE DEF new
  <1> QED BY <1>2, <1>3, Zenon DEF StateType

\* Signing nothing changes nothing.
LEMMA SignedNone ==
    ASSUME NEW s \in StateType
    PROVE  Signed(s, {}) = s
  <1>1. s.sent.changes \cup {} = s.sent.changes
    BY Zenon
  <1>2. [s.sent EXCEPT !.changes = s.sent.changes \cup {}] = s.sent
    BY <1>1 DEF StateType, SentType
  <1>3. Signed(s, {}) = [s EXCEPT !.sent = [s.sent EXCEPT !.changes = s.sent.changes \cup {}]]
    BY DEF Signed
  <1>4. [s EXCEPT !.sent = s.sent] = s
    BY DEF StateType
  <1> QED BY <1>2, <1>3, <1>4, Zenon

\* The switch point is above the view's epoch only after the update.
LEMMA SwitchedEpoch ==
    ASSUME Env, NEW s, Good(s), NEW b \in Block, EqualSwitchPoint(s, Number[b]),
           End(s.view.epoch - 1) < Number[b]
    PROVE  s.pool.epoch = s.view.epoch + 1
  <1>1. /\ s.view.epoch \in Nat /\ s.pool.epoch \in Nat /\ Number[b] \in Nat
        /\ s.pool.epoch \in {s.view.epoch, s.view.epoch + 1}
        /\ Number[b] = End(s.pool.epoch - 1)
    <2>1. PoolOK(s)
      BY Zenon DEF Good
    <2> QED BY HighestNumber, ParentNumber, <2>1 DEF PoolOK, EqualSwitchPoint
  <1> QED BY <1>1

\* What a ViewChangeQC is about once ours has joined it.
LEMMA TopBlock ==
    ASSUME Env, NEW s, Good(s), NEW m \in certified \cup {Genesis}
    PROVE  /\ Top(s, m) \in certified \cup {Genesis} /\ Top(s, m) \in Block
           /\ Generated(s, m) \in SUBSET ChangeType
           /\ \A c \in Generated(s, m) :
                 /\ c.epoch = s.view.epoch /\ c.number = s.view.number
                 /\ c.block = s.tree.qc /\ s.view.own = None
           /\ Generated(s, m) # {} => Top(s, m) \in s.tree.blocks \ {Genesis}
  <1>1. certified \subseteq Block /\ Genesis \in Block /\ None \notin Block
    BY Sizes, BlockAssumption, Zenon DEF Env, Agreed, Proposable
  <1>2. /\ s.tree.qc \in s.tree.blocks /\ s.tree.qc \in Block
        /\ s.tree.qc \in certified \cup {Genesis}
        /\ s.view.epoch \in Nat /\ s.view.number \in Nat
    BY Zenon DEF Good, TreeOK, Highest, Behind, StateType, TreeType, ViewType
  <1>3. s.view.own \in certified \cup {Genesis, None}
    BY Zenon DEF Good, ChangesOK
  <1>4. CASE s.tree.qc = Genesis
    BY <1>1, <1>4, Zenon DEF Top, Generated
  <1>5. CASE s.tree.qc # Genesis
    <2> DEFINE had == Higher(s.view.own, m)
               add == s.view.own = None /\ HigherQuorumCert(s.tree.qc, had)
               r == richViewChangeQC(s, m)
    <2>1. had \in certified \cup {Genesis}
      BY <1>1, <1>3, Zenon DEF Higher
    <2>2. /\ r.max = IF add THEN s.tree.qc ELSE had
          /\ r.generated = IF add THEN {s.tree.qc} ELSE {}
      BY Zenon DEF richViewChangeQC
    <2>3. /\ Top(s, m) = r.max
          /\ Generated(s, m) = {[epoch |-> s.view.epoch, number |-> s.view.number,
                                 block |-> b] : b \in r.generated}
      BY <1>5, Zenon DEF Top, Generated
    <2> HIDE DEF r, had
    <2>4. CASE add
      <3>1. /\ Top(s, m) = s.tree.qc
            /\ Generated(s, m) = {[epoch |-> s.view.epoch, number |-> s.view.number,
                                   block |-> s.tree.qc]}
        BY <2>2, <2>3, <2>4, Zenon
      <3>2. [epoch |-> s.view.epoch, number |-> s.view.number, block |-> s.tree.qc]
               \in ChangeType
        BY <1>2, Zenon DEF ChangeType
      <3>3. \A c \in Generated(s, m) :
               /\ c.epoch = s.view.epoch /\ c.number = s.view.number /\ c.block = s.tree.qc
        BY <3>1
      <3>4. Generated(s, m) \in SUBSET ChangeType
        BY <3>1, <3>2, Zenon
      <3>5. Top(s, m) \in s.tree.blocks \ {Genesis}
        BY <1>2, <1>5, <3>1, Zenon
      <3> QED BY <1>2, <2>4, <3>1, <3>3, <3>4, <3>5, Zenon
    <2>5. CASE ~add
      <3>1. Top(s, m) = had /\ Generated(s, m) = {}
        BY <2>2, <2>3, <2>5, Zenon
      <3> QED BY <1>1, <2>1, <3>1, Zenon
    <2> QED BY <2>4, <2>5, Zenon
  <1> QED BY <1>4, <1>5, Zenon

\* tryChangeViewByViewChange goes to the next view or the next epoch, unless
\* the block to go on from is missing.
LEMMA ByViewChange ==
    ASSUME Env, NEW s, Good(s), NEW m \in certified \cup {Genesis}
    PROVE  LET t == tryChangeViewByViewChange(s, m)
           IN  /\ Turn(s, t) /\ t.pool = s.pool
               /\ \/ t = s /\ s.tree.qc # Genesis
                     /\ Top(s, m) \notin s.tree.blocks \ {Genesis}
                  \/ /\ Fresh(t)
                     /\ \/ s.view.epoch < t.view.epoch
                        \/ t.view.epoch = s.view.epoch
                           /\ t.view.number = s.view.number + 1
  <1> DEFINE t == tryChangeViewByViewChange(s, m)
             top == Top(s, m)
             G == Generated(s, m)
             l == Signed(s, G)
  <1>0. s \in StateType /\ s.view.epoch \in Nat /\ s.view.number \in Nat
        /\ s.pool.epoch \in Nat
    BY Zenon DEF Good, StateType, ViewType, PoolType
  <1>1. /\ top \in certified \cup {Genesis} /\ top \in Block /\ G \in SUBSET ChangeType
        /\ \A c \in G : /\ c.epoch = s.view.epoch /\ c.number = s.view.number
                        /\ c.block = s.tree.qc /\ s.view.own = None
        /\ G # {} => top \in s.tree.blocks \ {Genesis}
    BY TopBlock, Zenon
  <1>2. t = IF s.tree.qc # Genesis /\ top \notin s.tree.blocks \ {Genesis} THEN l
            ELSE IF EqualSwitchPoint(s, Number[top]) /\ Epoch[top] = s.view.epoch
                 THEN changeView(l, s.view.epoch + 1, 0, top)
                 ELSE changeView(l, s.view.epoch, s.view.number + 1, top)
    BY ByViewChangeCases, Zenon
  <1>3. /\ l \in StateType /\ l.tree = s.tree /\ l.pool = s.pool /\ l.tasks = s.tasks
        /\ l.fault = s.fault /\ l.view = s.view /\ l.sent.votes = s.sent.votes
        /\ l.sent.executed = s.sent.executed /\ l.sent.changes = s.sent.changes \cup G
    <2> HIDE DEF G
    <2> QED BY <1>0, <1>1, SignedFields, Zenon
  <1> SUFFICES /\ Turn(s, t) /\ t.pool = s.pool
               /\ \/ t = s /\ s.tree.qc # Genesis
                     /\ top \notin s.tree.blocks \ {Genesis}
                  \/ /\ Fresh(t)
                     /\ \/ s.view.epoch < t.view.epoch
                        \/ t.view.epoch = s.view.epoch
                           /\ t.view.number = s.view.number + 1
    BY Zenon
  <1> HIDE DEF t, top, G
  <1>4. CASE s.tree.qc # Genesis /\ top \notin s.tree.blocks \ {Genesis}
    <2>1. t = l
      BY <1>2, <1>4, Zenon
    <2>2. l = s
      BY <1>0, <1>1, <1>4, SignedNone, Zenon
    <2> QED BY <1>4, <2>1, <2>2, Zenon DEF Turn
  <1>5. CASE ~(s.tree.qc # Genesis /\ top \notin s.tree.blocks \ {Genesis})
    <2> HIDE DEF l
    <2>1. Leaving(l)
      <3>1. Leaving(s)
        BY GoodLeaving, Zenon
      <3>2. \A c \in G : NotAfter(c.epoch, c.number, l.view.epoch, l.view.number)
        BY <1>0, <1>1, <1>3 DEF NotAfter, Signer!NotAfter
      <3>3. \A c \in G : ~HigherQuorumCert(c.block, l.tree.qc)
        BY <1>1, <1>3, HigherStrict, Zenon DEF Good, StateType, TreeType
      <3>4. TreeOK(l) /\ VotesOK(l)
        BY <1>3, Zenon DEF Good, TreeOK, Rooted, Highest, Behind, Bounded, VotesOK
      <3> QED BY <1>3, <3>1, <3>2, <3>3, <3>4, Zenon DEF Leaving
    <2>2. top \in OptBlock
      BY <1>1, Zenon DEF OptBlock
    <2>3. ASSUME NEW e \in Nat, NEW v \in Nat, t = changeView(l, e, v, top),
                 Signer!Before(s.view.epoch, s.view.number, e, v),
                 e <= s.pool.epoch, s.pool.epoch <= e + 1
          PROVE  Turn(s, t) /\ t.pool = s.pool /\ Fresh(t)
                 /\ t.view.epoch = e /\ t.view.number = v
      <3>1. Good(t) /\ Fresh(t) /\ Around(l, t) /\ t.view = newView(e, v, top)
        BY <1>3, <2>1, <2>2, <2>3, Change
      <3>2. t.view.epoch = e /\ t.view.number = v
        BY <3>1 DEF newView
      <3> QED BY <1>1, <1>3, <2>3, <3>1, <3>2, Zenon DEF Turn, Around
    <2>4. CASE EqualSwitchPoint(s, Number[top]) /\ Epoch[top] = s.view.epoch
      <3>1. t = changeView(l, s.view.epoch + 1, 0, top)
        BY <1>2, <1>5, <2>4, Zenon
      <3>2. top \in proposed
        <4>1. top # Genesis
          BY <2>4, BlockAssumption, HighestNumber DEF EqualSwitchPoint
        <4> QED BY <1>1, <4>1, CertifiedBlock, Zenon
      <3>3. s.pool.epoch = s.view.epoch + 1
        BY <1>1, <2>4, <3>2, Proposed, SwitchedEpoch, Zenon
      <3>4. Signer!Before(s.view.epoch, s.view.number, s.view.epoch + 1, 0)
        BY <1>0 DEF Signer!Before
      <3>5. /\ s.view.epoch + 1 \in Nat /\ s.view.epoch + 1 <= s.pool.epoch
            /\ s.pool.epoch <= s.view.epoch + 1 + 1 /\ 0 \in Nat
        BY <1>0, <3>3
      <3>6. Turn(s, t) /\ t.pool = s.pool /\ Fresh(t) /\ t.view.epoch = s.view.epoch + 1
        BY <2>3, <3>1, <3>4, <3>5, Zenon
      <3> QED BY <1>0, <3>6
    <2>5. CASE ~(EqualSwitchPoint(s, Number[top]) /\ Epoch[top] = s.view.epoch)
      <3>1. t = changeView(l, s.view.epoch, s.view.number + 1, top)
        BY <1>2, <1>5, <2>5, Zenon
      <3>2. Signer!Before(s.view.epoch, s.view.number, s.view.epoch, s.view.number + 1)
        BY <1>0 DEF Signer!Before
      <3>3. s.view.number + 1 \in Nat /\ s.view.epoch <= s.pool.epoch
            /\ s.pool.epoch <= s.view.epoch + 1
        BY <1>0 DEF Good, PoolOK
      <3> QED BY <1>0, <2>3, <3>1, <3>2, <3>3, Zenon
    <2> QED BY <2>4, <2>5, Zenon
  <1> QED BY <1>4, <1>5, Zenon

\* A full view, or the end of an epoch, is beyond the previous epoch.
LEMMA EnoughNumber ==
    ASSUME Env, NEW s, Good(s), Enough(s)
    PROVE  End(s.view.epoch - 1) < Number[s.tree.qc]
  <1>1. CASE EpochEnded(s)
    BY <1>1, HighestNumber, Zenon DEF EpochEnded
  <1>2. CASE MaxQCIndex(s) + 1 = Amount
    <2>1. s.view.qcs \in SUBSET Index
      BY Zenon DEF Good, StateType, ViewType
    <2>2. MaxQCIndex(s) \in s.view.qcs
      <3>1. s.view.qcs = {} => MaxQCIndex(s) = -1
        BY <2>1, MaxOfIndex, Zenon DEF MaxQCIndex
      <3>2. s.view.qcs # {}
        BY <1>2, <3>1, Sizes
      <3> QED BY <2>1, <3>2, MaxOfIndex, Zenon DEF MaxQCIndex
    <2> DEFINE d == s.view.blocks[MaxQCIndex(s)]
    <2>3. d \in proposed /\ InView(s, d) /\ Number[d] <= Number[s.tree.qc]
      BY <2>1, <2>2, Sizes, Zenon DEF Good, BlocksOK
    <2>4. Number[d] \in Nat /\ End(Epoch[d] - 1) < Number[d] /\ Epoch[d] \in Nat /\ Epoch[d] >= 1
      BY <2>3, Proposed, Zenon
    <2>5. Epoch[d] = s.view.epoch
      BY <2>3, Zenon DEF InView
    <2> HIDE DEF d
    <2>6. Epoch[d] - 1 \in Nat
      BY <2>4
    <2>7. End(Epoch[d] - 1) \in Nat /\ Number[s.tree.qc] \in Nat
      BY <2>6, Ends, HighestNumber, Zenon
    <2>8. End(Epoch[d] - 1) < Number[s.tree.qc]
      BY <2>3, <2>4, <2>7
    <2> QED BY <2>5, <2>8, Zenon
  <1> QED BY <1>1, <1>2, Zenon DEF Enough

\* With enough ViewChanges one of the others is among them.
LEMMA ReportedBlock ==
    ASSUME Env, NEW s, Good(s)
    PROVE  /\ ChangesIn(s) \in Nat
           /\ ChangesIn(s) >= threshold => MaxReported(s) \in certified \cup {Genesis}
  <1>1. s.view.changes \in Nat
    BY Zenon DEF Good, StateType, ViewType
  <1>2. ChangesIn(s) \in {s.view.changes, s.view.changes + 1}
    BY <1>1 DEF ChangesIn
  <1>3. ChangesIn(s) >= threshold => s.view.changes > 0
    BY <1>1, <1>2, Sizes
  <1>4. s.view.changes > 0 => MaxReported(s) \in certified \cup {Genesis}
    BY Zenon DEF Good, ChangesOK, MaxReported, Higher
  <1> QED BY <1>1, <1>2, <1>3, <1>4

\* tryChangeView does all it can at once: a second call has nothing to do.
LEMMA TryTurn ==
    ASSUME Env, NEW s, Good(s)
    PROVE  LET t == tryChangeView(s)
           IN  Turn(s, t) /\ ChangeWaits(t) /\ (Fresh(s) => t.sent = s.sent)
  <1> DEFINE t == tryChangeView(s)
             u == Updated(s)
             n == Number[s.tree.qc]
  <1>1. /\ Good(u) /\ Besides(s, u) /\ Settled(u)
        /\ Enough(u) <=> Enough(s)
    BY UpdatedGood, Zenon
  <1>2. t = CASE Enough(s) /\ EqualSwitchPoint(u, n) ->
                   changeView(u, u.view.epoch + 1, 0, None)
              [] Enough(s) /\ ~EqualSwitchPoint(u, n) ->
                   changeView(u, u.view.epoch, u.view.number + 1, None)
              [] ~Enough(s) /\ ChangesIn(s) >= threshold ->
                   tryChangeViewByViewChange(u, MaxReported(u))
              [] OTHER -> u
    BY TryChangeView, Zenon
  <1> SUFFICES Turn(s, t) /\ ChangeWaits(t) /\ (Fresh(s) => t.sent = s.sent)
    BY Zenon
  <1> HIDE DEF t, u
  <1>3. /\ u.view.epoch \in Nat /\ u.view.number \in Nat /\ u.pool.epoch \in Nat
        /\ u.tree.qc \in Block
    <2>1. u.view \in ViewType /\ u.pool \in PoolType /\ u.tree \in TreeType
      BY <1>1, Zenon DEF Good, StateType
    <2> QED BY <2>1, Zenon DEF ViewType, PoolType, TreeType
  <1>4. ChangesIn(u) = ChangesIn(s) /\ MaxReported(u) = MaxReported(s)
    BY <1>1, Zenon DEF Besides, ChangesIn, MaxReported
  <1>5. ASSUME NEW e \in Nat, NEW v \in Nat, t = changeView(u, e, v, None),
               Signer!Before(u.view.epoch, u.view.number, e, v),
               e <= u.pool.epoch, u.pool.epoch <= e + 1
        PROVE  /\ Good(t) /\ Fresh(t) /\ Around(u, t)
               /\ t.view.epoch = e /\ t.view.number = v
               /\ Turn(s, t) /\ (Fresh(s) => t.sent = s.sent)
    <2>1. Leaving(u)
      BY <1>1, GoodLeaving, Zenon
    <2>2. Good(t) /\ Fresh(t) /\ Around(u, t) /\ t.view = newView(e, v, None)
      <3>1. None \in OptBlock
        BY Zenon DEF OptBlock
      <3> QED BY <1>5, <2>1, <3>1, Change, Zenon
    <2>3. t.view.epoch = e /\ t.view.number = v
      BY <2>2 DEF newView
    <2> QED BY <1>1, <1>5, <2>2, <2>3, Zenon DEF Turn, Around, Besides
  <1>6. CASE Enough(s) /\ EqualSwitchPoint(u, n)
    <2>1. t = changeView(u, u.view.epoch + 1, 0, None)
      BY <1>2, <1>6
    <2>2. u.pool.epoch = u.view.epoch + 1
      <3>1. End(u.view.epoch - 1) < Number[u.tree.qc]
        BY <1>1, <1>6, EnoughNumber, Zenon
      <3>2. EqualSwitchPoint(u, Number[u.tree.qc])
        BY <1>1, <1>6, Zenon DEF Besides
      <3> QED BY <1>1, <1>3, <3>1, <3>2, SwitchedEpoch, Zenon
    <2>3. Signer!Before(u.view.epoch, u.view.number, u.view.epoch + 1, 0)
      BY <1>3 DEF Signer!Before
    <2>4. /\ u.view.epoch + 1 \in Nat /\ u.view.epoch + 1 <= u.pool.epoch
          /\ u.pool.epoch <= u.view.epoch + 1 + 1 /\ 0 \in Nat
      BY <1>3, <2>2
    <2>5. /\ Good(t) /\ Fresh(t) /\ Around(u, t) /\ t.view.epoch = u.view.epoch + 1
          /\ Turn(s, t) /\ (Fresh(s) => t.sent = s.sent)
      BY <1>5, <2>1, <2>3, <2>4, Zenon
    <2>6. u.view.epoch < t.view.epoch
      BY <1>3, <2>5
    <2>7. ChangeWaits(t)
      BY <1>1, <2>5, <2>6, FreshWaits, Zenon DEF Around
    <2> QED BY <2>5, <2>7, Zenon
  <1>7. CASE Enough(s) /\ ~EqualSwitchPoint(u, n)
    <2>1. t = changeView(u, u.view.epoch, u.view.number + 1, None)
      BY <1>2, <1>7, Zenon
    <2>2. Signer!Before(u.view.epoch, u.view.number, u.view.epoch, u.view.number + 1)
      BY <1>3 DEF Signer!Before
    <2>3. /\ u.view.number + 1 \in Nat /\ u.view.epoch <= u.pool.epoch
          /\ u.pool.epoch <= u.view.epoch + 1
      <3>1. PoolOK(u)
        BY <1>1, Zenon DEF Good
      <3> QED BY <1>1, <1>3, <3>1 DEF PoolOK
    <2>4. /\ Good(t) /\ Fresh(t) /\ Around(u, t) /\ t.view.epoch = u.view.epoch
          /\ Turn(s, t) /\ (Fresh(s) => t.sent = s.sent)
      BY <1>3, <1>5, <2>1, <2>2, <2>3, Zenon
    <2>5. ~EpochEnded(u)
      BY <1>1, <1>7, Zenon DEF Settled, Besides
    <2>6. ChangeWaits(t)
      BY <1>1, <2>4, <2>5, FreshWaits, Zenon DEF Around
    <2> QED BY <2>4, <2>6, Zenon
  <1>8. CASE ~Enough(s) /\ ChangesIn(s) >= threshold
    <2> DEFINE m == MaxReported(u)
    <2>1. t = tryChangeViewByViewChange(u, m)
      BY <1>2, <1>8
    <2>2. m \in certified \cup {Genesis}
      BY <1>1, <1>4, <1>8, ReportedBlock, Zenon
    <2>3. ~EpochEnded(u) /\ ~Enough(u)
      BY <1>1, <1>8, Zenon DEF Enough
    <2>4. /\ Turn(u, t) /\ t.pool = u.pool
          /\ \/ t = u /\ u.tree.qc # Genesis
                     /\ Top(u, m) \notin u.tree.blocks \ {Genesis}
             \/ /\ Fresh(t)
                /\ \/ u.view.epoch < t.view.epoch
                   \/ t.view.epoch = u.view.epoch
      <3> HIDE DEF m
      <3> QED BY <1>1, <2>1, <2>2, ByViewChange, Zenon
    <2>5. Turn(s, t)
      BY <1>1, <2>4, Zenon DEF Turn, Besides
    <2>6. ~Fresh(s)
      <3>1. ~(ChangesIn(s) >= threshold) \/ ~Fresh(s)
        BY FreshFields, Sizes DEF ChangesIn
      <3> QED BY <1>8, <3>1, Zenon
    <2>7. ChangeWaits(t)
      <3>1. CASE t = u /\ u.tree.qc # Genesis /\ Top(u, m) \notin u.tree.blocks \ {Genesis}
        BY <1>1, <2>3, <3>1, Zenon DEF ChangeWaits, Top
      <3>2. CASE Fresh(t) /\ (u.view.epoch < t.view.epoch \/ t.view.epoch = u.view.epoch)
        <4>1. Good(t) /\ t.tree = u.tree
          BY <2>4, Zenon DEF Turn
        <4> QED BY <1>1, <2>3, <2>4, <3>2, <4>1, FreshWaits, Zenon
      <3> QED BY <2>4, <3>1, <3>2, Zenon
    <2> QED BY <2>5, <2>6, <2>7, Zenon
  <1>9. CASE ~Enough(s) /\ ~(ChangesIn(s) >= threshold)
    <2>1. t = u
      BY <1>2, <1>9
    <2>2. Turn(s, t) /\ t.sent = s.sent
      BY <1>1, <2>1, Zenon DEF Turn, Besides
    <2>3. ChangesIn(u) < threshold
      BY <1>1, <1>4, <1>9, ReportedBlock, Sizes
    <2> QED BY <1>1, <1>9, <2>1, <2>2, <2>3, Zenon DEF ChangeWaits
  <1> QED BY <1>6, <1>7, <1>8, <1>9, Zenon

\* When tryChangeView has nothing to do it does nothing.
LEMMA ChangeIdle ==
    ASSUME Env, NEW s, Good(s), ChangeWaits(s)
    PROVE  tryChangeView(s) = s
  <1>1. Updated(s) = s
    BY HighestNumber DEF ChangeWaits, Settled, Updated, Update
  <1>2. CASE ChangesIn(s) < threshold
    <2>1. ~Enough(s) /\ ~(ChangesIn(s) >= threshold)
      BY <1>2, ReportedBlock, Sizes DEF ChangeWaits
    <2> QED BY <1>1, <2>1, TryChangeView
  <1>3. CASE /\ ~(ChangesIn(s) < threshold) /\ s.tree.qc # Genesis
             /\ richViewChangeQC(s, MaxReported(s)).max \notin s.tree.blocks \ {Genesis}
    <2> DEFINE m == MaxReported(s)
    <2>1. ~Enough(s) /\ ChangesIn(s) >= threshold
      BY <1>3, ReportedBlock, Sizes DEF ChangeWaits
    <2>2. m \in certified \cup {Genesis}
      BY <2>1, ReportedBlock
    <2>3. tryChangeView(s) = tryChangeViewByViewChange(s, m)
      BY <1>1, <2>1, TryChangeView
    <2>4. Top(s, m) \notin s.tree.blocks \ {Genesis}
      BY <1>3, Zenon DEF Top
    <2> HIDE DEF m
    <2>5. Generated(s, m) = {}
      BY <2>2, <2>4, TopBlock, Zenon
    <2>6. tryChangeViewByViewChange(s, m) = Signed(s, Generated(s, m))
      BY <1>3, <2>4, ByViewChangeCases, Zenon
    <2> QED BY <2>3, <2>5, <2>6, SignedNone, Zenon DEF Good
  <1> QED BY <1>2, <1>3, Zenon DEF ChangeWaits

\* What a run of procedures from s to t has taken into the tree: certified blocks
\* of the view of s or before, not below what was there.
Takes(s, t) ==
    /\ s.tree.blocks \subseteq Block
    /\ \A y \in s.tree.blocks : ~HigherQuorumCert(y, t.tree.qc)
    /\ \A x \in t.tree.blocks \ s.tree.blocks :
          /\ NotAfter(Epoch[x], ViewNumber[x], s.view.epoch, s.view.number)
          /\ \A y \in s.tree.blocks : Number[y] <= Number[x]

\* What it has signed, as Voter wants it.
Signs(s, t) ==
    /\ Takes(s, t)
    /\ s.sent.votes \subseteq t.sent.votes /\ s.sent.changes \subseteq t.sent.changes
    /\ \A b \in t.sent.votes \ s.sent.votes :
          /\ b \in proposed /\ InView(s, b) /\ ~s.view.deadline
          /\ Parent[b] \in t.tree.blocks
    /\ \A c \in t.sent.changes \ s.sent.changes :
          /\ c.epoch = s.view.epoch /\ c.number = s.view.number /\ c.block = t.tree.qc
          /\ s.view.own = None

\* It is still in its view and has not asked to leave it.
Holds(s, t) ==
    /\ t.view.epoch = s.view.epoch /\ t.view.number = s.view.number
    /\ t.view.own = s.view.own /\ t.view.deadline = s.view.deadline
    /\ t.sent.changes = s.sent.changes

\* The result of a run of procedures.
Ran(s, t) ==
    /\ Good(t) /\ VotesWait(t) /\ Signs(s, t)
    /\ NotAfter(s.view.epoch, s.view.number, t.view.epoch, t.view.number)

\* Where the tree stays nothing is taken in.
LEMMA TakesNone ==
    ASSUME NEW s, Good(s), NEW t, t.tree = s.tree
    PROVE  Takes(s, t)
  BY Zenon DEF Takes, Good, StateType, TreeType, TreeOK, Highest

\* An insertion takes in its block.
LEMMA TakesOne ==
    ASSUME Env, NEW s0, NEW s, Good(s), Takes(s0, s), Holds(s0, s),
           NEW b, Insertable(s, b), NEW v, Grown(s, v, b)
    PROVE  Takes(s0, v)
  <1>1. /\ b \in Block /\ Number[b] \in Nat /\ s.tree.qc \in Block
        /\ Number[s.tree.qc] \in Nat /\ Number[s.tree.qc] <= Number[b]
    BY TreeFacts, Zenon DEF Good, StateType, TreeType
  <1>2. ASSUME NEW y \in s0.tree.blocks
        PROVE  ~HigherQuorumCert(y, v.tree.qc) /\ Number[y] <= Number[b]
    <2>1. y \in Block /\ ~HigherQuorumCert(y, s.tree.qc)
      BY Zenon DEF Takes
    <2>2. Number[y] \in Nat
      BY <2>1, BlockAssumption
    <2>3. Number[y] <= Number[s.tree.qc]
      BY <1>1, <2>1, <2>2 DEF HigherQuorumCert
    <2> QED BY <1>1, <2>1, <2>2, <2>3 DEF Grown
  <1>3. ASSUME NEW x \in v.tree.blocks \ s0.tree.blocks
        PROVE  /\ NotAfter(Epoch[x], ViewNumber[x], s0.view.epoch, s0.view.number)
               /\ \A y \in s0.tree.blocks : Number[y] <= Number[x]
    <2>1. CASE x = b
      BY <1>2, <2>1, Zenon DEF Insertable, Holds
    <2>2. CASE x # b
      BY <2>2, Zenon DEF Grown, Takes
    <2> QED BY <2>1, <2>2, Zenon
  <1> QED BY <1>2, <1>3, Zenon DEF Takes

\* tryChangeView may come last in such a run.
LEMMA TurnSigns ==
    ASSUME NEW s \in StateType, NEW v, Good(v), VotesWait(v), Signs(s, v), Holds(s, v),
           NEW t, Turn(v, t)
    PROVE  Ran(s, t)
  <1>1. Good(t) /\ t.tree = v.tree
    BY Zenon DEF Turn
  <1>2. VotesWait(t)
    <2>1. CASE t.view = v.view
      BY <1>1, <2>1, Zenon DEF VotesWait
    <2>2. CASE Fresh(t)
      BY <2>2, FreshFields, Zenon DEF VotesWait
    <2> QED BY <2>1, <2>2, Zenon DEF Turn
  <1>3. s.view.epoch \in Nat /\ s.view.number \in Nat
    BY Zenon DEF StateType, ViewType
  <1>4. NotAfter(s.view.epoch, s.view.number, t.view.epoch, t.view.number)
    <2>1. CASE t.view = v.view
      BY <1>3, <2>1 DEF Holds, NotAfter, Signer!NotAfter
    <2>2. CASE Signer!Before(v.view.epoch, v.view.number, t.view.epoch, t.view.number)
      <3>1. t.view.epoch \in Nat /\ t.view.number \in Nat
        BY <1>1, Zenon DEF Good, StateType, ViewType
      <3> QED BY <1>3, <2>2, <3>1 DEF Holds, Signer!Before, NotAfter, Signer!NotAfter
    <2> QED BY <2>1, <2>2, Zenon DEF Turn
  <1>5. Signs(s, t)
    BY Zenon DEF Signs, Takes, Turn, Holds
  <1> QED BY <1>1, <1>2, <1>4, <1>5, Zenon DEF Ran

\* What insertQCBlock has done when it comes to tryChangeView.
Extended(s, v, b) ==
    /\ v.view.epoch = s.view.epoch /\ v.view.number = s.view.number
    /\ v.view.own = s.view.own /\ v.view.deadline = s.view.deadline
    /\ v.view.executing = s.view.executing
    /\ v.sent.changes = s.sent.changes /\ v.sent.executed = s.sent.executed
    /\ AddedQC(s, v, b) /\ Grown(s, v, b) /\ NewVotes(s, v)

\* The pending votes that waited for b are sent.
LEMMA InsertSend ==
    ASSUME Env, NEW s, Good(s), NEW b, Insertable(s, b)
    PROVE  LET v == trySendPrepareVote(insertTree(addQC(s, b, b), b))
           IN  Good(v) /\ VotesWait(v) /\ Extended(s, v, b)
  <1> DEFINE u == insertTree(addQC(s, b, b), b)
             v == trySendPrepareVote(u)
  <1>1. Good(u) /\ Inserted(s, u, b)
    BY Insert, Zenon
  <1> SUFFICES Good(v) /\ VotesWait(v) /\ Extended(s, v, b)
    BY Zenon
  <1> HIDE DEF u
  <1>2. Good(v) /\ VotesWait(v) /\ Unsent(u, v) /\ NewVotes(u, v) /\ FromPending(u, v)
    BY <1>1, Send, Zenon
  <1> HIDE DEF v
  <1>3. u.view.epoch = s.view.epoch /\ u.view.number = s.view.number
        /\ u.view.own = s.view.own /\ u.view.deadline = s.view.deadline
        /\ u.view.executing = s.view.executing /\ u.view.hadSend = s.view.hadSend
        /\ u.sent = s.sent
    BY <1>1, Zenon DEF Inserted, SameView, SameFields
  <1>4. v.view.epoch = u.view.epoch /\ v.view.number = u.view.number
        /\ v.view.own = u.view.own /\ v.view.deadline = u.view.deadline
        /\ v.view.executing = u.view.executing /\ v.tree = u.tree
        /\ v.view.blocks = u.view.blocks /\ v.view.qcs = u.view.qcs
        /\ v.sent.changes = u.sent.changes /\ v.sent.executed = u.sent.executed
    BY <1>2, Zenon DEF Unsent
  <1>5. AddedQC(s, v, b)
    BY <1>1, <1>4, Zenon DEF Inserted, AddedQC
  <1>6. Grown(s, v, b)
    <2>1. TreeOK(v)
      BY <1>2, Zenon DEF Good
    <2> QED BY <1>1, <1>4, <2>1, Zenon DEF Inserted, Grown
  <1>7. NewVotes(s, v)
    BY <1>2, <1>3, Zenon DEF NewVotes, InView
  <1> QED BY <1>2, <1>3, <1>4, <1>5, <1>6, <1>7, Zenon DEF Extended

\* The votes signed between s0 and s stay on blocks of the tree when b is inserted.
Kept(s0, s, b) ==
    \A d \in s.sent.votes \ s0.sent.votes :
        Parent[d] = Parent[b] \/ Number[Parent[d]] >= Number[b]

\* The run from s0 to s goes on with an insertion of b up to tryChangeView.
Goes(s0, s, t, b) ==
    \E v : /\ Good(v) /\ VotesWait(v) /\ Extended(s, v, b)
           /\ Signs(s0, v) /\ Holds(s0, v) /\ Turn(v, t) /\ ChangeWaits(t)

\* insertQCBlock, alone or after other procedures of the handler.
LEMMA InsertQC ==
    ASSUME Env, NEW s0, NEW s, Good(s), Signs(s0, s), Holds(s0, s),
           NEW b \in certified,
           NotAfter(Epoch[b], ViewNumber[b], s.view.epoch, s.view.number),
           Number[b] > Number[s.tree.lock] => Parent[b] \in s.tree.blocks,
           Kept(s0, s, b)
    PROVE  LET t == insertQCBlock(s, b, b)
           IN  \/ t = s /\ (Number[b] <= Number[s.tree.lock] \/ HasBlock(s, b))
               \/ Insertable(s, b) /\ Goes(s0, s, t, b)
  <1> DEFINE t == insertQCBlock(s, b, b)
             v == trySendPrepareVote(insertTree(addQC(s, b, b), b))
  <1>1. CASE Number[b] <= Number[s.tree.lock] \/ HasBlock(s, b)
    BY <1>1, Zenon DEF insertQCBlock
  <1>2. CASE ~(Number[b] <= Number[s.tree.lock] \/ HasBlock(s, b))
    <2>1. t = tryChangeView(v)
      BY <1>2, Zenon DEF insertQCBlock
    <2>2. Insertable(s, b)
      <3>1. Number[b] \in Nat /\ Number[s.tree.lock] \in Nat
        <4>1. s.tree.lock \in Block
          BY Zenon DEF Good, StateType, TreeType
        <4> QED BY <4>1, CertifiedBlock, Proposed, BlockAssumption, Zenon
      <3> QED BY <1>2, <3>1 DEF Insertable
    <2>3. Good(v) /\ VotesWait(v) /\ Extended(s, v, b)
      BY <2>2, InsertSend, Zenon
    <2> HIDE DEF v
    <2>4. Turn(v, t) /\ ChangeWaits(t)
      BY <2>1, <2>3, TryTurn, Zenon
    <2> HIDE DEF t
    <2>5. Holds(s0, v)
      BY <2>3, Zenon DEF Holds, Extended
    <2>6. Signs(s0, v)
      <3>1. s0.sent.votes \subseteq v.sent.votes /\ v.sent.changes = s0.sent.changes
        BY <2>3, <2>5, Zenon DEF Signs, Holds, Extended, NewVotes
      <3>2. ASSUME NEW d \in v.sent.votes \ s0.sent.votes
            PROVE  /\ d \in proposed /\ InView(s0, d) /\ ~s0.view.deadline
                   /\ Parent[d] \in v.tree.blocks
        <4>1. CASE d \in s.sent.votes
          <5>1. d \in proposed /\ InView(s0, d) /\ ~s0.view.deadline
                /\ Parent[d] \in s.tree.blocks
            BY <4>1, Zenon DEF Signs
          <5>2. Parent[d] = Parent[b] \/ Number[Parent[d]] >= Number[b]
            BY <4>1, Zenon DEF Kept
          <5>3. Grown(s, v, b)
            BY <2>3, Zenon DEF Extended
          <5> QED BY <5>1, <5>2, <5>3, Zenon DEF Grown
        <4>2. CASE d \notin s.sent.votes
          BY <2>3, <4>2, Zenon DEF Extended, NewVotes, Holds, InView
        <4> QED BY <4>1, <4>2, Zenon
      <3>3. Takes(s0, v)
        BY <2>2, <2>3, TakesOne, Zenon DEF Signs, Extended
      <3> QED BY <3>1, <3>2, <3>3, Zenon DEF Signs
    <2>7. Goes(s0, s, t, b)
      BY <2>3, <2>4, <2>5, <2>6, Zenon DEF Goes
    <2> QED BY <2>2, <2>7, Zenon DEF t
  <1> QED BY <1>1, <1>2, Zenon

-----------------------------------------------------------------------------
(* findExecutableBlock *)

\* The index that findExecutableBlock goes on from, whether its block has been
\* executed, and the block to execute next.
FromQC(s) == s.view.executing.index = NoIndex /\ MaxQCIndex(s) # NoIndex

From(s) == IF FromQC(s) THEN MaxQCIndex(s) ELSE s.view.executing.index

NextUp(s) == ViewBlockByIndex(s, From(s) + 1)

\* There is nothing to execute.
ExecWaits(s) ==
    \/ NextUp(s) = None
    \/ From(s) = NoIndex /\ Parent[NextUp(s)] \notin s.tree.blocks
    \/ /\ From(s) # NoIndex
       /\ ~((FromQC(s) \/ s.view.executing.finish) /\ ViewBlockByIndex(s, From(s)) # None)

\* Then nothing is.
LEMMA ExecIdle ==
    ASSUME NEW s, ExecWaits(s)
    PROVE  findExecutableBlock(s) = s
  BY Zenon DEF ExecWaits, findExecutableBlock, NextUp, From, FromQC

\* A new view has no blocks.
LEMMA FreshExec ==
    ASSUME NEW s, Fresh(s)
    PROVE  ExecWaits(s)
  <1>1. MaxQCIndex(s) = NoIndex
    BY FreshFields, Zenon DEF MaxQCIndex, MaxOf
  <1>2. From(s) = NoIndex
    BY <1>1, FreshFields DEF From, FromQC, NoIndex
  <1>3. NextUp(s) = None
    BY <1>2, FreshFields, Zenon DEF NextUp, ViewBlockByIndex
  <1> QED BY <1>3, Zenon DEF ExecWaits

\* Nor does a change of view bring any.
LEMMA TurnExec ==
    ASSUME NEW v, NEW t, Turn(v, t), ExecWaits(v)
    PROVE  ExecWaits(t)
  <1>1. CASE t.view = v.view
    BY <1>1, Zenon DEF Turn, ExecWaits, NextUp, From, FromQC, ViewBlockByIndex, MaxQCIndex
  <1>2. CASE Fresh(t)
    BY <1>2, FreshExec
  <1> QED BY <1>1, <1>2, Zenon DEF Turn

\* While a block of the view is being executed, certificates do not matter.
LEMMA ExecSame ==
    ASSUME NEW s, NEW v, ExecWaits(s), v.view.executing = s.view.executing,
           s.view.executing.index \in Nat,
           \A j \in Index : v.view.blocks[j] = s.view.blocks[j]
    PROVE  ExecWaits(v)
  <1>1. From(s) = s.view.executing.index /\ From(v) = From(s) /\ From(s) # NoIndex
        /\ ~FromQC(s) /\ ~FromQC(v)
    BY DEF From, FromQC, NoIndex
  <1>2. NextUp(v) = NextUp(s) /\ ViewBlockByIndex(v, From(v)) = ViewBlockByIndex(s, From(s))
    BY <1>1, Zenon DEF NextUp, ViewBlockByIndex
  <1> QED BY <1>1, <1>2, Zenon DEF ExecWaits

\* What the bookkeeping of a handler changes: more is known, executed and reported.
More(s, t) ==
    /\ t \in StateType /\ t.tree = s.tree /\ t.pool = s.pool /\ t.fault = s.fault
    /\ t.view.epoch = s.view.epoch /\ t.view.number = s.view.number
    /\ t.view.pending = s.view.pending /\ t.view.hadSend = s.view.hadSend
    /\ \A j \in Index : s.view.blocks[j] # None => t.view.blocks[j] = s.view.blocks[j]
    /\ \A j \in Index : Done(s, j) => Done(t, j)
    /\ t.sent.votes = s.sent.votes /\ s.sent.executed \subseteq t.sent.executed

\* It leaves the votes and the tree as they should be.
LEMMA GoodMore ==
    ASSUME NEW s, Good(s), NEW t, More(s, t),
           BlocksOK(t), ExecutingOK(t), ChangesOK(t), ReportsOK(t)
    PROVE  Good(t)
  <1>1. TreeOK(t)
    BY Zenon DEF Good, More, TreeOK, Rooted, Highest, Behind, Bounded
  <1>2. PoolOK(t)
    BY Zenon DEF Good, More, PoolOK
  <1>3. VotesOK(t)
    BY Zenon DEF Good, More, VotesOK
  <1>4. HadSendOK(t)
    <2> SUFFICES ASSUME NEW h \in t.view.hadSend
                 PROVE  /\ t.view.blocks[h] # None /\ Done(t, h)
                        /\ t.view.blocks[h] \in certified
                              /\ Number[t.view.blocks[h]] > Number[t.tree.lock]
                           => Parent[t.view.blocks[h]] \in t.tree.blocks
      BY Zenon DEF HadSendOK
    <2>1. h \in Index /\ h \in s.view.hadSend
      BY Zenon DEF More, StateType, ViewType
    <2>2. s.view.blocks[h] # None /\ t.view.blocks[h] = s.view.blocks[h] /\ Done(t, h)
      BY <2>1, Zenon DEF More, Good, HadSendOK
    <2> QED BY <2>1, <2>2, Zenon DEF More, Good, HadSendOK
  <1>5. PendingOK(t)
    <2> DEFINE p == s.view.pending
    <2>1. p \in Seq(Block) /\ PendingOK(s) /\ t.view.pending = p
      BY Zenon DEF Good, StateType, ViewType, More
    <2>2. ASSUME NEW j \in 1..Len(p)
          PROVE  /\ p[j] \in t.sent.executed /\ BlockIndex[p[j]] \in Index
                 /\ p[j] = t.view.blocks[BlockIndex[p[j]]]
                 /\ Done(t, BlockIndex[p[j]])
                 /\ \A h \in t.view.hadSend : h < BlockIndex[p[j]]
      <3>1. p[j] \in Block
        BY <2>1
      <3>2. p[j] # None
        BY <3>1, Sizes, Zenon
      <3>3. /\ p[j] \in s.sent.executed /\ BlockIndex[p[j]] \in Index
            /\ p[j] = s.view.blocks[BlockIndex[p[j]]]
            /\ Done(s, BlockIndex[p[j]])
            /\ \A h \in s.view.hadSend : h < BlockIndex[p[j]]
        BY <2>1, Zenon DEF PendingOK
      <3> QED BY <3>2, <3>3, Zenon DEF More
    <2>3. \A j, k \in 1..Len(p) : j < k => BlockIndex[p[j]] < BlockIndex[p[k]]
      BY <2>1, Zenon DEF PendingOK
    <2> QED BY <2>1, <2>2, <2>3, Zenon DEF PendingOK
  <1> QED BY <1>1, <1>2, <1>3, <1>4, <1>5, Zenon DEF Good, More

\* Only the execution goes on.
OnlyExec(s, t) ==
    /\ t \in StateType /\ t.tree = s.tree /\ t.pool = s.pool /\ t.sent = s.sent
    /\ t.fault = s.fault
    /\ t.view.epoch = s.view.epoch /\ t.view.number = s.view.number
    /\ t.view.blocks = s.view.blocks /\ t.view.qcs = s.view.qcs
    /\ t.view.pending = s.view.pending /\ t.view.hadSend = s.view.hadSend
    /\ t.view.votes = s.view.votes /\ t.view.own = s.view.own
    /\ t.view.changes = s.view.changes /\ t.view.maxChange = s.view.maxChange
    /\ t.view.last = s.view.last /\ t.view.deadline = s.view.deadline

\* Its fields.
LEMMA ExecFields ==
    ASSUME NEW s \in StateType, NEW x \in [index : Int, finish : BOOLEAN]
    PROVE  LET t == [s EXCEPT !.view.executing = x]
           IN  OnlyExec(s, t) /\ t.view.executing = x /\ t.tasks = s.tasks
  <1> DEFINE w == [s.view EXCEPT !.executing = x]
             t == WithView(s, w)
  <1>1. s.view \in ViewType
    BY Zenon DEF StateType
  <1>2. w \in ViewType
    BY <1>1, ZenonT(60) DEF ViewType
  <1>3. /\ w.executing = x /\ w.epoch = s.view.epoch /\ w.number = s.view.number
        /\ w.blocks = s.view.blocks /\ w.qcs = s.view.qcs
        /\ w.pending = s.view.pending /\ w.hadSend = s.view.hadSend
        /\ w.votes = s.view.votes /\ w.own = s.view.own
        /\ w.changes = s.view.changes /\ w.maxChange = s.view.maxChange
        /\ w.last = s.view.last /\ w.deadline = s.view.deadline
    BY <1>1, ZenonT(60) DEF ViewType
  <1> HIDE DEF w
  <1>4. t \in StateType /\ Around(s, t) /\ t.view = w
    BY <1>2, WithViewFields, Zenon
  <1>5. OnlyExec(s, t)
    BY <1>3, <1>4, Zenon DEF OnlyExec, Around
  <1>6. [s EXCEPT !.view.executing = x] = t
    BY Zenon DEF WithView, w
  <1> QED BY <1>3, <1>4, <1>5, <1>6, Zenon DEF Around

\* Handing block i to the executor changes the executing block and the tasks.
LEMMA ExecuteFields ==
    ASSUME NEW s \in StateType, NEW i \in Int, NEW b \in Block, s.view.blocks[i] = b
    PROVE  LET t == Execute(s, i)
           IN  OnlyExec(s, t) /\ t.view.executing = [index |-> i, finish |-> FALSE]
  <1> DEFINE a == [s EXCEPT !.tasks = Append(s.tasks, b)]
             x == [index |-> i, finish |-> FALSE]
             t == [a EXCEPT !.view.executing = x]
  <1>1. Append(s.tasks, b) \in Seq(Block)
    BY DEF StateType
  <1>2. a \in StateType /\ a.view = s.view /\ a.tree = s.tree /\ a.pool = s.pool
        /\ a.sent = s.sent /\ a.fault = s.fault
    BY <1>1, Zenon DEF StateType
  <1>3. x \in [index : Int, finish : BOOLEAN]
    BY Zenon
  <1>4. Execute(s, i) = t
    BY Zenon DEF Execute
  <1> HIDE DEF a, x
  <1>5. OnlyExec(a, t) /\ t.view.executing = x
    BY <1>2, <1>3, ExecFields
  <1> HIDE DEF t
  <1>6. OnlyExec(s, t)
    BY <1>2, <1>5, Zenon DEF OnlyExec
  <1> QED BY <1>4, <1>5, <1>6, Zenon DEF x

\* Good only asks of the execution that the blocks are there, and that it goes on.
LEMMA GoodExec ==
    ASSUME NEW s, Good(s), NEW t, OnlyExec(s, t), ExecutingOK(t),
           \A j \in Index : Done(s, j) => Done(t, j)
    PROVE  Good(t)
  <1>1. More(s, t)
    BY Zenon DEF OnlyExec, More
  <1>2. BlocksOK(t)
    BY Zenon DEF Good, BlocksOK, OnlyExec, InView
  <1>3. ChangesOK(t) /\ ReportsOK(t)
    BY Zenon DEF Good, ChangesOK, ReportsOK, OnlyExec
  <1> QED BY <1>1, <1>2, <1>3, GoodMore, Zenon

\* What waits for other things goes on waiting.
LEMMA ExecWaiting ==
    ASSUME NEW s, NEW t, OnlyExec(s, t)
    PROVE  /\ VotesWait(s) => VotesWait(t)
           /\ ChangeWaits(s) => ChangeWaits(t)
  <1>1. VotesWait(s) => VotesWait(t)
    BY Zenon DEF VotesWait, OnlyExec
  <1>2. Enough(t) <=> Enough(s)
    BY Zenon DEF Enough, EpochEnded, ShouldSwitch, MaxQCIndex, OnlyExec
  <1>3. Settled(t) <=> Settled(s)
    BY Zenon DEF Settled, EpochEnded, EqualSwitchPoint, ShouldSwitch, OnlyExec
  <1>4. ChangesIn(t) = ChangesIn(s) /\ MaxReported(t) = MaxReported(s)
    BY Zenon DEF ChangesIn, MaxReported, OnlyExec
  <1>5. richViewChangeQC(t, MaxReported(t)) = richViewChangeQC(s, MaxReported(s))
    BY <1>4, Zenon DEF richViewChangeQC, OnlyExec
  <1>6. t.tree = s.tree
    BY Zenon DEF OnlyExec
  <1> QED BY <1>1, <1>2, <1>3, <1>4, <1>5, <1>6, Zenon DEF ChangeWaits

\* findExecutableBlock hands on one block at most; a second call has nothing to do.
LEMMA FindExec ==
    ASSUME Env, NEW s, Good(s)
    PROVE  LET t == findExecutableBlock(s)
           IN  Good(t) /\ ExecWaits(t) /\ OnlyExec(s, t)
  <1> DEFINE t == findExecutableBlock(s)
             i == From(s) + 1
  <1>0. /\ s \in StateType /\ s.view.executing.index \in Int /\ s.view.qcs \in SUBSET Index
        /\ s.view.executing.index >= -1
        /\ s.view.blocks \in [Index -> OptBlock]
    BY Zenon DEF Good, StateType, ViewType, ExecutingOK, NoIndex
  <1>1. CASE ExecWaits(s)
    <2>1. t = s
      BY <1>1, ExecIdle
    <2> QED BY <1>0, <1>1, <2>1, Zenon DEF OnlyExec
  <1>2. CASE ~ExecWaits(s)
    <2>1. From(s) \in Int /\ From(s) >= -1 /\ From(s) >= s.view.executing.index
          /\ (From(s) # s.view.executing.index => s.view.executing.index = -1)
      <3>1. MaxQCIndex(s) \in Int /\ -1 <= MaxQCIndex(s)
        BY <1>0, MaxOfIndex, Zenon DEF MaxQCIndex
      <3> QED BY <1>0, <3>1 DEF From, FromQC, NoIndex
    <2>2. NextUp(s) # None /\ i \in Index /\ s.view.blocks[i] # None
      BY <1>2, Zenon DEF ExecWaits, NextUp, ViewBlockByIndex
    <2>3. t = Execute(s, i)
      <3>1. CASE From(s) = NoIndex
        <4>1. i = 0
          BY <3>1 DEF NoIndex
        <4>2. Parent[NextUp(s)] \in s.tree.blocks
          BY <1>2, <3>1, Zenon DEF ExecWaits
        <4>3. t = Execute(s, 0)
          BY <2>2, <3>1, <4>2, Zenon DEF findExecutableBlock, NextUp, From, FromQC
        <4> QED BY <4>1, <4>3, Zenon
      <3>2. CASE From(s) # NoIndex
        <4>1. (FromQC(s) \/ s.view.executing.finish) /\ ViewBlockByIndex(s, From(s)) # None
          BY <1>2, <3>2, Zenon DEF ExecWaits
        <4> QED BY <2>2, <3>2, <4>1, Zenon DEF findExecutableBlock, NextUp, From, FromQC
      <3> QED BY <3>1, <3>2, Zenon
    <2>4. i >= 1 => i - 1 \in Index /\ s.view.blocks[i - 1] # None
      <3> SUFFICES ASSUME i >= 1 PROVE i - 1 \in Index /\ s.view.blocks[i - 1] # None
        BY Zenon
      <3>1. From(s) # NoIndex /\ i - 1 = From(s)
        BY <2>1 DEF NoIndex
      <3>2. ViewBlockByIndex(s, From(s)) # None
        BY <1>2, <3>1, Zenon DEF ExecWaits
      <3> QED BY <3>1, <3>2, Zenon DEF ViewBlockByIndex
    <2>5. i \in Int /\ i >= 0 /\ i > s.view.executing.index
      BY <2>1
    <2>6. \E b \in Block : s.view.blocks[i] = b
      BY <1>0, <2>2, Zenon DEF OptBlock
    <2> HIDE DEF t, i
    <2>7. OnlyExec(s, t) /\ t.view.executing = [index |-> i, finish |-> FALSE]
      BY <1>0, <2>3, <2>5, <2>6, ExecuteFields, Zenon
    <2>8. t.view.executing.index = i /\ t.view.executing.finish = FALSE
          /\ t.view.blocks = s.view.blocks
      BY <2>7 DEF OnlyExec
    <2>9. ExecutingOK(t)
      BY <2>2, <2>4, <2>5, <2>8 DEF ExecutingOK, NoIndex
    <2>10. \A j \in Index : Done(s, j) => Done(t, j)
      <3>1. \A j \in Index : j \in Int
        BY Sizes
      <3> QED BY <1>0, <2>5, <2>8, <3>1 DEF Done
    <2>11. Good(t)
      BY <2>7, <2>9, <2>10, GoodExec, Zenon
    <2>12. ExecWaits(t)
      <3>1. From(t) = i /\ ~FromQC(t) /\ i # NoIndex
        BY <2>5, <2>8 DEF From, FromQC, NoIndex
      <3> QED BY <2>8, <3>1, Zenon DEF ExecWaits
    <2> QED BY <2>7, <2>11, <2>12, Zenon DEF t
  <1> QED BY <1>1, <1>2, Zenon

-----------------------------------------------------------------------------
(* findQCBlock and insertPrepareQC *)

\* The votes signed between s0 and s are not below the index that findQCBlock
\* looks at, when it can be certified.
Late(s0, s) ==
    MaxQCIndex(s) + 1 \in s.view.hadSend =>
        \A d \in s.sent.votes \ s0.sent.votes : MaxQCIndex(s) + 1 <= BlockIndex[d]

\* Such votes stay on blocks of the tree when that index is certified.
LEMMA LateKept ==
    ASSUME Env, NEW s0, NEW s, Signs(s0, s), Holds(s0, s),
           NEW b \in proposed, InView(s, b),
           \A d \in s.sent.votes \ s0.sent.votes : BlockIndex[b] <= BlockIndex[d]
    PROVE  Kept(s0, s, b)
  <1> SUFFICES ASSUME NEW d \in s.sent.votes \ s0.sent.votes
               PROVE  Parent[d] = Parent[b] \/ Number[Parent[d]] >= Number[b]
    BY Zenon DEF Kept
  <1>1. d \in proposed /\ InView(s, d) /\ BlockIndex[b] <= BlockIndex[d]
    BY Zenon DEF Signs, Holds, InView
  <1>2. /\ Number[b] \in Nat /\ Number[d] \in Nat /\ BlockIndex[b] \in Nat
        /\ BlockIndex[d] \in Nat /\ Number[d] = Number[Parent[d]] + 1
        /\ Parent[d] \in Block
    BY <1>1, Proposed, Zenon
  <1>3. Number[Parent[d]] \in Nat
    BY <1>2, BlockAssumption, Zenon
  <1>4. /\ Number[b] + BlockIndex[d] = Number[d] + BlockIndex[b]
        /\ BlockIndex[b] = BlockIndex[d] => b = d
    BY <1>1, SameViewOrder, Zenon DEF InView
  <1> QED BY <1>1, <1>2, <1>3, <1>4

\* findQCBlock certifies at most one block, and everything that follows from it
\* is done by insertQCBlock already.
LEMMA FindQC ==
    ASSUME Env, NEW s0 \in StateType, NEW s, Good(s), VotesWait(s),
           Signs(s0, s), Holds(s0, s), Late(s0, s)
    PROVE  LET t == findQCBlock(s)
           IN  Ran(s0, t) /\ ChangeWaits(t) /\ (ExecWaits(s) => ExecWaits(t))
  <1> DEFINE t == findQCBlock(s)
             next == MaxQCIndex(s) + 1
             b == ViewBlockByIndex(s, next)
             w == insertQCBlock(s, b, b)
             ready == next \in s.view.hadSend /\ s.view.votes[next] + 1 >= threshold
  <1> SUFFICES Ran(s0, t) /\ ChangeWaits(t) /\ (ExecWaits(s) => ExecWaits(t))
    BY Zenon
  <1>1. ASSUME t = tryChangeView(s)
        PROVE  Ran(s0, t) /\ ChangeWaits(t) /\ (ExecWaits(s) => ExecWaits(t))
    <2>1. Turn(s, t) /\ ChangeWaits(t)
      BY <1>1, TryTurn, Zenon
    <2> HIDE DEF t
    <2> QED BY <2>1, TurnSigns, TurnExec, Zenon
  <1>2. CASE ~ready
    BY <1>1, <1>2, Zenon DEF findQCBlock
  <1>3. CASE ready
    <2>1. t = tryChangeView(trySendPrepareVote(w))
      BY <1>3, Zenon DEF findQCBlock
    <2>2. next \in Index /\ b = s.view.blocks[next] /\ b # None /\ Done(s, next)
      BY <1>3, Zenon DEF Good, StateType, ViewType, HadSendOK, ViewBlockByIndex
    <2>3. /\ b \in certified /\ b \in proposed /\ InView(s, b) /\ BlockIndex[b] = next
          /\ Number[b] > Number[s.tree.lock] => Parent[b] \in s.tree.blocks
      BY <1>3, <2>2, Zenon DEF Good, BlocksOK, HadSendOK
    <2>4. NotAfter(Epoch[b], ViewNumber[b], s.view.epoch, s.view.number)
      <3>1. ViewNumber[b] \in Nat
        BY <2>3, Proposed, Zenon
      <3> QED BY <2>3, <3>1 DEF InView, NotAfter, Signer!NotAfter
    <2>5. Kept(s0, s, b)
      <3>1. \A d \in s.sent.votes \ s0.sent.votes : BlockIndex[b] <= BlockIndex[d]
        BY <1>3, <2>3, Zenon DEF Late
      <3> HIDE DEF b
      <3> QED BY <2>3, <3>1, LateKept, Zenon
    <2>6. s.view.executing.index \in Nat
      <3>1. next \in Nat
        BY <2>2, Sizes
      <3>2. s.view.executing.index \in Int
        BY Zenon DEF Good, StateType, ViewType
      <3> QED BY <2>2, <3>1, <3>2 DEF Done
    <2> HIDE DEF next, b, t
    <2>7. w = s \/ (Insertable(s, b) /\ Goes(s0, s, w, b))
      BY <2>3, <2>4, <2>5, InsertQC, Zenon
    <2>8. CASE w = s
      <3>1. trySendPrepareVote(s) = s
        BY SendIdle, Zenon
      <3> QED BY <1>1, <2>1, <2>8, <3>1, Zenon
    <2>9. CASE Goes(s0, s, w, b)
      <3> HIDE DEF w
      <3>1. PICK v : /\ Good(v) /\ VotesWait(v) /\ Extended(s, v, b)
                     /\ Signs(s0, v) /\ Holds(s0, v) /\ Turn(v, w) /\ ChangeWaits(w)
        BY <2>9, Zenon DEF Goes
      <3>2. Ran(s0, w)
        BY <3>1, TurnSigns, Zenon
      <3>3. trySendPrepareVote(w) = w
        BY <3>2, SendIdle, Zenon DEF Ran
      <3>4. t = w
        BY <2>1, <3>1, <3>2, <3>3, ChangeIdle, Zenon DEF Ran
      <3>5. ASSUME ExecWaits(s) PROVE ExecWaits(w)
        <4>1. \A j \in Index : v.view.blocks[j] = s.view.blocks[j]
          BY <2>2, <2>3, <3>1, Zenon DEF Extended, AddedQC
        <4>2. v.view.executing = s.view.executing
          BY <3>1, Zenon DEF Extended
        <4>3. ExecWaits(v)
          BY <2>6, <3>5, <4>1, <4>2, ExecSame, Zenon
        <4> QED BY <3>1, <4>3, TurnExec, Zenon
      <3> QED BY <3>1, <3>2, <3>4, <3>5, Zenon
    <2> QED BY <2>7, <2>8, <2>9, Zenon
  <1> QED BY <1>2, <1>3, Zenon

\* insertPrepareQC finds the block of the certificate: either it is the block of
\* the view at that index, or the certified block is in the tree already, and
\* then it is not one above the highest block.
LEMMA PrepareQC ==
    ASSUME Env, NEW s, Good(s), VotesWait(s), NEW q \in certified,
           q \in s.tree.blocks \/ ViewBlockByIndex(s, BlockIndex[q]) = q
    PROVE  LET t == insertPrepareQC(s, q)
           IN  /\ Ran(s, t) /\ (ExecWaits(s) => ExecWaits(t))
               /\ \/ t = s
                  \/ ChangeWaits(t) /\ (Fresh(t) \/ (Holds(s, t) /\ Late(s, t)))
  <1> DEFINE t == insertPrepareQC(s, q)
             i == BlockIndex[q]
             b == ViewBlockByIndex(s, i)
  <1> SUFFICES /\ Ran(s, t) /\ (ExecWaits(s) => ExecWaits(t))
               /\ \/ t = s
                  \/ ChangeWaits(t) /\ (Fresh(t) \/ (Holds(s, t) /\ Late(s, t)))
    BY Zenon
  <1>0. s \in StateType /\ Signs(s, s) /\ Holds(s, s)
    BY TakesNone, Zenon DEF Good, Signs, Holds
  <1>1. ASSUME t = s
        PROVE  Ran(s, t) /\ (ExecWaits(s) => ExecWaits(t))
    <2>1. s.view.number \in Nat
      BY <1>0, Zenon DEF StateType, ViewType
    <2> QED BY <1>0, <1>1, <2>1 DEF Ran, NotAfter, Signer!NotAfter
  <1>2. CASE ~(b # None /\ i \in s.view.hadSend /\ Parent[b] \in s.tree.blocks
               /\ Number[s.tree.qc] + 1 = Number[q])
    BY <1>1, <1>2, Zenon DEF insertPrepareQC
  <1>3. CASE b # None /\ i \in s.view.hadSend /\ Parent[b] \in s.tree.blocks
             /\ Number[s.tree.qc] + 1 = Number[q]
    <2>1. q \in proposed /\ Number[q] \in Nat /\ Number[s.tree.qc] \in Nat /\ q \in Block
          /\ s.tree.qc \in Block
      BY CertifiedBlock, Proposed, HighestNumber, Zenon
    <2>2. q \notin s.tree.blocks
      <3>1. HigherQuorumCert(q, s.tree.qc)
        BY <1>3, <2>1, HigherStrict
      <3> QED BY <3>1, Zenon DEF Good, TreeOK, Highest
    <2>3. b = q /\ i \in Index /\ s.view.blocks[i] = q /\ q # None
      BY <1>3, <2>2, Zenon DEF Good, StateType, ViewType, ViewBlockByIndex
    <2>4. InView(s, q) /\ Done(s, i)
      BY <1>3, <2>3, Zenon DEF Good, BlocksOK, HadSendOK
    <2>5. t = insertQCBlock(s, q, q)
      BY <1>3, <2>3, Zenon DEF insertPrepareQC
    <2>6. NotAfter(Epoch[q], ViewNumber[q], s.view.epoch, s.view.number)
      <3>1. ViewNumber[q] \in Nat
        BY <2>1, Proposed, Zenon
      <3> QED BY <2>4, <3>1 DEF InView, NotAfter, Signer!NotAfter
    <2>7. Kept(s, s, q)
      BY Zenon DEF Kept
    <2>8. t = s \/ (Insertable(s, q) /\ Goes(s, s, t, q))
      BY <1>0, <1>3, <2>3, <2>5, <2>6, <2>7, InsertQC, Zenon
    <2>9. CASE t = s
      BY <1>1, <2>9, Zenon
    <2>10. CASE Goes(s, s, t, q)
      <3> HIDE DEF t
      <3>1. PICK v : /\ Good(v) /\ VotesWait(v) /\ Extended(s, v, q)
                     /\ Signs(s, v) /\ Holds(s, v) /\ Turn(v, t) /\ ChangeWaits(t)
        BY <2>10, Zenon DEF Goes
      <3>2. Ran(s, t)
        BY <1>0, <3>1, TurnSigns, Zenon
      <3>3. ASSUME ExecWaits(s) PROVE ExecWaits(t)
        <4>1. \A j \in Index : v.view.blocks[j] = s.view.blocks[j]
          BY <2>3, <3>1, Zenon DEF Extended, AddedQC
        <4>2. v.view.executing = s.view.executing
          BY <3>1, Zenon DEF Extended
        <4>3. s.view.executing.index \in Nat
          <5>1. i \in Nat /\ s.view.executing.index \in Int
            BY <1>0, <2>3, Sizes DEF StateType, ViewType
          <5> QED BY <2>4, <5>1 DEF Done
        <4>4. ExecWaits(v)
          BY <3>3, <4>1, <4>2, <4>3, ExecSame, Zenon
        <4> QED BY <3>1, <4>4, TurnExec, Zenon
      <3>4. ASSUME t.view = v.view, t.sent = v.sent PROVE Holds(s, t) /\ Late(s, t)
        <4>1. Holds(s, t)
          BY <3>1, <3>4, Zenon DEF Holds
        <4>2. i \in v.view.qcs
          BY <2>3, <2>4, <3>1, Zenon DEF Extended, AddedQC
        <4>3. \A j \in v.view.qcs : j <= i
          <5> SUFFICES ASSUME NEW j \in s.view.qcs PROVE j <= i
            <6>1. \A j \in v.view.qcs \ s.view.qcs : j = i
              BY <3>1, Zenon DEF Extended, AddedQC
            <6>2. i \in Nat
              BY <2>3, Sizes
            <6> QED BY <6>1, <6>2
          <5>1. j \in Index /\ s.view.blocks[j] # None
                /\ Number[s.view.blocks[j]] <= Number[s.tree.qc]
            BY Zenon DEF Good, BlocksOK, StateType, ViewType
          <5>2. /\ s.view.blocks[j] \in proposed
                /\ Number[s.view.blocks[j]] + i = Number[q] + j
            BY <2>1, <2>4, <5>1, OneBlock
          <5>3. Number[s.view.blocks[j]] \in Nat
            BY <5>2, Proposed, Zenon
          <5>4. i \in Nat /\ j \in Nat
            BY <2>3, <5>1, Sizes
          <5> QED BY <1>3, <2>1, <5>1, <5>2, <5>3, <5>4
        <4>4. MaxQCIndex(t) = i
          <5>1. v.view.qcs \in SUBSET Index
            BY <3>1, Zenon DEF Good, StateType, ViewType
          <5>2. MaxOf(v.view.qcs) \in v.view.qcs /\ i <= MaxOf(v.view.qcs)
            BY <4>2, <5>1, MaxOfIndex, Zenon
          <5>3. MaxOf(v.view.qcs) \in Nat /\ i \in Nat
            BY <2>3, <5>1, <5>2, Sizes
          <5> QED BY <3>4, <4>3, <5>2, <5>3 DEF MaxQCIndex
        <4>5. \A d \in t.sent.votes \ s.sent.votes : i + 1 <= BlockIndex[d]
          <5> SUFFICES ASSUME NEW d \in t.sent.votes \ s.sent.votes
                       PROVE  i + 1 <= BlockIndex[d]
            BY Zenon
          <5>1. d \in proposed /\ i < BlockIndex[d]
            BY <1>3, <3>1, <3>4, Zenon DEF Extended, NewVotes
          <5>2. BlockIndex[d] \in Nat /\ i \in Nat
            BY <2>1, <5>1, Proposed, Zenon
          <5> QED BY <5>1, <5>2
        <4> QED BY <4>1, <4>4, <4>5, Zenon DEF Late
      <3>5. (t.view = v.view /\ t.sent = v.sent) \/ Fresh(t)
        BY <3>1, Zenon DEF Turn
      <3> QED BY <3>1, <3>2, <3>3, <3>4, <3>5, Zenon
    <2> QED BY <2>8, <2>9, <2>10, Zenon
  <1> QED BY <1>2, <1>3, Zenon

\* findQCBlock does nothing in a new view.
LEMMA FindIdle ==
    ASSUME Env, NEW s, Good(s), Fresh(s), ChangeWaits(s)
    PROVE  findQCBlock(s) = s
  BY FreshFields, ChangeIdle, Zenon DEF findQCBlock
=============================================================================

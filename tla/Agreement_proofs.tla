-------------------------- MODULE Agreement_proofs --------------------------
(***************************************************************************)
(* Proofs about Agreement, for every set of blocks, every set of           *)
(* validators and every family of quorums any two of which share a         *)
(* validator.                                                              *)
(***************************************************************************)
EXTENDS Agreement, WellFoundedInduction, TLAPS

(* The least-number principle: a set of blocks that is not empty has a      *)
(* lowest one.                                                              *)
LEMMA LowestBlock ==
    ASSUME NEW S \in SUBSET Block, S # {}
    PROVE  \E b \in S : \A d \in S : Number[b] <= Number[d]
  <1> DEFINE T == {Number[b] : b \in S}
             R == {ss \in Nat \X Nat : ss[1] < ss[2]}
  <1>1. T \subseteq Nat /\ T # {}
    BY BlockAssumption
  <1>2. IsWellFoundedOn(R, Nat)
    BY NatLessThanWellFounded, Zenon DEF OpToRel
  <1>3. PICK x \in T : \A y \in T : ~(<<y, x>> \in R)
    BY <1>1, <1>2, WFMin
  <1>4. \A y \in T : x <= y
    <2> SUFFICES ASSUME NEW y \in T PROVE x <= y
      OBVIOUS
    <2>1. x \in Nat /\ y \in Nat
      BY <1>1
    <2>2. ~(y < x)
      <3> HIDE DEF T
      <3>1. <<y, x>> \in Nat \X Nat /\ <<y, x>>[1] = y /\ <<y, x>>[2] = x
        BY <2>1
      <3> QED
        BY <1>3, <3>1, Zenon
    <2> QED
      BY <2>1, <2>2
  <1> QED
    BY <1>4

-----------------------------------------------------------------------------
(* Chains of blocks *)

\* A block's number is one above its parent's, and its chain one block longer.
LEMMA ParentBelow ==
    \A b \in Block \ {Genesis} :
        /\ Parent[b] \in Block
        /\ Number[b] \in Nat /\ Number[Parent[b]] \in Nat
        /\ Number[b] = Number[Parent[b]] + 1
        /\ Chain[b] = Chain[Parent[b]] \cup {b}
  BY BlockAssumption, AgreementAssumption

(* Induction along chains: a set of blocks without genesis has a member     *)
(* whose parent is outside.                                                 *)
LEMMA Descent ==
    ASSUME NEW S \in SUBSET Block, S # {}, Genesis \notin S
    PROVE  \E b \in S : b # Genesis /\ Parent[b] \in Block \ S
  <1>1. PICK b \in S : \A d \in S : Number[b] <= Number[d]
    BY LowestBlock
  <1>2. Number[Parent[b]] < Number[b] /\ Parent[b] \in Block
    BY ParentBelow
  <1>3. ~(Number[b] <= Number[Parent[b]])
    BY <1>2, BlockAssumption
  <1> QED
    BY <1>1, <1>2, <1>3

(* The grandparent of a block is an ancestor (genesis is its own parent).   *)
LEMMA GrandparentInChain ==
    \A y \in Block \ {Genesis} : Parent[Parent[y]] \in Chain[y]
  <1> SUFFICES ASSUME NEW y \in Block \ {Genesis} PROVE Parent[Parent[y]] \in Chain[y]
    OBVIOUS
  <1>1. Parent[y] \in Block /\ Chain[y] = Chain[Parent[y]] \cup {y}
    BY ParentBelow
  <1>2. \A z \in Block : z \in Chain[z]
    BY AgreementAssumption
  <1>3. CASE Parent[y] = Genesis
    BY <1>1, <1>2, <1>3, BlockAssumption
  <1>4. CASE Parent[y] # Genesis
    <2>1. /\ Parent[Parent[y]] \in Block
          /\ Chain[Parent[y]] = Chain[Parent[Parent[y]]] \cup {Parent[y]}
      BY <1>1, <1>4, ParentBelow
    <2> QED
      BY <1>1, <1>2, <2>1
  <1> QED
    BY <1>3, <1>4

(* An ancestor is lower than its descendant.                                *)
LEMMA ChainNumber ==
    ASSUME NEW z \in Block, NEW y \in Chain[z]
    PROVE  y \in Block /\ Number[y] <= Number[z] /\ (Number[y] = Number[z] => y = z)
  <1> DEFINE Ok(b) == \A d \in Chain[b] :
                         Number[d] <= Number[b] /\ (Number[d] = Number[b] => d = b)
             S == {b \in Block : ~Ok(b)}
  <1>1. ASSUME S # {} PROVE FALSE
    <2>1. Ok(Genesis)
      BY BlockAssumption, AgreementAssumption
    <2>2. PICK b \in S : b # Genesis /\ Parent[b] \in Block \ S
      BY <1>1, <2>1, Descent
    <2>3. b # Genesis /\ b \in Block /\ Ok(Parent[b])
      BY <2>2
    <2>4. Parent[b] \in Block /\ Chain[Parent[b]] \subseteq Block
      BY <2>3, ParentBelow, AgreementAssumption
    <2>5. Ok(b)
      BY <2>3, <2>4, ParentBelow, BlockAssumption
    <2> QED
      BY <2>2, <2>5
  <1> QED
    BY <1>1, AgreementAssumption

(* A chain has one block of each height.                                    *)
LEMMA ChainLinear ==
    ASSUME NEW z \in Block, NEW u \in Chain[z], NEW w \in Chain[z],
           Number[u] = Number[w]
    PROVE  u = w
  <1> DEFINE Ok(b) == \A d, e \in Chain[b] : Number[d] = Number[e] => d = e
             S == {b \in Block : ~Ok(b)}
  <1>1. ASSUME S # {} PROVE FALSE
    <2>1. Ok(Genesis)
      BY BlockAssumption, AgreementAssumption
    <2>2. PICK b \in S : b # Genesis /\ Parent[b] \in Block \ S
      BY <1>1, <2>1, Descent
    <2>3. b # Genesis /\ b \in Block /\ Ok(Parent[b])
      BY <2>2
    <2>4. \A d \in Chain[Parent[b]] : d \in Block /\ Number[d] <= Number[Parent[b]]
      BY <2>3, ParentBelow, ChainNumber
    <2>5. \A d \in Chain[Parent[b]] : Number[d] # Number[b]
      BY <2>3, <2>4, ParentBelow, BlockAssumption
    <2>6. Ok(b)
      BY <2>3, <2>5, ParentBelow
    <2> QED
      BY <2>2, <2>6
  <1> QED
    BY <1>1

(* The chain of an ancestor is part of the chain.                           *)
LEMMA ChainSubset ==
    ASSUME NEW z \in Block, NEW y \in Chain[z]
    PROVE  Chain[y] \subseteq Chain[z]
  <1> DEFINE Ok(b) == \A d \in Chain[b] : Chain[d] \subseteq Chain[b]
             S == {b \in Block : ~Ok(b)}
  <1>1. ASSUME S # {} PROVE FALSE
    <2>1. Ok(Genesis)
      BY BlockAssumption, AgreementAssumption
    <2>2. PICK b \in S : b # Genesis /\ Parent[b] \in Block \ S
      BY <1>1, <2>1, Descent
    <2>3. b # Genesis /\ b \in Block /\ Ok(Parent[b])
      BY <2>2
    <2>4. Ok(b)
      BY <2>3, ParentBelow
    <2> QED
      BY <2>2, <2>4
  <1> QED
    BY <1>1
-----------------------------------------------------------------------------
(* The inductive invariant *)

(* Signatures are never taken back, so what they certify or justify stays   *)
(* certified and justified.                                                 *)
Grows ==
    /\ proposals \subseteq proposals'
    /\ \A n \in Validator : /\ votes[n] \subseteq votes'[n] /\ changes[n] \subseteq changes'[n]
                            /\ known[n] \subseteq known'[n]

\* A step only adds to what has been signed and taken in.
LEMMA NextGrows ==
    ASSUME TypeOK, [Next]_vars
    PROVE  Grows
  <1>1. ASSUME NEW n \in Validator, NEW b \in Block, Vote(n, b) PROVE Grows
    BY <1>1 DEF TypeOK, Vote, Grows
  <1>2. ASSUME NEW n \in Validator, NEW v \in ChangeView, NEW m \in known[n],
               Change(n, v, m)
        PROVE  Grows
    BY <1>2 DEF TypeOK, Change, Grows
  <1>3. ASSUME NEW n \in Validator, NEW b \in Block, Propose(n, b) PROVE Grows
    BY <1>3 DEF Propose, Grows
  <1>4. ASSUME NEW n \in Validator, NEW b \in Block, Insert(n, b) PROVE Grows
    BY <1>4 DEF TypeOK, Insert, Grows
  <1>5. CASE UNCHANGED vars
    BY <1>5 DEF vars, Grows
  <1> QED
    BY <1>1, <1>2, <1>3, <1>4, <1>5 DEF Next

\* A certificate, once there, stays.
LEMMA StaysCertified ==
    ASSUME Grows, NEW b, Certified(b)
    PROVE  Certified(b)'
  BY AgreementAssumption DEF Grows, Certified

\* So does the justification of a proposal.
LEMMA StaysJustified ==
    ASSUME Grows, NEW b, Justified(b)
    PROVE  Justified(b)'
  <1>1. \A v, m : HasViewChangeQC(v, m) => HasViewChangeQC(v, m)'
    <2> SUFFICES ASSUME NEW v, NEW m, HasViewChangeQC(v, m)
                 PROVE  HasViewChangeQC(v, m)'
      OBVIOUS
    <2>1. PICK Q \in Quorum : \A n \in Q : \E c \in changes[n] :
             c.number = v /\ ~HigherQuorumCert(c.block, m)
      BY DEF HasViewChangeQC
    <2>2. \A n \in Q : changes[n] \subseteq changes'[n]
      BY AgreementAssumption DEF Grows
    <2>3. \A n \in Q : \E c \in changes'[n] :
             c.number = v /\ ~HigherQuorumCert(c.block, m)
      BY <2>1, <2>2
    <2>4. Certified(m)'
      BY StaysCertified DEF HasViewChangeQC
    <2> QED
      BY <2>3, <2>4 DEF HasViewChangeQC, HigherQuorumCert, HigherBlockView
  <1>2. CertifiedBlocks \subseteq CertifiedBlocks'
    BY StaysCertified DEF CertifiedBlocks
  <1> QED
    BY <1>1, <1>2 DEF Justified, HigherQuorumCert, HigherBlockView

IInv == TypeOK /\ Evidence /\ ProposalsJustified

\* Nothing is signed at the start.
LEMMA InitIInv == Init => IInv
  BY BlockAssumption DEF Init, IInv, TypeOK, Evidence, ProposalsJustified, Certified

\* What a step must show when it leaves the signatures of the others alone.
LEMMA KeepsJustified ==
    ASSUME IInv, Grows, \A b \in proposals' \ proposals : BlockIndex[b] < Amount /\ Justified(b)
    PROVE  ProposalsJustified'
  BY StaysJustified DEF IInv, ProposalsJustified

\* What OnSeal builds on justifies the proposal.
LEMMA ProposesJustified ==
    ASSUME IInv, NEW n \in Validator, NEW b \in Block, Propose(n, b)
    PROVE  Justified(b)
  <1> DEFINE p == Parent[b]
             v == ViewNumber[b]
  <1>1. /\ BlockIndex[b] \in Nat /\ v \in Nat /\ p \in Block
        /\ \A y \in Block : ViewNumber[y] \in Nat
    BY BlockAssumption, AgreementAssumption
  <1>2. CASE BlockIndex[b] > 0
    <2>1. p # Genesis
      BY <1>2 DEF Propose, IInv, TypeOK
    <2> QED
      BY <1>2, <2>1 DEF Propose, Justified
  <1>3. CASE BlockIndex[b] = 0
    <2>1. /\ \A y \in known[n] \ {Genesis} : ViewNumber[y] < v
          /\ Base(n, v, p)
      BY <1>1, <1>3 DEF Propose
    <2>2. known[n] \subseteq CertifiedBlocks
      BY DEF IInv, TypeOK, Evidence, CertifiedBlocks
    <2>3. CASE v = 0
      <3>1. IsHighest(n, p)
        BY <2>1, <2>3 DEF Base
      <3>2. p = Genesis
        BY <1>1, <2>1, <2>3, <3>1 DEF IsHighest
      <3> QED
        BY <1>3, <2>3, <3>2 DEF Justified
    <2>4. CASE v # 0
      <3> SUFFICES \/ HasViewChangeQC(v - 1, p)
                   \/ /\ p # Genesis /\ ViewNumber[p] < v /\ BlockIndex[p] + 1 = Amount
                      /\ \E l \in CertifiedBlocks \ {Genesis} :
                            /\ ViewNumber[l] + 1 = v /\ BlockIndex[l] + 1 = Amount
                            /\ ~HigherQuorumCert(l, p)
                   \/ p = Genesis
        BY <1>3, <2>4 DEF Justified
      <3>1. CASE HoldsLast(n, v - 1) /\ IsHighest(n, p) /\ BlockIndex[p] + 1 = Amount
        <4>1. PICK l \in known[n] \ {Genesis} :
                 ViewNumber[l] = v - 1 /\ BlockIndex[l] + 1 = Amount
          BY <3>1 DEF HoldsLast
        <4>2. ~HigherQuorumCert(l, p) /\ l \in CertifiedBlocks \ {Genesis} /\ p \in known[n]
          BY <2>2, <3>1, <4>1 DEF IsHighest
        <4>3. ViewNumber[l] + 1 = v
          BY <1>1, <4>1
        <4> QED
          BY <2>1, <3>1, <4>1, <4>2, <4>3
      <3> QED
        BY <1>1, <2>1, <2>4, <3>1 DEF Base
    <2> QED
      BY <2>3, <2>4
  <1> QED
    BY <1>1, <1>2, <1>3

\* Proposing keeps the invariant.
LEMMA ProposeStep ==
    ASSUME IInv, NEW n \in Validator, NEW b \in Block, Propose(n, b)
    PROVE  IInv'
  <1>1. TypeOK'
    BY DEF IInv, Propose, TypeOK
  <1>2. Grows
    BY NextGrows DEF Next, IInv
  <1>3. ProposalsJustified'
    BY <1>2, ProposesJustified, KeepsJustified DEF Propose
  <1>4. Evidence'
    BY <1>2, StaysCertified DEF IInv, Evidence, Propose, Grows, SameSlot, HigherQuorumCert,
                               HigherBlockView
  <1> QED
    BY <1>1, <1>3, <1>4 DEF IInv

\* Taking in a certificate keeps the invariant.
LEMMA InsertStep ==
    ASSUME IInv, NEW n \in Validator, NEW b \in Block, Insert(n, b)
    PROVE  IInv'
  <1> USE DEF IInv
  <1>1. TypeOK'
    BY DEF Insert, TypeOK
  <1>2. Grows
    BY NextGrows DEF Next
  <1>3. /\ known'[n] = known[n] \cup {b}
        /\ votes' = votes /\ changes' = changes /\ proposals' = proposals
        /\ \A k \in Validator \ {n} : known'[k] = known[k]
    BY DEF Insert, TypeOK
  <1>4. ProposalsJustified'
    BY <1>2, <1>3, KeepsJustified
  <1>5. ASSUME NEW k \in Validator, NEW d \in votes'[k], NEW q \in known'[k] \ {Genesis},
               ViewNumber[q] > ViewNumber[d]
        PROVE  Number[q] >= Number[Parent[d]]
    <2>1. CASE q \in known[k]
      BY <1>3, <1>5, <2>1 DEF Evidence
    <2>2. CASE q \notin known[k]
      <3>1. k = n /\ q = b /\ Parent[d] \in known[n]
        BY <1>3, <2>2 DEF Evidence
      <3>2. Number[Parent[d]] <= Number[b] /\ Parent[d] \in Block
        BY <3>1 DEF Insert, TypeOK
      <3> QED
        BY <3>1, <3>2, BlockAssumption
    <2> QED
      BY <2>1, <2>2
  <1>6. ASSUME NEW k \in Validator
        PROVE  /\ \A d, e \in votes'[k] : SameSlot(d, e) => d = e
               /\ \A c \in changes'[k], d \in votes'[k] :
                     ViewNumber[d] <= c.number => ~HigherQuorumCert(Parent[d], c.block)
               /\ \A d \in votes'[k] : d \in proposals' /\ Parent[d] \in known'[k]
    BY <1>2, <1>3 DEF Evidence, Grows
  <1>7. ASSUME NEW k \in Validator, NEW d \in known'[k] PROVE Certified(d)'
    <2>1. Certified(d)
      BY <1>3 DEF Evidence, Insert
    <2> QED
      BY <1>2, <2>1, StaysCertified
  <1> QED
    BY <1>1, <1>4, <1>5, <1>6, <1>7 DEF Evidence, SameSlot, HigherQuorumCert, HigherBlockView

\* Signing a PrepareVote keeps the invariant.
LEMMA VoteStep ==
    ASSUME IInv, NEW n \in Validator, NEW b \in Block, Vote(n, b)
    PROVE  IInv'
  <1> USE DEF IInv
  <1>1. TypeOK'
    BY DEF Vote, TypeOK
  <1>2. Grows
    BY NextGrows DEF Next
  <1>3. /\ votes'[n] = votes[n] \cup {b}
        /\ changes' = changes /\ known' = known /\ proposals' = proposals
        /\ \A k \in Validator \ {n} : votes'[k] = votes[k]
    BY DEF Vote, TypeOK
  <1>4. ProposalsJustified'
    BY <1>2, <1>3, KeepsJustified
  <1>5. ASSUME NEW k \in Validator, NEW d \in votes'[k], NEW e \in votes'[k], SameSlot(d, e)
        PROVE  d = e
    <2>1. CASE k = n
      BY <1>3, <1>5, <2>1 DEF Evidence, Vote, CanVote, SameSlot
    <2>2. CASE k # n
      BY <1>3, <1>5, <2>2 DEF Evidence
    <2> QED
      BY <2>1, <2>2
  <1>6. ASSUME NEW k \in Validator, NEW c \in changes'[k], NEW d \in votes'[k],
               ViewNumber[d] <= c.number
        PROVE  ~HigherQuorumCert(Parent[d], c.block)
    <2>1. CASE d \in votes[k]
      BY <1>3, <1>6, <2>1 DEF Evidence
    <2>2. CASE d \notin votes[k]
      <3>1. k = n /\ d = b /\ c \in changes[n]
        BY <1>3, <1>6, <2>2
      <3>2. Before(c.epoch, c.number, Epoch[b], ViewNumber[b]) /\ b # Genesis
        BY <3>1 DEF Vote, CanVote, TypeOK
      <3>3. c.epoch = 1 /\ c.number \in Nat /\ Epoch[b] = 1 /\ ViewNumber[b] \in Nat
        BY <3>1, <3>2, BlockAssumption, AgreementAssumption DEF TypeOK
      <3> QED
        BY <1>6, <3>1, <3>2, <3>3 DEF Before
    <2> QED
      BY <2>1, <2>2
  <1>7. ASSUME NEW k \in Validator, NEW d \in votes'[k]
        PROVE  d \in proposals' /\ Parent[d] \in known'[k]
    BY <1>3 DEF Evidence, Vote
  <1>8. ASSUME NEW k \in Validator, NEW d \in votes'[k], NEW q \in known'[k] \ {Genesis},
               ViewNumber[q] > ViewNumber[d]
        PROVE  Number[q] >= Number[Parent[d]]
    <2>1. CASE d \in votes[k]
      BY <1>3, <1>8, <2>1 DEF Evidence
    <2>2. CASE d \notin votes[k]
      <3>1. k = n /\ d = b /\ q \in known[n] \ {Genesis} /\ q \in Block
        BY <1>3, <2>2 DEF TypeOK
      <3>2. ViewNumber[q] <= ViewNumber[b]
        BY <3>1 DEF Vote
      <3> QED
        BY <1>8, <3>1, <3>2, BlockAssumption
    <2> QED
      BY <2>1, <2>2
  <1>9. ASSUME NEW k \in Validator, NEW d \in known'[k] PROVE Certified(d)'
    BY <1>2, <1>3, StaysCertified DEF Evidence
  <1> QED
    BY <1>1, <1>4, <1>5, <1>6, <1>7, <1>8, <1>9 DEF Evidence

\* Signing a ViewChange keeps the invariant.
LEMMA ChangeStep ==
    ASSUME IInv, NEW n \in Validator, NEW v \in ChangeView, NEW m \in known[n],
           Change(n, v, m)
    PROVE  IInv'
  <1> USE DEF IInv
  <1> DEFINE e == [epoch |-> 1, number |-> v, block |-> m]
  <1>1. TypeOK'
    BY AgreementAssumption DEF Change, TypeOK
  <1>2. Grows
    BY NextGrows DEF Next
  <1>3. /\ changes'[n] = changes[n] \cup {e}
        /\ votes' = votes /\ known' = known /\ proposals' = proposals
        /\ \A k \in Validator \ {n} : changes'[k] = changes[k]
    BY DEF Change, TypeOK
  <1>4. ProposalsJustified'
    BY <1>2, <1>3, KeepsJustified
  <1>5. ASSUME NEW k \in Validator, NEW c \in changes'[k], NEW d \in votes'[k],
               ViewNumber[d] <= c.number
        PROVE  ~HigherQuorumCert(Parent[d], c.block)
    <2>1. CASE c \in changes[k]
      BY <1>3, <1>5, <2>1 DEF Evidence
    <2>2. CASE c \notin changes[k]
      <3>1. k = n /\ c = e /\ d \in votes[n]
        BY <1>3, <1>5, <2>2
      <3> QED
        BY <3>1 DEF Change, CanChange
    <2> QED
      BY <2>1, <2>2
  <1>6. ASSUME NEW k \in Validator
        PROVE  /\ \A d, f \in votes'[k] : SameSlot(d, f) => d = f
               /\ \A d \in votes'[k] : d \in proposals' /\ Parent[d] \in known'[k]
               /\ \A d \in votes'[k], q \in known'[k] \ {Genesis} :
                     ViewNumber[q] > ViewNumber[d] => Number[q] >= Number[Parent[d]]
    BY <1>3 DEF Evidence
  <1>7. ASSUME NEW k \in Validator, NEW d \in known'[k] PROVE Certified(d)'
    BY <1>2, <1>3, StaysCertified DEF Evidence
  <1> QED
    BY <1>1, <1>4, <1>5, <1>6, <1>7 DEF Evidence

(* The signatures always keep to the rules, and what is proposed to what    *)
(* OnSeal may build on.                                                     *)
THEOREM EvidenceInvariant == Spec => []IInv
  <1>1. IInv /\ [Next]_vars => IInv'
    <2> SUFFICES ASSUME IInv, [Next]_vars PROVE IInv'
      OBVIOUS
    <2>1. CASE UNCHANGED vars
      BY <2>1 DEF vars, IInv, TypeOK, Evidence, ProposalsJustified, Certified,
                  CertifiedBlocks, Justified, HasViewChangeQC
    <2>2. CASE Next
      BY <2>2, ProposeStep, InsertStep, VoteStep, ChangeStep DEF Next
    <2> QED
      BY <2>1, <2>2
  <1> QED
    BY <1>1, InitIInv, PTL DEF Spec

-----------------------------------------------------------------------------
(* What the rules give *)

(* The facts about certified blocks that the rest needs: a certified block  *)
(* was voted for and proposed, and its parent is certified.                 *)
LEMMA CertifiedVoted ==
    ASSUME IInv, NEW b \in Block \ {Genesis}, Certified(b)
    PROVE  /\ \E n \in Validator : b \in votes[n]
           /\ BlockIndex[b] \in Nat /\ BlockIndex[b] < Amount
           /\ Certified(Parent[b]) /\ Justified(b)
  <1>1. PICK Q \in Quorum : \A n \in Q : b \in votes[n]
    BY DEF Certified
  <1>2. PICK n \in Validator : b \in votes[n]
    BY <1>1, AgreementAssumption
  <1>3. b \in proposals /\ Certified(Parent[b])
    BY <1>2 DEF IInv, Evidence
  <1> QED
    BY <1>2, <1>3, AgreementAssumption DEF IInv, ProposalsJustified

(* A validator that voted for y takes no certificate of a later view below  *)
(* the parent of y into its tree, and only votes on what is in its tree.    *)
LEMMA LaterHeld ==
    ASSUME IInv, NEW y \in CertifiedBlocks \ {Genesis}, NEW z \in CertifiedBlocks \ {Genesis},
           Parent[z] # Genesis, ViewNumber[Parent[z]] > ViewNumber[y]
    PROVE  Number[Parent[z]] >= Number[Parent[y]]
  <1>1. PICK Q \in Quorum : \A n \in Q : y \in votes[n]
    BY DEF Certified, CertifiedBlocks
  <1>2. PICK R \in Quorum : \A n \in R : z \in votes[n]
    BY DEF Certified, CertifiedBlocks
  <1>3. PICK n \in Validator : n \in Q \cap R
    BY AgreementAssumption
  <1>4. y \in votes[n] /\ Parent[z] \in known[n] \ {Genesis}
    BY <1>1, <1>2, <1>3 DEF IInv, Evidence
  <1> QED
    BY <1>4 DEF IInv, Evidence

\* One certificate per view and index, from the invariant.
LEMMA OneCertificateHolds == IInv => OneCertificate
  <1> SUFFICES ASSUME IInv, NEW b \in CertifiedBlocks \ {Genesis},
                      NEW d \in CertifiedBlocks \ {Genesis},
                      ViewNumber[b] = ViewNumber[d], BlockIndex[b] = BlockIndex[d]
               PROVE  b = d
    BY DEF OneCertificate
  <1>1. PICK Q \in Quorum : \A n \in Q : b \in votes[n]
    BY DEF Certified, CertifiedBlocks
  <1>2. PICK R \in Quorum : \A n \in R : d \in votes[n]
    BY DEF Certified, CertifiedBlocks
  <1>3. PICK n \in Validator : n \in Q \cap R
    BY AgreementAssumption
  <1>4. SameSlot(b, d)
    BY AgreementAssumption DEF SameSlot, CertifiedBlocks
  <1> QED
    BY <1>1, <1>2, <1>3, <1>4 DEF IInv, Evidence

(* Of two certified blocks of one view the earlier is an ancestor.          *)
LEMMA SameView ==
    ASSUME IInv, NEW y \in CertifiedBlocks \ {Genesis}, NEW z \in CertifiedBlocks \ {Genesis},
           ViewNumber[y] = ViewNumber[z], BlockIndex[y] <= BlockIndex[z]
    PROVE  y \in Chain[z]
  <1> DEFINE S == {b \in CertifiedBlocks \ {Genesis} :
                      /\ ViewNumber[b] = ViewNumber[y] /\ BlockIndex[y] <= BlockIndex[b]
                      /\ y \notin Chain[b]}
  <1>1. ASSUME S # {} PROVE FALSE
    <2>1. PICK b \in S : b # Genesis /\ Parent[b] \in Block \ S
      BY <1>1, Descent DEF CertifiedBlocks
    <2>2. b \in Block \ {Genesis} /\ Certified(b)
      BY <2>1 DEF CertifiedBlocks
    <2>3. b # y
      BY <2>1, <2>2, ParentBelow
    <2>4. BlockIndex[b] # BlockIndex[y]
      BY <2>1, <2>2, <2>3, OneCertificateHolds DEF OneCertificate
    <2>5. BlockIndex[b] \in Nat /\ BlockIndex[y] \in Nat /\ BlockIndex[Parent[b]] \in Nat
      BY <2>1, <2>2, AgreementAssumption DEF CertifiedBlocks
    <2>6. BlockIndex[b] > 0
      BY <2>1, <2>4, <2>5
    <2>7. /\ Parent[b] # Genesis /\ ViewNumber[Parent[b]] = ViewNumber[b]
          /\ BlockIndex[Parent[b]] + 1 = BlockIndex[b]
          /\ Certified(Parent[b])
      BY <2>2, <2>6, CertifiedVoted DEF Justified
    <2>8. BlockIndex[y] <= BlockIndex[Parent[b]]
      BY <2>1, <2>4, <2>5, <2>7
    <2>9. y \in Chain[Parent[b]]
      BY <2>1, <2>7, <2>8 DEF CertifiedBlocks
    <2> QED
      BY <2>1, <2>2, <2>9, ParentBelow
  <1> QED
    BY <1>1

(* The max block of a ViewChangeQC is not below the parent of a certified   *)
(* block of its view or of an earlier one: the two quorums share a correct  *)
(* validator, which voted for the one and reported no less in the other.    *)
LEMMA ViewChangeCovers ==
    ASSUME IInv, NEW y \in CertifiedBlocks \ {Genesis}, NEW v \in Nat, NEW m \in Block,
           HasViewChangeQC(v, m), ViewNumber[y] <= v
    PROVE  ~HigherQuorumCert(Parent[y], m)
  <1>1. PICK Q \in Quorum : \A n \in Q : y \in votes[n]
    BY DEF Certified, CertifiedBlocks
  <1>2. PICK R \in Quorum : \A n \in R : \E c \in changes[n] :
           c.number = v /\ ~HigherQuorumCert(c.block, m)
    BY DEF HasViewChangeQC
  <1>3. PICK n \in Validator : n \in Q \cap R
    BY AgreementAssumption
  <1>4. PICK c \in changes[n] : c.number = v /\ ~HigherQuorumCert(c.block, m)
    BY <1>2, <1>3
  <1>5. ~HigherQuorumCert(Parent[y], c.block)
    BY <1>1, <1>3, <1>4 DEF IInv, Evidence
  <1>6. c.block \in Block /\ Parent[y] \in Block
    BY <1>3, BlockAssumption DEF IInv, TypeOK, CertifiedBlocks
  <1> QED
    BY <1>4, <1>5, <1>6, BlockAssumption DEF HigherQuorumCert, HigherBlockView

(* A first block that needs no ViewChangeQC is on the last block of the     *)
(* view before: a last block of an earlier view would be below the          *)
(* certified last block of the view before.                                 *)
LEMMA OnLast ==
    ASSUME IInv, NEW v \in Nat, NEW p \in CertifiedBlocks \ {Genesis}, ViewNumber[p] < v,
           NEW l \in CertifiedBlocks \ {Genesis}, ViewNumber[l] + 1 = v,
           BlockIndex[l] + 1 = Amount, ~HigherQuorumCert(l, p)
    PROVE  ViewNumber[p] + 1 = v
  <1>1. /\ p \in Block \ {Genesis} /\ l \in Block \ {Genesis} /\ Certified(l)
        /\ ViewNumber[p] \in Nat /\ ViewNumber[l] \in Nat /\ BlockIndex[l] \in Nat
        /\ Epoch[p] = 1 /\ Epoch[l] = 1
    BY BlockAssumption, AgreementAssumption DEF CertifiedBlocks
  <1>2. BlockIndex[l] > 0
    BY <1>1, AgreementAssumption
  <1>3. Parent[l] # Genesis /\ ViewNumber[Parent[l]] = ViewNumber[l]
    BY <1>1, <1>2, CertifiedVoted DEF Justified
  <1>4. ASSUME ViewNumber[p] < ViewNumber[l] PROVE FALSE
    <2>1. Number[Parent[l]] >= Number[Parent[p]]
      BY <1>1, <1>3, <1>4, LaterHeld
    <2>2. /\ Number[l] = Number[Parent[l]] + 1 /\ Number[p] = Number[Parent[p]] + 1
          /\ Number[Parent[l]] \in Nat /\ Number[Parent[p]] \in Nat
      BY <1>1, ParentBelow
    <2>3. Number[l] >= Number[p]
      BY <2>1, <2>2
    <2> QED
      BY <1>1, <1>4, <2>2, <2>3 DEF HigherQuorumCert, HigherBlockView
  <1> QED
    BY <1>1, <1>4

(* How the parent of a certified block of a later view relates to a         *)
(* certified block y, unless it is genesis: it is itself of a later view,   *)
(* or the last block of y's view, or covers y.                              *)
LEMMA LaterParent ==
    ASSUME IInv, NEW y \in CertifiedBlocks \ {Genesis}, NEW z \in CertifiedBlocks \ {Genesis},
           ViewNumber[y] < ViewNumber[z], Parent[z] # Genesis
    PROVE  /\ Parent[z] \in CertifiedBlocks
           /\ \/ ViewNumber[Parent[z]] > ViewNumber[y]
              \/ y \in Chain[Parent[z]]
              \/ ~HigherQuorumCert(Parent[y], Parent[z])
  <1> DEFINE p == Parent[z]
  <1>1. y \in Block \ {Genesis} /\ z \in Block \ {Genesis} /\ Certified(y) /\ Certified(z)
    BY DEF CertifiedBlocks
  <1>2. /\ p \in CertifiedBlocks \ {Genesis} /\ Justified(z)
        /\ BlockIndex[y] \in Nat /\ BlockIndex[y] < Amount
        /\ BlockIndex[z] \in Nat
    BY <1>1, CertifiedVoted, BlockAssumption DEF CertifiedBlocks
  <1>3. ViewNumber[y] \in Nat /\ ViewNumber[z] \in Nat /\ ViewNumber[p] \in Nat
    BY <1>1, BlockAssumption
  <1>4. CASE BlockIndex[z] > 0
    BY <1>2, <1>3, <1>4 DEF Justified
  <1>5. CASE BlockIndex[z] = 0
    <2>1. ViewNumber[z] > 0
      BY <1>3
    <2>2. \/ HasViewChangeQC(ViewNumber[z] - 1, p)
          \/ /\ ViewNumber[p] < ViewNumber[z] /\ BlockIndex[p] + 1 = Amount
             /\ \E l \in CertifiedBlocks \ {Genesis} :
                   /\ ViewNumber[l] + 1 = ViewNumber[z] /\ BlockIndex[l] + 1 = Amount
                   /\ ~HigherQuorumCert(l, p)
      BY <1>2, <1>5, <2>1 DEF Justified
    <2>3. CASE /\ ViewNumber[p] < ViewNumber[z] /\ BlockIndex[p] + 1 = Amount
               /\ \E l \in CertifiedBlocks \ {Genesis} :
                     /\ ViewNumber[l] + 1 = ViewNumber[z] /\ BlockIndex[l] + 1 = Amount
                     /\ ~HigherQuorumCert(l, p)
      <3>1. BlockIndex[p] \in Nat /\ ViewNumber[p] + 1 = ViewNumber[z]
        BY <1>2, <1>3, <2>3, OnLast, AgreementAssumption DEF CertifiedBlocks
      <3>2. CASE ViewNumber[p] = ViewNumber[y]
        <4>1. BlockIndex[y] <= BlockIndex[p]
          BY <1>2, <2>3, <3>1, AgreementAssumption
        <4>2. y \in Chain[p]
          BY <1>2, <3>2, <4>1, SameView
        <4> QED
          BY <1>2, <4>2
      <3>3. CASE ViewNumber[p] # ViewNumber[y]
        <4>1. ViewNumber[p] > ViewNumber[y]
          BY <1>3, <3>1, <3>3
        <4> QED
          BY <1>2, <4>1
      <3> QED
        BY <3>2, <3>3
    <2>4. CASE HasViewChangeQC(ViewNumber[z] - 1, p)
      <3>1. ViewNumber[z] - 1 \in Nat /\ ViewNumber[y] <= ViewNumber[z] - 1
        BY <1>3, <2>1
      <3>2. p \in Block
        BY <1>2 DEF CertifiedBlocks
      <3>3. ~HigherQuorumCert(Parent[y], p)
        BY <2>4, <3>1, <3>2, ViewChangeCovers
      <3> QED
        BY <1>2, <3>3
    <2> QED
      BY <2>2, <2>3, <2>4
  <1> QED
    BY <1>2, <1>4, <1>5

(* A certified block is not lower than one of an earlier view, unless it is *)
(* block 1.                                                                 *)
LEMMA Rising ==
    ASSUME IInv, NEW y \in CertifiedBlocks \ {Genesis}, NEW z \in CertifiedBlocks \ {Genesis},
           ViewNumber[y] < ViewNumber[z], Parent[z] # Genesis
    PROVE  Number[y] <= Number[z]
  <1>1. y \in Block \ {Genesis} /\ z \in Block \ {Genesis} /\ Parent[z] \in Block
    BY BlockAssumption DEF CertifiedBlocks
  <1>2. /\ Number[z] = Number[Parent[z]] + 1 /\ Number[y] = Number[Parent[y]] + 1
        /\ Number[y] \in Nat /\ Number[Parent[z]] \in Nat /\ Number[Parent[y]] \in Nat
    BY <1>1, ParentBelow
  <1>3. CASE ViewNumber[Parent[z]] > ViewNumber[y]
    BY <1>2, <1>3, LaterHeld
  <1>4. CASE y \in Chain[Parent[z]]
    <2>1. Number[y] <= Number[Parent[z]]
      BY <1>1, <1>4, ChainNumber
    <2> QED
      BY <1>2, <2>1
  <1>5. CASE ~HigherQuorumCert(Parent[y], Parent[z])
    BY <1>2, <1>5 DEF HigherQuorumCert
  <1> QED
    BY <1>3, <1>4, <1>5, LaterParent

(* A certified block that is not below the parent of a close commit, in the *)
(* order of certificates, and not of a later view, descends from the block  *)
(* that is committed.                                                       *)
LEMMA CoverDescends ==
    ASSUME IInv, NEW b \in CertifiedBlocks \ {Genesis}, Close(b),
           NEW m \in CertifiedBlocks, ViewNumber[m] <= ViewNumber[b],
           ~HigherQuorumCert(Parent[b], m)
    PROVE  Parent[Parent[b]] \in Chain[m] /\ Number[m] >= Number[Parent[b]]
  <1> DEFINE p == Parent[b]
             g == Parent[p]
  <1>1. /\ b \in Block \ {Genesis} /\ p \in Block \ {Genesis} /\ g \in Block
        /\ Number[b] = Number[p] + 1 /\ Number[p] > 1 /\ Number[p] \in Nat
    <2>1. b \in Block \ {Genesis} /\ Number[b] > 2
      BY DEF CertifiedBlocks, Close
    <2>2. p \in Block /\ Number[b] = Number[p] + 1 /\ Number[p] \in Nat
      BY <2>1, ParentBelow
    <2>3. Number[p] > 1
      BY <2>1, <2>2
    <2>4. p # Genesis
      BY <2>3, BlockAssumption
    <2> QED
      BY <2>1, <2>2, <2>3, <2>4, ParentBelow
  <1>2. Number[m] \in Nat /\ Number[m] >= Number[p]
    BY <1>1, BlockAssumption DEF CertifiedBlocks, HigherQuorumCert
  <1>3. m \in Block \ {Genesis} /\ m \in CertifiedBlocks \ {Genesis}
    BY <1>1, <1>2, BlockAssumption DEF CertifiedBlocks
  <1>4. p \in CertifiedBlocks \ {Genesis}
    <2>1. Certified(p)
      BY <1>1, CertifiedVoted DEF CertifiedBlocks
    <2> QED
      BY <1>1, <2>1 DEF CertifiedBlocks
  <1>5. /\ g \in Chain[p] /\ g \in Chain[b]
        /\ Chain[b] = Chain[p] \cup {b} /\ Chain[p] \subseteq Chain[b]
    <2>1. g \in Chain[g]
      BY <1>1, ParentBelow, AgreementAssumption
    <2> QED
      BY <1>1, <2>1, ParentBelow
  <1>6. /\ BlockIndex[m] \in Nat /\ BlockIndex[b] \in Nat /\ BlockIndex[p] \in Nat
        /\ ViewNumber[m] \in Nat /\ ViewNumber[b] \in Nat /\ ViewNumber[p] \in Nat
    BY <1>1, <1>3, BlockAssumption, AgreementAssumption
  <1>7. \A d \in Chain[b] : Number[d] >= Number[p] => d \in {p, b}
    <2> SUFFICES ASSUME NEW d \in Chain[p], Number[d] >= Number[p] PROVE d = p
      BY <1>5
    <2> QED
      BY <1>1, ChainNumber, BlockAssumption
  <1>8. CASE ViewNumber[m] = ViewNumber[b]
    <2>1. m \in Chain[b] \/ b \in Chain[m]
      BY <1>3, <1>6, <1>8, SameView
    <2>2. CASE m \in Chain[b]
      BY <1>2, <1>5, <1>7, <2>2
    <2>3. CASE b \in Chain[m]
      BY <1>2, <1>3, <1>5, <2>3, ChainSubset
    <2> QED
      BY <2>1, <2>2, <2>3
  <1>9. CASE ViewNumber[m] = ViewNumber[p]
    <2>1. m \in Chain[p] \/ p \in Chain[m]
      BY <1>3, <1>4, <1>6, <1>9, SameView
    <2>2. CASE m \in Chain[p]
      BY <1>2, <1>5, <1>7, <2>2
    <2>3. CASE p \in Chain[m]
      BY <1>2, <1>3, <1>5, <2>3, ChainSubset
    <2> QED
      BY <2>1, <2>2, <2>3
  <1>10. CASE ViewNumber[m] # ViewNumber[b] /\ ViewNumber[m] # ViewNumber[p]
    <2>1. ViewNumber[m] < ViewNumber[p]
      BY <1>6, <1>10 DEF Close
    <2>0. Parent[p] # Genesis
      BY <1>1, ParentBelow, BlockAssumption
    <2>2. Number[m] <= Number[p]
      BY <1>3, <1>4, <2>0, <2>1, Rising
    <2>3. Number[m] = Number[p]
      BY <1>1, <1>2, <2>2
    <2>4. Epoch[m] = 1 /\ Epoch[p] = 1
      BY <1>1, <1>3, AgreementAssumption
    <2> QED
      BY <1>6, <2>1, <2>3, <2>4 DEF HigherQuorumCert, HigherBlockView
  <1> QED
    BY <1>8, <1>9, <1>10

\* Later certificates extend what a close commit committed, from the invariant.
LEMMA FinalityHolds == IInv => Finality
  <1> SUFFICES ASSUME IInv, NEW b \in CertifiedBlocks \ {Genesis}, Close(b),
                      NEW x \in CertifiedBlocks \ {Genesis},
                      ViewNumber[x] > ViewNumber[b], Number[x] > 1
               PROVE  Parent[Parent[b]] \in Chain[x]
    BY DEF Finality
  <1> DEFINE g == Parent[Parent[b]]
             S == {d \in CertifiedBlocks \ {Genesis} :
                      ViewNumber[d] > ViewNumber[b] /\ Number[d] > 1 /\ g \notin Chain[d]}
  <1>1. ASSUME S # {} PROVE FALSE
    <2>1. PICK d \in S : d # Genesis /\ Parent[d] \in Block \ S
      BY <1>1, Descent DEF CertifiedBlocks
    <2>2. /\ d \in CertifiedBlocks \ {Genesis} /\ d \in Block \ {Genesis}
          /\ ViewNumber[b] < ViewNumber[d] /\ Number[d] > 1 /\ g \notin Chain[d]
          /\ b \in Block \ {Genesis}
          /\ ViewNumber[b] \in Nat /\ ViewNumber[Parent[d]] \in Nat
      BY <2>1, BlockAssumption DEF CertifiedBlocks
    <2>3. g \notin Chain[Parent[d]]
      BY <2>2, ParentBelow
    <2>4. /\ Number[d] = Number[Parent[d]] + 1 /\ Number[Parent[d]] \in Nat
          /\ Number[Parent[b]] \in Nat /\ Number[Parent[b]] > 1
      BY <2>2, ParentBelow DEF Close
    <2>5. Parent[d] # Genesis
      BY <2>2, <2>4, BlockAssumption
    <2>6. Parent[d] \in CertifiedBlocks
      BY <2>2, <2>5, LaterParent
    <2>7. CASE ViewNumber[Parent[d]] > ViewNumber[b]
      <3>1. Number[Parent[d]] >= Number[Parent[b]]
        BY <2>2, <2>5, <2>7, LaterHeld
      <3>2. Number[Parent[d]] > 1
        BY <2>4, <3>1
      <3> QED
        BY <2>1, <2>3, <2>5, <2>6, <2>7, <3>2
    <2>8. CASE b \in Chain[Parent[d]]
      <3>1. Chain[b] \subseteq Chain[Parent[d]]
        BY <2>1, <2>8, ChainSubset
      <3>2. g \in Chain[b]
        BY <2>2, GrandparentInChain
      <3> QED
        BY <2>3, <3>1, <3>2
    <2>9. CASE /\ ViewNumber[Parent[d]] <= ViewNumber[b]
               /\ ~HigherQuorumCert(Parent[b], Parent[d])
      BY <2>3, <2>6, <2>9, CoverDescends
    <2> QED
      BY <2>2, <2>5, <2>7, <2>8, <2>9, LaterParent
  <1> QED
    BY <1>1

\* Committed blocks with the same number are the same, from the invariant.
LEMMA CommitsAgreeHolds == IInv => CommitsAgree
  <1> DEFINE B == {y \in CertifiedBlocks \ {Genesis} : Close(y)}
             G(y) == Parent[Parent[y]]
             Agree(y, z) == Number[G(y)] = Number[G(z)] => G(y) = G(z)
  <1> SUFFICES ASSUME IInv, NEW b \in B, NEW d \in B, Number[G(b)] = Number[G(d)],
                      ViewNumber[b] <= ViewNumber[d]
               PROVE  G(b) = G(d)
    <2>1. \A y, z \in B : ViewNumber[y] <= ViewNumber[z] \/ ViewNumber[z] <= ViewNumber[y]
      BY BlockAssumption DEF CertifiedBlocks
    <2>2. (\A y, z \in B : Agree(y, z)) => CommitsAgree
      BY DEF CommitsAgree
    <2>3. (IInv => \A y, z \in B : ViewNumber[y] <= ViewNumber[z] => Agree(y, z))
             => (IInv => \A y, z \in B : Agree(y, z))
      <3> HIDE DEF B, G
      <3> QED
        BY <2>1
    <2> QED
      BY <2>2, <2>3
  <1>2. /\ b \in Block \ {Genesis} /\ d \in Block \ {Genesis}
        /\ BlockIndex[b] \in Nat /\ BlockIndex[d] \in Nat
        /\ ViewNumber[b] \in Nat /\ ViewNumber[d] \in Nat
    BY BlockAssumption, AgreementAssumption DEF CertifiedBlocks
  <1>3. Parent[Parent[b]] \in Chain[b] /\ Parent[Parent[d]] \in Chain[d]
    BY <1>2, GrandparentInChain
  <1>4. CASE ViewNumber[b] < ViewNumber[d]
    <2>1. Parent[Parent[b]] \in Chain[d]
      BY <1>2, <1>4, FinalityHolds, BlockAssumption DEF Finality, Close
    <2> QED
      BY <1>2, <1>3, <2>1, ChainLinear
  <1>5. CASE ViewNumber[b] = ViewNumber[d]
    <2>1. b \in Chain[d] \/ d \in Chain[b]
      BY <1>2, <1>5, SameView
    <2>2. CASE b \in Chain[d]
      BY <1>2, <1>3, <2>2, ChainSubset, ChainLinear
    <2>3. CASE d \in Chain[b]
      BY <1>2, <1>3, <2>3, ChainSubset, ChainLinear
    <2> QED
      BY <2>1, <2>2, <2>3
  <1> QED
    BY <1>2, <1>4, <1>5

-----------------------------------------------------------------------------
(* No place of a view ever gets two certificates.                           *)
THEOREM CertificatesUnique == Spec => []OneCertificate
  BY EvidenceInvariant, OneCertificateHolds, PTL

(* What a close commit of tryCommitNewBlock commits is below every          *)
(* certificate of a later view, except one of a block 1.                    *)
THEOREM CommitsAreFinal == Spec => []Finality
  BY EvidenceInvariant, FinalityHolds, PTL

(* Close commits of any two validators agree at every height.               *)
THEOREM CommitsAgreement == Spec => []CommitsAgree
  BY EvidenceInvariant, CommitsAgreeHolds, PTL
=============================================================================

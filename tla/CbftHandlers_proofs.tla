------------------------ MODULE CbftHandlers_proofs ------------------------
(***************************************************************************)
(* The handlers of CbftNode.  Rests(s) holds between any two of them: Good *)
(* with no vote, no execution and no view change left to do.  Each handler *)
(* has a lemma that puts those of its procedures together: it preserves    *)
(* Rests, and what it signs is what Voter lets an honest validator sign.   *)
(***************************************************************************)
EXTENDS CbftProcedures_proofs

-----------------------------------------------------------------------------
(* Handlers *)

\* What Voter allows in a step that signs what t has and s has not.
VoterStep(s, t) ==
    /\ s.sent.votes \subseteq t.sent.votes /\ s.sent.changes \subseteq t.sent.changes
    /\ \A b \in t.sent.votes \ s.sent.votes :
          /\ Signer!CanVote(b, t.sent.votes, s.sent.changes)
          /\ Parent[b] \in t.tree.blocks
          /\ \A y \in t.tree.blocks \ {Genesis} :
                Signer!NotAfter(Epoch[y], ViewNumber[y], Epoch[b], ViewNumber[b])
    /\ \A c \in t.sent.changes \ s.sent.changes :
          /\ Signer!CanChange(c, t.sent.votes, s.sent.changes)
          /\ c.block \in t.tree.blocks
    /\ \A x \in t.tree.blocks \ s.tree.blocks, y \in s.tree.blocks :
          Number[y] <= Number[x]

\* Between two handlers nothing is left to do.
Rests(s) ==
    /\ Good(s) /\ VotesWait(s) /\ ExecWaits(s)
    /\ s.view.number = MaxView \/ ChangeWaits(s)

\* A whole handler.
Steps(s, t) ==
    /\ Rests(t) /\ VoterStep(s, t)
    /\ NotAfter(s.view.epoch, s.view.number, t.view.epoch, t.view.number)

\* A vote is of the current view, which no ViewChange has asked to leave; a
\* ViewChange is the first of the current view and reports the highest block.
LEMMA SignsVoter ==
    ASSUME Env, NEW s, Good(s), NEW t, Good(t), Signs(s, t)
    PROVE  VoterStep(s, t)
  <1>0. /\ s.view.epoch \in Nat /\ s.view.number \in Nat
        /\ t.sent.votes \subseteq proposed
    BY Zenon DEF Good, StateType, ViewType, VotesOK
  <1>1. ASSUME NEW d \in t.sent.votes
        PROVE  /\ Epoch[d] \in Nat /\ ViewNumber[d] \in Nat
               /\ NotAfter(Epoch[d], ViewNumber[d], s.view.epoch, s.view.number)
               /\ d \in proposed /\ ~HigherQuorumCert(Parent[d], t.tree.qc)
    <2>1. d \in proposed /\ ~HigherQuorumCert(Parent[d], t.tree.qc)
      BY DEF Good, VotesOK
    <2>2. Epoch[d] \in Nat /\ ViewNumber[d] \in Nat
      BY <2>1, Proposed
    <2>3. CASE d \in s.sent.votes
      BY <2>1, <2>2, <2>3, Zenon DEF Good, VotesOK
    <2>4. CASE d \notin s.sent.votes
      <3>1. InView(s, d)
        BY <2>4, Zenon DEF Signs
      <3> QED BY <1>0, <2>1, <2>2, <3>1 DEF InView, NotAfter, Signer!NotAfter
    <2> QED BY <2>3, <2>4, Zenon
  <1>2. ASSUME NEW b \in t.sent.votes \ s.sent.votes
        PROVE  /\ Signer!CanVote(b, t.sent.votes, s.sent.changes)
               /\ Parent[b] \in t.tree.blocks
               /\ \A y \in t.tree.blocks \ {Genesis} :
                     Signer!NotAfter(Epoch[y], ViewNumber[y], Epoch[b], ViewNumber[b])
    <2>1. /\ b \in proposed /\ Epoch[b] = s.view.epoch /\ ViewNumber[b] = s.view.number
          /\ ~s.view.deadline /\ Parent[b] \in t.tree.blocks
      BY Zenon DEF Signs, InView
    <2>2. \A c \in s.sent.changes :
             Signer!Before(c.epoch, c.number, Epoch[b], ViewNumber[b])
      BY <2>1, Zenon DEF Good, ReportsOK
    <2>3. ASSUME NEW d \in t.sent.votes
          PROVE  /\ Signer!NotAfter(Epoch[d], ViewNumber[d], Epoch[b], ViewNumber[b])
                 /\ Signer!SameSlot(b, d) => b = d
      <3>1. d \in proposed /\ NotAfter(Epoch[d], ViewNumber[d], s.view.epoch, s.view.number)
        BY <1>1
      <3>2. Signer!NotAfter(Epoch[d], ViewNumber[d], Epoch[b], ViewNumber[b])
        BY <2>1, <3>1 DEF NotAfter
      <3>3. Signer!SameSlot(b, d) => b = d
        BY <2>1, <3>1, SameViewOrder, Zenon DEF Signer!SameSlot
      <3> QED BY <3>2, <3>3
    <2>4. \A y \in t.tree.blocks \ {Genesis} :
             NotAfter(Epoch[y], ViewNumber[y], s.view.epoch, s.view.number)
      BY Zenon DEF Signs, Takes, Good, TreeOK, Behind
    <2> QED BY <2>1, <2>2, <2>3, <2>4, Zenon DEF Signer!CanVote, NotAfter
  <1>3. ASSUME NEW c \in t.sent.changes \ s.sent.changes
        PROVE  Signer!CanChange(c, t.sent.votes, s.sent.changes) /\ c.block \in t.tree.blocks
    <2>1. /\ c.epoch = s.view.epoch /\ c.number = s.view.number /\ c.block = t.tree.qc
          /\ s.view.own = None
      BY Zenon DEF Signs
    <2>2. t.tree.qc \in t.tree.blocks
      BY Zenon DEF Good, TreeOK, Highest
    <2>3. ASSUME NEW b \in t.sent.votes
          PROVE  /\ Signer!NotAfter(Epoch[b], ViewNumber[b], c.epoch, c.number)
                 /\ ~HigherQuorumCert(Parent[b], c.block)
      BY <1>1, <2>1, Zenon DEF NotAfter
    <2>4. ASSUME NEW d \in s.sent.changes
          PROVE  /\ Signer!Before(d.epoch, d.number, c.epoch, c.number)
                 /\ ~HigherQuorumCert(d.block, c.block)
      <3>1. Signer!Before(d.epoch, d.number, c.epoch, c.number)
        BY <2>1, Zenon DEF Good, ReportsOK
      <3>2. d \in t.sent.changes
        BY Zenon DEF Signs
      <3> QED BY <2>1, <3>1, <3>2, Zenon DEF Good, ReportsOK
    <2> QED
      BY <2>1, <2>2, <2>3, <2>4, Zenon
         DEF Signer!CanChange, Signer!HigherQuorumCert, Signer!HigherBlockView,
             HigherQuorumCert, HigherBlockView
  <1>4. \A x \in t.tree.blocks \ s.tree.blocks, y \in s.tree.blocks :
           Number[y] <= Number[x]
    BY Zenon DEF Signs, Takes
  <1> QED BY <1>2, <1>3, <1>4, Zenon DEF VoterStep, Signs

\* A handler that signs and inserts nothing before s1 and runs procedures from
\* there.
LEMMA Finish ==
    ASSUME Env, NEW s \in StateType, NEW s1, Good(s1),
           s1.sent.votes = s.sent.votes, s1.sent.changes = s.sent.changes,
           s1.tree = s.tree,
           NotAfter(s.view.epoch, s.view.number, s1.view.epoch, s1.view.number),
           NEW t, Ran(s1, t), ExecWaits(t), t.view.number = MaxView \/ ChangeWaits(t)
    PROVE  Steps(s, t)
  <1>1. VoterStep(s1, t)
    BY SignsVoter, Zenon DEF Ran
  <1>2. VoterStep(s, t)
    BY <1>1, Zenon DEF VoterStep
  <1>3. /\ s.view.epoch \in Nat /\ s.view.number \in Nat
        /\ s1.view.epoch \in Nat /\ s1.view.number \in Nat
        /\ t.view.epoch \in Nat /\ t.view.number \in Nat
    BY Zenon DEF Ran, Good, StateType, ViewType
  <1>4. NotAfter(s.view.epoch, s.view.number, t.view.epoch, t.view.number)
    BY <1>3 DEF Ran, NotAfter, Signer!NotAfter
  <1> QED BY <1>2, <1>4, Zenon DEF Steps, Rests, Ran

\* A procedure that keeps the signatures and the tree.
LEMMA Silent ==
    ASSUME NEW s, Good(s), NEW t, Good(t), VotesWait(t), t.sent = s.sent, t.tree = s.tree,
           t.view.epoch = s.view.epoch, t.view.number = s.view.number
    PROVE  Ran(s, t)
  <1>1. s.view.number \in Nat
    BY Zenon DEF Good, StateType, ViewType
  <1>2. Signs(s, t)
    BY TakesNone, Zenon DEF Signs
  <1> QED BY <1>1, <1>2 DEF Ran, NotAfter, Signer!NotAfter

\* A vote of another validator is counted.
OnlyVotes(s, t) ==
    /\ t \in StateType /\ t.tree = s.tree /\ t.pool = s.pool /\ t.sent = s.sent
    /\ t.fault = s.fault
    /\ t.view.epoch = s.view.epoch /\ t.view.number = s.view.number
    /\ t.view.blocks = s.view.blocks /\ t.view.qcs = s.view.qcs
    /\ t.view.pending = s.view.pending /\ t.view.hadSend = s.view.hadSend
    /\ t.view.executing = s.view.executing /\ t.view.own = s.view.own
    /\ t.view.changes = s.view.changes /\ t.view.maxChange = s.view.maxChange
    /\ t.view.last = s.view.last /\ t.view.deadline = s.view.deadline

Voted(s, i) == [s EXCEPT !.view.votes[i] = @ + 1]

\* Its fields.
LEMMA VotedFields ==
    ASSUME NEW s \in StateType, NEW i \in Index
    PROVE  LET t == Voted(s, i)
           IN  /\ OnlyVotes(s, t)
               /\ \A j \in Index : t.view.votes[j] =
                     IF j = i THEN s.view.votes[i] + 1 ELSE s.view.votes[j]
  <1> DEFINE V == [s.view.votes EXCEPT ![i] = @ + 1]
             w == [s.view EXCEPT !.votes = V]
             t == WithView(s, w)
  <1>1. s.view \in ViewType
    BY DEF StateType
  <1>2. /\ V \in [Index -> Nat]
        /\ \A j \in Index : V[j] = IF j = i THEN s.view.votes[i] + 1 ELSE s.view.votes[j]
    BY <1>1 DEF ViewType
  <1>3. Voted(s, i) = t
    BY Zenon DEF WithView, Voted
  <1> HIDE DEF V
  <1>4. w \in ViewType
    BY <1>1, <1>2, ZenonT(60) DEF ViewType
  <1>5. /\ w.votes = V /\ w.epoch = s.view.epoch /\ w.number = s.view.number
        /\ w.blocks = s.view.blocks /\ w.qcs = s.view.qcs
        /\ w.pending = s.view.pending /\ w.hadSend = s.view.hadSend
        /\ w.executing = s.view.executing /\ w.own = s.view.own
        /\ w.changes = s.view.changes /\ w.maxChange = s.view.maxChange
        /\ w.last = s.view.last /\ w.deadline = s.view.deadline
    BY <1>1, ZenonT(60) DEF ViewType
  <1> HIDE DEF w
  <1>6. t \in StateType /\ Around(s, t) /\ t.view = w
    BY <1>4, WithViewFields
  <1>7. OnlyVotes(s, t)
    BY <1>5, <1>6, Zenon DEF OnlyVotes, Around
  <1> QED BY <1>2, <1>3, <1>5, <1>6, <1>7

\* A vote that completes a certificate is for a block that gets one.
LEMMA VotedGood ==
    ASSUME Env, NEW s, Good(s), NEW b, b \in proposed, BlockIndex[b] \in Index,
           s.view.blocks[BlockIndex[b]] = b,
           s.view.votes[BlockIndex[b]] + 2 >= threshold => b \in certified
    PROVE  LET t == Voted(s, BlockIndex[b]) IN Good(t) /\ OnlyVotes(s, t)
  <1> DEFINE i == BlockIndex[b]
             t == Voted(s, i)
  <1> SUFFICES Good(t) /\ OnlyVotes(s, t)
    BY Zenon
  <1>1. /\ OnlyVotes(s, t)
        /\ \A j \in Index : t.view.votes[j] =
              IF j = i THEN s.view.votes[i] + 1 ELSE s.view.votes[j]
    <2> HIDE DEF i
    <2> QED BY VotedFields, Zenon DEF Good, i
  <1> HIDE DEF t
  <1>2. More(s, t)
    BY <1>1, Zenon DEF OnlyVotes, More, Done
  <1>3. BlocksOK(t)
    <2>1. \A j \in Index : t.view.votes[j] + 1 >= threshold => t.view.blocks[j] \in certified
      <3>1. s.view.votes[i] \in Nat
        BY Zenon DEF Good, StateType, ViewType
      <3>2. (s.view.votes[i] + 1) + 1 = s.view.votes[i] + 2
        BY <3>1
      <3> QED BY <1>1, <3>2 DEF Good, BlocksOK, OnlyVotes
    <2> QED BY <1>1, <2>1 DEF Good, BlocksOK, OnlyVotes, InView
  <1>4. ExecutingOK(t) /\ ChangesOK(t) /\ ReportsOK(t)
    BY <1>1 DEF Good, ExecutingOK, ChangesOK, ReportsOK, OnlyVotes
  <1> QED BY <1>1, <1>2, <1>3, <1>4, GoodMore, Zenon

\* OnPrepareVote: the certificate of the parent that the vote carries is used
\* first, then the votes for the next block.
LEMMA PrepareVote ==
    ASSUME Env, NEW s, Rests(s), NEW b \in proposed, acceptVote(s, b),
           Parent[b] \in certified \cup {Genesis},
           s.view.votes[BlockIndex[b]] + 2 >= threshold => b \in certified
    PROVE  Steps(s, findQCBlock(IF Number[b] = 1 THEN Voted(s, BlockIndex[b])
                                ELSE insertPrepareQC(Voted(s, BlockIndex[b]), Parent[b])))
  <1> DEFINE i == BlockIndex[b]
             a == Voted(s, i)
             q == Parent[b]
             w == IF Number[b] = 1 THEN a ELSE insertPrepareQC(a, q)
             t == findQCBlock(w)
  <1>0. i \in Index /\ s.view.blocks[i] = b
    BY Zenon DEF acceptVote
  <1>1. Good(a) /\ OnlyVotes(s, a)
    BY <1>0, VotedGood, Zenon DEF Rests
  <1> HIDE DEF a
  <1>2. VotesWait(a) /\ ExecWaits(a)
    <2>1. /\ a.view.blocks = s.view.blocks /\ a.view.qcs = s.view.qcs
          /\ a.view.pending = s.view.pending /\ a.view.executing = s.view.executing
          /\ a.view.deadline = s.view.deadline /\ a.tree = s.tree
      BY <1>1, Zenon DEF OnlyVotes
    <2>2. VotesWait(a)
      BY <2>1, Zenon DEF Rests, VotesWait
    <2>3. FromQC(a) = FromQC(s) /\ From(a) = From(s)
      BY <2>1, Zenon DEF FromQC, From, MaxQCIndex
    <2>4. \A j : ViewBlockByIndex(a, j) = ViewBlockByIndex(s, j)
      BY <2>1, Zenon DEF ViewBlockByIndex
    <2>5. NextUp(a) = NextUp(s)
      BY <2>3, <2>4, Zenon DEF NextUp
    <2>6. ExecWaits(a)
      BY <2>1, <2>3, <2>4, <2>5, Zenon DEF Rests, ExecWaits
    <2> QED BY <2>2, <2>6, Zenon
  <1>3. a \in StateType /\ Signs(a, a) /\ Holds(a, a) /\ Late(a, a)
    BY <1>1, TakesNone, Zenon DEF Good, Signs, Holds, Late
  <1>4. Ran(a, t) /\ ChangeWaits(t) /\ ExecWaits(t)
    <2>1. CASE w = a
      <3> HIDE DEF w
      <3> QED BY <1>1, <1>2, <1>3, <2>1, FindQC, Zenon
    <2>2. CASE w # a
      <3>1. Number[b] # 1 /\ w = insertPrepareQC(a, q)
        BY <2>2, Zenon
      <3>2. q \in certified
        <4>1. Number[b] = Number[q] + 1
          BY Proposed, Zenon
        <4> QED BY <3>1, <4>1, BlockAssumption
      <3>3. q \in a.tree.blocks \/ ViewBlockByIndex(a, BlockIndex[q]) = q
        <4>1. IF i = 0 THEN q \in s.tree.blocks ELSE s.view.blocks[i - 1] = q
          BY <3>1, Zenon DEF acceptVote
        <4>2. CASE i = 0
          BY <1>1, <4>1, <4>2, Zenon DEF OnlyVotes
        <4>3. CASE i # 0
          <5>1. i - 1 \in Index
            BY <1>0, <4>3, Sizes
          <5>2. q \in Block /\ q # None
            BY Proposed, Sizes
          <5>3. BlockIndex[q] = i - 1
            BY <4>1, <4>3, <5>1, <5>2, Zenon DEF Rests, Good, BlocksOK
          <5> QED BY <1>1, <4>1, <4>3, <5>1, <5>3, Zenon DEF OnlyVotes, ViewBlockByIndex
        <4> QED BY <4>2, <4>3, Zenon
      <3> HIDE DEF q, w
      <3>4. /\ Ran(a, w) /\ ExecWaits(w)
            /\ ChangeWaits(w) /\ (Fresh(w) \/ (Holds(a, w) /\ Late(a, w)))
        BY <1>1, <1>2, <2>2, <3>1, <3>2, <3>3, PrepareQC, Zenon
      <3>5. CASE Fresh(w)
        <4>1. t = w
          BY <3>4, <3>5, FindIdle, Zenon DEF Ran
        <4> QED BY <3>4, <4>1, Zenon
      <3>6. CASE Holds(a, w) /\ Late(a, w)
        BY <1>3, <3>4, <3>6, FindQC, Zenon DEF Ran
      <3> QED BY <3>4, <3>5, <3>6, Zenon
    <2> QED BY <2>1, <2>2, Zenon
  <1> HIDE DEF t
  <1>5. NotAfter(s.view.epoch, s.view.number, a.view.epoch, a.view.number)
        /\ s \in StateType
    <2>1. s \in StateType /\ s.view.number \in Nat
      BY Zenon DEF Rests, Good, StateType, ViewType
    <2> QED BY <1>1, <2>1 DEF OnlyVotes, NotAfter, Signer!NotAfter
  <1>6. Steps(s, t)
    BY <1>1, <1>4, <1>5, Finish, Zenon DEF OnlyVotes
  <1> QED BY <1>6, Zenon DEF t, a

\* Only the ViewChanges and the timer differ.
OnlyChanges(s, t) ==
    /\ t \in StateType /\ t.tree = s.tree /\ t.pool = s.pool /\ t.fault = s.fault
    /\ t.sent.votes = s.sent.votes /\ t.sent.executed = s.sent.executed
    /\ t.view.epoch = s.view.epoch /\ t.view.number = s.view.number
    /\ t.view.blocks = s.view.blocks /\ t.view.qcs = s.view.qcs
    /\ t.view.pending = s.view.pending /\ t.view.hadSend = s.view.hadSend
    /\ t.view.executing = s.view.executing /\ t.view.votes = s.view.votes
    /\ s.view.deadline => t.view.deadline

\* The rest of the invariant does not depend on them.
LEMMA ChangesMore ==
    ASSUME NEW s, Rests(s), NEW t, OnlyChanges(s, t), ChangesOK(t), ReportsOK(t)
    PROVE  Good(t) /\ VotesWait(t) /\ ExecWaits(t)
           /\ NotAfter(s.view.epoch, s.view.number, t.view.epoch, t.view.number)
  <1>1. More(s, t)
    BY Zenon DEF OnlyChanges, More, Done
  <1>2. BlocksOK(t)
    BY Zenon DEF Rests, Good, BlocksOK, OnlyChanges, InView
  <1>3. ExecutingOK(t)
    BY Zenon DEF Rests, Good, ExecutingOK, OnlyChanges
  <1>4. Good(t)
    BY <1>1, <1>2, <1>3, GoodMore, Zenon DEF Rests
  <1>5. VotesWait(t) /\ ExecWaits(t)
    BY Zenon DEF Rests, OnlyChanges, VotesWait, ExecWaits, NextUp, From, FromQC, MaxQCIndex,
           ViewBlockByIndex
  <1>6. s.view.number \in Nat
    BY Zenon DEF Rests, Good, StateType, ViewType
  <1> QED BY <1>4, <1>5, <1>6 DEF OnlyChanges, NotAfter, Signer!NotAfter

Reported(s, m) == [s EXCEPT !.view.changes = @ + 1, !.view.maxChange = Higher(m, @)]

\* The fields of a view with one more ViewChange.
LEMMA ReportedFields ==
    ASSUME NEW s \in StateType, NEW m \in Block
    PROVE  LET t == Reported(s, m)
           IN  /\ OnlyChanges(s, t) /\ t.sent = s.sent
               /\ t.view.own = s.view.own /\ t.view.deadline = s.view.deadline
               /\ t.view.maxChange = Higher(m, s.view.maxChange)
  <1> DEFINE c == s.view.changes + 1
             h == Higher(m, s.view.maxChange)
             w == [s.view EXCEPT !.changes = c, !.maxChange = h]
             t == WithView(s, w)
  <1>1. s.view \in ViewType
    BY Zenon DEF StateType
  <1>2. c \in Nat /\ h \in OptBlock
    BY <1>1 DEF ViewType, Higher, OptBlock
  <1>3. Reported(s, m) = t
    BY Zenon DEF WithView, Reported
  <1> HIDE DEF c, h
  <1>4. w \in ViewType
    BY <1>1, <1>2, ZenonT(60) DEF ViewType
  <1>5. /\ w.maxChange = h /\ w.epoch = s.view.epoch /\ w.number = s.view.number
        /\ w.blocks = s.view.blocks /\ w.qcs = s.view.qcs
        /\ w.pending = s.view.pending /\ w.hadSend = s.view.hadSend
        /\ w.executing = s.view.executing /\ w.own = s.view.own
        /\ w.votes = s.view.votes /\ w.deadline = s.view.deadline
    BY <1>1, ZenonT(60) DEF ViewType
  <1> HIDE DEF w
  <1>6. t \in StateType /\ Around(s, t) /\ t.view = w
    BY <1>4, WithViewFields, Zenon
  <1>7. OnlyChanges(s, t)
    BY <1>5, <1>6, Zenon DEF OnlyChanges, Around
  <1> QED BY <1>3, <1>5, <1>6, <1>7, Zenon DEF Around, h

\* OnViewChange
LEMMA ViewChange ==
    ASSUME Env, NEW s, Rests(s), NEW m \in Block, m \in certified \cup {Genesis}
    PROVE  Steps(s, tryChangeView(Reported(s, m)))
  <1> DEFINE a == Reported(s, m)
             t == tryChangeView(a)
  <1>0. s \in StateType /\ m # None
    BY Sizes, Zenon DEF Rests, Good
  <1>1. /\ OnlyChanges(s, a) /\ a.sent = s.sent
        /\ a.view.own = s.view.own /\ a.view.deadline = s.view.deadline
        /\ a.view.maxChange = Higher(m, s.view.maxChange)
    BY <1>0, ReportedFields, Zenon
  <1> HIDE DEF a
  <1>2. ChangesOK(a)
    BY <1>0, <1>1, Zenon DEF Rests, Good, ChangesOK, Higher
  <1>3. ReportsOK(a)
    BY <1>1, Zenon DEF Rests, Good, ReportsOK, OnlyChanges
  <1>4. /\ Good(a) /\ VotesWait(a) /\ ExecWaits(a)
        /\ NotAfter(s.view.epoch, s.view.number, a.view.epoch, a.view.number)
    BY <1>1, <1>2, <1>3, ChangesMore, Zenon
  <1>5. Turn(a, t) /\ ChangeWaits(t)
    BY <1>4, TryTurn, Zenon
  <1> HIDE DEF t
  <1>6. a \in StateType /\ Signs(a, a) /\ Holds(a, a)
    BY <1>4, TakesNone, Zenon DEF Good, Signs, Holds
  <1>7. Ran(a, t) /\ ExecWaits(t)
    BY <1>4, <1>5, <1>6, TurnSigns, TurnExec, Zenon
  <1>8. a.tree = s.tree
    BY <1>1, Zenon DEF OnlyChanges
  <1>9. Steps(s, t)
    BY <1>0, <1>1, <1>4, <1>5, <1>7, <1>8, Finish, Zenon
  <1> QED BY <1>9, Zenon DEF t, a

Own(s) ==
    [s EXCEPT !.view.own = s.tree.qc,
              !.sent.changes = @ \cup {[epoch |-> s.view.epoch, number |-> s.view.number,
                                        block |-> s.tree.qc]}]

\* The fields of a view with the ViewChange of this validator.
LEMMA OwnFields ==
    ASSUME NEW s \in StateType
    PROVE  LET t == Own(s)
           IN  /\ OnlyChanges(s, t)
               /\ t.sent.changes = s.sent.changes \cup
                     {[epoch |-> s.view.epoch, number |-> s.view.number,
                       block |-> s.tree.qc]}
               /\ t.view.own = s.tree.qc /\ t.view.deadline = s.view.deadline
               /\ t.view.maxChange = s.view.maxChange /\ t.view.changes = s.view.changes
  <1> DEFINE w == [s.view EXCEPT !.own = s.tree.qc]
             C == s.sent.changes \cup {[epoch |-> s.view.epoch, number |-> s.view.number,
                                        block |-> s.tree.qc]}
             u == WithView(s, w)
             x == [u.sent EXCEPT !.changes = C]
             t == [u EXCEPT !.sent = x]
  <1>1. s.view \in ViewType /\ s.sent \in SentType /\ s.tree.qc \in OptBlock
        /\ s.tree.qc \in Block
    BY Zenon DEF StateType, TreeType, OptBlock
  <1>2. C \in SUBSET ChangeType
    BY <1>1 DEF ViewType, SentType, ChangeType
  <1>3. w \in ViewType
    BY <1>1, ZenonT(60) DEF ViewType
  <1>4. /\ w.own = s.tree.qc /\ w.epoch = s.view.epoch /\ w.number = s.view.number
        /\ w.blocks = s.view.blocks /\ w.qcs = s.view.qcs
        /\ w.pending = s.view.pending /\ w.hadSend = s.view.hadSend
        /\ w.executing = s.view.executing /\ w.changes = s.view.changes
        /\ w.maxChange = s.view.maxChange
        /\ w.votes = s.view.votes /\ w.deadline = s.view.deadline
    BY <1>1, ZenonT(60) DEF ViewType
  <1>5. u \in StateType /\ Around(s, u) /\ u.view = w
    <2> HIDE DEF w
    <2> QED BY <1>3, WithViewFields, Zenon
  <1>6. Own(s) = t
    BY <1>5, Zenon DEF WithView, Own, Around
  <1> HIDE DEF w, u, C
  <1>7. u.sent = s.sent /\ u.tree = s.tree /\ u.pool = s.pool /\ u.fault = s.fault
    BY <1>5, Zenon DEF Around
  <1>8. x \in SentType /\ x.changes = C /\ x.votes = s.sent.votes
        /\ x.executed = s.sent.executed
    BY <1>1, <1>2, <1>7, Zenon DEF SentType
  <1> HIDE DEF x
  <1>9. t \in StateType /\ t.sent = x /\ t.view = w /\ t.tree = u.tree /\ t.pool = u.pool
        /\ t.fault = u.fault
    BY <1>5, <1>8, Zenon DEF StateType
  <1> HIDE DEF t
  <1>10. OnlyChanges(s, t)
    BY <1>4, <1>7, <1>8, <1>9, Zenon DEF OnlyChanges
  <1> QED BY <1>4, <1>6, <1>8, <1>9, <1>10, Zenon DEF C

\* OnViewTimeout: the only ViewChange of the view, for the highest block.
LEMMA ViewTimeout ==
    ASSUME Env, NEW s, Rests(s), s.view.deadline, s.view.own = None
    PROVE  Steps(s, tryChangeView(Own(s)))
  <1> DEFINE a == Own(s)
             t == tryChangeView(a)
             c == [epoch |-> s.view.epoch, number |-> s.view.number, block |-> s.tree.qc]
  <1>0. s \in StateType /\ Good(s) /\ s.tree.qc \in Block /\ s.tree.qc # None
    BY Sizes, Zenon DEF Rests, Good, StateType, TreeType
  <1>1. /\ OnlyChanges(s, a) /\ a.sent.changes = s.sent.changes \cup {c}
        /\ a.view.own = s.tree.qc /\ a.view.deadline = s.view.deadline
        /\ a.view.maxChange = s.view.maxChange /\ a.view.changes = s.view.changes
    BY <1>0, OwnFields, Zenon
  <1> HIDE DEF a
  <1>2. ChangesOK(a)
    <2>1. s.tree.qc \in certified \cup {Genesis}
      BY <1>0, Zenon DEF Good, TreeOK, Highest, Behind
    <2> QED BY <1>0, <1>1, <2>1, Zenon DEF Good, ChangesOK
  <1>3. ReportsOK(a)
    <2>1. c.epoch = s.view.epoch /\ c.number = s.view.number /\ c.block = s.tree.qc
      BY Zenon
    <2>2. ~HigherQuorumCert(s.tree.qc, s.tree.qc)
      BY <1>0, HigherStrict, Zenon
    <2> HIDE DEF c
    <2> QED BY <1>0, <1>1, <2>1, <2>2, Zenon DEF Good, ReportsOK, OnlyChanges
  <1>4. /\ Good(a) /\ VotesWait(a) /\ ExecWaits(a)
        /\ NotAfter(s.view.epoch, s.view.number, a.view.epoch, a.view.number)
    BY <1>1, <1>2, <1>3, ChangesMore, Zenon
  <1>5. Turn(a, t) /\ ChangeWaits(t)
    BY <1>4, TryTurn, Zenon
  <1> HIDE DEF t
  <1>6. a \in StateType /\ Signs(a, a) /\ Holds(a, a)
    BY <1>4, TakesNone, Zenon DEF Good, Signs, Holds
  <1>7. Ran(a, t) /\ ExecWaits(t)
    BY <1>4, <1>5, <1>6, TurnSigns, TurnExec, Zenon
  <1>8. Signs(s, t)
    <2>1. t.sent.changes = s.sent.changes \cup {c} /\ t.sent.votes = s.sent.votes
          /\ t.tree = s.tree
      BY <1>0, <1>1, <1>5, Zenon DEF Turn, OnlyChanges
    <2>2. c.epoch = s.view.epoch /\ c.number = s.view.number /\ c.block = s.tree.qc
      BY Zenon
    <2> HIDE DEF c
    <2>3. Takes(s, t)
      BY <1>0, <2>1, TakesNone, Zenon
    <2> QED BY <2>1, <2>2, <2>3, Zenon DEF Signs
  <1>9. a.view.epoch = s.view.epoch /\ a.view.number = s.view.number
        /\ s.view.number \in Nat
    BY <1>0, <1>1, Zenon DEF OnlyChanges, StateType, ViewType
  <1>10. Ran(s, t)
    BY <1>7, <1>8, <1>9, Zenon DEF Ran
  <1>11. NotAfter(s.view.epoch, s.view.number, s.view.epoch, s.view.number)
    BY <1>9 DEF NotAfter, Signer!NotAfter
  <1>12. Steps(s, t)
    BY <1>0, <1>5, <1>7, <1>10, <1>11, Finish, Zenon
  <1> QED BY <1>12, Zenon DEF t, a

\* A handler that does nothing.
LEMMA Nothing ==
    ASSUME Env, NEW s, Rests(s)
    PROVE  Steps(s, s)
  <1>1. Good(s) /\ VotesWait(s) /\ s \in StateType /\ s.view.number \in Nat
    BY Zenon DEF Rests, Good, StateType, ViewType
  <1>2. Ran(s, s)
    BY <1>1, Silent, Zenon
  <1>3. NotAfter(s.view.epoch, s.view.number, s.view.epoch, s.view.number)
    BY <1>1 DEF NotAfter, Signer!NotAfter
  <1> QED BY <1>1, <1>2, <1>3, Finish, Zenon DEF Rests

TimedOut(s) == [s EXCEPT !.view.deadline = TRUE]

\* Deadline: nothing is voted for any more.
LEMMA TimerFires ==
    ASSUME Env, NEW s, Rests(s)
    PROVE  Steps(s, TimedOut(s))
  <1> DEFINE w == [s.view EXCEPT !.deadline = TRUE]
             t == TimedOut(s)
  <1>0. s \in StateType /\ Good(s) /\ s.view.number \in Nat /\ s.view \in ViewType
    BY Zenon DEF Rests, Good, StateType, ViewType
  <1>1. w \in ViewType
    BY <1>0, ZenonT(60) DEF ViewType
  <1>2. /\ w.own = s.view.own /\ w.epoch = s.view.epoch /\ w.number = s.view.number
        /\ w.blocks = s.view.blocks /\ w.qcs = s.view.qcs
        /\ w.pending = s.view.pending /\ w.hadSend = s.view.hadSend
        /\ w.executing = s.view.executing /\ w.changes = s.view.changes
        /\ w.maxChange = s.view.maxChange /\ w.votes = s.view.votes /\ w.deadline = TRUE
    BY <1>0, ZenonT(60) DEF ViewType
  <1>3. t = WithView(s, w)
    BY Zenon DEF TimedOut, WithView
  <1> HIDE DEF w, t
  <1>4. t \in StateType /\ Around(s, t) /\ t.view = w
    BY <1>0, <1>1, <1>3, WithViewFields, Zenon
  <1>5. OnlyChanges(s, t)
    BY <1>2, <1>4, Zenon DEF OnlyChanges, Around
  <1>6. ChangesOK(t) /\ ReportsOK(t)
    BY <1>0, <1>2, <1>4 DEF Good, ChangesOK, ReportsOK, Around
  <1>7. Good(t) /\ VotesWait(t) /\ ExecWaits(t)
        /\ NotAfter(s.view.epoch, s.view.number, t.view.epoch, t.view.number)
    BY <1>5, <1>6, ChangesMore, Zenon
  <1>8. s.view.number = MaxView \/ ChangeWaits(t)
    <2>1. Enough(t) <=> Enough(s)
      BY <1>2, <1>4, Zenon DEF Enough, EpochEnded, ShouldSwitch, MaxQCIndex, Around
    <2>2. Settled(t) <=> Settled(s)
      BY <1>2, <1>4, Zenon DEF Settled, EpochEnded, EqualSwitchPoint, ShouldSwitch, Around
    <2>3. ChangesIn(t) = ChangesIn(s) /\ MaxReported(t) = MaxReported(s)
      BY <1>2, <1>4, Zenon DEF ChangesIn, MaxReported
    <2>4. richViewChangeQC(t, MaxReported(t)) = richViewChangeQC(s, MaxReported(s))
      BY <1>2, <1>4, <2>3, Zenon DEF richViewChangeQC, Around
    <2> QED BY <1>4, <2>1, <2>2, <2>3, <2>4, Zenon DEF ChangeWaits, Rests, Around
  <1>9. Ran(s, t)
    BY <1>0, <1>2, <1>4, <1>7, Silent, Zenon DEF Around
  <1>10. NotAfter(s.view.epoch, s.view.number, s.view.epoch, s.view.number)
    BY <1>0 DEF NotAfter, Signer!NotAfter
  <1>11. t.view.number = MaxView \/ ChangeWaits(t)
    BY <1>2, <1>4, <1>8, Zenon
  <1>12. Steps(s, t)
    BY <1>0, <1>7, <1>9, <1>10, <1>11, Finish, Zenon
  <1> QED BY <1>12, Zenon DEF t

\* A view entered without tryChangeView has nothing to change either: it is of
\* a later epoch, or the view that was left had not ended its epoch.
LEMMA EnteredWaits ==
    ASSUME Env, NEW s, Rests(s), NEW t, Good(t), Fresh(t), t.tree = s.tree, t.pool = s.pool,
           t.view.number <= MaxView,
           \/ s.view.epoch < t.view.epoch
           \/ t.view.epoch = s.view.epoch /\ s.view.number < t.view.number
    PROVE  ChangeWaits(t)
  <1>0. Good(s) /\ s.view.number \in Nat /\ t.view.number \in Nat /\ MaxView \in Nat
    BY NodeAssumption, Zenon DEF Rests, Good, StateType, ViewType
  <1>1. CASE s.view.epoch < t.view.epoch
    BY <1>0, <1>1, FreshWaits, Zenon
  <1>2. CASE t.view.epoch = s.view.epoch /\ s.view.number < t.view.number
    <2>1. s.view.number # MaxView
      BY <1>0, <1>2
    <2>2. Settled(s) /\ ~EpochEnded(s)
      BY <2>1, Zenon DEF Rests, ChangeWaits, Enough
    <2> QED BY <1>0, <1>2, <2>2, FreshWaits, Zenon
  <1> QED BY <1>1, <1>2, Zenon

\* OnViewChangeQuorumCert
LEMMA ViewChangeQC ==
    ASSUME Env, NEW s, Rests(s), NEW m \in certified \cup {Genesis},
           tryChangeViewByViewChange(s, m).view.number <= MaxView
    PROVE  Steps(s, tryChangeViewByViewChange(s, m))
  <1> DEFINE t == tryChangeViewByViewChange(s, m)
  <1>0. Good(s) /\ VotesWait(s) /\ ExecWaits(s) /\ s \in StateType /\ s.view.number \in Nat
    BY Zenon DEF Rests, Good, StateType, ViewType
  <1>1. /\ Turn(s, t) /\ t.pool = s.pool
        /\ \/ t = s
           \/ /\ Fresh(t)
              /\ \/ s.view.epoch < t.view.epoch
                 \/ t.view.epoch = s.view.epoch /\ t.view.number = s.view.number + 1
    BY <1>0, ByViewChange, Zenon
  <1> HIDE DEF t
  <1>2. CASE t = s
    BY <1>2, Nothing, Zenon DEF t
  <1>3. CASE t # s
    <2>1. Good(t) /\ Fresh(t) /\ t.tree = s.tree
      BY <1>1, <1>3, Zenon DEF Turn
    <2>2. \/ s.view.epoch < t.view.epoch
          \/ t.view.epoch = s.view.epoch /\ s.view.number < t.view.number
      BY <1>0, <1>1, <1>3
    <2>3. ChangeWaits(t)
      BY <1>1, <2>1, <2>2, EnteredWaits, Zenon DEF t
    <2>4. Signs(s, s) /\ Holds(s, s)
      BY <1>0, TakesNone, Zenon DEF Signs, Holds
    <2>5. Ran(s, t) /\ ExecWaits(t)
      BY <1>0, <1>1, <2>4, TurnSigns, TurnExec, Zenon
    <2>6. NotAfter(s.view.epoch, s.view.number, s.view.epoch, s.view.number)
      BY <1>0 DEF NotAfter, Signer!NotAfter
    <2>7. Steps(s, t)
      BY <1>0, <2>3, <2>5, <2>6, Finish, Zenon
    <2> QED BY <2>7, Zenon DEF t
  <1> QED BY <1>2, <1>3, Zenon

\* OnBlockQuorumCert
LEMMA BlockQC ==
    ASSUME Env, NEW s, Rests(s), NEW b \in certified, ViewBlockByIndex(s, BlockIndex[b]) = b
    PROVE  Steps(s, insertPrepareQC(s, b))
  <1> DEFINE t == insertPrepareQC(s, b)
  <1>0. Good(s) /\ VotesWait(s) /\ ExecWaits(s) /\ s \in StateType /\ s.view.number \in Nat
    BY Zenon DEF Rests, Good, StateType, ViewType
  <1>1. Ran(s, t) /\ ExecWaits(t) /\ (t = s \/ ChangeWaits(t))
    BY <1>0, PrepareQC, Zenon
  <1> HIDE DEF t
  <1>2. CASE t = s
    BY <1>2, Nothing DEF t
  <1>3. CASE ChangeWaits(t)
    <2>1. NotAfter(s.view.epoch, s.view.number, s.view.epoch, s.view.number)
      BY <1>0 DEF NotAfter, Signer!NotAfter
    <2>2. Steps(s, t)
      BY <1>0, <1>1, <1>3, <2>1, Finish, Zenon
    <2> QED BY <2>2 DEF t
  <1> QED BY <1>1, <1>2, <1>3, Zenon

\* findExecutableBlock may come last in a handler.
LEMMA RanExec ==
    ASSUME Env, NEW s, NEW u, Ran(s, u)
    PROVE  LET t == findExecutableBlock(u)
           IN  /\ Ran(s, t) /\ ExecWaits(t) /\ t.view.number = u.view.number
               /\ ChangeWaits(u) => ChangeWaits(t)
  <1> DEFINE t == findExecutableBlock(u)
  <1>1. Good(t) /\ ExecWaits(t) /\ OnlyExec(u, t)
    BY FindExec DEF Ran
  <1> HIDE DEF t
  <1>2. VotesWait(t) /\ (ChangeWaits(u) => ChangeWaits(t))
    BY <1>1, ExecWaiting, Zenon DEF Ran
  <1>3. Signs(s, t)
    BY <1>1, Zenon DEF Ran, Signs, Takes, OnlyExec
  <1>4. Ran(s, t) /\ t.view.number = u.view.number
    BY <1>1, <1>2, <1>3, Zenon DEF Ran, OnlyExec
  <1> QED BY <1>1, <1>2, <1>4, Zenon DEF t

\* OnInsertQCBlock: a certified block of a later view, or of the next epoch,
\* takes the validator there first.
LEMMA InsertQCBlock ==
    ASSUME Env, NEW s, Rests(s), NEW b \in certified, EnableVerifyEpoch(s, Epoch[b]),
           QCBlockRules(s, b) # "drop", NEW a,
           a = IF QCBlockRules(s, b) = "newView"
               THEN changeView(s, Epoch[b], ViewNumber[b], None) ELSE s,
           findExecutableBlock(insertQCBlock(a, b, b)).view.number <= MaxView
    PROVE  Steps(s, findExecutableBlock(insertQCBlock(a, b, b)))
  <1> DEFINE u == insertQCBlock(a, b, b)
             t == findExecutableBlock(u)
  <1>0. /\ Good(s) /\ VotesWait(s) /\ ExecWaits(s) /\ s \in StateType
        /\ s.view.number \in Nat /\ s.view.epoch \in Nat /\ s.pool.epoch \in Nat
        /\ s.view.epoch <= s.pool.epoch /\ s.pool.epoch <= s.view.epoch + 1
        /\ None \in OptBlock
    BY Zenon DEF Rests, Good, StateType, ViewType, PoolType, PoolOK, OptBlock
  <1>1. /\ b \in proposed /\ Epoch[b] \in Nat /\ ViewNumber[b] \in Nat
    BY CertifiedBlock, Proposed, Zenon
  <1>2. Parent[b] \in s.tree.blocks
    BY Zenon DEF QCBlockRules
  <1>3. Epoch[b] <= s.pool.epoch /\ s.pool.epoch <= Epoch[b] + 1
    BY <1>0, <1>1 DEF EnableVerifyEpoch
  <1>4. /\ Good(a) /\ VotesWait(a) /\ ExecWaits(a) /\ a.sent = s.sent /\ a.tree = s.tree
        /\ NotAfter(s.view.epoch, s.view.number, a.view.epoch, a.view.number)
        /\ NotAfter(Epoch[b], ViewNumber[b], a.view.epoch, a.view.number)
        /\ a = s \/ (a.view.number <= MaxView => ChangeWaits(a))
    <2>1. CASE QCBlockRules(s, b) = "newView"
      <3>1. a = changeView(s, Epoch[b], ViewNumber[b], None)
        BY <2>1, Zenon
      <3>2. \/ Epoch[b] = s.view.epoch /\ ViewNumber[b] > s.view.number
            \/ Epoch[b] = s.view.epoch + 1
        BY <2>1 DEF QCBlockRules
      <3>3. Signer!Before(s.view.epoch, s.view.number, Epoch[b], ViewNumber[b])
        BY <1>0, <1>1, <3>2 DEF Signer!Before
      <3>4. Leaving(s)
        BY <1>0, GoodLeaving, Zenon
      <3>5. Good(a) /\ Fresh(a) /\ Around(s, a)
            /\ a.view = newView(Epoch[b], ViewNumber[b], None)
        BY <1>0, <1>1, <1>3, <3>1, <3>3, <3>4, Change
      <3>6. a.view.epoch = Epoch[b] /\ a.view.number = ViewNumber[b]
        BY <3>5 DEF newView
      <3>7. /\ NotAfter(s.view.epoch, s.view.number, a.view.epoch, a.view.number)
            /\ NotAfter(Epoch[b], ViewNumber[b], a.view.epoch, a.view.number)
        BY <1>0, <1>1, <3>2, <3>6 DEF NotAfter, Signer!NotAfter
      <3>8. VotesWait(a) /\ ExecWaits(a)
        BY <3>5, FreshFields, FreshExec, Zenon DEF VotesWait
      <3>9. a.view.number <= MaxView => ChangeWaits(a)
        <4>1. \/ s.view.epoch < a.view.epoch
              \/ a.view.epoch = s.view.epoch /\ s.view.number < a.view.number
          BY <1>0, <1>1, <3>2, <3>6
        <4> QED BY <3>5, <4>1, EnteredWaits, Zenon DEF Around
      <3> QED BY <3>5, <3>7, <3>8, <3>9, Zenon DEF Around
    <2>2. CASE QCBlockRules(s, b) # "newView"
      <3>1. a = s
        BY <2>2, Zenon
      <3>2. ~(Epoch[b] = s.view.epoch /\ ViewNumber[b] > s.view.number)
            /\ Epoch[b] # s.view.epoch + 1
        BY <1>2, <2>2 DEF QCBlockRules
      <3>3. NotAfter(Epoch[b], ViewNumber[b], s.view.epoch, s.view.number)
            /\ NotAfter(s.view.epoch, s.view.number, s.view.epoch, s.view.number)
        BY <1>0, <1>1, <1>3, <3>2 DEF NotAfter, Signer!NotAfter
      <3> QED BY <1>0, <3>1, <3>3, Zenon
    <2> QED BY <2>1, <2>2, Zenon
  <1>5. a \in StateType /\ Signs(a, a) /\ Holds(a, a) /\ Kept(a, a, b)
        /\ Parent[b] \in a.tree.blocks
    BY <1>2, <1>4, TakesNone, Zenon DEF Good, Signs, Holds, Kept
  <1>6. u = a \/ (Insertable(a, b) /\ Goes(a, a, u, b))
    BY <1>4, <1>5, InsertQC, Zenon
  <1>7. CASE u = a
    <2>1. t = a
      BY <1>4, <1>7, ExecIdle, Zenon
    <2>2. CASE a = s
      BY <2>1, <2>2, Nothing, Zenon
    <2>3. CASE a # s
      <3>1. ChangeWaits(a)
        BY <1>4, <2>1, <2>3, Zenon
      <3>2. Ran(a, a)
        BY <1>4, Silent, Zenon
      <3> QED BY <1>0, <1>4, <2>1, <3>1, <3>2, Finish, Zenon
    <2> QED BY <2>2, <2>3, Zenon
  <1>8. CASE Goes(a, a, u, b)
    <2> HIDE DEF u
    <2>1. PICK v : /\ Good(v) /\ VotesWait(v) /\ Extended(a, v, b)
                   /\ Signs(a, v) /\ Holds(a, v) /\ Turn(v, u) /\ ChangeWaits(u)
      BY <1>8, Zenon DEF Goes
    <2>2. Ran(a, u)
      BY <1>5, <2>1, TurnSigns, Zenon
    <2>3. Ran(a, t) /\ ExecWaits(t) /\ ChangeWaits(t)
      BY <2>1, <2>2, RanExec, Zenon
    <2> HIDE DEF t
    <2>4. Steps(s, t)
      BY <1>0, <1>4, <2>3, Finish, Zenon
    <2> QED BY <2>4, Zenon DEF t, u
  <1> QED BY <1>6, <1>7, <1>8, Zenon

Placed(s, i, b) == [s EXCEPT !.view.blocks[i] = b]

\* The fields of a view with one more block.
LEMMA PlacedFields ==
    ASSUME NEW s \in StateType, NEW i \in Index, NEW b \in Block
    PROVE  LET t == Placed(s, i, b)
           IN  /\ t \in StateType /\ Around(s, t) /\ SameView(s, t)
               /\ t.view.qcs = s.view.qcs
               /\ \A j \in Index : t.view.blocks[j] =
                     IF j = i THEN b ELSE s.view.blocks[j]
  <1> DEFINE B == [s.view.blocks EXCEPT ![i] = b]
             w == [s.view EXCEPT !.blocks = B]
             t == WithView(s, w)
  <1>1. /\ B \in [Index -> OptBlock]
        /\ \A j \in Index : B[j] = IF j = i THEN b ELSE s.view.blocks[j]
    BY Zenon DEF StateType, ViewType, OptBlock
  <1>2. Placed(s, i, b) = t
    BY Zenon DEF WithView, Placed
  <1> HIDE DEF B
  <1>3. /\ w \in ViewType /\ SameFields(s.view, w)
        /\ w.qcs = s.view.qcs /\ w.blocks = B
    <2>1. s.view \in ViewType
      BY Zenon DEF StateType
    <2>2. w = SetBlocks(s.view, B)
      BY Zenon DEF SetBlocks
    <2> HIDE DEF w
    <2> QED BY <1>1, <2>1, <2>2, SetBlocksFields, Zenon
  <1> HIDE DEF w
  <1>4. t \in StateType /\ Around(s, t) /\ t.view = w
    BY <1>3, WithViewFields, Zenon
  <1> QED BY <1>1, <1>2, <1>3, <1>4, Zenon DEF SameView

\* A block of the view that was not there: certificates and votes are for others.
LEMMA PlacedBlocks ==
    ASSUME Env, NEW s, Good(s), NEW b \in proposed, InView(s, b), NEW i \in Index,
           BlockIndex[b] = i, s.view.blocks[i] = None,
           NEW t, t.tree = s.tree, t.view.qcs = s.view.qcs, t.view.votes = s.view.votes,
           t.view.epoch = s.view.epoch, t.view.number = s.view.number,
           \A j \in Index : t.view.blocks[j] = IF j = i THEN b ELSE s.view.blocks[j]
    PROVE  BlocksOK(t)
  <1>0. s.view.qcs \subseteq Index /\ None \notin certified
    <2>1. \A x \in certified : x # None
      BY CertifiedBlock, Proposed, Sizes, Zenon
    <2> QED BY <2>1, Zenon DEF Good, StateType, ViewType
  <1>1. \A j \in Index : t.view.blocks[j] # None =>
           /\ t.view.blocks[j] \in proposed
           /\ InView(t, t.view.blocks[j]) /\ BlockIndex[t.view.blocks[j]] = j
    BY DEF Good, BlocksOK, InView
  <1>2. \A j \in t.view.qcs :
           t.view.blocks[j] # None /\ Number[t.view.blocks[j]] <= Number[t.tree.qc]
    <2> SUFFICES ASSUME NEW j \in s.view.qcs
                 PROVE  t.view.blocks[j] # None
                        /\ Number[t.view.blocks[j]] <= Number[s.tree.qc]
      BY Zenon
    <2>1. s.view.blocks[j] # None /\ Number[s.view.blocks[j]] <= Number[s.tree.qc]
      BY Zenon DEF Good, BlocksOK
    <2>2. j # i /\ j \in Index
      BY <1>0, <2>1, Zenon
    <2> QED BY <2>1, <2>2, Zenon
  <1>3. \A j \in Index : t.view.votes[j] + 1 >= threshold => t.view.blocks[j] \in certified
    <2> SUFFICES ASSUME NEW j \in Index, s.view.votes[j] + 1 >= threshold
                 PROVE  t.view.blocks[j] \in certified
      BY Zenon
    <2>1. s.view.blocks[j] \in certified
      BY Zenon DEF Good, BlocksOK
    <2>2. j # i
      BY <1>0, <2>1, Zenon
    <2> QED BY <2>1, <2>2, Zenon
  <1> QED BY <1>1, <1>2, <1>3, Zenon DEF BlocksOK

\* The block joins the view.
LEMMA Place ==
    ASSUME Env, NEW s, Good(s), VotesWait(s), NEW b \in proposed, InView(s, b),
           BlockIndex[b] \in Index, s.view.blocks[BlockIndex[b]] = None
    PROVE  LET t == Placed(s, BlockIndex[b], b)
           IN  /\ Ran(s, t) /\ t.view.number = s.view.number
               /\ ChangeWaits(s) => ChangeWaits(t)
  <1> DEFINE i == BlockIndex[b]
             t == Placed(s, i, b)
  <1>0. s \in StateType /\ b \in Block
    BY Proposed, Zenon DEF Good
  <1>1. /\ t \in StateType /\ Around(s, t) /\ SameView(s, t)
        /\ t.view.qcs = s.view.qcs
        /\ \A j \in Index : t.view.blocks[j] = IF j = i THEN b ELSE s.view.blocks[j]
    <2> HIDE DEF i
    <2> QED BY <1>0, PlacedFields DEF i
  <1> HIDE DEF t
  <1>2. /\ t.tree = s.tree /\ t.pool = s.pool /\ t.fault = s.fault /\ t.sent = s.sent
        /\ t.view.epoch = s.view.epoch /\ t.view.number = s.view.number
        /\ t.view.executing = s.view.executing /\ t.view.pending = s.view.pending
        /\ t.view.hadSend = s.view.hadSend /\ t.view.votes = s.view.votes
        /\ t.view.own = s.view.own /\ t.view.changes = s.view.changes
        /\ t.view.maxChange = s.view.maxChange /\ t.view.deadline = s.view.deadline
    BY <1>1, Zenon DEF Around, SameView, SameFields
  <1>3. BlocksOK(t)
    BY <1>1, <1>2, PlacedBlocks
  <1>4. \A j \in Index : s.view.blocks[j] # None => t.view.blocks[j] = s.view.blocks[j]
    BY <1>1, Zenon
  <1>5. More(s, t)
    BY <1>1, <1>2, <1>4, Zenon DEF More, Done
  <1>6. ExecutingOK(t)
    <2>1. s.view.executing.index \in Int
      BY <1>0, Zenon DEF StateType, ViewType
    <2>2. s.view.executing.index >= 1 /\ s.view.executing.index \in Index
            => s.view.executing.index - 1 \in Index
      BY <2>1, Sizes
    <2>3. ExecutingOK(s)
      BY Zenon DEF Good
    <2> QED BY <1>2, <1>4, <2>1, <2>2, <2>3 DEF ExecutingOK
  <1>7. ChangesOK(t) /\ ReportsOK(t)
    BY <1>2, Zenon DEF Good, ChangesOK, ReportsOK
  <1>8. Good(t)
    BY <1>3, <1>5, <1>6, <1>7, GoodMore, Zenon
  <1>9. VotesWait(t)
    BY <1>2, Zenon DEF VotesWait
  <1>10. Ran(s, t)
    BY <1>2, <1>8, <1>9, Silent, Zenon
  <1>11. ChangeWaits(s) => ChangeWaits(t)
    <2>1. Enough(t) <=> Enough(s)
      BY <1>1, <1>2, Zenon DEF Enough, EpochEnded, ShouldSwitch, MaxQCIndex
    <2>2. Settled(t) <=> Settled(s)
      BY <1>2, Zenon DEF Settled, EpochEnded, EqualSwitchPoint, ShouldSwitch
    <2>3. ChangesIn(t) = ChangesIn(s) /\ MaxReported(t) = MaxReported(s)
      BY <1>2, Zenon DEF ChangesIn, MaxReported
    <2>4. richViewChangeQC(t, MaxReported(t)) = richViewChangeQC(s, MaxReported(s))
      BY <1>2, <2>3, Zenon DEF richViewChangeQC
    <2> QED BY <1>2, <2>1, <2>2, <2>3, <2>4, Zenon DEF ChangeWaits
  <1> QED BY <1>2, <1>10, <1>11, Zenon DEF t

\* What the answers of PrepareBlockRules say.
LEMMA Rules ==
    ASSUME NEW s, NEW b, NEW vc
    PROVE  /\ PrepareBlockRules(s, b, vc) = "newView" =>
                 /\ BlockIndex[b] = 0
                 /\ \/ Epoch[b] > s.view.epoch
                    \/ Epoch[b] = s.view.epoch /\ ViewNumber[b] = s.view.number + 1
           /\ PrepareBlockRules(s, b, vc) = "accept" =>
                 InView(s, b) /\ acceptIndexBlock(s, b)
  BY DEF PrepareBlockRules

\* OnPrepareBlock: the first block of the next view, or of the next epoch, takes
\* the validator there first.
LEMMA PrepareBlock ==
    ASSUME Env, NEW s, Rests(s), NEW b \in proposed, NEW vc \in OptBlock,
           admitsPrepareBlock(s, b, vc), prepareBlock(s, b, vc).view.number <= MaxView
    PROVE  Steps(s, prepareBlock(s, b, vc))
  <1> DEFINE a == enterView(s, b, vc)
             u == Placed(a, BlockIndex[b], b)
             t == prepareBlock(s, b, vc)
  <1>0. /\ Good(s) /\ VotesWait(s) /\ ExecWaits(s) /\ s \in StateType
        /\ s.view.number \in Nat /\ s.view.epoch \in Nat /\ s.pool.epoch \in Nat
        /\ s.view.epoch <= s.pool.epoch /\ s.pool.epoch <= s.view.epoch + 1
    BY Zenon DEF Rests, Good, StateType, ViewType, PoolType, PoolOK
  <1>1. Epoch[b] \in Nat /\ ViewNumber[b] \in Nat /\ b \in Block
    BY Proposed, Zenon
  <1>2. t = IF verifyPrepareBlock(a, b, vc) THEN findExecutableBlock(u) ELSE a
    BY DEF prepareBlock, Placed
  <1>3. /\ Good(a) /\ VotesWait(a) /\ ExecWaits(a) /\ a.sent = s.sent /\ a.tree = s.tree
        /\ NotAfter(s.view.epoch, s.view.number, a.view.epoch, a.view.number)
        /\ InView(a, b) /\ BlockIndex[b] \in Index /\ a.view.blocks[BlockIndex[b]] = None
        /\ a.view.number <= MaxView => a.view.number = MaxView \/ ChangeWaits(a)
    <2>1. CASE PrepareBlockRules(s, b, vc) = "newView"
      <3>1. a = changeView(s, Epoch[b], ViewNumber[b], vc)
        BY <2>1, Zenon DEF enterView
      <3>2. EnableVerifyEpoch(s, Epoch[b])
        BY <2>1, Zenon DEF admitsPrepareBlock
      <3>3. Epoch[b] <= s.pool.epoch /\ s.pool.epoch <= Epoch[b] + 1
        BY <1>0, <1>1, <3>2 DEF EnableVerifyEpoch
      <3>4. /\ BlockIndex[b] = 0
            /\ \/ Epoch[b] > s.view.epoch
               \/ Epoch[b] = s.view.epoch /\ ViewNumber[b] = s.view.number + 1
        BY <2>1, Rules, Zenon
      <3>5. Signer!Before(s.view.epoch, s.view.number, Epoch[b], ViewNumber[b])
        BY <1>0, <1>1, <3>4 DEF Signer!Before
      <3>6. Leaving(s)
        BY <1>0, GoodLeaving, Zenon
      <3>7. Good(a) /\ Fresh(a) /\ Around(s, a)
            /\ a.view = newView(Epoch[b], ViewNumber[b], vc)
        BY <1>0, <1>1, <3>1, <3>3, <3>5, <3>6, Change
      <3>8. a.view.epoch = Epoch[b] /\ a.view.number = ViewNumber[b]
        BY <3>7 DEF newView
      <3>9. NotAfter(s.view.epoch, s.view.number, a.view.epoch, a.view.number)
        BY <1>0, <1>1, <3>4, <3>8 DEF NotAfter, Signer!NotAfter
      <3>10. VotesWait(a) /\ ExecWaits(a)
        BY <3>7, FreshFields, FreshExec, Zenon DEF VotesWait
      <3>11. a.view.number <= MaxView => ChangeWaits(a)
        <4>1. \/ s.view.epoch < a.view.epoch
              \/ a.view.epoch = s.view.epoch /\ s.view.number < a.view.number
          BY <1>0, <1>1, <3>4, <3>8
        <4> QED BY <3>7, <4>1, EnteredWaits, Zenon DEF Around
      <3>12. BlockIndex[b] \in Index /\ a.view.blocks[BlockIndex[b]] = None
        <4>1. BlockIndex[b] \in Index
          BY <3>4, Sizes
        <4> QED BY <3>7, <4>1, FreshFields, Zenon
      <3>13. InView(a, b)
        BY <3>8, Zenon DEF InView
      <3> QED BY <3>7, <3>9, <3>10, <3>11, <3>12, <3>13, Zenon DEF Around
    <2>2. CASE PrepareBlockRules(s, b, vc) # "newView"
      <3>1. a = s /\ PrepareBlockRules(s, b, vc) = "accept"
        BY <2>2, Zenon DEF enterView, admitsPrepareBlock
      <3>2. InView(s, b) /\ acceptIndexBlock(s, b)
        BY <3>1, Rules, Zenon
      <3>3. BlockIndex[b] \in Index /\ s.view.blocks[BlockIndex[b]] = None
        BY <3>2, Zenon DEF acceptIndexBlock
      <3>4. NotAfter(s.view.epoch, s.view.number, s.view.epoch, s.view.number)
        BY <1>0 DEF NotAfter, Signer!NotAfter
      <3> QED BY <1>0, <3>1, <3>2, <3>3, <3>4, Zenon DEF Rests
    <2> QED BY <2>1, <2>2, Zenon
  <1> HIDE DEF a
  <1>4. CASE ~verifyPrepareBlock(a, b, vc)
    <2>1. t = a
      BY <1>2, <1>4, Zenon
    <2>2. Ran(a, a)
      BY <1>3, Silent, Zenon
    <2>3. a.view.number = MaxView \/ ChangeWaits(a)
      BY <1>3, <2>1, Zenon
    <2> QED BY <1>0, <1>3, <2>1, <2>2, <2>3, Finish, Zenon
  <1>5. CASE verifyPrepareBlock(a, b, vc)
    <2>1. t = findExecutableBlock(u)
      BY <1>2, <1>5, Zenon
    <2>2. /\ Ran(a, u) /\ u.view.number = a.view.number
          /\ ChangeWaits(a) => ChangeWaits(u)
      BY <1>3, Place, Zenon
    <2> HIDE DEF u
    <2>3. /\ Ran(a, t) /\ ExecWaits(t) /\ t.view.number = u.view.number
          /\ ChangeWaits(u) => ChangeWaits(t)
      BY <2>1, <2>2, RanExec, Zenon
    <2>4. t.view.number = MaxView \/ ChangeWaits(t)
      BY <1>3, <2>2, <2>3, Zenon
    <2> HIDE DEF t
    <2>5. Steps(s, t)
      BY <1>0, <1>3, <2>3, <2>4, Finish, Zenon
    <2> QED BY <2>5, Zenon DEF t
  <1> QED BY <1>4, <1>5, Zenon

\* Only what was executed, and the queue of the executor, differ.
OnlyDone(s, t) ==
    /\ t \in StateType /\ t.tree = s.tree /\ t.pool = s.pool /\ t.fault = s.fault
    /\ t.view = s.view /\ t.sent.votes = s.sent.votes /\ t.sent.changes = s.sent.changes
    /\ s.sent.executed \subseteq t.sent.executed

\* More blocks executed do no harm.
LEMMA DoneMore ==
    ASSUME NEW s, Good(s), NEW t, OnlyDone(s, t)
    PROVE  /\ Good(t)
           /\ VotesWait(s) => VotesWait(t)
           /\ ExecWaits(s) => ExecWaits(t)
           /\ ChangeWaits(s) => ChangeWaits(t)
           /\ NotAfter(s.view.epoch, s.view.number, t.view.epoch, t.view.number)
  <1>1. More(s, t)
    BY Zenon DEF OnlyDone, More, Done
  <1>2. BlocksOK(t) /\ ExecutingOK(t) /\ ChangesOK(t) /\ ReportsOK(t)
    <2>1. /\ BlocksOK(s) /\ ExecutingOK(s) /\ ChangesOK(s) /\ ReportsOK(s)
          /\ t.view = s.view /\ t.tree = s.tree /\ t.sent.changes = s.sent.changes
      BY Zenon DEF Good, OnlyDone
    <2>2. BlocksOK(t)
      BY <2>1, Zenon DEF BlocksOK, InView
    <2>3. ExecutingOK(t)
      BY <2>1, Zenon DEF ExecutingOK
    <2>4. ChangesOK(t) /\ ReportsOK(t)
      BY <2>1, Zenon DEF ChangesOK, ReportsOK
    <2> QED BY <2>2, <2>3, <2>4, Zenon
  <1>3. Good(t)
    BY <1>1, <1>2, GoodMore, Zenon
  <1>4. /\ VotesWait(s) => VotesWait(t)
        /\ ExecWaits(s) => ExecWaits(t)
    <2>1. t.view = s.view /\ t.tree = s.tree
      BY Zenon DEF OnlyDone
    <2>2. FromQC(t) = FromQC(s) /\ From(t) = From(s)
      BY <2>1, Zenon DEF From, FromQC, MaxQCIndex
    <2>3. \A i : ViewBlockByIndex(t, i) = ViewBlockByIndex(s, i)
      BY <2>1, Zenon DEF ViewBlockByIndex
    <2>4. VotesWait(s) => VotesWait(t)
      BY <2>1, Zenon DEF VotesWait
    <2> QED BY <2>1, <2>2, <2>3, <2>4, Zenon DEF ExecWaits, NextUp
  <1>5. ChangeWaits(s) => ChangeWaits(t)
    <2>1. Enough(t) <=> Enough(s)
      BY Zenon DEF Enough, EpochEnded, ShouldSwitch, MaxQCIndex, OnlyDone
    <2>2. Settled(t) <=> Settled(s)
      BY Zenon DEF Settled, EpochEnded, EqualSwitchPoint, ShouldSwitch, OnlyDone
    <2>3. ChangesIn(t) = ChangesIn(s) /\ MaxReported(t) = MaxReported(s)
      BY Zenon DEF ChangesIn, MaxReported, OnlyDone
    <2>4. richViewChangeQC(t, MaxReported(t)) = richViewChangeQC(s, MaxReported(s))
      BY <2>3, Zenon DEF richViewChangeQC, OnlyDone
    <2>5. t.tree = s.tree
      BY Zenon DEF OnlyDone
    <2> QED BY <2>1, <2>2, <2>3, <2>4, <2>5, Zenon DEF ChangeWaits
  <1>6. s.view.number \in Nat
    BY Zenon DEF Good, StateType, ViewType
  <1> QED BY <1>3, <1>4, <1>5, <1>6 DEF OnlyDone, NotAfter, Signer!NotAfter

Answered(s, X) == [s EXCEPT !.tasks = Tail(@), !.sent.executed = X]

\* The fields after an answer of the executor.
LEMMA AnsweredFields ==
    ASSUME NEW s \in StateType, s.tasks # <<>>, NEW X \in SUBSET Block,
           s.sent.executed \subseteq X
    PROVE  LET t == Answered(s, X) IN OnlyDone(s, t) /\ t.sent.executed = X
  <1> DEFINE q == Tail(s.tasks)
             x == [s.sent EXCEPT !.executed = X]
             t == [s EXCEPT !.tasks = q, !.sent = x]
  <1>1. q \in Seq(Block) /\ s.sent \in SentType
    BY DEF StateType
  <1>2. x \in SentType /\ x.executed = X /\ x.votes = s.sent.votes
        /\ x.changes = s.sent.changes
    BY <1>1, Zenon DEF SentType
  <1>3. Answered(s, X) = t
    BY Zenon DEF Answered
  <1> HIDE DEF q, x
  <1>4. t \in StateType /\ t.sent = x /\ t.view = s.view /\ t.tree = s.tree
        /\ t.pool = s.pool /\ t.fault = s.fault
    BY <1>1, <1>2, Zenon DEF StateType
  <1> HIDE DEF t
  <1> QED BY <1>2, <1>3, <1>4, Zenon DEF OnlyDone

\* What findQCBlock needs of a block that was just signed.
LEMMA SignedLate ==
    ASSUME Env, NEW s, NEW a, Good(a), VotesWait(a), NEW b \in Block, Votes(a, b),
           a.sent.votes = s.sent.votes, a.sent.changes = s.sent.changes,
           a.view.epoch = s.view.epoch, a.view.number = s.view.number,
           a.view.own = s.view.own, a.view.deadline = s.view.deadline,
           a.tree = s.tree
    PROVE  LET t == signBlock(a, b)
           IN  /\ Good(t) /\ VotesWait(t) /\ Signs(s, t) /\ Holds(s, t) /\ Late(s, t)
               /\ Unsent(a, t)
  <1> DEFINE t == signBlock(a, b)
  <1>1. /\ Good(t) /\ VotesWait(t) /\ Unsent(a, t) /\ NewVotes(a, t)
        /\ \A d \in t.sent.votes \ a.sent.votes :
              \A h \in t.view.hadSend : h <= BlockIndex[d]
    BY Sign, Zenon
  <1> HIDE DEF t
  <1>2. Holds(s, t)
    BY <1>1, Zenon DEF Holds, Unsent
  <1>3. Signs(s, t)
    <2>1. Takes(a, t)
      BY <1>1, TakesNone, Zenon DEF Unsent
    <2>2. Takes(s, t)
      BY <2>1, Zenon DEF Takes
    <2> QED BY <1>1, <2>2, Zenon DEF Signs, NewVotes, Unsent, InView
  <1>4. Late(s, t)
    BY <1>1, Zenon DEF Late
  <1> QED BY <1>1, <1>2, <1>3, <1>4, Zenon DEF t

\* The execution is marked as finished.
LEMMA SetFinish ==
    ASSUME NEW x \in [index : Int, finish : BOOLEAN]
    PROVE  [x EXCEPT !.finish = TRUE] = [index |-> x.index, finish |-> TRUE]
  <1> DEFINE y == [x EXCEPT !.finish = TRUE]
             z == [index |-> x.index, finish |-> TRUE]
  <1>1. y \in [index : Int, finish : BOOLEAN] /\ y.index = x.index /\ y.finish = TRUE
    BY Zenon
  <1>2. z \in [index : Int, finish : BOOLEAN] /\ z.index = x.index /\ z.finish = TRUE
    BY Zenon
  <1> HIDE DEF y, z
  <1>3. y = z
    BY <1>1, <1>2
  <1> QED BY <1>3 DEF y, z

\* The result of the block being executed makes it one that is voted for.
LEMMA Executed ==
    ASSUME Env, NEW s, Good(s), VotesWait(s), NEW b \in Block, b \in s.sent.executed
    PROVE  LET t == executed(s, b)
           IN  Good(t) /\ VotesWait(t) /\ Signs(s, t) /\ Holds(s, t) /\ Late(s, t)
  <1> DEFINE x == s.view.executing
             y == [index |-> x.index, finish |-> TRUE]
             a == [s EXCEPT !.view.executing = y]
             t == executed(s, b)
  <1>0. /\ s \in StateType /\ x \in [index : Int, finish : BOOLEAN]
        /\ s.view.hadSend \subseteq Index /\ s.view.pending \in Seq(Block)
    BY Zenon DEF Good, StateType, ViewType
  <1>1. CASE ~(~x.finish /\ ViewBlockByIndex(s, x.index) = b)
    <2>1. t = s
      BY <1>1 DEF executed
    <2> QED BY <2>1, TakesNone, Zenon DEF Signs, Holds, Late
  <1>2. CASE ~x.finish /\ ViewBlockByIndex(s, x.index) = b
    <2>1. x.index \in Index /\ s.view.blocks[x.index] = b /\ b # None
      BY <1>2, Sizes, Zenon DEF ViewBlockByIndex
    <2>2. BlockIndex[b] = x.index
      BY <2>1, Zenon DEF Good, BlocksOK
    <2>3. t = signBlock(a, b)
      <3>1. [s EXCEPT !.view.executing.finish = TRUE] = a
        <4>1. [x EXCEPT !.finish = TRUE] = y
          <5> HIDE DEF x
          <5> QED BY <1>0, SetFinish
        <4>2. [s EXCEPT !.view.executing.finish = TRUE]
                = [s EXCEPT !.view.executing = [x EXCEPT !.finish = TRUE]]
          BY Zenon
        <4> QED BY <4>1, <4>2, Zenon
      <3> QED BY <1>2, <3>1 DEF executed
    <2>4. y \in [index : Int, finish : BOOLEAN] /\ y.index = x.index /\ y.finish = TRUE
      BY <1>0, Zenon
    <2> HIDE DEF y
    <2>5. OnlyExec(s, a) /\ a.view.executing = y
      BY <1>0, <2>4, ExecFields, Zenon
    <2> HIDE DEF a
    <2>6. ExecutingOK(a)
      BY <2>1, <2>4, <2>5, Zenon DEF Good, ExecutingOK, OnlyExec
    <2>7. /\ \A j \in Index : Done(s, j) => Done(a, j) /\ j < x.index
          /\ Done(a, x.index)
      BY <1>0, <1>2, <2>4, <2>5 DEF Done
    <2>8. Good(a)
      BY <2>5, <2>6, <2>7, GoodExec, Zenon
    <2>9. VotesWait(a)
      BY <2>5, ExecWaiting, Zenon
    <2>10. Votes(a, b)
      <3>1. \A h \in s.view.hadSend : h < x.index
        BY <1>0, <2>7, Zenon DEF Good, HadSendOK
      <3>2. \A j \in 1..Len(s.view.pending) : BlockIndex[s.view.pending[j]] < x.index
        BY <2>7, Zenon DEF Good, PendingOK
      <3> QED BY <2>1, <2>2, <2>5, <2>7, <3>1, <3>2, Zenon DEF Votes, OnlyExec
    <2>11. /\ a.sent.votes = s.sent.votes /\ a.sent.changes = s.sent.changes
           /\ a.view.epoch = s.view.epoch /\ a.view.number = s.view.number
           /\ a.view.own = s.view.own /\ a.view.deadline = s.view.deadline
           /\ a.tree = s.tree
      BY <2>5, Zenon DEF OnlyExec
    <2> QED BY <2>3, <2>8, <2>9, <2>10, <2>11, SignedLate, Zenon
  <1> QED BY <1>1, <1>2, Zenon

\* onAsyncExecuteStatus: a failure changes nothing but the queue.
LEMMA AsyncExecute ==
    ASSUME Env, NEW s, Rests(s), s.tasks # <<>>
    PROVE  LET b == Head(s.tasks)
               a == Answered(s, s.sent.executed \cup {b})
           IN  /\ Steps(s, findExecutableBlock(findQCBlock(executed(a, b))))
               /\ Steps(s, Answered(s, s.sent.executed))
  <1> DEFINE b == Head(s.tasks)
             a == Answered(s, s.sent.executed \cup {b})
             f == Answered(s, s.sent.executed)
             e == executed(a, b)
             u == findQCBlock(e)
             t == findExecutableBlock(u)
  <1>0. /\ Good(s) /\ VotesWait(s) /\ ExecWaits(s) /\ s \in StateType
        /\ s.view.number \in Nat /\ b \in Block
        /\ s.sent.executed \subseteq Block
        /\ NotAfter(s.view.epoch, s.view.number, s.view.epoch, s.view.number)
    <2>1. Good(s) /\ VotesWait(s) /\ ExecWaits(s) /\ s \in StateType
      BY Zenon DEF Rests, Good
    <2>2. s.view.number \in Nat /\ s.sent.executed \subseteq Block
      BY <2>1, Zenon DEF StateType, ViewType, SentType
    <2>3. b \in Block
      <3>1. s.tasks \in Seq(Block)
        BY <2>1, Zenon DEF StateType
      <3> QED BY <3>1
    <2> QED BY <2>1, <2>2, <2>3 DEF NotAfter, Signer!NotAfter
  <1>1. Steps(s, f)
    <2>1. OnlyDone(s, f) /\ f.sent.executed = s.sent.executed
      BY <1>0, AnsweredFields, Zenon
    <2> HIDE DEF f
    <2>2. Good(f) /\ VotesWait(f) /\ ExecWaits(f) /\ (ChangeWaits(s) => ChangeWaits(f))
      BY <1>0, <2>1, DoneMore, Zenon
    <2>3. Ran(s, f)
      BY <1>0, <2>1, <2>2, TakesNone, Zenon DEF Ran, Signs, OnlyDone
    <2>4. f.view.number = MaxView \/ ChangeWaits(f)
      BY <2>1, <2>2, Zenon DEF Rests, OnlyDone
    <2> QED BY <1>0, <2>2, <2>3, <2>4, Finish, Zenon
  <1>2. Steps(s, t)
    <2>1. OnlyDone(s, a) /\ b \in a.sent.executed
      <3> HIDE DEF b
      <3>1. s.sent.executed \cup {b} \in SUBSET Block
        BY <1>0, Zenon
      <3> QED BY <1>0, <3>1, AnsweredFields, Zenon
    <2> HIDE DEF a, b
    <2>2. Good(a) /\ VotesWait(a)
          /\ NotAfter(s.view.epoch, s.view.number, a.view.epoch, a.view.number)
      BY <1>0, <2>1, DoneMore, Zenon
    <2>3. Good(e) /\ VotesWait(e) /\ Signs(a, e) /\ Holds(a, e) /\ Late(a, e)
      BY <1>0, <2>1, <2>2, Executed, Zenon
    <2> HIDE DEF e
    <2>4. a \in StateType
      BY <2>2, Zenon DEF Good
    <2>5. Ran(a, u) /\ ChangeWaits(u)
      BY <2>3, <2>4, FindQC, Zenon
    <2> HIDE DEF u
    <2>6. Ran(a, t) /\ ExecWaits(t) /\ ChangeWaits(t)
      BY <2>5, RanExec, Zenon
    <2> HIDE DEF t
    <2> QED BY <1>0, <2>1, <2>2, <2>6, Finish, Zenon DEF OnlyDone
  <1> QED BY <1>1, <1>2, Zenon

\* The next index of the view is beyond every block of it.
LEMMA NextIndex ==
    ASSUME Env, NEW s, Good(s)
    PROVE  LET i == NextViewBlockIndex(s)
           IN  /\ i \in Nat
               /\ \A j \in Index : s.view.blocks[j] # None => j < i
               /\ i > 0 => i - 1 \in Index /\ s.view.blocks[i - 1] # None
               /\ s.view.executing.index < i
               /\ \A j \in Index : Done(s, j) => j < i
  <1> DEFINE S == {j \in Index : s.view.blocks[j] # None}
             i == NextViewBlockIndex(s)
  <1>1. /\ S = {} => MaxOf(S) = -1
        /\ S # {} => MaxOf(S) \in S
        /\ \A j \in S : j <= MaxOf(S)
        /\ MaxOf(S) \in Int /\ -1 <= MaxOf(S)
    <2>1. S \in SUBSET Index
      BY Zenon
    <2> HIDE DEF S
    <2> QED BY <2>1, MaxOfIndex, Zenon
  <1>2. i = MaxOf(S) + 1
    BY Zenon DEF NextViewBlockIndex
  <1> HIDE DEF i
  <1>3. i \in Nat /\ \A j \in Index : s.view.blocks[j] # None => j < i
    <2>1. \A j \in Index : j \in Int
      BY Sizes
    <2>2. \A j \in Index : s.view.blocks[j] # None => j <= MaxOf(S)
      BY <1>1, Zenon
    <2> HIDE DEF S
    <2> QED BY <1>1, <1>2, <2>1, <2>2
  <1>4. i > 0 => i - 1 \in Index /\ s.view.blocks[i - 1] # None
    <2> SUFFICES ASSUME i > 0 PROVE i - 1 \in Index /\ s.view.blocks[i - 1] # None
      BY Zenon
    <2>1. i - 1 = MaxOf(S) /\ MaxOf(S) # -1
      BY <1>1, <1>2
    <2> QED BY <1>1, <2>1, Zenon
  <1>5. s.view.executing.index < i /\ s.view.executing.index \in Int
    BY <1>3 DEF Good, StateType, ViewType, ExecutingOK, NoIndex
  <1>6. \A j \in Index : Done(s, j) => j < i
    <2>1. \A j \in Index : j \in Int
      BY Sizes
    <2> QED BY <1>3, <1>5, <2>1 DEF Done
  <1> QED BY <1>3, <1>4, <1>5, <1>6, Zenon DEF i

\* OnSeal for a block that is not accepted: the index before it is executed.
LEMMA SealFails ==
    ASSUME Env, NEW s, Rests(s)
    PROVE  Steps(s, [s EXCEPT !.view.executing =
                        [index |-> NextViewBlockIndex(s) - 1, finish |-> TRUE]])
  <1> DEFINE i == NextViewBlockIndex(s)
             x == [index |-> i - 1, finish |-> TRUE]
             t == [s EXCEPT !.view.executing = x]
  <1>0. /\ Good(s) /\ VotesWait(s) /\ s \in StateType
        /\ s.view.number \in Nat /\ s.view.qcs \subseteq Index
        /\ NotAfter(s.view.epoch, s.view.number, s.view.epoch, s.view.number)
    <2>1. Good(s) /\ VotesWait(s) /\ s \in StateType
      BY Zenon DEF Rests, Good
    <2>2. s.view.number \in Nat /\ s.view.qcs \subseteq Index
      BY <2>1, Zenon DEF StateType, ViewType
    <2> QED BY <2>1, <2>2 DEF NotAfter, Signer!NotAfter
  <1>1. /\ i \in Nat
        /\ \A j \in Index : s.view.blocks[j] # None => j < i
        /\ i > 0 => i - 1 \in Index /\ s.view.blocks[i - 1] # None
        /\ s.view.executing.index < i
        /\ \A j \in Index : Done(s, j) => j < i
    BY <1>0, NextIndex, Zenon
  <1> HIDE DEF i
  <1>2. x \in [index : Int, finish : BOOLEAN] /\ x.index = i - 1 /\ x.finish = TRUE
    BY <1>1
  <1> HIDE DEF x
  <1>3. OnlyExec(s, t) /\ t.view.executing = x
    BY <1>0, <1>2, ExecFields
  <1> HIDE DEF t
  <1>4. t.view.executing.index = i - 1 /\ t.view.executing.finish = TRUE
        /\ t.view.blocks = s.view.blocks /\ t.view.qcs = s.view.qcs
    BY <1>2, <1>3, Zenon DEF OnlyExec
  <1>5. ExecutingOK(t)
    BY <1>1, <1>4 DEF ExecutingOK, NoIndex
  <1>6. \A j \in Index : Done(s, j) => Done(t, j)
    <2>1. \A j \in Index : j \in Int
      BY Sizes
    <2> QED BY <1>1, <1>4, <2>1 DEF Done
  <1>7. Good(t)
    BY <1>0, <1>3, <1>5, <1>6, GoodExec, Zenon
  <1>8. VotesWait(t) /\ (ChangeWaits(s) => ChangeWaits(t))
    BY <1>0, <1>3, ExecWaiting, Zenon
  <1>9. From(t) = i - 1
    <2>1. CASE i = 0
      <3>1. \A j \in s.view.qcs : s.view.blocks[j] # None
        BY <1>0, Zenon DEF Good, BlocksOK
      <3>2. s.view.qcs = {}
        BY <1>0, <1>1, <2>1, <3>1, Sizes
      <3> QED BY <1>4, <3>2, Zenon DEF From, FromQC, MaxQCIndex, MaxOf
    <2>2. CASE i # 0
      BY <1>1, <1>4, <2>2 DEF From, FromQC, NoIndex
    <2> QED BY <2>1, <2>2, Zenon
  <1>10. ExecWaits(t)
    <2>1. From(t) + 1 = i
      BY <1>1, <1>9
    <2>2. i \in Index => s.view.blocks[i] = None
      BY <1>1
    <2> QED BY <1>4, <2>1, <2>2, Zenon DEF ExecWaits, NextUp, ViewBlockByIndex
  <1>11. Ran(s, t)
    BY <1>0, <1>3, <1>7, <1>8, Silent, Zenon DEF OnlyExec
  <1>12. t.view.number = MaxView \/ ChangeWaits(t)
    BY <1>3, <1>8, Zenon DEF Rests, OnlyExec
  <1>13. Steps(s, t)
    BY <1>0, <1>10, <1>11, <1>12, Finish, Zenon
  <1> QED BY <1>13 DEF t, x, i

Credited(s, b) == [s EXCEPT !.sent.executed = @ \cup {b}]

\* The fields when a block counts as executed.
LEMMA CreditedFields ==
    ASSUME NEW s \in StateType, NEW b \in Block
    PROVE  LET t == Credited(s, b)
           IN  OnlyDone(s, t) /\ t.sent.executed = s.sent.executed \cup {b}
  <1> DEFINE X == s.sent.executed \cup {b}
             x == [s.sent EXCEPT !.executed = X]
             t == [s EXCEPT !.sent = x]
  <1>1. s.sent \in SentType
    BY Zenon DEF StateType
  <1>2. x \in SentType /\ x.executed = X /\ x.votes = s.sent.votes
        /\ x.changes = s.sent.changes
    BY <1>1, Zenon DEF SentType
  <1>3. Credited(s, b) = t
    BY Zenon DEF Credited
  <1> HIDE DEF x
  <1>4. t \in StateType /\ t.sent = x /\ t.view = s.view /\ t.tree = s.tree
        /\ t.pool = s.pool /\ t.fault = s.fault
    BY <1>2, Zenon DEF StateType
  <1> HIDE DEF t
  <1> QED BY <1>2, <1>3, <1>4, Zenon DEF OnlyDone

\* The rules and the verification of a block do not look at the execution.
LEMMA RulesExec ==
    ASSUME NEW s, NEW t, OnlyExec(s, t), NEW b, NEW vc
    PROVE  /\ PrepareBlockRules(t, b, vc) = PrepareBlockRules(s, b, vc)
           /\ verifyPrepareBlock(t, b, vc) = verifyPrepareBlock(s, b, vc)
  <1>1. /\ t.view.epoch = s.view.epoch /\ t.view.number = s.view.number
        /\ t.view.blocks = s.view.blocks /\ t.view.qcs = s.view.qcs
        /\ t.view.deadline = s.view.deadline /\ t.tree = s.tree /\ t.pool = s.pool
    BY Zenon DEF OnlyExec
  <1>2. /\ isQCChild(t, b) = isQCChild(s, b) /\ isLockChild(t, b) = isLockChild(s, b)
        /\ InView(t, b) = InView(s, b)
    BY <1>1, Zenon DEF isQCChild, isLockChild, InView
  <1>3. acceptViewChangeQC(t, b, vc) = acceptViewChangeQC(s, b, vc)
    BY <1>1, Zenon DEF acceptViewChangeQC, MaxQCIndex, EqualSwitchPoint
  <1>4. acceptIndexBlock(t, b) = acceptIndexBlock(s, b)
    BY <1>1, <1>2, Zenon DEF acceptIndexBlock
  <1>5. PrepareBlockRules(t, b, vc) = PrepareBlockRules(s, b, vc)
    BY <1>1, <1>2, <1>3, <1>4, Zenon DEF PrepareBlockRules
  <1>6. checkViewChangeQC(t, b, vc) = checkViewChangeQC(s, b, vc)
    BY <1>1, Zenon DEF checkViewChangeQC, EqualSwitchPoint
  <1>7. verifyPrepareBlock(t, b, vc) = verifyPrepareBlock(s, b, vc)
    BY <1>1, <1>6, Zenon DEF verifyPrepareBlock, EnableVerifyEpoch
  <1> QED BY <1>5, <1>7, Zenon

\* OnSeal for a block that is accepted: it counts as executed and is signed.
LEMMA Seal ==
    ASSUME Env, NEW s, Rests(s), NEW b \in proposed, NEW vc,
           InView(s, b), BlockIndex[b] = NextViewBlockIndex(s),
           PrepareBlockRules(s, b, vc) = "accept", verifyPrepareBlock(s, b, vc)
    PROVE  LET try == [s EXCEPT !.view.executing =
                          [index |-> NextViewBlockIndex(s), finish |-> TRUE]]
           IN  Steps(s, findQCBlock(signBlock(Credited(prepareBlock(try, b, vc), b), b)))
  <1> DEFINE i == NextViewBlockIndex(s)
             x == [index |-> i, finish |-> TRUE]
             try == [s EXCEPT !.view.executing = x]
             p == Placed(try, i, b)
             a == Credited(p, b)
             g == signBlock(a, b)
             t == findQCBlock(g)
  <1>0. /\ Good(s) /\ VotesWait(s) /\ s \in StateType
        /\ s.view.number \in Nat /\ s.view.hadSend \subseteq Index
        /\ s.view.pending \in Seq(Block)
        /\ NotAfter(s.view.epoch, s.view.number, s.view.epoch, s.view.number)
        /\ b \in Block /\ b # None
    <2>1. Good(s) /\ VotesWait(s) /\ s \in StateType
      BY Zenon DEF Rests, Good
    <2>2. /\ s.view.number \in Nat /\ s.view.hadSend \subseteq Index
          /\ s.view.pending \in Seq(Block)
      BY <2>1, Zenon DEF StateType, ViewType
    <2> QED BY <2>1, <2>2, Proposed, Sizes DEF NotAfter, Signer!NotAfter
  <1>1. /\ i \in Nat
        /\ \A j \in Index : s.view.blocks[j] # None => j < i
        /\ s.view.executing.index < i
        /\ \A j \in Index : Done(s, j) => j < i
    BY <1>0, NextIndex, Zenon
  <1>2. i \in Index /\ s.view.blocks[i] = None
    <2>1. acceptIndexBlock(s, b)
      BY Rules, Zenon
    <2> QED BY <2>1, Zenon DEF acceptIndexBlock
  <1>3. x \in [index : Int, finish : BOOLEAN] /\ x.index = i /\ x.finish = TRUE
    BY <1>1
  <1>4. BlockIndex[b] = i
    BY Zenon
  <1> HIDE DEF i
  <1> HIDE DEF x
  <1>5. OnlyExec(s, try) /\ try.view.executing = x
    BY <1>0, <1>3, ExecFields, Zenon
  <1>6. prepareBlock(try, b, vc) = findExecutableBlock(p)
    <2> HIDE DEF try
    <2>1. PrepareBlockRules(try, b, vc) = "accept" /\ verifyPrepareBlock(try, b, vc)
      BY <1>5, RulesExec
    <2>2. enterView(try, b, vc) = try
      BY <2>1, Zenon DEF enterView
    <2> QED BY <1>4, <2>1, <2>2, Zenon DEF prepareBlock, Placed
  <1> HIDE DEF try
  <1>7. /\ p \in StateType /\ Around(try, p) /\ SameView(try, p)
        /\ p.view.qcs = try.view.qcs
        /\ \A j \in Index : p.view.blocks[j] = IF j = i THEN b ELSE try.view.blocks[j]
    <2>1. try \in StateType
      BY <1>5, Zenon DEF OnlyExec
    <2> QED BY <1>0, <1>2, <2>1, PlacedFields, Zenon
  <1> HIDE DEF p
  <1>8. OnlyDone(p, a) /\ a.sent.executed = p.sent.executed \cup {b}
    BY <1>0, <1>7, CreditedFields, Zenon
  <1>9. /\ p.tree = s.tree /\ p.pool = s.pool /\ p.fault = s.fault /\ p.sent = s.sent
        /\ p.view.epoch = s.view.epoch /\ p.view.number = s.view.number
        /\ p.view.executing = x /\ p.view.pending = s.view.pending
        /\ p.view.hadSend = s.view.hadSend /\ p.view.votes = s.view.votes
        /\ p.view.own = s.view.own /\ p.view.changes = s.view.changes
        /\ p.view.maxChange = s.view.maxChange /\ p.view.deadline = s.view.deadline
        /\ p.view.qcs = s.view.qcs
        /\ \A j \in Index : p.view.blocks[j] = IF j = i THEN b ELSE s.view.blocks[j]
    BY <1>5, <1>7, Zenon DEF Around, SameView, SameFields, OnlyExec
  <1>10. ExecWaits(p)
    <2>1. From(p) = i
      <3>1. p.view.executing.index = i
        BY <1>3, <1>9, Zenon
      <3>2. i # NoIndex
        BY <1>1 DEF NoIndex
      <3> QED BY <3>1, <3>2, Zenon DEF From, FromQC
    <2>2. i + 1 \in Index => p.view.blocks[i + 1] = None
      <3> SUFFICES ASSUME i + 1 \in Index PROVE p.view.blocks[i + 1] = None
        BY Zenon
      <3>1. i + 1 # i /\ ~(i + 1 < i)
        BY <1>1
      <3> QED BY <1>1, <1>9, <3>1, Zenon
    <2> QED BY <2>1, <2>2, Zenon DEF ExecWaits, NextUp, ViewBlockByIndex
  <1>11. prepareBlock(try, b, vc) = p
    BY <1>6, <1>10, ExecIdle, Zenon
  <1> HIDE DEF a
  <1>12. /\ a \in StateType /\ a.tree = s.tree /\ a.pool = s.pool /\ a.fault = s.fault
         /\ a.view = p.view /\ a.sent.votes = s.sent.votes
         /\ a.sent.changes = s.sent.changes
         /\ a.sent.executed = s.sent.executed \cup {b}
    BY <1>8, <1>9, Zenon DEF OnlyDone
  <1>13. More(s, a)
    <2>1. \A j \in Index : s.view.blocks[j] # None => a.view.blocks[j] = s.view.blocks[j]
      BY <1>2, <1>9, <1>12, Zenon
    <2>2. \A j \in Index : Done(s, j) => Done(a, j)
      <3>1. \A j \in Index : j \in Int
        BY Sizes
      <3>2. a.view.executing = x
        BY <1>9, <1>12, Zenon
      <3>3. \A j \in Index : j < i => j <= x.index
        BY <1>1, <1>3, <3>1
      <3> QED BY <1>1, <1>3, <3>2, <3>3, Zenon DEF Done
    <2> QED BY <1>9, <1>12, <2>1, <2>2, Zenon DEF More
  <1>14. BlocksOK(a)
    <2>1. InView(s, b)
      BY Zenon
    <2>2. /\ a.view.qcs = s.view.qcs /\ a.view.votes = s.view.votes
          /\ a.view.epoch = s.view.epoch /\ a.view.number = s.view.number
          /\ \A j \in Index : a.view.blocks[j] = IF j = i THEN b ELSE s.view.blocks[j]
      BY <1>9, <1>12, Zenon
    <2>3. Good(s) /\ a.tree = s.tree
      BY <1>0, <1>12, Zenon
    <2> QED BY <1>2, <1>4, <2>1, <2>2, <2>3, PlacedBlocks
  <1>15. ExecutingOK(a)
    <2>1. a.view.executing = x /\ a.view.blocks[i] = b
      BY <1>2, <1>9, <1>12, Zenon
    <2>2. x.index >= NoIndex /\ x.index \in Index
      BY <1>1, <1>2, <1>3 DEF NoIndex
    <2> QED BY <1>0, <1>3, <2>1, <2>2, Zenon DEF ExecutingOK
  <1>16. ChangesOK(a) /\ ReportsOK(a)
    <2>1. ChangesOK(s) /\ ReportsOK(s)
      BY <1>0, Zenon DEF Good
    <2>2. /\ a.view.epoch = s.view.epoch /\ a.view.number = s.view.number
          /\ a.view.own = s.view.own /\ a.view.changes = s.view.changes
          /\ a.view.maxChange = s.view.maxChange /\ a.view.deadline = s.view.deadline
          /\ a.tree.qc = s.tree.qc
      BY <1>9, <1>12, Zenon
    <2>3. ChangesOK(a)
      BY <2>1, <2>2, Zenon DEF ChangesOK
    <2>4. ReportsOK(a)
      BY <1>12, <2>1, <2>2, Zenon DEF ReportsOK
    <2> QED BY <2>3, <2>4, Zenon
  <1>17. Good(a)
    BY <1>0, <1>13, <1>14, <1>15, <1>16, GoodMore, Zenon
  <1>18. VotesWait(a)
    BY <1>0, <1>9, <1>12, Zenon DEF VotesWait
  <1>19. Votes(a, b)
    <2>1. \A h \in s.view.hadSend : h < i
      BY <1>0, <1>1, Zenon DEF Good, HadSendOK
    <2>2. \A j \in 1..Len(s.view.pending) : BlockIndex[s.view.pending[j]] < i
      BY <1>0, <1>1, Zenon DEF Good, PendingOK
    <2>3. Done(a, i) /\ a.view.blocks[i] = b
      <3>1. a.view.executing = x /\ a.view.blocks[i] = b
        BY <1>2, <1>9, <1>12, Zenon
      <3>2. i <= x.index
        BY <1>1, <1>3
      <3> QED BY <1>3, <3>1, <3>2, Zenon DEF Done
    <2> QED BY <1>2, <1>4, <1>9, <1>12, <2>1, <2>2, <2>3, Zenon DEF Votes
  <1>20. /\ a.view.epoch = s.view.epoch /\ a.view.number = s.view.number
         /\ a.view.own = s.view.own /\ a.view.deadline = s.view.deadline
    BY <1>9, <1>12, Zenon
  <1>21. /\ Good(g) /\ VotesWait(g) /\ Signs(s, g) /\ Holds(s, g) /\ Late(s, g)
         /\ Unsent(a, g)
    BY <1>0, <1>12, <1>17, <1>18, <1>19, <1>20, SignedLate, Zenon
  <1> HIDE DEF g
  <1>22. ExecWaits(g)
    <2>1. p.view.executing.index \in Nat
      BY <1>1, <1>3, <1>9, Zenon
    <2>2. g.view.executing = p.view.executing /\ g.view.blocks = p.view.blocks
      BY <1>12, <1>21, Zenon DEF Unsent
    <2> QED BY <1>10, <2>1, <2>2, ExecSame, Zenon
  <1>23. Ran(s, t) /\ ChangeWaits(t) /\ ExecWaits(t)
    BY <1>0, <1>21, <1>22, FindQC, Zenon
  <1> HIDE DEF t
  <1>24. Steps(s, t)
    BY <1>0, <1>23, Finish, Zenon
  <1> QED BY <1>11, <1>24 DEF t, g, a, try, x, i
=============================================================================

-------------------------- MODULE CbftNode_proofs --------------------------
(***************************************************************************)
(* The validator of CbftNode: its invariants, its action properties, and   *)
(* that it implements Voter.  The lemmas on its handlers are those of      *)
(* CbftHandlers_proofs; what is left is the induction over its behaviours. *)
(***************************************************************************)
EXTENDS CbftHandlers_proofs, WellFoundedInduction

-----------------------------------------------------------------------------
(* Numbers *)

\* The least-number principle.
LEMMA LeastNumber == WellOrdered
  <1> SUFFICES ASSUME NEW T \in SUBSET Nat, T # {}
               PROVE  \E x \in T : \A y \in T : x <= y
    BY Zenon DEF WellOrdered
  <1> DEFINE R == {ss \in Nat \X Nat : ss[1] < ss[2]}
  <1>1. IsWellFoundedOn(R, Nat)
    BY NatLessThanWellFounded, Zenon DEF OpToRel
  <1>2. PICK x \in T : \A y \in T : ~(<<y, x>> \in R)
    BY <1>1, WFMin, Zenon
  <1>3. ASSUME NEW y \in T PROVE x <= y
    <2>1. x \in Nat /\ y \in Nat
      BY Zenon
    <2>2. <<y, x>> \in Nat \X Nat /\ <<y, x>>[1] = y /\ <<y, x>>[2] = x
      BY <2>1
    <2>3. ~(y < x)
      BY <1>2, <1>3, <2>2, Zenon
    <2> QED
      BY <2>1, <2>3
  <1> QED
    BY <1>3

-----------------------------------------------------------------------------
(* The specification *)

(* The inductive invariant.                                                 *)
IInv == Env /\ Rests(State)

\* The state record is the variables.
LEMMA Fields ==
    /\ State.view = view /\ State.tree = tree /\ State.pool = pool /\ State.tasks = tasks
    /\ State.sent = sent /\ State.fault = fault
  BY Zenon DEF State

\* The invariant holds at the start.
LEMMA Start ==
    ASSUME Init
    PROVE  IInv
  <1>1. Env
    <2>1. PICK O \in Outcomes : proposed = O.proposed /\ certified = O.certified
      BY Zenon DEF Init
    <2> QED BY <2>1, NodeAssumption, LeastNumber, Zenon DEF Env
  <1> DEFINE w == newView(1, 0, None)
  <1>2. /\ w \in ViewType
        /\ w.epoch = 1 /\ w.number = 0 /\ w.executing = [index |-> -1, finish |-> FALSE]
        /\ w.blocks = [i \in Index |-> None] /\ w.qcs = {} /\ w.pending = <<>>
        /\ w.hadSend = {} /\ w.votes = [i \in Index |-> 0] /\ w.own = None
        /\ w.changes = 0 /\ w.maxChange = None
    BY Sizes DEF newView, NoIndex, ViewType, OptBlock
  <1>3. view = w /\ State \in StateType
    <2>1. view \in ViewType /\ view = w
      BY <1>2, Zenon DEF Init
    <2>2. tree \in TreeType /\ pool \in PoolType /\ sent \in SentType /\ tasks \in Seq(Block)
          /\ fault = {}
      BY BlockAssumption, NodeAssumption DEF Init, TreeType, PoolType, SentType
    <2> QED BY <2>1, <2>2, Zenon DEF State, StateType
  <1>4. Fresh(State)
    BY <1>3, Fields, Zenon DEF Fresh, OptBlock
  <1> HIDE DEF w
  <1>5. TreeOK(State)
    <2>1. \A n : ~HigherQuorumCert(Genesis, Genesis)
      BY BlockAssumption, HigherStrict, Zenon
    <2>2. ViewNumber[Genesis] \in Nat /\ Number[Genesis] = 0
      BY BlockAssumption, Zenon
    <2>3. tree.blocks = {Genesis} /\ tree.root = Genesis /\ tree.qc = Genesis
          /\ tree.lock = Genesis /\ tree.commit = Genesis
      BY Zenon DEF Init
    <2>4. Bounded(State)
      BY <2>2, <2>3, Fields DEF Bounded
    <2> QED BY <2>1, <2>2, <2>3, <2>4, Fields DEF TreeOK, Rooted, Highest, Behind
  <1>6. BlocksOK(State)
    BY <1>2, <1>3, Fields, Sizes DEF BlocksOK
  <1>7. /\ ExecutingOK(State) /\ PendingOK(State) /\ HadSendOK(State) /\ ChangesOK(State)
        /\ VotesWait(State)
    BY <1>2, <1>3, Fields DEF ExecutingOK, PendingOK, HadSendOK, ChangesOK, NoIndex, VotesWait
  <1>8. PoolOK(State)
    <2>1. End(0) = 0 /\ End(1) = EpochSize
      BY NodeAssumption DEF End
    <2>2. pool.epoch = 1 /\ pool.switchPoint = 0 /\ pool.lastNumber = EpochSize
      BY Zenon DEF Init
    <2> QED BY <1>2, <1>3, <2>1, <2>2, Fields DEF PoolOK
  <1>9. VotesOK(State) /\ ReportsOK(State) /\ State.fault = {}
    BY Fields DEF Init, VotesOK, ReportsOK
  <1>10. Good(State)
    BY <1>3, <1>5, <1>6, <1>7, <1>8, <1>9, Zenon DEF Good
  <1>11. ChangeWaits(State)
    <2>1. tree.qc = Genesis /\ Number[Genesis] = 0
      BY BlockAssumption, Zenon DEF Init
    <2>2. ~Enough(State)
      BY <1>2, <1>3, <2>1, Fields, Sizes DEF Enough, EpochEnded, MaxQCIndex, MaxOf, NoIndex
    <2>3. Settled(State)
      BY <2>1, Fields, Zenon DEF Settled, ShouldSwitch, EpochEnded
    <2>4. ChangesIn(State) < threshold
      BY <1>2, <1>3, Fields, Sizes DEF ChangesIn
    <2> QED BY <2>2, <2>3, <2>4, Zenon DEF ChangeWaits
  <1>12. ExecWaits(State)
    BY <1>4, FreshExec, Zenon
  <1> QED BY <1>1, <1>7, <1>10, <1>11, <1>12, Zenon DEF IInv, Rests

Trying(s, i) == [s EXCEPT !.view.executing = [index |-> i, finish |-> TRUE]]

PutBack(s, i) == [s EXCEPT !.view.executing.index = i]

\* OnSeal puts the execution back by its index.
LEMMA TryFails ==
    ASSUME NEW s \in StateType, NEW i, NEW j
    PROVE  PutBack(Trying(s, i), j) = Trying(s, j)
  <1> DEFINE x == [index |-> i, finish |-> TRUE]
             y == [index |-> j, finish |-> TRUE]
             u == [s EXCEPT !.view.executing = x]
  <1>1. [x EXCEPT !.index = j] = y
    <2> DEFINE z == [x EXCEPT !.index = j]
    <2>1. /\ z = [k \in DOMAIN z |-> z[k]] /\ DOMAIN z = {"index", "finish"}
          /\ z.index = j /\ z.finish = TRUE
      BY Zenon
    <2>2. /\ y = [k \in DOMAIN y |-> y[k]] /\ DOMAIN y = {"index", "finish"}
          /\ y.index = j /\ y.finish = TRUE
      BY Zenon
    <2> HIDE DEF z, y
    <2>3. z = y
      <3>1. DOMAIN z = DOMAIN y /\ \A k \in DOMAIN z : z[k] = y[k]
        BY <2>1, <2>2, Zenon
      <3>2. [k \in DOMAIN z |-> z[k]] = [k \in DOMAIN y |-> y[k]]
        BY <3>1, Zenon
      <3> QED BY <2>1, <2>2, <3>2, Zenon
    <2> QED BY <2>3, Zenon DEF z, y
  <1>2. u = [s EXCEPT !.view = [s.view EXCEPT !.executing = x]]
    BY Zenon
  <1>3. u.view = [s.view EXCEPT !.executing = x]
    BY <1>2, Zenon DEF StateType
  <1>4. u.view.executing = x
    BY <1>3, Zenon DEF StateType, ViewType
  <1> QED
    BY <1>1, <1>2, <1>3, <1>4, Zenon DEF StateType, ViewType, PutBack, Trying

\* Every handler leaves the validator at rest and signs what Voter allows.
Handles ==
    \E t : Handled(t) /\ Steps(State, t) /\ UNCHANGED <<proposed, certified>>

\* Every message, timer, executor result and miner call has such a t.
LEMMA EveryHandler ==
    ASSUME IInv, Next
    PROVE  Handles
  <1>0. Env /\ Rests(State) /\ Good(State)
    BY Zenon DEF IInv, Rests
  <1>1. ASSUME NEW b \in Block, NEW vc \in OptBlock, OnPrepareBlock(b, vc)
        PROVE  Handles
    <2> DEFINE t == prepareBlock(State, b, vc)
    <2>1. b \in proposed /\ admitsPrepareBlock(State, b, vc) /\ Handled(t)
          /\ UNCHANGED <<proposed, certified>> /\ t.view.number <= MaxView
      BY <1>1, Zenon DEF OnPrepareBlock, Foreign, Handled
    <2>2. Steps(State, t)
      BY <1>0, <2>1, PrepareBlock, Zenon
    <2> QED BY <2>1, <2>2, Zenon DEF Handles
  <1>2. ASSUME NEW b \in Block, OnPrepareVote(b)
        PROVE  Handles
    <2> DEFINE a == Voted(State, BlockIndex[b])
               t == findQCBlock(IF Number[b] = 1 THEN a ELSE insertPrepareQC(a, Parent[b]))
    <2>1. b \in proposed /\ acceptVote(State, b) /\ Handled(t)
          /\ UNCHANGED <<proposed, certified>>
          /\ Parent[b] \in certified \cup {Genesis}
      BY <1>2, Zenon DEF OnPrepareVote, Votable, Foreign, Voted
    <2>2. State.view.votes[BlockIndex[b]] + 2 >= threshold => b \in certified
      BY <1>2, Fields, Zenon DEF OnPrepareVote, Votable
    <2>3. Steps(State, t)
      BY <1>0, <2>1, <2>2, PrepareVote, Zenon
    <2> QED BY <2>1, <2>3, Zenon DEF Handles
  <1>3. ASSUME NEW m \in Block, OnViewChange(m)
        PROVE  Handles
    <2> DEFINE t == tryChangeView(Reported(State, m))
    <2>1. m \in certified \cup {Genesis} /\ Handled(t) /\ UNCHANGED <<proposed, certified>>
      BY <1>3, Zenon DEF OnViewChange, Reportable, Certificate, Reported
    <2>2. Steps(State, t)
      BY <1>0, <2>1, ViewChange, Zenon
    <2> QED BY <2>1, <2>2, Zenon DEF Handles
  <1>4. ASSUME NEW m \in Block, OnViewChangeQuorumCert(m)
        PROVE  Handles
    <2> DEFINE t == tryChangeViewByViewChange(State, m)
    <2>1. m \in certified \cup {Genesis} /\ Handled(t) /\ UNCHANGED <<proposed, certified>>
          /\ t.view.number <= MaxView
      BY <1>4, Zenon DEF OnViewChangeQuorumCert, Reportable, Certificate, Handled
    <2>2. Steps(State, t)
      BY <1>0, <2>1, ViewChangeQC, Zenon
    <2> QED BY <2>1, <2>2, Zenon DEF Handles
  <1>5. ASSUME NEW b \in Block, OnBlockQuorumCert(b)
        PROVE  Handles
    <2> DEFINE t == insertPrepareQC(State, b)
    <2>1. b \in certified /\ ViewBlockByIndex(State, BlockIndex[b]) = b /\ Handled(t)
          /\ UNCHANGED <<proposed, certified>>
      BY <1>5, Zenon DEF OnBlockQuorumCert, Certificate
    <2>2. Steps(State, t)
      BY <1>0, <2>1, BlockQC, Zenon
    <2> QED BY <2>1, <2>2, Zenon DEF Handles
  <1>6. ASSUME NEW b \in Block, OnInsertQCBlock(b)
        PROVE  Handles
    <2> DEFINE a == IF QCBlockRules(State, b) = "newView"
                    THEN changeView(State, Epoch[b], ViewNumber[b], None) ELSE State
               t == findExecutableBlock(insertQCBlock(a, b, b))
    <2>1. b \in certified /\ EnableVerifyEpoch(State, Epoch[b])
          /\ QCBlockRules(State, b) # "drop" /\ Handled(t)
          /\ UNCHANGED <<proposed, certified>> /\ t.view.number <= MaxView
      BY <1>6, Zenon DEF OnInsertQCBlock, Certificate, Handled
    <2>2. Steps(State, t)
      BY <1>0, <2>1, InsertQCBlock, Zenon
    <2> QED BY <2>1, <2>2, Zenon DEF Handles
  <1>7. ASSUME Deadline
        PROVE  Handles
    <2> DEFINE t == TimedOut(State)
    <2>1. Handled(t) /\ UNCHANGED <<proposed, certified>>
      BY <1>7, Zenon DEF Deadline, TimedOut
    <2>2. Steps(State, t)
      BY <1>0, TimerFires, Zenon
    <2> QED BY <2>1, <2>2, Zenon DEF Handles
  <1>8. ASSUME OnViewTimeout
        PROVE  Handles
    <2> DEFINE t == tryChangeView(Own(State))
    <2>1. Handled(t) /\ UNCHANGED <<proposed, certified>>
          /\ State.view.deadline /\ State.view.own = None
      BY <1>8, Fields DEF OnViewTimeout, Own
    <2>2. Steps(State, t)
      BY <1>0, <2>1, ViewTimeout, Zenon
    <2> QED BY <2>1, <2>2, Zenon DEF Handles
  <1>9. ASSUME NEW ok \in BOOLEAN, onAsyncExecuteStatus(ok)
        PROVE  Handles
    <2> DEFINE b == Head(State.tasks)
               a == Answered(State, State.sent.executed \cup {b})
               f == Answered(State, State.sent.executed)
               t == findExecutableBlock(findQCBlock(executed(a, b)))
    <2>1. State.tasks # <<>> /\ UNCHANGED <<proposed, certified>>
      BY <1>9, Fields, Zenon DEF onAsyncExecuteStatus
    <2>2. Steps(State, t) /\ Steps(State, f)
      BY <1>0, <2>1, AsyncExecute, Zenon
    <2>3. ok => Handled(t)
      BY <1>9, Fields, Zenon DEF onAsyncExecuteStatus, Answered
    <2>4. ~ok => Handled(f)
      BY <1>9, Fields, Zenon DEF onAsyncExecuteStatus, Answered
    <2> QED BY <2>1, <2>2, <2>3, <2>4, Zenon DEF Handles
  <1>10. ASSUME NEW b \in Block, OnSeal(b)
         PROVE  Handles
    <2> DEFINE i == NextViewBlockIndex(State)
               vc == IF i = 0 THEN view.last ELSE None
               try == [State EXCEPT !.view.executing = [index |-> i, finish |-> TRUE]]
               ok == PrepareBlockRules(State, b, vc) = "accept"
                     /\ verifyPrepareBlock(State, b, vc)
               t == findQCBlock(signBlock(Credited(prepareBlock(try, b, vc), b), b))
               f == [State EXCEPT !.view.executing = [index |-> i - 1, finish |-> TRUE]]
    <2>1. b \in proposed /\ InView(State, b) /\ BlockIndex[b] = i
          /\ UNCHANGED <<proposed, certified>>
      BY <1>10, Zenon DEF OnSeal
    <2>2. CASE ok
      <3>1. Handled(t)
        BY <1>10, <2>2, Zenon DEF OnSeal, Credited
      <3>2. Steps(State, t)
        BY <1>0, <2>1, <2>2, Seal, Zenon
      <3> QED BY <2>1, <3>1, <3>2, Zenon DEF Handles
    <2>3. CASE ~ok
      <3>1. Handled([try EXCEPT !.view.executing.index = i - 1])
        BY <1>10, <2>3, Zenon DEF OnSeal
      <3>2. [try EXCEPT !.view.executing.index = i - 1] = f
        <4>1. State \in StateType
          BY <1>0, Zenon DEF Good
        <4> HIDE DEF i
        <4>2. PutBack(Trying(State, i), i - 1) = Trying(State, i - 1)
          BY <4>1, TryFails, Zenon
        <4> QED BY <4>2, Zenon DEF PutBack, Trying
      <3>3. Steps(State, f)
        BY <1>0, SealFails, Zenon
      <3> QED BY <2>1, <3>1, <3>2, <3>3, Zenon DEF Handles
    <2> QED BY <2>2, <2>3, Zenon
  <1>11. ASSUME OnShouldSeal \/ NextBaseBlock \/ OnSealFutile
         PROVE  Handles
    <2>1. Handled(State) /\ UNCHANGED <<proposed, certified>>
      BY <1>11, Zenon DEF OnShouldSeal, NextBaseBlock, OnSealFutile
    <2>2. Steps(State, State)
      BY <1>0, Nothing, Zenon
    <2> QED BY <2>1, <2>2, Zenon DEF Handles
  <1>12. ASSUME NEW b \in Block, NEW wvc \in BOOLEAN,
                OnPrepareBlock(b, IF wvc THEN Parent[b] ELSE None)
         PROVE  Handles
    <2>1. (IF wvc THEN Parent[b] ELSE None) \in OptBlock
      BY ParentNumber, Zenon DEF OptBlock
    <2> QED BY <1>1, <1>12, <2>1, Zenon
  <1> QED
    BY <1>2, <1>3, <1>4, <1>5, <1>6, <1>7, <1>8, <1>9, <1>10, <1>11, <1>12, Zenon DEF Next

\* The next state is t: what holds of the record t holds of the variables
\* after the step.
LEMMA Afterwards ==
    ASSUME NEW t, State' = t, UNCHANGED <<proposed, certified>>, Rests(t)
    PROVE  Rests(State)'
  <1>1. (State \in StateType)' /\ (State.fault = {})'
    BY Zenon DEF Rests, Good
  <1>2. Rooted(State)'
    BY Zenon DEF Rests, Good, TreeOK, Rooted
  <1>3. Highest(State)'
    BY Zenon DEF Rests, Good, TreeOK, Highest
  <1>4. Behind(State)'
    BY Zenon DEF Rests, Good, TreeOK, Behind
  <1>5. Bounded(State)'
    BY Zenon DEF Rests, Good, TreeOK, Bounded
  <1>6. BlocksOK(State)'
    BY Zenon DEF Rests, Good, BlocksOK
  <1>7. ExecutingOK(State)'
    BY Zenon DEF Rests, Good, ExecutingOK
  <1>8. PendingOK(State)'
    BY Zenon DEF Rests, Good, PendingOK
  <1>9. HadSendOK(State)'
    BY Zenon DEF Rests, Good, HadSendOK
  <1>10. ChangesOK(State)'
    BY Zenon DEF Rests, Good, ChangesOK
  <1>11. PoolOK(State)'
    BY Zenon DEF Rests, Good, PoolOK
  <1>12. VotesOK(State)'
    BY Zenon DEF Rests, Good, VotesOK
  <1>13. ReportsOK(State)'
    BY Zenon DEF Rests, Good, ReportsOK
  <1>14. VotesWait(State)'
    BY Zenon DEF Rests, VotesWait
  <1>15. ExecWaits(State)'
    BY Zenon DEF Rests, ExecWaits
  <1>16. (State.view.number = MaxView \/ ChangeWaits(State))'
    BY Zenon DEF Rests, ChangeWaits
  <1> QED
    BY <1>1, <1>2, <1>3, <1>4, <1>5, <1>6, <1>7, <1>8, <1>9, <1>10, <1>11, <1>12, <1>13,
       <1>14, <1>15, <1>16, Zenon DEF Rests, Good, TreeOK

\* A step keeps the invariant, moves to no earlier view and is a step of Voter.
LEMMA Moves ==
    ASSUME IInv, Next
    PROVE  /\ IInv'
           /\ NotAfter(view.epoch, view.number, view'.epoch, view'.number)
           /\ Signer!VoterNext
  <1>1. PICK t : Handled(t) /\ Steps(State, t) /\ UNCHANGED <<proposed, certified>>
    BY EveryHandler, Zenon DEF Handles
  <1>2. t \in StateType
    BY <1>1, Zenon DEF Steps, Rests, Good
  <1>3. State' = t
    <2>1. /\ view' = t.view /\ tree' = t.tree /\ pool' = t.pool /\ tasks' = t.tasks
          /\ sent' = t.sent /\ fault' = t.fault
      BY <1>1, Zenon DEF Handled
    <2>2. t = [view |-> t.view, tree |-> t.tree, pool |-> t.pool, tasks |-> t.tasks,
               sent |-> t.sent, fault |-> t.fault]
      BY <1>2, Zenon DEF StateType
    <2> QED BY <2>1, <2>2, Zenon DEF State
  <1>4. Rests(State)'
    BY <1>1, <1>3, Afterwards, Zenon DEF Steps
  <1>5. Env'
    BY <1>1, Zenon DEF IInv, Env
  <1>6. /\ State.view = view /\ State.sent = sent /\ State.tree = tree
        /\ t.view = view' /\ t.sent = sent' /\ t.tree = tree'
    BY <1>1, Fields, Zenon DEF Handled
  <1>7. NotAfter(view.epoch, view.number, view'.epoch, view'.number)
    BY <1>1, <1>6, Zenon DEF Steps
  <1>8. VoterStep(State, t)
    BY <1>1, Zenon DEF Steps
  <1>9. Signer!VoterNext
    BY <1>6, <1>8, Zenon DEF VoterStep, Signer!VoterNext
  <1> QED BY <1>4, <1>5, <1>7, <1>9, Zenon DEF IInv

\* The invariant says nothing of the miner.
LEMMA Stutters ==
    ASSUME IInv, UNCHANGED vars
    PROVE  IInv'
  <1>1. State' = State /\ UNCHANGED <<proposed, certified>>
    BY Zenon DEF vars, State
  <1>2. Rests(State)'
    BY <1>1, Afterwards, Zenon DEF IInv
  <1> QED BY <1>1, <1>2, Zenon DEF IInv, Env

(* Between any two handlers the validator is at rest: the tree hangs from   *)
(* its commit block, the blocks of the view are at their index, everything  *)
(* signed is of no later view, and nothing is left to vote for, to execute  *)
(* or to leave.                                                             *)
THEOREM AtRest == Spec => []IInv
  <1>1. Init => IInv
    BY Start, Zenon
  <1>2. IInv /\ [Next]_vars => IInv'
    BY Moves, Stutters, Zenon
  <1> QED BY <1>1, <1>2, PTL DEF Spec

(* (epoch, view) never goes back, whatever is received in whatever order.   *)
THEOREM NeverBack == Spec => ViewMonotonic
  <1>1. IInv /\ [Next]_vars
        => [NotAfter(view.epoch, view.number, view'.epoch, view'.number)]_vars
    BY Moves, Zenon
  <1> QED BY <1>1, AtRest, PTL DEF Spec, ViewMonotonic

(* The handlers of cbft.go implement Voter, so that what Agreement proves   *)
(* of a network of voters holds for validators that run this code.          *)
THEOREM SignsAsVoter == Spec => ImplementsVoter
  <1>1. Init => Signer!VoterInit
    BY DEF Init, Signer!VoterInit
  <1>2. IInv /\ [Next]_vars => [Signer!VoterNext]_(Signer!voterVars)
    <2>1. UNCHANGED vars => UNCHANGED Signer!voterVars
      BY Zenon DEF vars, Signer!voterVars
    <2> QED BY <2>1, Moves, Zenon
  <1> QED BY <1>1, <1>2, AtRest, PTL DEF Spec, ImplementsVoter, Signer!VoterSpec

(* Nobody votes for a block that they have not executed: the results of     *)
(* blocks of an earlier view are dropped by executed.                       *)
THEOREM ExecutesBeforeVoting == Spec => []VotesExecuted
  <1>1. IInv => VotesExecuted
    BY Fields, Zenon DEF IInv, Rests, Good, VotesOK, VotesExecuted
  <1> QED BY <1>1, AtRest, PTL

(* The pool knows the validators of the epoch, so that epochToBlockNumber   *)
(* does not panic.                                                          *)
THEOREM PoolKeepsUp == Spec => []EpochKnown
  <1>1. IInv => EpochKnown
    BY Fields, Zenon DEF IInv, Rests, Good, PoolOK, EpochKnown
  <1> QED BY <1>1, AtRest, PTL

(* A certificate is stored with its own block, commitBlock finds the parents *)
(* it follows, and the miner's HighestExecutedBlock finds a block.          *)
THEOREM LookupsSucceed == Spec => []LookupsHold
  <1>1. ASSUME IInv
        PROVE  LookupsHold
    <2> DEFINE x == State.view.executing
    <2>1. /\ fault = {} /\ State \in StateType /\ ExecutingOK(State)
      BY <1>1, Fields, Zenon DEF IInv, Rests, Good
    <2>2. State.tree.qc \in Block /\ x.index \in Int /\ x.finish \in BOOLEAN
          /\ State.view.blocks \in [Index -> OptBlock]
      BY <2>1, Zenon DEF StateType, ViewType, TreeType
    <2>3. None \notin Block
      BY NodeAssumption, Zenon
    <2>4. CASE x.index = NoIndex \/ (x.index = 0 /\ ~x.finish)
      BY <2>1, <2>2, <2>3, <2>4, Zenon DEF HighestExecutedBlock, LookupsHold
    <2>5. CASE ~(x.index = NoIndex \/ (x.index = 0 /\ ~x.finish))
      <3> DEFINE i == IF x.finish THEN x.index ELSE x.index - 1
      <3>1. x.index >= 0 /\ i >= 0 /\ i \in Index /\ State.view.blocks[i] # None
        <4>1. CASE x.finish
          BY <2>1, <2>2, <2>5, <4>1 DEF ExecutingOK, NoIndex
        <4>2. CASE ~x.finish
          <5>1. x.index >= 1
            BY <2>1, <2>2, <2>5, <4>2 DEF ExecutingOK, NoIndex
          <5>2. State.view.blocks[x.index - 1] # None /\ x.index \in Index
            BY <2>1, <2>2, <5>1, <4>2 DEF ExecutingOK
          <5>3. x.index - 1 \in Index
            BY <2>2, <5>1, <5>2, NodeAssumption DEF Index
          <5> QED BY <2>2, <4>2, <5>1, <5>2, <5>3
        <4> QED BY <4>1, <4>2, Zenon
      <3>2. HighestExecutedBlock(State) = ViewBlockByIndex(State, i)
        BY <2>5, Zenon DEF HighestExecutedBlock
      <3> QED BY <3>1, <3>2, <2>1, Zenon DEF LookupsHold, ViewBlockByIndex
    <2> QED BY <2>4, <2>5, Zenon
  <1> QED BY <1>1, AtRest, PTL

(* Every handler sends the votes and starts the execution that it has made  *)
(* possible.                                                                *)
THEOREM DoesItsWork == Spec => []NoWorkLeft
  <1>1. ASSUME IInv
        PROVE  NoWorkLeft
    <2>1. Env /\ Good(State) /\ VotesWait(State) /\ ExecWaits(State)
      BY <1>1, Zenon DEF IInv, Rests
    <2>2. trySendPrepareVote(State) = State
      BY <2>1, SendIdle, Zenon
    <2>3. findExecutableBlock(State) = State
      BY <2>1, ExecIdle, Zenon
    <2> QED BY <2>2, <2>3, Zenon DEF NoWorkLeft
  <1> QED BY <1>1, AtRest, PTL

(* Every handler leaves the view that is over.                              *)
THEOREM LeavesView == Spec => []NoMissedViewChange
  <1>1. ASSUME IInv
        PROVE  NoMissedViewChange
    <2>1. Env /\ Good(State) /\ (State.view.number = MaxView \/ ChangeWaits(State))
      BY <1>1, Zenon DEF IInv, Rests
    <2>2. ChangeWaits(State) => tryChangeView(State) = State
      BY <2>1, ChangeIdle, Zenon
    <2> QED BY <2>1, <2>2, Fields, Zenon DEF NoMissedViewChange
  <1> QED BY <1>1, AtRest, PTL
=============================================================================

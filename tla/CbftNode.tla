------------------------------ MODULE CbftNode ------------------------------
(***************************************************************************)
(* One validator: the handlers that the consensus goroutine of cbft.go     *)
(* runs one at a time on its ViewState, its BlockTree and its              *)
(* ValidatorPool.                                                          *)
(*                                                                         *)
(* A procedure of the code is an operator from the state before the call   *)
(* to the state after it; an action applies a whole handler, with every    *)
(* procedure the handler calls, to the current state.  Everything outside  *)
(* the goroutine is free: which message comes next, when the view's        *)
(* deadline passes and when its timer fires, when the executor answers and *)
(* whether it failed, and when the miner asks for a base block and returns *)
(* a sealed one.                                                           *)
(*                                                                         *)
(* Other validators crash, lag and lose messages, but sign one chain of    *)
(* blocks per view (see proposed), and the blocks that get a certificate   *)
(* agree on what is committed (see certified; Agreement is about why).     *)
(* Any certified block may be reported in a ViewChange, and any set of     *)
(* ViewChanges may form a ViewChangeQC.                                    *)
(***************************************************************************)
EXTENDS Blocks, Integers, Sequences, FiniteSets

CONSTANTS BlockIndex,   \* QuorumCert.BlockIndex: the place of a block in its view
          None,         \* nil
          Ready,        \* the miner was told to seal and has no base block yet
          N,            \* number of validators
          Me,           \* index of this validator
          Amount,       \* Sys.Amount: blocks per view
          EpochSize,    \* blocks per epoch (the agency's GetLastNumber)
          Outcomes,     \* what the validators may propose and certify together
          MaxView       \* bound: no view above this one is entered

(* The proposers of a set of blocks build on proposed blocks, and those of  *)
(* one view one after the other (OnSeal, NextViewBlockIndex); an epoch has  *)
(* EpochSize blocks (OnShouldSeal, tryChangeView).                          *)
Proposable(P) ==
    /\ P \subseteq Block \ {Genesis}
    /\ \A b \in P :
          /\ Parent[b] \in P \cup {Genesis}
          /\ Epoch[b] > 0
          /\ (Epoch[b] - 1) * EpochSize < Number[b] /\ Number[b] <= Epoch[b] * EpochSize
    /\ \A b, c \in P :
          Epoch[b] = Epoch[c] /\ ViewNumber[b] = ViewNumber[c] =>
             /\ Number[b] + BlockIndex[c] = Number[c] + BlockIndex[b]
             /\ BlockIndex[b] = BlockIndex[c] => b = c

(* The certified blocks Q among the proposed ones do not commit different   *)
(* blocks of one height: a certificate commits the grandparent of its block.*)
Agreed(P, Q) ==
    /\ Q \subseteq P
    /\ \A b, c \in Q : Number[b] = Number[c] => Parent[Parent[b]] = Parent[Parent[c]]

ASSUME NodeAssumption ==
    /\ BlockIndex \in [Block -> Nat]
    /\ {None, Ready} \cap Block = {} /\ None # Ready
    /\ N \in Nat \ {0, 1} /\ Me \in 0..(N - 1)
    /\ Amount \in Nat \ {0} /\ EpochSize \in Nat \ {0} /\ MaxView \in Nat
    /\ \A O \in Outcomes : Proposable(O.proposed) /\ Agreed(O.proposed, O.certified)

VARIABLES view,      \* state.view: the current view
          tree,      \* BlockTree and the three highest blocks of ViewState
          pool,      \* ValidatorPool
          tasks,     \* blocks handed to the executor, oldest first
          miner,     \* None, Ready, or the base block a block is built on
          sent,      \* history: what this validator signed and executed
          fault,     \* the process died, or certified the wrong block
          proposed,  \* environment: the blocks proposed in this behaviour
          certified  \* environment: those of them that get a certificate

vars == <<view, tree, pool, tasks, miner, sent, fault, proposed, certified>>

Index == 0..(Amount - 1)

(* math.MaxUint32, the index before 0: its successor wraps to 0.            *)
NoIndex == -1

(* cbft.threshold *)
threshold == N - ((N - 1) \div 3)

(* What the procedures below work on. *)
State == [view |-> view, tree |-> tree, pool |-> pool, tasks |-> tasks,
          sent |-> sent, fault |-> fault]

(* view.Reset followed by ResetView and SetViewTimer: an empty view with a  *)
(* running timer.  lastViewChangeQC is kept as its max block.               *)
newView(e, v, vcqc) ==
    [epoch     |-> e,
     number    |-> v,
     executing |-> [index |-> NoIndex, finish |-> FALSE],
     blocks    |-> [i \in Index |-> None],   \* viewBlocks
     qcs       |-> {},                       \* indices in viewQCs
     pending   |-> <<>>,                     \* pendingVote
     hadSend   |-> {},                       \* indices in hadSendPrepareVote
     votes     |-> [i \in Index |-> 0],      \* viewVotes of the others
     own       |-> None,                     \* block of our ViewChange
     changes   |-> 0,                        \* viewChanges of the others
     maxChange |-> None,                     \* and the highest block in them
     last      |-> vcqc,                     \* lastViewChangeQC
     deadline  |-> FALSE]                    \* viewTimer.isDeadline

(* Start on a fresh chain: changeView(1, 0) on genesis.                     *)
Init ==
    /\ view = newView(1, 0, None)
    /\ tree = [blocks |-> {Genesis}, root |-> Genesis, qc |-> Genesis,
               lock |-> Genesis, commit |-> Genesis]
    /\ pool = [epoch |-> 1, switchPoint |-> 0, lastNumber |-> EpochSize]
    /\ tasks = <<>>
    /\ miner = None
    /\ sent = [votes |-> {}, changes |-> {}, executed |-> {}]
    /\ fault = {}
    /\ \E O \in Outcomes : proposed = O.proposed /\ certified = O.certified

-----------------------------------------------------------------------------
(* ViewState *)

ViewBlockByIndex(s, i) == IF i \in Index THEN s.view.blocks[i] ELSE None

MaxOf(S) == IF S = {} THEN NoIndex ELSE CHOOSE i \in S : \A j \in S : j <= i

MaxQCIndex(s) == MaxOf(s.view.qcs)

NextViewBlockIndex(s) == MaxOf({i \in Index : s.view.blocks[i] # None}) + 1

InView(s, b) == Epoch[b] = s.view.epoch /\ ViewNumber[b] = s.view.number

(* HighestExecutedBlock; None stands for the nil it may dereference.        *)
HighestExecutedBlock(s) ==
    LET x == s.view.executing
    IN  IF x.index = NoIndex \/ (x.index = 0 /\ ~x.finish)
        THEN IF s.view.last # None /\ s.view.last \in s.tree.blocks
             THEN s.view.last ELSE s.tree.qc
        ELSE ViewBlockByIndex(s, IF x.finish THEN x.index ELSE x.index - 1)

(* HasBlock *)
HasBlock(s, b) ==
    \/ Number[s.tree.qc] > Number[b]
    \/ Number[s.tree.qc] = Number[b] /\ s.tree.qc = b

-----------------------------------------------------------------------------
(* ValidatorPool *)

ShouldSwitch(s, n) == n # 0 /\ n \in {s.pool.switchPoint, s.pool.lastNumber}

EqualSwitchPoint(s, n) == s.pool.switchPoint > 0 /\ s.pool.switchPoint = n

EnableVerifyEpoch(s, e) == s.pool.epoch \in {e, e + 1}

(* Update; the agency answers that the next round starts right after n.     *)
Update(s, n) ==
    IF n <= s.pool.switchPoint THEN s
    ELSE [s EXCEPT !.pool = [epoch |-> s.view.epoch + 1, switchPoint |-> n,
                             lastNumber |-> n + EpochSize]]

isProposer(s) == s.view.number % N = Me
-----------------------------------------------------------------------------
(* Voting *)

(* trySendPrepareVote: the longest prefix of the pending votes that         *)
(* AllowVote admits and whose parents are certified is added to the view,   *)
(* logged and broadcast; nothing is sent once the view has timed out.       *)
trySendPrepareVote(s) ==
    LET p == s.view.pending
        sendable(j) ==
            /\ BlockIndex[p[j]] \notin s.view.hadSend
            /\ \A i \in 1..(j - 1) : BlockIndex[p[i]] # BlockIndex[p[j]]
            /\ Parent[p[j]] \in s.tree.blocks
        k == MaxOf({n \in 0..Len(p) : \A j \in 1..n : sendable(j)})
        go == {p[j] : j \in 1..k}
    IN  IF s.view.deadline THEN s
        ELSE [s EXCEPT !.view.pending = SubSeq(p, k + 1, Len(p)),
                       !.view.hadSend = @ \cup {BlockIndex[b] : b \in go},
                       !.sent.votes = @ \cup go]

(* signBlock *)
signBlock(s, b) ==
    trySendPrepareVote([s EXCEPT !.view.pending = Append(@, b)])

-----------------------------------------------------------------------------
(* Changing view *)

(* changeView: every list of the view is emptied and its timer restarted.   *)
(* clearInvalidBlocks finds both vote queues empty by then.                 *)
changeView(s, e, v, vcqc) == [s EXCEPT !.view = newView(e, v, vcqc)]

(* The higher of two certified blocks; None is below every block.           *)
Higher(b, c) == IF c = None \/ (b # None /\ HigherQuorumCert(b, c)) THEN b ELSE c

(* richViewChangeQC: the ViewChange we sent, or one generated here for our  *)
(* highest certified block when it is higher, joins the ViewChangeQC.       *)
richViewChangeQC(s, m) ==
    LET had == Higher(s.view.own, m)
        add == s.view.own = None /\ HigherQuorumCert(s.tree.qc, had)
    IN  [max |-> IF add THEN s.tree.qc ELSE had,
         generated |-> IF add THEN {s.tree.qc} ELSE {}]

(* tryChangeViewByViewChange for a ViewChangeQC whose max block is m.  A    *)
(* node that has nothing but genesis skips the check that it has m.         *)
tryChangeViewByViewChange(s, m) ==
    LET rich == IF s.tree.qc = Genesis THEN [max |-> m, generated |-> {}]
                ELSE richViewChangeQC(s, m)
        top == rich.max
        signed == {[epoch |-> s.view.epoch, number |-> s.view.number, block |-> b] :
                      b \in rich.generated}
        t == [s EXCEPT !.sent.changes = @ \cup signed]
    IN  IF s.tree.qc # Genesis /\ top \notin s.tree.blocks \ {Genesis} THEN t
        ELSE IF EqualSwitchPoint(s, Number[top]) /\ Epoch[top] = s.view.epoch
             THEN changeView(t, s.view.epoch + 1, 0, top)
             ELSE changeView(t, s.view.epoch, s.view.number + 1, top)

(* Mutant of tryChangeView: the validators are not updated at the last      *)
(* block of an epoch.                                                       *)
tryChangeViewNoUpdate(s) ==
    LET n == Number[s.tree.qc]
        enough == \/ MaxQCIndex(s) + 1 = Amount
                  \/ /\ s.tree.qc # Genesis /\ Epoch[s.tree.qc] = s.view.epoch
                     /\ ShouldSwitch(s, n)
    IN  CASE enough /\ ShouldSwitch(s, n) -> changeView(s, s.view.epoch + 1, 0, None)
          [] enough /\ ~ShouldSwitch(s, n) ->
                changeView(s, s.view.epoch, s.view.number + 1, None)
          [] OTHER -> s

(* tryChangeView: after the last block of the view or of the epoch the view *)
(* changes at once, and otherwise when enough ViewChanges are in.  A switch *)
(* of validators happens first.                                             *)
tryChangeView(s) ==
    LET n == Number[s.tree.qc]
        enough == \/ MaxQCIndex(s) + 1 = Amount
                  \/ /\ s.tree.qc # Genesis /\ Epoch[s.tree.qc] = s.view.epoch
                     /\ ShouldSwitch(s, n)
        u == IF ShouldSwitch(s, n) THEN Update(s, n) ELSE s
        len == s.view.changes + (IF s.view.own = None THEN 0 ELSE 1)
    IN  CASE enough /\ EqualSwitchPoint(u, n) ->
                changeView(u, u.view.epoch + 1, 0, None)
          [] enough /\ ~EqualSwitchPoint(u, n) ->
                changeView(u, u.view.epoch, u.view.number + 1, None)
          [] ~enough /\ len >= threshold ->
                tryChangeViewByViewChange(u, Higher(u.view.own, u.view.maxChange))
          [] OTHER -> u

-----------------------------------------------------------------------------
(* Inserting certified blocks *)

(* tryCommitNewBlock, as in BlockTree. *)
tryCommitNewBlock(s, m, b) ==
    LET commit == commitOf(m, s.tree.root)
    IN  IF /\ Number[commit] + 2 = Number[b]
           /\ Number[s.tree.commit] + 1 = Number[commit]
        THEN [s EXCEPT !.tree.lock = lockOf(m),
                       !.tree.commit = commit,
                       !.tree.blocks = PruneBlock(commit, @),
                       !.tree.root = commit]
        ELSE s

(* BlockTree.InsertQCBlock, TrySetHighestQCBlock and tryCommitNewBlock.     *)
insertTree(s, b) ==
    LET t == s.tree.blocks \cup {b}
        m == CHOOSE x \in maxBlock(b, t, s.tree.root) : TRUE
        higher == \/ s.tree.qc = Genesis
                  \/ s.tree.qc \notin t
                  \/ HigherQuorumCert(b, s.tree.qc)
        i == [s EXCEPT !.tree.blocks = t, !.tree.qc = IF higher THEN b ELSE @]
    IN  CASE b \in s.tree.blocks -> i
          [] b \notin s.tree.blocks /\ commitBlockPanics(m, t, s.tree.root) ->
                [i EXCEPT !.fault = @ \cup {"panic"}]
          [] OTHER -> tryCommitNewBlock(i, m, b)

(* The view's part of insertQCBlock for block b with the certificate of q:  *)
(* AddQCBlock and AddQC when the certificate is of the current view.        *)
addQC(s, b, q) ==
    LET i == BlockIndex[q]
        v == IF InView(s, q) /\ i \in Index
             THEN [s EXCEPT !.view.blocks[i] = IF @ = None THEN b ELSE @,
                            !.view.qcs = @ \cup {i}]
             ELSE s
    IN  IF b = q THEN v ELSE [v EXCEPT !.fault = @ \cup {"wrongQC"}]

(* Mutants of insertQCBlock: the pending votes, or the change of view, wait *)
(* for the next message.                                                    *)
insertQCBlockNoVote(s, b, q) ==
    IF Number[b] <= Number[s.tree.lock] \/ HasBlock(s, b) THEN s
    ELSE tryChangeView(insertTree(addQC(s, b, q), b))

insertQCBlockNoChange(s, b, q) ==
    IF Number[b] <= Number[s.tree.lock] \/ HasBlock(s, b) THEN s
    ELSE trySendPrepareVote(insertTree(addQC(s, b, q), b))

(* insertQCBlock *)
insertQCBlock(s, b, q) ==
    IF Number[b] <= Number[s.tree.lock] \/ HasBlock(s, b) THEN s
    ELSE tryChangeView(trySendPrepareVote(insertTree(addQC(s, b, q), b)))

(* Mutant of insertPrepareQC: linked accepts any block with a known parent. *)
insertPrepareQCLoose(s, q) ==
    LET b == ViewBlockByIndex(s, BlockIndex[q])
    IN  IF /\ b # None
           /\ BlockIndex[q] \in s.view.hadSend
           /\ Parent[b] \in s.tree.blocks
        THEN insertQCBlock(s, b, q) ELSE s

(* insertPrepareQC: the block is looked up by the certificate's index in    *)
(* the current view, once we have voted for that index; only "linked" tells *)
(* a certificate of this view from one of an earlier view.                  *)
insertPrepareQC(s, q) ==
    LET b == ViewBlockByIndex(s, BlockIndex[q])
    IN  IF /\ b # None
           /\ BlockIndex[q] \in s.view.hadSend
           /\ Parent[b] \in s.tree.blocks
           /\ Number[s.tree.qc] + 1 = Number[q]
        THEN insertQCBlock(s, b, q) ELSE s

(* findQCBlock: the next index is certified when enough votes, ours among   *)
(* them, are in.                                                            *)
findQCBlock(s) ==
    LET next == MaxQCIndex(s) + 1
        b == ViewBlockByIndex(s, next)
        ready == /\ next \in s.view.hadSend
                 /\ s.view.votes[next] + 1 >= threshold
    IN  IF ready
        THEN tryChangeView(trySendPrepareVote(insertQCBlock(s, b, b)))
        ELSE tryChangeView(s)

-----------------------------------------------------------------------------
(* Executing blocks *)

Execute(s, i) ==
    [s EXCEPT !.tasks = Append(@, s.view.blocks[i]),
              !.view.executing = [index |-> i, finish |-> FALSE]]

(* findExecutableBlock: the first block of the view needs its parent in the *)
(* tree, a later one the execution of its predecessor, or the certificate   *)
(* of the predecessor when nothing has been executed in this view.          *)
findExecutableBlock(s) ==
    LET x == s.view.executing
        q == MaxQCIndex(s)
        fromQC == x.index = NoIndex /\ q # NoIndex
        index == IF fromQC THEN q ELSE x.index
        finish == fromQC \/ x.finish
        next == ViewBlockByIndex(s, index + 1)
    IN  CASE next = None -> s
          [] next # None /\ index = NoIndex /\ Parent[next] \in s.tree.blocks ->
                Execute(s, 0)
          [] next # None /\ index # NoIndex /\ finish
                /\ ViewBlockByIndex(s, index) # None -> Execute(s, index + 1)
          [] OTHER -> s
-----------------------------------------------------------------------------
(* Safety rules and verification *)

isQCChild(s, b) ==
    Parent[b] \in s.tree.blocks /\ Number[Parent[b]] = Number[s.tree.qc]

isLockChild(s, b) == Parent[b] = s.tree.lock /\ Parent[b] \in s.tree.blocks

acceptViewChangeQC(s, b, vc) ==
    IF vc = None
    THEN MaxQCIndex(s) + 1 = Amount \/ EqualSwitchPoint(s, Number[b] - 1)
    ELSE vc = Parent[b]

(* The block can be added to the current view: the first one extends the    *)
(* highest certified height or the lock block, a later one its predecessor. *)
acceptIndexBlock(s, b) ==
    LET i == BlockIndex[b]
    IN  /\ i \in Index
        /\ s.view.blocks[i] = None
        /\ IF i = 0 THEN isQCChild(s, b) \/ isLockChild(s, b)
           ELSE s.view.blocks[i - 1] = Parent[b]

(* PrepareBlockRules answers nil, or an error that asks for a new view, or  *)
(* any other error ("drop": the message is discarded or blocks are fetched).*)
PrepareBlockRules(s, b, vc) ==
    CASE /\ Epoch[b] > s.view.epoch
         /\ BlockIndex[b] = 0 /\ acceptViewChangeQC(s, b, vc)
         /\ isQCChild(s, b) -> "newView"
      [] /\ Epoch[b] = s.view.epoch /\ ViewNumber[b] = s.view.number + 1
         /\ BlockIndex[b] = 0 /\ acceptViewChangeQC(s, b, vc)
         /\ isQCChild(s, b) \/ isLockChild(s, b) -> "newView"
      [] InView(s, b) /\ acceptIndexBlock(s, b) /\ ~s.view.deadline -> "accept"
      [] OTHER -> "drop"

(* checkViewChangeQC: the first block of a view carries a ViewChangeQC      *)
(* unless its parent ended the previous view or epoch, and extends its max  *)
(* block.                                                                   *)
checkViewChangeQC(s, b, vc) ==
    LET p == Parent[b]
        need == /\ p \in s.tree.blocks \ {Genesis}
                /\ ~EqualSwitchPoint(s, Number[p])
                /\ BlockIndex[p] < Amount - 1
    IN  IF vc = None THEN ~need ELSE vc = p

(* verifyConsensusMsg for a PrepareBlock *)
verifyPrepareBlock(s, b, vc) ==
    /\ EnableVerifyEpoch(s, Epoch[b])
    /\ \/ Number[b] = 1
       \/ BlockIndex[b] # 0
       \/ /\ checkViewChangeQC(s, b, vc)
          /\ Parent[b] \in s.tree.blocks \ {Genesis}
          /\ EnableVerifyEpoch(s, Epoch[Parent[b]])

(* PrepareVoteRules and verifyConsensusMsg for a PrepareVote for b with the *)
(* certificate of its parent.                                               *)
acceptVote(s, b) ==
    LET i == BlockIndex[b]
    IN  /\ b \notin s.tree.blocks /\ Number[b] > Number[s.tree.lock]
        /\ InView(s, b) /\ i \in Index
        /\ s.view.blocks[i] = b
        /\ s.view.votes[i] < N - 1
        /\ ~s.view.deadline
        /\ EnableVerifyEpoch(s, Epoch[b])
        /\ \/ Number[b] = 1
           \/ /\ IF i = 0 THEN Parent[b] \in s.tree.blocks
                 ELSE s.view.blocks[i - 1] = Parent[b]
              /\ EnableVerifyEpoch(s, Epoch[Parent[b]])

(* Mutant of QCBlockRules: every other view is taken for a later one.       *)
QCBlockRulesBack(s, b) ==
    CASE Parent[b] \notin s.tree.blocks -> "drop"
      [] /\ Parent[b] \in s.tree.blocks
         /\ Epoch[b] = s.view.epoch /\ ViewNumber[b] # s.view.number -> "newView"
      [] OTHER -> "accept"

(* QCBlockRules *)
QCBlockRules(s, b) ==
    CASE Parent[b] \notin s.tree.blocks -> "drop"
      [] /\ Parent[b] \in s.tree.blocks
         /\ \/ Epoch[b] = s.view.epoch /\ ViewNumber[b] > s.view.number
            \/ Epoch[b] = s.view.epoch + 1 -> "newView"
      [] OTHER -> "accept"

-----------------------------------------------------------------------------
(* The environment *)

(* A block others can tell us about: the blocks of our own views are known  *)
(* once we have sealed them.                                                *)
Foreign(b) == b \in proposed /\ (ViewNumber[b] % N = Me => b \in sent.executed)

(* A certificate others can send us. *)
Certificate(b) == b \in certified /\ Foreign(b)

(* The votes of the others and our own make a certificate only for a block  *)
(* that gets one, and a vote carries the certificate of the parent.         *)
Votable(b) ==
    /\ Foreign(b) /\ Parent[b] \in certified \cup {Genesis}
    /\ view.votes[BlockIndex[b]] + 2 >= threshold => b \in certified

(* A handler ran. *)
Handled(t) ==
    /\ fault = {}
    /\ t.view.number <= MaxView
    /\ view' = t.view
    /\ tree' = t.tree
    /\ pool' = t.pool
    /\ tasks' = t.tasks
    /\ sent' = t.sent
    /\ fault' = t.fault

-----------------------------------------------------------------------------
(* Handlers *)

(* The state in which OnPrepareBlock verifies the message: it may have      *)
(* changed the view first.                                                  *)
enterView(s, b, vc) ==
    IF PrepareBlockRules(s, b, vc) = "newView"
    THEN changeView(s, Epoch[b], ViewNumber[b], vc) ELSE s

(* OnPrepareBlock gets as far as changing the view or adding the block.     *)
admitsPrepareBlock(s, b, vc) ==
    LET r == PrepareBlockRules(s, b, vc)
    IN  \/ r = "accept"
        \/ /\ r = "newView" /\ EnableVerifyEpoch(s, Epoch[b])
           /\ checkViewChangeQC(s, b, vc)

(* OnPrepareBlock for a message that is admitted. *)
prepareBlock(s, b, vc) ==
    LET t == enterView(s, b, vc)
    IN  IF verifyPrepareBlock(t, b, vc)
        THEN findExecutableBlock([t EXCEPT !.view.blocks[BlockIndex[b]] = b])
        ELSE t

OnPrepareBlock(b, vc) ==
    /\ Foreign(b)
    /\ admitsPrepareBlock(State, b, vc)
    /\ Handled(prepareBlock(State, b, vc))
    /\ UNCHANGED <<miner, proposed, certified>>

OnPrepareVote(b) ==
    LET s == [State EXCEPT !.view.votes[BlockIndex[b]] = @ + 1]
    IN  /\ acceptVote(State, b) /\ Votable(b)
        /\ Handled(findQCBlock(IF Number[b] = 1 THEN s
                               ELSE insertPrepareQC(s, Parent[b])))
        /\ UNCHANGED <<miner, proposed, certified>>

(* A certificate that another validator in our view may hold. *)
Reportable(m) ==
    /\ Epoch[m] <= view.epoch
    /\ Epoch[m] = view.epoch => ViewNumber[m] <= view.number
    /\ m = Genesis \/ (Certificate(m) /\ EnableVerifyEpoch(State, Epoch[m]))

OnViewChange(m) ==
    /\ Reportable(m)
    /\ view.changes < N - 1
    /\ Handled(tryChangeView([State EXCEPT !.view.changes = @ + 1,
                                           !.view.maxChange = Higher(m, @)]))
    /\ UNCHANGED <<miner, proposed, certified>>

(* OnViewChangeQuorumCert, and trySyncViewChangeQuorumCert once the view it *)
(* was sent for is the current one.                                         *)
OnViewChangeQuorumCert(m) ==
    /\ Reportable(m)
    /\ Handled(tryChangeViewByViewChange(State, m))
    /\ UNCHANGED <<miner, proposed, certified>>

OnBlockQuorumCert(b) ==
    /\ Certificate(b) /\ UNCHANGED <<miner, proposed, certified>>
    /\ InView(State, b) /\ b \notin tree.blocks
    /\ ViewBlockByIndex(State, BlockIndex[b]) = b
    /\ EnableVerifyEpoch(State, Epoch[b])
    /\ Handled(insertPrepareQC(State, b))

(* OnInsertQCBlock for one block of a QCBlockList, after verifyPrepareQC.   *)
OnInsertQCBlock(b) ==
    LET r == QCBlockRules(State, b)
        s == IF r = "newView"
             THEN changeView(State, Epoch[b], ViewNumber[b], None) ELSE State
    IN  /\ Certificate(b)
        /\ EnableVerifyEpoch(State, Epoch[b])
        /\ r # "drop"
        /\ Handled(findExecutableBlock(insertQCBlock(s, b, b)))
        /\ UNCHANGED <<miner, proposed, certified>>

(* The view's deadline passes; isDeadline compares it with the clock. *)
Deadline ==
    /\ ~view.deadline
    /\ Handled([State EXCEPT !.view.deadline = TRUE])
    /\ UNCHANGED <<miner, proposed, certified>>

(* Mutant of OnViewTimeout: the lock block is reported.                     *)
OnViewTimeoutLock ==
    /\ view.deadline /\ view.own = None
    /\ Handled(tryChangeView([State EXCEPT
          !.view.own = tree.lock,
          !.sent.changes = @ \cup {[epoch |-> view.epoch, number |-> view.number,
                                    block |-> tree.lock]}]))
    /\ UNCHANGED <<miner, proposed, certified>>

(* The timer of the view fires after its deadline. *)
OnViewTimeout ==
    /\ view.deadline /\ view.own = None
    /\ Handled(tryChangeView([State EXCEPT
          !.view.own = tree.qc,
          !.sent.changes = @ \cup {[epoch |-> view.epoch, number |-> view.number,
                                    block |-> tree.qc]}]))
    /\ UNCHANGED <<miner, proposed, certified>>

(* Mutant of onAsyncExecuteStatus: any result finishes the current block.   *)
executedAny(s, b) ==
    LET x == s.view.executing
        c == ViewBlockByIndex(s, x.index)
    IN  IF ~x.finish /\ c # None
        THEN signBlock([s EXCEPT !.view.executing.finish = TRUE], c) ELSE s

(* The first half of onAsyncExecuteStatus: the result is taken for the      *)
(* block being executed only when the hashes agree.                         *)
executed(s, b) ==
    LET x == s.view.executing
    IN  IF ~x.finish /\ ViewBlockByIndex(s, x.index) = b
        THEN signBlock([s EXCEPT !.view.executing.finish = TRUE], b) ELSE s

(* onAsyncExecuteStatus: a failed execution is only logged. *)
onAsyncExecuteStatus(ok) ==
    /\ tasks # <<>>
    /\ LET b == Head(tasks)
           s == [State EXCEPT !.tasks = Tail(@),
                              !.sent.executed = IF ok THEN @ \cup {b} ELSE @]
       IN  Handled(IF ok THEN findExecutableBlock(findQCBlock(executed(s, b)))
                   ELSE s)
    /\ UNCHANGED <<miner, proposed, certified>>

(* The miner: OnShouldSeal says yes, NextBaseBlock names the block to build *)
(* on, and OnSeal gets the sealed block.                                    *)
OnShouldSeal ==
    /\ miner = None /\ miner' = Ready
    /\ ~view.deadline
    /\ isProposer(State)
    /\ NextViewBlockIndex(State) < Amount
    /\ ~(/\ ShouldSwitch(State, Number[HighestExecutedBlock(State)])
         /\ tree.qc # Genesis /\ Epoch[tree.qc] = view.epoch)
    /\ Handled(State) /\ UNCHANGED <<proposed, certified>>

NextBaseBlock ==
    /\ miner = Ready /\ miner' = HighestExecutedBlock(State)
    /\ Handled(State) /\ UNCHANGED <<proposed, certified>>

(* OnSeal for a block on another base, or when our turn is over: futile.    *)
OnSealFutile ==
    /\ miner \in Block /\ miner' = None
    /\ HighestExecutedBlock(State) # miner \/ ~isProposer(State)
    /\ Handled(State) /\ UNCHANGED <<proposed, certified>>

(* Mutant of OnSeal: the base the block was built on is not compared again. *)
OnSealStale(b) ==
    LET i == NextViewBlockIndex(State)
        vc == IF i = 0 THEN view.last ELSE None
        try == [State EXCEPT !.view.executing = [index |-> i, finish |-> TRUE]]
    IN  /\ b \in proposed
        /\ miner \in Block /\ miner' = None
        /\ isProposer(State)
        /\ Parent[b] = miner /\ InView(State, b) /\ BlockIndex[b] = i
        /\ PrepareBlockRules(State, b, vc) = "accept" /\ verifyPrepareBlock(State, b, vc)
        /\ Handled(findQCBlock(signBlock([prepareBlock(try, b, vc) EXCEPT
                                            !.sent.executed = @ \cup {b}], b)))
        /\ UNCHANGED <<proposed, certified>>

(* OnSeal for block b: it takes the path of a received PrepareBlock, is     *)
(* broadcast and signed.                                                    *)
OnSeal(b) ==
    LET i == NextViewBlockIndex(State)
        vc == IF i = 0 THEN view.last ELSE None
        try == [State EXCEPT !.view.executing = [index |-> i, finish |-> TRUE]]
        ok == /\ PrepareBlockRules(State, b, vc) = "accept"
              /\ verifyPrepareBlock(State, b, vc)
    IN  /\ b \in proposed
        /\ miner \in Block /\ miner' = None
        /\ HighestExecutedBlock(State) = miner /\ isProposer(State)
        /\ Parent[b] = miner /\ InView(State, b) /\ BlockIndex[b] = i
        /\ i = 0 => Parent[b] \in tree.blocks
        /\ Handled(IF ok
                   THEN findQCBlock(signBlock([prepareBlock(try, b, vc) EXCEPT
                                                 !.sent.executed = @ \cup {b}], b))
                   ELSE [try EXCEPT !.view.executing.index = i - 1])
        /\ UNCHANGED <<proposed, certified>>

Next ==
    \/ \E b \in Block, wvc \in BOOLEAN :
          OnPrepareBlock(b, IF wvc THEN Parent[b] ELSE None)
    \/ \E b \in Block :
          \/ OnPrepareVote(b) \/ OnViewChange(b) \/ OnViewChangeQuorumCert(b)
          \/ OnBlockQuorumCert(b) \/ OnInsertQCBlock(b) \/ OnSeal(b)
    \/ Deadline \/ OnViewTimeout
    \/ \E ok \in BOOLEAN : onAsyncExecuteStatus(ok)
    \/ OnShouldSeal \/ NextBaseBlock \/ OnSealFutile

Spec == Init /\ [][Next]_vars
-----------------------------------------------------------------------------
(* What the validator shows to the others: the votes and ViewChanges it     *)
(* signed and the certified blocks it holds.                                *)
Signer == INSTANCE Voter WITH
             votes <- sent.votes, changes <- sent.changes, known <- tree.blocks

NotAfter(e, v, f, w) == Signer!NotAfter(e, v, f, w)

(* The handlers of cbft.go implement Voter: whatever they do in whatever    *)
(* order, a validator's signatures are those of the abstract voter.  It     *)
(* votes once for a place of a view and never after its ViewChange, and its *)
(* ViewChange reports no certificate below that of the parent of any block  *)
(* it voted for: two quorums then share a validator that carries what was   *)
(* certified over to the next view.                                         *)
ImplementsVoter == Signer!VoterSpec

(* What this validator proposes is what Agreement assumes of proposers,     *)
(* however the view, the tree and the miner move between ShouldSeal,        *)
(* NextBaseBlock and OnSeal.  A first block of a view is sealed before any  *)
(* certificate of the view is in the tree, on the max block of the          *)
(* ViewChangeQC it came with, or without one on the highest certified       *)
(* block, which ended its view or epoch or is genesis; or on genesis while  *)
(* there is nothing else.  Each later one is on the one sealed before it.   *)
SealsOnBase ==
    [][\A b \in sent'.executed \ sent.executed :
          LET p == Parent[b]
          IN  /\ ViewNumber[b] % N = Me /\ BlockIndex[b] > 0 =>
                    p \in sent.executed /\ InView(State, p) /\ BlockIndex[p] + 1 = BlockIndex[b]
              /\ ViewNumber[b] % N = Me /\ BlockIndex[b] = 0 =>
                    /\ \A y \in tree.blocks \ {Genesis} :
                          Signer!Before(Epoch[y], ViewNumber[y], Epoch[b], ViewNumber[b])
                    /\ \/ p = view.last
                       \/ /\ view.last = None /\ p = tree.qc
                          /\ \/ p = Genesis \/ BlockIndex[p] + 1 = Amount
                             \/ EqualSwitchPoint(State, Number[p])
                       \/ tree.blocks = {Genesis}]_vars

(* A validator votes only for blocks it has executed (or sealed) itself: a  *)
(* result of an earlier view never counts for the block being executed.     *)
VotesExecuted == sent.votes \subseteq sent.executed

(* Three places find a block by index or pointer and only a condition       *)
(* elsewhere makes it the right one: insertPrepareQC stores a certificate   *)
(* with the block of its index, commitBlock follows parent pointers, and    *)
(* HighestExecutedBlock, which the miner calls between any two handlers,    *)
(* dereferences the executing block of the view.                            *)
LookupsHold == fault = {} /\ HighestExecutedBlock(State) # None

(* The validators of the current epoch are always known to the pool, whose  *)
(* epochToBlockNumber panics on an epoch above its own, and the pool is     *)
(* never more than one epoch ahead.                                         *)
EpochKnown == view.epoch <= pool.epoch /\ pool.epoch <= view.epoch + 1

(* (epoch, view) never goes back: a view that was left is not entered again *)
(* by a late proposal, certificate or ViewChangeQC.                         *)
ViewMonotonic ==
    [][NotAfter(view.epoch, view.number, view'.epoch, view'.number)]_vars

(* Every handler that certifies a block or finishes an execution does all   *)
(* that this made possible: at rest, the oldest pending vote waits for the  *)
(* certificate of its parent, or the view has timed out, and no block of    *)
(* the view could be handed to the executor.                                *)
NoWorkLeft == trySendPrepareVote(State) = State /\ findExecutableBlock(State) = State

(* No handler leaves a view behind that has all its blocks certified, that  *)
(* ended its epoch, or that has a ViewChangeQC this node can follow.        *)
NoMissedViewChange == view.number = MaxView \/ tryChangeView(State) = State
=============================================================================

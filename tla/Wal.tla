-------------------------------- MODULE Wal --------------------------------
(***************************************************************************)
(* Crash and recovery of one validator: the journal and the chain state    *)
(* that wal_bridge.go keeps, the worker that writes committed blocks, and  *)
(* the replay of both at Start.                                            *)
(*                                                                         *)
(* A handler of the consensus goroutine computes its new memory at once;   *)
(* what it leaves behind outside the memory (journal records, the          *)
(* viewChange meta data, broadcasts, results posted to the worker) is done *)
(* one effect at a time, in the order of the code, and the process may     *)
(* crash between any two.  The worker runs concurrently.  A crash is a     *)
(* crash of the process: what was written to a file stays written.         *)
(*                                                                         *)
(* The handlers are those of CbftNode with less detail: the certified      *)
(* blocks form one chain, so a chain state (commit, lock, qc) is named by  *)
(* the number of its qc block, and epochs are folded into the view number. *)
(* Proposers are honest, but a proposer picks new transactions each time   *)
(* it seals.                                                               *)
(***************************************************************************)
EXTENDS Integers, Sequences, FiniteSets

CONSTANTS Tx,         \* what a proposer may put in a block
          None,       \* nil
          N, Me,      \* number of validators, and the index of this one
          Amount,     \* Sys.Amount: blocks per view
          MaxNumber,  \* bound: highest certified block
          MaxView,    \* bound: highest view
          MaxCrash    \* bound: crashes

ASSUME WalAssumption ==
    /\ Tx # {}
    /\ N \in Nat \ {0} /\ Me \in 0..(N - 1) /\ Amount \in Nat \ {0}
    /\ {MaxNumber, MaxView, MaxCrash} \subseteq Nat

VARIABLES mem,      \* memory of the consensus goroutine; None: Start failed
          todo,     \* effects of the running handler still to come
          results,  \* CbftResults posted to the worker: numbers of qc blocks
          logged,   \* the worker has run ChainStateUpdateCB of the oldest one
          disk,     \* what survives a crash
          cert,     \* environment: the certified blocks, by number
          net,      \* environment: the blocks proposed so far
          sent,     \* history: the records this validator has broadcast
          crashes,  \* history: number of crashes
          gap       \* history: some crash fell where the journal has a gap

vars == <<mem, todo, results, logged, disk, cert, net, sent, crashes, gap>>

Index == 0..(Amount - 1)

isProposer(v) == v % N = Me

(* A block carries the transactions of its view up to its own, which also   *)
(* identifies its parent; the first block of a view extends a certified one. *)
(* What other proposers pick makes no difference here.                      *)
Block ==
    {b \in [number : 1..(MaxNumber + Amount), view : 0..MaxView,
            txs : UNION {[1..i -> Tx \cup {None}] : i \in 1..Amount}] :
        \A i \in DOMAIN b.txs : isProposer(b.view) <=> b.txs[i] # None}

index(b) == Len(b.txs) - 1

Genesis == [number |-> 0, view |-> 0, txs |-> <<>>]

certified(n) == IF n = 0 THEN Genesis ELSE cert[n]

isChild(b, p) ==
    /\ b.number = p.number + 1
    /\ index(b) > 0 => p.view = b.view /\ p.txs = SubSeq(b.txs, 1, index(b))

(* The records of the journal *)
ConfirmedViewChange(v) == [type |-> "confirm", view |-> v, number |-> 0, block |-> None]
SendPrepareVote(b) == [type |-> "vote", view |-> b.view, number |-> b.number, block |-> b]
SendPrepareBlock(b) == [type |-> "block", view |-> b.view, number |-> b.number, block |-> b]
SendViewChange(v, n) == [type |-> "change", view |-> v, number |-> n, block |-> None]

(* The effects of a handler *)
WriteSync(r) == [op |-> "write", rec |-> r, number |-> 0]
Broadcast(r) == [op |-> "send", rec |-> r, number |-> 0]
UpdateViewChange == [op |-> "meta", rec |-> None, number |-> 0]
Post(n) == [op |-> "post", rec |-> None, number |-> n]

-----------------------------------------------------------------------------
(* The view state *)

newView(v, q, c) ==
    [view    |-> v,
     qc      |-> q,                           \* number of highestQCBlock
     commit  |-> c,                           \* number of highestCommitBlock
     blocks  |-> [i \in Index |-> None],      \* viewBlocks
     qcs     |-> [i \in Index |-> None],      \* viewQCs, with their blocks
     exec    |-> 0 - 1,                       \* last index executed
     pending |-> {},                          \* pendingVote
     hadSend |-> {},                          \* hadSendPrepareVote
     own     |-> FALSE,                       \* viewChanges has our ViewChange
     expired |-> FALSE]                       \* IsDeadline

ResetView(m, v) == newView(v, m.qc, m.commit)

MaxIndex(S) == IF S = {} THEN 0 - 1 ELSE CHOOSE i \in S : \A j \in S : j <= i

NextViewBlockIndex(m) == MaxIndex({i \in Index : m.blocks[i] # None}) + 1

MaxQCIndex(m) == MaxIndex({i \in Index : m.qcs[i] # None})

(* insertQCBlock: the part of it that files b under the current view *)
AddQC(m, b) ==
    IF b.view # m.view THEN m
    ELSE [m EXCEPT !.blocks[index(b)] = IF @ = None THEN b ELSE @,
                   !.qcs[index(b)] = b]

(* FindBlockAndQC of the parent of b succeeds *)
parentInTree(m, b) ==
    IF index(b) = 0 THEN b.number - 1 \in m.commit..m.qc
    ELSE m.qcs[index(b) - 1] # None /\ isChild(b, m.qcs[index(b) - 1])

(* Mutant of ConfirmViewChange: the message first, then its position.       *)
ConfirmMessageFirst(v) == <<WriteSync(ConfirmedViewChange(v)), UpdateViewChange>>

(* ConfirmViewChange: the position of the journal, then the message *)
ConfirmViewChange(v) == <<UpdateViewChange, WriteSync(ConfirmedViewChange(v))>>

(* Mutant of logAndSend: broadcast, then log.                               *)
sendAndLog(r) == <<Broadcast(r), WriteSync(r)>>

(* Whatever this validator signs is logged, then broadcast.                 *)
logAndSend(r) == <<WriteSync(r), Broadcast(r)>>

(* trySendPrepareVote: pending votes in order, as far as their parents are  *)
(* certified.                                                               *)
sendable(m) ==
    IF m.expired THEN {}
    ELSE {i \in m.pending \ m.hadSend : parentInTree(m, m.blocks[i])}

voteEffects(m) ==
    LET effects[i \in 0..Amount] ==
            IF i = 0 THEN <<>>
            ELSE effects[i - 1] \o (IF i - 1 \in sendable(m)
                                    THEN logAndSend(SendPrepareVote(m.blocks[i - 1]))
                                    ELSE <<>>)
    IN  effects[Amount]

voted(m) == [m EXCEPT !.pending = @ \ sendable(m), !.hadSend = @ \cup sendable(m)]
-----------------------------------------------------------------------------
(* Recovery: Start, then LoadWal *)

(* tryWalChangeView; nothing is logged while loading *)
tryWalChangeView(m, v) == IF v > m.view THEN ResetView(m, v) ELSE m

recoveryChainStateProcess(m, n) ==
    LET b  == certified(n)
        m1 == [AddQC(tryWalChangeView(m, b.view), b) EXCEPT !.exec = index(b)]
    IN  IF index(b) + 1 = Amount THEN tryWalChangeView(m1, m1.view + 1) ELSE m1

(* Start, up to LoadWal, with block h at the head of the chain *)
startAt(h) ==
    IF h = 0 THEN newView(0, 0, 0)
    ELSE recoveryChainStateProcess(newView(certified(h).view, h, h), h)

(* Mutant of recoveryChainState: the commit block is written to the chain   *)
(* but not made the highest committed one.                                  *)
recoveryKeepsCommit(m, h, q) ==
    IF q = None THEN m
    ELSE LET m1 == IF q - 2 = h + 1 THEN recoveryChainStateProcess(m, q - 2) ELSE m
             m2 == recoveryChainStateProcess(m1, q - 1)
         IN  recoveryChainStateProcess([m2 EXCEPT !.qc = q], q)

(* recoveryChainState: commit (if it is not the head already), lock and qc. *)
(* The caller has checked that commit is the head or its child.             *)
recoveryChainState(m, h, q) ==
    IF q = None THEN m
    ELSE LET m1 == IF q - 2 = h + 1
                   THEN [recoveryChainStateProcess(m, q - 2) EXCEPT !.commit = q - 2]
                   ELSE m
             m2 == recoveryChainStateProcess(m1, q - 1)
         IN  recoveryChainStateProcess([m2 EXCEPT !.qc = q], q)

(* executeBlock finds the parent in the tree or, by index, in the view.     *)
executable(m, b) ==
    \/ parentInTree(m, b)
    \/ index(b) > 0 /\ m.blocks[index(b) - 1] # None

(* Mutant of recoveryMsg: our own proposals are executed, not filed.        *)
recoveryMsgNoBlock(m, r) ==
    LET i == index(r.block) IN
    IF r.type = "confirm" THEN tryWalChangeView(m, r.view)
    ELSE IF r.view > m.view THEN None
    ELSE IF r.view < m.view \/ r.number <= m.qc THEN m
    ELSE IF r.type = "change" THEN [m EXCEPT !.own = TRUE]
    ELSE IF m.blocks[i] = None /\ ~executable(m, r.block) THEN None
    ELSE IF r.type = "block" THEN m
    ELSE [m EXCEPT !.exec = IF m.blocks[i] = None THEN i ELSE @,
                   !.blocks[i] = IF @ = None THEN r.block ELSE @,
                   !.hadSend = @ \cup {i}]

(* recoveryMsg.  None stands for an error, which makes Start fail.          *)
recoveryMsg(m, r) ==
    LET i == index(r.block) IN
    IF r.type = "confirm" THEN tryWalChangeView(m, r.view)
    ELSE IF r.view > m.view THEN None                       \* higherViewState
    ELSE IF r.view < m.view \/ r.number <= m.qc THEN m      \* shouldRecovery
    ELSE IF r.type = "change" THEN [m EXCEPT !.own = TRUE]
    ELSE IF m.blocks[i] = None /\ ~executable(m, r.block) THEN None
    ELSE [m EXCEPT !.exec = IF m.blocks[i] = None THEN i ELSE @,
                   !.blocks[i] = IF r.type = "block" \/ @ = None THEN r.block ELSE @,
                   !.hadSend = IF r.type = "vote" THEN @ \cup {i} ELSE @]

(* Load: the journal from the recorded position.  Before the first view     *)
(* change there is none, and nothing is loaded.                             *)
Load(m, d) ==
    LET replay[k \in 0..Len(d.journal)] ==
            IF k = 0 THEN m
            ELSE IF replay[k - 1] = None THEN None
            ELSE recoveryMsg(replay[k - 1], d.journal[k])
    IN  IF d.meta THEN replay[Len(d.journal)] ELSE m

contiguous(d) == d.chainState = None \/ d.chainState - 2 \in {d.head, d.head + 1}

(* The memory after a restart on disk d; None if Start returns an error *)
Recovered(d) ==
    IF ~contiguous(d) THEN None
    ELSE Load(recoveryChainState(startAt(d.head), d.head, d.chainState), d)

(* recoveryCommitState has written the commit block by then.                *)
writtenBy(d) ==
    IF d.chainState # None /\ contiguous(d)
    THEN [d EXCEPT !.head = d.chainState - 2] ELSE d
-----------------------------------------------------------------------------
Init ==
    /\ mem = newView(0, 0, 0)
    /\ todo = <<>> /\ results = <<>> /\ logged = FALSE
    /\ disk = [head |-> 0, chainState |-> None, meta |-> FALSE, journal |-> <<>>]
    /\ cert = <<>> /\ net = {} /\ sent = {}
    /\ crashes = 0 /\ gap = FALSE

(* A handler runs when the effects of the previous one are all done.        *)
Ready == mem # None /\ todo = <<>>

(* A handler ends in memory m after effects es. *)
Handled(m, es) ==
    /\ mem' = m /\ todo' = es
    /\ UNCHANGED <<results, logged, disk, sent, crashes, gap>>

(* OnSeal: the proposer of the view adds its next block, then votes for it. *)
OnSeal(tx) ==
    LET m == mem
        i == NextViewBlockIndex(m)
        p == IF m.exec = 0 - 1 THEN certified(m.qc) ELSE m.blocks[m.exec]
        b == [number |-> p.number + 1, view |-> m.view,
              txs |-> IF i = 0 THEN <<tx>> ELSE Append(p.txs, tx)]
        n == [m EXCEPT !.blocks[i] = b, !.exec = i, !.pending = @ \cup {i}]
    IN  /\ Ready /\ isProposer(m.view) /\ m.view <= MaxView /\ ~m.expired
        /\ i < Amount
        /\ p = (IF i = 0 THEN certified(m.qc) ELSE m.blocks[i - 1])
        /\ net' = net \cup {b}
        /\ Handled(voted(n), logAndSend(SendPrepareBlock(b)) \o voteEffects(n))
        /\ UNCHANGED cert

(* OnPrepareBlock for a block of the current view.  Other proposers build   *)
(* on the last certified block and propose one block per index.             *)
OnPrepareBlock(b) ==
    LET i == index(b) IN
    /\ Ready /\ ~mem.expired
    /\ b.view = mem.view /\ mem.blocks[i] = None
    /\ IF i = 0 THEN b.number = mem.qc + 1
       ELSE mem.blocks[i - 1] # None /\ isChild(b, mem.blocks[i - 1])
    /\ \/ b \in net
       \/ /\ ~isProposer(b.view) /\ \A c \in net : c.view = b.view => index(c) # i
          /\ i = 0 => mem.qc = Len(cert)
    /\ net' = net \cup {b}
    /\ Handled([mem EXCEPT !.blocks[i] = b], <<>>)
    /\ UNCHANGED cert

(* onAsyncExecuteStatus for the block findExecutableBlock handed over:      *)
(* sign it, and send the votes that can be sent.                            *)
onAsyncExecuteStatus ==
    LET i == (IF mem.exec = 0 - 1 THEN MaxQCIndex(mem) ELSE mem.exec) + 1
        n == [mem EXCEPT !.exec = i, !.pending = @ \cup {i}]
    IN  /\ Ready
        /\ i < Amount /\ mem.blocks[i] # None
        /\ i = 0 => parentInTree(mem, mem.blocks[i])
        /\ i > 0 => mem.blocks[i - 1] # None
        /\ Handled(voted(n), voteEffects(n))
        /\ UNCHANGED <<cert, net>>
(* A quorum of the other validators certifies b on top of the chain: the    *)
(* next block of the last view that has one, or the first of a later view.  *)
(* Nobody certifies a block of a proposer that has proposed another.        *)
Certifiable(b) ==
    LET last == certified(Len(cert)) IN
    /\ b.number = Len(cert) + 1 /\ b.number <= MaxNumber
    /\ isChild(b, last)
    /\ index(b) = 0 => b.view > last.view \/ Len(cert) = 0
    /\ IF isProposer(b.view) THEN SendPrepareBlock(b) \in sent
       ELSE \A c \in net : c.view = b.view /\ index(c) = index(b) => c = b

(* insertQCBlock of the next certified block, reached by votes, by a        *)
(* BlockQuorumCert or by OnInsertQCBlock: change view if the block is of a  *)
(* later one, file the certificate, commit, send votes, change view if it   *)
(* was the last block.                                                      *)
insertQCBlock(b) ==
    LET m1 == IF b.view > mem.view THEN ResetView(mem, b.view) ELSE mem
        commits == b.number - 2 = m1.commit + 1
        m2 == [AddQC(m1, b) EXCEPT !.qc = b.number,
                                   !.commit = IF commits THEN b.number - 2 ELSE @]
        enough == MaxQCIndex(m2) + 1 = Amount
    IN  /\ Ready
        /\ IF mem.qc < Len(cert) THEN b = cert[mem.qc + 1] /\ UNCHANGED cert
           ELSE Certifiable(b) /\ cert' = Append(cert, b)
        /\ net' = net \cup {b}
        /\ Handled(IF enough THEN ResetView(m2, m2.view + 1) ELSE voted(m2),
                   (IF b.view > mem.view THEN ConfirmViewChange(b.view) ELSE <<>>)
                   \o (IF commits THEN <<Post(b.number)>> ELSE <<>>)
                   \o voteEffects(m2)
                   \o (IF enough THEN ConfirmViewChange(m2.view + 1) ELSE <<>>))

(* tryChangeViewByViewChange: a quorum of ViewChanges ends the view.        *)
tryChangeViewByViewChange ==
    /\ Ready /\ mem.view < MaxView
    /\ Handled(ResetView(mem, mem.view + 1), ConfirmViewChange(mem.view + 1))
    /\ UNCHANGED <<cert, net>>

(* OnViewTimeout: once per view, as far as the node remembers.              *)
OnViewTimeout ==
    /\ Ready /\ ~mem.expired
    /\ Handled([mem EXCEPT !.own = TRUE, !.expired = TRUE],
               IF mem.own THEN <<>> ELSE logAndSend(SendViewChange(mem.view, mem.qc)))
    /\ UNCHANGED <<cert, net>>

(* The next effect of the running handler.  Once updateViewChangeMeta has   *)
(* recorded the position of the journal, what precedes it is never read     *)
(* again (and its files expire): journal holds the records from there on.   *)
Do ==
    /\ todo # <<>>
    /\ LET e == Head(todo) IN
       /\ disk' = CASE e.op = "write" -> [disk EXCEPT !.journal = Append(@, e.rec)]
                    [] e.op = "meta"  -> [disk EXCEPT !.meta = TRUE, !.journal = <<>>]
                    [] OTHER -> disk
       /\ sent' = IF e.op = "send" THEN sent \cup {e.rec} ELSE sent
       /\ results' = IF e.op = "post" THEN Append(results, e.number) ELSE results
    /\ todo' = Tail(todo)
    /\ UNCHANGED <<mem, logged, cert, net, crashes, gap>>

(* The worker: ChainStateUpdateCB, that is UpdateChainState; an update that *)
(* does not continue the stored one is ignored.                             *)
UpdateChainState ==
    /\ mem # None /\ results # <<>> /\ ~logged
    /\ logged' = TRUE
    /\ disk' = IF disk.chainState = None \/ Head(results) - disk.chainState \in {0, 1}
               THEN [disk EXCEPT !.chainState = Head(results)] ELSE disk
    /\ UNCHANGED <<mem, todo, results, cert, net, sent, crashes, gap>>

(* Mutant of WriteBlockWithState: the worker does not wait for the callback. *)
WriteBlockFirst ==
    /\ mem # None /\ results # <<>>
    /\ disk' = [disk EXCEPT !.head = Head(results) - 2]
    /\ results' = Tail(results) /\ logged' = FALSE
    /\ UNCHANGED <<mem, todo, cert, net, sent, crashes, gap>>

(* The worker: the committed block becomes the head of the chain.           *)
WriteBlockWithState ==
    /\ mem # None /\ results # <<>> /\ logged
    /\ disk' = [disk EXCEPT !.head = Head(results) - 2]
    /\ results' = Tail(results) /\ logged' = FALSE
    /\ UNCHANGED <<mem, todo, cert, net, sent, crashes, gap>>
(* The journal does not cover the current view: before the first view       *)
(* change, and between the two writes of ConfirmViewChange.                 *)
InGap == ~disk.meta \/ \E v \in 0..(MaxView + 1) :
            todo # <<>> /\ Head(todo) = WriteSync(ConfirmedViewChange(v))

(* The process crashes at any point, and is started again.                  *)
Restart ==
    /\ mem # None /\ crashes < MaxCrash
    /\ crashes' = crashes + 1 /\ gap' = (gap \/ InGap)
    /\ mem' = Recovered(disk) /\ disk' = writtenBy(disk)
    /\ todo' = <<>> /\ results' = <<>> /\ logged' = FALSE
    /\ UNCHANGED <<cert, net, sent>>

Next ==
    \/ \E tx \in Tx : OnSeal(tx)
    \/ \E b \in Block : OnPrepareBlock(b) \/ insertQCBlock(b)
    \/ onAsyncExecuteStatus
    \/ tryChangeViewByViewChange
    \/ OnViewTimeout
    \/ Do
    \/ UpdateChainState
    \/ WriteBlockWithState
    \/ Restart

Spec == Init /\ [][Next]_vars

-----------------------------------------------------------------------------
(* Properties *)

(* No committed block is skipped: those committed in memory are the ones on *)
(* the chain, those the worker still has, and those about to be posted,     *)
(* also when a restart has committed a block itself.                        *)
EveryCommitReachesChain ==
    mem # None =>
        mem.commit = disk.head + Len(results)
                     + Cardinality({k \in 1..Len(todo) : todo[k].op = "post"})

(* Outside ConfirmViewChange, a restart brings the node back to the view it *)
(* is in.                                                                   *)
confirming == \E k \in 1..Len(todo) :
    \/ todo[k] = UpdateViewChange
    \/ \E v \in 0..(MaxView + 1) : todo[k] = WriteSync(ConfirmedViewChange(v))

RecoversView ==
    LET m == Recovered(disk) IN
    (mem # None /\ ~confirming /\ m # None) => m.view = mem.view

(* Everything broadcast in the view that a restart would recover, above the *)
(* certified block it would recover, is remembered.                         *)
remembered(r, m) ==
    (r.view = m.view /\ r.number > m.qc /\ r.type # "change")
        => /\ m.blocks[index(r.block)] = r.block
           /\ r.type = "vote" => index(r.block) \in m.hadSend

RecoversMessages ==
    LET m == Recovered(disk) IN
    (mem # None /\ ~gap /\ ~InGap /\ m # None) => \A r \in sent : remembered(r, m)

(* As long as no crash falls in a gap of the journal, the validator signs   *)
(* at most one block and one vote for an index of a view, however often it  *)
(* crashes.                                                                 *)
SignsOnce ==
    ~gap => \A r, s \in sent :
                (r.type = s.type /\ r.type # "change" /\ r.view = s.view
                   /\ index(r.block) = index(s.block)) => r.block = s.block

(* At every moment the stored chain state fits the head of the chain, as    *)
(* recoveryChainState demands, because the worker calls ChainStateUpdateCB  *)
(* before WriteBlockWithState; and once it names the highest certified      *)
(* block, a restart also gets through the journal.                          *)
RestartSucceeds ==
    /\ contiguous(disk)
    /\ (mem # None /\ disk.chainState = mem.qc) => Recovered(disk) # None

-----------------------------------------------------------------------------
(* What a comment of wal_bridge.go says, and the code does not do *)

(* "the next time the platon node restart, we will recovery the msg from    *)
(* this check point": a restart does not bring the node back to a view      *)
(* older than one it has sent messages in.  Between the two writes of       *)
(* ConfirmViewChange the journal says nothing of the current view.          *)
NoViewRegress ==
    LET m == Recovered(disk) IN
    (mem # None /\ m # None) => \A r \in sent : r.view <= m.view
=============================================================================

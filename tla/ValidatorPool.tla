--------------------------- MODULE ValidatorPool ---------------------------
(***************************************************************************)
(* Who validates which block, on one node.  The staking plugin elects the  *)
(* validators of the next round in the block ElectionDistance before the   *)
(* end of a round; the reactor commits that block to the store; the pool   *)
(* of the consensus engine asks the store for them when the last block of  *)
(* the round is certified, and changes the epoch.  The reactor, the worker *)
(* and the consensus goroutine run concurrently, and the process may crash *)
(* between any two steps and start again from what is on disk.             *)
(*                                                                         *)
(* The certified blocks form one chain and are known by their numbers.     *)
(* Round r is that of epoch r.  What the store does in a commit, a crash   *)
(* or a replay is the subject of SnapshotDB, the journal and the worker    *)
(* that of Wal; here a commit is one step, and a restart finds the store   *)
(* at the head of the chain.  The events that tell the p2p server whom to  *)
(* connect to are left out.                                                *)
(***************************************************************************)
EXTENDS Integers

CONSTANTS ConsensusSize,      \* blocks of a round
          ElectionDistance,   \* from the election to the end of the round
          RoundValIndexSize,  \* rounds the store remembers
          Elected,            \* who is elected for each round
          Index,              \* the rounds known in the state of each block
          None,               \* no record in the journal
          MaxNumber,          \* bound: highest block
          LastView,           \* bound: highest view of an epoch
          MaxCrash            \* bound: crashes

(* xutil.IsElection *)
IsElection(n) == (n + ElectionDistance) % ConsensusSize = 0

(* ValArrIndexQueue: the rounds lo..hi.  The oldest one leaves a full queue *)
(* and its validators are deleted.                                          *)
ConstantAppend(q) ==
    [lo |-> IF q.hi + 1 - q.lo < RoundValIndexSize THEN q.lo ELSE q.lo + 1,
     hi |-> q.hi + 1]

(* EndBlock of the staking plugin: the election adds the next round.        *)
EndBlock(q, n) == IF IsElection(n) THEN ConstantAppend(q) ELSE q

(* The genesis block has rounds 0 (itself) and 1.  Between an election and  *)
(* the end of its round the chain must commit the block of the election,    *)
(* three blocks below the highest one.                                      *)
ASSUME PoolSizes ==
    /\ {ConsensusSize, ElectionDistance, RoundValIndexSize} \subseteq Nat
    /\ ElectionDistance >= 3 /\ ElectionDistance < ConsensusSize
    /\ RoundValIndexSize >= 2
    /\ {MaxNumber, LastView, MaxCrash} \subseteq Nat

ASSUME IndexOfBlocks ==
    /\ Index[0] = [lo |-> 0, hi |-> 1]
    /\ \A n \in 1..MaxNumber : Index[n] = EndBlock(Index[n - 1], n)

VARIABLES mode,     \* "up", "down", or "panic": get unknown epoch
          vp,       \* ValidatorPool
          view,     \* epoch and view number of the view state
          qc,       \* number of highestQCBlock
          commit,   \* number of highestCommitBlock
          step,     \* where the consensus goroutine is
          reactor,  \* taken: block received; irr: block committed to the store
          worker,   \* taken: block received; saved: commit block of the chain
                    \* state (0: none); head: block written to the chain
          journal,  \* the last ConfirmedViewChange that a restart finds
          crashes   \* history: number of crashes

vpVars == <<mode, vp, view, qc, commit, step, reactor, worker, journal, crashes>>

View(e, v) == [epoch |-> e, number |-> v]

(* The last and the first block of a round, and the round of a block *)
End(r) == r * ConsensusSize
Start(r) == IF r = 0 THEN 0 ELSE (r - 1) * ConsensusSize + 1
EpochOf(n) == (n + ConsensusSize - 1) \div ConsensusSize

-----------------------------------------------------------------------------
(* The agency: the staking plugin on the store at block irr *)

Absent == [start |-> 0, nodes |-> {}]

(* getCurrValIndex finds the round of block n. *)
Known(irr, n) == EpochOf(n) \in Index[irr].lo..Index[irr].hi

GetLastNumber(irr, n) == IF Known(irr, n) THEN End(EpochOf(n)) ELSE 0

GetValidator(irr, n) ==
    IF Known(irr, n) THEN [start |-> Start(EpochOf(n)), nodes |-> Elected[EpochOf(n)]]
    ELSE Absent

-----------------------------------------------------------------------------
(* The pool *)

(* NewValidatorPool and Reset at block n of epoch e.  Their callers do not  *)
(* look at the errors of GetValidator.                                      *)
At(n, e, irr) ==
    LET last == GetLastNumber(irr, n) = n
        m    == IF last THEN n + 1 ELSE n
        cur  == GetValidator(irr, m)
    IN  [epoch       |-> IF last /\ n # 0 THEN e + 1 ELSE e,
         prev        |-> IF last THEN GetValidator(irr, n) ELSE cur,
         current     |-> cur,
         switchPoint |-> IF cur.start > 0 THEN cur.start - 1 ELSE 0,
         lastNumber  |-> GetLastNumber(irr, m)]

ShouldSwitch(p, n) == n # 0 /\ n \in {p.switchPoint, p.lastNumber}

EqualSwitchPoint(p, n) == p.switchPoint > 0 /\ p.switchPoint = n

EnableVerifyEpoch(p, e) == p.epoch \in {e, e + 1}

(* Mutant of Update: the previous validators are saved too late.            *)
UpdateLate(p, n, e, irr) ==
    LET nds == GetValidator(irr, n + 1) IN
    IF n <= p.switchPoint \/ nds = Absent THEN p
    ELSE [epoch |-> e, prev |-> nds, current |-> nds, switchPoint |-> nds.start - 1,
          lastNumber |-> GetLastNumber(irr, n + 1)]

(* Update: once for a block; without the validators of the next round it    *)
(* returns an error that the callers only log.                              *)
Update(p, n, e, irr) ==
    LET nds == GetValidator(irr, n + 1) IN
    IF n <= p.switchPoint \/ nds = Absent THEN p
    ELSE [epoch |-> e, prev |-> p.current, current |-> nds,
          switchPoint |-> nds.start - 1, lastNumber |-> GetLastNumber(irr, n + 1)]

(* ShouldSwitch and Update, as tryChangeView and trySwitchValidator call them *)
trySwitchValidator(p, n, e, irr) ==
    IF ShouldSwitch(p, n) THEN Update(p, n, e + 1, irr) ELSE p

(* Validators and the other lookups by epoch.  An epoch above that of the   *)
(* pool makes epochToBlockNumber panic.                                     *)
epochToBlockNumber(p, e) == IF e + 1 = p.epoch THEN p.switchPoint ELSE p.switchPoint + 1

Validators(p, e) ==
    IF e > p.epoch THEN Absent
    ELSE IF epochToBlockNumber(p, e) <= p.switchPoint THEN p.prev ELSE p.current

-----------------------------------------------------------------------------
(* The consensus goroutine *)

Init ==
    /\ mode = "up" /\ vp = At(0, 1, 0) /\ view = View(1, 0)
    /\ qc = 0 /\ commit = 0 /\ step = "idle"
    /\ reactor = [taken |-> 0, irr |-> 0]
    /\ worker = [taken |-> 0, saved |-> 0, head |-> 0]
    /\ journal = None /\ crashes = 0

After(w, e, v) == e > w.epoch \/ (e = w.epoch /\ v > w.number)

(* OnInsertQCBlock of the next block, certified in view v of its epoch: a   *)
(* block of a later view brings the change of view with it.  Then its       *)
(* grandparent is committed, which posts it to the reactor and the worker.  *)
Insert(v) ==
    LET n == qc + 1
        e == EpochOf(n)
    IN  /\ mode = "up" /\ step = "idle" /\ n <= MaxNumber
        /\ EnableVerifyEpoch(vp, e)
        /\ qc' = n
        /\ commit' = IF n - 2 > commit THEN n - 2 ELSE commit
        /\ view' = IF After(view, e, v) THEN View(e, v) ELSE view
        /\ step' = IF After(view, e, v) THEN "meta" ELSE "post"
        /\ UNCHANGED <<mode, vp, reactor, worker, journal, crashes>>

(* The reactor and the worker receive a block when they are done with the   *)
(* one before: Post waits for both.                                         *)
ReactorTakes ==
    /\ mode = "up" /\ step = "post"
    /\ reactor.irr = reactor.taken /\ reactor.taken < commit
    /\ reactor' = [reactor EXCEPT !.taken = @ + 1]
    /\ UNCHANGED <<mode, vp, view, qc, commit, step, worker, journal, crashes>>

WorkerTakes ==
    /\ mode = "up" /\ step = "post"
    /\ worker.head = worker.taken /\ worker.taken < commit
    /\ worker' = [worker EXCEPT !.taken = @ + 1]
    /\ UNCHANGED <<mode, vp, view, qc, commit, step, reactor, journal, crashes>>

(* tryChangeView at the end of insertQCBlock.  full: this was the last      *)
(* block of the view.  The agency answers from what the reactor has         *)
(* committed so far.                                                        *)
tryChangeView(full) ==
    LET p      == trySwitchValidator(vp, qc, view.epoch, reactor.irr)
        enough == full \/ (EpochOf(qc) = view.epoch /\ ShouldSwitch(vp, qc))
    IN  /\ mode = "up" /\ step = "post"
        /\ reactor.taken = commit /\ worker.taken = commit
        /\ vp' = p
        /\ IF enough
           THEN /\ view.number < LastView \/ EqualSwitchPoint(p, qc)
                /\ view' = IF EqualSwitchPoint(p, qc) THEN View(view.epoch + 1, 0)
                           ELSE View(view.epoch, view.number + 1)
                /\ step' = "lastMeta"
           ELSE step' = "idle" /\ UNCHANGED view
        /\ UNCHANGED <<mode, qc, commit, reactor, worker, journal, crashes>>

(* tryChangeViewByViewChange on the highest certified block, and the same   *)
(* change of view when OnPrepareBlock gets the first block of the next view *)
tryChangeViewByViewChange ==
    LET switch == EqualSwitchPoint(vp, qc) /\ EpochOf(qc) = view.epoch IN
    /\ mode = "up" /\ step = "idle"
    /\ switch \/ view.number < LastView
    /\ view' = IF switch THEN View(view.epoch + 1, 0) ELSE View(view.epoch, view.number + 1)
    /\ step' = "lastMeta"
    /\ UNCHANGED <<mode, vp, qc, commit, reactor, worker, journal, crashes>>

(* ConfirmViewChange: the position of the end of the journal, from where a  *)
(* restart reads, then the record.                                          *)
ConfirmViewChange ==
    /\ mode = "up"
    /\ \/ step = "meta" /\ step' = "record" /\ journal' = None
       \/ step = "record" /\ step' = "post" /\ journal' = view
       \/ step = "lastMeta" /\ step' = "lastRecord" /\ journal' = None
       \/ step = "lastRecord" /\ step' = "idle" /\ journal' = view
    /\ UNCHANGED <<mode, vp, view, qc, commit, reactor, worker, crashes>>

(* FastSyncCommitHead on a new node, still in the first view: the store and *)
(* the chain of a peer up to block n, certified in view v.                  *)
FastSyncCommitHead(n, v) ==
    /\ mode = "up" /\ step = "idle" /\ qc = 0 /\ view = View(1, 0)
    /\ vp' = At(n, EpochOf(n), n)
    /\ view' = View(EpochOf(n), v)
    /\ qc' = n /\ commit' = n
    /\ reactor' = [taken |-> n, irr |-> n]
    /\ worker' = [taken |-> n, saved |-> 0, head |-> n]
    /\ step' = "lastMeta"
    /\ UNCHANGED <<mode, journal, crashes>>
-----------------------------------------------------------------------------
(* The reactor commits the block it has taken to the store.                 *)
ReactorCommits ==
    /\ mode = "up" /\ reactor.irr < reactor.taken
    /\ reactor' = [reactor EXCEPT !.irr = @ + 1]
    /\ UNCHANGED <<mode, vp, view, qc, commit, step, worker, journal, crashes>>

(* The worker stores the chain state, then writes the block it has taken.   *)
WorkerWrites ==
    /\ mode = "up" /\ worker.head < worker.taken
    /\ worker' = IF worker.saved < worker.taken
                 THEN [worker EXCEPT !.saved = worker.taken]
                 ELSE [worker EXCEPT !.head = worker.taken]
    /\ UNCHANGED <<mode, vp, view, qc, commit, step, reactor, journal, crashes>>

Crash ==
    /\ mode = "up" /\ crashes < MaxCrash
    /\ mode' = "down" /\ crashes' = crashes + 1
    /\ UNCHANGED <<vp, view, qc, commit, step, reactor, worker, journal>>

-----------------------------------------------------------------------------
(* Start: m is the pool and the view on the way, v the number of the view   *)
(* the recovered blocks lead to                                             *)

tryWalChangeView(m, e, v) ==
    IF After(m.view, e, v) THEN [m EXCEPT !.view = View(e, v)] ELSE m

(* Start up to LoadWal, at the head h of the chain                          *)
startAt(h, v) ==
    LET m == [vp |-> At(h, IF h = 0 THEN 1 ELSE EpochOf(h), h),
              view |-> IF h = 0 THEN View(1, 0) ELSE View(EpochOf(h), v)]
    IN  IF EqualSwitchPoint(m.vp, h) THEN [m EXCEPT !.view = View(EpochOf(h) + 1, 0)]
        ELSE m

recoveryChainStateProcess(m, n, v, irr) ==
    LET p == trySwitchValidator(m.vp, n, m.view.epoch, irr)
        t == tryWalChangeView([m EXCEPT !.vp = p], EpochOf(n), v)
    IN  IF EqualSwitchPoint(p, n) THEN tryWalChangeView(t, t.view.epoch + 1, 0) ELSE t

(* recoveryChainState: the commit block c is the head or its child, which   *)
(* is written, committed to the store and processed first.                  *)
recoveryChainState(m, h, c, v) ==
    LET m1 == IF c = h THEN m ELSE recoveryChainStateProcess(m, c, v, c)
        m2 == recoveryChainStateProcess(m1, c + 1, v, c)
    IN  IF c = 0 THEN m ELSE recoveryChainStateProcess(m2, c + 2, v, c)

(* LoadWal: the chain state, then the journal *)
Loaded(v) ==
    LET m == recoveryChainState(startAt(worker.head, v), worker.head, worker.saved, v)
    IN  IF journal = None THEN m ELSE tryWalChangeView(m, journal.epoch, journal.number)

(* The process starts again; the store is at the head of the chain.  Then   *)
(* backend.Start asks IsConsensusNode, which looks up the current epoch.    *)
Restart(v) ==
    LET m == Loaded(v)
        c == IF worker.saved = 0 THEN worker.head ELSE worker.saved
    IN  /\ mode = "down"
        /\ mode' = IF m.view.epoch > m.vp.epoch THEN "panic" ELSE "up"
        /\ vp' = m.vp /\ view' = m.view
        /\ qc' = (IF worker.saved = 0 THEN c ELSE c + 2) /\ commit' = c
        /\ step' = "idle"
        /\ reactor' = [taken |-> c, irr |-> c]
        /\ worker' = [worker EXCEPT !.taken = c, !.head = c]
        /\ UNCHANGED <<journal, crashes>>

Next ==
    \/ \E v \in 0..LastView : Insert(v) \/ Restart(v)
    \/ \E n \in 1..MaxNumber, v \in 0..LastView : FastSyncCommitHead(n, v)
    \/ \E full \in BOOLEAN : tryChangeView(full)
    \/ tryChangeViewByViewChange
    \/ ConfirmViewChange
    \/ ReactorTakes
    \/ WorkerTakes
    \/ ReactorCommits
    \/ WorkerWrites
    \/ Crash

Spec == Init /\ [][Next]_vpVars

-----------------------------------------------------------------------------
(* Properties *)

(* insertQCBlock has not come to tryChangeView yet.                         *)
inserting == step \in {"meta", "record", "post"}

(* Whatever the reactor, the worker, crashes and fast synchronisation do,   *)
(* the pool answers with the validators elected for the epoch: for every    *)
(* block of the tree, whose certificates it verifies, for the block to come *)
(* once tryChangeView is done, and for the epoch the node is in.            *)
LookupsRight ==
    mode = "up" =>
        /\ Validators(vp, view.epoch).nodes = Elected[view.epoch]
        /\ \A n \in commit..(IF inserting THEN qc ELSE qc + 1) :
              Validators(vp, EpochOf(n)).nodes = Elected[EpochOf(n)]

(* "get unknown epoch": the panic of epochToBlockNumber asserts that nobody *)
(* asks for an epoch the pool does not know.                                *)
NoUnknownEpoch == mode # "panic"
=============================================================================

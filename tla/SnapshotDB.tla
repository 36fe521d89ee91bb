----------------------------- MODULE SnapshotDB -----------------------------
(***************************************************************************)
(* core/snapshotdb: the versioned store of the economic model (staking,    *)
(* rewards, governance), with its asynchronous write-ahead log, its        *)
(* compaction job and its recovery, beside the chain it follows.           *)
(*                                                                         *)
(* Threads: the executor and the miner fill unCommit; the reactor commits  *)
(* blocks; the worker writes the same blocks to the chain; loopWriteWal    *)
(* persists the log; the cron job compacts; an RPC reads.  Each keeps its  *)
(* place in "at".                                                          *)
(*                                                                         *)
(* A block's effect depends on what it reads: it adds one to the keys of   *)
(* Touch[b] and deletes the keys of Wipe[b].  A value of 0 stands for the  *)
(* empty value, which the code treats as absent.                           *)
(***************************************************************************)
EXTENDS Naturals, Sequences, FiniteSets, FiniteSetsExt, SequencesExt, TLC

CONSTANTS Block, Genesis, Parent, Number,
          Touch, Wipe,      \* the keys a block increments and deletes
          Key,              \* ordered keys: naturals
          Final,            \* Final[n]: the block of number n that consensus commits
          Own,              \* blocks sealed here, under ZeroHash until Flush
          ZeroHash,         \* common.ZeroHash
          kvLIMIT, MaxBlockCompaction, MaxBlockNotCompactionSync,
          MaxBlockTriggerCompaction, UnBlockNeedClean,
          WalChan,          \* capacity of walCh
          Lag,              \* blocks the reactor and the worker may be apart
          Reads,            \* bound: the <<hash, key>> that a reader gets
          Ranks,            \* bound: the <<hash, rangeNumber>> that a reader ranks
          ReadCrash,        \* bound: the number of crashes after which a reader still starts
          MaxCrash          \* bound: crashes

VARIABLES unCommit,   \* unCommit.blocks: hash -> blockData
          committed,  \* the committed blockData not compacted yet
          current,    \* base, highest number and highest hash, in memory
          walCh,      \* blocks on their way to loopWriteWal
          disk,       \* baseDB: kv, log records, CurrentBaseNum, CurrentHighestBlock
          head,       \* blockchain.CurrentHeader().Number
          at,         \* where Commit, loopWriteWal, Compaction and the reader are
          mode,       \* "replay", "run" or "refused"
          crashes,
          torn        \* history: a crash fell between the two writes of Compaction

vars == <<unCommit, committed, current, walCh, disk, head, at, mode, crashes, torn>>
memory == <<unCommit, committed, current, walCh>>

-----------------------------------------------------------------------------
(* What the chain says *)

Height == Len(Final)
FinalAt(n) == IF n = 0 THEN Genesis ELSE Final[n]

(* The writes of b when it reads s. *)
Exec(b, s) == [k \in Touch[b] \cup Wipe[b] |-> IF k \in Wipe[b] THEN 0 ELSE s[k] + 1]

Overlay(s, data) == [k \in Key |-> IF k \in DOMAIN data THEN data[k] ELSE s[k]]

(* The state after b along its own chain, and the chain.                    *)
Value[b \in Block] ==
    IF b = Genesis THEN [k \in Key |-> 0]
    ELSE Overlay(Value[Parent[b]], Exec(b, Value[Parent[b]]))

Ancestors[b \in Block] ==
    IF b = Genesis THEN {b} ELSE Ancestors[Parent[b]] \cup {b}

-----------------------------------------------------------------------------
(* Reads: <<v>> when a layer has the key, <<>> when it has not *)

getFromUnCommit(hash, k) ==
    LET walk[h \in DOMAIN unCommit] ==
            IF k \in DOMAIN unCommit[h].data THEN <<unCommit[h].data[k]>>
            ELSE IF unCommit[h].parent \in DOMAIN unCommit THEN walk[unCommit[h].parent]
            ELSE <<>>
    IN  IF hash \in DOMAIN unCommit THEN walk[hash] ELSE <<>>

getFromCommit(k) ==
    LET have == {i \in DOMAIN committed : k \in DOMAIN committed[i].data}
    IN  IF have = {} THEN <<>> ELSE <<committed[Max(have)].data[k]>>

GetFromCommittedBlock(k) ==
    LET c == getFromCommit(k) IN IF c # <<>> THEN c[1] ELSE disk.kv[k]

(* Get without anything in between.                                         *)
Get(hash, k) ==
    LET u == getFromUnCommit(hash, k) IN IF u # <<>> THEN u[1] ELSE GetFromCommittedBlock(k)

(* The unCommit blocks from hash down, newest first, and the first hash     *)
(* that is not there.                                                       *)
Layers(hash) ==
    LET walk[h \in DOMAIN unCommit] ==
            LET p == unCommit[h].parent
                rest == IF p \in DOMAIN unCommit THEN walk[p] ELSE [seq |-> <<>>, next |-> p]
            IN  [seq |-> <<unCommit[h].data>> \o rest.seq, next |-> rest.next]
    IN  IF hash \in DOMAIN unCommit THEN walk[hash] ELSE [seq |-> <<>>, next |-> hash]

(* Mutant of itr2Heap: a deleted key is not marked.                         *)
itr2HeapUnmarked(r, data) ==
    LET fresh == {k \in DOMAIN data \ r.handled : data[k] > 0}
        put == r.heap \cup fresh
    IN  [r EXCEPT !.handled = @ \cup fresh,
                  !.heap = {k \in put : r.max = 0 \/ Cardinality({j \in put : j < k}) < r.max}]

(* rankingHeap.itr2Heap: the keys of one layer in order; a key seen in a    *)
(* newer layer is skipped and an empty value only marks its key.  With a    *)
(* limit the walk breaks at the first key not below a full heap.            *)
itr2Heap(r, data) ==
    LET full(heap) == r.max > 0 /\ Cardinality(heap) >= r.max
        step(acc, k) ==
            IF acc.done \/ k \in acc.handled THEN acc
            ELSE LET seen == [acc EXCEPT !.handled = @ \cup {k}]
                     put == IF data[k] = 0 THEN acc.heap ELSE acc.heap \cup {k}
                 IN  IF full(acc.heap) /\ k >= Max(acc.heap)
                     THEN [seen EXCEPT !.done = TRUE]
                     ELSE [seen EXCEPT !.heap =
                              IF put # acc.heap /\ full(acc.heap) THEN put \ {Max(put)} ELSE put]
        keys == SetToSortSeq(DOMAIN data, LAMBDA x, y : x < y)
    IN  FoldLeft(step, [r EXCEPT !.done = FALSE], keys)

(* Committed blocks count when they are on the chain of hash, which is      *)
(* followed from the newest down.                                           *)
LayersCommitted(hash, u) ==
    LET follow(bd, acc) ==
            IF bd.hash \in {hash, acc.next}
            THEN [seq |-> Append(acc.seq, bd.data), next |-> bd.parent] ELSE acc
    IN  FoldRight(follow, committed, u).seq

(* The keys that come out of the heap. *)
Ranked(layers, max) ==
    FoldLeft(itr2Heap, [heap |-> {}, handled |-> {}, done |-> FALSE, max |-> max], layers).heap

-----------------------------------------------------------------------------
(* Blocks that are not committed yet *)

blockData(hash, b, s) ==
    [hash |-> hash, parent |-> Parent[b], number |-> Number[b], data |-> Exec(b, s)]

Idle == [commit |-> <<"idle">>, wal |-> <<"idle">>, compact |-> 0, get |-> <<"idle">>]

Init ==
    /\ unCommit = <<>> /\ committed = <<>> /\ walCh = <<>>
    /\ current = [base |-> 0, num |-> 0, hash |-> Genesis]
    /\ disk = [kv |-> Value[Genesis], wal |-> <<>>, base |-> 0, num |-> 0, hash |-> Genesis]
    /\ head = 0 /\ at = Idle /\ mode = "run" /\ crashes = 0 /\ torn = FALSE

(* NewBlock under hash for b, and its puts.  The caller has executed the    *)
(* parent; ErrBlockTooLow keeps blocks at or below the highest out.  After  *)
(* a restart recoverSnapshotDB executes the blocks of the chain one by one. *)
NewBlock(hash, b) ==
    /\ Number[b] > current.num
    /\ \/ Parent[b] \in DOMAIN unCommit
       \/ Parent[b] = FinalAt(current.num) /\ Number[b] = current.num + 1
    /\ mode = "replay" => b = FinalAt(current.num + 1) /\ at.commit[1] = "idle"
    /\ LET s == [k \in Key |-> Get(Parent[b], k)]
           new == (hash :> blockData(hash, b, s))
       IN  unCommit' = new @@ unCommit
    /\ UNCHANGED <<committed, current, walCh, disk, head, at, mode, crashes, torn>>

Execute(b) ==
    /\ mode \in {"run", "replay"} /\ b # Genesis
    /\ b \notin DOMAIN unCommit
    /\ NewBlock(b, b)

Seal(b) == mode = "run" /\ b \in Own \ DOMAIN unCommit /\ NewBlock(ZeroHash, b)

(* Flush: the sealed block gets its hash. *)
Flush(b) ==
    /\ mode = "run"
    /\ ZeroHash \in DOMAIN unCommit /\ b \in Own \ DOMAIN unCommit
    /\ unCommit[ZeroHash].number = Number[b] /\ unCommit[ZeroHash].parent = Parent[b]
    /\ unCommit' = [h \in (DOMAIN unCommit \ {ZeroHash}) \cup {b} |->
                      IF h = b THEN [unCommit[ZeroHash] EXCEPT !.hash = b] ELSE unCommit[h]]
    /\ UNCHANGED <<committed, current, walCh, disk, head, at, mode, crashes, torn>>

-----------------------------------------------------------------------------
(* Commit: three locks, one after the other *)

(* Mutant of CommitSend: the block leaves unCommit before it is committed.  *)
CommitSendDelete ==
    LET b == FinalAt(current.num + 1)
    IN  /\ mode \in {"run", "replay"} /\ at.commit[1] = "idle"
        /\ b \in DOMAIN unCommit /\ Len(walCh) < WalChan
        /\ walCh' = Append(walCh, unCommit[b])
        /\ at' = [at EXCEPT !.commit = <<"sent", unCommit[b]>>]
        /\ unCommit' = [h \in DOMAIN unCommit \ {b} |-> unCommit[h]]
        /\ UNCHANGED <<committed, current, disk, head, mode, crashes, torn>>

(* The checks, and the block goes to the log, waiting while walCh is full.  *)
(* The reactor and the worker get each block from one synchronous event.    *)
CommitSend ==
    LET n == current.num + 1
        b == FinalAt(n)
    IN  /\ mode \in {"run", "replay"} /\ at.commit[1] = "idle"
        /\ n <= Height /\ n <= head + (IF mode = "run" THEN Lag ELSE 0)
        /\ b \in DOMAIN unCommit
        /\ current.hash # ZeroHash => unCommit[b].parent = current.hash
        /\ Len(walCh) < WalChan
        /\ walCh' = Append(walCh, unCommit[b])
        /\ at' = [at EXCEPT !.commit = <<"sent", unCommit[b]>>]
        /\ UNCHANGED <<unCommit, committed, current, disk, head, mode, crashes, torn>>

CommitAppend ==
    /\ at.commit[1] = "sent"
    /\ LET bd == at.commit[2]
       IN  /\ current' = [current EXCEPT !.num = @ + 1, !.hash = bd.hash]
           /\ committed' = Append(committed, bd)
           /\ at' = [at EXCEPT !.commit = <<"appended", bd>>]
    /\ UNCHANGED <<unCommit, walCh, disk, head, mode, crashes, torn>>

(* Mutant of CommitDelete: the replay expects one block more.               *)
CommitDeleteMore ==
    /\ at.commit[1] = "appended"
    /\ unCommit' = [h \in DOMAIN unCommit \ {at.commit[2].hash} |-> unCommit[h]]
    /\ at' = [at EXCEPT !.commit = <<"idle">>]
    /\ mode' = IF current.num > head THEN "run" ELSE mode
    /\ UNCHANGED <<committed, current, walCh, disk, head, crashes, torn>>

(* The engine starts when the replay has reached the head of the chain.     *)
CommitDelete ==
    /\ at.commit[1] = "appended"
    /\ unCommit' = [h \in DOMAIN unCommit \ {at.commit[2].hash} |-> unCommit[h]]
    /\ at' = [at EXCEPT !.commit = <<"idle">>]
    /\ mode' = IF current.num = head THEN "run" ELSE mode
    /\ UNCHANGED <<committed, current, walCh, disk, head, crashes, torn>>

(* The worker writes the block to the chain. *)
WriteBlockWithState ==
    LET n == head + 1
    IN  /\ mode = "run" /\ n <= Height /\ n <= current.num + Lag
        /\ n > current.num => FinalAt(n) \in DOMAIN unCommit
        /\ head' = n
        /\ UNCHANGED <<memory, disk, at, mode, crashes, torn>>

-----------------------------------------------------------------------------
(* loopWriteWal: receive, write the record, raise the persisted highest *)

WalReceive ==
    /\ at.wal[1] = "idle" /\ walCh # <<>>
    /\ at' = [at EXCEPT !.wal = <<"write", Head(walCh)>>]
    /\ walCh' = Tail(walCh)
    /\ UNCHANGED <<unCommit, committed, current, disk, head, mode, crashes, torn>>

(* Mutant of WalPut: the persisted highest is not raised.                   *)
WalPutOnly ==
    /\ at.wal[1] = "write"
    /\ disk' = [disk EXCEPT !.wal = (at.wal[2].number :> at.wal[2]) @@ @]
    /\ at' = [at EXCEPT !.wal = <<"idle">>]
    /\ UNCHANGED <<memory, head, mode, crashes, torn>>

WalPut ==
    /\ at.wal[1] = "write"
    /\ LET bd == at.wal[2]
       IN  /\ disk' = [disk EXCEPT !.wal = (bd.number :> bd) @@ @]
           /\ at' = [at EXCEPT !.wal = <<"highest", bd>>]
    /\ UNCHANGED <<memory, head, mode, crashes, torn>>

WalHighest ==
    /\ at.wal[1] = "highest"
    /\ disk' = [disk EXCEPT !.num = at.wal[2].number, !.hash = at.wal[2].hash]
    /\ at' = [at EXCEPT !.wal = <<"idle">>]
    /\ UNCHANGED <<memory, head, mode, crashes, torn>>

-----------------------------------------------------------------------------
(* Compaction *)

KvSize(n) == MapThenSumSet(LAMBDA i : Cardinality(DOMAIN committed[i].data), 1..n)

(* Mutant of findToWrite: blocks the log has not reached are compacted.     *)
findToWriteAll == Len(committed)

(* findToWrite: many blocks - all but the last ones; else up to             *)
(* MaxBlockCompaction blocks or kvLIMIT keys, at least one, none above the  *)
(* persisted highest or the head of the chain.                              *)
findToWrite ==
    LET len == Len(committed)
        over == {i \in 1..(Min({len, MaxBlockCompaction}) - 1) : KvSize(i) > kvLIMIT}
        some == IF over # {} THEN Min(over) - 1
                ELSE IF len > MaxBlockCompaction THEN MaxBlockCompaction ELSE 0
        most == Max({some, 1})
        minimumHeight == Min({disk.num, head})
    IN  IF len = 0 THEN 0
        ELSE IF len > MaxBlockTriggerCompaction THEN len - MaxBlockNotCompactionSync
        ELSE Cardinality({i \in 1..most : committed[i].number <= minimumHeight})

(* Mutant of CompactionWrite: older blocks overwrite newer ones.            *)
CompactionWriteReversed ==
    LET n == findToWrite
        gone == {committed[i].number : i \in 1..n}
    IN  /\ at.compact = 0 /\ n > 0
        /\ disk' = [disk EXCEPT
              !.kv = FoldRight(LAMBDA bd, s : Overlay(s, bd.data), SubSeq(committed, 1, n), @),
              !.wal = [i \in DOMAIN @ \ gone |-> @[i]]]
        /\ at' = [at EXCEPT !.compact = n]
        /\ UNCHANGED <<memory, head, mode, crashes, torn>>

(* writeToBasedb: one batch writes the keys and deletes the log records.    *)
CompactionWrite ==
    LET n == findToWrite
        gone == {committed[i].number : i \in 1..n}
    IN  /\ at.compact = 0 /\ n > 0
        /\ disk' = [disk EXCEPT
              !.kv = FoldLeft(LAMBDA s, bd : Overlay(s, bd.data), @, SubSeq(committed, 1, n)),
              !.wal = [i \in DOMAIN @ \ gone |-> @[i]]]
        /\ at' = [at EXCEPT !.compact = n]
        /\ UNCHANGED <<memory, head, mode, crashes, torn>>

(* The list is cut, increaseBase writes the new base, rmExpireForkBlock     *)
(* drops old blocks when there are many.                                    *)
CompactionCut ==
    LET base == current.base + at.compact
    IN  /\ at.compact > 0
        /\ committed' = SubSeq(committed, at.compact + 1, Len(committed))
        /\ current' = [current EXCEPT !.base = base]
        /\ disk' = [disk EXCEPT !.base = base]
        /\ unCommit' = IF Cardinality(DOMAIN unCommit) > UnBlockNeedClean
                       THEN [h \in {x \in DOMAIN unCommit : unCommit[x].number > base} |-> unCommit[h]]
                       ELSE unCommit
        /\ at' = [at EXCEPT !.compact = 0]
        /\ UNCHANGED <<walCh, head, mode, crashes, torn>>

-----------------------------------------------------------------------------
(* Get and Ranking, one step per lock *)

(* The reader asks for a block in unCommit or for the latest committed one. *)
Readable(hash) ==
    /\ mode = "run" /\ crashes <= ReadCrash /\ at.get[1] \in {"idle", "done", "ranked"}
    /\ hash \in (DOMAIN unCommit \ {ZeroHash}) \cup {FinalAt(current.num)}

Done(hash, k, v) == <<"done", hash, k, v>>

GetUnCommit(hash, k) ==
    LET u == getFromUnCommit(hash, k)
    IN  /\ Readable(hash)
        /\ at' = [at EXCEPT !.get = IF u # <<>> THEN Done(hash, k, u[1])
                                    ELSE <<"committed", hash, k, 0>>]
        /\ UNCHANGED <<memory, disk, head, mode, crashes, torn>>

GetCommitted ==
    /\ at.get[1] = "committed"
    /\ LET hash == at.get[2]
           k == at.get[3]
           c == getFromCommit(k)
       IN  at' = [at EXCEPT !.get = IF c # <<>> THEN Done(hash, k, c[1])
                                    ELSE <<"base", hash, k, 0>>]
    /\ UNCHANGED <<memory, disk, head, mode, crashes, torn>>

GetBaseDB ==
    /\ at.get[1] = "base"
    /\ at' = [at EXCEPT !.get = Done(at.get[2], at.get[3], disk.kv[at.get[3]])]
    /\ UNCHANGED <<memory, disk, head, mode, crashes, torn>>

RankingUnCommit(hash, max) ==
    /\ Readable(hash)
    /\ at' = [at EXCEPT !.get = <<"rank committed", hash, max, Layers(hash)>>]
    /\ UNCHANGED <<memory, disk, head, mode, crashes, torn>>

RankingCommitted ==
    /\ at.get[1] = "rank committed"
    /\ at' = [at EXCEPT !.get =
                 <<"rank base", at.get[2], at.get[3], LayersCommitted(at.get[2], at.get[4])>>]
    /\ UNCHANGED <<memory, disk, head, mode, crashes, torn>>

RankingBaseDB ==
    /\ at.get[1] = "rank base"
    /\ at' = [at EXCEPT !.get =
                 <<"ranked", at.get[2], at.get[3], Ranked(Append(at.get[4], disk.kv), at.get[3])>>]
    /\ UNCHANGED <<memory, disk, head, mode, crashes, torn>>

-----------------------------------------------------------------------------
(* Crash and restart *)

(* loadCurrent: the highest block is lowered to the head of the chain.      *)
Loaded == IF disk.num > head THEN [num |-> head, hash |-> FinalAt(head)]
          ELSE [num |-> disk.num, hash |-> disk.hash]

(* open fails: Valid, resetHighestByChainCurrentHeader, or recover without  *)
(* a record for the block after the base.                                   *)
OpenAccepts ==
    /\ disk.base <= disk.num
    /\ disk.base <= head
    /\ DOMAIN disk.wal # {} => Min(DOMAIN disk.wal) <= disk.base + 1

(* recover: the records between base and highest, in order.                 *)
Recovered ==
    LET nums == {n \in DOMAIN disk.wal : disk.base < n /\ n <= Loaded.num}
    IN  [i \in 1..Cardinality(nums) |-> disk.wal[SetToSortSeq(nums, LAMBDA x, y : x < y)[i]]]

(* The highest block after recover: the last record, or the base without a  *)
(* hash.                                                                    *)
RecoveredCurrent ==
    IF Recovered = <<>> THEN [base |-> disk.base, num |-> disk.base, hash |-> ZeroHash]
    ELSE [base |-> disk.base, num |-> Last(Recovered).number, hash |-> Last(Recovered).hash]

(* The process dies at any point, between the two writes of Compaction too, *)
(* and is started again.  Records outside the range stay: recover deletes   *)
(* them by value instead of by key.                                         *)
Crash ==
    /\ mode # "refused" /\ crashes < MaxCrash
    /\ crashes' = crashes + 1 /\ torn' = (torn \/ at.compact > 0)
    /\ unCommit' = <<>> /\ walCh' = <<>> /\ at' = Idle
    /\ IF OpenAccepts
       THEN /\ committed' = Recovered
            /\ current' = RecoveredCurrent
            /\ disk' = [disk EXCEPT !.num = RecoveredCurrent.num, !.hash = RecoveredCurrent.hash]
            /\ mode' = IF RecoveredCurrent.num < head THEN "replay" ELSE "run"
       ELSE /\ mode' = "refused" /\ committed' = <<>>
            /\ current' = [base |-> 0, num |-> 0, hash |-> Genesis]
            /\ UNCHANGED disk
    /\ UNCHANGED head

Next ==
    \/ \E b \in Block : Execute(b) \/ Seal(b) \/ Flush(b)
    \/ CommitSend \/ CommitAppend \/ CommitDelete \/ WriteBlockWithState
    \/ WalReceive \/ WalPut \/ WalHighest
    \/ CompactionWrite \/ CompactionCut
    \/ \E r \in Reads : GetUnCommit(r[1], r[2])
    \/ \E r \in Ranks : RankingUnCommit(r[1], r[2])
    \/ GetCommitted \/ GetBaseDB \/ RankingCommitted \/ RankingBaseDB
    \/ Crash

(* The goroutines of the database keep running, and recoverSnapshotDB works *)
(* through its loop; nothing is assumed about consensus, compaction or      *)
(* readers.                                                                 *)
Replay == mode = "replay" /\ ((\E b \in Block : Execute(b)) \/ CommitSend)

Spec ==
    /\ Init /\ [][Next]_vars
    /\ WF_vars(Replay) /\ WF_vars(CommitAppend) /\ WF_vars(CommitDelete)
    /\ WF_vars(WalReceive) /\ WF_vars(WalPut) /\ WF_vars(WalHighest)

-----------------------------------------------------------------------------
(* Every block that extends what is committed reads the state of its own    *)
(* chain, before and after commits, compactions, crashes and replays; so    *)
(* does a read of the latest committed state.  A crash between the two      *)
(* writes of Compaction is excepted: after it open refuses the disk, or the *)
(* replay executes blocks again whose keys the base already has.            *)
ReadsOwnChain == ~torn =>
    /\ \A h \in DOMAIN unCommit \ {ZeroHash}, k \in Key :
          FinalAt(current.num) \in Ancestors[h] => Get(h, k) = Value[h][k]
    /\ \A k \in Key : mode # "refused" => GetFromCommittedBlock(k) = Value[FinalAt(current.num)][k]

(* A Get that takes its three locks one after the other, with commits and   *)
(* compactions in between, answers with the value of its block's chain as   *)
(* long as only ancestors of that block were committed meanwhile, and no    *)
(* crash tore a compaction before.                                          *)
GetAnswers ==
    ~torn /\ at.get[1] = "done" /\ FinalAt(current.num) \in Ancestors[at.get[2]]
        => at.get[4] = Value[at.get[2]][at.get[3]]

(* Ranking, which takes the same locks one after the other and leaves a     *)
(* layer early, returns the smallest live keys of the chain of its block,   *)
(* or all of them without a limit, as long as only ancestors of that block  *)
(* were committed meanwhile and no crash tore a compaction before.          *)
RankingMatches ==
    LET live == {k \in Key : Value[at.get[2]][k] > 0}
    IN  ~torn /\ at.get[1] = "ranked" /\ FinalAt(current.num) \in Ancestors[at.get[2]] =>
            at.get[4] = {k \in live : at.get[3] = 0 \/ Cardinality({j \in live : j < k}) < at.get[3]}

(* Outside the two writes of Compaction a crash leaves a disk that open     *)
(* accepts, and what it recovers is the state of the chain at the height it *)
(* reports, unless an earlier crash fell between the two.                   *)
CrashSafe ==
    ~torn /\ at.compact = 0 =>
        /\ OpenAccepts
        /\ FoldLeft(LAMBDA s, bd : Overlay(s, bd.data), disk.kv, Recovered)
              = Value[FinalAt(RecoveredCurrent.num)]

(* After a restart the blocks of the chain above the recovered highest are  *)
(* executed and committed until the engine can start.                       *)
ReplayEnds == mode = "replay" ~> mode = "run"

(* A committed block reaches the persisted highest, unless a crash takes it *)
(* back.                                                                    *)
CommitsLogged == \A n \in 1..Height : current.num >= n ~> disk.num >= n \/ current.num < n
=============================================================================

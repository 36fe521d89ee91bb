# TLA+ models of PlatON-Go

PlatON-Go is a go-ethereum node with its own consensus engine, CBFT
(`src/consensus/cbft`), a pipelined Byzantine fault tolerant protocol, a store of
its own for the economic model, snapshotdb (`src/core/snapshotdb`), and system
contracts in Go (`src/x`). This project models the consensus engine, the store and
the contracts that hold the stakes. Transactions, the EVM and the network are inputs
to them.

Contents: [the system](#the-system), [modules](#modules-and-code),
[runs](#runs), [bounds and fairness](#bounds-and-fairness), [proofs](#proofs),
[where code and comments differ](#where-code-and-comments-differ),
[not modelled](#not-modelled), [plan](#plan).

## The system

Time is divided into epochs, each with a fixed set of validators, and epochs
into views. In view `v` validator `v % N` proposes up to `Amount` blocks. Each
validator executes a block, then votes for it once the parent has a quorum
certificate (QC, `N - (N-1)/3` votes). A certified block whose parent and
grandparent are certified locks its parent and commits its grandparent. A view
ends when its last block is certified, when the last block of the epoch is, or
when a quorum of `ViewChange` messages, each reporting its sender's highest QC,
says so.

Executing a block writes the state of the economic model into snapshotdb, one
layer per block. A committed block's layer is logged, kept in memory and later
compacted into the base. Which nodes validate is decided by their stakes and by what
others delegate to them, partly with money that is under a restricting plan and
comes free epoch by epoch.

### Parts, state and operations

Files are under `src/consensus/cbft` unless the path says otherwise.

| part | state | operations | talks to |
|---|---|---|---|
| block tree (`types/block_tree.go`) | map of certified blocks, root | `InsertQCBlock`, `PruneBlock`, `NewRoot`, `Reset` | consensus process, sync |
| view state (`state/state.go`, `timer.go`) | blocks, votes, QCs and ViewChanges of the view, pending and sent votes, executing index, highest blocks, timer | setters, `ResetView`, `HighestExecutedBlock` | consensus process, miner |
| consensus process (`consensus_process.go`) | - | `OnPrepareBlock`, `OnPrepareVote`, `OnViewChange`, `OnViewTimeout`, `OnInsertQCBlock`, `onAsyncExecuteStatus`, and what they call | everything |
| rules (`rules/`) | - | `PrepareBlockRules`, `PrepareVoteRules`, `ViewChangeRules`, `QCBlockRules`, `AllowVote` | consensus process |
| validator pool (`validator/`) | current and previous validators, switch point, epoch | `ShouldSwitch`, `Update`, `Reset`, lookups | consensus process, agency |
| sealing (`cbft.go`) | - | `ShouldSeal`, `NextBaseBlock`, `OnSeal` | miner |
| executor (`executor/`) | two channels | `Execute`, result | consensus process |
| message intake (`cbft.go`) | channels, counters per peer, status flags | `ReceiveMessage`, `ReceiveSyncMsg`, `receiveLoop` | network handler |
| cache of early messages (`types/cache.go`) | messages by epoch and view | `Add*`, `Get*`, `Purge` | intake, consensus process |
| write-ahead log (`wal_bridge.go`, `wal/`) | journal files, checkpoint, chain state | `WriteSync`, `UpdateViewChange`, `UpdateChainState`, `Load` | consensus process, worker |
| agency (`src/x/plugin/staking_plugin.go`, `src/core/blockchain_reactor.go`) | rounds and their validators, in the store | `Election` at `EndBlock`, `GetLastNumber`, `GetValidator` | validator pool |
| worker (`src/miner/worker.go`) | results to write | `resultLoop` | WAL, chain |
| sync, fetcher (`sync_process.go`, `fetcher/`) | outstanding requests | requests and answers between peers | consensus process, network |
| evidence pool (`evidence/`) | messages of recent views | `Add*`, `Clear` | rules |
| snapshotdb (`src/core/snapshotdb`) | layers of uncommitted and committed blocks, base, log | `NewBlock`, `Flush`, `Commit`, `Get`, `Ranking`, `Compaction`, `open` | executor, reactor, RPC |
| restricting plugin (`src/x/plugin/restricting_plugin.go`) | plans, releases per epoch, what is advanced | plan, advance, return, penalty, release | staking plugin |
| staking plugin (`src/x/plugin/staking_plugin.go`) | candidates, power index, delegations, locks, unstake items | create, increase, withdraw, delegate, redeem, penalties, ends of epochs | restricting, slashing, governance |
| slashing plugin (`src/x/plugin/slashing_plugin.go`) | used evidence, waiting nodes | `BeginBlock`, `Slash` | staking plugin |

One goroutine (`receiveLoop`) runs all handlers of consensus, one at a time. The
goroutines of the peers, the executor, the worker, the miner, the fetcher and the
downloader run beside it and meet it through channels, and through a few reads of its
state. snapshotdb is called from several of these, with a goroutine for its log and a
cron job for compaction, and takes several locks in turn. The plugins run inside the
execution of a block, one transaction after the other.

### What is hard

* Certificates, votes, proposals, timeouts and execution results come in any
  order, and each handler has to finish what it has made possible.
* A view is abandoned while blocks are being executed, built or voted for.
* The process crashes between two durable writes, or between a write and a
  broadcast, while another goroutine writes what has been committed.
* Consensus, chain and store each persist the same block at a different moment.
* A reader of the store meets commits and compactions between its locks.
* The set of validators changes at the end of an epoch, which a node may reach by
  three routes. They are read from the store, which another goroutine brings up to
  date.
* Repeats pass the first check together, channels fill up, the engine pauses.
* Two plugins keep two accounts of the same money, some of it is settled lazily, and a
  node may be frozen, penalised, reported and withdrawn in any order.

### What has to be right

Two validators never commit different blocks of one height; commits follow the
three-chain rule and never go back; the tree never loses the highest blocks, never
keeps an orphan and never panics; a validator never votes after its ViewChange, nor
for a block it has not executed, nor twice; its ViewChange covers all it voted for;
views never go back; no handler leaves an enabled step behind; a restart brings back
what was signed; a certificate is checked against the validators elected for its
epoch; each message is handled once and no peer is blocked for good. A block
reads the state of its own chain, whatever is committed, compacted or recovered
meanwhile. The contracts hold exactly what they owe, nothing stays locked for ever,
and no refund or penalty fails. `PROJECT.json` lists the hazards with the line each
one bites at and the properties that watch it.

## Modules and code

`PROJECT.json` maps each definition to its lines.

**`Blocks`** is the universe of blocks (`Parent`, `Number`, and the `Epoch` and
`ViewNumber` of the one certificate a block can get) with the pure operations of
`block_tree.go`: `maxBlock`, `commitBlock` and its panics, `PruneBlock`.
Parent pointers are not stored: they are set exactly when the parent is in the
tree.

**`BlockTree`** has the tree and the highest blocks as variables. Its actions are
`insertQCBlock` (with `TrySetHighestQCBlock` and `tryCommitNewBlock`) and
`FastSyncCommitHead`. The environment may certify anything whose parent is in the
tree, in any order and on any fork: what holds here depends on no assumption about
the other validators.

**`CbftNode`** (extends `Blocks`) is one validator. A procedure of the code is an
operator from state to state, a handler an action that applies the whole chain of
calls: `OnPrepareVote`, for instance, is `insertPrepareQC` and then `findQCBlock`,
with the insertion, the votes and the view change they lead to. The deadline of the
view and the expiry of its timer are two actions, because handlers run in between.
Sealing is the three calls of the miner, with anything in between. The other
validators lag, crash, lose and reorder messages. Each proposer proposes one chain per
view (`proposed`, `Proposable`), some of the proposed blocks get a certificate
(`certified`), and the certified ones do not commit two blocks of one height
(`Agreed`). Within that a certificate may appear at any time, before or after the votes
and proposals it belongs to, so the model contains more behaviours than a real quorum
would allow. `Agreed` is needed: with certificates for any proposed blocks, three
blocks per view and three views, TLC finds `LookupsHold` violated.

**`Votes`, `Voter`, `Agreement`** go from one validator to all of them. `Votes` are
the rules a signer keeps (`CanVote`, `CanChange`), `Voter` the abstract specification
of a validator: what it has signed and which certified blocks it holds, and that every
step signs and inserts by those rules. `CbftNode` refines it, with its sent votes and
ViewChanges and its tree as the abstract state (`ImplementsVoter`, checked by TLC in
`node_pipeline` and proved as `SignsAsVoter`).

`Agreement` has the correct validators of one epoch, with an action for each thing a
handler of theirs shows to the others: `Propose` is `OnSeal`, `Insert` is
`insertQCBlock`, `Vote` and `Change` are the two signatures. Messages are the sets of
proposals and signatures, which anybody may use at any time or never. The faulty
validators do not appear: `Quorum` is the family of sets of *correct* validators that,
with the faulty ones, complete a certificate. With `n` validators, at most `(n-1)/3` of
them faulty and the threshold `n - (n-1)/3` of `cbft.go`, any two such sets share a
member, which is the assumption made.

What a first block is built on (`Base`) is where the code is subtle. A view that the
node enters because the last block of the view before is certified has no ViewChangeQC;
`checkViewChangeQC` then asks only that the parent has the last index of *some* view
(`cbft.go:1430`), and a block of number 1 is not checked at all (`cbft.go:1547`). So the
checks of the voters alone do not make the properties below true. They are true of
proposals made by `OnSeal`, which builds on the max block of the ViewChangeQC it entered
the view with, or else on its highest certified block, and that is what `Propose` says:
`Agreement` assumes of proposers that they run this code, several of them for one place
of a view if need be.

`Agreement` and `CbftNode` fit together so. What `Voter` allows in one step is a
sequence of the `Insert`s (from the lowest number up), `Vote`s and `Change`s of one
validator of `Agreement`, whose `known` is never pruned and so contains the tree.
`SealsOnBase` states of `CbftNode` what `Propose` and `Base` say. In return `Agreement`
shows of close commits what `CbftNode` assumes of its environment with `Agreed`. The two
are not joined in one theorem: `CbftNode` takes the certificates of a behaviour as given
from its start, and of commits that are not close `Agreed` is an assumption only.

**`Wal`** is crash and recovery. A handler computes its new memory in one step and
leaves a list of effects (`todo`: journal record, checkpoint, broadcast, result for
the worker) that are done one at a time, in the order of the code; the process may
crash between any two. The worker writes the chain state, then the block.
`Recovered(disk)` is `Start`: `recoveryChainState`, then the replay of the journal
from the checkpoint. Consensus is simpler here than in `CbftNode`: the certified
blocks are one chain, a chain state is named by the number of its QC block, and
epochs are folded into view numbers. The history variable `gap` records whether
some crash fell where the journal does not cover the current view (`InGap`): before
the first change of view, when no checkpoint exists (`wal.go:285`), or between the
two writes of `ConfirmViewChange`.

**`CSMsgPool`** is the cache of early messages as package `types` offers it, with `Add`,
`Get`, `Purge`. The engine wraps every message it adds as an inner one
(`cbft.go:566`, `569`, `598`), which `Add` ignores; so the cache of the engine stays
empty, and nothing is claimed of it. What is proved of `CSMsgPool` is about the package,
for callers that add messages of either kind.

**`ValidatorPool`** is who validates which block, on one node: the agency (`Index`
is the queue of rounds in the state of each block, `EndBlock` and `ConstantAppend`
extend it), the pool itself (`At` is `NewValidatorPool` and `Reset`, then `Update` and
the lookups), and the goroutines that share them. Consensus certifies block after
block (`Insert`, `tryChangeView`), and posts what is committed to the reactor, from
whose commits the agency answers, and to the worker, which writes the chain state and
the block. The views entered are journalled in two writes. `Crash` may fall between
any two steps; `Restart` is `Start` with `recoveryChainState` and the replay of the
view, and `FastSyncCommitHead` brings a new node to any block. Each epoch has its own
set of validators (`Elected`), so a wrong set shows.

**`Inbox`** (extends `CSMsgPool`) composes the goroutines of the peers, the counters of
messages in flight, the two channels, the history of hashes, `receiveLoop` and its calls
of the cache. The history variable `dropped` counts what each peer lost at a full
channel, where `forgetMessage` is not called. What a handler decides about a message is
left open, as far as status and view allow.

**`SnapshotDB`** is the store beside the chain it follows. The threads are the executor
and the miner (`Execute`, `Seal`, `Flush`), the reactor that commits (`CommitSend`,
`CommitAppend`, `CommitDelete`: one action per lock), the worker that writes the same
blocks to the chain, `loopWriteWal` (`WalReceive`, `WalPut`, `WalHighest`: one per
durable write), the cron job (`CompactionWrite`, `CompactionCut`) and a reader whose
`Get` and `Ranking` take three locks in turn. `Crash` is the death of the process at any
point, with `open` and `recover`; the history variable `torn` records that one fell
between the two writes of a compaction; blocks the store has lost and the chain has are
executed again (`mode = "replay"`). A block increments some keys and deletes others, so
that a value read from a wrong layer shows. `Value[b]` is the reference: the state along
the chain of `b`, without layers.

**`Restricting`** is the restricting plugin, as operators from ledger to ledger, with
a specification of its own in which every call may come at any time. **`Staking`**
(extends `Restricting`) is the staking plugin on top of it, with the delegation locks,
the penalties of the slashing plugin and the items handled at the ends of epochs. A
transaction is one action and applies as a whole or not at all. `NextBlock` is the end
of a block and the beginning of the next, with the plugins in the order of the code.
Which nodes are verifiers, produced nothing or signed twice is chosen by the
environment. `funds.broken` records a refund or penalty that met an error its caller
cannot handle, or the panic on shares.

`MCBlockTree`, `MCCbftNode`, `MCAgreement`, `MCWal`, `MCValidatorPool`, `MCInbox`,
`MCSnapshotDB` and `MCStaking` are the instances for TLC. `BlockTree_proofs`,
`Agreement_proofs`, `Inbox_proofs` (with the proofs about `CSMsgPool`),
`ValidatorPool_proofs`, `Restricting_proofs` and the chain
`CbftProcedures_proofs`, `CbftHandlers_proofs`, `CbftNode_proofs` hold the theorems.
Definitions marked "Mutant of" are wrong variants of the definition that follows them.
They are used by nothing; putting one in place of the original has to break a
property, which shows that the property can fail.

## Runs

Passing runs:

| run | instance | shows |
|---|---|---|
| `block_tree` | all 32 chains over five views in two epochs | the invariants and action properties that are also proved, on every fork in every order |
| `node_pipeline` | two validators, two blocks per view, two views | the handlers implement `Voter`, lookups by index and pointer find the right block, views go forward, no vote or executable block is left behind, what is sealed is on the base `Agreement` assumes |
| `node_epochs` | four validators, two epochs of two blocks | the pool keeps up with the epochs, votes only for executed blocks, no change of view left behind |
| `agreement` | four validators, one faulty, seven blocks over three views, the second opened without a ViewChangeQC | one certificate per place of a view, later certificates extend what was committed |
| `wal_crash` | proposer in the second view, four blocks, one crash | a restart succeeds, no commit skipped, the view and everything broadcast is recovered, nothing is signed twice |
| `pool` | three and a half rounds of four blocks, fast sync, two crashes | the pool answers with the elected validators |
| `inbox` | two peers, three messages each, channels of two | the counters are what is in flight and what was dropped, no repeat is accepted, channels drain |
| `snapshotdb` | four blocks, a fork, a sealed block, one crash | reads and rankings see the chain of their block and a crash is survived, unless it falls between the two writes of a compaction; replay ends, commits get logged |
| `staking` | two accounts, one node, six blocks, five transactions | the contracts are solvent, the plugins agree, no call fails, shares and totals match, every exit is scheduled |

Three further runs check what a comment or an assertion of the repository says, and
find it violated; they are described [below](#where-code-and-comments-differ).

The properties worth arguing about:

* `ImplementsVoter`: among other things, the certificate in a ViewChange is not below
  that of the parent of any block voted for in that view or before, and no vote follows
  a ViewChange. Together with quorum intersection this carries a possible commit into
  the next view.
* `OneCertificate`, `Finality`: what follows for all validators together. `Finality`
  is about *close* commits, where the committing block is of the view of its parent or
  of the next one. `tryCommitNewBlock` compares heights and not views, and for a commit
  across more views the argument below does not go through. It excepts certificates of
  number 1: a proposer that holds nothing but genesis may build on it in any view, such
  a block may still be certified, and never gets a certified successor.
* `SealsOnBase`: the view, the tree and the executing index move between `ShouldSeal`,
  `NextBaseBlock` and `OnSeal`, and still a block is only sealed on the base that
  `Agreement` assumes of proposers.
* `NoWorkLeft`, `NoMissedViewChange`: at rest, the procedures that look for something
  to do find nothing. A handler that forgets to call them would leave the node waiting
  for an unrelated event.
* `LookupsHold`: places where the code finds a block by index or pointer, and only a
  condition elsewhere makes it the right one.
* `RecoversMessages`, `SignsOnce`: logged before sent, replayed before active. They
  exclude crashes in the `gap`, which `NoViewRegress` is about. `SignsOnce` looks at
  what was broadcast: a vote that was only logged reached nobody.
* `EveryCommitReachesChain`: commits in memory = blocks on the chain + with the
  worker + about to be posted, through every crash.
* `LookupsRight`: the pool asks the store, which lags consensus by the reactor's queue
  and is rebuilt after a crash, and its errors are only logged. Still each lookup, by
  any block of the tree, by the next block and by the current epoch, gets the
  validators elected for it.
* `Accounted`: the counter of a peer is exact, with the messages it lost at full channels
  on top: a path that forgot a message twice or never would show.
* `RestartSucceeds`: where the journal may be ahead of the chain state, it promises
  only that the chain state fits the chain.
* `AcceptedOnce`: the first check for repeats is stale by the time the message is
  handled; the second one is not.
* `ReadsOwnChain`, `GetAnswers`: the layers together always are the state of the
  block's own chain, also for a reader between whose locks blocks were committed and
  compacted. This depends on the order in which a commit appears in the new place and
  leaves the old one. Both except what follows a crash between the two writes of a
  compaction, where they are false ([below](#where-code-and-comments-differ)).
* `CrashSafe`: log, persisted highest and base are written by three goroutines at
  three moments; at each of them, what `recover` would build is the state of the chain
  at the height it would report.
* `RankingMatches`: the same for `Ranking`, with and without a limit; `itr2Heap` leaves a
  layer early, and a deletion in a newer layer has to hide the key in an older one.
* `Solvent`, `AdvanceMatchesStakes`: the same money is counted by the balances, by the
  restricting plugin and by the staking plugin; every operation has to change the three
  alike.
* `DelegateTotalsMatch`: the node's total and each delegation leave the hesitation
  period lazily, at different times.
* `NothingStuck`, `EveryExitIsScheduled`: what is locked has an epoch in which it comes
  free.

## Bounds and fairness

* `BlockTree`: every subset of five views is a chain, the second epoch starts at
  view 3. A commit takes three levels, so two commits, prunes with forks on each
  level and a change of epoch in between all happen.
* `CbftNode`: `MaxView` bounds the views entered in `Handled`. Two views are enough
  for each kind of change of view and for every message of the previous view to
  arrive late. Two validators make a quorum of two, which needs the own vote and
  another; four make a quorum of three, with votes and ViewChanges to spare. The
  choice of proposals is made in `Init`: each view builds on any earlier block.
* `Agreement`: three views are the least in which a commit of the first could be lost.
  View 1 is opened without a ViewChangeQC, and its blocks commit the last one of view 0;
  view 2 has two blocks for one place, one that leaves the committed block out and one on
  genesis, so each property has something to rule out. `ChangeView` bounds the views for
  which ViewChanges are signed to the one that matters. The validators are symmetric. The theorems have no
  such bound.
* `Wal`: one crash at any of the points; recovery is a function of the disk
  (`Recovered`), and its properties are evaluated in each state, before and after
  the crash. Four blocks give two commits. Transactions are symmetric.
* `ValidatorPool`: rounds have four blocks and the election is three
  before the end, the least distance the assumption allows; the store remembers two
  rounds, so old ones are forgotten. With 14 blocks the fourth epoch is entered; two
  crashes let a restart find what an earlier restart left. The theorems have no bound.
* `Inbox`: with two peers, three messages each and channels of two, messages are
  dropped at full channels and at the limit of the peer. A history of one message
  evicts.
* `SnapshotDB`: the limits of the code (`kvLIMIT` and the four of compaction) are
  small, so that each is reached; the log queue holds one block. `Lag` bounds how far
  the reactor and the worker are apart: one block, either way. One crash, and one reader
  that starts before it (`ReadCrash`); what a restarted store holds is read without
  interleaving by `ReadsOwnChain`. The ranked key ranges are those with a limit of one
  and without a limit.
* `Staking`: amounts are 1 and 2, epochs have one block, and each freeze lasts one or
  two epochs, so that within six blocks a stake is created, penalised, frozen, withdrawn
  and paid out. Five transactions (`MaxTxs`) allow a plan, a stake, a delegation, a
  withdrawal and one more. Delegations stay locked for two epochs, so that an account
  has two locks at once; a third account is out of reach within these bounds. In the
  passing run governance lowers `StakeThreshold`; that it raises it is the run
  `staking_raise`.

Deadlock checking is off where the bounds stop the model (`BlockTree`, `CbftNode`,
`Agreement`, `Wal`, `ValidatorPool`, `SnapshotDB`, `Staking`), and on for `Inbox`.

Liveness. `ChannelsDrain` assumes weak fairness of `receiveLoop` and of each peer's
goroutine once it holds a message: goroutines that can run do run, and `receiveLoop`
selects among its channels at random, so that neither channel is starved. Nothing is
assumed of the peers, the pauses or the changes of view. `ReplayEnds` and
`CommitsLogged` assume weak fairness of the loop that replays after a restart, of a
`Commit` that has begun and of `loopWriteWal`; nothing is assumed of consensus, the
worker, compaction or readers.

## Proofs

`BlockTree_proofs`, for every `Block`, `Parent`, `Number`, `Epoch` and `ViewNumber`
with `BlockAssumption` (a number is one above that of the parent, genesis is number
0), so for unboundedly many blocks, forks and epochs:

* `TypeCorrect`, `TreeRooted`, `TreeBounded`, `HighestTracked`, `NeverPanics`: the
  type invariant and the invariants of the run `block_tree`;
* `CommitRule`, `Monotonic`: its two action properties.

The inductive invariant `IInv` is the conjunction of the five invariants; none is
inductive alone. `ThreeLevels` holds because a block on a third level makes the
commit rule fire (`ThirdLevelCommits`), which needs `Rooted` and the lock beside the
commit block (`HighestInTree`). `Rooted` survives the prune because three
generations of `Children` reach every leaf (`PruneKeepsTree`), which needs
`ThreeLevels`. And `commitBlock` finds its pointers because of `Rooted`
(`PointersSet`, `CommitChain`). `InsertStep` splits an insertion into one that
commits (`CommitStep`) and one that does not (`StayStep`).

`Agreement_proofs`, for every set of blocks, every set of correct validators, every
family of quorums of which any two intersect, every `Amount` of two or more and every
set of views, with `BlockAssumption` and `AgreementAssumption`:

* `CertificatesUnique`: `OneCertificate`;
* `CommitsAreFinal`: `Finality`;
* `CommitsAgreement`: two close commits of one height are of one block.

None of these is inductive: they speak of certificates, and a step adds one signature.
The inductive invariant (`EvidenceInvariant`) is `TypeOK /\ Evidence /\
ProposalsJustified`. `Evidence` is about what each validator has signed and taken in:
one vote per place, no ViewChange and no certificate of a later view below the parent of
a block voted for. `ProposalsJustified` says what remains true of the base of a proposal
(`Justified`): it was the max block of a ViewChangeQC; or a last block of some view, not
below a certified last block of the view before; or genesis. The properties follow from
the invariant in each state. Two certificates share a correct voter (`OneCertificate`).
The max block of a ViewChangeQC is not below the parent of any certified block of that
view or an earlier one (`ViewChangeCovers`), because the two quorums share a validator.
Without a ViewChangeQC the base is the last block of the view before and of no other
(`OnLast`): a last block of an earlier view would be below what a common voter held
(`LaterHeld`), which needs two blocks per view. So the parent of a certified block of a
later view is of a later view itself, or the last block of the view, or covers what was
certified before (`LaterParent`), and certified blocks above number 1 do not sink from
view to view (`Rising`). What covers the parent of a close commit descends from the
committed block (`CoverDescends`). Going down from parent to parent ends, by the
least-number principle on block numbers (`LowestBlock`, `Descent`), in place of an
induction.

`CbftProcedures_proofs`, `CbftHandlers_proofs` and `CbftNode_proofs`, for every universe
of blocks, every number of validators, blocks per view and blocks per epoch, every bound
on the views and every `Outcomes` with `NodeAssumption`:

* `SignsAsVoter`: the refinement `ImplementsVoter`;
* `NeverBack`: `ViewMonotonic`;
* `LookupsSucceed`, `DoesItsWork`, `LeavesView`, `ExecutesBeforeVoting`, `PoolKeepsUp`:
  the invariants of the two runs.

An action applies a whole chain of procedures to one state record, so the invariant is a
predicate of that record. `Good(s)` holds between any two procedures; `Rests(s)`, which
adds that no vote, execution or change of view is left to do, holds between any two
handlers. `Good` says of the tree what the proofs about `BlockTree` say, and relates it
to the rest: blocks of the view are at their index (`BlocksOK`), the block being
executed is there (`ExecutingOK`), pending votes are executed, in order and after the
sent ones (`PendingOK`), a certified block that was voted for still has its parent in
the tree (`HadSendOK`), nothing voted for or reported is above the highest block
(`VotesOK`, `ReportsOK`), and the pool is in the epoch of the view or the next
(`PoolOK`). `CbftProcedures_proofs` has a lemma for each procedure: it preserves `Good`
and signs only what the signing rules allow. `CbftHandlers_proofs` puts them together
for each handler, and `CbftNode_proofs` does the induction over behaviours (`AtRest`).
`Agreed` is used where a certified block that was voted for has to find its parent in a
tree that was pruned in the meantime.

`Inbox_proofs`, for every set of peers and messages and every limit and size of a channel
or of the history: `CountersExact` (`Accounted`) and `NoRepeats` (`AcceptedOnce`). The
invariant adds that what was accepted is in the history or was evicted from it
(`Remembered`). How many messages of a peer a channel holds is a cardinality;
`CountAppend` and `CountTail` say how it changes. The module also has `Admissible`, about
the cache of package `types` for every number of epochs and views (`AdmissibleOnly`);
its invariant `PoolInv` adds the range of `min` (`NewCSMsgPool` starts above all views)
and the types of the slots, and it assumes that `Purge` is not called for an earlier
view.

`ValidatorPool_proofs`, for rounds of any length, any distance of the election of three
blocks or more, any number of remembered rounds from two on, any validators and any
number of blocks, views and crashes, with `PoolSizes` and `IndexOfBlocks`: `PoolRight`,
that is, `LookupsRight`. The invariant `IInv` has two parts. `Lags` orders the numbers:
worker and reactor have at most one block in hand, and no more than was committed.
`PoolFits` says what the pool holds while the node is up: it is in the epoch of the
block to come, with that epoch's validators and, as long as the tree has a block of the
epoch before, the previous ones; the certified block is at most two ahead of the
committed one, and the view is in the epoch of the certified or of the next block. The
step that matters is `tryChangeView` at the last block of a round. The reactor may be
three blocks behind it, and so has committed the election of the next round if the
distance is three or more (`KnownNear`). What the store knows at a block is a recurrence
over blocks; that it holds the right rounds (`IndexAlwaysRight`) comes from the
least-number principle (`LeastNumber`), in place of an induction. The arithmetic of
rounds is in `EpochBounds`, `EpochUnique` and `EpochNext`. `RestartInv` follows `Start`
from what is on disk (`StartGood`, `ProcessGood`, `RecoverGood`).

The distance of three is not only what the proof needs: with `ElectionDistance = 2`, and
`PoolSizes` relaxed to admit it, TLC finds `LookupsRight` violated. The distance of the
code is `2 * PerRoundBlocks` (`src/x/xcom/common_config.go:732`), 20 by default, so the
theorem covers every configuration in which `PerRoundBlocks` is two or more.

`Restricting_proofs`, for every finite set of accounts, all plans and amounts and every
length of an epoch, with `RestrictingAssumption`, in every behaviour of
`RestrictingSpec`, which contains every order in which another plugin could make the
calls:

* `OwedIsAdvanced`: `OwedOnlyWhenAdvanced`. `releaseRestricting` says it in a comment
  (`restricting_plugin.go:579`) and, like the other operations, branches on
  `NeedRelease` alone. The invariant `LedgerInv` adds the types of the records, without
  which the lesser of two amounts could be negative. The argument follows one record
  through each operation (`AmountsSet`, `ListSet`, `AdvanceSet`), then stores it
  (`StoreGood`).
* `PlansAreListed`: `NothingStuck`.
* `ContractHoldsPlans`: `PlansBacked`, the part of `Solvent` about the restricting
  contract.

The last two are about sums over accounts and over epochs, and the invariant `Sound` has
them beside the records: what the plans of an account hold is at most what is owed and
what is listed (`Covered`), and the contract's balance is the sum of what is not
advanced (`Backed`). A sum is a fold, that is, a table over the subsets of a finite set.
`SmallestSet` says that a family of such subsets has a minimal member. A claim that
failed for some subset would fail for a minimal one, and there one step of the fold
contradicts it; in this way the laws of sums are proved, in place of an induction
(`SumStep`, `SumRemove`, `SumPlus`), and that a plan is listed in full
(`InstalmentsTotal`).

Only model-checked: `Wal`, `SnapshotDB`, `SealsOnBase` of `CbftNode`, and `Staking`
apart from what it takes over from `Restricting` (so `Solvent` as a whole,
`AdvanceMatchesStakes`, `NeverFails`, `SharesMatchStakes`, `DelegateTotalsMatch`,
`EveryExitIsScheduled`); and liveness (`ChannelsDrain`, `ReplayEnds`, `CommitsLogged`),
which the prover does not handle. In `Staking` the calls to `Restricting` are those of
`RestrictingSpec`, but that every step of `Staking` is such a sequence of calls is not
proved; the run `staking` checks `OwedOnlyWhenAdvanced` and `NothingStuck` there.

## Where code and comments differ

With a run that shows it (`findings` in `PROJECT.json` has the quotations):

| run | code | observation |
|---|---|---|
| `wal_window` | `wal_bridge.go:188` | between the two writes of `ConfirmViewChange` a crash loses the view |
| `staking_raise` | `staking_plugin.go:1293` | a node penalised while frozen, after `StakeThreshold` was raised, recovers without its own stake in its shares, and a later withdrawal meets a panic |
| `epoch_restart` | `wal_bridge.go:199` | the first view of an epoch is journalled before the chain state names the last block of the epoch before; after a crash in between the node asks the pool for an epoch it does not know, and panics at every start |

Met while modelling, contained in the models as they are, without a run:

* An own vote sent while a block is being certified may complete the next certificate,
  and nobody looks until the next message (`consensus_process.go:500`).
* `AddPrepareQC` files a certificate under its epoch instead of its view
  (`types/cache.go:294`), and nothing ever fills the cache (`cbft.go:566`).
* A message dropped at a full channel stays counted for its peer (`cbft.go:349`).
* A journal ahead of the chain state makes `Start` fail (`wal_bridge.go:465`); the
  antecedent of `RestartSucceeds` excludes it.
* `HasBlock` ("check if the specified block exists in block tree", `cbft.go:954`)
  is true of every number below the highest certified block.
* `shouldRecovery` ("the msg number is smaller than the qc number discard it",
  `wal_bridge.go:478`) also discards an equal number, which is that of the own
  ViewChange: it is not recovered. A validator that restarts in a view it asked to
  leave may vote again; `Agreement` counts it as faulty.
* Before the first change of view nothing is recovered: `Load` finds no checkpoint.
* `clearInvalidBlocks` runs after the lists it reads have been emptied.
* `tryChangeViewByViewChange` shadows `block` and `qc` (`consensus_process.go:655`).
* A crash between the two writes of `Compaction` (`snapshotdb.go:438`) leaves a log with
  a hole above the base, which `open` refuses, or an empty one, and then the blocks
  above the base are executed again over their own effects. The run `snapshotdb` has
  this crash; without the exception `~torn`, TLC finds `ReadsOwnChain` violated. A
  graceful stop may meet the window too: stopping the cron does not wait for a running
  job.
* After a restart only the validators of the genesis block are added as consensus peers
  (`src/eth/backend.go:577`), whatever the epoch.
* `recover` of snapshotdb deletes log records outside its range by value instead of by
  key, so they stay.
* When a restricting record is dropped, the instalments still listed for it stay; a new
  plan of the account is then released by them.
* Lowering `UnDelegateFreezeDuration` puts the locks of an account out of order, and
  `update` unlocks some later than their epoch.
* The fine for producing nothing is computed from the committed copy of the candidate
  (`slashing_plugin.go:369`) and taken from the current one; `Staking` allows any
  amount in between.

## Not modelled

* Signatures, encodings and the content of blocks: a message is its fields, a
  certificate the block it certifies. Validators that sign conflicting messages are
  outside `CbftNode` and `Wal`; `BlockTree` allows any set of certificates, and
  `Agreement` any use of the faulty validators' signatures on blocks proposed as the code
  does.
* The change of validators between epochs in `Agreement`, which is about one epoch.
* The requests and answers of `sync_process.go` and the fetcher: what they deliver is
  allowed at any time. The evidence pool, the length of the view timer, peers and
  routing.
* Machine crashes that lose or tear written records; rotation of journal files; errors
  of the file system. In snapshotdb a log write that fails is only reported, and the
  next one would leave a gap.
* Fast synchronisation of a node that has already entered a view, the events that tell
  the p2p server about validators, and the static and inner agencies
  (`ValidatorPool`).
* Fork updates of the chain state (`consensus_process.go:536`) and fast sync in `Wal`;
  the fast sync, `WalkBaseDB` and revert journal of snapshotdb.
* Rewards, the election of verifiers and validators, governance apart from
  `StakeThreshold`, versions of nodes, `editCandidate`, and genesis stakes and plans.
* Other system contracts, transaction pool, EVM, downloader, p2p, RPC: see
  `components` in `PROJECT.json`.

## Plan

Done: the block tree, one validator and its refinement of the abstract voter, agreement,
the message intake, the validator pool across epochs and restarts, and the
restricting plugin, all with proofs; crash and recovery, snapshotdb and staking by model
checking. Next:

1. `Agreement` across epochs, on top of `ValidatorPool`.
2. `Fetcher` with `fetchBlock`, and the synchronisation requests; liveness of
   catching up.
3. `EvidencePool` and `ViewTimer` (`calViewInterval` against a reference).
4. `Wal` with fork updates of the chain state and fast sync; then an abstract
   durable log implemented by it and by `SnapshotDB`.
5. Proofs: `Solvent`, `AdvanceMatchesStakes` and `SharesMatchStakes` of `Staking` from
   `Sound`; `EveryCommitReachesChain` of `Wal`; `Agreement` and `CbftNode` joined, with
   certificates made from votes instead of given.
6. Rewards and the election on top of `Staking`.

------------------------------- MODULE Staking -------------------------------
(***************************************************************************)
(* The staking plugin (x/plugin/staking_plugin.go) on top of the           *)
(* restricting plugin: candidates, delegations, the delegation locks of    *)
(* version 1.3.0, penalties, and what the ends of epochs give back.        *)
(*                                                                         *)
(* A transaction is one action: a contract call either applies as a whole  *)
(* or is reverted, so a refused call is no step.  NextBlock is the end of  *)
(* one block and the beginning of the next, in the order of the plugins.   *)
(*                                                                         *)
(*   can      the candidates (CandidateBase and CandidateMutable)          *)
(*   power    the keys of the power index, from which verifiers are chosen *)
(*   del      delegations, by <<delegator, node, staking block>>           *)
(*   lock     the delegation lock of every account                         *)
(*   unstake  the unstake items to be handled at the end of an epoch       *)
(*   rc       how many stakes hold an account back from delegating         *)
(*   slashed  the evidence already used                                    *)
(*   params   the StakeThreshold in force                                  *)
(*   txs      transactions so far, only to bound them                      *)
(***************************************************************************)
EXTENDS Restricting, SequencesExt

CONSTANTS Nodes,
          Senders,                  \* the accounts that create restricting plans
          StakeThresholds,          \* values governance gives StakeThreshold, the first at genesis
          OperatingThreshold,       \* least amount of an increase, delegation or withdrawal
          UnStakeFreezeDuration, ZeroProduceFreezeDuration, UnDelegateFreezeDuration,
          MaxEvidenceAge,
          SlashBlocksReward,        \* most a zero-produce penalty takes
          SlashFractionDuplicateSign, DuplicateSignReportReward,
          EndVoteEpoch,             \* epoch in which the last vote a node took part in ends, 0 if none
          EvidenceBlocks,           \* blocks at which a validator signed twice
          MaxBlock, MaxTxs          \* bounds on the length of the chain and on its transactions

ASSUME StakingAssumption ==
  /\ Senders \subseteq Accounts
  /\ StakeThresholds \in Seq(Nat \ {0}) /\ StakeThresholds # <<>>
  /\ OperatingThreshold \in Nat \ {0}
  /\ MaxEvidenceAge \in Nat \ {0} /\ MaxEvidenceAge < UnStakeFreezeDuration
  /\ ZeroProduceFreezeDuration \in 1..(UnStakeFreezeDuration - 1)
  /\ UnDelegateFreezeDuration \in 1..UnStakeFreezeDuration
  /\ SlashBlocksReward \in Nat
  /\ SlashFractionDuplicateSign \in 1..10000
  /\ DuplicateSignReportReward \in 1..80
  /\ EndVoteEpoch \in Nat
  /\ EvidenceBlocks \subseteq Nat

VARIABLES can, power, del, lock, unstake, rc, slashed, params, txs

vars == <<funds, block, can, power, del, lock, unstake, rc, slashed, params, txs>>

HesitateRatio == 1
epoch == CalculateEpoch(block)
StakeThreshold == StakeThresholds[params]

(***************************************************************************)
(* Records.                                                                *)
(***************************************************************************)
Statuses == {"Invalided", "LowRatio", "NotEnough", "DuplicateSign", "Withdrew"}

Candidate ==
  [StakingAddress: Accounts, StakingBlockNum: Nat, Status: SUBSET Statuses, StakingEpoch: Nat,
   Shares: Nat, Released: Nat, ReleasedHes: Nat, RestrictingPlan: Nat, RestrictingPlanHes: Nat,
   DelegateEpoch: Nat, DelegateTotal: Nat, DelegateTotalHes: Nat]

Delegation ==
  [DelegateEpoch: Nat, Released: Nat, ReleasedHes: Nat, RestrictingPlan: Nat, RestrictingPlanHes: Nat,
   LockReleasedHes: Nat, LockRestrictingPlanHes: Nat]

NewDelegation ==
  [DelegateEpoch |-> 0, Released |-> 0, ReleasedHes |-> 0, RestrictingPlan |-> 0,
   RestrictingPlanHes |-> 0, LockReleasedHes |-> 0, LockRestrictingPlanHes |-> 0]

NewDelegationLock == [Locks |-> <<>>, Released |-> 0, RestrictingPlan |-> 0]

IsInvalid(c) == "Invalided" \in c.Status

\* TallyPowerKey: the key holds the shares, so an entry can be removed only
\* with the shares it was stored with.
PowerKey(n, c) == <<n, c.StakingBlockNum, c.Shares>>

calcCandidateTotalAmount(c) == c.Released + c.ReleasedHes + c.RestrictingPlan + c.RestrictingPlanHes

calcDelegateTotalAmount(d) ==
  d.Released + d.ReleasedHes + d.LockReleasedHes
  + d.RestrictingPlan + d.RestrictingPlanHes + d.LockRestrictingPlanHes

\* The hesitation ends with the epoch: what is left of it becomes effective
\* when the record is next used.
lazyCalcStakeAmount(e, c) ==
  IF e - c.StakingEpoch < HesitateRatio THEN c
  ELSE [c EXCEPT !.Released = @ + c.ReleasedHes, !.ReleasedHes = 0,
                 !.RestrictingPlan = @ + c.RestrictingPlanHes, !.RestrictingPlanHes = 0]

lazyCalcNodeTotalDelegateAmount(e, c) ==
  IF e - c.DelegateEpoch < HesitateRatio THEN c
  ELSE [c EXCEPT !.DelegateTotal = @ + c.DelegateTotalHes, !.DelegateTotalHes = 0]

lazyCalcDelegateAmount(e, d) ==
  IF d.DelegateEpoch = 0 \/ e - d.DelegateEpoch < HesitateRatio THEN d
  ELSE [d EXCEPT !.Released = @ + d.ReleasedHes + d.LockReleasedHes,
                 !.ReleasedHes = 0, !.LockReleasedHes = 0,
                 !.RestrictingPlan = @ + d.RestrictingPlanHes + d.LockRestrictingPlanHes,
                 !.RestrictingPlanHes = 0, !.LockRestrictingPlanHes = 0]

(***************************************************************************)
(* Delegation locks (x/staking/delegation_types.go).                       *)
(***************************************************************************)
SumOver(S, value(_)) == SumFunction([x \in S |-> value(x)])

LockTotal(p) == p.Released + p.RestrictingPlan

\* Periods that have ended are unlocked, up to the first that has not.
update(l, e) ==
  LET ended == {i \in DOMAIN l.Locks : \A j \in 1..i : l.Locks[j].Epoch < e}
  IN [Locks |-> SubSeq(l.Locks, Cardinality(ended) + 1, Len(l.Locks)),
      Released |-> l.Released + SumOver(ended, LAMBDA i : l.Locks[i].Released),
      RestrictingPlan |-> l.RestrictingPlan + SumOver(ended, LAMBDA i : l.Locks[i].RestrictingPlan)]

AddLock(l, e, released, restricting) ==
  LET n == Len(l.Locks)
      period == [Epoch |-> e, Released |-> released, RestrictingPlan |-> restricting]
  IN IF n > 0 /\ l.Locks[n].Epoch = e
     THEN [l EXCEPT !.Locks[n] = [@ EXCEPT !.Released = @ + released, !.RestrictingPlan = @ + restricting]]
     ELSE [l EXCEPT !.Locks = Append(@, period)]

\* What AdvanceLockedFunds takes of period i to make up m: the newest period
\* first, and of each period the restricted money first.
Take(l, m, i) ==
  LET later == SumOver((i + 1)..Len(l.Locks), LAMBDA j : LockTotal(l.Locks[j]))
      taken == IF m <= later THEN 0 ELSE Lesser(m - later, LockTotal(l.Locks[i]))
      restricting == Lesser(taken, l.Locks[i].RestrictingPlan)
  IN [Released |-> taken - restricting, RestrictingPlan |-> restricting]

LockedFunds(l) == SumOver(DOMAIN l.Locks, LAMBDA i : LockTotal(l.Locks[i]))

TakenReleased(l, m) == SumOver(DOMAIN l.Locks, LAMBDA i : Take(l, m, i).Released)

\* Mutant of AdvanceDelegationLocks: a period used in part is removed whole.
AdvanceWholePeriods(l, m) ==
  LET untouched == {i \in DOMAIN l.Locks : LockTotal(Take(l, m, i)) = 0}
  IN [l EXCEPT !.Locks = SubSeq(@, 1, Cardinality(untouched))]

AdvanceDelegationLocks(l, m) ==
  LET left == [i \in DOMAIN l.Locks |->
                 [l.Locks[i] EXCEPT !.Released = @ - Take(l, m, i).Released,
                                    !.RestrictingPlan = @ - Take(l, m, i).RestrictingPlan]]
  IN [l EXCEPT !.Locks = SelectSeq(left, LAMBDA p : LockTotal(p) > 0)]

(***************************************************************************)
(* Paying into a stake: <<ledger, restricted part, free part>>, or nothing *)
(* when the account cannot pay.                                            *)
(***************************************************************************)
Payments(f, a, typ, m) ==
  CASE typ = "FreeVon" ->
         IF f.bal[a] >= m THEN {<<[f EXCEPT !.bal = transferAmount(@, a, StakingContract, m)], 0, m>>} ELSE {}
    [] typ = "RestrictVon" -> IF CanAdvance(f, a, m) THEN {<<AdvanceLockedFunds(f, a, m), m, 0>>} ELSE {}
    [] typ = "RestrictAndFreeVon" ->
         IF CanMixAdvance(f, a, m)
         THEN {<<MixAdvanceLockedFunds(f, a, m), ForRestricting(f, a, m), m - ForRestricting(f, a, m)>>}
         ELSE {}

Refund(f, a, m) == [f EXCEPT !.bal = transferAmount(@, StakingContract, a, m)]

\* Both halves of an amount go back the way they came.
RefundBoth(f, a, free, restricted) == ReturnLockFunds(Refund(f, a, free), a, restricted)

(***************************************************************************)
(* Parts of handlers: operators on the record st of the variables they     *)
(* change.                                                                 *)
(***************************************************************************)
State == [funds |-> funds, can |-> can, power |-> power, unstake |-> unstake, rc |-> rc]

Become(st) ==
  /\ funds' = st.funds /\ can' = st.can /\ power' = st.power /\ unstake' = st.unstake /\ rc' = st.rc

SetCan(st, n, c) == [st EXCEPT !.can = [x \in DOMAIN @ \cup {n} |-> IF x = n THEN c ELSE @[x]]]
DelCandidateStore(st, n) == [st EXCEPT !.can = [x \in DOMAIN @ \ {n} |-> @[x]]]
SetCanPowerStore(st, n, c) == [st EXCEPT !.power = @ \cup {PowerKey(n, c)}]
DelCanPowerStore(st, n, c) == [st EXCEPT !.power = @ \ {PowerKey(n, c)}]
AddAccountStakeRc(st, a) == [st EXCEPT !.rc[a] = @ + 1]
SubAccountStakeRc(st, a) == [st EXCEPT !.rc[a] = IF @ = 0 THEN 0 ELSE @ - 1]

AddUnStakeItemStore(st, e, n, c, recovery) ==
  [st EXCEPT !.unstake[e] = Append(@, [NodeAddress |-> n, StakingBlockNum |-> c.StakingBlockNum,
                                       Recovery |-> recovery])]

addUnStakeItem(st, e, n, c) ==
  AddUnStakeItemStore(st, Max({e + UnStakeFreezeDuration, EndVoteEpoch}), n, c, FALSE)

addRecoveryUnStakeItem(st, e, n, c) == AddUnStakeItemStore(st, e + ZeroProduceFreezeDuration, n, c, TRUE)

(***************************************************************************)
(* Transactions of the restricting and staking contracts.                  *)
(***************************************************************************)
createRestrictingPlan(from, a, plan) ==
  /\ CanAdd(funds, from, plan, epoch)
  /\ funds' = AddRestrictingRecord(funds, from, a, plan, epoch)
  /\ UNCHANGED <<block, can, power, del, lock, unstake, rc, slashed, params>>

createStaking(from, n, typ, m) ==
  /\ n \notin DOMAIN can
  /\ m >= StakeThreshold
  /\ \E paid \in Payments(funds, from, typ, m) :
       LET c == [StakingAddress |-> from, StakingBlockNum |-> block, Status |-> {}, StakingEpoch |-> epoch,
                 Shares |-> m, Released |-> 0, ReleasedHes |-> paid[3],
                 RestrictingPlan |-> 0, RestrictingPlanHes |-> paid[2],
                 DelegateEpoch |-> 0, DelegateTotal |-> 0, DelegateTotalHes |-> 0]
           st == [State EXCEPT !.funds = paid[1]]
       IN Become(AddAccountStakeRc(SetCanPowerStore(SetCan(st, n, c), n, c), from))
  /\ UNCHANGED <<block, del, lock, slashed, params>>

increaseStaking(n, typ, m) ==
  /\ n \in DOMAIN can /\ ~IsInvalid(can[n])
  /\ m >= OperatingThreshold
  /\ \E paid \in Payments(funds, can[n].StakingAddress, typ, m) :
       LET old == lazyCalcStakeAmount(epoch, can[n])
           c == [old EXCEPT !.ReleasedHes = @ + paid[3], !.RestrictingPlanHes = @ + paid[2],
                            !.StakingEpoch = epoch, !.Shares = @ + m]
           st == DelCanPowerStore([State EXCEPT !.funds = paid[1]], n, old)
       IN Become(SetCanPowerStore(SetCan(st, n, c), n, c))
  /\ UNCHANGED <<block, del, lock, slashed, params>>

\* withdrewStakeAmount: the hesitating part at once, the rest after the freeze.
withdrewStaking(n) ==
  /\ n \in DOMAIN can /\ ~IsInvalid(can[n])
  /\ LET old == lazyCalcStakeAmount(epoch, can[n])
         c == [old EXCEPT !.ReleasedHes = 0, !.RestrictingPlanHes = 0, !.Shares = 0,
                          !.Status = @ \cup {"Invalided", "Withdrew"}, !.StakingEpoch = epoch]
         effective == c.Released > 0 \/ c.RestrictingPlan > 0
         st1 == [DelCanPowerStore(State, n, old) EXCEPT
                   !.funds = RefundBoth(@, c.StakingAddress, old.ReleasedHes, old.RestrictingPlanHes)]
         st2 == IF effective THEN SetCan(addUnStakeItem(st1, epoch, n, c), n, c)
                             ELSE DelCandidateStore(st1, n)
     IN Become(SubAccountStakeRc(st2, c.StakingAddress))
  /\ UNCHANGED <<block, del, lock, slashed, params>>

\* The delegation after m more was delegated, and the candidate after it.
Delegated(d, free, restricted, lockFree, lockRestricted) ==
  [d EXCEPT !.ReleasedHes = @ + free, !.RestrictingPlanHes = @ + restricted,
            !.LockReleasedHes = @ + lockFree, !.LockRestrictingPlanHes = @ + lockRestricted,
            !.DelegateEpoch = epoch]

\* Mutants of delegateTo: the hesitating total is not settled first; the power
\* index is cleaned with the new shares.
delegateToUnsettled(st, n, m) ==
  LET old == can[n]
      c == [old EXCEPT !.Shares = @ + m, !.DelegateTotalHes = @ + m, !.DelegateEpoch = epoch]
  IN SetCanPowerStore(SetCan(DelCanPowerStore(st, n, old), n, c), n, c)

delegateToKeepsPower(st, n, m) ==
  LET c == [lazyCalcNodeTotalDelegateAmount(epoch, can[n]) EXCEPT
              !.Shares = @ + m, !.DelegateTotalHes = @ + m, !.DelegateEpoch = epoch]
  IN SetCanPowerStore(SetCan(DelCanPowerStore(st, n, c), n, c), n, c)

delegateTo(st, n, m) ==
  LET old == can[n]
      c == [lazyCalcNodeTotalDelegateAmount(epoch, old) EXCEPT
              !.Shares = @ + m, !.DelegateTotalHes = @ + m, !.DelegateEpoch = epoch]
  IN SetCanPowerStore(SetCan(DelCanPowerStore(st, n, old), n, c), n, c)

delegate(from, n, typ, m) ==
  /\ n \in DOMAIN can /\ ~IsInvalid(can[n])
  /\ can[n].StakingBlockNum # block
  /\ m >= OperatingThreshold
  /\ rc[from] = 0
  /\ LET k == <<from, n, can[n].StakingBlockNum>>
         d == lazyCalcDelegateAmount(epoch, IF k \in DOMAIN del THEN del[k] ELSE NewDelegation)
         l == update(lock[from], epoch)
         put(x) == [y \in DOMAIN del \cup {k} |-> IF y = k THEN x ELSE del[y]]
     IN \/ /\ typ \in {"FreeVon", "RestrictVon"}
           /\ \E paid \in Payments(funds, from, typ, m) :
                /\ del' = put(Delegated(d, paid[3], paid[2], 0, 0))
                /\ Become(delegateTo([State EXCEPT !.funds = paid[1]], n, m))
           /\ UNCHANGED lock
        \/ /\ typ = "LockVon"
           /\ l.Locks # <<>> /\ m <= LockedFunds(l)
           /\ del' = put(Delegated(d, 0, 0, TakenReleased(l, m), m - TakenReleased(l, m)))
           /\ lock' = [lock EXCEPT ![from] = AdvanceDelegationLocks(l, m)]
           /\ Become(delegateTo(State, n, m))
  /\ UNCHANGED <<block, slashed, params>>

\* What a withdrawal of m takes: the hesitating part first, paid back at once,
\* then the part delegated from a lock and the effective part, which are locked.
Withdrawal(d, m) ==
  LET hesFree == Lesser(m, d.ReleasedHes)
      hesRestricted == Lesser(m - hesFree, d.RestrictingPlanHes)
      rest == m - hesFree - hesRestricted
      lockFree == Lesser(rest, d.LockReleasedHes)
      lockRestricted == Lesser(rest - lockFree, d.LockRestrictingPlanHes)
      rest2 == rest - lockFree - lockRestricted
      free == Lesser(rest2, d.Released)
  IN [hesFree |-> hesFree, hesRestricted |-> hesRestricted, lockFree |-> lockFree,
      lockRestricted |-> lockRestricted, free |-> free, restricted |-> rest2 - free]

\* The candidate's side of a withdrawal of m that took w.
withdrewFrom(st, n, w, m) ==
  LET old == lazyCalcNodeTotalDelegateAmount(epoch, can[n])
      c == [old EXCEPT !.DelegateTotalHes = @ - w.hesFree - w.hesRestricted - w.lockFree - w.lockRestricted,
                       !.DelegateTotal = @ - w.free - w.restricted,
                       !.Shares = IF @ > m THEN @ - m ELSE @]
  IN IF IsInvalid(old) THEN SetCan(st, n, c)
     ELSE IF old.Shares <= m THEN [st EXCEPT !.funds = Fail(@)]
     ELSE SetCanPowerStore(SetCan(DelCanPowerStore(st, n, old), n, c), n, c)

withdrewDelegation(k, m) ==
  /\ m >= OperatingThreshold
  /\ LET a == k[1]
         n == k[2]
         total == calcDelegateTotalAmount(del[k])
         sub == IF total - m < OperatingThreshold THEN total ELSE m
         d == lazyCalcDelegateAmount(epoch, del[k])
         w == Withdrawal(d, sub)
         left == [d EXCEPT !.ReleasedHes = @ - w.hesFree, !.RestrictingPlanHes = @ - w.hesRestricted,
                           !.LockReleasedHes = @ - w.lockFree, !.LockRestrictingPlanHes = @ - w.lockRestricted,
                           !.Released = @ - w.free, !.RestrictingPlan = @ - w.restricted,
                           !.DelegateEpoch = epoch]
         l == update(lock[a], epoch)
         st == [State EXCEPT !.funds = RefundBoth(@, a, w.hesFree, w.hesRestricted)]
     IN /\ total >= m
        /\ n \in DOMAIN can => k[3] <= can[n].StakingBlockNum
        /\ lock' = [lock EXCEPT ![a] =
                      IF w.hesFree + w.hesRestricted = sub THEN l
                      ELSE AddLock(l, epoch + UnDelegateFreezeDuration - 1,
                                   w.lockFree + w.free, w.lockRestricted + w.restricted)]
        /\ del' = IF sub = total THEN [x \in DOMAIN del \ {k} |-> del[x]] ELSE [del EXCEPT ![k] = left]
        /\ Become(IF n \in DOMAIN can /\ k[3] = can[n].StakingBlockNum THEN withdrewFrom(st, n, w, sub) ELSE st)
  /\ UNCHANGED <<block, slashed, params>>

redeemDelegation(a) ==
  LET l == update(lock[a], epoch) IN
  /\ LockTotal(l) > 0 \/ l # lock[a]
  /\ funds' = RefundBoth(funds, a, l.Released, l.RestrictingPlan)
  /\ lock' = [lock EXCEPT ![a] = [l EXCEPT !.Released = 0, !.RestrictingPlan = 0]]
  /\ UNCHANGED <<block, can, power, del, unstake, rc, slashed, params>>

(***************************************************************************)
(* Penalties.                                                              *)
(***************************************************************************)
SlashableAmount(st, n, e) ==
  LET c == lazyCalcStakeAmount(e, st.can[n]) IN c.Released + c.RestrictingPlan

\* Mutant of sharesHaveBeenClean: the node that withdrew is forgotten.
sharesCleanUnlessWithdrew(c) ==
  {"Invalided", "LowRatio", "NotEnough"} \subseteq c.Status \/ "DuplicateSign" \in c.Status

sharesHaveBeenClean(c) ==
  {"Invalided", "LowRatio", "NotEnough"} \subseteq c.Status \/ "DuplicateSign" \in c.Status \/ "Withdrew" \in c.Status

\* A node already frozen for producing nothing is not fined for it again.
AlreadyPunished(c, typ) == "LowRatio" \in c.Status /\ typ = "LowRatio"

\* The candidate after the fine m, of which free comes from released money.
Fined(c, free, m) ==
  [c EXCEPT !.Released = @ - free, !.RestrictingPlan = @ - (m - free),
            !.Shares = IF sharesHaveBeenClean(c) THEN @ ELSE @ - m]

\* Mutant of SlashBalance: the restricting plugin is not told.
SlashBalanceUnnotified(f, c, free, m, to) == [f EXCEPT !.bal = transferAmount(@, StakingContract, to, m)]

SlashBalance(f, c, free, m, to) ==
  LET g == [f EXCEPT !.bal = transferAmount(@, StakingContract, to, m)]
  IN IF m > free THEN SlashingNotify(g, c.StakingAddress, m - free) ELSE g

toSlash(st, e, n, m, typ, benefit) ==
  LET old == lazyCalcStakeAmount(e, st.can[n])
      fine == IF AlreadyPunished(old, typ) THEN 0 ELSE m
      free == Lesser(fine, old.Released)
      c1 == Fined(old, free, fine)
      short == typ = "LowRatio" /\ calcCandidateTotalAmount(c1) < StakeThreshold
      returnHes == short \/ typ = "DuplicateSign"
      c2 == IF returnHes THEN [c1 EXCEPT !.ReleasedHes = 0, !.RestrictingPlanHes = 0, !.Shares = 0] ELSE c1
      c3 == [c2 EXCEPT !.Status = @ \cup {"Invalided", typ} \cup (IF short THEN {"NotEnough"} ELSE {})]
      f1 == SlashBalance(st.funds, old, free, fine, IF typ = "DuplicateSign" THEN benefit ELSE RewardManagerPool)
      f2 == IF returnHes THEN RefundBoth(f1, old.StakingAddress, old.ReleasedHes, old.RestrictingPlanHes) ELSE f1
      f3 == IF c1.Shares < 0 THEN Fail(f2) ELSE f2
      st1 == SetCan([DelCanPowerStore(st, n, old) EXCEPT !.funds = f3], n, c3)
  IN IF IsInvalid(old) THEN st1
     ELSE IF returnHes THEN addUnStakeItem(SubAccountStakeRc(st1, old.StakingAddress), e, n, old)
     ELSE addRecoveryUnStakeItem(st1, e, n, old)

calcAmountByRate(amount, numerator, denominator) == (amount * numerator) \div denominator

\* SlashingPlugin.Slash: the report of a double signature at block b. The
\* reporter's part and the pool's part are two items of one call.
\* The node was a validator at b if it had been staked before b's epoch.
Slash(caller, n, b) ==
  /\ b <= block
  /\ block - CalculateEpoch(b) * BlocksPerEpoch <= MaxEvidenceAge * BlocksPerEpoch
  /\ <<n, b>> \notin slashed
  /\ n \in DOMAIN can
  /\ caller # can[n].StakingAddress
  /\ CalculateEpoch(can[n].StakingBlockNum) < CalculateEpoch(b)
  /\ LET amount == calcAmountByRate(SlashableAmount(State, n, epoch), SlashFractionDuplicateSign, 10000)
         toCaller == calcAmountByRate(amount, DuplicateSignReportReward, 100)
         st1 == toSlash(State, epoch, n, toCaller, "DuplicateSign", caller)
     IN Become(toSlash(st1, epoch, n, amount - toCaller, "DuplicateSign", RewardManagerPool))
  /\ slashed' = slashed \cup {<<n, b>>}
  /\ UNCHANGED <<block, del, lock, params>>

(***************************************************************************)
(* The end of a block and the beginning of the next.                       *)
(***************************************************************************)
handleUnStake(st, e, n) ==
  LET c == lazyCalcStakeAmount(e, st.can[n])
      f1 == Refund(Refund(st.funds, c.StakingAddress, c.ReleasedHes), c.StakingAddress, c.Released)
      f2 == ReturnLockFunds(f1, c.StakingAddress, c.RestrictingPlanHes)
  IN DelCandidateStore([st EXCEPT !.funds = ReturnLockFunds(f2, c.StakingAddress, c.RestrictingPlan)], n)

\* Mutant of recover: no unstake item for the node reported meanwhile.
recoverUnscheduled(st, e, n) ==
  LET c == st.can[n]
      valid == [c EXCEPT !.Status = {}]
  IN IF "DuplicateSign" \in c.Status
     THEN SetCan(SubAccountStakeRc(st, c.StakingAddress), n, [c EXCEPT !.Status = @ \ {"LowRatio"}])
     ELSE SetCan(SetCanPowerStore(st, n, valid), n, valid)

\* A frozen node recovers, unless it was reported for a double signature
\* meanwhile: then it is frozen again, to be unstaked.
recover(st, e, n) ==
  LET c == st.can[n]
      valid == [c EXCEPT !.Status = {}]
      again == [c EXCEPT !.Status = @ \ {"LowRatio"}]
  IN IF "DuplicateSign" \in c.Status
     THEN SetCan(addUnStakeItem(SubAccountStakeRc(st, c.StakingAddress), e, n, c), n, again)
     ELSE SetCan(SetCanPowerStore(st, n, valid), n, valid)

\* One item; acc also holds the nodes already handled in this epoch.
HandleItem(acc, item, e) ==
  LET n == item.NodeAddress
      st == acc.st
  IN IF n \in acc.done \/ n \notin DOMAIN st.can THEN acc
     ELSE IF item.StakingBlockNum # st.can[n].StakingBlockNum THEN acc
     ELSE [st |-> IF item.Recovery THEN recover(st, e, n) ELSE handleUnStake(st, e, n),
           done |-> acc.done \cup {n}]

HandleUnCandidateItem(st, e) ==
  LET handled == FoldLeft(LAMBDA acc, item : HandleItem(acc, item, e), [st |-> st, done |-> {}], st.unstake[e])
  IN [handled.st EXCEPT !.unstake[e] = <<>>]

\* RestrictingPlugin.EndBlock, then StakingPlugin.EndBlock.
EndBlock(st, b) ==
  IF IsEndOfEpoch(b)
  THEN HandleUnCandidateItem([st EXCEPT !.funds = releaseRestricting(@, CalculateEpoch(b))], CalculateEpoch(b))
  ELSE st

\* StakingPlugin.BeginBlock: the hesitating totals of the verifiers are settled.
BeginBlock(st, b, verifiers) ==
  IF b % BlocksPerEpoch = 1 % BlocksPerEpoch
  THEN [st EXCEPT !.can = [n \in DOMAIN @ |->
          IF n \in verifiers THEN lazyCalcNodeTotalDelegateAmount(CalculateEpoch(b), @[n]) ELSE @[n]]]
  ELSE st

\* SlashingPlugin.BeginBlock: the nodes of zero have produced too few blocks.
\* Their fines come from the committed copy of the candidate, which may be some
\* blocks old: any amount up to the fine that the block's own copy can pay (if
\* it cannot, the block is not valid).
SlashCandidates(st, b, zero, fine) ==
  FoldLeft(LAMBDA acc, n : toSlash(acc, CalculateEpoch(b), n, fine[n], "LowRatio", RewardManagerPool),
           st, SetToSeq(zero))

\* The verifiers are elected among the nodes of the power index, with others
\* that are not in the model. A node that produced too few blocks was a
\* validator, so it was staked in an earlier epoch.
NextBlock ==
  /\ block < MaxBlock
  /\ LET ended == EndBlock(State, block)
         e == CalculateEpoch(block + 1)
     IN \E verifiers \in SUBSET {key[1] : key \in ended.power} :
          LET st == BeginBlock(ended, block + 1, verifiers)
          IN \E zero \in SUBSET {n \in DOMAIN st.can : CalculateEpoch(st.can[n].StakingBlockNum) < e} :
               \E fine \in [zero -> 0..SlashBlocksReward] :
                 /\ \A n \in zero : fine[n] <= SlashableAmount(st, n, e)
                 /\ Become(SlashCandidates(st, block + 1, zero, fine))
  /\ block' = block + 1
  /\ UNCHANGED <<del, lock, slashed, params, txs>>

\* Governance: a parameter proposal for StakeThreshold takes effect.
SetStakeThreshold ==
  /\ params < Len(StakeThresholds)
  /\ params' = params + 1
  /\ UNCHANGED <<funds, block, can, power, del, lock, unstake, rc, slashed>>

Init ==
  /\ RestrictingInit
  /\ can = [n \in {} |-> 0]
  /\ power = {}
  /\ del = [k \in {} |-> 0]
  /\ lock = [a \in Accounts |-> NewDelegationLock]
  /\ unstake = [e \in Epochs |-> <<>>]
  /\ rc = [a \in Accounts |-> 0]
  /\ slashed = {}
  /\ params = 1
  /\ txs = 0

Transaction ==
  \/ \E from \in Senders, a \in Accounts, plan \in Plans : createRestrictingPlan(from, a, plan)
  \/ \E a \in Accounts, n \in Nodes, m \in Amounts, typ \in {"FreeVon", "RestrictVon", "RestrictAndFreeVon"} :
       createStaking(a, n, typ, m)
  \/ \E n \in Nodes, m \in Amounts, typ \in {"FreeVon", "RestrictVon"} : increaseStaking(n, typ, m)
  \/ \E n \in Nodes : withdrewStaking(n)
  \/ \E a \in Accounts, n \in Nodes, m \in Amounts, typ \in {"FreeVon", "RestrictVon", "LockVon"} :
       delegate(a, n, typ, m)
  \/ \E k \in DOMAIN del, m \in Amounts : withdrewDelegation(k, m)
  \/ \E a \in Accounts : redeemDelegation(a)
  \/ \E a \in Accounts, n \in Nodes, b \in EvidenceBlocks : Slash(a, n, b)
  \/ SetStakeThreshold

Next ==
  \/ txs < MaxTxs /\ txs' = txs + 1 /\ Transaction
  \/ NextBlock

Spec == Init /\ [][Next]_vars

(***************************************************************************)
(* Properties                                                              *)
(***************************************************************************)

LockedReleased(a) == lock[a].Released + SumOver(DOMAIN lock[a].Locks, LAMBDA i : lock[a].Locks[i].Released)
LockedRestricting(a) ==
  lock[a].RestrictingPlan + SumOver(DOMAIN lock[a].Locks, LAMBDA i : lock[a].Locks[i].RestrictingPlan)

\* The restricting contract holds exactly what the accounts' plans have not
\* advanced, and the staking contract exactly the stakes, the delegations and
\* the locked delegations: no refund, fine or release pays out of another
\* account's money, whatever order they come in, and no amount goes below zero
\* to make up for another.
Solvent ==
  /\ \A n \in DOMAIN can : can[n] \in Candidate
  /\ \A k \in DOMAIN del : del[k] \in Delegation
  /\ PlansBacked
  /\ funds.bal[StakingContract] =
       SumOver(DOMAIN can, LAMBDA n : calcCandidateTotalAmount(can[n]))
       + SumOver(DOMAIN del, LAMBDA k : calcDelegateTotalAmount(del[k]))
       + SumOver(Accounts, LAMBDA a : LockedReleased(a) + LockedRestricting(a))

StakedBy(a) ==
  SumOver({n \in DOMAIN can : can[n].StakingAddress = a},
          LAMBDA n : can[n].RestrictingPlan + can[n].RestrictingPlanHes)
DelegatedBy(a) ==
  SumOver({k \in DOMAIN del : k[1] = a},
          LAMBDA k : del[k].RestrictingPlan + del[k].RestrictingPlanHes + del[k].LockRestrictingPlanHes)

\* What the restricting plugin thinks an account has advanced is what the
\* staking plugin holds of that account's restricted money in stakes,
\* delegations and locks: a penalty, a redelegation out of a lock or an unstake
\* that told only one of the two would part them.
AdvanceMatchesStakes ==
  \A a \in Accounts :
    StakedBy(a) + DelegatedBy(a) + LockedRestricting(a)
      = IF a \in DOMAIN funds.info THEN funds.info[a].AdvanceAmount ELSE 0

\* No refund or penalty fails, neither with an error of the restricting plugin,
\* which at the end of an epoch would make every block invalid, nor with the
\* panic "the candidate shares is no enough".
NeverFails == ~funds.broken

DelegationsOf(n) == {k \in DOMAIN del : k[2] = n /\ k[3] = can[n].StakingBlockNum}

\* A candidate that can be elected counts its own stake and its delegations,
\* once each; the power index has one entry for it, with those shares, and none
\* for a node that left, was frozen or was penalised.
SharesMatchStakes ==
  /\ \A n \in DOMAIN can : ~IsInvalid(can[n]) =>
       can[n].Shares = calcCandidateTotalAmount(can[n])
                       + SumOver(DelegationsOf(n), LAMBDA k : calcDelegateTotalAmount(del[k]))
  /\ power = {PowerKey(n, can[n]) : n \in {x \in DOMAIN can : ~IsInvalid(can[x])}}

\* The delegated total by which a node's delegators share its reward is, in
\* every epoch, the sum of the delegations effective in it, although the node
\* and each delegation leave the hesitation period lazily and apart.
DelegateTotalsMatch ==
  \A n \in DOMAIN can :
    LET c == lazyCalcNodeTotalDelegateAmount(epoch, can[n])
        d(k) == lazyCalcDelegateAmount(epoch, del[k])
    IN /\ c.DelegateTotal = SumOver(DelegationsOf(n), LAMBDA k : d(k).Released + d(k).RestrictingPlan)
       /\ c.DelegateTotalHes =
            SumOver(DelegationsOf(n), LAMBDA k : d(k).ReleasedHes + d(k).RestrictingPlanHes
                                                 + d(k).LockReleasedHes + d(k).LockRestrictingPlanHes)

\* The pending items of the stake of node n, as <<epoch, index>>.
ItemsOf(n) ==
  LET here(item) == item.NodeAddress = n /\ item.StakingBlockNum = can[n].StakingBlockNum
  IN UNION {{e} \X {i \in DOMAIN unstake[e] : here(unstake[e][i])} : e \in Epochs}

Recovering(n) == \E x \in ItemsOf(n) : unstake[x[1]][x[2]].Recovery

\* Every node that left or was penalised has one unstake item in an epoch that
\* is still to end, so its stake is given back or it becomes a candidate again;
\* and an account is kept from delegating exactly by its stakes that are not
\* on their way out.
EveryExitIsScheduled ==
  /\ \A n \in DOMAIN can :
       IF IsInvalid(can[n])
       THEN Cardinality(ItemsOf(n)) = 1 /\ \A x \in ItemsOf(n) : x[1] >= epoch
       ELSE ItemsOf(n) = {}
  /\ \A a \in Accounts :
       rc[a] = Cardinality({n \in DOMAIN can : can[n].StakingAddress = a
                                               /\ (~IsInvalid(can[n]) \/ Recovering(n))})
==============================================================================

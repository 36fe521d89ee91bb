----------------------------- MODULE Restricting -----------------------------
(***************************************************************************)
(* The restricting plugin (x/plugin/restricting_plugin.go): money that its *)
(* owner gets back in instalments, at the ends of given epochs, and may    *)
(* meanwhile stake or delegate.                                            *)
(*                                                                         *)
(* The ledger f is a record:                                               *)
(*   bal       the balances of the accounts and of the system contracts    *)
(*   info      the RestrictingInfo of every account that has one           *)
(*   accounts  the accounts listed for release at an epoch (ReleaseEpoch   *)
(*             and ReleaseAccount: a count and an index, kept as a set, as *)
(*             the release of one account does not touch another's)        *)
(*   amount    what an account gets back at an epoch (ReleaseAmount; 0 is  *)
(*             an absent key)                                              *)
(*   broken    a refund or a penalty met an error its caller cannot handle *)
(* Every operation of the plugin is an operator from ledger to ledger, so  *)
(* that the staking plugin can call several of them in one transaction.    *)
(***************************************************************************)
EXTENDS Integers, FiniteSets, Functions

CONSTANTS Accounts,       \* the accounts of the users
          Epochs,         \* the epochs of the instance
          Amounts,        \* the amounts a transaction may name
          Plans,          \* plans: functions from relative epochs to amounts
          BlocksPerEpoch, \* xutil.CalcBlocksEachEpoch
          InitialBalance  \* what each account owns at the start

ASSUME RestrictingAssumption ==
  /\ IsFiniteSet(Accounts)
  /\ Accounts \cap {"RestrictingContractAddr", "StakingContractAddr", "RewardManagerPoolAddr"} = {}
  /\ Epochs \subseteq Nat /\ IsFiniteSet(Epochs)
  /\ Amounts \subseteq Nat \ {0}
  /\ \A plan \in Plans : /\ IsFiniteSet(DOMAIN plan)
                         /\ \A e \in DOMAIN plan : e \in Nat \ {0} /\ plan[e] \in Nat \ {0}
  /\ BlocksPerEpoch \in Nat \ {0}
  /\ InitialBalance \in [Accounts -> Nat]

VARIABLES funds, block

RestrictingContract == "RestrictingContractAddr"
StakingContract == "StakingContractAddr"
RewardManagerPool == "RewardManagerPoolAddr"
Addresses == Accounts \cup {RestrictingContract, StakingContract, RewardManagerPool}

RestrictingInfo == [NeedRelease: Nat, AdvanceAmount: Nat, CachePlanAmount: Nat, ReleaseList: SUBSET Nat]

CalculateEpoch(b) == (b + BlocksPerEpoch - 1) \div BlocksPerEpoch
IsEndOfEpoch(b) == b % BlocksPerEpoch = 0

Lesser(x, y) == IF x <= y THEN x ELSE y

transferAmount(bal, from, to, m) == [[bal EXCEPT ![from] = @ - m] EXCEPT ![to] = @ + m]

storeRestrictingInfo(info, a, i) == [b \in DOMAIN info \cup {a} |-> IF b = a THEN i ELSE info[b]]
deleteRestrictingInfo(info, a) == [b \in DOMAIN info \ {a} |-> info[b]]

Fail(f) == [f EXCEPT !.broken = TRUE]

(***************************************************************************)
(* What each operation does to one account's record.                       *)
(***************************************************************************)
NewInfo(total, epochs) ==
  [NeedRelease |-> 0, AdvanceAmount |-> 0, CachePlanAmount |-> total, ReleaseList |-> epochs]

\* A new plan first pays what the account is still owed.
OwedFirst(i, total) == Lesser(i.NeedRelease, total)

MorePlans(i, total, epochs) ==
  [i EXCEPT !.NeedRelease = @ - OwedFirst(i, total),
            !.CachePlanAmount = @ + (total - OwedFirst(i, total)),
            !.ReleaseList = @ \cup epochs]

Advanced(i, m) == [i EXCEPT !.AdvanceAmount = @ + m]

\* Mutant of Returned: the amount paid on stays in the plan.
ReturnedKeepsPlan(i, m) == [i EXCEPT !.NeedRelease = @ - OwedFirst(i, m), !.AdvanceAmount = @ - m]

Returned(i, m) ==
  [i EXCEPT !.NeedRelease = @ - OwedFirst(i, m),
            !.CachePlanAmount = @ - OwedFirst(i, m),
            !.AdvanceAmount = @ - m]

Slashed(i, m) == [i EXCEPT !.AdvanceAmount = @ - m, !.CachePlanAmount = @ - m]

canRelease(i, m) ==
  IF i.NeedRelease > 0 THEN 0 ELSE Lesser(i.CachePlanAmount - i.AdvanceAmount, m)

\* Mutant of Released: the part that cannot be paid is forgotten.
ReleasedForgets(i, m, e) ==
  [i EXCEPT !.CachePlanAmount = @ - canRelease(i, m), !.ReleaseList = @ \ {e}]

Released(i, m, e) ==
  [i EXCEPT !.NeedRelease = @ + (m - canRelease(i, m)),
            !.CachePlanAmount = @ - canRelease(i, m),
            !.ReleaseList = @ \ {e}]

\* When ReturnLockFunds and SlashingNotify drop the record, and when
\* releaseRestricting does.
Settled(i) == i.AdvanceAmount = 0 /\ i.ReleaseList = {} /\ i.CachePlanAmount = 0
AllReleased(i) == i.CachePlanAmount = 0 /\ (i.NeedRelease = 0 \/ i.ReleaseList = {})

StoreOrDrop(info, a, i, drop) ==
  IF drop THEN deleteRestrictingInfo(info, a) ELSE storeRestrictingInfo(info, a, i)

(***************************************************************************)
(* The operations on the ledger.                                           *)
(***************************************************************************)
CanAdd(f, from, plan, epoch) ==
  /\ f.bal[from] >= SumFunction(plan)
  /\ \A e \in DOMAIN plan : e + epoch - 1 \in Epochs

AddRestrictingRecord(f, from, account, plan, epoch) ==
  LET total == SumFunction(plan)
      known == account \in DOMAIN f.info
      at == {e + epoch - 1 : e \in DOMAIN plan}
      extra(e) == plan[e - epoch + 1]
      fresh == {e \in at : ~known \/ f.amount[e][account] = 0}
      paid == IF known THEN OwedFirst(f.info[account], total) ELSE 0
      taken == transferAmount(f.bal, from, RestrictingContract, total)
  IN [f EXCEPT !.bal = transferAmount(taken, RestrictingContract, account, paid),
               !.info = storeRestrictingInfo(f.info, account, IF known THEN MorePlans(f.info[account], total, at)
                                                                  ELSE NewInfo(total, at)),
               !.accounts = [e \in Epochs |-> IF e \in fresh THEN f.accounts[e] \cup {account} ELSE f.accounts[e]],
               !.amount = [e \in Epochs |->
                  IF e \in at
                  THEN [f.amount[e] EXCEPT ![account] = IF e \in fresh THEN extra(e) ELSE @ + extra(e)]
                  ELSE f.amount[e]]]

CanAdvance(f, a, m) ==
  /\ a \in DOMAIN f.info
  /\ f.info[a].CachePlanAmount - f.info[a].AdvanceAmount >= m

AdvanceLockedFunds(f, a, m) ==
  [f EXCEPT !.bal = transferAmount(@, RestrictingContract, StakingContract, m),
            !.info = storeRestrictingInfo(@, a, Advanced(f.info[a], m))]

\* How MixAdvanceLockedFunds splits m: restricted money first.
ForRestricting(f, a, m) ==
  IF a \in DOMAIN f.info
  THEN Lesser(f.info[a].CachePlanAmount - f.info[a].AdvanceAmount, m)
  ELSE 0

CanMixAdvance(f, a, m) == f.bal[a] >= m - ForRestricting(f, a, m)

MixAdvanceLockedFunds(f, a, m) ==
  LET r == ForRestricting(f, a, m)
      g == [f EXCEPT !.bal = transferAmount(@, a, StakingContract, m - r)]
  IN IF a \in DOMAIN f.info THEN AdvanceLockedFunds(g, a, r) ELSE g

ReturnLockFunds(f, a, m) ==
  IF m = 0 THEN f
  ELSE IF a \notin DOMAIN f.info THEN Fail(f)
  ELSE IF f.info[a].AdvanceAmount < m THEN Fail(f)
  ELSE LET i == Returned(f.info[a], m)
           back == transferAmount(f.bal, StakingContract, RestrictingContract, m)
       IN [f EXCEPT !.bal = transferAmount(back, RestrictingContract, a, OwedFirst(f.info[a], m)),
                    !.info = StoreOrDrop(@, a, i, Settled(i))]

SlashingNotify(f, a, m) ==
  IF a \notin DOMAIN f.info THEN Fail(f)
  ELSE IF m = 0 THEN f
  ELSE IF f.info[a].AdvanceAmount < m THEN Fail(f)
  ELSE LET i == Slashed(f.info[a], m)
       IN [f EXCEPT !.info = StoreOrDrop(@, a, i, Settled(i))]

\* The accounts listed at epoch e, each with its own record: an account whose
\* record is gone is skipped and keeps its amount.
releaseRestricting(f, e) ==
  LET due == f.accounts[e] \cap DOMAIN f.info
      paid == [a \in due |-> canRelease(f.info[a], f.amount[e][a])]
      new == [a \in due |-> Released(f.info[a], f.amount[e][a], e)]
      gone == {a \in due : AllReleased(new[a])}
  IN [f EXCEPT !.bal = [x \in DOMAIN f.bal |->
                          IF x = RestrictingContract THEN f.bal[x] - SumFunction(paid)
                          ELSE IF x \in due THEN f.bal[x] + paid[x]
                          ELSE f.bal[x]],
               !.info = [a \in DOMAIN f.info \ gone |-> IF a \in due THEN new[a] ELSE f.info[a]],
               !.accounts = [f.accounts EXCEPT ![e] = {}],
               !.amount = [f.amount EXCEPT ![e] = [a \in Accounts |-> IF a \in due THEN 0 ELSE f.amount[e][a]]]]

(***************************************************************************)
(* The plugin on its own, called by anyone with any amount it accepts.     *)
(***************************************************************************)
RestrictingInit ==
  /\ funds = [bal |-> [x \in Addresses |-> IF x \in Accounts THEN InitialBalance[x] ELSE 0],
              info |-> [a \in {} |-> NewInfo(0, {})],
              accounts |-> [e \in Epochs |-> {}],
              amount |-> [e \in Epochs |-> [a \in Accounts |-> 0]],
              broken |-> FALSE]
  /\ block = 1

RestrictingNext ==
  \/ \E from, a \in Accounts, plan \in Plans :
       /\ CanAdd(funds, from, plan, CalculateEpoch(block))
       /\ funds' = AddRestrictingRecord(funds, from, a, plan, CalculateEpoch(block))
       /\ UNCHANGED block
  \/ \E a \in Accounts, m \in Amounts :
       /\ \/ CanAdvance(funds, a, m) /\ funds' = AdvanceLockedFunds(funds, a, m)
          \/ CanMixAdvance(funds, a, m) /\ funds' = MixAdvanceLockedFunds(funds, a, m)
          \/ funds' = ReturnLockFunds(funds, a, m)
          \/ funds' = SlashingNotify(funds, a, m)
       /\ UNCHANGED block
  \/ /\ CalculateEpoch(block) \in Epochs
     /\ funds' = IF IsEndOfEpoch(block) THEN releaseRestricting(funds, CalculateEpoch(block)) ELSE funds
     /\ block' = block + 1

RestrictingSpec == RestrictingInit /\ [][RestrictingNext]_<<funds, block>>

(***************************************************************************)
(* Properties                                                              *)
(***************************************************************************)

\* An account never has more advanced to stakes than its plans hold, and money
\* is owed to it only while all of it is advanced. releaseRestricting relies on
\* it ("if NeedRelease>0,CachePlanAmount = AdvanceAmount"): owed money is paid
\* from nothing but returned stakes and new plans.
OwedOnlyWhenAdvanced ==
  \A a \in DOMAIN funds.info :
    LET i == funds.info[a] IN
      /\ i.AdvanceAmount <= i.CachePlanAmount
      /\ i.NeedRelease > 0 => i.CachePlanAmount = i.AdvanceAmount

\* The restricting contract holds exactly what the plans have not advanced: no
\* payment to one account is made from another one's plan.
PlansBacked ==
  funds.bal[RestrictingContract] =
    SumFunction([a \in DOMAIN funds.info |-> funds.info[a].CachePlanAmount - funds.info[a].AdvanceAmount])

\* Every von an account has in the restricting contract or in a stake is owed
\* to it or listed for a later epoch, so none of it is locked for ever.
NothingStuck ==
  \A a \in DOMAIN funds.info :
    LET i == funds.info[a]
        due == [e \in {x \in Epochs : x >= CalculateEpoch(block) /\ a \in funds.accounts[x]}
                  |-> funds.amount[e][a]]
    IN i.CachePlanAmount <= i.NeedRelease + SumFunction(due)
==============================================================================

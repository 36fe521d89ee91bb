-------------------------- MODULE Restricting_proofs --------------------------
(***************************************************************************)
(* Proofs about the restricting plugin, for any accounts, plans, amounts   *)
(* and lengths of epochs: the records of the accounts keep the relation    *)
(* releaseRestricting relies on, the contract holds what the plans have    *)
(* not advanced, and all of it is owed or listed.                          *)
(***************************************************************************)
EXTENDS Restricting, FiniteSetTheorems, TLAPS

-----------------------------------------------------------------------------
\* Sums over finite sets.

\* A family of subsets of a finite set has a member that is minimal in it.
LEMMA SmallestSet ==
  ASSUME NEW S, IsFiniteSet(S), NEW B \in SUBSET SUBSET S, B # {}
  PROVE  \E s \in B : \A x \in s : s \ {x} \notin B
  <1> DEFINE R == StrictSubsetOrdering(S)
  <1>1. IsWellFoundedOn(R, SUBSET S)
    BY FS_StrictSubsetOrderingWellFounded, FS_FiniteSubsetsOfFinite, Zenon
  <1>2. PICK s \in B : \A t \in B : ~(<<t, s>> \in R)
    BY <1>1, WFMin, Zenon
  <1>3. ASSUME NEW x \in s, s \ {x} \in B PROVE FALSE
    <2>1. <<s \ {x}, s>> \in R
      BY DEF StrictSubsetOrdering
    <2> QED
      BY <1>2, <1>3, <2>1, Zenon
  <1> QED
    BY <1>3, Zenon

\* The element SumFunctionOnSet takes first.
Pick(s) == CHOOSE x \in s : TRUE

\* g is the table SumFunctionOnSet fills for the subsets of S.
SumTable(g, fun, S) ==
  g = [s \in SUBSET S |-> IF s = {} THEN 0 ELSE fun[Pick(s)] + g[s \ {Pick(s)}]]

\* SumFunctionOnSet is read off a table.
LEMMA SumIsTable ==
  ASSUME NEW fun, NEW S
  PROVE  SumFunctionOnSet(fun, S) = (CHOOSE g : SumTable(g, fun, S))[S]
  BY DEF SumFunctionOnSet, FoldFunctionOnSet, MapThenFoldSet, SumTable, Pick

\* Tables agree on the subsets they share.
LEMMA TablesAgree ==
  ASSUME NEW fun, NEW S, NEW T, NEW g, NEW h, SumTable(g, fun, S), SumTable(h, fun, T),
         IsFiniteSet(S), S \subseteq T
  PROVE  \A s \in SUBSET S : g[s] = h[s]
  <1> DEFINE B == {s \in SUBSET S : g[s] # h[s]}
  <1> SUFFICES ASSUME B # {} PROVE FALSE
    BY Zenon
  <1>1. PICK s \in B : \A x \in s : s \ {x} \notin B
    BY SmallestSet, Zenon
  <1>2. /\ g[s] = IF s = {} THEN 0 ELSE fun[Pick(s)] + g[s \ {Pick(s)}]
        /\ h[s] = IF s = {} THEN 0 ELSE fun[Pick(s)] + h[s \ {Pick(s)}]
    BY DEF SumTable
  <1>3. CASE s = {}
    BY <1>1, <1>2, <1>3, Zenon
  <1>4. CASE s # {}
    <2>1. Pick(s) \in s
      BY <1>4 DEF Pick
    <2>2. g[s \ {Pick(s)}] = h[s \ {Pick(s)}]
      BY <1>1, <2>1, Zenon
    <2> QED
      BY <1>1, <1>2, <1>4, <2>2, Zenon
  <1> QED
    BY <1>3, <1>4, Zenon

\* Every finite set has its table.
LEMMA TableExists ==
  ASSUME NEW fun, NEW S, IsFiniteSet(S)
  PROVE  \E g : SumTable(g, fun, S)
  <1> DEFINE B == {s \in SUBSET S : ~\E g : SumTable(g, fun, s)}
  <1> SUFFICES ASSUME B # {} PROVE FALSE
    BY Zenon
  <1>1. PICK s \in B : \A x \in s : s \ {x} \notin B
    BY SmallestSet, Zenon
  <1>2. CASE s = {}
    <2> DEFINE e == [t \in SUBSET {} |-> 0]
    <2>1. SumTable(e, fun, s)
      BY <1>2 DEF SumTable
    <2> QED
      BY <1>1, <2>1, Zenon
  <1>3. CASE s # {}
    <2>0. \A x \in s : \E g : SumTable(g, fun, s \ {x})
      BY <1>1, Zenon
    <2> DEFINE G(x) == CHOOSE g : SumTable(g, fun, s \ {x})
    <2>1. \A x \in s : SumTable(G(x), fun, s \ {x})
      BY <2>0, Zenon
    <2> HIDE DEF G
    <2> DEFINE out(t) == CHOOSE x \in s : x \notin t
               old(t) == G(out(t))[t]
               h == [t \in SUBSET s |-> IF t = s THEN fun[Pick(s)] + old(s \ {Pick(s)}) ELSE old(t)]
    <2>2. \A t \in SUBSET s : t # s => out(t) \in s /\ out(t) \notin t
      BY Zenon
    <2> HIDE DEF out
    <2>3. IsFiniteSet(s)
      BY FS_Subset, Zenon
    \* Any two tables of smaller sets agree.
    <2>4. ASSUME NEW x \in s, NEW t \in SUBSET (s \ {x}) PROVE G(x)[t] = old(t)
      <3> DEFINE y == out(t)
      <3>1. y \in s /\ y \notin t
        BY <2>2, <2>4
      <3> HIDE DEF y
      <3> DEFINE v == (s \ {x}) \ {y}
      <3>2. v \subseteq s \ {x} /\ v \subseteq s \ {y} /\ t \in SUBSET v
        BY <2>4, <3>1
      <3>3. SumTable(G(x), fun, s \ {x}) /\ SumTable(G(y), fun, s \ {y})
        BY <2>1, <3>1, Zenon
      <3> DEFINE r == [u \in SUBSET v |-> G(x)[u]]
      <3>4. SumTable(r, fun, v)
        <4> SUFFICES ASSUME NEW u \in SUBSET v
                     PROVE r[u] = IF u = {} THEN 0 ELSE fun[Pick(u)] + r[u \ {Pick(u)}]
          BY Zenon DEF SumTable
        <4>1. u \in SUBSET (s \ {x}) /\ u \ {Pick(u)} \in SUBSET v
          BY <3>2
        <4>2. G(x)[u] = IF u = {} THEN 0 ELSE fun[Pick(u)] + G(x)[u \ {Pick(u)}]
          BY <3>3, <4>1 DEF SumTable
        <4> QED
          BY <4>1, <4>2, Zenon
      <3>5. IsFiniteSet(v)
        BY <2>3, FS_Subset
      <3> HIDE DEF v
      <3>6. r[t] = G(x)[t]
        BY <3>2, Zenon
      <3> HIDE DEF r
      <3> DEFINE w == s \ {y}
                 q == G(y)
      <3>7. SumTable(q, fun, w) /\ v \subseteq w
        BY <3>2, <3>3, Zenon
      <3> HIDE DEF w, q
      <3>8. \A u \in SUBSET v : r[u] = q[u]
        BY <3>4, <3>5, <3>7, TablesAgree
      <3> QED
        BY <3>2, <3>6, <3>8, Zenon DEF y, q
    <2>5. SumTable(h, fun, s)
      <3> HIDE DEF old
      <3> SUFFICES ASSUME NEW t \in SUBSET s
                   PROVE h[t] = IF t = {} THEN 0 ELSE fun[Pick(t)] + h[t \ {Pick(t)}]
        BY Zenon DEF SumTable
      <3>1. t # {} => Pick(t) \in t
        BY DEF Pick
      <3>2. ASSUME t # {} PROVE h[t \ {Pick(t)}] = old(t \ {Pick(t)})
        BY <3>1, <3>2
      <3>3. CASE t = s
        BY <1>3, <3>2, <3>3
      <3>4. CASE t # s
        <4> DEFINE x == out(t)
        <4>1. x \in s /\ x \notin t /\ t \in SUBSET (s \ {x}) /\ t \ {Pick(t)} \in SUBSET (s \ {x})
          BY <2>2, <3>4
        <4>2. SumTable(G(x), fun, s \ {x})
          BY <2>1, <4>1
        <4> HIDE DEF x
        <4>3. G(x)[t] = IF t = {} THEN 0 ELSE fun[Pick(t)] + G(x)[t \ {Pick(t)}]
          BY <4>1, <4>2 DEF SumTable
        <4>4. G(x)[t] = old(t) /\ G(x)[t \ {Pick(t)}] = old(t \ {Pick(t)})
          BY <2>4, <4>1, Zenon
        <4>5. h[t] = old(t)
          BY <3>4, Zenon
        <4> QED
          BY <3>2, <4>3, <4>4, <4>5, Zenon
      <3> QED
        BY <3>3, <3>4, Zenon
    <2> HIDE DEF h
    <2> QED
      BY <1>1, <2>5, Zenon
  <1> QED
    BY <1>2, <1>3, Zenon

\* The sum over a finite set, one element at a time.
LEMMA SumStep ==
  ASSUME NEW fun, NEW S, IsFiniteSet(S)
  PROVE  SumFunctionOnSet(fun, S)
           = IF S = {} THEN 0 ELSE fun[Pick(S)] + SumFunctionOnSet(fun, S \ {Pick(S)})
  <1> DEFINE g == CHOOSE g : SumTable(g, fun, S)
             T == S \ {Pick(S)}
             h == CHOOSE h : SumTable(h, fun, T)
  <1>1. SumTable(g, fun, S)
    BY TableExists, Zenon
  <1>2. IsFiniteSet(T) /\ T \subseteq S
    BY FS_Subset
  <1>3. SumTable(h, fun, T)
    BY <1>2, TableExists, Zenon
  <1>4. SumFunctionOnSet(fun, S) = g[S] /\ SumFunctionOnSet(fun, T) = h[T]
    BY SumIsTable, Zenon
  <1> HIDE DEF g, h
  <1>5. g[S] = IF S = {} THEN 0 ELSE fun[Pick(S)] + g[T]
    BY <1>1 DEF SumTable
  <1> HIDE DEF T
  <1>6. \A s \in SUBSET T : h[s] = g[s]
    BY <1>1, <1>2, <1>3, TablesAgree
  <1>7. h[T] = g[T]
    BY <1>6
  <1> QED
    BY <1>4, <1>5, <1>7, Zenon DEF T

\* A sum of integers is an integer, and of natural numbers a natural number.
LEMMA SumType ==
  ASSUME NEW S, IsFiniteSet(S), NEW fun
  PROVE  /\ (\A x \in S : fun[x] \in Int) => SumFunctionOnSet(fun, S) \in Int
         /\ (\A x \in S : fun[x] \in Nat) => SumFunctionOnSet(fun, S) \in Nat
  <1>1. ASSUME NEW N \in {Int, Nat}, \A x \in S : fun[x] \in N
        PROVE  SumFunctionOnSet(fun, S) \in N
    <2> DEFINE B == {s \in SUBSET S : SumFunctionOnSet(fun, s) \notin N}
    <2> SUFFICES ASSUME B # {} PROVE FALSE
      BY Zenon
    <2>1. PICK s \in B : \A x \in s : s \ {x} \notin B
      BY SmallestSet, Zenon
    <2> DEFINE p == Pick(s)
               old == SumFunctionOnSet(fun, s \ {p})
    <2>2. IsFiniteSet(s)
      BY FS_Subset, Zenon
    <2>3. SumFunctionOnSet(fun, s) = IF s = {} THEN 0 ELSE fun[p] + old
      BY <2>2, SumStep, Zenon
    <2>4. CASE s = {}
      BY <2>1, <2>3, <2>4
    <2>5. CASE s # {}
      <3>1. p \in s
        BY <2>5 DEF Pick
      <3>2. old \in N
        BY <2>1, <3>1, Zenon
      <3>3. fun[p] \in N
        BY <1>1, <3>1, Zenon
      <3> HIDE DEF old, p
      <3>4. fun[p] + old \in N
        BY <3>2, <3>3
      <3> QED
        BY <2>1, <2>3, <2>5, <3>4, Zenon
    <2> QED
      BY <2>4, <2>5, Zenon
  <1> QED
    BY <1>1, Zenon

\* Whatever element is taken out first, the sum is the same.
LEMMA SumRemove ==
  ASSUME NEW S, IsFiniteSet(S), NEW fun, \A x \in S : fun[x] \in Int, NEW x \in S
  PROVE  SumFunctionOnSet(fun, S) = fun[x] + SumFunctionOnSet(fun, S \ {x})
  <1> DEFINE F(s) == SumFunctionOnSet(fun, s)
             B == {s \in SUBSET S : \E y \in s : F(s) # fun[y] + F(s \ {y})}
  <1>0. \A s \in SUBSET S : IsFiniteSet(s) /\ F(s) \in Int
    <2> SUFFICES ASSUME NEW s \in SUBSET S PROVE IsFiniteSet(s) /\ F(s) \in Int
      BY Zenon
    <2>1. IsFiniteSet(s) /\ \A y \in s : fun[y] \in Int
      BY FS_Subset, Zenon
    <2> QED
      BY <2>1, SumType, Zenon
  <1>1. \A s \in SUBSET S : s # {} => F(s) = fun[Pick(s)] + F(s \ {Pick(s)})
    BY <1>0, SumStep, Zenon
  <1> HIDE DEF F
  <1>2. B = {}
    <2> SUFFICES ASSUME B # {} PROVE FALSE
      BY Zenon
    <2>1. PICK s \in B : \A y \in s : s \ {y} \notin B
      BY SmallestSet, Zenon
    <2>2. PICK y \in s : F(s) # fun[y] + F(s \ {y})
      BY <2>1, Zenon
    <2> DEFINE p == Pick(s)
    <2>3. p \in s
      BY <2>2 DEF Pick
    <2>4. F(s) = fun[p] + F(s \ {p})
      BY <1>1, <2>3
    <2> HIDE DEF p
    <2>5. p # y
      BY <2>2, <2>4, Zenon
    <2> DEFINE q == (s \ {p}) \ {y}
    <2>6. q = (s \ {y}) \ {p} /\ y \in s \ {p} /\ p \in s \ {y}
      BY <2>2, <2>3, <2>5
    <2>7. F(s \ {p}) = fun[y] + F(q)
      BY <2>1, <2>3, <2>6, Zenon
    <2>8. F(s \ {y}) = fun[p] + F(q)
      BY <2>1, <2>2, <2>6, Zenon
    <2>9. F(q) \in Int /\ fun[p] \in Int /\ fun[y] \in Int
      BY <1>0, <2>3, Zenon
    <2> HIDE DEF q
    <2>10. F(s) = fun[y] + F(s \ {y})
      BY <2>4, <2>7, <2>8, <2>9
    <2> QED
      BY <2>2, <2>10, Zenon
  <1>3. S \in SUBSET S
    OBVIOUS
  <1>4. F(S) = fun[x] + F(S \ {x})
    BY <1>2, <1>3, Zenon
  <1> QED
    BY <1>4, Zenon DEF F

\* Only the values on the set count.
LEMMA SumAgree ==
  ASSUME NEW S, IsFiniteSet(S), NEW fun, NEW gun, \A x \in S : fun[x] = gun[x]
  PROVE  SumFunctionOnSet(fun, S) = SumFunctionOnSet(gun, S)
  <1> DEFINE B == {s \in SUBSET S : SumFunctionOnSet(fun, s) # SumFunctionOnSet(gun, s)}
  <1> SUFFICES ASSUME B # {} PROVE FALSE
    BY Zenon
  <1>1. PICK s \in B : \A x \in s : s \ {x} \notin B
    BY SmallestSet, Zenon
  <1>2. IsFiniteSet(s)
    BY FS_Subset, Zenon
  <1> DEFINE p == Pick(s)
  <1>3. /\ SumFunctionOnSet(fun, s) = IF s = {} THEN 0 ELSE fun[p] + SumFunctionOnSet(fun, s \ {p})
        /\ SumFunctionOnSet(gun, s) = IF s = {} THEN 0 ELSE gun[p] + SumFunctionOnSet(gun, s \ {p})
    BY <1>2, SumStep, Zenon
  <1>4. s # {} => p \in s
    BY DEF Pick
  <1> HIDE DEF p
  <1> QED
    BY <1>1, <1>3, <1>4, Zenon

\* A sum of pairwise sums.
LEMMA SumPlus ==
  ASSUME NEW S, IsFiniteSet(S), NEW fun, NEW gun, NEW hun,
         \A x \in S : fun[x] \in Int /\ gun[x] \in Int /\ hun[x] = fun[x] + gun[x]
  PROVE  SumFunctionOnSet(hun, S) = SumFunctionOnSet(fun, S) + SumFunctionOnSet(gun, S)
  <1> DEFINE F(s) == SumFunctionOnSet(fun, s)
             G(s) == SumFunctionOnSet(gun, s)
             H(s) == SumFunctionOnSet(hun, s)
             B == {s \in SUBSET S : H(s) # F(s) + G(s)}
  <1>1. \A s \in SUBSET S : IsFiniteSet(s) /\ F(s) \in Int /\ G(s) \in Int
    <2> SUFFICES ASSUME NEW s \in SUBSET S PROVE IsFiniteSet(s) /\ F(s) \in Int /\ G(s) \in Int
      BY Zenon
    <2>1. IsFiniteSet(s) /\ \A y \in s : fun[y] \in Int /\ gun[y] \in Int
      BY FS_Subset, Zenon
    <2> QED
      BY <2>1, SumType, Zenon
  <1>2. \A s \in SUBSET S :
          /\ F(s) = IF s = {} THEN 0 ELSE fun[Pick(s)] + F(s \ {Pick(s)})
          /\ G(s) = IF s = {} THEN 0 ELSE gun[Pick(s)] + G(s \ {Pick(s)})
          /\ H(s) = IF s = {} THEN 0 ELSE hun[Pick(s)] + H(s \ {Pick(s)})
    BY <1>1, SumStep, Zenon
  <1> HIDE DEF F, G, H
  <1>3. B = {}
    <2> SUFFICES ASSUME B # {} PROVE FALSE
      BY Zenon
    <2>1. PICK s \in B : \A y \in s : s \ {y} \notin B
      BY SmallestSet, Zenon
    <2>2. CASE s = {}
      <3>1. F(s) = 0 /\ G(s) = 0 /\ H(s) = 0
        BY <1>2, <2>2, Zenon
      <3>2. H(s) = F(s) + G(s)
        BY <3>1
      <3> QED
        BY <2>1, <3>2, Zenon
    <2>3. CASE s # {}
      <3> DEFINE p == Pick(s)
                 q == s \ {p}
      <3>1. p \in s
        BY <2>3 DEF Pick
      <3>2. F(s) = fun[p] + F(q) /\ G(s) = gun[p] + G(q) /\ H(s) = hun[p] + H(q)
        BY <1>2, <2>3, Zenon
      <3>3. q \in SUBSET S /\ H(q) = F(q) + G(q)
        BY <2>1, <3>1, Zenon
      <3> HIDE DEF q, p
      <3>4. /\ F(q) \in Int /\ G(q) \in Int /\ fun[p] \in Int /\ gun[p] \in Int
            /\ hun[p] = fun[p] + gun[p]
        BY <1>1, <3>1, <3>3, Zenon
      <3>5. H(s) = F(s) + G(s)
        BY <3>2, <3>3, <3>4
      <3> QED
        BY <2>1, <3>5, Zenon
    <2> QED
      BY <2>2, <2>3, Zenon
  <1>4. S \in SUBSET S
    OBVIOUS
  <1>5. H(S) = F(S) + G(S)
    BY <1>3, <1>4, Zenon
  <1> QED
    BY <1>5, Zenon DEF F, G, H

\* Larger values have a larger sum.
LEMMA SumLess ==
  ASSUME NEW S, IsFiniteSet(S), NEW fun, NEW gun,
         \A x \in S : fun[x] \in Int /\ gun[x] \in Int /\ fun[x] <= gun[x]
  PROVE  SumFunctionOnSet(fun, S) <= SumFunctionOnSet(gun, S)
  <1> DEFINE d == [x \in S |-> gun[x] - fun[x]]
  <1>1. \A x \in S : d[x] \in Nat /\ fun[x] \in Int /\ gun[x] = fun[x] + d[x]
    OBVIOUS
  <1> HIDE DEF d
  <1>2. SumFunctionOnSet(d, S) \in Nat /\ SumFunctionOnSet(fun, S) \in Int
    BY <1>1, SumType, Zenon
  <1>3. \A x \in S : fun[x] \in Int /\ d[x] \in Int /\ gun[x] = fun[x] + d[x]
    BY <1>1
  <1>4. SumFunctionOnSet(gun, S) = SumFunctionOnSet(fun, S) + SumFunctionOnSet(d, S)
    BY <1>3, SumPlus, Zenon
  <1> QED
    BY <1>2, <1>4

\* Zeros may be added.
LEMMA SumWiden ==
  ASSUME NEW S, IsFiniteSet(S), NEW T \in SUBSET S, NEW fun,
         \A x \in T : fun[x] \in Int, \A x \in S \ T : fun[x] = 0
  PROVE  SumFunctionOnSet(fun, T) = SumFunctionOnSet(fun, S)
  <1> DEFINE F(s) == SumFunctionOnSet(fun, s)
             B == {s \in SUBSET S : T \subseteq s /\ F(s) # F(T)}
  <1>1. \A s \in SUBSET S : IsFiniteSet(s) /\ F(s) \in Int /\ \A x \in s : fun[x] \in Int
    <2> SUFFICES ASSUME NEW s \in SUBSET S
                 PROVE IsFiniteSet(s) /\ F(s) \in Int /\ \A x \in s : fun[x] \in Int
      BY Zenon
    <2>1. IsFiniteSet(s) /\ \A y \in s : fun[y] \in Int
      BY FS_Subset
    <2> QED
      BY <2>1, SumType, Zenon
  <1>2. \A s \in SUBSET S : \A x \in s : F(s) = fun[x] + F(s \ {x})
    BY <1>1, SumRemove, Zenon
  <1> HIDE DEF F
  <1>3. B = {}
    <2> SUFFICES ASSUME B # {} PROVE FALSE
      BY Zenon
    <2>1. PICK s \in B : \A y \in s : s \ {y} \notin B
      <3>1. B \in SUBSET SUBSET S
        OBVIOUS
      <3> HIDE DEF B
      <3> QED
        BY <3>1, SmallestSet, Zenon
    <2>2. PICK y \in s : y \notin T
      <3>1. s # T /\ T \subseteq s
        BY <2>1, Zenon
      <3> QED
        BY <3>1
    <2> DEFINE q == s \ {y}
    <2>3. q \in SUBSET S /\ T \subseteq q /\ q \notin B
      BY <2>1, <2>2
    <2>4. F(q) = F(T)
      BY <2>3, Zenon
    <2>5. F(s) = fun[y] + F(q) /\ fun[y] = 0 /\ F(q) \in Int
      BY <1>1, <1>2, <2>2, <2>3, Zenon
    <2> HIDE DEF q
    <2>6. F(s) = F(T)
      BY <2>4, <2>5
    <2> QED
      BY <2>1, <2>6, Zenon
  <1>4. S \in SUBSET S /\ T \subseteq S
    OBVIOUS
  <1>5. F(S) = F(T)
    BY <1>3, <1>4, Zenon
  <1> QED
    BY <1>5, Zenon DEF F

-----------------------------------------------------------------------------
\* The relation, for one record.
GoodInfo(i) ==
  /\ i \in RestrictingInfo
  /\ i.AdvanceAmount <= i.CachePlanAmount
  /\ i.NeedRelease > 0 => i.CachePlanAmount = i.AdvanceAmount

GoodInfos(info) ==
  /\ DOMAIN info \subseteq Accounts
  /\ info = [a \in DOMAIN info |-> info[a]]
  /\ \A a \in DOMAIN info : GoodInfo(info[a])

\* The inductive invariant: amounts to be released are natural numbers, too.
GoodLedger(f) ==
  /\ DOMAIN f = {"bal", "info", "accounts", "amount", "broken"}
  /\ GoodInfos(f.info)
  /\ f.amount \in [Epochs -> [Accounts -> Nat]]

LedgerInv == GoodLedger(funds) /\ block \in Nat

-----------------------------------------------------------------------------
\* Records of one account.

\* The lesser of two natural numbers is one of them and at most the other.
LEMMA LesserNat ==
  ASSUME NEW x \in Nat, NEW y \in Nat
  PROVE  Lesser(x, y) \in Nat /\ Lesser(x, y) <= x /\ Lesser(x, y) <= y /\ (Lesser(x, y) = x \/ Lesser(x, y) = y)
  BY DEF Lesser

\* What a good record says of its fields.
LEMMA GoodFields ==
  ASSUME NEW i, GoodInfo(i)
  PROVE  /\ i \in RestrictingInfo
         /\ i.NeedRelease \in Nat /\ i.AdvanceAmount \in Nat /\ i.CachePlanAmount \in Nat
         /\ i.ReleaseList \in SUBSET Nat
         /\ i.AdvanceAmount <= i.CachePlanAmount
         /\ i.NeedRelease > 0 => i.CachePlanAmount = i.AdvanceAmount
  BY DEF GoodInfo, RestrictingInfo

\* A record with other amounts, as a plan, a return or a penalty leaves it.
LEMMA AmountsSet ==
  ASSUME NEW i \in RestrictingInfo, NEW x \in Nat, NEW y \in Nat, NEW z \in Nat,
         z <= y, x > 0 => y = z
  PROVE  GoodInfo([i EXCEPT !.NeedRelease = x, !.CachePlanAmount = y, !.AdvanceAmount = z])
  <1> DEFINE r == [i EXCEPT !.NeedRelease = x, !.CachePlanAmount = y, !.AdvanceAmount = z]
  <1>1. r \in RestrictingInfo
    BY DEF RestrictingInfo
  <1>2. r.NeedRelease = x /\ r.CachePlanAmount = y /\ r.AdvanceAmount = z
    BY DEF RestrictingInfo
  <1> HIDE DEF r
  <1>3. GoodInfo(r)
    BY <1>1, <1>2 DEF GoodInfo
  <1> QED
    BY <1>3 DEF r

\* A record with another release list and amounts, as a release leaves it.
LEMMA ListSet ==
  ASSUME NEW i \in RestrictingInfo, NEW x \in Nat, NEW y \in Nat, NEW z \in SUBSET Nat,
         i.AdvanceAmount <= y, x > 0 => y = i.AdvanceAmount
  PROVE  GoodInfo([i EXCEPT !.NeedRelease = x, !.CachePlanAmount = y, !.ReleaseList = z])
  <1> DEFINE r == [i EXCEPT !.NeedRelease = x, !.CachePlanAmount = y, !.ReleaseList = z]
  <1>1. r \in RestrictingInfo
    BY DEF RestrictingInfo
  <1>2. r.NeedRelease = x /\ r.CachePlanAmount = y /\ r.AdvanceAmount = i.AdvanceAmount
    BY DEF RestrictingInfo
  <1> HIDE DEF r
  <1>3. GoodInfo(r)
    BY <1>1, <1>2 DEF GoodInfo
  <1> QED
    BY <1>3 DEF r

\* A record with another advance, as a return or a penalty leaves it.
LEMMA AdvanceSet ==
  ASSUME NEW i \in RestrictingInfo, NEW y \in Nat, NEW z \in Nat,
         z <= y, i.NeedRelease > 0 => y = z
  PROVE  GoodInfo([i EXCEPT !.AdvanceAmount = z, !.CachePlanAmount = y])
  <1> DEFINE r == [i EXCEPT !.AdvanceAmount = z, !.CachePlanAmount = y]
  <1>1. r \in RestrictingInfo
    BY DEF RestrictingInfo
  <1>2. r.NeedRelease = i.NeedRelease /\ r.CachePlanAmount = y /\ r.AdvanceAmount = z
    BY DEF RestrictingInfo
  <1> HIDE DEF r
  <1>3. GoodInfo(r)
    BY <1>1, <1>2 DEF GoodInfo
  <1> QED
    BY <1>3 DEF r

\* The first plan of an account is a good record.
LEMMA NewInfoGood ==
  ASSUME NEW total \in Nat, NEW epochs \in SUBSET Nat
  PROVE  GoodInfo(NewInfo(total, epochs))
  BY DEF GoodInfo, NewInfo, RestrictingInfo

\* A further plan pays what is owed before it adds to the plan.
LEMMA MorePlansGood ==
  ASSUME NEW i, GoodInfo(i), NEW total \in Nat, NEW epochs \in SUBSET Nat
  PROVE  GoodInfo(MorePlans(i, total, epochs))
  <1>0. /\ i \in RestrictingInfo
        /\ i.NeedRelease \in Nat /\ i.AdvanceAmount \in Nat /\ i.CachePlanAmount \in Nat
        /\ i.ReleaseList \in SUBSET Nat
        /\ i.AdvanceAmount <= i.CachePlanAmount
        /\ i.NeedRelease > 0 => i.CachePlanAmount = i.AdvanceAmount
    BY GoodFields
  <1> DEFINE p == OwedFirst(i, total)
             owed == i.NeedRelease - p
             plan == i.CachePlanAmount + (total - p)
             list == i.ReleaseList \cup epochs
  <1>1. p \in Nat /\ p <= i.NeedRelease /\ p <= total /\ (p = i.NeedRelease \/ p = total)
    BY <1>0, LesserNat DEF OwedFirst
  <1> HIDE DEF p
  <1>2. owed \in Nat /\ plan \in Nat /\ i.AdvanceAmount <= plan /\ (owed > 0 => plan = i.AdvanceAmount)
    BY <1>1, <1>0
  <1>3. MorePlans(i, total, epochs) = [i EXCEPT !.NeedRelease = owed, !.CachePlanAmount = plan, !.ReleaseList = list]
    BY DEF MorePlans, p
  <1>4. i \in RestrictingInfo /\ list \in SUBSET Nat
    BY <1>0
  <1> HIDE DEF owed, plan, list
  <1>5. GoodInfo([i EXCEPT !.NeedRelease = owed, !.CachePlanAmount = plan, !.ReleaseList = list])
    BY <1>2, <1>4, ListSet, Zenon
  <1> QED
    BY <1>3, <1>5

\* No more than the plan holds is advanced; nothing is, while money is owed.
LEMMA AdvancedGood ==
  ASSUME NEW i, GoodInfo(i), NEW m \in Nat, i.CachePlanAmount - i.AdvanceAmount >= m
  PROVE  GoodInfo(Advanced(i, m))
  BY DEF GoodInfo, RestrictingInfo, Advanced

\* What comes back pays what is owed first.
LEMMA ReturnedGood ==
  ASSUME NEW i, GoodInfo(i), NEW m \in Nat, m <= i.AdvanceAmount
  PROVE  GoodInfo(Returned(i, m))
  <1>0. /\ i \in RestrictingInfo
        /\ i.NeedRelease \in Nat /\ i.AdvanceAmount \in Nat /\ i.CachePlanAmount \in Nat
        /\ i.ReleaseList \in SUBSET Nat
        /\ i.AdvanceAmount <= i.CachePlanAmount
        /\ i.NeedRelease > 0 => i.CachePlanAmount = i.AdvanceAmount
    BY GoodFields
  <1> DEFINE p == OwedFirst(i, m)
             owed == i.NeedRelease - p
             plan == i.CachePlanAmount - p
             left == i.AdvanceAmount - m
  <1>1. p \in Nat /\ p <= i.NeedRelease /\ p <= m /\ (p = i.NeedRelease \/ p = m)
    BY <1>0, LesserNat DEF OwedFirst
  <1> HIDE DEF p
  <1>2. owed \in Nat /\ plan \in Nat /\ left \in Nat /\ left <= plan /\ (owed > 0 => plan = left)
    BY <1>1, <1>0
  <1>3. Returned(i, m) = [i EXCEPT !.NeedRelease = owed, !.CachePlanAmount = plan, !.AdvanceAmount = left]
    BY DEF Returned, p
  <1> HIDE DEF owed, plan, left
  <1>4. GoodInfo([i EXCEPT !.NeedRelease = owed, !.CachePlanAmount = plan, !.AdvanceAmount = left])
    BY <1>0, <1>2, AmountsSet, Zenon
  <1> QED
    BY <1>3, <1>4

\* A penalty takes from the plan what it takes from the advance.
LEMMA SlashedGood ==
  ASSUME NEW i, GoodInfo(i), NEW m \in Nat, m <= i.AdvanceAmount
  PROVE  GoodInfo(Slashed(i, m))
  <1>0. /\ i \in RestrictingInfo
        /\ i.NeedRelease \in Nat /\ i.AdvanceAmount \in Nat /\ i.CachePlanAmount \in Nat
        /\ i.ReleaseList \in SUBSET Nat
        /\ i.AdvanceAmount <= i.CachePlanAmount
        /\ i.NeedRelease > 0 => i.CachePlanAmount = i.AdvanceAmount
    BY GoodFields
  <1> DEFINE plan == i.CachePlanAmount - m
             left == i.AdvanceAmount - m
  <1>1. plan \in Nat /\ left \in Nat /\ left <= plan /\ (i.NeedRelease > 0 => plan = left)
    BY <1>0
  <1>2. Slashed(i, m) = [i EXCEPT !.AdvanceAmount = left, !.CachePlanAmount = plan]
    BY DEF Slashed
  <1> HIDE DEF plan, left
  <1>3. GoodInfo([i EXCEPT !.AdvanceAmount = left, !.CachePlanAmount = plan])
    BY <1>0, <1>1, AdvanceSet, Zenon
  <1> QED
    BY <1>2, <1>3

\* A release owes only what it cannot pay, and then nothing is left to pay.
LEMMA ReleasedGood ==
  ASSUME NEW i, GoodInfo(i), NEW m \in Nat, NEW e
  PROVE  GoodInfo(Released(i, m, e))
  <1>0. /\ i \in RestrictingInfo
        /\ i.NeedRelease \in Nat /\ i.AdvanceAmount \in Nat /\ i.CachePlanAmount \in Nat
        /\ i.ReleaseList \in SUBSET Nat
        /\ i.AdvanceAmount <= i.CachePlanAmount
        /\ i.NeedRelease > 0 => i.CachePlanAmount = i.AdvanceAmount
    BY GoodFields
  <1> DEFINE p == canRelease(i, m)
             free == i.CachePlanAmount - i.AdvanceAmount
             owed == i.NeedRelease + (m - p)
             plan == i.CachePlanAmount - p
             list == i.ReleaseList \ {e}
  <1>1. free \in Nat /\ (i.NeedRelease > 0 => free = 0)
    BY <1>0
  <1>2. p \in Nat /\ p <= m /\ p <= free /\ (p = m \/ p = free)
    <2>1. CASE i.NeedRelease > 0
      BY <1>1, <2>1 DEF canRelease
    <2>2. CASE ~(i.NeedRelease > 0)
      BY <1>1, <2>2, LesserNat DEF canRelease
    <2> QED
      BY <2>1, <2>2
  <1> HIDE DEF p
  <1>3. owed \in Nat /\ plan \in Nat /\ i.AdvanceAmount <= plan /\ (owed > 0 => plan = i.AdvanceAmount)
    BY <1>1, <1>2, <1>0
  <1>4. Released(i, m, e) = [i EXCEPT !.NeedRelease = owed, !.CachePlanAmount = plan, !.ReleaseList = list]
    BY DEF Released, p
  <1>5. i \in RestrictingInfo /\ list \in SUBSET Nat
    BY <1>0
  <1> HIDE DEF owed, plan, list
  <1>6. GoodInfo([i EXCEPT !.NeedRelease = owed, !.CachePlanAmount = plan, !.ReleaseList = list])
    BY <1>3, <1>5, ListSet, Zenon
  <1> QED
    BY <1>4, <1>6

-----------------------------------------------------------------------------
\* The records of all accounts.

\* Storing a good record keeps all of them good.
LEMMA StoreGood ==
  ASSUME NEW info, GoodInfos(info), NEW a \in Accounts, NEW i, GoodInfo(i)
  PROVE  GoodInfos(storeRestrictingInfo(info, a, i))
  BY DEF GoodInfos, storeRestrictingInfo

\* So does dropping one.
LEMMA StoreOrDropGood ==
  ASSUME NEW info, GoodInfos(info), NEW a \in Accounts, NEW i, GoodInfo(i), NEW drop
  PROVE  GoodInfos(StoreOrDrop(info, a, i, drop))
  <1>1. GoodInfos(deleteRestrictingInfo(info, a))
    BY DEF GoodInfos, deleteRestrictingInfo
  <1> QED
    BY <1>1, StoreGood DEF StoreOrDrop

-----------------------------------------------------------------------------
\* The operations on the ledger.

\* A new record in the ledger: all that AdvanceLockedFunds, ReturnLockFunds and
\* SlashingNotify change besides the balances.
LEMMA InfoStored ==
  ASSUME NEW f, GoodLedger(f), NEW b, NEW infos, GoodInfos(infos)
  PROVE  GoodLedger([f EXCEPT !.bal = b, !.info = infos]) /\ GoodLedger([f EXCEPT !.info = infos])
  BY DEF GoodLedger

\* An operation that fails changes no record.
LEMMA FailGood ==
  ASSUME NEW f, GoodLedger(f)
  PROVE  GoodLedger(Fail(f))
  BY DEF GoodLedger, Fail

\* Moving money between balances touches no record.
LEMMA BalanceGood ==
  ASSUME NEW f, GoodLedger(f), NEW b
  PROVE  GoodLedger([f EXCEPT !.bal = b]) /\ [f EXCEPT !.bal = b].info = f.info
  BY DEF GoodLedger

\* Money advanced to a stake was in the plan.
LEMMA AdvanceGood ==
  ASSUME NEW f, GoodLedger(f), NEW a \in Accounts, NEW m \in Nat, CanAdvance(f, a, m)
  PROVE  GoodLedger(AdvanceLockedFunds(f, a, m))
  <1> DEFINE infos == storeRestrictingInfo(f.info, a, Advanced(f.info[a], m))
             b == transferAmount(f.bal, RestrictingContract, StakingContract, m)
  <1>1. GoodInfos(f.info) /\ GoodInfo(f.info[a])
    BY DEF GoodLedger, GoodInfos, CanAdvance
  <1>2. f.info[a].CachePlanAmount - f.info[a].AdvanceAmount >= m
    BY DEF CanAdvance
  <1>3. GoodInfo(Advanced(f.info[a], m))
    BY <1>1, <1>2, AdvancedGood
  <1>4. GoodInfos(infos)
    BY <1>1, <1>3, StoreGood
  <1>5. AdvanceLockedFunds(f, a, m) = [f EXCEPT !.bal = b, !.info = infos]
    BY DEF AdvanceLockedFunds
  <1> HIDE DEF infos, b
  <1>6. GoodLedger([f EXCEPT !.bal = b, !.info = infos])
    BY <1>4, InfoStored
  <1> QED
    BY <1>5, <1>6

\* So was the restricted part of a mixed payment.
LEMMA MixAdvanceGood ==
  ASSUME NEW f, GoodLedger(f), NEW a \in Accounts, NEW m \in Nat
  PROVE  GoodLedger(MixAdvanceLockedFunds(f, a, m))
  <1> DEFINE r == ForRestricting(f, a, m)
             g == [f EXCEPT !.bal = transferAmount(@, a, StakingContract, m - r)]
  <1>1. GoodLedger(g) /\ g.info = f.info
    BY BalanceGood
  <1>2. CASE a \in DOMAIN f.info
    <2>1. GoodInfo(f.info[a])
      BY <1>2 DEF GoodLedger, GoodInfos
    <2>2. f.info[a].CachePlanAmount - f.info[a].AdvanceAmount \in Nat
      BY <2>1, GoodFields
    <2>3. r \in Nat /\ r <= f.info[a].CachePlanAmount - f.info[a].AdvanceAmount
      BY <1>2, <2>2, LesserNat DEF ForRestricting
    <2> HIDE DEF r
    <2>4. CanAdvance(g, a, r)
      BY <1>1, <1>2, <2>2, <2>3 DEF CanAdvance
    <2>5. MixAdvanceLockedFunds(f, a, m) = AdvanceLockedFunds(g, a, r)
      BY <1>2 DEF MixAdvanceLockedFunds, r
    <2> HIDE DEF g
    <2> QED
      BY <1>1, <2>3, <2>4, <2>5, AdvanceGood
  <1>3. CASE a \notin DOMAIN f.info
    <2>1. MixAdvanceLockedFunds(f, a, m) = g
      BY <1>3 DEF MixAdvanceLockedFunds
    <2> QED
      BY <1>1, <2>1
  <1> QED
    BY <1>2, <1>3

\* Money returned from a stake had been advanced, or the call fails.
LEMMA ReturnGood ==
  ASSUME NEW f, GoodLedger(f), NEW a \in Accounts, NEW m \in Nat
  PROVE  GoodLedger(ReturnLockFunds(f, a, m))
  <1> DEFINE i == Returned(f.info[a], m)
             infos == StoreOrDrop(f.info, a, i, Settled(i))
             back == transferAmount(f.bal, StakingContract, RestrictingContract, m)
             b == transferAmount(back, RestrictingContract, a, OwedFirst(f.info[a], m))
  <1>1. CASE m = 0 \/ a \notin DOMAIN f.info \/ f.info[a].AdvanceAmount < m
    <2>1. ReturnLockFunds(f, a, m) = f \/ ReturnLockFunds(f, a, m) = Fail(f)
      BY <1>1 DEF ReturnLockFunds
    <2> QED
      BY <2>1, FailGood
  <1>2. CASE ~(m = 0 \/ a \notin DOMAIN f.info \/ f.info[a].AdvanceAmount < m)
    <2>1. GoodInfos(f.info) /\ GoodInfo(f.info[a])
      BY <1>2 DEF GoodLedger, GoodInfos
    <2>2. m <= f.info[a].AdvanceAmount
      BY <1>2, <2>1, GoodFields
    <2>3. GoodInfo(i)
      BY <2>1, <2>2, ReturnedGood
    <2>4. ReturnLockFunds(f, a, m) = [f EXCEPT !.bal = b, !.info = infos]
      BY <1>2 DEF ReturnLockFunds
    <2> HIDE DEF i
    <2>5. GoodInfos(infos)
      BY <2>1, <2>3, StoreOrDropGood
    <2> HIDE DEF infos, b
    <2>6. GoodLedger([f EXCEPT !.bal = b, !.info = infos])
      BY <2>5, InfoStored
    <2> QED
      BY <2>4, <2>6
  <1> QED
    BY <1>1, <1>2

\* So had money that is slashed.
LEMMA SlashingGood ==
  ASSUME NEW f, GoodLedger(f), NEW a \in Accounts, NEW m \in Nat
  PROVE  GoodLedger(SlashingNotify(f, a, m))
  <1> DEFINE i == Slashed(f.info[a], m)
             infos == StoreOrDrop(f.info, a, i, Settled(i))
  <1>1. CASE m = 0 \/ a \notin DOMAIN f.info \/ f.info[a].AdvanceAmount < m
    <2>1. SlashingNotify(f, a, m) = f \/ SlashingNotify(f, a, m) = Fail(f)
      BY <1>1 DEF SlashingNotify
    <2> QED
      BY <2>1, FailGood
  <1>2. CASE ~(m = 0 \/ a \notin DOMAIN f.info \/ f.info[a].AdvanceAmount < m)
    <2>1. GoodInfos(f.info) /\ GoodInfo(f.info[a])
      BY <1>2 DEF GoodLedger, GoodInfos
    <2>2. m <= f.info[a].AdvanceAmount
      BY <1>2, <2>1, GoodFields
    <2>3. GoodInfo(i)
      BY <2>1, <2>2, SlashedGood
    <2>4. SlashingNotify(f, a, m) = [f EXCEPT !.info = infos]
      BY <1>2 DEF SlashingNotify
    <2> HIDE DEF i
    <2>5. GoodInfos(infos)
      BY <2>1, <2>3, StoreOrDropGood
    <2> HIDE DEF infos
    <2>6. GoodLedger([f EXCEPT !.info = infos])
      BY <2>5, InfoStored
    <2> QED
      BY <2>4, <2>6
  <1> QED
    BY <1>1, <1>2

\* A step that changes every part of the ledger.
LEMMA LedgerStored ==
  ASSUME NEW f, GoodLedger(f), NEW b, NEW infos, GoodInfos(infos), NEW acc,
         NEW amt \in [Epochs -> [Accounts -> Nat]]
  PROVE  GoodLedger([f EXCEPT !.bal = b, !.info = infos, !.accounts = acc, !.amount = amt])
  BY DEF GoodLedger

\* A plan adds natural numbers to the amounts due.
LEMMA AddGood ==
  ASSUME NEW f, GoodLedger(f), NEW from, NEW account \in Accounts, NEW plan \in Plans, NEW epoch \in Int,
         CanAdd(f, from, plan, epoch)
  PROVE  GoodLedger(AddRestrictingRecord(f, from, account, plan, epoch))
  <1> DEFINE total == SumFunction(plan)
             known == account \in DOMAIN f.info
             at == {e + epoch - 1 : e \in DOMAIN plan}
             extra(e) == plan[e - epoch + 1]
             fresh == {e \in at : ~known \/ f.amount[e][account] = 0}
             paid == IF known THEN OwedFirst(f.info[account], total) ELSE 0
             b == transferAmount(transferAmount(f.bal, from, RestrictingContract, total),
                                 RestrictingContract, account, paid)
             i == IF known THEN MorePlans(f.info[account], total, at) ELSE NewInfo(total, at)
             infos == storeRestrictingInfo(f.info, account, i)
             acc == [e \in Epochs |-> IF e \in fresh THEN f.accounts[e] \cup {account} ELSE f.accounts[e]]
             amt == [e \in Epochs |->
                       IF e \in at
                       THEN [f.amount[e] EXCEPT ![account] = IF e \in fresh THEN extra(e) ELSE @ + extra(e)]
                       ELSE f.amount[e]]
  <1>1. total \in Nat /\ \A e \in DOMAIN plan : e \in Nat /\ plan[e] \in Nat
    <2>1. IsFiniteSet(DOMAIN plan) /\ \A e \in DOMAIN plan : e \in Nat /\ plan[e] \in Nat
      BY RestrictingAssumption
    <2> QED
      BY <2>1, SumType, Zenon DEF SumFunction
  <1>2. at \in SUBSET Nat
    BY RestrictingAssumption DEF CanAdd
  <1>3. \A e \in at : extra(e) \in Nat
    <2> SUFFICES ASSUME NEW d \in DOMAIN plan
                 PROVE  extra(d + epoch - 1) \in Nat
      OBVIOUS
    <2>1. (d + epoch - 1) - epoch + 1 = d
      BY <1>1
    <2> QED
      BY <1>1, <2>1
  <1>4. GoodInfos(f.info)
    BY DEF GoodLedger
  <1> HIDE DEF total, at, extra
  <1>5. GoodInfo(i)
    <2>1. CASE known
      <3>1. GoodInfo(f.info[account])
        BY <1>4, <2>1 DEF GoodInfos
      <3> QED
        BY <1>1, <1>2, <2>1, <3>1, MorePlansGood
    <2>2. CASE ~known
      BY <1>1, <1>2, <2>2, NewInfoGood
    <2> QED
      BY <2>1, <2>2
  <1> HIDE DEF i, fresh
  <1>6. GoodInfos(infos)
    BY <1>4, <1>5, StoreGood
  <1>7. amt \in [Epochs -> [Accounts -> Nat]]
    <2> SUFFICES ASSUME NEW e \in Epochs
                 PROVE  amt[e] \in [Accounts -> Nat]
      OBVIOUS
    <2>1. f.amount[e] \in [Accounts -> Nat]
      BY DEF GoodLedger
    <2>2. CASE e \in at
      <3>1. extra(e) \in Nat
        BY <1>3, <2>2
      <3> QED
        BY <2>1, <2>2, <3>1
    <2>3. CASE e \notin at
      BY <2>1, <2>3
    <2> QED
      BY <2>2, <2>3
  <1>8. AddRestrictingRecord(f, from, account, plan, epoch)
          = [f EXCEPT !.bal = b, !.info = infos, !.accounts = acc, !.amount = amt]
    BY DEF AddRestrictingRecord, total, at, extra, i, fresh
  <1> HIDE DEF b, infos, acc, amt
  <1>9. GoodLedger([f EXCEPT !.bal = b, !.info = infos, !.accounts = acc, !.amount = amt])
    BY <1>6, <1>7, LedgerStored
  <1> QED
    BY <1>8, <1>9

\* The end of an epoch treats every listed account as ReleasedGood says.
LEMMA ReleaseGood ==
  ASSUME NEW f, GoodLedger(f), NEW e \in Epochs
  PROVE  GoodLedger(releaseRestricting(f, e))
  <1> DEFINE due == f.accounts[e] \cap DOMAIN f.info
             paid == [a \in due |-> canRelease(f.info[a], f.amount[e][a])]
             new == [a \in due |-> Released(f.info[a], f.amount[e][a], e)]
             gone == {a \in due : AllReleased(new[a])}
             b == [x \in DOMAIN f.bal |->
                     IF x = RestrictingContract THEN f.bal[x] - SumFunction(paid)
                     ELSE IF x \in due THEN f.bal[x] + paid[x]
                     ELSE f.bal[x]]
             infos == [a \in DOMAIN f.info \ gone |-> IF a \in due THEN new[a] ELSE f.info[a]]
             acc == [f.accounts EXCEPT ![e] = {}]
             amt == [f.amount EXCEPT ![e] = [a \in Accounts |-> IF a \in due THEN 0 ELSE f.amount[e][a]]]
  <1>1. GoodInfos(f.info) /\ f.amount \in [Epochs -> [Accounts -> Nat]]
    BY DEF GoodLedger
  <1>2. \A a \in due : GoodInfo(new[a])
    <2> SUFFICES ASSUME NEW a \in due
                 PROVE  GoodInfo(Released(f.info[a], f.amount[e][a], e))
      OBVIOUS
    <2>1. a \in Accounts /\ GoodInfo(f.info[a])
      BY <1>1 DEF GoodInfos
    <2>2. f.amount[e][a] \in Nat
      BY <1>1, <2>1
    <2> QED
      BY <2>1, <2>2, ReleasedGood
  <1>3. releaseRestricting(f, e) = [f EXCEPT !.bal = b, !.info = infos, !.accounts = acc, !.amount = amt]
    BY DEF releaseRestricting
  <1> HIDE DEF new, gone
  <1>4. GoodInfos(infos)
    BY <1>1, <1>2 DEF GoodInfos
  <1>5. amt \in [Epochs -> [Accounts -> Nat]]
    BY <1>1
  <1> HIDE DEF b, infos, acc, amt
  <1>6. GoodLedger([f EXCEPT !.bal = b, !.info = infos, !.accounts = acc, !.amount = amt])
    BY <1>4, <1>5, LedgerStored
  <1> QED
    BY <1>3, <1>6

-----------------------------------------------------------------------------
\* The specification.

\* The ledger starts empty.
LEMMA InitGood == RestrictingInit => LedgerInv
  BY DEF RestrictingInit, LedgerInv, GoodLedger, GoodInfos

\* Every call and every end of a block keeps the ledger good.
LEMMA NextGood == LedgerInv /\ [RestrictingNext]_<<funds, block>> => LedgerInv'
  <1> SUFFICES ASSUME LedgerInv, [RestrictingNext]_<<funds, block>>
               PROVE  LedgerInv'
    OBVIOUS
  <1>0. GoodLedger(funds) /\ block \in Nat /\ CalculateEpoch(block) \in Int
    BY RestrictingAssumption DEF LedgerInv, CalculateEpoch
  <1>1. ASSUME NEW from \in Accounts, NEW a \in Accounts, NEW plan \in Plans,
               CanAdd(funds, from, plan, CalculateEpoch(block)),
               funds' = AddRestrictingRecord(funds, from, a, plan, CalculateEpoch(block)),
               block' = block
        PROVE  LedgerInv'
    BY <1>0, <1>1, AddGood DEF LedgerInv
  <1>2. ASSUME NEW a \in Accounts, NEW m \in Amounts, block' = block,
               \/ CanAdvance(funds, a, m) /\ funds' = AdvanceLockedFunds(funds, a, m)
               \/ CanMixAdvance(funds, a, m) /\ funds' = MixAdvanceLockedFunds(funds, a, m)
               \/ funds' = ReturnLockFunds(funds, a, m)
               \/ funds' = SlashingNotify(funds, a, m)
        PROVE  LedgerInv'
    <2>1. m \in Nat
      BY RestrictingAssumption
    <2> QED
      BY <1>0, <1>2, <2>1, AdvanceGood, MixAdvanceGood, ReturnGood, SlashingGood DEF LedgerInv
  <1>3. ASSUME CalculateEpoch(block) \in Epochs, block' = block + 1,
               funds' = IF IsEndOfEpoch(block) THEN releaseRestricting(funds, CalculateEpoch(block)) ELSE funds
        PROVE  LedgerInv'
    BY <1>0, <1>3, ReleaseGood DEF LedgerInv
  <1>4. CASE UNCHANGED <<funds, block>>
    BY <1>4 DEF LedgerInv
  <1> QED
    BY <1>1, <1>2, <1>3, <1>4 DEF RestrictingNext

\* releaseRestricting's comment "if NeedRelease>0,CachePlanAmount = AdvanceAmount"
\* is true in every state, whatever plans, stakes, returns, penalties and
\* releases there were: money is owed only while all of it is in stakes.
THEOREM OwedIsAdvanced == RestrictingSpec => []OwedOnlyWhenAdvanced
  <1>1. LedgerInv => OwedOnlyWhenAdvanced
    BY GoodFields DEF LedgerInv, GoodLedger, GoodInfos, OwedOnlyWhenAdvanced
  <1> QED
    BY InitGood, NextGood, <1>1, PTL DEF RestrictingSpec

-----------------------------------------------------------------------------
\* Sums over the records of the accounts.

\* What an account may still get back from epoch c on.
Pending(f, a, c) == [e \in Epochs |-> IF e >= c THEN f.amount[e][a] ELSE 0]

\* Amounts due are listed, and they cover what the plans hold.
Covered(f, c) ==
  /\ f.accounts \in [Epochs -> SUBSET Accounts]
  /\ \A e \in Epochs, a \in Accounts : e >= c /\ f.amount[e][a] # 0 => a \in f.accounts[e]
  /\ \A a \in DOMAIN f.info :
       f.info[a].CachePlanAmount <= f.info[a].NeedRelease + SumFunctionOnSet(Pending(f, a, c), Epochs)

\* What the plans have not advanced, account by account.
Free(info) ==
  [a \in Accounts |-> IF a \in DOMAIN info THEN info[a].CachePlanAmount - info[a].AdvanceAmount ELSE 0]

\* The restricting contract holds just that.
Backed(f) ==
  /\ f.bal \in [Addresses -> Int]
  /\ f.bal[RestrictingContract] = SumFunctionOnSet(Free(f.info), Accounts)

\* The free parts are integers.
LEMMA FreeType ==
  ASSUME NEW info, GoodInfos(info)
  PROVE  /\ \A a \in Accounts : Free(info)[a] \in Int
         /\ SumFunctionOnSet(Free(info), Accounts) \in Int
  <1>1. ASSUME NEW a \in Accounts PROVE Free(info)[a] \in Int
    <2>1. a \in DOMAIN info => GoodInfo(info[a])
      BY DEF GoodInfos
    <2> QED
      BY <2>1, GoodFields DEF Free
  <1> QED
    BY <1>1, SumType, RestrictingAssumption, Zenon

\* One account's part changes: the sum changes by as much.
LEMMA FreeChanged ==
  ASSUME NEW info, GoodInfos(info), NEW infos, GoodInfos(infos), NEW a \in Accounts,
         \A b \in Accounts : b # a => Free(infos)[b] = Free(info)[b]
  PROVE  SumFunctionOnSet(Free(infos), Accounts)
           = SumFunctionOnSet(Free(info), Accounts) + Free(infos)[a] - Free(info)[a]
  <1> DEFINE x == Free(info)
             y == Free(infos)
             R == Accounts \ {a}
  <1>1. \A b \in Accounts : x[b] \in Int /\ y[b] \in Int
    BY FreeType, Zenon
  <1>2. IsFiniteSet(Accounts) /\ IsFiniteSet(R) /\ \A b \in R : b \in Accounts /\ x[b] = y[b]
    BY RestrictingAssumption, FS_Subset
  <1> HIDE DEF x, y
  <1>3. SumFunctionOnSet(x, R) = SumFunctionOnSet(y, R) /\ SumFunctionOnSet(x, R) \in Int
    <2> HIDE DEF R
    <2> QED BY <1>1, <1>2, SumAgree, SumType, Zenon
  <1>4. /\ SumFunctionOnSet(x, Accounts) = x[a] + SumFunctionOnSet(x, R)
        /\ SumFunctionOnSet(y, Accounts) = y[a] + SumFunctionOnSet(y, R)
    BY <1>1, <1>2, SumRemove, Zenon
  <1>5. SumFunctionOnSet(y, Accounts) = SumFunctionOnSet(x, Accounts) + y[a] - x[a]
    BY <1>1, <1>3, <1>4
  <1> QED
    BY <1>5, Zenon DEF x, y

\* The contracts are no accounts.
LEMMA Contracts ==
  /\ {RestrictingContract, StakingContract, RewardManagerPool} \subseteq Addresses
  /\ Accounts \subseteq Addresses
  /\ RestrictingContract \notin Accounts /\ StakingContract \notin Accounts /\ RewardManagerPool \notin Accounts
  /\ RestrictingContract # StakingContract /\ RestrictingContract # RewardManagerPool
  /\ StakingContract # RewardManagerPool
  BY RestrictingAssumption DEF Addresses, RestrictingContract, StakingContract, RewardManagerPool

\* The restricting contract pays someone else.
LEMMA RestrictingPays ==
  ASSUME NEW bal \in [Addresses -> Int], NEW to \in Addresses, to # RestrictingContract, NEW m \in Int
  PROVE  /\ transferAmount(bal, RestrictingContract, to, m) \in [Addresses -> Int]
         /\ transferAmount(bal, RestrictingContract, to, m)[RestrictingContract] = bal[RestrictingContract] - m
  BY Contracts DEF transferAmount

\* The contract is paid by someone else.
LEMMA RestrictingIsPaid ==
  ASSUME NEW bal \in [Addresses -> Int], NEW from \in Addresses, from # RestrictingContract, NEW m \in Int
  PROVE  /\ transferAmount(bal, from, RestrictingContract, m) \in [Addresses -> Int]
         /\ transferAmount(bal, from, RestrictingContract, m)[RestrictingContract] = bal[RestrictingContract] + m
  BY Contracts DEF transferAmount

\* A transfer between others leaves the contract's balance alone.
LEMMA OthersPay ==
  ASSUME NEW bal \in [Addresses -> Int], NEW from \in Addresses, from # RestrictingContract,
         NEW to \in Addresses, to # RestrictingContract, NEW m \in Int
  PROVE  /\ transferAmount(bal, from, to, m) \in [Addresses -> Int]
         /\ transferAmount(bal, from, to, m)[RestrictingContract] = bal[RestrictingContract]
  BY Contracts DEF transferAmount

\* An operation on the record of one account, which is dropped only when it is
\* empty: if the plan loses at least as much as what is owed does, and the
\* contract is paid the difference, both relations stay.
LEMMA RecordChanged ==
  ASSUME NEW f, GoodLedger(f), NEW c, Covered(f, c), Backed(f),
         NEW g, GoodLedger(g), g.accounts = f.accounts, g.amount = f.amount,
         NEW a \in DOMAIN f.info, NEW i, GoodInfo(i), NEW drop \in BOOLEAN,
         drop => i.CachePlanAmount = 0 /\ i.AdvanceAmount = 0,
         g.info = StoreOrDrop(f.info, a, i, drop),
         i.CachePlanAmount - i.NeedRelease <= f.info[a].CachePlanAmount - f.info[a].NeedRelease,
         g.bal \in [Addresses -> Int],
         g.bal[RestrictingContract] = f.bal[RestrictingContract]
             + (i.CachePlanAmount - i.AdvanceAmount)
             - (f.info[a].CachePlanAmount - f.info[a].AdvanceAmount)
  PROVE  Covered(g, c) /\ Backed(g)
  <1>1. GoodInfos(f.info) /\ GoodInfos(g.info) /\ GoodInfo(f.info[a]) /\ a \in Accounts
    BY DEF GoodLedger, GoodInfos
  <1>2. /\ DOMAIN g.info = IF drop THEN DOMAIN f.info \ {a} ELSE DOMAIN f.info
        /\ \A b \in DOMAIN g.info : g.info[b] = IF b = a THEN i ELSE f.info[b]
    BY DEF StoreOrDrop, storeRestrictingInfo, deleteRestrictingInfo
  <1>3. \A b : Pending(g, b, c) = Pending(f, b, c)
    BY DEF Pending
  <1>4. Covered(g, c)
    <2> SUFFICES ASSUME NEW b \in DOMAIN g.info
                 PROVE  g.info[b].CachePlanAmount
                          <= g.info[b].NeedRelease + SumFunctionOnSet(Pending(g, b, c), Epochs)
      BY Zenon DEF Covered
    <2> DEFINE D == SumFunctionOnSet(Pending(f, b, c), Epochs)
    <2>1. b \in DOMAIN f.info /\ f.info[b].CachePlanAmount <= f.info[b].NeedRelease + D
      BY <1>2 DEF Covered
    <2>2. D \in Int
      <3>1. \A e \in Epochs : Pending(f, b, c)[e] \in Int
        BY <1>1, <2>1 DEF Pending, GoodLedger, GoodInfos
      <3> QED
        BY <3>1, SumType, RestrictingAssumption, Zenon
    <2> HIDE DEF D
    <2>3. CASE b = a
      <3>1. g.info[b] = i
        BY <1>2, <2>3, Zenon
      <3>2. /\ i.CachePlanAmount \in Int /\ i.NeedRelease \in Int
            /\ f.info[a].CachePlanAmount \in Int /\ f.info[a].NeedRelease \in Int
        BY <1>1, GoodFields
      <3>3. i.CachePlanAmount <= i.NeedRelease + D
        BY <2>1, <2>2, <2>3, <3>2
      <3> QED
        BY <1>3, <3>1, <3>3 DEF D
    <2>4. CASE b # a
      BY <1>2, <1>3, <2>1, <2>4, Zenon DEF D
    <2> QED
      BY <2>3, <2>4, Zenon
  <1>5. Backed(g)
    <2> DEFINE x == Free(f.info)
               y == Free(g.info)
    <2>1. \A b \in Accounts : b # a => y[b] = x[b]
      BY <1>2 DEF Free
    <2>2. x[a] = f.info[a].CachePlanAmount - f.info[a].AdvanceAmount
      BY <1>1 DEF Free
    <2>3. y[a] = i.CachePlanAmount - i.AdvanceAmount
      BY <1>1, <1>2 DEF Free
    <2>4. SumFunctionOnSet(y, Accounts) = SumFunctionOnSet(x, Accounts) + y[a] - x[a]
      BY <1>1, <2>1, FreeChanged
    <2>5. x[a] \in Int /\ y[a] \in Int /\ SumFunctionOnSet(x, Accounts) \in Int
      BY <1>1, FreeType, Zenon
    <2>6. f.bal[RestrictingContract] = SumFunctionOnSet(x, Accounts)
      BY DEF Backed
    <2> HIDE DEF x, y
    <2>7. g.bal[RestrictingContract] = SumFunctionOnSet(y, Accounts)
      BY <2>2, <2>3, <2>4, <2>5, <2>6
    <2> QED
      BY <2>7, Zenon DEF Backed, y
  <1> QED
    BY <1>4, <1>5, Zenon

-----------------------------------------------------------------------------
\* The operations on one account.

\* All of the invariant, with c the epoch of the current block.
Sound(f, c) == GoodLedger(f) /\ Covered(f, c) /\ Backed(f)

\* Moving money between other balances changes nothing of it.
LEMMA BalanceSound ==
  ASSUME NEW f, NEW c, Sound(f, c), NEW b \in [Addresses -> Int],
         b[RestrictingContract] = f.bal[RestrictingContract]
  PROVE  LET g == [f EXCEPT !.bal = b]
         IN  /\ Sound(g, c) /\ g.info = f.info /\ g.bal = b
             /\ g.amount = f.amount /\ g.accounts = f.accounts /\ g.broken = f.broken
  <1> DEFINE g == [f EXCEPT !.bal = b]
  <1>1. GoodLedger(g)
    BY BalanceGood DEF Sound
  <1>2. /\ g.info = f.info /\ g.accounts = f.accounts /\ g.amount = f.amount /\ g.bal = b
        /\ g.broken = f.broken
    BY DEF Sound, GoodLedger
  <1> HIDE DEF g
  <1>3. \A a : Pending(g, a, c) = Pending(f, a, c)
    BY <1>2, Zenon DEF Pending
  <1>4. Covered(g, c)
    BY <1>2, <1>3, Zenon DEF Sound, Covered
  <1>5. Backed(g)
    BY <1>2, Zenon DEF Sound, Backed
  <1>6. Sound(g, c)
    BY <1>1, <1>4, <1>5, Zenon DEF Sound
  <1> QED
    BY <1>2, <1>6, Zenon DEF g

\* A call that fails changes no record and no balance.
LEMMA FailSound ==
  ASSUME NEW f, NEW c, Sound(f, c)
  PROVE  Sound(Fail(f), c)
  <1> DEFINE g == Fail(f)
  <1>1. GoodLedger(g)
    BY FailGood, Zenon DEF Sound
  <1>2. g.info = f.info /\ g.accounts = f.accounts /\ g.amount = f.amount /\ g.bal = f.bal
    BY DEF Sound, GoodLedger, Fail
  <1> HIDE DEF g
  <1>3. \A a : Pending(g, a, c) = Pending(f, a, c)
    BY <1>2, Zenon DEF Pending
  <1>4. Covered(g, c)
    BY <1>2, <1>3, Zenon DEF Sound, Covered
  <1>5. Backed(g)
    BY <1>2, Zenon DEF Sound, Backed
  <1> QED
    BY <1>1, <1>4, <1>5, Zenon DEF Sound, g

\* AdvanceLockedFunds pays the stake out of the account's own plan.
LEMMA AdvanceSound ==
  ASSUME NEW f, NEW c, Sound(f, c), NEW a \in Accounts, NEW m \in Nat, CanAdvance(f, a, m)
  PROVE  Sound(AdvanceLockedFunds(f, a, m), c)
  <1> DEFINE o == f.info[a]
             i == Advanced(o, m)
             g == AdvanceLockedFunds(f, a, m)
             b == transferAmount(f.bal, RestrictingContract, StakingContract, m)
  <1>1. GoodLedger(g)
    BY AdvanceGood, Zenon DEF Sound
  <1>2. a \in DOMAIN f.info /\ GoodInfo(o) /\ o.CachePlanAmount - o.AdvanceAmount >= m
    BY DEF CanAdvance, Sound, GoodLedger, GoodInfos
  <1>3. GoodInfo(i)
    BY <1>2, AdvancedGood, Zenon
  <1>4. /\ i.CachePlanAmount = o.CachePlanAmount /\ i.NeedRelease = o.NeedRelease
        /\ i.AdvanceAmount = o.AdvanceAmount + m
    BY <1>2, GoodFields DEF Advanced, RestrictingInfo
  <1>5. /\ g.accounts = f.accounts /\ g.amount = f.amount /\ g.bal = b
        /\ g.info = StoreOrDrop(f.info, a, i, FALSE)
    BY DEF AdvanceLockedFunds, Sound, GoodLedger, StoreOrDrop
  <1>6. b \in [Addresses -> Int] /\ b[RestrictingContract] = f.bal[RestrictingContract] - m
    <2>1. f.bal \in [Addresses -> Int]
      BY DEF Sound, Backed
    <2>2. StakingContract \in Addresses /\ StakingContract # RestrictingContract /\ m \in Int
      BY Contracts
    <2> QED
      BY <2>1, <2>2, RestrictingPays, Zenon
  <1> HIDE DEF g, b, i, o
  <1>7. /\ f.bal[RestrictingContract] \in Int /\ o.CachePlanAmount \in Int /\ o.AdvanceAmount \in Int
        /\ o.NeedRelease \in Int
    BY <1>2, GoodFields, Contracts DEF Sound, Backed
  <1>8. /\ i.CachePlanAmount - i.NeedRelease <= o.CachePlanAmount - o.NeedRelease
        /\ g.bal[RestrictingContract] = f.bal[RestrictingContract]
             + (i.CachePlanAmount - i.AdvanceAmount) - (o.CachePlanAmount - o.AdvanceAmount)
    BY <1>4, <1>5, <1>6, <1>7
  <1>9. Covered(g, c) /\ Backed(g)
    BY <1>1, <1>2, <1>3, <1>5, <1>6, <1>8, RecordChanged, Zenon DEF Sound, o
  <1> QED
    BY <1>1, <1>9, Zenon DEF Sound, g

\* MixAdvanceLockedFunds takes the rest from the account's balance.
LEMMA MixAdvanceSound ==
  ASSUME NEW f, NEW c, Sound(f, c), NEW a \in Accounts, NEW m \in Nat
  PROVE  Sound(MixAdvanceLockedFunds(f, a, m), c)
  <1> DEFINE r == ForRestricting(f, a, m)
             b == transferAmount(f.bal, a, StakingContract, m - r)
             g == [f EXCEPT !.bal = b]
  <1>1. r \in Nat /\ (a \in DOMAIN f.info => r <= f.info[a].CachePlanAmount - f.info[a].AdvanceAmount)
    <2>1. CASE a \in DOMAIN f.info
      <3>1. GoodInfo(f.info[a])
        BY <2>1 DEF Sound, GoodLedger, GoodInfos
      <3>2. f.info[a].CachePlanAmount - f.info[a].AdvanceAmount \in Nat
        BY <3>1, GoodFields
      <3> QED
        BY <2>1, <3>2, LesserNat DEF ForRestricting
    <2>2. CASE a \notin DOMAIN f.info
      BY <2>2 DEF ForRestricting
    <2> QED
      BY <2>1, <2>2, Zenon
  <1>2. MixAdvanceLockedFunds(f, a, m) = IF a \in DOMAIN f.info THEN AdvanceLockedFunds(g, a, r) ELSE g
    BY DEF MixAdvanceLockedFunds
  <1> HIDE DEF r
  <1>3. b \in [Addresses -> Int] /\ b[RestrictingContract] = f.bal[RestrictingContract]
    <2>1. m - r \in Int /\ f.bal \in [Addresses -> Int]
      BY <1>1 DEF Sound, Backed
    <2>2. /\ StakingContract \in Addresses /\ StakingContract # RestrictingContract
          /\ a \in Addresses /\ a # RestrictingContract
      BY Contracts
    <2> QED
      BY <2>1, <2>2, OthersPay, Zenon
  <1> HIDE DEF b
  <1>4. Sound(g, c) /\ g.info = f.info
    BY <1>3, BalanceSound, Zenon
  <1> HIDE DEF g
  <1>5. CASE a \in DOMAIN f.info
    <2>1. CanAdvance(g, a, r)
      <3>1. GoodInfo(f.info[a])
        BY <1>5 DEF Sound, GoodLedger, GoodInfos
      <3>2. f.info[a].CachePlanAmount \in Int /\ f.info[a].AdvanceAmount \in Int
        BY <3>1, GoodFields
      <3> QED
        BY <1>1, <1>4, <1>5, <3>2 DEF CanAdvance
    <2> QED
      BY <1>1, <1>2, <1>4, <1>5, <2>1, AdvanceSound, Zenon
  <1> QED
    BY <1>2, <1>4, <1>5, Zenon

\* ReturnLockFunds gives back to the plan what it does not pay on.
LEMMA ReturnSound ==
  ASSUME NEW f, NEW c, Sound(f, c), NEW a \in Accounts, NEW m \in Nat
  PROVE  Sound(ReturnLockFunds(f, a, m), c)
  <1> DEFINE o == f.info[a]
             p == OwedFirst(o, m)
             i == Returned(o, m)
             g == ReturnLockFunds(f, a, m)
             back == transferAmount(f.bal, StakingContract, RestrictingContract, m)
             b == transferAmount(back, RestrictingContract, a, p)
  <1>1. CASE m = 0 \/ a \notin DOMAIN f.info \/ f.info[a].AdvanceAmount < m
    <2>1. ReturnLockFunds(f, a, m) = f \/ ReturnLockFunds(f, a, m) = Fail(f)
      BY <1>1, Zenon DEF ReturnLockFunds
    <2> QED
      BY <2>1, FailSound, Zenon
  <1>2. CASE ~(m = 0 \/ a \notin DOMAIN f.info \/ f.info[a].AdvanceAmount < m)
    <2>1. GoodLedger(g)
      BY ReturnGood, Zenon DEF Sound
    <2>2. a \in DOMAIN f.info /\ GoodInfo(o)
      BY <1>2 DEF Sound, GoodLedger, GoodInfos
    <2>3. m <= o.AdvanceAmount
      BY <1>2, <2>2, GoodFields
    <2>4. GoodInfo(i)
      BY <2>2, <2>3, ReturnedGood, Zenon
    <2>5. /\ g.accounts = f.accounts /\ g.amount = f.amount /\ g.bal = b
          /\ g.info = StoreOrDrop(f.info, a, i, Settled(i))
      BY <1>2 DEF ReturnLockFunds, Sound, GoodLedger
    <2>6. /\ i.CachePlanAmount = o.CachePlanAmount - p /\ i.NeedRelease = o.NeedRelease - p
          /\ i.AdvanceAmount = o.AdvanceAmount - m
      BY <2>2, GoodFields DEF Returned, RestrictingInfo
    <2>7. /\ f.bal[RestrictingContract] \in Int /\ o.CachePlanAmount \in Int /\ o.AdvanceAmount \in Int
          /\ o.NeedRelease \in Nat
      BY <2>2, GoodFields, Contracts DEF Sound, Backed
    <2>8. p \in Nat
      BY <2>7, LesserNat, Zenon DEF OwedFirst
    <2> HIDE DEF g, i, p, o
    <2>9. back \in [Addresses -> Int] /\ back[RestrictingContract] = f.bal[RestrictingContract] + m
      <3>1. f.bal \in [Addresses -> Int]
        BY DEF Sound, Backed
      <3>2. StakingContract \in Addresses /\ StakingContract # RestrictingContract /\ m \in Int
        BY Contracts
      <3> QED
        BY <3>1, <3>2, RestrictingIsPaid, Zenon
    <2> HIDE DEF back
    <2>10. b \in [Addresses -> Int] /\ b[RestrictingContract] = f.bal[RestrictingContract] + m - p
      <3>1. a \in Addresses /\ a # RestrictingContract /\ p \in Int
        BY <2>8, Contracts
      <3>2. b \in [Addresses -> Int] /\ b[RestrictingContract] = back[RestrictingContract] - p
        BY <2>9, <3>1, RestrictingPays, Zenon
      <3> HIDE DEF b
      <3> QED
        BY <2>7, <2>9, <3>1, <3>2
    <2> HIDE DEF b
    <2>11. /\ i.CachePlanAmount - i.NeedRelease <= o.CachePlanAmount - o.NeedRelease
           /\ g.bal[RestrictingContract] = f.bal[RestrictingContract]
                + (i.CachePlanAmount - i.AdvanceAmount) - (o.CachePlanAmount - o.AdvanceAmount)
      BY <2>5, <2>6, <2>7, <2>8, <2>10
    <2>12. Settled(i) \in BOOLEAN /\ (Settled(i) => i.CachePlanAmount = 0 /\ i.AdvanceAmount = 0)
      BY Zenon DEF Settled
    <2>13. Covered(g, c) /\ Backed(g)
      BY <2>1, <2>2, <2>4, <2>5, <2>10, <2>11, <2>12, RecordChanged, Zenon DEF Sound, o
    <2> QED
      BY <2>1, <2>13, Zenon DEF Sound, g
  <1> QED
    BY <1>1, <1>2, Zenon

\* SlashingNotify takes from plan and advance alike.
LEMMA SlashingSound ==
  ASSUME NEW f, NEW c, Sound(f, c), NEW a \in Accounts, NEW m \in Nat
  PROVE  Sound(SlashingNotify(f, a, m), c)
  <1> DEFINE o == f.info[a]
             i == Slashed(o, m)
             g == SlashingNotify(f, a, m)
  <1>1. CASE m = 0 \/ a \notin DOMAIN f.info \/ f.info[a].AdvanceAmount < m
    <2>1. SlashingNotify(f, a, m) = f \/ SlashingNotify(f, a, m) = Fail(f)
      BY <1>1, Zenon DEF SlashingNotify
    <2> QED
      BY <2>1, FailSound, Zenon
  <1>2. CASE ~(m = 0 \/ a \notin DOMAIN f.info \/ f.info[a].AdvanceAmount < m)
    <2>1. GoodLedger(g)
      BY SlashingGood, Zenon DEF Sound
    <2>2. a \in DOMAIN f.info /\ GoodInfo(o)
      BY <1>2 DEF Sound, GoodLedger, GoodInfos
    <2>3. m <= o.AdvanceAmount
      BY <1>2, <2>2, GoodFields
    <2>4. GoodInfo(i)
      BY <2>2, <2>3, SlashedGood, Zenon
    <2>5. /\ g.accounts = f.accounts /\ g.amount = f.amount /\ g.bal = f.bal
          /\ g.info = StoreOrDrop(f.info, a, i, Settled(i))
      BY <1>2 DEF SlashingNotify, Sound, GoodLedger
    <2>6. /\ i.CachePlanAmount = o.CachePlanAmount - m /\ i.NeedRelease = o.NeedRelease
          /\ i.AdvanceAmount = o.AdvanceAmount - m
      BY <2>2, GoodFields DEF Slashed, RestrictingInfo
    <2>7. /\ f.bal[RestrictingContract] \in Int /\ o.CachePlanAmount \in Int /\ o.AdvanceAmount \in Int
          /\ o.NeedRelease \in Nat /\ f.bal \in [Addresses -> Int]
      BY <2>2, GoodFields, Contracts DEF Sound, Backed
    <2> HIDE DEF g, i, o
    <2>8. /\ i.CachePlanAmount - i.NeedRelease <= o.CachePlanAmount - o.NeedRelease
          /\ g.bal[RestrictingContract] = f.bal[RestrictingContract]
                + (i.CachePlanAmount - i.AdvanceAmount) - (o.CachePlanAmount - o.AdvanceAmount)
      BY <2>5, <2>6, <2>7
    <2>9. Settled(i) \in BOOLEAN /\ (Settled(i) => i.CachePlanAmount = 0 /\ i.AdvanceAmount = 0)
      BY Zenon DEF Settled
    <2>10. g.bal \in [Addresses -> Int]
      BY <2>5, <2>7, Zenon
    <2>11. Covered(g, c) /\ Backed(g)
      BY <2>1, <2>2, <2>4, <2>5, <2>8, <2>9, <2>10, RecordChanged, Zenon DEF Sound, o
    <2> QED
      BY <2>1, <2>11, Zenon DEF Sound, g
  <1> QED
    BY <1>1, <1>2, Zenon

-----------------------------------------------------------------------------
\* Epochs and instalments.

\* The epoch advances with the first block after the end of one, and only then.
LEMMA EpochAdvances ==
  ASSUME NEW b \in Nat
  PROVE  /\ CalculateEpoch(b) \in Nat
         /\ CalculateEpoch(b + 1) = IF IsEndOfEpoch(b) THEN CalculateEpoch(b) + 1 ELSE CalculateEpoch(b)
  <1> DEFINE B == BlocksPerEpoch
             q == b \div B
             r == b % B
  <1>1. B \in Nat \ {0}
    BY RestrictingAssumption
  <1> HIDE DEF B
  <1>2. q \in Nat /\ r \in 0..(B - 1) /\ b = B * q + r
    BY <1>1
  <1>3. \A n \in Nat, k \in Nat, s \in 0..(B - 1) : n = B * k + s => n \div B = k
    BY <1>1
  <1> HIDE DEF q
  <1>4. B * (q + 1) = B * q + B /\ B * q \in Nat
    BY <1>1, <1>2
  <1>5. CASE r = 0
    <2>1. b + B - 1 = B * q + (B - 1) /\ (b + 1) + B - 1 = B * (q + 1) + 0
      BY <1>1, <1>2, <1>4, <1>5
    <2>2. (b + B - 1) \div B = q /\ ((b + 1) + B - 1) \div B = q + 1
      BY <1>1, <1>2, <1>3, <1>4, <2>1
    <2> QED
      BY <1>2, <1>5, <2>2 DEF CalculateEpoch, IsEndOfEpoch, B
  <1>6. CASE r # 0
    <2>1. b + B - 1 = B * (q + 1) + (r - 1) /\ (b + 1) + B - 1 = B * (q + 1) + r
      BY <1>1, <1>2, <1>4, <1>6
    <2>2. (b + B - 1) \div B = q + 1 /\ ((b + 1) + B - 1) \div B = q + 1
      <3>1. /\ b + B - 1 \in Nat /\ (b + 1) + B - 1 \in Nat /\ q + 1 \in Nat
            /\ r - 1 \in 0..(B - 1) /\ r \in 0..(B - 1)
        BY <1>1, <1>2, <1>6
      <3> QED
        BY <1>3, <2>1, <3>1, Zenon
    <2> QED
      BY <1>2, <1>6, <2>2 DEF CalculateEpoch, IsEndOfEpoch, B
  <1> QED
    BY <1>5, <1>6, Zenon

\* The plan's instalments, at the epochs they fall in.
Instalments(plan, c) ==
  LET at == {e + c - 1 : e \in DOMAIN plan} IN [x \in Epochs |-> IF x \in at THEN plan[x - c + 1] ELSE 0]

\* They add up to the plan.
LEMMA InstalmentsTotal ==
  ASSUME NEW plan \in Plans, NEW c \in Int, \A e \in DOMAIN plan : e + c - 1 \in Epochs
  PROVE  /\ SumFunction(plan) = SumFunctionOnSet(Instalments(plan, c), Epochs)
         /\ \A x \in Epochs : Instalments(plan, c)[x] \in Nat
  <1> DEFINE D == DOMAIN plan
             I == Instalments(plan, c)
             at(s) == {e + c - 1 : e \in s}
             B == {s \in SUBSET D : SumFunctionOnSet(plan, s) # SumFunctionOnSet(I, at(s))}
  <1>1. IsFiniteSet(D) /\ \A e \in D : e \in Nat /\ plan[e] \in Nat
    BY RestrictingAssumption
  <1>2. IsFiniteSet(Epochs) /\ Epochs \subseteq Nat
    BY RestrictingAssumption
  <1>3. \A e \in D : e + c - 1 \in Epochs /\ I[e + c - 1] = plan[e]
    <2> SUFFICES ASSUME NEW e \in D PROVE e + c - 1 \in Epochs /\ I[e + c - 1] = plan[e]
      BY Zenon
    <2>1. (e + c - 1) - c + 1 = e
      BY <1>1
    <2> QED
      BY <2>1 DEF Instalments
  <1>4. /\ \A x \in Epochs : I[x] \in Nat
        /\ \A x \in Epochs \ at(D) : I[x] = 0
        /\ at(D) \in SUBSET Epochs
    <2>1. ASSUME NEW x \in Epochs, x \in at(D) PROVE I[x] \in Nat
      BY <1>1, <1>3, <2>1
    <2>2. ASSUME NEW x \in Epochs, x \notin at(D) PROVE I[x] = 0
      BY <2>2 DEF Instalments
    <2> QED
      BY <2>1, <2>2
  <1> HIDE DEF I
  <1>5. B = {}
    <2> SUFFICES ASSUME B # {} PROVE FALSE
      BY Zenon
    <2>1. PICK s \in B : \A x \in s : s \ {x} \notin B
      BY <1>1, SmallestSet, Zenon
    <2>2. s \in SUBSET D /\ SumFunctionOnSet(plan, s) # SumFunctionOnSet(I, at(s))
      BY <2>1, Zenon
    <2>3. IsFiniteSet(s) /\ at(s) \in SUBSET Epochs /\ IsFiniteSet(at(s))
      <3>1. IsFiniteSet(s)
        BY <1>1, <2>2, FS_Subset, Zenon
      <3>2. at(s) \in SUBSET Epochs
        BY <1>3, <2>2
      <3> HIDE DEF at
      <3> QED
        BY <1>2, <3>1, <3>2, FS_Subset, Zenon
    <2>4. CASE s = {}
      <3>1. at(s) = {}
        BY <2>4
      <3> HIDE DEF at
      <3>2. SumFunctionOnSet(plan, s) = 0 /\ SumFunctionOnSet(I, at(s)) = 0
        BY <2>3, <2>4, <3>1, SumStep, Zenon
      <3> QED
        BY <2>2, <3>2, Zenon
    <2>5. CASE s # {}
      <3>1. PICK e \in s : TRUE
        BY <2>5, Zenon
      <3> DEFINE t == s \ {e}
                 x == e + c - 1
      <3>2. SumFunctionOnSet(plan, t) = SumFunctionOnSet(I, at(t))
        BY <2>1, <2>2, <3>1
      <3>3. x \in at(s) /\ at(t) = at(s) \ {x}
        <4>1. \A d \in s : d \in Int
          BY <1>1, <2>2
        <4>2. \A d \in s : d # e => d + c - 1 # x
          <5> SUFFICES ASSUME NEW d \in s, d # e PROVE d + c - 1 # e + c - 1
            BY Zenon
          <5>1. d \in Int /\ e \in Int
            BY <4>1, Zenon
          <5> QED
            BY <5>1
        <4>3. \A y \in at(t) : y \in at(s) /\ y # x
          BY <4>2
        <4>4. \A y \in at(s) : y # x => y \in at(t)
          BY <4>1
        <4> QED
          BY <3>1, <4>3, <4>4
      <3>4. I[x] = plan[e]
        BY <1>3, <2>2
      <3>5. /\ \A d \in s : plan[d] \in Int
            /\ \A y \in at(s) : I[y] \in Int
        BY <1>1, <1>4, <2>2, <2>3
      <3> HIDE DEF at, x
      <3>6. SumFunctionOnSet(plan, s) = plan[e] + SumFunctionOnSet(plan, t)
        BY <2>3, <3>5, SumRemove, Zenon
      <3>7. SumFunctionOnSet(I, at(s)) = I[x] + SumFunctionOnSet(I, at(s) \ {x})
        BY <2>3, <3>3, <3>5, SumRemove, Zenon
      <3> QED
        BY <2>2, <3>2, <3>3, <3>4, <3>6, <3>7, Zenon
    <2> QED
      BY <2>4, <2>5, Zenon
  <1>6. SumFunctionOnSet(plan, D) = SumFunctionOnSet(I, at(D))
    <2>1. D \in SUBSET D
      OBVIOUS
    <2> QED
      BY <1>5, <2>1, Zenon
  <1> HIDE DEF at
  <1>7. SumFunctionOnSet(I, at(D)) = SumFunctionOnSet(I, Epochs)
    <2>1. \A x \in at(D) : I[x] \in Int
      BY <1>4
    <2> QED
      BY <1>2, <1>4, <2>1, SumWiden, Zenon
  <1> QED
    BY <1>4, <1>6, <1>7, Zenon DEF I, SumFunction

-----------------------------------------------------------------------------
\* A new plan.

\* The amounts pending for an account are natural numbers.
LEMMA PendingType ==
  ASSUME NEW f, GoodLedger(f), NEW a \in Accounts, NEW c
  PROVE  /\ \A e \in Epochs : Pending(f, a, c)[e] \in Nat
         /\ SumFunctionOnSet(Pending(f, a, c), Epochs) \in Nat
  <1>1. \A e \in Epochs : Pending(f, a, c)[e] \in Nat
    BY DEF Pending, GoodLedger
  <1> QED
    BY <1>1, SumType, RestrictingAssumption, Zenon

\* A plan is listed in full, and paid for in full.
LEMMA AddSound ==
  ASSUME NEW f, NEW c \in Nat, Sound(f, c), NEW from \in Accounts, NEW a \in Accounts, NEW plan \in Plans,
         CanAdd(f, from, plan, c)
  PROVE  Sound(AddRestrictingRecord(f, from, a, plan, c), c)
  <1> DEFINE g == AddRestrictingRecord(f, from, a, plan, c)
             total == SumFunction(plan)
             known == a \in DOMAIN f.info
             at == {e + c - 1 : e \in DOMAIN plan}
             I == Instalments(plan, c)
             fresh == {e \in at : ~known \/ f.amount[e][a] = 0}
             o == f.info[a]
             p == IF known THEN OwedFirst(o, total) ELSE 0
             taken == transferAmount(f.bal, from, RestrictingContract, total)
             b == transferAmount(taken, RestrictingContract, a, p)
             i == IF known THEN MorePlans(o, total, at) ELSE NewInfo(total, at)
  <1>0. GoodLedger(f) /\ Covered(f, c) /\ Backed(f)
    BY Zenon DEF Sound
  <1>1. GoodLedger(g)
    <2>1. c \in Int
      OBVIOUS
    <2> QED
      BY <1>0, <2>1, AddGood, Zenon
  <1>2. \A e \in DOMAIN plan : e + c - 1 \in Epochs
    BY Zenon DEF CanAdd
  <1>3. total = SumFunctionOnSet(I, Epochs) /\ \A x \in Epochs : I[x] \in Nat
    BY <1>2, InstalmentsTotal
  <1>4. \A x \in at : x \in Epochs /\ x >= c /\ I[x] = plan[x - c + 1]
    <2> SUFFICES ASSUME NEW e \in DOMAIN plan
                 PROVE  LET x == e + c - 1 IN x \in Epochs /\ x >= c /\ I[x] = plan[x - c + 1]
      BY Zenon
    <2>1. e \in Nat \ {0}
      BY RestrictingAssumption
    <2>2. e + c - 1 \in Epochs /\ e + c - 1 >= c
      BY <1>2, <2>1
    <2> QED
      BY <2>2 DEF Instalments
  <1>5. \A x \in Epochs \ at : I[x] = 0
    BY DEF Instalments
  <1>6. /\ g.info = storeRestrictingInfo(f.info, a, i)
        /\ g.bal = b
    BY <1>0 DEF AddRestrictingRecord, GoodLedger
  <1>7. g.accounts = [e \in Epochs |-> IF e \in fresh THEN f.accounts[e] \cup {a} ELSE f.accounts[e]]
    BY <1>0 DEF AddRestrictingRecord, GoodLedger
  <1>8. g.amount = [e \in Epochs |->
                      IF e \in at
                      THEN [f.amount[e] EXCEPT ![a] = IF e \in fresh THEN plan[e - c + 1] ELSE @ + plan[e - c + 1]]
                      ELSE f.amount[e]]
    BY <1>0 DEF AddRestrictingRecord, GoodLedger
  <1>9. total \in Nat
    <2>1. IsFiniteSet(DOMAIN plan) /\ \A e \in DOMAIN plan : plan[e] \in Nat
      BY RestrictingAssumption
    <2> QED
      BY <2>1, SumType, Zenon DEF SumFunction
  <1>10. \A e \in fresh : e \in at /\ (~known \/ f.amount[e][a] = 0)
    BY Zenon
  <1>11. \A e \in at : e \notin fresh => known /\ f.amount[e][a] # 0
    BY Zenon
  <1> HIDE DEF g, I, at, fresh
  <1>12. f.amount \in [Epochs -> [Accounts -> Nat]] /\ f.accounts \in [Epochs -> SUBSET Accounts]
    BY <1>0 DEF GoodLedger, Covered
  <1>13. \A e \in Epochs :
           /\ e \in at => g.amount[e][a] = IF e \in fresh THEN I[e] ELSE f.amount[e][a] + I[e]
           /\ e \notin at => g.amount[e][a] = f.amount[e][a]
           /\ \A y \in Accounts : y # a => g.amount[e][y] = f.amount[e][y]
    BY <1>4, <1>8, <1>12
  <1>14. g.accounts \in [Epochs -> SUBSET Accounts]
    BY <1>7, <1>12
  <1>15. \A e \in Epochs, y \in Accounts : e >= c /\ g.amount[e][y] # 0 => y \in g.accounts[e]
    <2> SUFFICES ASSUME NEW e \in Epochs, NEW y \in Accounts, e >= c, g.amount[e][y] # 0
                 PROVE  y \in g.accounts[e]
      BY Zenon
    <2>1. f.amount[e][y] # 0 => y \in f.accounts[e]
      BY <1>0, Zenon DEF Covered
    <2>2. f.accounts[e] \subseteq g.accounts[e] /\ (e \in fresh => a \in g.accounts[e])
      BY <1>7
    <2>3. CASE y # a
      BY <1>13, <2>1, <2>2, <2>3
    <2>4. CASE y = a
      BY <1>11, <1>13, <2>1, <2>2, <2>4
    <2> QED
      BY <2>3, <2>4, Zenon
  <1>16. /\ GoodInfos(f.info) /\ GoodInfos(g.info)
         /\ DOMAIN g.info = DOMAIN f.info \cup {a}
         /\ g.info[a] = i /\ \A y \in DOMAIN g.info : y # a => g.info[y] = f.info[y]
    BY <1>0, <1>1, <1>6 DEF GoodLedger, storeRestrictingInfo
  <1>17. /\ known => GoodInfo(o) /\ o.NeedRelease \in Nat /\ o.CachePlanAmount \in Nat /\ o.AdvanceAmount \in Nat
         /\ p \in Nat
         /\ i.CachePlanAmount = (IF known THEN o.CachePlanAmount ELSE 0) + total - p
         /\ i.NeedRelease = (IF known THEN o.NeedRelease ELSE 0) - p
         /\ i.AdvanceAmount = IF known THEN o.AdvanceAmount ELSE 0
    <2>1. CASE known
      <3>1. GoodInfo(o)
        BY <1>16, <2>1, Zenon DEF GoodInfos
      <3>2. o \in RestrictingInfo /\ o.NeedRelease \in Nat /\ o.CachePlanAmount \in Nat /\ o.AdvanceAmount \in Nat
        BY <3>1, GoodFields
      <3>3. p \in Nat
        BY <1>9, <2>1, <3>2, LesserNat DEF OwedFirst
      <3>4. p = OwedFirst(o, total)
        BY <2>1, Zenon
      <3> HIDE DEF p, total
      <3>5. MorePlans(o, total, at) = [o EXCEPT !.NeedRelease = @ - p, !.CachePlanAmount = @ + (total - p),
                                                 !.ReleaseList = @ \cup at]
        BY <3>4, Zenon DEF MorePlans
      <3> HIDE DEF o
      <3> QED
        BY <1>9, <2>1, <3>1, <3>2, <3>3, <3>5 DEF RestrictingInfo
    <2>2. CASE ~known
      BY <1>9, <2>2 DEF NewInfo
    <2> QED
      BY <2>1, <2>2, Zenon
  <1> HIDE DEF p, i, total, o
  <1>18. ASSUME NEW y \in DOMAIN g.info
         PROVE  g.info[y].CachePlanAmount <= g.info[y].NeedRelease + SumFunctionOnSet(Pending(g, y, c), Epochs)
    <2>1. y \in Accounts
      BY <1>16 DEF GoodInfos
    <2>2. CASE y # a
      <3>1. Pending(g, y, c) = Pending(f, y, c)
        BY <1>13, <2>1, <2>2 DEF Pending
      <3> QED
        BY <1>0, <1>16, <2>2, <3>1, Zenon DEF Covered
    <2>3. CASE y = a
      <3> DEFINE P == Pending(f, a, c)
                 Q == Pending(g, a, c)
                 base == [x \in Epochs |-> IF known THEN P[x] ELSE 0]
                 sum == [x \in Epochs |-> base[x] + I[x]]
      <3>1. \A x \in Epochs : P[x] \in Nat /\ Q[x] \in Nat
        BY <1>0, <1>1, PendingType, Zenon
      <3>2. \A x \in Epochs : base[x] \in Int /\ I[x] \in Int /\ sum[x] = base[x] + I[x]
        BY <1>3, <3>1
      <3>3. \A x \in Epochs : sum[x] \in Int /\ Q[x] \in Int /\ sum[x] <= Q[x]
        <4> SUFFICES ASSUME NEW x \in Epochs PROVE sum[x] \in Int /\ Q[x] \in Int /\ sum[x] <= Q[x]
          BY Zenon
        <4>1. /\ P[x] = IF x >= c THEN f.amount[x][a] ELSE 0
              /\ Q[x] = IF x >= c THEN g.amount[x][a] ELSE 0
          BY DEF Pending
        <4>2. f.amount[x][a] \in Nat
          BY <1>12
        <4>3. CASE x \in at
          BY <1>3, <1>4, <1>10, <1>13, <3>1, <4>1, <4>2, <4>3
        <4>4. CASE x \notin at
          BY <1>5, <1>13, <3>1, <4>1, <4>2, <4>4
        <4> QED
          BY <4>3, <4>4, Zenon
      <3>4. IsFiniteSet(Epochs)
        BY RestrictingAssumption, Zenon
      <3>5. SumFunctionOnSet(base, Epochs) = IF known THEN SumFunctionOnSet(P, Epochs) ELSE 0
        <4>1. CASE known
          <5>1. \A x \in Epochs : base[x] = P[x]
            BY <4>1, Zenon
          <5> HIDE DEF base, P
          <5> QED
            BY <3>4, <4>1, <5>1, SumAgree, Zenon
        <4>2. CASE ~known
          <5>1. \A x \in Epochs \ {} : base[x] = 0
            BY <4>2, Zenon
          <5>2. {} \in SUBSET Epochs /\ \A x \in {} : base[x] \in Int
            OBVIOUS
          <5> HIDE DEF base
          <5>3. SumFunctionOnSet(base, {}) = SumFunctionOnSet(base, Epochs)
            BY <3>4, <5>1, <5>2, SumWiden, Zenon
          <5>4. SumFunctionOnSet(base, {}) = 0
            BY FS_EmptySet, SumStep, Zenon
          <5> QED
            BY <4>2, <5>3, <5>4, Zenon
        <4> QED
          BY <4>1, <4>2, Zenon
      <3>6. SumFunctionOnSet(P, Epochs) \in Nat /\ SumFunctionOnSet(Q, Epochs) \in Nat
        BY <1>0, <1>1, PendingType, Zenon
      <3> HIDE DEF P, Q, base, sum
      <3>7. SumFunctionOnSet(sum, Epochs) = SumFunctionOnSet(base, Epochs) + total
        BY <1>3, <3>2, <3>4, SumPlus, Zenon
      <3>8. SumFunctionOnSet(sum, Epochs) <= SumFunctionOnSet(Q, Epochs)
        BY <3>3, <3>4, SumLess, Zenon
      <3>9. known => o.CachePlanAmount <= o.NeedRelease + SumFunctionOnSet(P, Epochs)
        BY <1>0, Zenon DEF Covered, P, o
      <3>10. i.CachePlanAmount <= i.NeedRelease + SumFunctionOnSet(Q, Epochs)
        BY <1>9, <1>17, <3>5, <3>6, <3>7, <3>8, <3>9
      <3> QED
        BY <1>16, <2>3, <3>10, Zenon DEF Q
    <2> QED
      BY <2>2, <2>3, Zenon
  <1>19. Covered(g, c)
    BY <1>14, <1>15, <1>18, Zenon DEF Covered
  <1>20. b \in [Addresses -> Int] /\ b[RestrictingContract] = f.bal[RestrictingContract] + total - p
    <2>1. f.bal \in [Addresses -> Int] /\ f.bal[RestrictingContract] \in Int
      BY <1>0, Contracts DEF Backed
    <2>2. /\ from \in Addresses /\ from # RestrictingContract /\ a \in Addresses /\ a # RestrictingContract
          /\ total \in Int /\ p \in Int
      BY <1>9, <1>17, Contracts
    <2>3. taken \in [Addresses -> Int] /\ taken[RestrictingContract] = f.bal[RestrictingContract] + total
      BY <2>1, <2>2, RestrictingIsPaid, Zenon
    <2> HIDE DEF taken
    <2>4. b \in [Addresses -> Int] /\ b[RestrictingContract] = taken[RestrictingContract] - p
      BY <2>2, <2>3, RestrictingPays, Zenon
    <2> HIDE DEF b
    <2> QED
      BY <2>1, <2>2, <2>3, <2>4
  <1>21. Backed(g)
    <2> DEFINE x == Free(f.info)
               y == Free(g.info)
    <2>1. \A d \in Accounts : d # a => y[d] = x[d]
      BY <1>16 DEF Free
    <2>2. x[a] = IF known THEN o.CachePlanAmount - o.AdvanceAmount ELSE 0
      BY DEF Free, o
    <2>3. y[a] = i.CachePlanAmount - i.AdvanceAmount
      BY <1>16 DEF Free
    <2>4. SumFunctionOnSet(y, Accounts) = SumFunctionOnSet(x, Accounts) + y[a] - x[a]
      BY <1>16, <2>1, FreeChanged
    <2>5. x[a] \in Int /\ y[a] \in Int /\ SumFunctionOnSet(x, Accounts) \in Int
      BY <1>16, FreeType, Zenon
    <2>6. f.bal[RestrictingContract] = SumFunctionOnSet(x, Accounts)
      BY <1>0 DEF Backed
    <2> HIDE DEF x, y, b
    <2>7. b[RestrictingContract] = SumFunctionOnSet(y, Accounts)
      BY <1>9, <1>17, <1>20, <2>2, <2>3, <2>4, <2>5, <2>6
    <2> QED
      BY <1>6, <1>20, <2>7, Zenon DEF Backed, y
  <1> QED
    BY <1>1, <1>19, <1>21, Zenon DEF Sound, g

-----------------------------------------------------------------------------
\* The end of an epoch.

\* The end of epoch c pays what it can and owes the rest.
LEMMA ReleaseSound ==
  ASSUME NEW f, NEW c \in Epochs, Sound(f, c)
  PROVE  Sound(releaseRestricting(f, c), c + 1)
  <1> DEFINE g == releaseRestricting(f, c)
             due == f.accounts[c] \cap DOMAIN f.info
             paid == [a \in due |-> canRelease(f.info[a], f.amount[c][a])]
             new == [a \in due |-> Released(f.info[a], f.amount[c][a], c)]
             gone == {a \in due : AllReleased(new[a])}
  <1>0. GoodLedger(f) /\ Covered(f, c) /\ Backed(f) /\ c \in Nat
    BY RestrictingAssumption DEF Sound
  <1>1. GoodLedger(g)
    BY <1>0, ReleaseGood, Zenon
  <1>2. /\ g.bal = [x \in DOMAIN f.bal |->
                      IF x = RestrictingContract THEN f.bal[x] - SumFunction(paid)
                      ELSE IF x \in due THEN f.bal[x] + paid[x] ELSE f.bal[x]]
        /\ g.info = [a \in DOMAIN f.info \ gone |-> IF a \in due THEN new[a] ELSE f.info[a]]
    BY <1>0 DEF releaseRestricting, GoodLedger
  <1>3. /\ g.accounts = [f.accounts EXCEPT ![c] = {}]
        /\ g.amount = [f.amount EXCEPT ![c] = [a \in Accounts |-> IF a \in due THEN 0 ELSE f.amount[c][a]]]
    BY <1>0 DEF releaseRestricting, GoodLedger
  <1>4. f.amount \in [Epochs -> [Accounts -> Nat]] /\ f.accounts \in [Epochs -> SUBSET Accounts]
    BY <1>0 DEF GoodLedger, Covered
  <1>5. GoodInfos(f.info) /\ GoodInfos(g.info)
    BY <1>0, <1>1 DEF GoodLedger
  <1>6. due \subseteq DOMAIN f.info /\ due \subseteq Accounts
    BY <1>5 DEF GoodInfos
  <1>7. ASSUME NEW a \in due
        PROVE  LET o == f.info[a]
                   n == new[a]
                   m == f.amount[c][a]
               IN  /\ o.CachePlanAmount \in Nat /\ o.AdvanceAmount \in Nat /\ o.NeedRelease \in Nat
                   /\ n.CachePlanAmount \in Nat /\ n.NeedRelease \in Nat
                   /\ m \in Nat /\ paid[a] \in Nat
                   /\ n.CachePlanAmount = o.CachePlanAmount - paid[a]
                   /\ n.NeedRelease = o.NeedRelease + m - paid[a]
                   /\ n.AdvanceAmount = o.AdvanceAmount
                   /\ n.AdvanceAmount <= n.CachePlanAmount
                   /\ a \in gone => n.CachePlanAmount = 0
    <2> DEFINE o == f.info[a]
               n == new[a]
               m == f.amount[c][a]
               p == paid[a]
    <2>1. GoodInfo(o)
      BY <1>5, <1>6 DEF GoodInfos
    <2>2. m \in Nat
      BY <1>4, <1>6
    <2>3. n = Released(o, m, c) /\ p = canRelease(o, m)
      BY Zenon
    <2>4. a \in gone => n.CachePlanAmount = 0
      BY Zenon DEF AllReleased
    <2> HIDE DEF o, n, m, p, new, paid
    <2>5. /\ o \in RestrictingInfo
          /\ o.CachePlanAmount \in Nat /\ o.AdvanceAmount \in Nat /\ o.NeedRelease \in Nat
          /\ o.AdvanceAmount <= o.CachePlanAmount
      BY <2>1, GoodFields
    <2>6. p \in Nat /\ p <= m /\ p <= o.CachePlanAmount - o.AdvanceAmount
      <3>1. o.CachePlanAmount - o.AdvanceAmount \in Nat
        BY <2>5
      <3>2. CASE o.NeedRelease > 0
        BY <2>2, <2>3, <3>1, <3>2 DEF canRelease
      <3>3. CASE ~(o.NeedRelease > 0)
        BY <2>2, <2>3, <3>1, <3>3, LesserNat DEF canRelease
      <3> QED
        BY <3>2, <3>3, Zenon
    <2>7. /\ n.NeedRelease = o.NeedRelease + (m - p) /\ n.CachePlanAmount = o.CachePlanAmount - p
          /\ n.AdvanceAmount = o.AdvanceAmount
      BY <2>3, <2>5 DEF Released, RestrictingInfo
    <2>8. /\ n.CachePlanAmount \in Nat /\ n.NeedRelease \in Nat
          /\ n.NeedRelease = o.NeedRelease + m - p
          /\ n.AdvanceAmount <= n.CachePlanAmount
      BY <2>2, <2>5, <2>6, <2>7
    <2> QED
      BY <2>2, <2>4, <2>5, <2>6, <2>7, <2>8, Zenon DEF o, n, m, p
  <1>8. /\ DOMAIN g.info = DOMAIN f.info \ gone
        /\ \A a \in DOMAIN g.info : g.info[a] = IF a \in due THEN new[a] ELSE f.info[a]
    BY <1>2
  <1>9. gone \subseteq due
    BY Zenon
  <1>10. paid = [a \in due |-> paid[a]]
    BY Zenon
  <1>11. DOMAIN paid = due
    BY Zenon
  <1>12. \A a \in Accounts : a \in DOMAIN f.info /\ a \notin due => f.amount[c][a] = 0
    <2>1. c >= c
      BY <1>0
    <2> QED
      BY <1>0, <2>1, Zenon DEF Covered
  <1> HIDE DEF g, new, gone, paid
  <1>13. g.accounts \in [Epochs -> SUBSET Accounts]
    BY <1>3, <1>4
  <1>14. \A e \in Epochs : e >= c + 1 =>
            /\ g.accounts[e] = f.accounts[e]
            /\ \A a \in Accounts : g.amount[e][a] = f.amount[e][a]
    <2> SUFFICES ASSUME NEW e \in Epochs, e >= c + 1
                 PROVE  g.accounts[e] = f.accounts[e] /\ g.amount[e] = f.amount[e]
      BY Zenon
    <2>1. e # c
      BY <1>0
    <2> QED
      BY <1>3, <1>4, <2>1
  <1>15. \A e \in Epochs, a \in Accounts : e >= c + 1 /\ g.amount[e][a] # 0 => a \in g.accounts[e]
    <2>1. \A e \in Epochs : e >= c + 1 => e >= c
      BY <1>0, RestrictingAssumption
    <2> QED
      BY <1>0, <1>14, <2>1, Zenon DEF Covered
  <1>16. ASSUME NEW a \in DOMAIN f.info
         PROVE  SumFunctionOnSet(Pending(g, a, c + 1), Epochs)
                  = SumFunctionOnSet(Pending(f, a, c), Epochs) - f.amount[c][a]
    <2> DEFINE P == Pending(f, a, c)
               Q == Pending(g, a, c + 1)
               R == Epochs \ {c}
    <2>1. a \in Accounts
      BY <1>5 DEF GoodInfos
    <2>2. \A e \in Epochs : P[e] \in Nat /\ Q[e] \in Nat
      BY <1>0, <1>1, <2>1, PendingType, Zenon
    <2>3. P[c] = f.amount[c][a] /\ Q[c] = 0
      BY <1>0 DEF Pending
    <2>4. \A e \in R : P[e] = Q[e]
      <3> SUFFICES ASSUME NEW e \in Epochs, e # c PROVE P[e] = Q[e]
        BY Zenon
      <3>1. e \in Nat
        BY RestrictingAssumption
      <3>2. e >= c <=> e >= c + 1
        BY <1>0, <3>1
      <3> QED
        BY <1>14, <2>1, <3>2 DEF Pending
    <2>5. IsFiniteSet(Epochs) /\ IsFiniteSet(R)
      BY RestrictingAssumption, FS_Subset
    <2> HIDE DEF P, Q
    <2>6. /\ SumFunctionOnSet(P, Epochs) = P[c] + SumFunctionOnSet(P, R)
          /\ SumFunctionOnSet(Q, Epochs) = Q[c] + SumFunctionOnSet(Q, R)
      <3>1. \A e \in Epochs : P[e] \in Int /\ Q[e] \in Int
        BY <2>2
      <3> QED
        BY <2>5, <3>1, SumRemove, Zenon
    <2>7. SumFunctionOnSet(P, R) = SumFunctionOnSet(Q, R)
      BY <2>4, <2>5, SumAgree, Zenon
    <2>8. SumFunctionOnSet(P, R) \in Nat
      <3>1. \A e \in R : P[e] \in Nat
        BY <2>2, Zenon
      <3> QED
        BY <2>5, <3>1, SumType, Zenon
    <2>9. P[c] \in Nat
      BY <2>2, Zenon
    <2>10. SumFunctionOnSet(Q, Epochs) = SumFunctionOnSet(P, Epochs) - P[c]
      BY <2>3, <2>6, <2>7, <2>8, <2>9
    <2> QED
      BY <2>3, <2>10, Zenon DEF P, Q
  <1>17. ASSUME NEW a \in DOMAIN g.info
         PROVE  g.info[a].CachePlanAmount
                  <= g.info[a].NeedRelease + SumFunctionOnSet(Pending(g, a, c + 1), Epochs)
    <2> DEFINE D == SumFunctionOnSet(Pending(f, a, c), Epochs)
               E == SumFunctionOnSet(Pending(g, a, c + 1), Epochs)
    <2>1. a \in DOMAIN f.info /\ a \in Accounts
      BY <1>5, <1>8 DEF GoodInfos
    <2>2. f.info[a].CachePlanAmount <= f.info[a].NeedRelease + D
      BY <1>0, <2>1, Zenon DEF Covered
    <2>3. E = D - f.amount[c][a]
      BY <1>16, <2>1, Zenon
    <2>4. D \in Nat
      BY <1>0, <2>1, PendingType, Zenon
    <2> HIDE DEF D, E
    <2>5. CASE a \in due
      <3>1. g.info[a] = new[a]
        BY <1>8, <2>5, Zenon
      <3> DEFINE o == f.info[a]
                 n == new[a]
                 m == f.amount[c][a]
      <3>2. /\ o.CachePlanAmount \in Nat /\ o.NeedRelease \in Nat /\ m \in Nat /\ paid[a] \in Nat
            /\ n.CachePlanAmount = o.CachePlanAmount - paid[a]
            /\ n.NeedRelease = o.NeedRelease + m - paid[a]
        BY <1>7, <2>5, Zenon
      <3>3. o.CachePlanAmount <= o.NeedRelease + D /\ E = D - m
        BY <2>2, <2>3, Zenon
      <3> HIDE DEF o, n, m
      <3>4. n.CachePlanAmount <= n.NeedRelease + E
        BY <2>4, <3>2, <3>3
      <3> QED
        BY <3>1, <3>4, Zenon DEF n, E
    <2>6. CASE a \notin due
      <3>1. g.info[a] = f.info[a]
        BY <1>8, <2>6, Zenon
      <3>2. E = D
        BY <1>12, <2>1, <2>3, <2>4, <2>6
      <3> QED
        BY <2>2, <3>1, <3>2, Zenon DEF E
    <2> QED
      BY <2>5, <2>6, Zenon
  <1>18. Covered(g, c + 1)
    BY <1>13, <1>15, <1>17, Zenon DEF Covered
  <1>19. IsFiniteSet(Accounts) /\ IsFiniteSet(due)
    BY <1>6, RestrictingAssumption, FS_Subset
  <1>20. \A a \in due : paid[a] \in Nat
    BY <1>7, Zenon
  <1>21. g.bal \in [Addresses -> Int] /\ g.bal[RestrictingContract] = f.bal[RestrictingContract] - SumFunctionOnSet(paid, due)
    <2>1. f.bal \in [Addresses -> Int]
      BY <1>0 DEF Backed
    <2>2. SumFunction(paid) \in Nat /\ SumFunction(paid) = SumFunctionOnSet(paid, due)
      BY <1>11, <1>19, <1>20, SumType, Zenon DEF SumFunction
    <2>3. RestrictingContract \in Addresses
      BY Contracts, Zenon
    <2> HIDE DEF due
    <2>4. g.bal \in [Addresses -> Int]
      BY <1>2, <1>20, <2>1, <2>2
    <2> QED
      BY <1>2, <2>1, <2>2, <2>3, <2>4
  <1>22. Backed(g)
    <2> DEFINE x == Free(f.info)
               y == Free(g.info)
               z == [a \in Accounts |-> IF a \in due THEN paid[a] ELSE 0]
    <2>1. \A a \in Accounts : x[a] \in Int /\ y[a] \in Int
      BY <1>5, FreeType, Zenon
    <2>2. \A a \in Accounts : z[a] \in Int
      BY <1>20
    <2>3. \A a \in Accounts : x[a] = y[a] + z[a]
      <3> SUFFICES ASSUME NEW a \in Accounts PROVE x[a] = y[a] + z[a]
        BY Zenon
      <3>1. CASE a \in due
        <4> DEFINE o == f.info[a]
                   n == new[a]
        <4>1. /\ o.CachePlanAmount \in Nat /\ o.AdvanceAmount \in Nat /\ paid[a] \in Nat
              /\ n.CachePlanAmount \in Nat
              /\ n.CachePlanAmount = o.CachePlanAmount - paid[a]
              /\ n.AdvanceAmount = o.AdvanceAmount
              /\ n.AdvanceAmount <= n.CachePlanAmount
              /\ a \in gone => n.CachePlanAmount = 0
          BY <1>7, <3>1, Zenon
        <4>2. x[a] = o.CachePlanAmount - o.AdvanceAmount
          BY <1>6, <3>1 DEF Free
        <4>3. y[a] = IF a \in gone THEN 0 ELSE n.CachePlanAmount - n.AdvanceAmount
          BY <1>6, <1>8, <3>1 DEF Free
        <4>4. z[a] = paid[a]
          BY <3>1, Zenon
        <4> HIDE DEF x, y, z, o, n
        <4> QED
          BY <4>1, <4>2, <4>3, <4>4
      <3>2. CASE a \notin due
        <4>1. x[a] = y[a]
          BY <1>8, <1>9, <3>2 DEF Free
        <4>2. z[a] = 0
          BY <3>2, Zenon
        <4> HIDE DEF x, y, z
        <4> QED
          BY <2>1, <4>1, <4>2
      <3> QED
        BY <3>1, <3>2, Zenon
    <2>4. SumFunctionOnSet(z, Accounts) = SumFunctionOnSet(paid, due)
      <3>1. \A a \in due : z[a] = paid[a] /\ z[a] \in Int
        BY <1>6, <1>20
      <3>2. \A a \in Accounts \ due : z[a] = 0
        BY Zenon
      <3>3. due \in SUBSET Accounts
        BY <1>6, Zenon
      <3> HIDE DEF z, due
      <3>4. SumFunctionOnSet(z, due) = SumFunctionOnSet(z, Accounts)
        BY <1>19, <3>1, <3>2, <3>3, SumWiden, Zenon
      <3>5. SumFunctionOnSet(z, due) = SumFunctionOnSet(paid, due)
        BY <1>19, <3>1, SumAgree, Zenon
      <3> QED
        BY <3>4, <3>5, Zenon
    <2>5. f.bal[RestrictingContract] = SumFunctionOnSet(x, Accounts)
      BY <1>0 DEF Backed
    <2> HIDE DEF x, y, z
    <2>6. SumFunctionOnSet(x, Accounts) = SumFunctionOnSet(y, Accounts) + SumFunctionOnSet(z, Accounts)
      BY <1>19, <2>1, <2>2, <2>3, SumPlus, Zenon
    <2>7. SumFunctionOnSet(y, Accounts) \in Int /\ SumFunctionOnSet(z, Accounts) \in Int
      BY <1>19, <2>1, <2>2, SumType, Zenon
    <2>8. g.bal[RestrictingContract] = SumFunctionOnSet(y, Accounts)
      BY <1>21, <2>4, <2>5, <2>6, <2>7
    <2> QED
      BY <1>21, <2>8, Zenon DEF Backed, y
  <1> QED
    BY <1>1, <1>18, <1>22, Zenon DEF Sound, g

-----------------------------------------------------------------------------
\* The ledger, in every behaviour.

\* The inductive invariant.
SoundInv == block \in Nat /\ Sound(funds, CalculateEpoch(block))

\* The ledger starts empty, with nothing in the contract.
LEMMA InitSound == RestrictingInit => SoundInv
  <1> SUFFICES ASSUME RestrictingInit PROVE SoundInv
    OBVIOUS
  <1>1. block \in Nat /\ GoodLedger(funds)
    BY InitGood DEF LedgerInv
  <1>2. /\ funds.bal = [x \in Addresses |-> IF x \in Accounts THEN InitialBalance[x] ELSE 0]
        /\ DOMAIN funds.info = {} /\ funds.accounts = [e \in Epochs |-> {}]
        /\ funds.amount = [e \in Epochs |-> [a \in Accounts |-> 0]]
    BY DEF RestrictingInit
  <1>3. \A c : Covered(funds, c)
    BY <1>2 DEF Covered
  <1>4. funds.bal \in [Addresses -> Int] /\ funds.bal[RestrictingContract] = 0
    BY <1>2, Contracts, RestrictingAssumption
  <1> DEFINE x == Free(funds.info)
  <1>5. \A a \in Accounts \ {} : x[a] = 0
    BY <1>2 DEF Free
  <1> HIDE DEF x
  <1>6. SumFunctionOnSet(x, Accounts) = 0
    <2>1. IsFiniteSet(Accounts) /\ {} \in SUBSET Accounts /\ \A a \in {} : x[a] \in Int
      BY RestrictingAssumption
    <2>2. SumFunctionOnSet(x, {}) = SumFunctionOnSet(x, Accounts)
      BY <1>5, <2>1, SumWiden, Zenon
    <2>3. SumFunctionOnSet(x, {}) = 0
      BY FS_EmptySet, SumStep, Zenon
    <2> QED
      BY <2>2, <2>3, Zenon
  <1>7. Backed(funds)
    BY <1>4, <1>6, Zenon DEF Backed, x
  <1> QED
    BY <1>1, <1>3, <1>7, Zenon DEF SoundInv, Sound

\* Every call and every end of a block keeps the ledger sound.
LEMMA NextSound == SoundInv /\ [RestrictingNext]_<<funds, block>> => SoundInv'
  <1> SUFFICES ASSUME SoundInv, [RestrictingNext]_<<funds, block>>
               PROVE  SoundInv'
    OBVIOUS
  <1> DEFINE c == CalculateEpoch(block)
  <1>0. /\ block \in Nat /\ c \in Nat /\ Sound(funds, c)
        /\ CalculateEpoch(block + 1) = IF IsEndOfEpoch(block) THEN c + 1 ELSE c
    BY EpochAdvances DEF SoundInv
  <1> HIDE DEF c
  <1>1. ASSUME block' = block, Sound(funds', c) PROVE SoundInv'
    BY <1>0, <1>1 DEF SoundInv, c
  <1>2. ASSUME NEW from \in Accounts, NEW a \in Accounts, NEW plan \in Plans,
               CanAdd(funds, from, plan, c),
               funds' = AddRestrictingRecord(funds, from, a, plan, c),
               block' = block
        PROVE  SoundInv'
    BY <1>0, <1>1, <1>2, AddSound
  <1>3. ASSUME NEW a \in Accounts, NEW m \in Amounts, block' = block,
               \/ CanAdvance(funds, a, m) /\ funds' = AdvanceLockedFunds(funds, a, m)
               \/ CanMixAdvance(funds, a, m) /\ funds' = MixAdvanceLockedFunds(funds, a, m)
               \/ funds' = ReturnLockFunds(funds, a, m)
               \/ funds' = SlashingNotify(funds, a, m)
        PROVE  SoundInv'
    <2>1. m \in Nat
      BY RestrictingAssumption
    <2> QED
      BY <1>0, <1>1, <1>3, <2>1, AdvanceSound, MixAdvanceSound, ReturnSound, SlashingSound
  <1>4. ASSUME c \in Epochs, block' = block + 1,
               funds' = IF IsEndOfEpoch(block) THEN releaseRestricting(funds, c) ELSE funds
        PROVE  SoundInv'
    <2>1. CASE IsEndOfEpoch(block)
      <3>1. Sound(funds', c + 1)
        BY <1>0, <1>4, <2>1, ReleaseSound
      <3>2. CalculateEpoch(block') = c + 1
        BY <1>0, <1>4, <2>1
      <3> QED
        BY <1>0, <1>4, <3>1, <3>2 DEF SoundInv
    <2>2. CASE ~IsEndOfEpoch(block)
      BY <1>0, <1>4, <2>2 DEF SoundInv
    <2> QED
      BY <2>1, <2>2, Zenon
  <1>5. CASE UNCHANGED <<funds, block>>
    BY <1>0, <1>1, <1>5
  <1> QED
    BY <1>2, <1>3, <1>4, <1>5 DEF RestrictingNext, c

\* What Sound says in the terms of the properties.
LEMMA SoundSays == SoundInv => NothingStuck /\ PlansBacked
  <1> SUFFICES ASSUME SoundInv PROVE NothingStuck /\ PlansBacked
    OBVIOUS
  <1> DEFINE c == CalculateEpoch(block)
  <1>0. /\ GoodLedger(funds) /\ Covered(funds, c) /\ Backed(funds) /\ GoodInfos(funds.info)
        /\ funds.amount \in [Epochs -> [Accounts -> Nat]]
    BY DEF SoundInv, Sound, GoodLedger
  <1>1. ASSUME NEW a \in DOMAIN funds.info
        PROVE  LET listed == {x \in Epochs : x >= c /\ a \in funds.accounts[x]}
               IN  SumFunction([e \in listed |-> funds.amount[e][a]])
                     = SumFunctionOnSet(Pending(funds, a, c), Epochs)
    <2> DEFINE listed == {x \in Epochs : x >= c /\ a \in funds.accounts[x]}
               due == [e \in listed |-> funds.amount[e][a]]
               P == Pending(funds, a, c)
    <2>1. a \in Accounts
      BY <1>0 DEF GoodInfos
    <2>2. \A e \in listed : P[e] \in Int /\ due[e] = P[e]
      BY <1>0, <2>1 DEF Pending
    <2>3. \A e \in Epochs \ listed : P[e] = 0
      BY <1>0, <2>1 DEF Pending, Covered
    <2>4. IsFiniteSet(Epochs) /\ listed \in SUBSET Epochs /\ IsFiniteSet(listed)
      BY RestrictingAssumption, FS_Subset
    <2>5. DOMAIN due = listed
      BY Zenon
    <2> HIDE DEF listed, due, P
    <2>6. SumFunctionOnSet(P, listed) = SumFunctionOnSet(P, Epochs)
      BY <2>2, <2>3, <2>4, SumWiden, Zenon
    <2>7. SumFunctionOnSet(due, listed) = SumFunctionOnSet(P, listed)
      BY <2>2, <2>4, SumAgree, Zenon
    <2>8. SumFunction(due) = SumFunctionOnSet(P, Epochs)
      BY <2>5, <2>6, <2>7, Zenon DEF SumFunction
    <2> QED
      BY <2>8, Zenon DEF listed, due, P
  <1>2. NothingStuck
    BY <1>0, <1>1, Zenon DEF NothingStuck, Covered
  <1>3. PlansBacked
    <2> DEFINE D == DOMAIN funds.info
               x == Free(funds.info)
               y == [a \in D |-> funds.info[a].CachePlanAmount - funds.info[a].AdvanceAmount]
    <2>1. \A a \in Accounts : x[a] \in Int
      BY <1>0, FreeType, Zenon
    <2>2. D \in SUBSET Accounts /\ IsFiniteSet(Accounts) /\ IsFiniteSet(D)
      BY <1>0, RestrictingAssumption, FS_Subset DEF GoodInfos
    <2>3. \A a \in D : x[a] \in Int /\ y[a] = x[a]
      BY <2>1, <2>2 DEF Free
    <2>4. \A a \in Accounts \ D : x[a] = 0
      BY DEF Free
    <2>5. DOMAIN y = D
      BY Zenon
    <2>6. funds.bal[RestrictingContract] = SumFunctionOnSet(x, Accounts)
      BY <1>0 DEF Backed
    <2> HIDE DEF x, y, D
    <2>7. SumFunctionOnSet(x, D) = SumFunctionOnSet(x, Accounts)
      BY <2>2, <2>3, <2>4, SumWiden, Zenon
    <2>8. SumFunctionOnSet(y, D) = SumFunctionOnSet(x, D)
      BY <2>2, <2>3, SumAgree, Zenon
    <2>9. funds.bal[RestrictingContract] = SumFunction(y)
      BY <2>5, <2>6, <2>7, <2>8, Zenon DEF SumFunction
    <2> QED
      BY <2>9, Zenon DEF PlansBacked, y, D
  <1> QED
    BY <1>2, <1>3, Zenon

\* NothingStuck holds for any accounts, plans and amounts: AddRestrictingRecord
\* lists every instalment, and releaseRestricting pays or owes what it takes off
\* the list, so whatever the plans hold is owed or listed for an epoch still to
\* come.
THEOREM PlansAreListed == RestrictingSpec => []NothingStuck
  BY InitSound, NextSound, SoundSays, PTL DEF RestrictingSpec

\* PlansBacked holds for any accounts, plans and amounts: whatever calls are made,
\* the balance of the restricting contract is the sum of what the plans have not
\* advanced, so no release, refund or new plan pays with another account's money.
THEOREM ContractHoldsPlans == RestrictingSpec => []PlansBacked
  BY InitSound, NextSound, SoundSays, PTL DEF RestrictingSpec
==============================================================================

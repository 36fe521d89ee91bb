----------------------- MODULE ValidatorPool_proofs -----------------------
(***************************************************************************)
(* Proofs about ValidatorPool, for rounds of any length, any distance of   *)
(* the election of at least three blocks and any outcome of the elections. *)
(***************************************************************************)
EXTENDS ValidatorPool, WellFoundedInduction, TLAPS

-----------------------------------------------------------------------------
(* Rounds *)

\* Every round is as long as the others.
LEMMA EndNext == \A r \in Int : End(r) \in Int /\ End(r + 1) = End(r) + ConsensusSize
  BY PoolSizes DEF End

\* A later round ends at least a round later.
LEMMA EndOrder ==
    ASSUME NEW r \in Int, NEW s \in Int, r < s
    PROVE  End(r) + ConsensusSize <= End(s)
  <1>1. ConsensusSize \in Nat
    BY PoolSizes, Zenon
  <1>2. s - r - 1 \in Nat
    OBVIOUS
  <1>3. (s - r - 1) * ConsensusSize >= 0
    BY <1>1, <1>2
  <1>4. (s - r - 1) * ConsensusSize = s * ConsensusSize - r * ConsensusSize - ConsensusSize
    BY <1>1
  <1> QED
    BY <1>1, <1>3, <1>4 DEF End

\* Division by the length of a round.
LEMMA Division ==
    ASSUME NEW m \in Nat
    PROVE  /\ m \div ConsensusSize \in Nat
           /\ m % ConsensusSize \in 0..(ConsensusSize - 1)
           /\ m = End(m \div ConsensusSize) + (m % ConsensusSize)
  <1>1. ConsensusSize \in Nat /\ ConsensusSize > 0
    BY PoolSizes
  <1>2. /\ m \div ConsensusSize \in Nat
        /\ m % ConsensusSize \in 0..(ConsensusSize - 1)
        /\ m = ConsensusSize * (m \div ConsensusSize) + (m % ConsensusSize)
    BY <1>1
  <1>3. ConsensusSize * (m \div ConsensusSize) = (m \div ConsensusSize) * ConsensusSize
    BY <1>1, <1>2
  <1> QED
    BY <1>2, <1>3, Zenon DEF End

\* A block is in its round.
LEMMA EpochBounds ==
    ASSUME NEW n \in Nat
    PROVE  /\ EpochOf(n) \in Nat
           /\ n <= End(EpochOf(n)) /\ End(EpochOf(n)) < n + ConsensusSize
  <1>1. ConsensusSize \in Nat /\ ConsensusSize > 0 /\ n + ConsensusSize - 1 \in Nat
    BY PoolSizes
  <1>2. /\ EpochOf(n) \in Nat
        /\ (n + ConsensusSize - 1) % ConsensusSize \in 0..(ConsensusSize - 1)
        /\ n + ConsensusSize - 1
             = End(EpochOf(n)) + ((n + ConsensusSize - 1) % ConsensusSize)
    BY <1>1, Division, Zenon DEF EpochOf
  <1>3. End(EpochOf(n)) \in Int
    BY <1>2, EndNext
  <1> QED
    BY <1>1, <1>2, <1>3

\* The multiples of the length are the ends of rounds.
LEMMA Multiples ==
    ASSUME NEW x \in Nat, NEW h \in Int, End(h - 1) < x, x <= End(h)
    PROVE  x % ConsensusSize = 0 <=> x = End(h)
  <1> DEFINE k == x \div ConsensusSize
             d == x % ConsensusSize
  <1>1. /\ k \in Nat /\ d \in 0..(ConsensusSize - 1) /\ x = End(k) + d
        /\ End(k) \in Int /\ End(h) \in Int /\ End(h - 1) \in Int
        /\ End(h) = End(h - 1) + ConsensusSize
        /\ ConsensusSize \in Nat /\ ConsensusSize > 0
    BY Division, EndNext, PoolSizes
  <1> HIDE DEF k, d
  <1>2. k < h => End(k) + ConsensusSize <= End(h)
    BY <1>1, EndOrder
  <1>3. ~(h < k)
    BY <1>1, EndOrder
  <1>4. d = 0 => x = End(h)
    BY <1>1, <1>2, <1>3
  <1>5. x = End(h) => d = 0
    BY <1>1, <1>2, <1>3
  <1> QED
    BY <1>4, <1>5, Zenon DEF d

\* A block is in no other round.
LEMMA EpochUnique ==
    ASSUME NEW n \in Nat, NEW e \in Nat, n <= End(e), End(e) < n + ConsensusSize
    PROVE  EpochOf(n) = e
  <1>1. /\ EpochOf(n) \in Nat /\ n <= End(EpochOf(n))
        /\ End(EpochOf(n)) < n + ConsensusSize
    BY EpochBounds, Zenon
  <1>2. End(e) \in Int /\ End(EpochOf(n)) \in Int /\ ConsensusSize \in Nat
    BY <1>1, EndNext, PoolSizes
  <1>3. ~(EpochOf(n) < e)
    BY <1>1, <1>2, EndOrder
  <1>4. ~(e < EpochOf(n))
    BY <1>1, <1>2, EndOrder
  <1> QED
    BY <1>1, <1>3, <1>4

\* The next block is of the next round exactly after the last one of a round.
LEMMA EpochNext ==
    ASSUME NEW n \in Nat
    PROVE  /\ n = End(EpochOf(n)) => EpochOf(n + 1) = EpochOf(n) + 1
           /\ n # End(EpochOf(n)) => EpochOf(n + 1) = EpochOf(n)
  <1>1. /\ EpochOf(n) \in Nat /\ n <= End(EpochOf(n)) /\ End(EpochOf(n)) \in Int
        /\ End(EpochOf(n)) < n + ConsensusSize
        /\ End(EpochOf(n) + 1) = End(EpochOf(n)) + ConsensusSize
        /\ ConsensusSize \in Nat /\ ConsensusSize > 0
    BY EpochBounds, EndNext, PoolSizes
  <1>2. n + 1 \in Nat /\ EpochOf(n) + 1 \in Nat
    BY <1>1
  <1>3. ASSUME n = End(EpochOf(n)) PROVE EpochOf(n + 1) = EpochOf(n) + 1
    <2>1. n + 1 <= End(EpochOf(n) + 1) /\ End(EpochOf(n) + 1) < n + 1 + ConsensusSize
      BY <1>1, <1>3
    <2> QED
      BY <1>2, <2>1, EpochUnique, Zenon
  <1>4. ASSUME n # End(EpochOf(n)) PROVE EpochOf(n + 1) = EpochOf(n)
    <2>1. n + 1 <= End(EpochOf(n)) /\ End(EpochOf(n)) < n + 1 + ConsensusSize
      BY <1>1, <1>4
    <2> QED
      BY <1>1, <1>2, <2>1, EpochUnique, Zenon
  <1> QED
    BY <1>3, <1>4, Zenon

-----------------------------------------------------------------------------
(* Elections *)

(* What the state of block n knows: the round elected last, which ends      *)
(* after block n + ElectionDistance, and the one before it, which does not. *)
IndexRight(n) ==
    LET q == Index[n] IN
    /\ q = [lo |-> q.lo, hi |-> q.hi] /\ q.lo \in Int /\ q.hi \in Int
    /\ q.hi >= 1 /\ q.lo <= q.hi - 1
    /\ End(q.hi - 1) <= n + ElectionDistance
    /\ n + ElectionDistance < End(q.hi)

\* The election of a block takes the index of its parent to its own.
LEMMA IndexStep ==
    ASSUME NEW n \in 1..MaxNumber, IndexRight(n - 1)
    PROVE  IndexRight(n)
  <1> DEFINE q == Index[n - 1]
             x == n + ElectionDistance
  <1>1. /\ q.lo \in Int /\ q.hi \in Int /\ q.hi >= 1 /\ q.lo <= q.hi - 1
        /\ End(q.hi - 1) <= x - 1 /\ x - 1 < End(q.hi)
    BY PoolSizes DEF IndexRight
  <1>2. /\ ConsensusSize \in Nat /\ ConsensusSize > 0 /\ x \in Nat
        /\ RoundValIndexSize \in Nat /\ RoundValIndexSize >= 2
    BY PoolSizes
  <1>3. /\ End(q.hi) \in Int /\ End(q.hi - 1) \in Int
        /\ End(q.hi) = End(q.hi - 1) + ConsensusSize
        /\ End(q.hi + 1) = End(q.hi) + ConsensusSize
    BY <1>1, EndNext
  <1>4. Index[n] = EndBlock(q, n)
    BY IndexOfBlocks, Zenon
  <1>5. IsElection(n) <=> x = End(q.hi)
    BY <1>1, <1>2, <1>3, Multiples DEF IsElection
  <1>6. CASE IsElection(n)
    <2>1. Index[n] = ConstantAppend(q)
      BY <1>4, <1>6, Zenon DEF EndBlock
    <2>2. /\ Index[n] = [lo |-> Index[n].lo, hi |-> Index[n].hi]
          /\ Index[n].hi = q.hi + 1
          /\ Index[n].lo \in Int /\ Index[n].lo <= q.hi
      BY <2>1, <1>1, <1>2 DEF ConstantAppend
    <2>3. Index[n].hi - 1 = q.hi
      BY <2>2, <1>1
    <2> QED
      BY <1>1, <1>2, <1>3, <1>5, <1>6, <2>2, <2>3 DEF IndexRight
  <1>7. CASE ~IsElection(n)
    <2>1. Index[n] = q
      BY <1>4, <1>7, Zenon DEF EndBlock
    <2>2. q = [lo |-> q.lo, hi |-> q.hi]
      BY Zenon DEF IndexRight
    <2> QED
      BY <1>1, <1>2, <1>3, <1>5, <1>7, <2>1, <2>2 DEF IndexRight
  <1> QED
    BY <1>6, <1>7, Zenon

\* The least-number principle.
LEMMA LeastNumber ==
    ASSUME NEW T \in SUBSET Nat, T # {}
    PROVE  \E x \in T : \A y \in T : x <= y
  <1> DEFINE R == {ss \in Nat \X Nat : ss[1] < ss[2]}
  <1>1. IsWellFoundedOn(R, Nat)
    BY NatLessThanWellFounded, Zenon DEF OpToRel
  <1>2. PICK x \in T : \A y \in T : ~(<<y, x>> \in R)
    BY <1>1, WFMin, Zenon
  <1>3. ASSUME NEW y \in T PROVE x <= y
    <2>1. x \in Nat /\ y \in Nat
      BY Zenon
    <2>2. <<y, x>> \in Nat \X Nat /\ <<y, x>>[1] = y /\ <<y, x>>[2] = x
      BY <2>1, Zenon
    <2>3. ~(y < x)
      BY <1>2, <1>3, <2>2, Zenon
    <2> QED
      BY <2>1, <2>3
  <1> QED
    BY <1>3, Zenon

\* The index of every block is right: the first wrong one would follow a right one.
LEMMA IndexAlwaysRight == \A n \in 0..MaxNumber : IndexRight(n)
  <1> DEFINE Wrong == {n \in 0..MaxNumber : ~IndexRight(n)}
  <1>1. SUFFICES ASSUME Wrong # {} PROVE FALSE
    BY Zenon
  <1>2. Wrong \in SUBSET Nat
    BY PoolSizes
  <1>3. PICK m \in Wrong : \A k \in Wrong : m <= k
    <2> HIDE DEF Wrong
    <2> QED BY <1>1, <1>2, LeastNumber, Zenon
  <1>4. m \in 0..MaxNumber /\ ~IndexRight(m)
    BY <1>3, Zenon
  <1>5. IndexRight(0)
    <2>1. Index[0] = [lo |-> 0, hi |-> 1]
      BY IndexOfBlocks, Zenon
    <2>2. End(0) = 0 /\ End(1) = ConsensusSize
      BY PoolSizes DEF End
    <2> QED
      BY <2>1, <2>2, PoolSizes DEF IndexRight
  <1>6. m \in 1..MaxNumber /\ m - 1 \in 0..MaxNumber
    BY <1>4, <1>5, PoolSizes
  <1>7. IndexRight(m - 1)
    <2>1. ~(m <= m - 1)
      BY <1>6
    <2> QED
      BY <1>3, <1>6, <2>1, Zenon
  <1> QED
    BY <1>4, <1>6, <1>7, IndexStep, Zenon
-----------------------------------------------------------------------------
(* The invariant *)

(* The pool p of a node whose highest block is n and whose lowest one is c  *)
(* is that of the epoch of the block to come; it remembers the validators   *)
(* before if one of their blocks is left.                                   *)
Fits(p, c, n) ==
    LET e == EpochOf(n + 1) IN
    /\ p.epoch = e
    /\ p.current = [start |-> Start(e), nodes |-> Elected[e]]
    /\ p.switchPoint = End(e - 1) /\ p.lastNumber = End(e)
    /\ c <= End(e - 1) => p.prev.nodes = Elected[e - 1]

Views == [epoch : Nat, number : Nat]

(* The epoch of the view is that of the highest block or of the next one.   *)
EpochFits(w, n) == w \in Views /\ w.epoch \in {EpochOf(n), EpochOf(n + 1)}

Lags ==
    /\ qc \in Nat /\ commit \in 0..MaxNumber /\ commit <= qc
    /\ journal # None => journal \in Views
    /\ reactor \in [taken : Nat, irr : Nat]
    /\ reactor.irr <= reactor.taken /\ reactor.taken <= reactor.irr + 1
    /\ reactor.taken <= commit
    /\ worker \in [taken : Nat, saved : Nat, head : Nat]
    /\ worker.head <= worker.taken /\ worker.taken <= worker.head + 1
    /\ worker.taken <= commit
    /\ worker.saved <= worker.taken /\ worker.saved \in {0, worker.head, worker.head + 1}

PoolFits ==
    /\ qc <= commit + 2
    /\ EpochFits(view, qc)
    /\ inserting => qc > 0 /\ view.epoch = EpochOf(qc) /\ Fits(vp, commit, qc - 1)
    /\ ~inserting => Fits(vp, commit, qc)

IInv == Lags /\ (mode = "up" => PoolFits)

-----------------------------------------------------------------------------
(* The agency *)

\* The store at block irr knows the rounds of the blocks above it, as far as
\* the block after the one three above.
LEMMA KnownNear ==
    ASSUME NEW irr \in 0..MaxNumber, NEW n \in Nat, irr <= n, n <= irr + 4
    PROVE  Known(irr, n)
  <1> DEFINE q == Index[irr]
             e == EpochOf(n)
  <1>1. /\ q.lo \in Int /\ q.hi \in Int /\ q.lo <= q.hi - 1
        /\ End(q.hi - 1) <= irr + ElectionDistance
        /\ irr + ElectionDistance < End(q.hi)
    BY IndexAlwaysRight, Zenon DEF IndexRight
  <1>2. e \in Nat /\ n <= End(e) /\ End(e) < n + ConsensusSize /\ End(e) \in Int
    BY EpochBounds, EndNext
  <1>3. /\ End(q.hi) \in Int /\ End(q.hi - 1) \in Int
        /\ ConsensusSize \in Nat /\ ElectionDistance \in Nat
        /\ ElectionDistance >= 3 /\ ElectionDistance < ConsensusSize
        /\ irr \in Nat
    BY <1>1, EndNext, PoolSizes
  <1> HIDE DEF q, e
  <1>4. ~(q.hi < e)
    <2>1. q.hi < e => End(q.hi) + ConsensusSize <= End(e)
      BY <1>1, <1>2, EndOrder
    <2> QED
      BY <2>1, <1>1, <1>2, <1>3
  <1>5. ~(e < q.hi - 1)
    <2>1. e < q.hi - 1 => End(e) + ConsensusSize <= End(q.hi - 1)
      BY <1>1, <1>2, EndOrder
    <2> QED
      BY <2>1, <1>1, <1>2, <1>3
  <1> QED
    BY <1>1, <1>2, <1>4, <1>5 DEF Known, q, e

\* What the agency answers about such a block.
LEMMA Answers ==
    ASSUME NEW irr \in 0..MaxNumber, NEW n \in Nat, irr <= n, n <= irr + 4
    PROVE  /\ GetLastNumber(irr, n) = End(EpochOf(n))
           /\ GetValidator(irr, n) = [start |-> Start(EpochOf(n)), nodes |-> Elected[EpochOf(n)]]
  BY KnownNear, Zenon DEF GetLastNumber, GetValidator

\* The first block of a round follows the last one of the round before.
LEMMA Starts ==
    ASSUME NEW e \in Nat, e > 0
    PROVE  Start(e) = End(e - 1) + 1 /\ End(e - 1) \in Nat
  <1>1. ConsensusSize \in Nat /\ e - 1 \in Nat
    BY PoolSizes
  <1>2. (e - 1) * ConsensusSize \in Nat
    BY <1>1
  <1> QED
    BY <1>2 DEF Start, End

\* The epoch of a block that is not the first is not zero, and the round before
\* it ends below the block.
LEMMA Above ==
    ASSUME NEW n \in Nat
    PROVE  /\ EpochOf(n + 1) \in Nat /\ EpochOf(n + 1) > 0
           /\ End(EpochOf(n + 1) - 1) \in Nat /\ End(EpochOf(n + 1)) \in Nat
           /\ End(EpochOf(n + 1) - 1) <= n /\ n < End(EpochOf(n + 1))
           /\ End(EpochOf(n + 1)) = End(EpochOf(n + 1) - 1) + ConsensusSize
           /\ Start(EpochOf(n + 1)) = End(EpochOf(n + 1) - 1) + 1
  <1> DEFINE e == EpochOf(n + 1)
  <1>1. e \in Nat /\ n + 1 <= End(e) /\ End(e) < n + 1 + ConsensusSize /\ End(e) \in Int
    BY EpochBounds, EndNext
  <1> HIDE DEF e
  <1>2. End(0) = 0 /\ ConsensusSize \in Nat
    BY PoolSizes DEF End
  <1>3. e > 0
    BY <1>1, <1>2
  <1>4. End(e) = End(e - 1) + ConsensusSize /\ End(e - 1) \in Int
    <2>1. e - 1 \in Int /\ (e - 1) + 1 = e
      BY <1>1
    <2> QED
      BY <2>1, EndNext, Zenon
  <1>5. Start(e) = End(e - 1) + 1 /\ End(e - 1) \in Nat
    BY <1>1, <1>3, Starts, Zenon
  <1> QED
    BY <1>1, <1>2, <1>3, <1>4, <1>5 DEF e

\* NewValidatorPool and Reset at the block the store has: the pool fits.
LEMMA AtFits ==
    ASSUME NEW n \in 0..MaxNumber, NEW e, e = IF n = 0 THEN 1 ELSE EpochOf(n)
    PROVE  /\ Fits(At(n, e, n), n, n)
           /\ EqualSwitchPoint(At(n, e, n), n) <=> n # 0 /\ n = End(EpochOf(n))
  <1>1. n \in Nat /\ n + 1 \in Nat
    BY PoolSizes
  <1>2. /\ GetLastNumber(n, n) = End(EpochOf(n))
        /\ GetLastNumber(n, n + 1) = End(EpochOf(n + 1))
        /\ GetValidator(n, n) = [start |-> Start(EpochOf(n)), nodes |-> Elected[EpochOf(n)]]
        /\ GetValidator(n, n + 1)
             = [start |-> Start(EpochOf(n + 1)), nodes |-> Elected[EpochOf(n + 1)]]
    BY <1>1, Answers
  <1>3. /\ EpochOf(n + 1) \in Nat /\ EpochOf(n + 1) > 0
        /\ End(EpochOf(n + 1) - 1) \in Nat /\ End(EpochOf(n + 1) - 1) <= n
        /\ Start(EpochOf(n + 1)) = End(EpochOf(n + 1) - 1) + 1
    BY <1>1, Above, Zenon
  <1>4. EpochOf(n) \in Nat
    BY <1>1, EpochBounds, Zenon
  <1>5. CASE n = 0
    <2>1. EpochOf(0) = 0 /\ End(0) = 0 /\ EpochOf(1) = 1
      <3>1. End(0) = 0 /\ ConsensusSize > 0
        BY PoolSizes DEF End
      <3>2. EpochOf(0) = 0
        BY <3>1, EpochUnique, PoolSizes
      <3>3. EpochOf(0 + 1) = 0 + 1
        BY <3>1, <3>2, EpochNext, Zenon
      <3> QED
        BY <3>1, <3>2, <3>3
    <2>2. Start(1) = 1 /\ 1 - 1 = 0
      BY PoolSizes DEF Start
    <2>3. At(n, e, n) = [epoch       |-> 1,
                         prev        |-> [start |-> Start(0), nodes |-> Elected[0]],
                         current     |-> [start |-> Start(1), nodes |-> Elected[1]],
                         switchPoint |-> 0,
                         lastNumber  |-> End(1)]
      BY <1>2, <1>5, <2>1, <2>2 DEF At
    <2>4. EpochOf(n + 1) = 1 /\ EpochOf(n + 1) - 1 = 0
      BY <1>5, <2>1
    <2>5. ~EqualSwitchPoint(At(n, e, n), n)
      BY <2>3 DEF EqualSwitchPoint
    <2> QED
      BY <1>5, <2>1, <2>3, <2>4, <2>5 DEF Fits
  <1>6. CASE n # 0 /\ n = End(EpochOf(n))
    <2>1. EpochOf(n + 1) = EpochOf(n) + 1 /\ EpochOf(n + 1) - 1 = EpochOf(n)
      BY <1>1, <1>4, <1>6, EpochNext
    <2>2. At(n, e, n) = [epoch       |-> EpochOf(n + 1),
                         prev        |-> [start |-> Start(EpochOf(n)), nodes |-> Elected[EpochOf(n)]],
                         current     |-> [start |-> Start(EpochOf(n + 1)), nodes |-> Elected[EpochOf(n + 1)]],
                         switchPoint |-> End(EpochOf(n)),
                         lastNumber  |-> End(EpochOf(n + 1))]
      BY <1>1, <1>2, <1>3, <1>6, <2>1 DEF At
    <2> QED
      BY <1>1, <1>6, <2>1, <2>2 DEF Fits, EqualSwitchPoint
  <1>7. CASE n # 0 /\ n # End(EpochOf(n))
    <2>1. EpochOf(n + 1) = EpochOf(n)
      BY <1>1, <1>7, EpochNext, Zenon
    <2>2. At(n, e, n) = [epoch       |-> EpochOf(n + 1),
                         prev        |-> [start |-> Start(EpochOf(n + 1)), nodes |-> Elected[EpochOf(n + 1)]],
                         current     |-> [start |-> Start(EpochOf(n + 1)), nodes |-> Elected[EpochOf(n + 1)]],
                         switchPoint |-> End(EpochOf(n + 1) - 1),
                         lastNumber  |-> End(EpochOf(n + 1))]
      BY <1>1, <1>2, <1>3, <1>7, <2>1 DEF At
    <2>3. End(EpochOf(n + 1) - 1) < n
      <3>1. n - 1 \in Nat /\ (n - 1) + 1 = n
        BY <1>1, <1>7
      <3>2. End(EpochOf(n) - 1) <= n - 1
        BY <3>1, Above, Zenon
      <3> QED
        BY <3>1, <3>2, <2>1, <1>3
    <2> QED
      BY <1>1, <1>3, <1>7, <2>2, <2>3 DEF Fits, EqualSwitchPoint
  <1> QED
    BY <1>5, <1>6, <1>7, Zenon

\* ShouldSwitch and Update on the next block, with a store that is at most three
\* blocks behind: the pool fits again.
LEMMA SwitchFits ==
    ASSUME NEW irr \in 0..MaxNumber, NEW n \in Nat, n > 0, irr <= n + 1, n <= irr + 3,
           NEW c \in Nat, NEW p, Fits(p, c, n - 1),
           NEW e, n = End(EpochOf(n)) => e = EpochOf(n)
    PROVE  /\ Fits(trySwitchValidator(p, n, e, irr), c, n)
           /\ EqualSwitchPoint(trySwitchValidator(p, n, e, irr), n) <=> n = End(EpochOf(n))
  <1> DEFINE r == EpochOf(n)
  <1>1. n - 1 \in Nat /\ (n - 1) + 1 = n /\ n + 1 \in Nat
    OBVIOUS
  <1>2. /\ r \in Nat /\ r > 0 /\ End(r - 1) \in Nat /\ End(r) \in Nat
        /\ End(r - 1) < n /\ n <= End(r)
    <2>1. /\ EpochOf((n - 1) + 1) \in Nat /\ EpochOf((n - 1) + 1) > 0
          /\ End(EpochOf((n - 1) + 1) - 1) \in Nat /\ End(EpochOf((n - 1) + 1)) \in Nat
          /\ End(EpochOf((n - 1) + 1) - 1) <= n - 1 /\ n - 1 < End(EpochOf((n - 1) + 1))
      BY <1>1, Above, Zenon
    <2> QED
      BY <2>1, <1>1
  <1>3. /\ p.epoch = r /\ p.current = [start |-> Start(r), nodes |-> Elected[r]]
        /\ p.switchPoint = End(r - 1) /\ p.lastNumber = End(r)
        /\ c <= End(r - 1) => p.prev.nodes = Elected[r - 1]
    BY <1>1, Zenon DEF Fits
  <1>4. ShouldSwitch(p, n) <=> n = End(r)
    BY <1>2, <1>3 DEF ShouldSwitch
  <1>5. CASE n = End(r)
    <2>1. EpochOf(n + 1) = r + 1 /\ e = r /\ EpochOf(n + 1) - 1 = r
      BY <1>2, <1>5, EpochNext
    <2>2. /\ GetLastNumber(irr, n + 1) = End(r + 1)
          /\ GetValidator(irr, n + 1) = [start |-> Start(r + 1), nodes |-> Elected[r + 1]]
      BY <1>1, <2>1, Answers
    <2>3. Start(r + 1) = n + 1
      <3>1. (r + 1) - 1 = r /\ r + 1 \in Nat /\ r + 1 > 0
        BY <1>2
      <3>2. Start(r + 1) = End((r + 1) - 1) + 1
        BY <3>1, Starts, Zenon
      <3> QED
        BY <1>5, <3>1, <3>2, Zenon
    <2>4. [start |-> Start(r + 1), nodes |-> Elected[r + 1]] # Absent
      BY <2>3, <1>1 DEF Absent
    <2>5. ~(n <= p.switchPoint)
      BY <1>2, <1>3
    <2>6. trySwitchValidator(p, n, e, irr)
            = [epoch |-> r + 1, prev |-> p.current,
               current |-> [start |-> Start(r + 1), nodes |-> Elected[r + 1]],
               switchPoint |-> n, lastNumber |-> End(r + 1)]
      BY <1>4, <1>5, <2>1, <2>2, <2>3, <2>4, <2>5 DEF trySwitchValidator, Update
    <2>7. EqualSwitchPoint(trySwitchValidator(p, n, e, irr), n)
      BY <2>6 DEF EqualSwitchPoint
    <2> QED
      BY <1>3, <1>5, <2>1, <2>6, <2>7 DEF Fits
  <1>6. CASE n # End(r)
    <2>1. EpochOf(n + 1) = r
      BY <1>6, EpochNext, Zenon
    <2>2. trySwitchValidator(p, n, e, irr) = p
      BY <1>4, <1>6, Zenon DEF trySwitchValidator
    <2>3. ~EqualSwitchPoint(p, n)
      BY <1>2, <1>3 DEF EqualSwitchPoint
    <2> QED
      BY <1>3, <1>6, <2>1, <2>2, <2>3, Zenon DEF Fits
  <1> QED
    BY <1>5, <1>6, Zenon

\* The next block, or the view of the next block, is of the same epoch or the next.
LEMMA EpochGrows ==
    ASSUME NEW n \in Nat
    PROVE  /\ EpochOf(n) \in Nat /\ EpochOf(n + 1) \in {EpochOf(n), EpochOf(n) + 1}
           /\ EpochOf(n + 1) # EpochOf(n) => n = End(EpochOf(n))
           /\ n = End(EpochOf(n)) => n + 1 # End(EpochOf(n + 1))
  <1>1. EpochOf(n) \in Nat /\ EpochOf(n + 1) \in {EpochOf(n), EpochOf(n) + 1}
    BY EpochBounds, EpochNext, Zenon
  <1>2. EpochOf(n + 1) # EpochOf(n) => n = End(EpochOf(n))
    BY EpochNext, Zenon
  <1>3. ASSUME n = End(EpochOf(n)) PROVE n + 1 # End(EpochOf(n + 1))
    <2>1. EpochOf(n + 1) = EpochOf(n) + 1
      BY <1>3, EpochNext, Zenon
    <2>2. End(EpochOf(n) + 1) = End(EpochOf(n)) + ConsensusSize
      BY <1>1, EndNext
    <2>3. ConsensusSize \in Nat /\ ConsensusSize > 1
      BY PoolSizes
    <2> QED
      BY <1>3, <2>1, <2>2, <2>3
  <1> QED
    BY <1>1, <1>2, <1>3, Zenon

-----------------------------------------------------------------------------
(* Start *)

(* The pool and the view on the way fit a node at block n.                  *)
Good(m, c, n) ==
    m = [vp |-> m.vp, view |-> m.view] /\ Fits(m.vp, c, n) /\ EpochFits(m.view, n)

\* Start up to LoadWal.
LEMMA StartGood ==
    ASSUME NEW h \in 0..MaxNumber, NEW v \in Nat
    PROVE  Good(startAt(h, v), h, h)
  <1> DEFINE e == IF h = 0 THEN 1 ELSE EpochOf(h)
             w == IF h = 0 THEN View(1, 0) ELSE View(EpochOf(h), v)
             p == At(h, e, h)
  <1>1. h \in Nat
    BY PoolSizes
  <1>2. Fits(p, h, h) /\ (EqualSwitchPoint(p, h) <=> h # 0 /\ h = End(EpochOf(h)))
    BY AtFits, Zenon
  <1>3. EpochOf(h) \in Nat
    BY <1>1, EpochBounds, Zenon
  <1>4. h = 0 => EpochOf(h + 1) = 1
    <2>1. End(1) = ConsensusSize
      BY PoolSizes DEF End
    <2>2. EpochOf(1) = 1
      BY <2>1, EpochUnique, PoolSizes
    <2> QED
      BY <2>2
  <1>5. EpochFits(w, h)
    BY <1>3, <1>4, Zenon DEF EpochFits, Views, View
  <1>6. startAt(h, v) = IF EqualSwitchPoint(p, h)
                        THEN [vp |-> p, view |-> View(EpochOf(h) + 1, 0)]
                        ELSE [vp |-> p, view |-> w]
    <2> DEFINE m == [vp |-> p, view |-> w]
    <2>1. startAt(h, v) = IF EqualSwitchPoint(m.vp, h)
                          THEN [m EXCEPT !.view = View(EpochOf(h) + 1, 0)] ELSE m
      BY Zenon DEF startAt
    <2> HIDE DEF p, w
    <2> QED
      BY <2>1, Zenon
  <1>7. CASE EqualSwitchPoint(p, h)
    <2>1. EpochOf(h + 1) = EpochOf(h) + 1
      BY <1>1, <1>2, <1>7, EpochNext, Zenon
    <2>2. EpochFits(View(EpochOf(h) + 1, 0), h)
      BY <1>3, <2>1 DEF EpochFits, Views, View
    <2> HIDE DEF p, w
    <2> QED
      BY <1>2, <1>6, <1>7, <2>2 DEF Good
  <1>8. CASE ~EqualSwitchPoint(p, h)
    <2> HIDE DEF p, w
    <2> QED
      BY <1>2, <1>5, <1>6, <1>8 DEF Good
  <1> QED
    BY <1>7, <1>8, Zenon

\* recoveryChainStateProcess on the next block.
LEMMA ProcessGood ==
    ASSUME NEW irr \in 0..MaxNumber, NEW n \in Nat, n > 0, irr <= n + 1, n <= irr + 3,
           NEW c \in Nat, NEW m, Good(m, c, n - 1), NEW v \in Nat
    PROVE  Good(recoveryChainStateProcess(m, n, v, irr), c, n)
  <1> DEFINE e == m.view.epoch
             r == EpochOf(n)
             p == trySwitchValidator(m.vp, n, e, irr)
             w == IF After(m.view, r, v) THEN View(r, v) ELSE m.view
  <1>1. n - 1 \in Nat /\ (n - 1) + 1 = n
    OBVIOUS
  <1>2. /\ Fits(m.vp, c, n - 1) /\ m.view \in Views /\ e \in {EpochOf(n - 1), r}
        /\ m = [vp |-> m.vp, view |-> m.view]
    BY <1>1, Zenon DEF Good, EpochFits
  <1>3. /\ EpochOf(n - 1) \in Nat /\ r \in {EpochOf(n - 1), EpochOf(n - 1) + 1}
        /\ r # EpochOf(n - 1) => n - 1 = End(EpochOf(n - 1))
        /\ n - 1 = End(EpochOf(n - 1)) => n # End(r)
    <2>1. /\ EpochOf(n - 1) \in Nat
          /\ EpochOf((n - 1) + 1) \in {EpochOf(n - 1), EpochOf(n - 1) + 1}
          /\ EpochOf((n - 1) + 1) # EpochOf(n - 1) => n - 1 = End(EpochOf(n - 1))
          /\ n - 1 = End(EpochOf(n - 1)) => (n - 1) + 1 # End(EpochOf((n - 1) + 1))
      BY <1>1, EpochGrows, Zenon
    <2> QED
      BY <2>1, <1>1, Zenon
  <1>4. n = End(r) => e = r
    BY <1>2, <1>3, Zenon
  <1>5. Fits(p, c, n) /\ (EqualSwitchPoint(p, n) <=> n = End(r))
    BY <1>2, <1>4, SwitchFits, Zenon
  <1>6. w \in Views /\ w.epoch = r
    BY <1>2, <1>3 DEF After, View, Views
  <1>7. tryWalChangeView([m EXCEPT !.vp = p], r, v) = [vp |-> p, view |-> w]
    <2> HIDE DEF p
    <2>1. [m EXCEPT !.vp = p] = [vp |-> p, view |-> m.view]
      BY <1>2
    <2> QED
      BY <2>1, Zenon DEF tryWalChangeView
  <1>8. tryWalChangeView([vp |-> p, view |-> w], w.epoch + 1, 0)
          = [vp |-> p, view |-> View(r + 1, 0)]
    <2> HIDE DEF p, w
    <2>1. After(w, w.epoch + 1, 0)
      BY <1>3, <1>6 DEF After
    <2> QED
      BY <1>6, <2>1, Zenon DEF tryWalChangeView
  <1>9. recoveryChainStateProcess(m, n, v, irr)
          = IF EqualSwitchPoint(p, n) THEN [vp |-> p, view |-> View(r + 1, 0)]
            ELSE [vp |-> p, view |-> w]
    <2> DEFINE t == tryWalChangeView([m EXCEPT !.vp = p], r, v)
    <2>1. recoveryChainStateProcess(m, n, v, irr)
            = IF EqualSwitchPoint(p, n) THEN tryWalChangeView(t, t.view.epoch + 1, 0) ELSE t
      BY Zenon DEF recoveryChainStateProcess
    <2>2. t = [vp |-> p, view |-> w]
      BY <1>7, Zenon
    <2>3. t.view = w
      <3> HIDE DEF p, w, t
      <3> QED BY <2>2, Zenon
    <2> HIDE DEF p, w, t
    <2> QED
      BY <2>1, <2>2, <2>3, <1>8, Zenon
  <1> HIDE DEF p, w
  <1>10. CASE EqualSwitchPoint(p, n)
    <2>1. EpochOf(n + 1) = r + 1 /\ r + 1 \in Nat
      BY <1>3, <1>5, <1>10, EpochNext
    <2>2. EpochFits(View(r + 1, 0), n)
      BY <2>1, Zenon DEF EpochFits, Views, View
    <2> QED
      BY <1>5, <1>9, <1>10, <2>2 DEF Good
  <1>11. CASE ~EqualSwitchPoint(p, n)
    <2>1. EpochFits(w, n)
      BY <1>6, Zenon DEF EpochFits
    <2> QED
      BY <1>5, <1>9, <1>11, <2>1 DEF Good
  <1> QED
    BY <1>10, <1>11, Zenon

\* recoveryChainState: from the head h, with the commit block c of the chain state.
LEMMA RecoverGood ==
    ASSUME NEW h \in 0..MaxNumber, NEW c \in 0..MaxNumber, NEW v \in Nat,
           c \in {0, h, h + 1}, NEW m, Good(m, h, h)
    PROVE  Good(recoveryChainState(m, h, c, v), h, IF c = 0 THEN h ELSE c + 2)
  <1>1. h \in Nat /\ c \in Nat
    BY PoolSizes
  <1>2. CASE c = 0
    BY <1>2, Zenon DEF recoveryChainState
  <1>3. CASE c # 0
    <2> DEFINE m1 == IF c = h THEN m ELSE recoveryChainStateProcess(m, c, v, c)
               m2 == recoveryChainStateProcess(m1, c + 1, v, c)
               m3 == recoveryChainStateProcess(m2, c + 2, v, c)
    <2>1. Good(m1, h, c)
      <3>1. CASE c = h
        BY <3>1, Zenon
      <3>2. CASE c = h + 1
        <4>1. c - 1 = h /\ c > 0 /\ c # h
          BY <1>1, <3>2
        <4>2. Good(recoveryChainStateProcess(m, c, v, c), h, c)
          BY <1>1, <4>1, ProcessGood
        <4> QED
          BY <4>1, <4>2, Zenon
      <3> QED
        BY <1>3, <3>1, <3>2, Zenon
    <2>2. Good(m2, h, c + 1)
      <3> HIDE DEF m1
      <3>1. /\ c + 1 \in Nat /\ c + 1 > 0 /\ c <= (c + 1) + 1 /\ c + 1 <= c + 3
            /\ (c + 1) - 1 = c
        BY <1>1
      <3> QED
        BY <1>1, <2>1, <3>1, ProcessGood, Zenon
    <2>3. Good(m3, h, c + 2)
      <3> HIDE DEF m2
      <3>1. /\ c + 2 \in Nat /\ c + 2 > 0 /\ c <= (c + 2) + 1 /\ c + 2 <= c + 3
            /\ (c + 2) - 1 = c + 1
        BY <1>1
      <3> QED
        BY <1>1, <2>2, <3>1, ProcessGood, Zenon
    <2>4. recoveryChainState(m, h, c, v) = m3
      BY <1>3, Zenon DEF recoveryChainState
    <2> HIDE DEF m3
    <2> QED
      BY <1>3, <2>3, <2>4, Zenon
  <1> QED
    BY <1>2, <1>3, Zenon

-----------------------------------------------------------------------------
(* The invariant holds *)

\* A pool that fits answers with the elected validators for every block of the
\* tree and for the next one.
LEMMA LookupsFit ==
    ASSUME NEW c \in Nat, NEW n \in Nat, n <= c + 2, NEW p, Fits(p, c, n),
           NEW k \in c..(n + 1)
    PROVE  Validators(p, EpochOf(k)).nodes = Elected[EpochOf(k)]
  <1> DEFINE e == EpochOf(n + 1)
             x == EpochOf(k)
  <1>1. k \in Nat /\ c <= k /\ k <= n + 1
    OBVIOUS
  <1>2. /\ e \in Nat /\ e > 0 /\ End(e - 1) \in Nat /\ End(e) \in Nat
        /\ End(e - 1) <= n /\ n < End(e) /\ End(e) = End(e - 1) + ConsensusSize
    BY Above, Zenon
  <1>3. x \in Nat /\ k <= End(x) /\ End(x) < k + ConsensusSize /\ End(x) \in Int
    BY <1>1, EpochBounds, EndNext
  <1>4. ConsensusSize \in Nat /\ ConsensusSize >= 4
    BY PoolSizes
  <1>5. /\ p.epoch = e /\ p.current.nodes = Elected[e] /\ p.switchPoint = End(e - 1)
        /\ c <= End(e - 1) => p.prev.nodes = Elected[e - 1]
    BY DEF Fits
  <1> HIDE DEF e, x
  <1>6. x <= e
    <2>1. e < x => End(e) + ConsensusSize <= End(x)
      BY <1>2, <1>3, EndOrder
    <2> QED
      BY <2>1, <1>1, <1>2, <1>3, <1>4
  <1>7. e - 1 <= x
    <2>1. x < e - 1 => End(x) + ConsensusSize <= End(e - 1)
      BY <1>2, <1>3, EndOrder
    <2> QED
      BY <2>1, <1>1, <1>2, <1>3, <1>4
  <1>8. CASE x = e
    <2>1. ~(x > p.epoch) /\ epochToBlockNumber(p, x) = p.switchPoint + 1
      BY <1>2, <1>5, <1>8 DEF epochToBlockNumber
    <2>2. ~(p.switchPoint + 1 <= p.switchPoint)
      BY <1>2, <1>5
    <2>3. Validators(p, x) = p.current
      BY <2>1, <2>2, Zenon DEF Validators
    <2> QED
      BY <1>5, <1>8, <2>3, Zenon DEF x
  <1>9. CASE x = e - 1
    <2>1. ~(x > p.epoch) /\ epochToBlockNumber(p, x) = p.switchPoint
      BY <1>2, <1>5, <1>9 DEF epochToBlockNumber
    <2>2. p.switchPoint <= p.switchPoint
      BY <1>2, <1>5
    <2>3. Validators(p, x) = p.prev
      BY <2>1, <2>2, Zenon DEF Validators
    <2>4. c <= End(e - 1)
      BY <1>1, <1>2, <1>3, <1>9
    <2> QED
      BY <1>5, <1>9, <2>3, <2>4, Zenon DEF x
  <1> QED
    BY <1>2, <1>3, <1>6, <1>7, <1>8, <1>9

\* The invariant implies the property.
LEMMA InvLookups == IInv => LookupsRight
  <1> SUFFICES ASSUME IInv, mode = "up"
               PROVE  /\ Validators(vp, view.epoch).nodes = Elected[view.epoch]
                      /\ \A n \in commit..(IF inserting THEN qc ELSE qc + 1) :
                            Validators(vp, EpochOf(n)).nodes = Elected[EpochOf(n)]
    BY Zenon DEF LookupsRight
  <1>1. /\ qc \in Nat /\ commit \in Nat /\ commit <= qc /\ qc <= commit + 2
        /\ view.epoch \in {EpochOf(qc), EpochOf(qc + 1)}
    BY PoolSizes DEF IInv, Lags, PoolFits, EpochFits
  <1>2. CASE inserting
    <2>1. /\ qc - 1 \in Nat /\ qc - 1 <= commit + 2 /\ Fits(vp, commit, qc - 1)
          /\ view.epoch = EpochOf(qc) /\ (qc - 1) + 1 = qc
      BY <1>1, <1>2 DEF IInv, PoolFits
    <2>2. \A n \in commit..((qc - 1) + 1) :
             Validators(vp, EpochOf(n)).nodes = Elected[EpochOf(n)]
      BY <1>1, <2>1, LookupsFit
    <2>3. qc \in commit..((qc - 1) + 1)
      BY <1>1
    <2> QED
      BY <1>2, <2>1, <2>2, <2>3, Zenon
  <1>3. CASE ~inserting
    <2>1. Fits(vp, commit, qc)
      BY <1>3, Zenon DEF IInv, PoolFits
    <2>2. \A n \in commit..(qc + 1) :
             Validators(vp, EpochOf(n)).nodes = Elected[EpochOf(n)]
      BY <1>1, <2>1, LookupsFit
    <2>3. qc \in commit..(qc + 1) /\ qc + 1 \in commit..(qc + 1)
      BY <1>1
    <2> QED
      BY <1>1, <1>3, <2>2, <2>3, Zenon
  <1> QED
    BY <1>2, <1>3, Zenon

\* The initial state: the genesis block.
LEMMA InitInv == Init => IInv
  <1> SUFFICES ASSUME Init PROVE IInv
    BY Zenon
  <1>1. Lags
    BY PoolSizes DEF Init, Lags
  <1>2. Fits(At(0, 1, 0), 0, 0)
    BY AtFits, PoolSizes
  <1>3. EpochOf(0 + 1) = 1
    <2>1. End(1) = ConsensusSize
      BY PoolSizes DEF End
    <2> QED
      BY <2>1, EpochUnique, PoolSizes
  <1>4. PoolFits
    BY <1>2, <1>3 DEF Init, PoolFits, inserting, EpochFits, Views, View
  <1> QED
    BY <1>1, <1>4, Zenon DEF IInv

\* insertQCBlock: the pool stays, the highest block is one above.
LEMMA InsertInv ==
    ASSUME IInv, NEW v \in Nat, Insert(v)
    PROVE  IInv'
  <1> DEFINE e == EpochOf(qc + 1)
  <1>1. /\ mode = "up" /\ mode' = "up" /\ step = "idle" /\ qc + 1 <= MaxNumber
        /\ qc' = qc + 1 /\ commit' = (IF (qc + 1) - 2 > commit THEN (qc + 1) - 2 ELSE commit)
        /\ view' = (IF After(view, e, v) THEN View(e, v) ELSE view)
        /\ step' \in {"meta", "post"}
        /\ UNCHANGED <<vp, reactor, worker, journal>>
    BY Zenon DEF Insert
  <1>2. Lags /\ PoolFits /\ ~inserting /\ inserting'
    BY <1>1, Zenon DEF IInv, inserting
  <1>3. qc \in Nat /\ commit \in Nat /\ commit <= qc /\ qc <= commit + 2 /\ MaxNumber \in Nat
    BY <1>2, PoolSizes DEF Lags, PoolFits
  <1>4. /\ commit' \in 0..MaxNumber /\ commit' <= qc' /\ commit <= commit'
        /\ qc' <= commit' + 2 /\ qc' \in Nat /\ qc' > 0 /\ qc' - 1 = qc
    BY <1>1, <1>2, <1>3 DEF Lags
  <1>5. Lags'
    BY <1>1, <1>2, <1>4, <1>3 DEF Lags
  <1>6. view' \in Views /\ view'.epoch = EpochOf(qc')
    <2>1. view \in Views /\ view.epoch \in {EpochOf(qc), e} /\ EpochOf(qc) <= e /\ e \in Nat
          /\ EpochOf(qc) \in Nat
      <3>1. EpochOf(qc) \in Nat /\ e \in {EpochOf(qc), EpochOf(qc) + 1}
        BY <1>3, EpochGrows, Zenon
      <3> QED
        BY <1>2, <3>1 DEF PoolFits, EpochFits
    <2> QED
      BY <1>1, <2>1 DEF After, View, Views
  <1>7. Fits(vp', commit', qc' - 1)
    <2>1. Fits(vp, commit, qc)
      BY <1>2, Zenon DEF PoolFits
    <2>2. End(EpochOf(qc + 1) - 1) \in Nat
      BY <1>3, Above, Zenon
    <2> QED
      BY <1>1, <1>3, <1>4, <2>1, <2>2 DEF Fits
  <1>8. PoolFits'
    BY <1>2, <1>4, <1>6, <1>7, Zenon DEF PoolFits, EpochFits
  <1> QED
    BY <1>5, <1>8, Zenon DEF IInv

\* tryChangeView: the reactor is one block behind the posted ones at most, so the
\* store has the election.
LEMMA ChangeInv ==
    ASSUME IInv, NEW full \in BOOLEAN, tryChangeView(full)
    PROVE  IInv'
  <1> DEFINE p == trySwitchValidator(vp, qc, view.epoch, reactor.irr)
  <1>1. /\ mode = "up" /\ mode' = "up" /\ step = "post" /\ reactor.taken = commit
        /\ vp' = p
        /\ \/ step' = "lastMeta" /\ view' = (IF EqualSwitchPoint(p, qc)
                                             THEN View(view.epoch + 1, 0)
                                             ELSE View(view.epoch, view.number + 1))
           \/ step' = "idle" /\ view' = view
        /\ UNCHANGED <<qc, commit, reactor, worker, journal>>
    BY Zenon DEF tryChangeView
  <1>2. Lags /\ PoolFits /\ inserting /\ ~inserting'
    BY <1>1, Zenon DEF IInv, inserting
  <1>3. /\ qc \in Nat /\ qc > 0 /\ commit \in 0..MaxNumber /\ commit <= qc /\ qc <= commit + 2
        /\ reactor.irr \in 0..MaxNumber /\ reactor.irr <= qc + 1 /\ qc <= reactor.irr + 3
        /\ MaxNumber \in Nat /\ commit \in Nat
    BY <1>1, <1>2, PoolSizes DEF Lags, PoolFits
  <1>4. view \in Views /\ view.epoch = EpochOf(qc) /\ Fits(vp, commit, qc - 1)
    BY <1>2, Zenon DEF PoolFits, EpochFits
  <1>5. Fits(p, commit, qc) /\ (EqualSwitchPoint(p, qc) <=> qc = End(EpochOf(qc)))
    BY <1>3, <1>4, SwitchFits, Zenon
  <1> HIDE DEF p
  <1>6. EqualSwitchPoint(p, qc) => EpochOf(qc + 1) = EpochOf(qc) + 1
    BY <1>3, <1>5, EpochNext, Zenon
  <1>7. EpochFits(view', qc)
    BY <1>1, <1>4, <1>6 DEF EpochFits, View, Views
  <1>8. PoolFits'
    BY <1>1, <1>2, <1>3, <1>5, <1>7, Zenon DEF PoolFits, EpochFits, Fits
  <1>9. Lags'
    BY <1>1, <1>2, Zenon DEF Lags
  <1> QED
    BY <1>8, <1>9, Zenon DEF IInv

\* tryChangeViewByViewChange: the epoch changes at the switch point only.
LEMMA ByViewChangeInv ==
    ASSUME IInv, tryChangeViewByViewChange
    PROVE  IInv'
  <1> DEFINE switch == EqualSwitchPoint(vp, qc) /\ EpochOf(qc) = view.epoch
  <1>1. /\ mode = "up" /\ mode' = "up" /\ step = "idle" /\ step' = "lastMeta"
        /\ view' = (IF switch THEN View(view.epoch + 1, 0)
                    ELSE View(view.epoch, view.number + 1))
        /\ UNCHANGED <<vp, qc, commit, reactor, worker, journal>>
    BY Zenon DEF tryChangeViewByViewChange
  <1>2. Lags /\ PoolFits /\ ~inserting /\ ~inserting'
    BY <1>1, Zenon DEF IInv, inserting
  <1>3. /\ qc \in Nat /\ view \in Views /\ view.epoch \in {EpochOf(qc), EpochOf(qc + 1)}
        /\ Fits(vp, commit, qc)
    BY <1>2, Zenon DEF Lags, PoolFits, EpochFits
  <1>4. switch => EpochOf(qc + 1) = view.epoch + 1
    <2>1. SUFFICES ASSUME switch PROVE EpochOf(qc + 1) = EpochOf(qc) + 1
      BY Zenon
    <2>2. qc = End(EpochOf(qc + 1) - 1)
      BY <1>3, <2>1, Zenon DEF EqualSwitchPoint, Fits
    <2>3. EpochOf(qc + 1) # EpochOf(qc)
      <3>1. SUFFICES ASSUME EpochOf(qc + 1) = EpochOf(qc) PROVE FALSE
        BY Zenon
      <3>2. qc > 0 /\ qc - 1 \in Nat /\ (qc - 1) + 1 = qc
        BY <1>3, <2>1 DEF EqualSwitchPoint
      <3>3. End(EpochOf((qc - 1) + 1) - 1) <= qc - 1
        BY <3>2, Above, Zenon
      <3> QED
        BY <2>2, <3>1, <3>2, <3>3
    <2> QED
      BY <1>3, <2>3, EpochGrows, Zenon
  <1>5. EpochFits(view', qc)
    BY <1>1, <1>3, <1>4 DEF EpochFits, View, Views
  <1>6. PoolFits'
    BY <1>1, <1>2, <1>5, Zenon DEF PoolFits, EpochFits, Fits
  <1>7. Lags'
    BY <1>1, <1>2, Zenon DEF Lags
  <1> QED
    BY <1>6, <1>7, Zenon DEF IInv

\* ConfirmViewChange: neither the pool nor the view changes.
LEMMA ConfirmInv ==
    ASSUME IInv, ConfirmViewChange
    PROVE  IInv'
  <1>1. /\ mode = "up" /\ mode' = "up"
        /\ UNCHANGED <<vp, view, qc, commit, reactor, worker>>
        /\ journal' \in {None, view}
        /\ inserting' = inserting
    BY DEF ConfirmViewChange, inserting
  <1>2. Lags /\ PoolFits
    BY <1>1, Zenon DEF IInv
  <1>3. Lags'
    BY <1>1, <1>2, Zenon DEF Lags, PoolFits, EpochFits
  <1>4. PoolFits'
    BY <1>1, <1>2, Zenon DEF PoolFits, EpochFits, Fits
  <1> QED
    BY <1>3, <1>4, Zenon DEF IInv

\* Restart: the chain state brings the pool to the highest block that it recovers;
\* an epoch the pool does not know stops the node.
LEMMA RestartInv ==
    ASSUME IInv, NEW v \in Nat, Restart(v)
    PROVE  IInv'
  <1> DEFINE h == worker.head
             c == IF worker.saved = 0 THEN h ELSE worker.saved
             q == IF worker.saved = 0 THEN c ELSE c + 2
             g == recoveryChainState(startAt(h, v), h, worker.saved, v)
             m == Loaded(v)
  <1>1. /\ mode' = (IF m.view.epoch > m.vp.epoch THEN "panic" ELSE "up")
        /\ vp' = m.vp /\ view' = m.view /\ qc' = q /\ commit' = c /\ step' = "idle"
        /\ reactor' = [taken |-> c, irr |-> c]
        /\ worker' = [worker EXCEPT !.taken = c, !.head = c]
        /\ journal' = journal
    BY Zenon DEF Restart
  <1>2. /\ Lags /\ worker \in [taken : Nat, saved : Nat, head : Nat]
        /\ h \in 0..MaxNumber /\ worker.saved \in 0..MaxNumber
        /\ worker.saved \in {0, h, h + 1}
        /\ c \in 0..MaxNumber /\ h <= c /\ c \in Nat /\ h \in Nat
    BY PoolSizes DEF IInv, Lags
  <1>3. Good(g, h, q)
    <2>1. Good(startAt(h, v), h, h)
      BY <1>2, StartGood, Zenon
    <2>2. Good(g, h, IF worker.saved = 0 THEN h ELSE worker.saved + 2)
      BY <1>2, <2>1, RecoverGood, Zenon
    <2> HIDE DEF g
    <2> QED
      BY <2>2, Zenon
  <1>4. q \in Nat /\ c <= q /\ q <= c + 2
    BY <1>2
  <1>5. Lags'
    <2>1. worker' = [taken |-> c, saved |-> worker.saved, head |-> c]
      BY <1>1, <1>2, Zenon
    <2>2. worker.saved \in {0, c} /\ worker.saved \in Nat
      BY <1>2, Zenon
    <2>3. journal' # None => journal' \in Views
      BY <1>1, <1>2, Zenon DEF Lags
    <2> HIDE DEF c, q
    <2> QED
      BY <1>1, <1>2, <1>4, <2>1, <2>2, <2>3 DEF Lags
  <1>6. ~inserting'
    BY <1>1, Zenon DEF inserting
  <1>7. ASSUME mode' = "up" PROVE PoolFits'
    <2>1. m = IF journal = None THEN g
              ELSE tryWalChangeView(g, journal.epoch, journal.number)
      BY Zenon DEF Loaded
    <2>2. ~(m.view.epoch > m.vp.epoch)
      BY <1>1, <1>7, Zenon
    <2>3. /\ g = [vp |-> g.vp, view |-> g.view] /\ g.view \in Views
          /\ g.view.epoch \in {EpochOf(q), EpochOf(q + 1)}
          /\ Fits(g.vp, h, q) /\ g.vp.epoch = EpochOf(q + 1)
      BY <1>3, Zenon DEF Good, EpochFits, Fits
    <2> HIDE DEF g, m, c, h, q
    <2>4. m.vp = g.vp /\ m.view \in Views /\ m.view.epoch >= g.view.epoch
      <3>1. CASE journal = None
        BY <2>1, <2>3, <3>1 DEF Views
      <3>2. CASE journal # None /\ After(g.view, journal.epoch, journal.number)
        <4>1. journal \in Views
          BY <1>2, <3>2, Zenon DEF Lags
        <4>2. m = [g EXCEPT !.view = View(journal.epoch, journal.number)]
          BY <2>1, <3>2, Zenon DEF tryWalChangeView
        <4>3. m.vp = g.vp /\ m.view = View(journal.epoch, journal.number)
          BY <2>3, <4>2, Zenon
        <4>4. journal.epoch >= g.view.epoch
          BY <2>3, <3>2, <4>1 DEF After, Views
        <4> QED
          BY <4>1, <4>3, <4>4, Zenon DEF View, Views
      <3>3. CASE journal # None /\ ~After(g.view, journal.epoch, journal.number)
        <4>1. m = g
          BY <2>1, <3>3, Zenon DEF tryWalChangeView
        <4> QED
          BY <2>3, <4>1 DEF Views
      <3> QED
        BY <3>1, <3>2, <3>3, Zenon
    <2>5. m.view.epoch \in {EpochOf(q), EpochOf(q + 1)}
      <3>1. EpochOf(q) \in Nat /\ EpochOf(q + 1) \in {EpochOf(q), EpochOf(q) + 1}
        BY <1>4, EpochGrows, Zenon
      <3>2. m.view.epoch \in Nat /\ m.view.epoch <= EpochOf(q + 1)
        BY <2>2, <2>3, <2>4, <3>1 DEF Views
      <3> QED
        BY <2>3, <2>4, <3>1, <3>2
    <2>6. Fits(m.vp, c, q)
      <3>1. End(EpochOf(q + 1) - 1) \in Nat
        BY <1>4, Above, Zenon
      <3> QED
        BY <1>2, <2>3, <2>4, <3>1 DEF Fits
    <2> QED
      BY <1>1, <1>4, <1>6, <2>4, <2>5, <2>6, Zenon DEF PoolFits, EpochFits, Fits
  <1> QED
    BY <1>5, <1>7, Zenon DEF IInv

\* FastSyncCommitHead: the pool starts anew at the block of the peer.
LEMMA FastSyncInv ==
    ASSUME IInv, NEW n \in 1..MaxNumber, NEW v \in Nat, FastSyncCommitHead(n, v)
    PROVE  IInv'
  <1>1. /\ mode' = "up" /\ vp' = At(n, EpochOf(n), n) /\ view' = View(EpochOf(n), v)
        /\ qc' = n /\ commit' = n /\ step' = "lastMeta" /\ journal' = journal
        /\ reactor' = [taken |-> n, irr |-> n]
        /\ worker' = [taken |-> n, saved |-> 0, head |-> n]
    BY Zenon DEF FastSyncCommitHead
  <1>2. n \in Nat /\ n \in 0..MaxNumber /\ n # 0 /\ EpochOf(n) \in Nat
    BY EpochBounds, PoolSizes
  <1>3. Lags'
    BY <1>1, <1>2 DEF IInv, Lags
  <1>4. Fits(vp', n, n)
    BY <1>1, <1>2, AtFits, Zenon
  <1>5. PoolFits'
    <2>1. ~inserting'
      BY <1>1 DEF inserting
    <2>2. view' \in Views /\ view'.epoch = EpochOf(n)
      BY <1>1, <1>2 DEF View, Views
    <2>3. EpochFits(view, qc)'
      BY <1>1, <2>2, Zenon DEF EpochFits
    <2>4. (qc <= commit + 2)'
      BY <1>1, <1>2
    <2> QED
      BY <1>1, <1>4, <2>1, <2>3, <2>4, Zenon DEF PoolFits, Fits
  <1> QED
    BY <1>3, <1>5, Zenon DEF IInv

\* The reactor, the worker and a crash leave the pool alone.
LEMMA OthersInv ==
    ASSUME IInv, ReactorTakes \/ WorkerTakes \/ ReactorCommits \/ WorkerWrites \/ Crash
    PROVE  IInv'
  <1>1. /\ UNCHANGED <<vp, view, qc, commit, step, journal>>
        /\ mode' = "up" => mode = "up"
    BY Zenon DEF ReactorTakes, WorkerTakes, ReactorCommits, WorkerWrites, Crash
  <1>2. mode' = "up" => PoolFits'
    BY <1>1, Zenon DEF IInv, PoolFits, inserting, EpochFits, Fits
  <1>3. CASE ReactorTakes \/ ReactorCommits
    <2>1. Lags'
      BY <1>1, <1>3 DEF IInv, Lags, ReactorTakes, ReactorCommits
    <2> QED
      BY <1>2, <2>1, Zenon DEF IInv
  <1>4. CASE WorkerTakes \/ WorkerWrites
    <2>1. Lags'
      BY <1>1, <1>4 DEF IInv, Lags, WorkerTakes, WorkerWrites
    <2> QED
      BY <1>2, <2>1, Zenon DEF IInv
  <1>5. CASE Crash
    <2>1. Lags'
      BY <1>1, <1>5, Zenon DEF IInv, Lags, Crash
    <2> QED
      BY <1>2, <2>1, Zenon DEF IInv
  <1> QED
    BY <1>3, <1>4, <1>5, Zenon

\* Every step preserves the invariant.
LEMMA PoolStep == IInv /\ [Next]_vpVars => IInv'
  <1> SUFFICES ASSUME IInv, [Next]_vpVars PROVE IInv'
    BY Zenon
  <1>1. \A v \in 0..LastView : v \in Nat
    BY PoolSizes
  <1>2. CASE \E v \in 0..LastView : Insert(v)
    BY <1>1, <1>2, InsertInv, Zenon
  <1>3. CASE \E v \in 0..LastView : Restart(v)
    BY <1>1, <1>3, RestartInv, Zenon
  <1>4. CASE \E n \in 1..MaxNumber, v \in 0..LastView : FastSyncCommitHead(n, v)
    BY <1>1, <1>4, FastSyncInv, Zenon
  <1>5. CASE \E full \in BOOLEAN : tryChangeView(full)
    BY <1>5, ChangeInv, Zenon
  <1>6. CASE tryChangeViewByViewChange
    BY <1>6, ByViewChangeInv, Zenon
  <1>7. CASE ConfirmViewChange
    BY <1>7, ConfirmInv, Zenon
  <1>8. CASE ReactorTakes \/ WorkerTakes \/ ReactorCommits \/ WorkerWrites \/ Crash
    BY <1>8, OthersInv, Zenon
  <1>9. CASE UNCHANGED vpVars
    BY <1>9, Zenon DEF vpVars, IInv, Lags, PoolFits, inserting, EpochFits, Fits
  <1> QED
    BY <1>2, <1>3, <1>4, <1>5, <1>6, <1>7, <1>8, <1>9, Zenon DEF Next

(* The pool answers with the elected validators, however the reactor and    *)
(* the worker are scheduled and whenever the process crashes, for rounds of *)
(* any length and elections at least three blocks before the end.           *)
THEOREM PoolRight == Spec => []LookupsRight
  BY InitInv, PoolStep, InvLookups, PTL DEF Spec
=============================================================================

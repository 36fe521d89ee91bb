---------------------------- MODULE Inbox_proofs ----------------------------
(***************************************************************************)
(* Proofs about Inbox, for every set of peers and of messages, every limit *)
(* and every size of the channels and of the history.                      *)
(***************************************************************************)
EXTENDS Inbox, FiniteSetTheorems, TLAPS

(* The messages of peer p in channel ch *)
Positions(ch, p) == {i \in 1..Len(ch) : ch[i].peer = p}
Count(ch, p) == Cardinality(Positions(ch, p))

Envelope == [peer : Peer, msg : Offered]
Held == [msg : Offered, checked : BOOLEAN]

TypeInv ==
    /\ at \in [Peer -> {Idle} \cup Held]
    /\ queues \in [Peer -> Int]
    /\ peerMsgCh \in Seq(Envelope) /\ syncMsgCh \in Seq(Envelope)
    /\ handled \in [Offered -> Nat] /\ dropped \in [Peer -> Nat]

(* What was accepted is in the history or was evicted from it.              *)
Remembered ==
    \A m \in Offered : handled[m] > 0 => m \in history \cup evicted

IInv == TypeInv /\ Accounted /\ Remembered /\ AcceptedOnce

-----------------------------------------------------------------------------
(* Channels *)

\* The positions of a peer in a channel are a finite set.
LEMMA CountNat ==
    ASSUME NEW ch \in Seq(Envelope), NEW p \in Peer
    PROVE  IsFiniteSet(Positions(ch, p)) /\ Count(ch, p) \in Nat
<1>1. Len(ch) \in Nat
  OBVIOUS
<1>2. IsFiniteSet(1..Len(ch))
  BY <1>1, FS_Interval
<1>3. Positions(ch, p) \in SUBSET (1..Len(ch))
  BY DEF Positions
<1> QED
  BY <1>2, <1>3, FS_Subset, FS_CardinalityType DEF Count

\* A message sent to a channel counts for its peer only.
LEMMA CountAppend ==
    ASSUME NEW ch \in Seq(Envelope), NEW x \in Envelope, NEW p \in Peer
    PROVE  Count(Append(ch, x), p) = Count(ch, p) + (IF x.peer = p THEN 1 ELSE 0)
<1>1. CASE x.peer = p
  <2>1. Positions(Append(ch, x), p) = Positions(ch, p) \cup {Len(ch) + 1}
    BY <1>1 DEF Positions
  <2>2. Len(ch) + 1 \notin Positions(ch, p)
    BY DEF Positions
  <2>3. IsFiniteSet(Positions(ch, p)) /\ Cardinality(Positions(ch, p)) \in Nat
    BY CountNat DEF Count
  <2>4. Cardinality(Positions(ch, p) \cup {Len(ch) + 1}) = Cardinality(Positions(ch, p)) + 1
    BY <2>2, <2>3, FS_AddElement, Zenon
  <2> QED
    BY <1>1, <2>1, <2>4 DEF Count
<1>2. CASE x.peer # p
  <2>1. Positions(Append(ch, x), p) = Positions(ch, p)
    BY <1>2 DEF Positions
  <2> QED
    BY <1>2, <2>1, CountNat DEF Count
<1> QED
  BY <1>1, <1>2

\* A message received from a channel no longer counts for its peer.
LEMMA CountTail ==
    ASSUME NEW ch \in Seq(Envelope), ch # <<>>, NEW p \in Peer
    PROVE  Count(Tail(ch), p) = Count(ch, p) - (IF Head(ch).peer = p THEN 1 ELSE 0)
<1> DEFINE P == Positions(ch, p) \ {1}
           Q == Positions(Tail(ch), p)
           shift == [i \in Q |-> i + 1]
<1>1. Tail(ch) \in Seq(Envelope) /\ Len(Tail(ch)) = Len(ch) - 1
  OBVIOUS
<1>2. \A i \in 1..Len(Tail(ch)) : Tail(ch)[i] = ch[i + 1]
  OBVIOUS
<1>3. \A i \in Q : i + 1 \in P
  BY <1>1, <1>2 DEF Positions
<1>4. \A j \in P : j - 1 \in Q /\ (j - 1) + 1 = j
  BY <1>1, <1>2 DEF Positions
<1>5. shift \in [Q -> P]
  BY <1>3
<1>6. \A i, j \in Q : shift[i] = shift[j] => i = j
  BY DEF Positions
<1>7. \A j \in P : \E i \in Q : shift[i] = j
  BY <1>4
<1>8. ExistsBijection(Q, P)
  <2> HIDE DEF P, Q, shift
  <2>1. shift \in Injection(Q, P)
    BY <1>5, <1>6 DEF Injection, IsInjective
  <2>2. shift \in Surjection(Q, P)
    BY <1>5, <1>7 DEF Surjection
  <2> QED
    BY <2>1, <2>2 DEF ExistsBijection, Bijection
<1>9. Cardinality(P) = Cardinality(Q)
  BY <1>8, <1>1, CountNat, FS_Bijection
<1>10. 1 \in Positions(ch, p) <=> Head(ch).peer = p
  BY DEF Positions
<1>11. Cardinality(P) = IF 1 \in Positions(ch, p) THEN Count(ch, p) - 1 ELSE Count(ch, p)
  BY CountNat, FS_RemoveElement DEF Count
<1>12. Count(Tail(ch), p) = Cardinality(Q) /\ Count(ch, p) \in Nat
  BY CountNat DEF Count
<1> HIDE DEF P, Q
<1> QED
  BY <1>9, <1>10, <1>11, <1>12

\* What a peer has in flight, by the two channels and its goroutine.
LEMMA InFlightSum ==
    ASSUME NEW p \in Peer
    PROVE  InFlight(p) = Count(peerMsgCh, p) + Count(syncMsgCh, p)
                         + (IF at[p] = Idle THEN 0 ELSE 1)
BY DEF InFlight, Count, Positions

-----------------------------------------------------------------------------
(* The steps *)

\* A new engine has nothing in flight and has accepted nothing.
LEMMA InitInv == Init => IInv
<1> SUFFICES ASSUME Init PROVE IInv
  OBVIOUS
<1>1. TypeInv
  BY DEF Init, TypeInv
<1>2. ASSUME NEW p \in Peer PROVE InFlight(p) = 0
  <2>1. Positions(<<>>, p) = {}
    BY DEF Positions
  <2>2. Count(<<>>, p) = 0
    BY <2>1, FS_EmptySet DEF Count
  <2> QED
    BY <2>2, InFlightSum DEF Init
<1>3. Accounted
  BY <1>2, InboxAssumption DEF Accounted, Init
<1>4. Remembered /\ AcceptedOnce
  BY DEF Remembered, AcceptedOnce, Init
<1> QED
  BY <1>1, <1>3, <1>4 DEF IInv

\* Receive counts a message that it takes, and takes none at the limit.
LEMMA ReceiveInv ==
    ASSUME IInv, NEW p \in Peer, NEW m \in Offered, Receive(p, m)
    PROVE  IInv'
<1> USE DEF IInv
<1>1. UNCHANGED <<peerMsgCh, syncMsgCh, history, handled, evicted, dropped>>
  BY DEF Receive
<1>2. \/ UNCHANGED <<queues, at>>
      \/ /\ at[p] = Idle /\ recordMessage(p)
         /\ at' = [at EXCEPT ![p] = [msg |-> m, checked |-> isSync(m)]]
  BY DEF Receive
<1>3. TypeInv'
  <2>1. [msg |-> m, checked |-> isSync(m)] \in Held
    BY DEF Held, isSync
  <2>2. at' \in [Peer -> {Idle} \cup Held]
    BY <1>2, <2>1 DEF TypeInv
  <2>3. queues' \in [Peer -> Int]
    BY <1>2 DEF TypeInv, recordMessage
  <2> QED
    BY <1>1, <2>2, <2>3 DEF TypeInv
<1>4. ASSUME NEW q \in Peer
      PROVE  (queues[q] = InFlight(q) + dropped[q] /\ queues[q] <= MaxQueuesLimit)'
  <2>1. /\ queues[q] = InFlight(q) + dropped[q] /\ queues[q] <= MaxQueuesLimit
        /\ queues[q] \in Int /\ queues[p] \in Int /\ dropped[q] \in Nat
    BY DEF Accounted, TypeInv
  <2>2. Count(peerMsgCh, q) \in Nat /\ Count(syncMsgCh, q) \in Nat
    BY CountNat DEF TypeInv
  <2>3. InFlight(q)' = Count(peerMsgCh, q) + Count(syncMsgCh, q)
                       + (IF at'[q] = Idle THEN 0 ELSE 1)
    BY <1>1 DEF InFlight, Count, Positions
  <2>4. CASE UNCHANGED <<queues, at>>
    BY <1>1, <2>1, <2>2, <2>3, <2>4, InFlightSum
  <2>5. CASE /\ at[p] = Idle /\ recordMessage(p)
             /\ at' = [at EXCEPT ![p] = [msg |-> m, checked |-> isSync(m)]]
    <3>1. /\ q # p => at'[q] = at[q] /\ queues'[q] = queues[q]
          /\ queues'[p] = queues[p] + 1 /\ queues'[p] <= MaxQueuesLimit
      BY <2>5 DEF recordMessage, TypeInv
    <3>2. at'[p] # Idle
      <4>1. [msg |-> m, checked |-> isSync(m)] \in Held
        BY DEF Held, isSync
      <4> QED BY <2>5, <4>1, InboxAssumption DEF Held, TypeInv
    <3>3. dropped' = dropped
      BY <1>1
    <3> QED
      BY <2>1, <2>2, <2>3, <2>5, <3>1, <3>2, <3>3, InFlightSum
  <2> QED
    BY <1>2, <2>4, <2>5
<1>5. Accounted'
  BY <1>4 DEF Accounted
<1>6. Remembered' /\ AcceptedOnce'
  BY <1>1 DEF Remembered, AcceptedOnce
<1> QED
  BY <1>3, <1>5, <1>6

\* A repeat that the first check finds is forgotten once.
LEMMA FirstCheckInv ==
    ASSUME IInv, NEW p \in Peer, FirstCheck(p)
    PROVE  IInv'
<1> USE DEF IInv
<1>1. /\ UNCHANGED <<peerMsgCh, syncMsgCh, history, handled, evicted, dropped>>
      /\ at[p] # Idle
  BY DEF FirstCheck
<1>2. \/ forgetMessage(p) /\ at' = [at EXCEPT ![p] = Idle]
      \/ at' = [at EXCEPT ![p].checked = TRUE] /\ UNCHANGED queues
  BY DEF FirstCheck
<1>3. TypeInv'
  <2>1. [at[p] EXCEPT !.checked = TRUE] \in Held
    BY <1>1 DEF Held, TypeInv
  <2>2. at' \in [Peer -> {Idle} \cup Held]
    BY <1>2, <2>1 DEF TypeInv
  <2>3. queues' \in [Peer -> Int]
    BY <1>2 DEF TypeInv, forgetMessage
  <2> QED
    BY <1>1, <2>2, <2>3 DEF TypeInv
<1>4. ASSUME NEW q \in Peer
      PROVE  (queues[q] = InFlight(q) + dropped[q] /\ queues[q] <= MaxQueuesLimit)'
  <2>1. /\ queues[q] = InFlight(q) + dropped[q] /\ queues[q] <= MaxQueuesLimit
        /\ queues[q] \in Int /\ queues[p] \in Int /\ MaxQueuesLimit \in Nat
        /\ dropped[q] \in Nat
    BY InboxAssumption DEF Accounted, TypeInv
  <2>2. Count(peerMsgCh, q) \in Nat /\ Count(syncMsgCh, q) \in Nat
    BY CountNat DEF TypeInv
  <2>3. InFlight(q)' = Count(peerMsgCh, q) + Count(syncMsgCh, q)
                       + (IF at'[q] = Idle THEN 0 ELSE 1)
    BY <1>1 DEF InFlight, Count, Positions
  <2>4. /\ q # p => at'[q] = at[q] /\ queues'[q] = queues[q]
        /\ \/ at'[p] = Idle /\ queues'[p] = queues[p] - 1
           \/ at'[p] # Idle /\ queues'[p] = queues[p]
    <3>1. [at[p] EXCEPT !.checked = TRUE] # Idle
      <4>1. [at[p] EXCEPT !.checked = TRUE] \in Held
        BY <1>1 DEF Held, TypeInv
      <4> QED BY <4>1, InboxAssumption DEF Held
    <3> QED BY <1>1, <1>2, <3>1 DEF forgetMessage, TypeInv
  <2> QED
    BY <1>1, <2>1, <2>2, <2>3, <2>4, InFlightSum
<1>5. Accounted'
  BY <1>4 DEF Accounted
<1>6. Remembered' /\ AcceptedOnce'
  BY <1>1 DEF Remembered, AcceptedOnce
<1> QED
  BY <1>3, <1>5, <1>6

\* A message moves from the goroutine to its channel, or is lost at a full
\* one, and stays counted either way.
LEMMA EnqueueInv ==
    ASSUME IInv, NEW p \in Peer, Enqueue(p)
    PROVE  IInv'
<1> USE DEF IInv
<1> DEFINE x == Flying(p, at[p].msg)
<1>1. /\ UNCHANGED <<queues, history, handled, evicted>>
      /\ at[p] # Idle /\ at' = [at EXCEPT ![p] = Idle]
  BY DEF Enqueue
<1>2. x \in Envelope /\ x.peer = p
  BY <1>1 DEF TypeInv, Flying, Envelope, Held
<1>3. \/ UNCHANGED <<peerMsgCh, syncMsgCh>> /\ dropped' = [dropped EXCEPT ![p] = @ + 1]
      \/ peerMsgCh' = Append(peerMsgCh, x) /\ UNCHANGED <<syncMsgCh, dropped>>
      \/ syncMsgCh' = Append(syncMsgCh, x) /\ UNCHANGED <<peerMsgCh, dropped>>
  BY DEF Enqueue, offer
<1> HIDE DEF x
<1>4. TypeInv'
  <2>1. at' \in [Peer -> {Idle} \cup Held]
    BY <1>1 DEF TypeInv
  <2>2. \A ch \in Seq(Envelope) : Append(ch, x) \in Seq(Envelope)
    BY <1>2
  <2>3. peerMsgCh' \in Seq(Envelope) /\ syncMsgCh' \in Seq(Envelope)
    BY <1>3, <2>2 DEF TypeInv
  <2>4. dropped' \in [Peer -> Nat]
    BY <1>3 DEF TypeInv
  <2> QED
    BY <1>1, <2>1, <2>3, <2>4 DEF TypeInv
<1>5. ASSUME NEW q \in Peer
      PROVE  (queues[q] = InFlight(q) + dropped[q] /\ queues[q] <= MaxQueuesLimit)'
  <2>1. /\ queues[q] = InFlight(q) + dropped[q] /\ queues[q] <= MaxQueuesLimit
        /\ queues[q] \in Int /\ dropped[q] \in Nat
    BY DEF Accounted, TypeInv
  <2>2. Count(peerMsgCh, q) \in Nat /\ Count(syncMsgCh, q) \in Nat
    BY CountNat DEF TypeInv
  <2>3. InFlight(q)' = Count(peerMsgCh', q) + Count(syncMsgCh', q)
                       + (IF at'[q] = Idle THEN 0 ELSE 1)
    BY DEF InFlight, Count, Positions
  <2>4. (q # p => at'[q] = at[q]) /\ at'[p] = Idle
    BY <1>1 DEF TypeInv
  <2>5. Count(peerMsgCh', q) + Count(syncMsgCh', q) + dropped'[q]
           = Count(peerMsgCh, q) + Count(syncMsgCh, q) + dropped[q] + (IF q = p THEN 1 ELSE 0)
    <3>1. /\ Count(Append(peerMsgCh, x), q) = Count(peerMsgCh, q) + (IF x.peer = q THEN 1 ELSE 0)
          /\ Count(Append(syncMsgCh, x), q) = Count(syncMsgCh, q) + (IF x.peer = q THEN 1 ELSE 0)
      BY <1>2, CountAppend DEF TypeInv
    <3>2. CASE UNCHANGED <<peerMsgCh, syncMsgCh>> /\ dropped' = [dropped EXCEPT ![p] = @ + 1]
      <4>1. dropped'[q] = dropped[q] + (IF q = p THEN 1 ELSE 0)
        BY <3>2 DEF TypeInv
      <4>2. Count(peerMsgCh', q) = Count(peerMsgCh, q) /\ Count(syncMsgCh', q) = Count(syncMsgCh, q)
        BY <3>2
      <4>3. dropped[q] \in Nat /\ (IF q = p THEN 1 ELSE 0) \in Nat
        BY <2>1
      <4> QED BY <2>2, <4>1, <4>2, <4>3
    <3>3. CASE peerMsgCh' = Append(peerMsgCh, x) /\ UNCHANGED <<syncMsgCh, dropped>>
      <4>1. /\ Count(peerMsgCh', q) = Count(peerMsgCh, q) + (IF q = p THEN 1 ELSE 0)
            /\ Count(syncMsgCh', q) = Count(syncMsgCh, q) /\ dropped'[q] = dropped[q]
        BY <1>2, <3>1, <3>3
      <4>2. dropped[q] \in Nat /\ (IF q = p THEN 1 ELSE 0) \in Nat
        BY <2>1
      <4> QED BY <2>2, <4>1, <4>2
    <3>4. CASE syncMsgCh' = Append(syncMsgCh, x) /\ UNCHANGED <<peerMsgCh, dropped>>
      <4>1. /\ Count(syncMsgCh', q) = Count(syncMsgCh, q) + (IF q = p THEN 1 ELSE 0)
            /\ Count(peerMsgCh', q) = Count(peerMsgCh, q) /\ dropped'[q] = dropped[q]
        BY <1>2, <3>1, <3>4
      <4>2. dropped[q] \in Nat /\ (IF q = p THEN 1 ELSE 0) \in Nat
        BY <2>1
      <4> QED BY <2>2, <4>1, <4>2
    <3> QED
      BY <1>3, <3>2, <3>3, <3>4
  <2>6. Count(peerMsgCh', q) \in Nat /\ Count(syncMsgCh', q) \in Nat /\ dropped'[q] \in Nat
    BY <1>4, CountNat DEF TypeInv
  <2> QED
    BY <1>1, <2>1, <2>2, <2>3, <2>4, <2>5, <2>6, InFlightSum
<1>6. Accounted'
  BY <1>5 DEF Accounted
<1>7. Remembered' /\ AcceptedOnce'
  BY <1>1 DEF Remembered, AcceptedOnce
<1> QED
  BY <1>4, <1>6, <1>7

\* Whichever channel a message is taken from, receiveLoop forgets it once.
LEMMA ForgetInv ==
    ASSUME TypeInv, Accounted, NEW x \in Envelope, UNCHANGED <<at, dropped>>,
           forgetMessage(x.peer),
           \/ /\ peerMsgCh # <<>> /\ x = Head(peerMsgCh)
              /\ peerMsgCh' = Tail(peerMsgCh) /\ UNCHANGED syncMsgCh
           \/ /\ syncMsgCh # <<>> /\ x = Head(syncMsgCh)
              /\ syncMsgCh' = Tail(syncMsgCh) /\ UNCHANGED peerMsgCh
    PROVE  /\ queues' \in [Peer -> Int]
           /\ peerMsgCh' \in Seq(Envelope) /\ syncMsgCh' \in Seq(Envelope)
           /\ Accounted'
<1>1. queues' \in [Peer -> Int]
  <2>1. x.peer \in Peer /\ queues \in [Peer -> Int]
    BY DEF TypeInv, Envelope
  <2>2. queues[x.peer] \in Int
    BY <2>1
  <2> QED
    BY <2>1, <2>2 DEF forgetMessage
<1>2. peerMsgCh' \in Seq(Envelope) /\ syncMsgCh' \in Seq(Envelope)
  <2>1. peerMsgCh \in Seq(Envelope) /\ syncMsgCh \in Seq(Envelope)
    BY DEF TypeInv
  <2>2. \A ch \in Seq(Envelope) : ch # <<>> => Tail(ch) \in Seq(Envelope)
    OBVIOUS
  <2> QED
    BY <2>1, <2>2
<1>3. ASSUME NEW q \in Peer
      PROVE  (queues[q] = InFlight(q) + dropped[q] /\ queues[q] <= MaxQueuesLimit)'
  <2>1. /\ queues[q] = InFlight(q) + dropped[q] /\ queues[q] <= MaxQueuesLimit
        /\ queues[q] \in Int /\ MaxQueuesLimit \in Nat /\ dropped[q] \in Nat
    BY InboxAssumption DEF Accounted, TypeInv
  <2>2. Count(peerMsgCh, q) \in Nat /\ Count(syncMsgCh, q) \in Nat
    BY CountNat DEF TypeInv
  <2>3. InFlight(q)' = Count(peerMsgCh', q) + Count(syncMsgCh', q)
                       + (IF at[q] = Idle THEN 0 ELSE 1)
    BY DEF InFlight, Count, Positions
  <2>4. queues'[q] = IF x.peer = q THEN queues[q] - 1 ELSE queues[q]
    <3>1. queues \in [Peer -> Int] /\ x.peer \in Peer
      BY DEF TypeInv, Envelope
    <3>2. queues' = [queues EXCEPT ![x.peer] = queues[x.peer] - 1]
      BY DEF forgetMessage
    <3> QED BY <3>1, <3>2
  <2>5. Count(peerMsgCh', q) + Count(syncMsgCh', q)
           = Count(peerMsgCh, q) + Count(syncMsgCh, q) - (IF x.peer = q THEN 1 ELSE 0)
    <3>1. CASE peerMsgCh # <<>> /\ x = Head(peerMsgCh)
               /\ peerMsgCh' = Tail(peerMsgCh) /\ UNCHANGED syncMsgCh
      <4>1. Count(peerMsgCh', q) = Count(peerMsgCh, q) - (IF x.peer = q THEN 1 ELSE 0)
        BY <3>1, CountTail DEF TypeInv
      <4> QED
        BY <2>2, <3>1, <4>1
    <3>2. CASE syncMsgCh # <<>> /\ x = Head(syncMsgCh)
               /\ syncMsgCh' = Tail(syncMsgCh) /\ UNCHANGED peerMsgCh
      <4>1. Count(syncMsgCh', q) = Count(syncMsgCh, q) - (IF x.peer = q THEN 1 ELSE 0)
        BY <3>2, CountTail DEF TypeInv
      <4> QED
        BY <2>2, <3>2, <4>1
    <3> QED
      BY <3>1, <3>2
  <2>6. Count(peerMsgCh', q) \in Nat /\ Count(syncMsgCh', q) \in Nat
    BY <1>2, CountNat
  <2>7. InFlight(q) = Count(peerMsgCh, q) + Count(syncMsgCh, q)
                      + (IF at[q] = Idle THEN 0 ELSE 1)
    BY InFlightSum
  <2>8. InFlight(q)' = InFlight(q) - (IF x.peer = q THEN 1 ELSE 0)
    <3> DEFINE n == Count(peerMsgCh, q)   n1 == Count(peerMsgCh', q)
               m == Count(syncMsgCh, q)   m1 == Count(syncMsgCh', q)
               k == IF at[q] = Idle THEN 0 ELSE 1
               f == InFlight(q)'
               d == IF x.peer = q THEN 1 ELSE 0
    <3>1. n \in Nat /\ m \in Nat /\ n1 \in Nat /\ m1 \in Nat /\ k \in Nat /\ d \in Nat
      BY <2>2, <2>6
    <3>2. f = n1 + m1 + k /\ n1 + m1 = n + m - d /\ InFlight(q) = n + m + k
      BY <2>3, <2>5, <2>7
    <3> HIDE DEF n, m, n1, m1, k, f, d
    <3>3. f = InFlight(q) - d
      BY <3>1, <3>2
    <3> QED BY <3>3 DEF f, d
  <2>9. InFlight(q) \in Nat
    BY <2>2, <2>7
  <2> QED
    <3>1. CASE x.peer = q
      <4>1. InFlight(q)' = InFlight(q) - 1 /\ queues'[q] = queues[q] - 1
        BY <2>4, <2>8, <3>1
      <4>2. dropped'[q] = dropped[q] /\ dropped[q] \in Nat
        BY DEF TypeInv
      <4> DEFINE f == InFlight(q)
                 u == queues[q]
                 d == dropped[q]
      <4>3. u - 1 = (f - 1) + d /\ u - 1 <= MaxQueuesLimit
        <5>1. u = f + d /\ u <= MaxQueuesLimit /\ MaxQueuesLimit \in Nat
              /\ u \in Int /\ f \in Nat /\ d \in Nat
          BY <2>1, <2>9, <4>2
        <5> HIDE DEF f, u, d
        <5> QED BY <5>1
      <4> QED BY <4>1, <4>2, <4>3
    <3>2. CASE x.peer # q
      <4>1. InFlight(q)' = InFlight(q) /\ queues'[q] = queues[q]
        BY <2>4, <2>8, <2>9, <3>2
      <4>2. dropped'[q] = dropped[q]
        BY DEF TypeInv
      <4> QED BY <2>1, <4>1, <4>2
    <3> QED BY <3>1, <3>2
<1> QED
  BY <1>1, <1>2, <1>3 DEF Accounted

\* A message is accepted only while the history does not have it.  If it was
\* accepted before, the history has evicted it.
LEMMA AcceptOnce ==
    ASSUME TypeInv, Remembered, AcceptedOnce, NEW m \in Offered, m \notin history,
           Accept(m)
    PROVE  handled' \in [Offered -> Nat] /\ Remembered' /\ AcceptedOnce'
<1>1. handled' = [handled EXCEPT ![m] = @ + 1]
  BY DEF Accept
<1>2. handled' \in [Offered -> Nat]
  BY <1>1 DEF TypeInv
<1>3. /\ m \in history' /\ evicted \subseteq evicted'
      /\ history \cup evicted \subseteq history' \cup evicted'
  BY DEF Accept, MarkHistory
<1>4. handled[m] \in Nat /\ (handled[m] > 0 => m \in evicted)
  BY DEF TypeInv, Remembered
<1>5. handled'[m] = handled[m] + 1 /\ \A n \in Offered \ {m} : handled'[n] = handled[n]
  BY <1>1 DEF TypeInv
<1>6. Remembered'
  BY <1>3, <1>5 DEF Remembered
<1>7. AcceptedOnce'
  BY <1>3, <1>4, <1>5 DEF AcceptedOnce
<1> QED
  BY <1>2, <1>6, <1>7

\* The handler of consensus messages
LEMMA HandleConsensusInv ==
    ASSUME IInv, handleConsensusMsg
    PROVE  IInv'
<1> USE DEF IInv
<1> DEFINE x == Head(peerMsgCh)
<1>1. /\ peerMsgCh # <<>> /\ peerMsgCh' = Tail(peerMsgCh)
      /\ UNCHANGED <<at, syncMsgCh, dropped>> /\ forgetMessage(x.peer)
  BY DEF handleConsensusMsg
<1>2. x \in Envelope /\ x.msg \in Offered
  <2>1. x \in Envelope
    BY <1>1 DEF TypeInv
  <2> QED
    BY <2>1 DEF Envelope
<1>3. \/ UNCHANGED <<handled, history, evicted>>
      \/ x.msg \notin history /\ Accept(x.msg)
  BY DEF handleConsensusMsg, Refuse
<1>4. /\ queues' \in [Peer -> Int]
      /\ peerMsgCh' \in Seq(Envelope) /\ syncMsgCh' \in Seq(Envelope)
      /\ Accounted'
  BY <1>1, <1>2, ForgetInv
<1> HIDE DEF x
<1>5. handled' \in [Offered -> Nat] /\ Remembered' /\ AcceptedOnce'
  <2>1. CASE UNCHANGED <<handled, history, evicted>>
    BY <2>1 DEF TypeInv, Remembered, AcceptedOnce
  <2>2. CASE x.msg \notin history /\ Accept(x.msg)
    BY <1>2, <2>2, AcceptOnce
  <2> QED
    BY <1>3, <2>1, <2>2
<1>6. TypeInv'
  BY <1>1, <1>4, <1>5 DEF TypeInv
<1> QED
  BY <1>4, <1>5, <1>6

\* The handler of sync messages
LEMMA HandleSyncInv ==
    ASSUME IInv, handleSyncMsg
    PROVE  IInv'
<1> USE DEF IInv
<1> DEFINE x == Head(syncMsgCh)
<1>1. /\ syncMsgCh # <<>> /\ syncMsgCh' = Tail(syncMsgCh) /\ forgetMessage(x.peer)
      /\ UNCHANGED <<at, peerMsgCh, handled, history, evicted, dropped>>
  BY DEF handleSyncMsg
<1>2. x \in Envelope
  BY <1>1 DEF TypeInv
<1>3. /\ queues' \in [Peer -> Int]
      /\ peerMsgCh' \in Seq(Envelope) /\ syncMsgCh' \in Seq(Envelope)
      /\ Accounted'
  BY <1>1, <1>2, ForgetInv
<1>4. TypeInv'
  BY <1>1, <1>3 DEF TypeInv
<1>5. Remembered' /\ AcceptedOnce'
  BY <1>1 DEF Remembered, AcceptedOnce
<1> QED
  BY <1>3, <1>4, <1>5

\* Changes of view, pauses and stuttering steps touch none of it.
LEMMA OthersInv ==
    ASSUME IInv,
           UNCHANGED <<at, queues, peerMsgCh, syncMsgCh, history, handled, evicted, dropped>>
    PROVE  IInv'
BY DEF IInv, TypeInv, Accounted, InFlight, Remembered, AcceptedOnce

\* IInv is an invariant.
LEMMA InboxInvariant == Spec => []IInv
<1>1. ASSUME IInv, [Next]_vars PROVE IInv'
  <2>1. CASE Next
    <3>1. CASE \E p \in Peer : (\E m \in Offered : Receive(p, m)) \/ FirstCheck(p) \/ Enqueue(p)
      BY <1>1, <3>1, ReceiveInv, FirstCheckInv, EnqueueInv
    <3>2. CASE handleConsensusMsg
      BY <1>1, <3>2, HandleConsensusInv
    <3>3. CASE handleSyncMsg
      BY <1>1, <3>3, HandleSyncInv
    <3>4. CASE changeView \/ \E s \in {"running", "fetching", "syncing"} : Pause(s)
      BY <1>1, <3>4, OthersInv DEF changeView, Pause
    <3> QED
      BY <2>1, <3>1, <3>2, <3>3, <3>4 DEF Next
  <2>2. CASE UNCHANGED vars
    BY <1>1, <2>2, OthersInv DEF vars
  <2> QED
    BY <1>1, <2>1, <2>2
<1> QED
  BY <1>1, InitInv, PTL DEF Spec

-----------------------------------------------------------------------------
(* The theorems *)

\* However the goroutines of the peers, receiveLoop and the pauses interleave,
\* the counter of a peer is what it has in flight and what was discarded at a full
\* channel, and stays within the limit: recordMessage and forgetMessage are paired
\* on every path but that one.
THEOREM CountersExact == Spec => []Accounted
<1>1. IInv => Accounted
  BY DEF IInv
<1> QED
  BY <1>1, InboxInvariant, PTL

\* No message is accepted a second time unless the history has forgotten it,
\* although the check of ReceiveMessage may be stale by the time the message is
\* handled.
THEOREM NoRepeats == Spec => []AcceptedOnce
<1>1. IInv => AcceptedOnce
  BY DEF IInv
<1> QED
  BY <1>1, InboxInvariant, PTL

-----------------------------------------------------------------------------
(* CSMsgPool *)

(* The minimum is where changeView put it, or the initial one, which no     *)
(* epoch of a message reaches.                                              *)
MinOK ==
    /\ min \in [epoch : Nat, view : Nat]
    /\ min.epoch <= MaxEpoch \/ min.epoch = MaxEpoch + 2

SlotsOK ==
    cache \subseteq [slot : [kind : {"block", "vote", "qc"}, epoch : 0..MaxEpoch,
                             view : Nat, key : Key],
                     msg : Msg]

PoolInv == MinOK /\ SlotsOK /\ AdmissibleOnly

(* PoolInv is preserved by Add: what Add files passed the check of          *)
(* invalidEpochView, unless it is a certificate.                            *)
LEMMA AddPreserves ==
    ASSUME PoolInv, NEW m \in Msg, NEW inner \in BOOLEAN, Add(m, inner)
    PROVE  PoolInv'
BY PoolAssumption DEF PoolInv, MinOK, SlotsOK, AdmissibleOnly, Add, filed, Msg, invalidEpochView

(* PoolInv is preserved by Get, which only removes. *)
LEMMA GetPreserves ==
    ASSUME PoolInv, NEW s \in Slot, Get(s)
    PROVE  PoolInv'
BY Zenon DEF PoolInv, MinOK, SlotsOK, AdmissibleOnly, Get, invalidEpochView

(* PoolInv is preserved by Purge: an entry that is left was admissible for  *)
(* the old minimum and is not below the new one.                            *)
LEMMA PurgePreserves ==
    ASSUME PoolInv, NEW e \in 0..MaxEpoch, NEW v \in 0..MaxView, later(e, v), Purge(e, v)
    PROVE  PoolInv'
<1>1. MinOK' /\ SlotsOK'
  BY PoolAssumption DEF PoolInv, MinOK, SlotsOK, Purge
<1>2. ASSUME NEW c \in cache', c.slot.kind # "qc"
      PROVE  ~invalidEpochView(c.slot.epoch, c.slot.view)'
  <2>1. c \in cache /\ c.slot.epoch >= e /\ c.slot.view >= v
    BY <1>2, Zenon DEF Purge
  <2>2. c.slot.epoch \in 0..MaxEpoch /\ c.slot.view \in Nat
    BY <2>1, Zenon DEF PoolInv, SlotsOK
  <2>3. \/ c.slot.epoch = min.epoch /\ c.slot.view \in {min.view, min.view + 1}
        \/ c.slot.epoch = min.epoch + 1 /\ c.slot.view = 0
    BY <1>2, <2>1, Zenon DEF PoolInv, AdmissibleOnly, invalidEpochView
  <2>4. min'.epoch = e /\ min'.view = v
    BY Zenon DEF Purge
  <2>5. \/ c.slot.epoch = e /\ c.slot.view \in {v, v + 1}
        \/ c.slot.epoch = e + 1 /\ c.slot.view = 0
    BY <2>1, <2>2, <2>3, PoolAssumption DEF PoolInv, MinOK, later
  <2> QED BY <2>4, <2>5, Zenon DEF invalidEpochView
<1> QED BY <1>1, <1>2, Zenon DEF PoolInv, AdmissibleOnly

(* The inductive invariant: nothing inadmissible is filed, and the minimum  *)
(* is reached by the epochs of the messages only after the first Purge.     *)
LEMMA PoolInvariant == PoolSpec => []PoolInv
<1>1. PoolInit => PoolInv
  BY PoolAssumption DEF PoolInit, PoolInv, MinOK, SlotsOK, AdmissibleOnly
<1>2. PoolInv /\ [PoolNext]_poolVars => PoolInv'
  <2>1. ASSUME PoolInv, UNCHANGED poolVars PROVE PoolInv'
    BY <2>1, Zenon DEF PoolInv, MinOK, SlotsOK, AdmissibleOnly, invalidEpochView, poolVars
  <2>2. ASSUME PoolInv, PoolNext PROVE PoolInv'
    BY <2>2, AddPreserves, GetPreserves, PurgePreserves, Zenon DEF PoolNext
  <2> QED BY <2>1, <2>2, Zenon
<1> QED BY <1>1, <1>2, PTL DEF PoolSpec

(* Package types by itself, for callers that add messages as inner ones or  *)
(* not: whatever is added, taken and purged, the cache holds blocks and     *)
(* votes of the current view, the next one and the first of the next epoch  *)
(* only.                                                                    *)
THEOREM Admissible == PoolSpec => []AdmissibleOnly
<1>1. PoolInv => AdmissibleOnly
  BY Zenon DEF PoolInv
<1> QED BY <1>1, PoolInvariant, PTL
=============================================================================

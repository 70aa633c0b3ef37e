--------------------------- MODULE EventBusProofs ---------------------------
(***************************************************************************)
(* Proofs about the event bus, for any number of subscribers, any channel  *)
(* bound and any number of events: the shape of its state, the order of    *)
(* what a client is sent, and that only a full channel loses an event.     *)
(***************************************************************************)
EXTENDS EventBus, TLAPS

\* The bus starts with no subscriber and nothing published.
LEMMA BusTypeInit == BusInit => BusTypeOK
  BY BoundAssumption DEF BusInit, BusTypeOK

\* The type invariant is inductive on its own.
LEMMA BusTypeStep == BusTypeOK /\ [BusNext]_busVars => BusTypeOK'
<1> SUFFICES ASSUME BusTypeOK, [BusNext]_busVars PROVE BusTypeOK'
  OBVIOUS
<1> USE BoundAssumption
<1>1. ASSUME NEW event \in Events, Publish(event), UNCHANGED streamVars
      PROVE  BusTypeOK'
  <2> DEFINE n == Len(log) + 1
  <2>1. log' = Append(log, event) /\ log' \in Seq(Events) /\ Len(log') = n /\ Len(log) \in Nat
    BY <1>1 DEF Publish, BusTypeOK
  <2>2. \A q \in Seq(1 .. Len(log)) :
           /\ q \in Seq(1 .. Len(log'))
           /\ Append(q, n) \in Seq(1 .. Len(log'))
           /\ Len(Append(q, n)) = Len(q) + 1
    BY <2>1
  <2>3. queue' \in [Subscribers -> Seq(1 .. Len(log'))]
    BY <1>1, <2>1, <2>2 DEF Publish, BusTypeOK
  <2>4. ASSUME NEW s \in Subscribers PROVE Len(queue'[s]) <= Bound
    BY <1>1, <2>2 DEF Publish, BusTypeOK
  <2>5. missed' \in [Subscribers -> SUBSET (1 .. Len(log'))]
    BY <1>1, <2>1 DEF Publish, BusTypeOK
  <2>6. delivered' \in [Subscribers -> Seq(1 .. Len(log'))]
    BY <1>1, <2>1, <2>2 DEF streamVars, BusTypeOK
  <2>7. /\ hand' \in [Subscribers -> 0 .. Len(log')]
        /\ since' \in [Subscribers -> 0 .. Len(log')]
    BY <1>1, <2>1 DEF streamVars, BusTypeOK
  <2>8. /\ subs' \subseteq Subscribers /\ present' \subseteq Subscribers
        /\ stream' \in [Subscribers -> {"none", "connecting", "streaming", "ended"}]
    BY <1>1 DEF streamVars, BusTypeOK, Publish
  <2> QED
    BY <2>1, <2>3, <2>4, <2>5, <2>6, <2>7, <2>8 DEF BusTypeOK
<1>2. ASSUME NEW s \in Subscribers, Subscribe(s) PROVE BusTypeOK'
  BY <1>2 DEF Subscribe, BusTypeOK
<1>3. ASSUME NEW s \in Subscribers, StreamConnected(s) PROVE BusTypeOK'
  BY <1>3 DEF StreamConnected, BusTypeOK
<1>4. ASSUME NEW s \in Subscribers, Take(s) PROVE BusTypeOK'
  <2>1. /\ queue[s] \in Seq(1 .. Len(log)) /\ queue[s] # <<>>
        /\ Head(queue[s]) \in 1 .. Len(log)
        /\ Tail(queue[s]) \in Seq(1 .. Len(log))
        /\ Len(Tail(queue[s])) = Len(queue[s]) - 1
        /\ Len(queue[s]) \in Nat /\ Len(queue[s]) <= Bound
    BY <1>4 DEF Take, BusTypeOK
  <2> QED
    BY <1>4, <2>1 DEF Take, BusTypeOK
<1>5. ASSUME NEW s \in Subscribers, Write(s) PROVE BusTypeOK'
  <2>1. Append(delivered[s], hand[s]) \in Seq(1 .. Len(log))
    BY <1>5 DEF Write, BusTypeOK
  <2> QED
    BY <1>5, <2>1 DEF Write, BusTypeOK
<1>6. ASSUME NEW s \in Subscribers, WriteFails(s) PROVE BusTypeOK'
  <2>1. <<>> \in Seq(1 .. Len(log)) /\ Len(<<>>) = 0
    OBVIOUS
  <2> QED
    BY <1>6, <2>1 DEF WriteFails, BusTypeOK
<1>7. ASSUME NEW s \in Subscribers, ClientLeaves(s) PROVE BusTypeOK'
  BY <1>7 DEF ClientLeaves, BusTypeOK
<1>8. CASE UNCHANGED busVars
  BY <1>8 DEF busVars, streamVars, BusTypeOK
<1> QED
  BY <1>1, <1>2, <1>3, <1>4, <1>5, <1>6, <1>7, <1>8 DEF BusNext, StreamNext, StreamThread

\* The bus and its streams keep their shape, and no channel outgrows its bound,
\* whatever is published (EventBus::publish, handle_sse_stream).
THEOREM BusTypeCorrect == BusSpec => []BusTypeOK
  BY BusTypeInit, BusTypeStep, PTL DEF BusSpec

-----------------------------------------------------------------------------
(* Order.  What is on its way to a client is delivered \o InHand \o queue;    *)
(* the parts are increasing and each lies below the next.                  *)

\* The order of the three parts, one conjunct for each pair of them.
OrderInv ==
    \A s \in Subscribers :
        /\ Increasing(delivered[s]) /\ Increasing(queue[s])
        /\ \A i \in DOMAIN delivered[s], j \in DOMAIN queue[s] : delivered[s][i] < queue[s][j]
        /\ hand[s] # 0 =>
              /\ \A i \in DOMAIN delivered[s] : delivered[s][i] < hand[s]
              /\ \A j \in DOMAIN queue[s] : hand[s] < queue[s][j]

\* Appending a larger number keeps a sequence increasing.
LEMMA IncreasingAppend ==
    ASSUME NEW q \in Seq(Nat), NEW n \in Nat, Increasing(q), \A i \in DOMAIN q : q[i] < n
    PROVE  Increasing(Append(q, n))
<1> DEFINE r == Append(q, n)
<1>1. /\ DOMAIN q = 1 .. Len(q) /\ DOMAIN r = 1 .. (Len(q) + 1) /\ Len(q) \in Nat
      /\ \A i \in DOMAIN q : r[i] = q[i]
      /\ r[Len(q) + 1] = n
  OBVIOUS
<1> HIDE DEF r
<1>2. ASSUME NEW i \in DOMAIN r, NEW j \in DOMAIN r, i < j PROVE r[i] < r[j]
  <2>1. i \in DOMAIN q /\ r[i] = q[i]
    BY <1>1, <1>2
  <2>2. CASE j \in DOMAIN q
    BY <1>1, <1>2, <2>1, <2>2 DEF Increasing
  <2>3. CASE j = Len(q) + 1
    BY <1>1, <2>1, <2>3
  <2> QED
    BY <1>1, <2>2, <2>3
<1> QED
  BY <1>2 DEF Increasing, r

\* Increasing sequences, the one below the other, make an increasing sequence.
LEMMA IncreasingConcat ==
    ASSUME NEW p \in Seq(Nat), NEW q \in Seq(Nat), Increasing(p), Increasing(q),
           \A i \in DOMAIN p, j \in DOMAIN q : p[i] < q[j]
    PROVE  Increasing(p \o q)
<1> DEFINE r == p \o q
<1>1. /\ DOMAIN p = 1 .. Len(p) /\ DOMAIN q = 1 .. Len(q) /\ DOMAIN r = 1 .. (Len(p) + Len(q))
      /\ Len(p) \in Nat /\ Len(q) \in Nat
      /\ \A i \in DOMAIN r : r[i] = IF i <= Len(p) THEN p[i] ELSE q[i - Len(p)]
  OBVIOUS
<1> HIDE DEF r
<1>2. ASSUME NEW i \in DOMAIN r, NEW j \in DOMAIN r, i < j PROVE r[i] < r[j]
  <2>1. CASE j <= Len(p)
    BY <1>1, <1>2, <2>1 DEF Increasing
  <2>2. CASE i <= Len(p) /\ j > Len(p)
    BY <1>1, <1>2, <2>2
  <2>3. CASE i > Len(p)
    <3>1. i - Len(p) \in DOMAIN q /\ j - Len(p) \in DOMAIN q /\ i - Len(p) < j - Len(p)
      BY <1>1, <1>2, <2>3
    <3>2. q[i - Len(p)] < q[j - Len(p)]
      BY <3>1 DEF Increasing
    <3> QED
      BY <1>1, <1>2, <2>3, <3>2
  <2> QED
    BY <1>1, <2>1, <2>2, <2>3
<1> QED
  BY <1>2 DEF Increasing, r

\* The parts are in order exactly if their concatenation is.
LEMMA OrderSuffices == BusTypeOK /\ OrderInv => DeliveredInOrder
<1> SUFFICES ASSUME BusTypeOK, OrderInv, NEW s \in Subscribers
             PROVE  Increasing(delivered[s] \o InHand(s) \o queue[s])
  BY DEF DeliveredInOrder
<1> DEFINE d == delivered[s]
           h == InHand(s)
           q == queue[s]
<1>1. d \in Seq(Nat) /\ q \in Seq(Nat) /\ h \in Seq(Nat) /\ hand[s] \in Nat
  BY DEF BusTypeOK, InHand
<1>2. /\ Increasing(d) /\ Increasing(q)
      /\ \A i \in DOMAIN d, j \in DOMAIN q : d[i] < q[j]
  BY DEF OrderInv
<1>3. /\ \A i \in DOMAIN d, j \in DOMAIN h : d[i] < h[j]
      /\ \A i \in DOMAIN h, j \in DOMAIN q : h[i] < q[j]
      /\ Increasing(h)
  BY <1>1 DEF OrderInv, InHand, Increasing
<1>4. Increasing(d \o h) /\ d \o h \in Seq(Nat)
  BY <1>1, <1>2, <1>3, IncreasingConcat
<1>5. \A i \in DOMAIN (d \o h), j \in DOMAIN q : (d \o h)[i] < q[j]
  BY <1>1, <1>2, <1>3
<1> HIDE DEF d, h, q
<1>6. Increasing((d \o h) \o q)
  BY <1>1, <1>2, <1>4, <1>5, IncreasingConcat
<1> QED
  BY <1>6 DEF d, h, q

LEMMA OrderStep == BusTypeOK /\ OrderInv /\ [BusNext]_busVars => OrderInv'
<1> SUFFICES ASSUME BusTypeOK, OrderInv, [BusNext]_busVars PROVE OrderInv'
  OBVIOUS
<1>1. ASSUME NEW event \in Events, Publish(event), UNCHANGED streamVars
      PROVE  OrderInv'
  <2> SUFFICES ASSUME NEW s \in Subscribers
               PROVE  /\ Increasing(delivered[s]) /\ Increasing(queue'[s])
                      /\ \A i \in DOMAIN delivered[s], j \in DOMAIN queue'[s] :
                            delivered[s][i] < queue'[s][j]
                      /\ hand[s] # 0 =>
                            /\ \A i \in DOMAIN delivered[s] : delivered[s][i] < hand[s]
                            /\ \A j \in DOMAIN queue'[s] : hand[s] < queue'[s][j]
    BY <1>1 DEF OrderInv, streamVars
  <2> DEFINE n == Len(log) + 1
  <2>1. /\ queue[s] \in Seq(1 .. Len(log)) /\ delivered[s] \in Seq(1 .. Len(log))
        /\ hand[s] \in 0 .. Len(log) /\ Len(log) \in Nat
    BY DEF BusTypeOK
  <2>2. queue'[s] = queue[s] \/ queue'[s] = Append(queue[s], n)
    BY <1>1 DEF Publish
  <2>3. CASE queue'[s] = queue[s]
    BY <2>3 DEF OrderInv
  <2>4. CASE queue'[s] = Append(queue[s], n)
    <3>1. /\ DOMAIN queue'[s] = 1 .. (Len(queue[s]) + 1)
          /\ DOMAIN queue[s] = 1 .. Len(queue[s]) /\ Len(queue[s]) \in Nat
          /\ \A j \in DOMAIN queue[s] : queue'[s][j] = queue[s][j] /\ queue[s][j] \in 1 .. Len(log)
          /\ queue'[s][Len(queue[s]) + 1] = n
      BY <2>1, <2>4
    <3>2. \A i \in DOMAIN delivered[s] : delivered[s][i] \in 1 .. Len(log)
      BY <2>1
    <3>3. Increasing(queue'[s])
      <4>1. queue[s] \in Seq(Nat) /\ n \in Nat /\ \A j \in DOMAIN queue[s] : queue[s][j] < n
        BY <2>1
      <4> QED
        BY <2>4, <4>1, IncreasingAppend DEF OrderInv
    <3>4. Increasing(delivered[s])
      BY DEF OrderInv
    <3>5. ASSUME NEW j \in DOMAIN queue'[s]
          PROVE  queue'[s][j] = n \/ (j \in DOMAIN queue[s] /\ queue'[s][j] = queue[s][j])
      BY <3>1
    <3>8. /\ \A i \in DOMAIN delivered[s], j \in DOMAIN queue[s] : delivered[s][i] < queue[s][j]
          /\ hand[s] # 0 => \A j \in DOMAIN queue[s] : hand[s] < queue[s][j]
      BY DEF OrderInv
    <3>6. ASSUME NEW i \in DOMAIN delivered[s], NEW j \in DOMAIN queue'[s]
          PROVE  delivered[s][i] < queue'[s][j]
      <4>1. CASE queue'[s][j] = n
        BY <2>1, <3>2, <4>1
      <4> QED
        BY <3>5, <3>8, <4>1
    <3>7. ASSUME hand[s] # 0, NEW j \in DOMAIN queue'[s] PROVE hand[s] < queue'[s][j]
      <4>1. CASE queue'[s][j] = n
        BY <2>1, <4>1
      <4> QED
        BY <3>5, <3>7, <3>8, <4>1
    <3> QED
      BY <3>3, <3>4, <3>6, <3>7 DEF OrderInv
  <2> QED
    BY <2>2, <2>3, <2>4
<1>2. ASSUME NEW s \in Subscribers, Take(s) PROVE OrderInv'
  <2>1. /\ queue[s] \in Seq(1 .. Len(log)) /\ queue[s] # <<>> /\ hand[s] = 0
        /\ queue' = [queue EXCEPT ![s] = Tail(queue[s])]
        /\ hand' = [hand EXCEPT ![s] = Head(queue[s])]
        /\ UNCHANGED delivered
    BY <1>2 DEF Take, BusTypeOK
  <2>2. /\ queue'[s] = Tail(queue[s]) /\ hand'[s] = queue[s][1]
        /\ Len(queue[s]) \in Nat /\ Len(queue[s]) >= 1
        /\ DOMAIN queue[s] = 1 .. Len(queue[s])
        /\ DOMAIN queue'[s] = 1 .. (Len(queue[s]) - 1)
        /\ \A j \in DOMAIN queue'[s] : queue'[s][j] = queue[s][j + 1]
    BY <2>1 DEF BusTypeOK
  <2>3. Increasing(queue'[s])
    BY <2>2 DEF OrderInv, Increasing
  <2>4. /\ \A i \in DOMAIN delivered[s], j \in DOMAIN queue'[s] : delivered[s][i] < queue'[s][j]
        /\ \A i \in DOMAIN delivered[s] : delivered[s][i] < hand'[s]
    BY <2>2 DEF OrderInv
  <2>5. \A j \in DOMAIN queue'[s] : hand'[s] < queue'[s][j]
    BY <2>2 DEF OrderInv, Increasing
  <2>6. \A r \in Subscribers \ {s} : queue'[r] = queue[r] /\ hand'[r] = hand[r]
    BY <2>1 DEF BusTypeOK
  <2> QED
    BY <2>1, <2>3, <2>4, <2>5, <2>6 DEF OrderInv, Increasing
<1>3. ASSUME NEW s \in Subscribers, Write(s) PROVE OrderInv'
  <2>1. /\ delivered[s] \in Seq(1 .. Len(log)) /\ hand[s] \in 1 .. Len(log)
        /\ delivered' = [delivered EXCEPT ![s] = Append(delivered[s], hand[s])]
        /\ hand' = [hand EXCEPT ![s] = 0]
        /\ UNCHANGED queue
    BY <1>3 DEF Write, BusTypeOK
  <2>2. /\ hand'[s] = 0
        /\ Len(delivered[s]) \in Nat /\ DOMAIN delivered[s] = 1 .. Len(delivered[s])
        /\ DOMAIN delivered'[s] = 1 .. (Len(delivered[s]) + 1)
        /\ \A i \in DOMAIN delivered[s] : delivered'[s][i] = delivered[s][i]
        /\ delivered'[s][Len(delivered[s]) + 1] = hand[s]
    BY <2>1 DEF BusTypeOK
  <2>3. Increasing(delivered'[s])
    BY <2>1, <2>2 DEF OrderInv, Increasing
  <2>4. \A i \in DOMAIN delivered'[s], j \in DOMAIN queue[s] : delivered'[s][i] < queue[s][j]
    BY <2>1, <2>2 DEF OrderInv
  <2>5. \A r \in Subscribers \ {s} : delivered'[r] = delivered[r] /\ hand'[r] = hand[r]
    BY <2>1 DEF BusTypeOK
  <2> QED
    BY <2>1, <2>2, <2>3, <2>4, <2>5 DEF OrderInv, Increasing
<1>4. ASSUME NEW s \in Subscribers, WriteFails(s) PROVE OrderInv'
  <2>1. /\ queue' = [queue EXCEPT ![s] = <<>>] /\ hand' = [hand EXCEPT ![s] = 0]
        /\ UNCHANGED delivered
    BY <1>4 DEF WriteFails
  <2>2. queue'[s] = <<>> /\ hand'[s] = 0 /\ DOMAIN <<>> = {}
    BY <2>1 DEF BusTypeOK
  <2>3. \A r \in Subscribers \ {s} : queue'[r] = queue[r] /\ hand'[r] = hand[r]
    BY <2>1 DEF BusTypeOK
  <2> QED
    BY <2>1, <2>2, <2>3 DEF OrderInv, Increasing
<1>5. ASSUME UNCHANGED <<delivered, queue, hand>> PROVE OrderInv'
  BY <1>5 DEF OrderInv, Increasing
<1>6. ASSUME NEW s \in Subscribers, Subscribe(s) \/ StreamConnected(s) \/ ClientLeaves(s)
      PROVE  UNCHANGED <<delivered, queue, hand>>
  BY <1>6 DEF Subscribe, StreamConnected, ClientLeaves
<1>7. CASE UNCHANGED busVars
  BY <1>5, <1>7 DEF busVars, streamVars
<1> QED
  BY <1>1, <1>2, <1>3, <1>4, <1>5, <1>6, <1>7 DEF BusNext, StreamNext, StreamThread

\* Every client is sent events in the order of publication, none of them twice,
\* for any channel bound and however its thread is scheduled (EventBus::publish
\* and the loop of handle_sse_stream).
THEOREM BusOrderCorrect == BusSpec => []DeliveredInOrder
<1>1. BusInit => OrderInv
  BY DEF BusInit, OrderInv, Increasing
<1> QED
  BY <1>1, BusTypeCorrect, OrderStep, OrderSuffices, PTL DEF BusSpec

-----------------------------------------------------------------------------
(* Loss.  A subscriber that has not subscribed yet holds nothing, so it    *)
(* starts with an account that is settled; every step moves a position     *)
(* from one part of the account to the next.                               *)

Fresh == \A s \in Subscribers :
             stream[s] = "none" =>
                 queue[s] = <<>> /\ delivered[s] = <<>> /\ hand[s] = 0 /\ missed[s] = {}

\* The positions accounted for.
Account(s) == Range(delivered[s]) \cup Range(InHand(s)) \cup Range(queue[s]) \cup missed[s]

\* What Append, and taking off the head, do to the elements of a sequence.
LEMMA RangeAppend ==
    ASSUME NEW q \in Seq(Nat), NEW n \in Nat
    PROVE  Range(Append(q, n)) = Range(q) \cup {n}
<1> DEFINE r == Append(q, n)
<1>1. /\ DOMAIN q = 1 .. Len(q) /\ DOMAIN r = 1 .. (Len(q) + 1) /\ Len(q) \in Nat
      /\ \A i \in DOMAIN q : r[i] = q[i]
      /\ r[Len(q) + 1] = n
  OBVIOUS
<1> HIDE DEF r
<1>2. DOMAIN r = DOMAIN q \cup {Len(q) + 1}
  BY <1>1
<1>3. Range(r) = Range(q) \cup {n}
  BY <1>1, <1>2 DEF Range
<1> QED
  BY <1>3 DEF r

LEMMA RangeTail ==
    ASSUME NEW q \in Seq(Nat), q # <<>>
    PROVE  Range(q) = {Head(q)} \cup Range(Tail(q))
<1> DEFINE r == Tail(q)
<1>1. /\ DOMAIN q = 1 .. Len(q) /\ Len(q) \in Nat /\ Len(q) >= 1
      /\ DOMAIN r = 1 .. (Len(q) - 1)
      /\ \A i \in DOMAIN r : r[i] = q[i + 1]
      /\ Head(q) = q[1]
  OBVIOUS
<1> HIDE DEF r
<1>2. ASSUME NEW x \in Range(q) PROVE x \in {Head(q)} \cup Range(r)
  <2>1. PICK i \in DOMAIN q : x = q[i]
    BY DEF Range
  <2>2. CASE i # 1
    <3>1. i - 1 \in DOMAIN r /\ r[i - 1] = q[i]
      BY <1>1, <2>2
    <3> QED
      BY <2>1, <3>1 DEF Range
  <2> QED
    BY <1>1, <2>1, <2>2
<1>3. ASSUME NEW x \in Range(r) PROVE x \in Range(q)
  <2>1. PICK i \in DOMAIN r : x = r[i]
    BY DEF Range
  <2>2. i + 1 \in DOMAIN q /\ q[i + 1] = x
    BY <1>1, <2>1
  <2> QED
    BY <2>2 DEF Range
<1>4. Head(q) \in Range(q)
  BY <1>1 DEF Range
<1> QED
  BY <1>2, <1>3, <1>4 DEF r

LEMMA LossStep ==
    BusTypeOK /\ Fresh /\ NothingLost /\ [BusNext]_busVars => Fresh' /\ NothingLost'
<1> SUFFICES ASSUME BusTypeOK, Fresh, NothingLost, [BusNext]_busVars
             PROVE  Fresh' /\ NothingLost'
  OBVIOUS
<1>a. \A r \in Subscribers :
        Receiving(r) => r \in subs /\ Account(r) = (since[r] + 1) .. Len(log)
  BY DEF NothingLost, Account
<1>b. SUFFICES /\ Fresh'
               /\ \A r \in Subscribers :
                    Receiving(r)' => r \in subs' /\ Account(r)' = (since'[r] + 1) .. Len(log')
  BY DEF NothingLost, Account
<1>c. \A r \in Subscribers :
        /\ queue[r] \in Seq(Nat) /\ delivered[r] \in Seq(Nat)
        /\ hand[r] \in Nat /\ since[r] \in 0 .. Len(log)
  BY DEF BusTypeOK
<1>d. Len(log) \in Nat /\ log \in Seq(Events) /\ Range(<<>>) = {}
  BY DEF BusTypeOK, Range
<1>1. ASSUME NEW event \in Events, Publish(event), UNCHANGED streamVars
      PROVE  Fresh' /\ \A r \in Subscribers :
                Receiving(r)' => r \in subs' /\ Account(r)' = (since'[r] + 1) .. Len(log')
  <2> DEFINE n == Len(log) + 1
  <2>1. Len(log') = n
    BY <1>1, <1>d DEF Publish
  <2>2. ASSUME NEW r \in Subscribers, ~Receiving(r)
        PROVE  queue'[r] = queue[r] /\ missed'[r] = missed[r]
    BY <1>1, <2>2 DEF Publish
  <2>3. ASSUME NEW r \in Subscribers, Receiving(r)'
        PROVE  r \in subs' /\ Account(r)' = (since'[r] + 1) .. Len(log')
    <3>1. Receiving(r) /\ r \in subs /\ r \in subs'
      BY <1>1, <1>a, <2>3 DEF Receiving, streamVars, Publish
    <3>2. \/ queue'[r] = Append(queue[r], n) /\ missed'[r] = missed[r]
          \/ queue'[r] = queue[r] /\ missed'[r] = missed[r] \cup {n}
      BY <1>1, <3>1 DEF Publish
    <3>3. Range(queue'[r]) \cup missed'[r] = Range(queue[r]) \cup missed[r] \cup {n}
      <4>1. Range(Append(queue[r], n)) = Range(queue[r]) \cup {n}
        BY <1>c, <1>d, RangeAppend
      <4> QED
        BY <3>2, <4>1
    <3>4. delivered'[r] = delivered[r] /\ InHand(r)' = InHand(r) /\ since'[r] = since[r]
      BY <1>1 DEF streamVars, InHand
    <3>5. Account(r)' = Account(r) \cup {n}
      BY <3>3, <3>4 DEF Account
    <3>6. ((since[r] + 1) .. Len(log)) \cup {n} = (since[r] + 1) .. n
      BY <1>c, <1>d
    <3> QED
      BY <1>a, <2>1, <3>1, <3>4, <3>5, <3>6
  <2>4. Fresh'
    BY <1>1, <2>2 DEF Fresh, streamVars, Receiving
  <2> QED
    BY <2>3, <2>4
<1>2. ASSUME NEW s \in Subscribers, Subscribe(s)
      PROVE  Fresh' /\ \A r \in Subscribers :
                Receiving(r)' => r \in subs' /\ Account(r)' = (since'[r] + 1) .. Len(log')
  <2>1. \A r \in Subscribers : Account(r)' = Account(r)
    BY <1>2 DEF Subscribe, Account, InHand
  <2>2. Account(s) = {} /\ since'[s] = Len(log)
    BY <1>2, <1>d DEF Subscribe, Fresh, Account, InHand, BusTypeOK
  <2>3. \A r \in Subscribers \ {s} : since'[r] = since[r] /\ Receiving(r)' = Receiving(r)
    BY <1>2 DEF Subscribe, Receiving, BusTypeOK
  <2>4. subs' = subs \cup {s} /\ log' = log
    BY <1>2 DEF Subscribe
  <2>5. Fresh'
    BY <1>2 DEF Subscribe, Fresh, BusTypeOK
  <2>6. (Len(log) + 1) .. Len(log) = {}
    BY <1>d
  <2> QED
    BY <1>a, <2>1, <2>2, <2>3, <2>4, <2>5, <2>6
<1>3. ASSUME NEW s \in Subscribers, Take(s)
      PROVE  Fresh' /\ \A r \in Subscribers :
                Receiving(r)' => r \in subs' /\ Account(r)' = (since'[r] + 1) .. Len(log')
  <2>1. /\ queue' = [queue EXCEPT ![s] = Tail(queue[s])] /\ hand[s] = 0 /\ queue[s] # <<>>
        /\ hand' = [hand EXCEPT ![s] = Head(queue[s])]
        /\ UNCHANGED <<log, subs, missed, stream, delivered, since>>
    BY <1>3 DEF Take
  <2>2. \A r \in Subscribers \ {s} : queue'[r] = queue[r] /\ hand'[r] = hand[r]
    BY <2>1 DEF BusTypeOK
  <2>3. queue'[s] = Tail(queue[s]) /\ hand'[s] = Head(queue[s]) /\ hand'[s] # 0
    BY <2>1 DEF BusTypeOK
  <2>4. Range(InHand(s)') \cup Range(queue'[s]) = Range(InHand(s)) \cup Range(queue[s])
    <3>1. InHand(s)' = <<Head(queue[s])>> /\ InHand(s) = <<>>
      BY <2>1, <2>3 DEF InHand
    <3>2. Range(<<Head(queue[s])>>) = {Head(queue[s])}
      BY DEF Range
    <3> QED
      BY <1>c, <1>d, <2>1, <2>3, <3>1, <3>2, RangeTail
  <2>5. Account(s)' = Account(s)
    BY <2>1, <2>4 DEF Account
  <2>6. \A r \in Subscribers \ {s} : Account(r)' = Account(r)
    BY <2>1, <2>2 DEF Account, InHand
  <2>7. Fresh'
    BY <1>3, <2>1, <2>2 DEF Fresh, Take
  <2> QED
    BY <1>a, <2>1, <2>5, <2>6, <2>7 DEF Receiving
<1>4. ASSUME NEW s \in Subscribers, Write(s)
      PROVE  Fresh' /\ \A r \in Subscribers :
                Receiving(r)' => r \in subs' /\ Account(r)' = (since'[r] + 1) .. Len(log')
  <2>1. /\ delivered' = [delivered EXCEPT ![s] = Append(delivered[s], hand[s])] /\ hand[s] # 0
        /\ hand' = [hand EXCEPT ![s] = 0]
        /\ UNCHANGED <<log, subs, missed, stream, queue, since>>
    BY <1>4 DEF Write
  <2>2. \A r \in Subscribers \ {s} : delivered'[r] = delivered[r] /\ hand'[r] = hand[r]
    BY <2>1 DEF BusTypeOK
  <2>3. delivered'[s] = Append(delivered[s], hand[s]) /\ hand'[s] = 0
    BY <2>1 DEF BusTypeOK
  <2>4. Range(InHand(s)') \cup Range(delivered'[s]) = Range(InHand(s)) \cup Range(delivered[s])
    <3>1. InHand(s) = <<hand[s]>> /\ InHand(s)' = <<>>
      BY <2>1, <2>3 DEF InHand
    <3>2. Range(<<hand[s]>>) = {hand[s]}
      BY DEF Range
    <3> QED
      BY <1>c, <1>d, <2>3, <3>1, <3>2, RangeAppend
  <2>5. Account(s)' = Account(s)
    BY <2>1, <2>4 DEF Account
  <2>6. \A r \in Subscribers \ {s} : Account(r)' = Account(r)
    BY <2>1, <2>2 DEF Account, InHand
  <2>7. Fresh'
    BY <1>4, <2>1, <2>2 DEF Fresh, Write
  <2> QED
    BY <1>a, <2>1, <2>5, <2>6, <2>7 DEF Receiving
<1>5. ASSUME NEW s \in Subscribers, WriteFails(s)
      PROVE  Fresh' /\ \A r \in Subscribers :
                Receiving(r)' => r \in subs' /\ Account(r)' = (since'[r] + 1) .. Len(log')
  <2>1. /\ queue' = [queue EXCEPT ![s] = <<>>] /\ hand' = [hand EXCEPT ![s] = 0]
        /\ stream' = [stream EXCEPT ![s] = "ended"]
        /\ UNCHANGED <<log, subs, missed, delivered, since>>
    BY <1>5 DEF WriteFails
  <2>2. \A r \in Subscribers \ {s} :
           queue'[r] = queue[r] /\ hand'[r] = hand[r] /\ stream'[r] = stream[r]
    BY <2>1 DEF BusTypeOK
  <2>3. stream'[s] = "ended" /\ ~Receiving(s)'
    BY <2>1 DEF BusTypeOK, Receiving
  <2>4. \A r \in Subscribers \ {s} : Account(r)' = Account(r) /\ Receiving(r)' = Receiving(r)
    BY <2>1, <2>2 DEF Account, InHand, Receiving
  <2>5. Fresh'
    BY <2>1, <2>2, <2>3 DEF Fresh
  <2> QED
    BY <1>a, <2>1, <2>3, <2>4, <2>5
<1>6. ASSUME NEW s \in Subscribers, StreamConnected(s)
      PROVE  Fresh' /\ \A r \in Subscribers :
                Receiving(r)' => r \in subs' /\ Account(r)' = (since'[r] + 1) .. Len(log')
  <2>1. \A r \in Subscribers : Account(r)' = Account(r) /\ Receiving(r)' = Receiving(r)
    BY <1>6 DEF StreamConnected, Account, InHand, Receiving, BusTypeOK
  <2>2. Fresh'
    BY <1>6 DEF StreamConnected, Fresh, BusTypeOK
  <2> QED
    BY <1>6, <1>a, <2>1, <2>2 DEF StreamConnected
<1>7. ASSUME UNCHANGED <<log, subs, queue, missed, stream, hand, delivered, since>>
      PROVE  Fresh' /\ \A r \in Subscribers :
                Receiving(r)' => r \in subs' /\ Account(r)' = (since'[r] + 1) .. Len(log')
  BY <1>7, <1>a DEF Fresh, Receiving, Account, InHand
<1>8. CASE UNCHANGED busVars
  BY <1>7, <1>8 DEF busVars, streamVars
<1>9. ASSUME NEW s \in Subscribers, ClientLeaves(s)
      PROVE  UNCHANGED <<log, subs, queue, missed, stream, hand, delivered, since>>
  BY <1>9 DEF ClientLeaves
<1> QED
  BY <1>1, <1>2, <1>3, <1>4, <1>5, <1>6, <1>7, <1>8, <1>9
     DEF BusNext, StreamNext, StreamThread

\* As long as its stream runs, a subscriber has been sent, or still has coming,
\* every event since it subscribed but those its full channel refused, for any
\* bound (EventBus::publish and the loop of handle_sse_stream).
THEOREM BusLossCorrect == BusSpec => []NothingLost
<1>1. BusInit => Fresh /\ NothingLost
  BY DEF BusInit, Fresh, NothingLost, Receiving
<1> QED
  BY <1>1, BusTypeCorrect, LossStep, PTL DEF BusSpec
=============================================================================

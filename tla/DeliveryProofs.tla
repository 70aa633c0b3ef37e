--------------------------- MODULE DeliveryProofs ---------------------------
(***************************************************************************)
(* Proofs about cxtx.  Its delivery, for any number of proxy tasks, any    *)
(* size of the channel and any number of turns and failures: what CXDB     *)
(* holds is in order and complete, the ledger tells the truth about it,    *)
(* and outages are recorded in pairs.  Its capture, for any number of      *)
(* conversations in any formats, and any errors: what the session takes    *)
(* for recorded was uploaded.                                              *)
(***************************************************************************)
EXTENDS Delivery, Capture, Induction, FiniteSetTheorems, SequenceTheorems, TLAPS

Senders == Tasks \cup {"main"}
Turns   == [kind : {"start", "end", "turn", "degraded", "recovered"}, ordinal : Nat,
            by : Senders \cup {"worker"}]
Items   == Turns \cup {CreateItem}
Msgs    == Items \cup {ShutdownMsg}

Ledgers == [state : {"starting", "child_launch_failed", "healthy", "degraded"}, context : Nat,
            appended : SUBSET Nat]

\* The shape of the state.
DeliveryTypeOK ==
    /\ main \in {"spawn", "create", "start", "wait", "ending", "proxy", "shutdown", "drain", "done"}
    /\ worker \in {"top", "drain", "early", "register", "post", "done"}
    /\ shutdown \in {"no", "asked", "late"}
    /\ todo \in [Senders -> Seq(Turns)]
    /\ channel \in Seq(Msgs) /\ queue \in Seq(Items)
    /\ stored \in Seq([context : Nat, turn : Turns])
    /\ ordinal \in Nat /\ contextId \in Nat /\ contexts \in Nat /\ lost \in Nat
    /\ degraded \in BOOLEAN /\ recovery \in BOOLEAN
    /\ ledger \in Ledgers
    /\ sent \subseteq Turns

-----------------------------------------------------------------------------
(* The inductive invariant, in parts.                                      *)

StoredTurns == {stored[i].turn : i \in DOMAIN stored}
Waiting     == IF queue = <<>> THEN {} ELSE ToSet(Tail(queue))   \* behind the front

\* run() has a turn in hand where it sends one; the worker has an item in hand,
\* and a context if it is appending.
HandsInv ==
    /\ main \in {"start", "ending"} => Len(todo["main"]) = 1
    /\ main \notin {"start", "ending"} => todo["main"] = <<>>
    /\ worker \in {"drain", "early", "register", "post"} => queue # <<>>
    /\ worker = "register" \/ (worker = "post" /\ Head(queue) # CreateItem)
          => contextId # 0 /\ Head(queue) # CreateItem

\* One message before another on the way: turns of one task in the order of
\* their ordinals, one create item, one shutdown, no turn of run() behind it.
Before(u, v) ==
    /\ u \in Turns /\ v \in Turns /\ u.by = v.by => u.ordinal < v.ordinal
    /\ u = CreateItem => v # CreateItem
    /\ u = ShutdownMsg => v # ShutdownMsg /\ (v \in Turns => v.by # "main")
Below(us, vs) == \A u \in us, v \in vs : Before(u, v)
InOrder(seq)  == \A i, j \in DOMAIN seq : i < j => Before(seq[i], seq[j])

\* Messages wait in order, and each stage is behind the one after it.
FlowInv ==
    /\ InOrder(queue) /\ InOrder(channel)
    /\ Below(ToSet(queue), ToSet(channel))
    /\ \A b \in Senders : /\ InOrder(todo[b])
                          /\ Below(ToSet(queue), ToSet(todo[b]))
                          /\ Below(ToSet(channel), ToSet(todo[b]))

\* Only the front of the queue may be stored already.
StoredInv ==
    /\ Below(StoredTurns, ToSet(channel)) /\ Below(StoredTurns, Waiting)
    /\ \A b \in Senders : Below(StoredTurns, ToSet(todo[b]))
    /\ queue # <<>> => \A u \in StoredTurns : Before(u, Head(queue)) \/ u = Head(queue)

\* Whose turns are where, and that the next ordinal is above them all.
FreshInv ==
    /\ \A b \in Senders : \A u \in ToSet(todo[b]) : u.ordinal < ordinal /\ u.by = b
    /\ \A u \in (ToSet(channel) \cup ToSet(queue) \cup StoredTurns \cup sent) \cap Turns :
          u.ordinal < ordinal
    /\ \A u \in ToSet(channel) \cap Turns : u.by # "worker"
    /\ \A u \in ToSet(channel) \cup UNION {ToSet(todo[b]) : b \in Senders} :
          u.kind \notin {"degraded", "recovered"}
    /\ \A u \in sent : u.kind \in {"degraded", "recovered"} => u.by = "worker"

\* CXDB holds the turns of a task in order, and a copy for every lost answer at
\* most, the one in front of the queue being next.
SortedInv ==
    \A i, j \in DOMAIN stored :
        i < j /\ stored[i].turn.by = stored[j].turn.by
            => stored[i].turn.ordinal <= stored[j].turn.ordinal
Retrying == queue # <<>> /\ Head(queue) \in StoredTurns
CopiesInv ==
    /\ IsFiniteSet(StoredTurns)
    /\ Len(stored) - Cardinality(StoredTurns) + (IF Retrying THEN 1 ELSE 0) <= lost

\* What was sent is somewhere.
KeptInv == \A turn \in sent : turn \in ToSet(channel) \cup ToSet(queue) \cup StoredTurns

\* The shutdown message is behind all of run()'s turns, and comes once.
ShutdownInv ==
    /\ main \notin {"drain", "done"} => ShutdownMsg \notin ToSet(channel) /\ shutdown = "no"
    /\ shutdown # "no" => \A m \in ToSet(channel) : m # ShutdownMsg /\ (m \in Turns => m.by # "main")
    /\ worker = "done" /\ shutdown = "asked" =>
          \A turn \in sent : turn.by = "main" => turn \in StoredTurns

\* The context is asked for once, and nothing is stored without it.
ContextInv ==
    /\ main \in {"spawn", "create"} => contextId = 0 /\ CreateItem \notin ToSet(channel) \cup ToSet(queue)
    /\ contextId # 0 => CreateItem \notin ToSet(channel) \cup ToSet(queue)
    /\ contextId = 0 => stored = <<>>
    /\ ledger.context = contextId
    /\ \A i \in DOMAIN stored : stored[i].context = contextId

\* The ledger lags behind CXDB by the turn in front of the queue.
LedgerInv ==
    /\ \A n \in ledger.appended : \E u \in StoredTurns : u.ordinal = n
    /\ \A u \in StoredTurns : u.ordinal \notin ledger.appended => queue # <<>> /\ Head(queue) = u

\* A recovered turn follows every degraded turn, from the moment it is queued.
OutageInv ==
    /\ recovery => degraded
    /\ IsFiniteSet(Marks("degraded")) /\ IsFiniteSet(Marks("recovered"))
    /\ ~degraded \/ recovery =>
          \A a \in Marks("degraded") : \E r \in Marks("recovered") : a.ordinal < r.ordinal
    /\ \A a, b \in Marks("degraded") :
          a.ordinal < b.ordinal =>
              \E r \in Marks("recovered") : a.ordinal < r.ordinal /\ r.ordinal < b.ordinal
    /\ Cardinality(Marks("degraded")) - Cardinality(Marks("recovered"))
          = IF degraded /\ ~recovery THEN 1 ELSE 0
    /\ ~degraded => \A m \in Marks("degraded") \cup Marks("recovered") : m \in StoredTurns

DeliveryInv ==
    /\ DeliveryTypeOK /\ HandsInv /\ FlowInv /\ StoredInv /\ FreshInv /\ SortedInv /\ CopiesInv
    /\ KeptInv /\ ShutdownInv /\ ContextInv /\ LedgerInv /\ OutageInv

-----------------------------------------------------------------------------
(* Sequences of messages.                                                  *)

\* What Append does to a sequence: to its members, its head and its tail.
LEMMA AppendFacts ==
    ASSUME NEW S, NEW seq \in Seq(S), NEW x \in S
    PROVE  /\ Append(seq, x) \in Seq(S) /\ Append(seq, x) # <<>>
           /\ ToSet(Append(seq, x)) = ToSet(seq) \cup {x}
           /\ seq # <<>> => /\ Head(Append(seq, x)) = Head(seq)
                            /\ Tail(Append(seq, x)) = Append(Tail(seq), x)
           /\ seq = <<>> => /\ Head(Append(seq, x)) = x
                            /\ Tail(Append(seq, x)) = <<>>
<1>1. /\ Append(seq, x) \in Seq(S) /\ Append(seq, x) # <<>>
      /\ \A i \in 1 .. Len(seq) : Append(seq, x)[i] = seq[i]
      /\ Append(seq, x)[Len(seq) + 1] = x
      /\ Len(Append(seq, x)) = Len(seq) + 1
  BY AppendProperties
<1>2. /\ DOMAIN Append(seq, x) = 1 .. (Len(seq) + 1)
      /\ DOMAIN seq = 1 .. Len(seq) /\ Len(seq) \in Nat
  BY <1>1, LenProperties
<1>3. ToSet(Append(seq, x)) = ToSet(seq) \cup {x}
  BY <1>1, <1>2 DEF ToSet
<1> QED
  BY <1>1, <1>3, HeadTailAppend

\* The members of a sequence are its head and those of its tail.
LEMMA TailFacts ==
    ASSUME NEW S, NEW seq \in Seq(S), seq # <<>>
    PROVE  /\ Head(seq) \in S /\ Tail(seq) \in Seq(S)
           /\ ToSet(seq) = {Head(seq)} \cup ToSet(Tail(seq))
<1>1. /\ Head(seq) \in S /\ Tail(seq) \in Seq(S) /\ Len(Tail(seq)) = Len(seq) - 1
      /\ Len(seq) \in Nat \ {0}
      /\ \A i \in 1 .. Len(Tail(seq)) : Tail(seq)[i] = seq[i + 1]
  BY HeadTailProperties, EmptySeq
<1>2. DOMAIN seq = 1 .. Len(seq) /\ DOMAIN Tail(seq) = 1 .. (Len(seq) - 1) /\ Head(seq) = seq[1]
  BY <1>1, LenProperties
<1>3. \A i \in 1 .. Len(seq) : i # 1 => seq[i] = Tail(seq)[i - 1] /\ i - 1 \in 1 .. (Len(seq) - 1)
  BY <1>1
<1>4. \A i \in 1 .. (Len(seq) - 1) : Tail(seq)[i] = seq[i + 1] /\ i + 1 \in 1 .. Len(seq)
  BY <1>1
<1>5. ToSet(seq) \subseteq {Head(seq)} \cup ToSet(Tail(seq))
  BY <1>2, <1>3 DEF ToSet
<1>6. {Head(seq)} \cup ToSet(Tail(seq)) \subseteq ToSet(seq)
  BY <1>1, <1>2, <1>4 DEF ToSet
<1> QED
  BY <1>1, <1>5, <1>6

\* The empty sequence has no members and is in order.
LEMMA EmptyFacts == ToSet(<<>>) = {} /\ InOrder(<<>>)
  BY DEF ToSet, InOrder

\* The members of a sequence over S are in S.
LEMMA MemberFacts ==
    ASSUME NEW S, NEW seq \in Seq(S)
    PROVE  ToSet(seq) \subseteq S
  BY DEF ToSet

\* A sequence stays in order when what comes after all of it is appended.
LEMMA OrderAppend ==
    ASSUME NEW S, NEW seq \in Seq(S), NEW x \in S, InOrder(seq), Below(ToSet(seq), {x})
    PROVE  InOrder(Append(seq, x))
<1>1. \A i \in DOMAIN seq : Before(seq[i], x)
  BY DEF Below, ToSet
<1> QED
  BY <1>1 DEF InOrder

\* The head of a sequence in order is before its tail, which is in order.
LEMMA OrderTail ==
    ASSUME NEW S, NEW seq \in Seq(S), seq # <<>>, InOrder(seq)
    PROVE  InOrder(Tail(seq)) /\ Below({Head(seq)}, ToSet(Tail(seq)))
<1>1. Tail(seq) \in Seq(S) /\ Len(Tail(seq)) = Len(seq) - 1 /\ Len(seq) \in Nat \ {0}
  OBVIOUS
<1>2. \A i \in 1 .. Len(Tail(seq)) : Tail(seq)[i] = seq[i + 1] /\ i + 1 \in 1 .. Len(seq)
  BY <1>1
<1>3. DOMAIN seq = 1 .. Len(seq) /\ DOMAIN Tail(seq) = 1 .. Len(Tail(seq)) /\ Head(seq) = seq[1]
  BY <1>1
<1>4. InOrder(Tail(seq))
  BY <1>1, <1>2, <1>3 DEF InOrder
<1>5. \A i \in 1 .. Len(Tail(seq)) : Before(seq[1], seq[i + 1])
  BY <1>1, <1>2, <1>3 DEF InOrder
<1> QED
  BY <1>2, <1>3, <1>4, <1>5 DEF Below, ToSet

\* What turns are, and that the two other messages are none.
LEMMA TurnFacts ==
    /\ CreateItem \notin Turns /\ ShutdownMsg \notin Turns /\ CreateItem # ShutdownMsg
    /\ CreateItem.kind = "create" /\ ShutdownMsg.kind = "shutdown"
    /\ \A u \in Turns : u.ordinal \in Nat /\ u.by \in Senders \cup {"worker"}
    /\ \A kind \in {"start", "end", "turn", "degraded", "recovered"}, n \in Nat, by \in Senders \cup {"worker"} :
          LET u == Turn(kind, n, by)
          IN  u \in Turns /\ u.kind = kind /\ u.ordinal = n /\ u.by = by
  BY DEF Turns, CreateItem, ShutdownMsg, Turn

\* The worker is none of those who send to it.
LEMMA SenderFacts == "worker" \notin Senders /\ "main" \in Senders /\ "main" \notin Tasks
  BY TasksAssumption DEF Senders

\* No turn is before itself.
LEMMA BeforeIrreflexive == \A u \in Turns : ~Before(u, u)
  BY TurnFacts DEF Before

-----------------------------------------------------------------------------
(* The steps, by what they do to the turns on their way.                   *)

\* run() never goes back.
Onward ==
    /\ main' \in {"spawn", "create"} => main \in {"spawn", "create"}
    /\ main' \notin {"drain", "done"} => main \notin {"drain", "done"}

\* Of the ledger only the state may change.
SameLedger == /\ ledger' \in Ledgers
              /\ ledger'.context = ledger.context /\ ledger'.appended = ledger.appended

\* What a step of run() or of the proxy leaves alone.
Held == Onward /\ SameLedger /\ UNCHANGED <<queue, contextId, stored, lost, degraded, recovery>>

\* No turn moves.
QuietStep ==
    /\ Held /\ UNCHANGED <<todo, channel, ordinal, sent>>
    /\ (shutdown' = "no") <=> (shutdown = "no")
    /\ worker' = "done" /\ shutdown' = "asked"
          => shutdown = "asked" /\ (worker = "done" \/ queue = <<>>)

\* New turns of b, in order, with ordinals from the next one to below next.
FreshTurns(b, us, next) ==
    /\ us \in Seq(Turns) /\ InOrder(us)
    /\ ordinal <= next /\ next \in Nat
    /\ \A u \in ToSet(us) : /\ u.by = b /\ u.kind \notin {"degraded", "recovered"}
                            /\ ordinal <= u.ordinal /\ u.ordinal < next

\* b takes turns, run() its start turn together with the create item.
TakeStep(b, us) ==
    /\ Held /\ UNCHANGED <<sent, worker, shutdown>>
    /\ FreshTurns(b, us, ordinal')
    /\ todo' = [todo EXCEPT ![b] = us]
    /\ b = "main" => main \notin {"drain", "done"}
    /\ \/ UNCHANGED channel
       \/ main = "create" /\ main' = "start" /\ channel' = Append(channel, CreateItem)

\* b sends its first turn, or drops it when the worker is gone.
SendStep(b) ==
    /\ Held /\ UNCHANGED <<ordinal, worker, shutdown>>
    /\ todo[b] # <<>> /\ todo' = [todo EXCEPT ![b] = Tail(todo[b])]
    /\ b = "main" => main \notin {"drain", "done"}
    /\ \/ worker = "done" /\ UNCHANGED <<channel, sent>>
       \/ /\ worker # "done"
          /\ channel' = Append(channel, Head(todo[b]))
          /\ sent' = sent \cup {Head(todo[b])}

\* run() asks for the shutdown.
AskStep ==
    /\ Held /\ UNCHANGED <<todo, ordinal, sent, worker, shutdown>>
    /\ main = "shutdown" /\ main' = "drain"
    /\ UNCHANGED channel \/ channel' = Append(channel, ShutdownMsg)

\* The worker takes a message.
HandleStep ==
    /\ SameLedger
    /\ UNCHANGED <<main, todo, ordinal, contextId, stored, lost, degraded, recovery, sent>>
    /\ worker # "done" /\ worker' # "done"
    /\ channel # <<>> /\ channel' = Tail(channel)
    /\ \/ Head(channel) = ShutdownMsg /\ shutdown' = "asked" /\ UNCHANGED queue
       \/ /\ Head(channel) # ShutdownMsg /\ queue' = Append(queue, Head(channel))
          /\ UNCHANGED shutdown

\* The item at the front is done with; the server has stored it if it is a turn.
DeliverStep ==
    /\ queue # <<>> /\ Delivered(Head(queue)) /\ UNCHANGED <<main, todo, channel, lost>>
    /\ \/ /\ Head(queue) = CreateItem /\ contextId' \in Nat \ {0}
          /\ UNCHANGED stored
       \/ /\ Head(queue) \in Turns /\ contextId # 0 /\ UNCHANGED contextId
          /\ stored' = Append(stored, [context |-> contextId, turn |-> Head(queue)])

\* The item stays; the server may have stored it all the same.
FailStep ==
    /\ queue # <<>> /\ Failed /\ UNCHANGED <<main, todo, channel, contextId>>
    /\ \/ lost' \in {lost, lost + 1} /\ UNCHANGED stored
       \/ /\ Head(queue) \in Turns /\ contextId # 0 /\ lost' = lost + 1
          /\ stored' = Append(stored, [context |-> contextId, turn |-> Head(queue)])

\* A function from 1 .. n is a sequence.
LEMMA FunctionIsSeq ==
    ASSUME NEW S, NEW n \in Nat, NEW f \in [1 .. n -> S]
    PROVE  f \in Seq(S) /\ DOMAIN f = 1 .. n
  OBVIOUS

\* A sequence of one has an empty tail.
LEMMA LenOne ==
    ASSUME NEW S, NEW seq \in Seq(S), Len(seq) = 1
    PROVE  seq # <<>> /\ Tail(seq) = <<>>
<1>1. seq # <<>>
  OBVIOUS
<1>2. Tail(seq) \in Seq(S) /\ Len(Tail(seq)) = 0
  BY <1>1, HeadTailProperties
<1> QED
  BY <1>1, <1>2, EmptySeq

\* Changing the state of the ledger leaves the rest of it.
LEMMA LedgerState ==
    ASSUME NEW l \in Ledgers, NEW st \in {"starting", "child_launch_failed", "healthy", "degraded"}
    PROVE  LET m == [l EXCEPT !.state = st]
           IN  m \in Ledgers /\ m.context = l.context /\ m.appended = l.appended
  BY DEF Ledgers

\* A turn of run() is taken with the next ordinal.
LEMMA MarkFresh ==
    ASSUME ordinal \in Nat, NEW kind \in {"start", "end"}
    PROVE  FreshTurns("main", <<Turn(kind, ordinal, "main")>>, ordinal + 1)
<1> DEFINE u == Turn(kind, ordinal, "main")
<1>1. u \in Turns /\ u.kind = kind /\ u.ordinal = ordinal /\ u.by = "main"
  BY TurnFacts, SenderFacts
<1> HIDE DEF u
<1>2. <<u>> \in Seq(Turns) /\ ToSet(<<u>>) = {u} /\ InOrder(<<u>>)
  BY <1>1 DEF ToSet, InOrder
<1>3. u.kind \notin {"degraded", "recovered"}
  BY <1>1
<1>4. FreshTurns("main", <<u>>, ordinal + 1)
  BY <1>1, <1>2, <1>3 DEF FreshTurns
<1> QED
  BY <1>4 DEF u

\* The turns a task takes have the next ordinals, in order.
LEMMA TakenFresh ==
    ASSUME ordinal \in Nat, NEW t \in Tasks, NEW n \in 0 .. 2
    PROVE  FreshTurns(t, Taken(t, n), ordinal + n)
<1> DEFINE us == Taken(t, n)
<1>1. \A i \in 1 .. n : /\ us[i] \in Turns /\ us[i].kind = "turn" /\ us[i].by = t
                        /\ us[i].ordinal = ordinal + i - 1
  BY TurnFacts DEF Taken, Senders
<1>2. us \in [1 .. n -> Turns] /\ n \in Nat
  BY <1>1 DEF Taken
<1>3. us \in Seq(Turns) /\ DOMAIN us = 1 .. n
  BY <1>2, FunctionIsSeq
<1> HIDE DEF us
<1>4. InOrder(us)
  BY <1>1, <1>3, TurnFacts DEF InOrder, Before
<1>5. \A u \in ToSet(us) : /\ u.by = t /\ u.kind \notin {"degraded", "recovered"}
                           /\ ordinal <= u.ordinal /\ u.ordinal < ordinal + n
  BY <1>1, <1>3 DEF ToSet
<1>6. FreshTurns(t, us, ordinal + n)
  BY <1>3, <1>4, <1>5 DEF FreshTurns
<1> QED
  BY <1>6 DEF us

\* Every step is of one of these kinds.
LEMMA StepKinds ==
    ASSUME DeliveryTypeOK, HandsInv, [DeliveryNext]_vars
    PROVE  \/ QuietStep \/ AskStep \/ HandleStep \/ DeliverStep \/ FailStep
           \/ \E b \in Senders : SendStep(b)
           \/ \E b \in Senders, us \in Seq(Turns) : TakeStep(b, us)
<1>1. ASSUME Spawn PROVE QuietStep
  BY <1>1 DEF Spawn, mainVars, proxyVars, workerVars, serverVars, QuietStep, AskStep,
     HandleStep, Held, Onward, SameLedger, DeliveryTypeOK
<1>2. ASSUME SpawnFails PROVE QuietStep
  <2>1. SameLedger
    BY <1>2, LedgerState DEF SpawnFails, SameLedger, DeliveryTypeOK
  <2> QED
    BY <1>2, <2>1 DEF SpawnFails, mainVars, proxyVars, workerVars, serverVars, QuietStep, Held,
       Onward
<1>3. ASSUME ChildExits PROVE \E b \in Senders, us \in Seq(Turns) : TakeStep(b, us)
  <2> DEFINE us == <<Turn("end", ordinal, "main")>>
  <2>1. FreshTurns("main", us, ordinal + 1)
    BY MarkFresh DEF DeliveryTypeOK
  <2>2. us \in Seq(Turns) /\ "main" \in Senders
    BY <2>1, SenderFacts DEF FreshTurns
  <2> HIDE DEF us
  <2>3. TakeStep("main", us)
    BY <1>3, <2>1 DEF ChildExits, TakeMark, us, TakeStep, Held, Onward, SameLedger,
       DeliveryTypeOK, mainVars, proxyVars, workerVars, serverVars
  <2> QED
    BY <2>2, <2>3
<1>4. ASSUME MainFails PROVE QuietStep
  BY <1>4 DEF MainFails, mainVars, proxyVars, workerVars, serverVars, QuietStep, AskStep,
     HandleStep, Held, Onward, SameLedger, DeliveryTypeOK
<1>5. ASSUME EnqueueCreate PROVE \E b \in Senders, us \in Seq(Turns) : TakeStep(b, us)
  <2> DEFINE us == <<Turn("start", ordinal, "main")>>
  <2>1. FreshTurns("main", us, ordinal + 1)
    BY MarkFresh DEF DeliveryTypeOK
  <2>2. us \in Seq(Turns) /\ "main" \in Senders
    BY <2>1, SenderFacts DEF FreshTurns
  <2> HIDE DEF us
  <2>3. TakeStep("main", us)
    BY <1>5, <2>1 DEF EnqueueCreate, TakeMark, us, TakeStep, Held, Onward, SameLedger,
       DeliveryTypeOK, mainVars, proxyVars, workerVars, serverVars, Send
  <2> QED
    BY <2>2, <2>3
<1>6. ASSUME EnqueueStart PROVE \E b \in Senders : SendStep(b)
  <2>1. "main" \in Senders /\ todo["main"] \in Seq(Turns) /\ Len(todo["main"]) = 1
    BY <1>6, SenderFacts DEF EnqueueStart, DeliveryTypeOK, HandsInv
  <2>2. todo["main"] # <<>> /\ Tail(todo["main"]) = <<>>
    BY <2>1, LenOne
  <2>3. SendStep("main")
    BY <1>6, <2>2 DEF EnqueueStart, SendMark, SendTurn, Send, SendStep, Held, Onward,
       SameLedger, DeliveryTypeOK, mainVars, proxyVars, workerVars, serverVars
  <2> QED
    BY <2>1, <2>3
<1>7. ASSUME EnqueueEnd PROVE \E b \in Senders : SendStep(b)
  <2>1. "main" \in Senders /\ todo["main"] \in Seq(Turns) /\ Len(todo["main"]) = 1
    BY <1>7, SenderFacts DEF EnqueueEnd, DeliveryTypeOK, HandsInv
  <2>2. todo["main"] # <<>> /\ Tail(todo["main"]) = <<>>
    BY <2>1, LenOne
  <2>3. SendStep("main")
    BY <1>7, <2>2 DEF EnqueueEnd, SendMark, SendTurn, Send, SendStep, Held, Onward, SameLedger,
       DeliveryTypeOK, mainVars, proxyVars, workerVars, serverVars
  <2> QED
    BY <2>1, <2>3
<1>8. ASSUME ProxyShutdown PROVE QuietStep
  BY <1>8 DEF ProxyShutdown, mainVars, proxyVars, workerVars, serverVars, QuietStep, AskStep,
     HandleStep, Held, Onward, SameLedger, DeliveryTypeOK
<1>9. ASSUME AskShutdown PROVE AskStep
  BY <1>9 DEF AskShutdown, Send, mainVars, proxyVars, workerVars, serverVars, QuietStep,
     AskStep, HandleStep, Held, Onward, SameLedger, DeliveryTypeOK
<1>10. ASSUME Finish PROVE QuietStep
  BY <1>10 DEF Finish, mainVars, proxyVars, workerVars, serverVars, QuietStep, AskStep,
     HandleStep, Held, Onward, SameLedger, DeliveryTypeOK
<1>11. ASSUME NEW t \in Tasks, NEW n \in 0 .. 2, Observe(t, n) PROVE \E b \in Senders, us \in Seq(Turns) : TakeStep(b, us)
  <2> DEFINE us == Taken(t, n)
  <2>1. FreshTurns(t, us, ordinal + n)
    BY TakenFresh DEF DeliveryTypeOK
  <2>2. us \in Seq(Turns) /\ t \in Senders /\ t # "main"
    BY <2>1, SenderFacts DEF FreshTurns, Senders
  <2> HIDE DEF us
  <2>3. TakeStep(t, us)
    BY <1>11, <2>1, <2>2 DEF Observe, Take, us, TakeStep, Held, Onward, SameLedger,
       DeliveryTypeOK, mainVars, proxyVars, workerVars, serverVars
  <2> QED
    BY <2>2, <2>3
<1>12. ASSUME NEW t \in Tasks, Respond(t, 1) PROVE \E b \in Senders, us \in Seq(Turns) : TakeStep(b, us)
  <2> DEFINE us == Taken(t, 1)
  <2>1. FreshTurns(t, us, ordinal + 1)
    BY TakenFresh DEF DeliveryTypeOK
  <2>2. us \in Seq(Turns) /\ t \in Senders /\ t # "main"
    BY <2>1, SenderFacts DEF FreshTurns, Senders
  <2> HIDE DEF us
  <2>3. TakeStep(t, us)
    BY <1>12, <2>1, <2>2 DEF Respond, Take, us, TakeStep, Held, Onward, SameLedger,
       DeliveryTypeOK, mainVars, proxyVars, workerVars, serverVars
  <2> QED
    BY <2>2, <2>3
<1>13. ASSUME NEW t \in Tasks, Detach(t) PROVE QuietStep
  BY <1>13 DEF Detach, mainVars, proxyVars, workerVars, serverVars, QuietStep, AskStep,
     HandleStep, Held, Onward, SameLedger, DeliveryTypeOK
<1>14. ASSUME NEW t \in Tasks, EndExchange(t) PROVE QuietStep
  BY <1>14 DEF EndExchange, mainVars, proxyVars, workerVars, serverVars, QuietStep, AskStep,
     HandleStep, Held, Onward, SameLedger, DeliveryTypeOK
<1>15. ASSUME NEW t \in Tasks, EnqueueTurn(t) PROVE \E b \in Senders : SendStep(b)
  <2>1. t \in Senders /\ t # "main"
    BY SenderFacts DEF Senders
  <2>2. SendStep(t)
    BY <1>15, <2>1 DEF EnqueueTurn, SendTurn, Send, SendStep, Held, Onward, SameLedger,
       DeliveryTypeOK, mainVars, proxyVars, workerVars, serverVars
  <2> QED
    BY <2>1, <2>2
<1>16. ASSUME Stop PROVE QuietStep
  <2>1. SameLedger
    BY <1>16, LedgerState DEF Stop, At, MayFinish, SameLedger, DeliveryTypeOK
  <2> QED
    BY <1>16, <2>1 DEF Stop, At, MayFinish, mainVars, proxyVars, workerVars, serverVars,
       QuietStep, Held, Onward
<1>17. ASSUME Receive PROVE HandleStep
  <2>1. SameLedger
    BY <1>17, LedgerState DEF Receive, At, HandleMessage, SameLedger, DeliveryTypeOK
  <2> QED
    BY <1>17, <2>1 DEF Receive, At, HandleMessage, mainVars, proxyVars, workerVars, serverVars,
       HandleStep, Held, Onward
<1>18. ASSUME Drain PROVE HandleStep
  <2>1. SameLedger
    BY <1>18, LedgerState DEF Drain, Draining, At, HandleMessage, SameLedger, DeliveryTypeOK
  <2> QED
    BY <1>18, <2>1 DEF Drain, Draining, At, HandleMessage, mainVars, proxyVars, workerVars,
       serverVars, HandleStep, Held, Onward
<1>19. ASSUME Process PROVE QuietStep
  BY <1>19 DEF Process, Draining, At, mainVars, proxyVars, workerVars, serverVars, QuietStep,
     AskStep, HandleStep, Held, Onward, SameLedger, DeliveryTypeOK
<1>20. ASSUME AppendTooEarly PROVE FailStep
  BY <1>20 DEF AppendTooEarly, At, mainVars, proxyVars, workerVars, serverVars, FailStep,
     DeliveryTypeOK, HandsInv
<1>21. ASSUME Refused PROVE FailStep
  BY <1>21 DEF Refused, At, mainVars, proxyVars, workerVars, serverVars, FailStep,
     DeliveryTypeOK, HandsInv
<1>22. ASSUME Register PROVE QuietStep
  BY <1>22 DEF Register, At, mainVars, proxyVars, workerVars, serverVars, QuietStep, AskStep,
     HandleStep, Held, Onward, SameLedger, DeliveryTypeOK
<1>23. ASSUME PostCreate PROVE DeliverStep
  <2>1. queue # <<>> /\ Head(queue) \in Items
    BY <1>23, TailFacts DEF PostCreate, At, HandsInv, DeliveryTypeOK
  <2> QED
    BY <1>23, <2>1 DEF PostCreate, DeliverStep, DeliveryTypeOK, mainVars, proxyVars, workerVars,
       serverVars
<1>24. ASSUME PostAppend PROVE DeliverStep
  <2>1. queue # <<>> /\ Head(queue) \in Items
    BY <1>24, TailFacts DEF PostAppend, At, HandsInv, DeliveryTypeOK
  <2>2. Head(queue) \in Turns /\ contextId # 0
    BY <1>24, <2>1 DEF PostAppend, At, HandsInv, Items
  <2> QED
    BY <1>24, <2>1, <2>2 DEF PostAppend, DeliverStep, mainVars, proxyVars, workerVars,
       serverVars
<1>25. ASSUME AnswerLost PROVE FailStep
  <2>1. queue # <<>> /\ Head(queue) \in Items
    BY <1>25, TailFacts DEF AnswerLost, At, HandsInv, DeliveryTypeOK
  <2>2. Head(queue) # CreateItem => Head(queue) \in Turns
    BY <2>1 DEF Items
  <2> QED
    BY <1>25, <2>1, <2>2 DEF AnswerLost, At, mainVars, proxyVars, workerVars, serverVars,
       FailStep, DeliveryTypeOK, HandsInv
<1>26. ASSUME Deadline PROVE QuietStep
  BY <1>26 DEF Deadline, mainVars, proxyVars, workerVars, serverVars, QuietStep, AskStep,
     HandleStep, Held, Onward, SameLedger, DeliveryTypeOK
<1>27. ASSUME UNCHANGED vars PROVE QuietStep
  BY <1>27 DEF vars, mainVars, proxyVars, workerVars, serverVars, QuietStep, AskStep,
     HandleStep, Held, Onward, SameLedger, DeliveryTypeOK
<1> QED
  BY <1>1, <1>2, <1>3, <1>4, <1>5, <1>6, <1>7, <1>8, <1>9, <1>10, <1>11, <1>12, <1>13, <1>14,
     <1>15, <1>16, <1>17, <1>18, <1>19, <1>20, <1>21, <1>22, <1>23, <1>24, <1>25, <1>26, <1>27
  DEF DeliveryNext, MainStep, WorkerStep, RequestEnds

-----------------------------------------------------------------------------
(* The shape of the state.                                                 *)

RecoveredTurn == Turn("recovered", ordinal, "worker")
DegradedTurn  == Turn("degraded", ordinal, "worker")
Begins == degraded /\ Tail(queue) = <<>> /\ ~recovery
Ends   == degraded /\ Tail(queue) = <<>> /\ recovery /\ Head(queue) # CreateItem

\* The marks of an outage are turns of the worker.
LEMMA MarkFacts ==
    ASSUME ordinal \in Nat
    PROVE  /\ RecoveredTurn \in Turns /\ RecoveredTurn.kind = "recovered"
           /\ RecoveredTurn.ordinal = ordinal /\ RecoveredTurn.by = "worker"
           /\ DegradedTurn \in Turns /\ DegradedTurn.kind = "degraded"
           /\ DegradedTurn.ordinal = ordinal /\ DegradedTurn.by = "worker"
  BY TurnFacts DEF RecoveredTurn, DegradedTurn

\* What is a message, and what an item.
LEMMA MsgFacts == /\ Turns \subseteq Items /\ Items \subseteq Msgs
                  /\ CreateItem \in Items /\ ShutdownMsg \in Msgs
                  /\ Items = Turns \cup {CreateItem} /\ Msgs = Items \cup {ShutdownMsg}
  BY DEF Msgs, Items

\* What a delivery changes, by cases: an outage begins to end, ends, or neither.
LEMMA DeliverEffect ==
    ASSUME DeliveryTypeOK, DeliverStep
    PROVE  /\ Begins => /\ queue' = <<RecoveredTurn>> /\ ordinal' = ordinal + 1
                        /\ sent' = sent \cup {RecoveredTurn}
                        /\ recovery' = TRUE /\ degraded' = TRUE
           /\ ~Begins => queue' = Tail(queue) /\ UNCHANGED <<ordinal, sent>>
           /\ Ends => degraded' = FALSE /\ recovery' = FALSE
           /\ ~Begins /\ ~Ends => UNCHANGED <<degraded, recovery>>
           /\ ledger' \in Ledgers
           /\ Head(queue) = CreateItem =>
                 ledger'.context = contextId' /\ ledger'.appended = ledger.appended
           /\ Head(queue) \in Turns =>
                 /\ ledger'.context = ledger.context
                 /\ ledger'.appended = ledger.appended \cup {Head(queue).ordinal}
           /\ worker' = "top" /\ UNCHANGED shutdown
<1> DEFINE noted == IF Head(queue) = CreateItem THEN [ledger EXCEPT !.context = contextId']
                    ELSE [ledger EXCEPT !.appended = @ \cup {Head(queue).ordinal}]
<1>1. ledger' = IF Ends THEN [noted EXCEPT !.state = "healthy"] ELSE noted
  BY DEF DeliverStep, Delivered, Ends
<1>2. /\ noted \in Ledgers
      /\ Head(queue) = CreateItem => noted.context = contextId' /\ noted.appended = ledger.appended
      /\ Head(queue) \in Turns =>
            /\ noted.context = ledger.context
            /\ noted.appended = ledger.appended \cup {Head(queue).ordinal}
  <2>1. CASE Head(queue) = CreateItem
    <3>1. contextId' \in Nat /\ Head(queue) \notin Turns
      BY <2>1, TurnFacts DEF DeliverStep
    <3> QED
      BY <2>1, <3>1 DEF Ledgers, DeliveryTypeOK
  <2>2. CASE Head(queue) \in Turns
    <3>1. Head(queue).ordinal \in Nat /\ Head(queue) # CreateItem
      BY <2>2, TurnFacts
    <3> QED
      BY <2>2, <3>1 DEF Ledgers, DeliveryTypeOK
  <2> QED
    BY <2>1, <2>2 DEF DeliverStep
<1> HIDE DEF noted
<1>3. /\ ledger' \in Ledgers
      /\ ledger'.context = noted.context /\ ledger'.appended = noted.appended
  BY <1>1, <1>2, LedgerState
<1>4. /\ Begins => /\ queue' = <<RecoveredTurn>> /\ ordinal' = ordinal + 1
                   /\ sent' = sent \cup {RecoveredTurn} /\ recovery' = TRUE
      /\ ~Begins => queue' = Tail(queue) /\ UNCHANGED <<ordinal, sent>>
      /\ ~Begins => recovery' = IF Ends THEN FALSE ELSE recovery
      /\ worker' = "top" /\ UNCHANGED shutdown
  BY DEF DeliverStep, Delivered, Begins, Ends, RecoveredTurn
<1>5. degraded' = (degraded /\ ~Ends)
  BY DEF DeliverStep, Delivered, Ends
<1>6. degraded \in BOOLEAN
  BY DEF DeliveryTypeOK
<1>7. /\ Begins => degraded' = TRUE
      /\ Ends => degraded' = FALSE
      /\ ~Ends => degraded' = degraded
  BY <1>5, <1>6 DEF Begins, Ends
<1>8. ~(Begins /\ Ends)
  BY DEF Begins, Ends
<1> QED
  BY <1>2, <1>3, <1>4, <1>7, <1>8

\* What a failure changes: the first of an outage queues its mark.
LEMMA FailEffect ==
    ASSUME DeliveryTypeOK, FailStep
    PROVE  /\ degraded' = TRUE /\ SameLedger /\ worker' = "top" /\ UNCHANGED shutdown
           /\ degraded => UNCHANGED <<queue, ordinal, recovery, sent>>
           /\ ~degraded => /\ queue' = Append(queue, DegradedTurn) /\ ordinal' = ordinal + 1
                           /\ recovery' = FALSE /\ sent' = sent \cup {DegradedTurn}
<1>1. SameLedger
  BY LedgerState DEF FailStep, Failed, SameLedger, DeliveryTypeOK
<1> QED
  BY <1>1 DEF FailStep, Failed, DegradedTurn

\* The places of the processes and the flags.
ControlOK ==
    /\ main \in {"spawn", "create", "start", "wait", "ending", "proxy", "shutdown", "drain", "done"}
    /\ worker \in {"top", "drain", "early", "register", "post", "done"}
    /\ shutdown \in {"no", "asked", "late"}
    /\ contexts \in Nat

\* Every step leaves run(), the worker and the shutdown flag at a place of theirs.
LEMMA ControlStep ==
    ASSUME DeliveryTypeOK, [DeliveryNext]_vars
    PROVE  ControlOK'
<1>1. ASSUME Spawn PROVE ControlOK'
  BY <1>1 DEF Spawn, mainVars, proxyVars, workerVars, serverVars, ControlOK, Delivered, Failed,
     DeliveryTypeOK
<1>2. ASSUME SpawnFails PROVE ControlOK'
  BY <1>2 DEF SpawnFails, mainVars, proxyVars, workerVars, serverVars, ControlOK, Delivered,
     Failed, DeliveryTypeOK
<1>3. ASSUME ChildExits PROVE ControlOK'
  BY <1>3 DEF ChildExits, TakeMark, mainVars, proxyVars, workerVars, serverVars, ControlOK,
     Delivered, Failed, DeliveryTypeOK
<1>4. ASSUME MainFails PROVE ControlOK'
  BY <1>4 DEF MainFails, mainVars, proxyVars, workerVars, serverVars, ControlOK, Delivered,
     Failed, DeliveryTypeOK
<1>5. ASSUME EnqueueCreate PROVE ControlOK'
  BY <1>5 DEF EnqueueCreate, Send, TakeMark, mainVars, proxyVars, workerVars, serverVars,
     ControlOK, Delivered, Failed, DeliveryTypeOK
<1>6. ASSUME EnqueueStart PROVE ControlOK'
  BY <1>6 DEF EnqueueStart, SendMark, SendTurn, Send, mainVars, proxyVars, workerVars,
     serverVars, ControlOK, Delivered, Failed, DeliveryTypeOK
<1>7. ASSUME EnqueueEnd PROVE ControlOK'
  BY <1>7 DEF EnqueueEnd, SendMark, SendTurn, Send, mainVars, proxyVars, workerVars, serverVars,
     ControlOK, Delivered, Failed, DeliveryTypeOK
<1>8. ASSUME ProxyShutdown PROVE ControlOK'
  BY <1>8 DEF ProxyShutdown, mainVars, proxyVars, workerVars, serverVars, ControlOK, Delivered,
     Failed, DeliveryTypeOK
<1>9. ASSUME AskShutdown PROVE ControlOK'
  BY <1>9 DEF AskShutdown, Send, mainVars, proxyVars, workerVars, serverVars, ControlOK,
     Delivered, Failed, DeliveryTypeOK
<1>10. ASSUME Finish PROVE ControlOK'
  BY <1>10 DEF Finish, mainVars, proxyVars, workerVars, serverVars, ControlOK, Delivered,
     Failed, DeliveryTypeOK
<1>11. ASSUME NEW t \in Tasks, NEW n \in 0 .. 2, Observe(t, n) PROVE ControlOK'
  BY <1>11 DEF Observe, Take, mainVars, proxyVars, workerVars, serverVars, ControlOK, Delivered,
     Failed, DeliveryTypeOK
<1>12. ASSUME NEW t \in Tasks, Respond(t, 1) PROVE ControlOK'
  BY <1>12 DEF Respond, Take, mainVars, proxyVars, workerVars, serverVars, ControlOK, Delivered,
     Failed, DeliveryTypeOK
<1>13. ASSUME NEW t \in Tasks, Detach(t) PROVE ControlOK'
  BY <1>13 DEF Detach, mainVars, proxyVars, workerVars, serverVars, ControlOK, Delivered,
     Failed, DeliveryTypeOK
<1>14. ASSUME NEW t \in Tasks, EndExchange(t) PROVE ControlOK'
  BY <1>14 DEF EndExchange, mainVars, proxyVars, workerVars, serverVars, ControlOK, Delivered,
     Failed, DeliveryTypeOK
<1>15. ASSUME NEW t \in Tasks, EnqueueTurn(t) PROVE ControlOK'
  BY <1>15 DEF EnqueueTurn, SendTurn, Send, mainVars, proxyVars, workerVars, serverVars,
     ControlOK, Delivered, Failed, DeliveryTypeOK
<1>16. ASSUME Stop PROVE ControlOK'
  BY <1>16 DEF Stop, At, MayFinish, mainVars, proxyVars, workerVars, serverVars, ControlOK,
     Delivered, Failed, DeliveryTypeOK
<1>17. ASSUME Receive PROVE ControlOK'
  BY <1>17 DEF Receive, At, HandleMessage, mainVars, proxyVars, workerVars, serverVars,
     ControlOK, Delivered, Failed, DeliveryTypeOK
<1>18. ASSUME Drain PROVE ControlOK'
  BY <1>18 DEF Drain, Draining, At, HandleMessage, mainVars, proxyVars, workerVars, serverVars,
     ControlOK, Delivered, Failed, DeliveryTypeOK
<1>19. ASSUME Process PROVE ControlOK'
  BY <1>19 DEF Process, Draining, At, mainVars, proxyVars, workerVars, serverVars, ControlOK,
     Delivered, Failed, DeliveryTypeOK
<1>20. ASSUME AppendTooEarly PROVE ControlOK'
  BY <1>20 DEF AppendTooEarly, At, mainVars, proxyVars, workerVars, serverVars, ControlOK,
     Delivered, Failed, DeliveryTypeOK
<1>21. ASSUME Refused PROVE ControlOK'
  BY <1>21 DEF Refused, At, mainVars, proxyVars, workerVars, serverVars, ControlOK, Delivered,
     Failed, DeliveryTypeOK
<1>22. ASSUME Register PROVE ControlOK'
  BY <1>22 DEF Register, At, mainVars, proxyVars, workerVars, serverVars, ControlOK, Delivered,
     Failed, DeliveryTypeOK
<1>23. ASSUME PostCreate PROVE ControlOK'
  BY <1>23 DEF PostCreate, At, mainVars, proxyVars, workerVars, serverVars, ControlOK,
     Delivered, Failed, DeliveryTypeOK
<1>24. ASSUME PostAppend PROVE ControlOK'
  BY <1>24 DEF PostAppend, At, mainVars, proxyVars, workerVars, serverVars, ControlOK,
     Delivered, Failed, DeliveryTypeOK
<1>25. ASSUME AnswerLost PROVE ControlOK'
  BY <1>25 DEF AnswerLost, At, mainVars, proxyVars, workerVars, serverVars, ControlOK,
     Delivered, Failed, DeliveryTypeOK
<1>26. ASSUME Deadline PROVE ControlOK'
  BY <1>26 DEF Deadline, mainVars, proxyVars, workerVars, serverVars, ControlOK, Delivered,
     Failed, DeliveryTypeOK
<1>27. ASSUME UNCHANGED vars PROVE ControlOK'
  BY <1>27 DEF vars, mainVars, proxyVars, workerVars, serverVars, ControlOK, Delivered, Failed,
     DeliveryTypeOK
<1> QED
  BY <1>1, <1>2, <1>3, <1>4, <1>5, <1>6, <1>7, <1>8, <1>9, <1>10, <1>11, <1>12, <1>13, <1>14,
     <1>15, <1>16, <1>17, <1>18, <1>19, <1>20, <1>21, <1>22, <1>23, <1>24, <1>25, <1>26, <1>27
  DEF DeliveryNext, MainStep, WorkerStep, RequestEnds

\* The first state of the wrapper is well shaped.
LEMMA TypeInit == DeliveryInit => DeliveryTypeOK
<1> SUFFICES ASSUME DeliveryInit PROVE DeliveryTypeOK
  OBVIOUS
<1>1. todo \in [Senders -> Seq(Turns)]
  <2>1. <<>> \in Seq(Turns)
    BY EmptySeq
  <2> QED
    BY <2>1 DEF DeliveryInit, Senders
<1>2. channel \in Seq(Msgs) /\ queue \in Seq(Items) /\ stored \in Seq([context : Nat, turn : Turns])
  BY EmptySeq DEF DeliveryInit
<1>3. ledger \in Ledgers
  BY DEF DeliveryInit, Ledgers
<1> QED
  BY <1>1, <1>2, <1>3 DEF DeliveryInit, DeliveryTypeOK

\* Every step keeps the shape of the wrapper's state.
LEMMA TypeStep ==
    ASSUME DeliveryTypeOK, HandsInv, [DeliveryNext]_vars
    PROVE  DeliveryTypeOK'
<1>0. ControlOK'
  BY ControlStep
<1> DEFINE DataOK == /\ todo' \in [Senders -> Seq(Turns)]
                     /\ channel' \in Seq(Msgs) /\ queue' \in Seq(Items)
                     /\ stored' \in Seq([context : Nat, turn : Turns])
                     /\ ordinal' \in Nat /\ contextId' \in Nat /\ lost' \in Nat
                     /\ degraded' \in BOOLEAN /\ recovery' \in BOOLEAN
                     /\ ledger' \in Ledgers /\ sent' \subseteq Turns
<1>1. ASSUME QuietStep PROVE DataOK
  BY <1>1 DEF QuietStep, Held, SameLedger, DeliveryTypeOK
<1>2. ASSUME AskStep PROVE DataOK
  <2>1. channel' \in Seq(Msgs)
    BY <1>2, AppendFacts, MsgFacts, SMTT(30) DEF AskStep, DeliveryTypeOK
  <2> QED
    BY <1>2, <2>1 DEF AskStep, Held, SameLedger, DeliveryTypeOK
<1>3. ASSUME HandleStep PROVE DataOK
  <2>1. Head(channel) \in Msgs /\ Tail(channel) \in Seq(Msgs)
    BY <1>3, TailFacts DEF HandleStep, DeliveryTypeOK
  <2>2. Head(channel) # ShutdownMsg => Head(channel) \in Items
    BY <2>1 DEF Msgs
  <2>3. Head(channel) # ShutdownMsg => Append(queue, Head(channel)) \in Seq(Items)
    BY <2>2, AppendFacts DEF DeliveryTypeOK
  <2>4. queue' \in Seq(Items)
    BY <1>3, <2>3 DEF HandleStep, DeliveryTypeOK
  <2> QED
    BY <1>3, <2>1, <2>4 DEF HandleStep, SameLedger, DeliveryTypeOK
<1>4. ASSUME DeliverStep PROVE DataOK
  <2>1. queue' \in Seq(Items) /\ ordinal' \in Nat /\ sent' \subseteq Turns
    <3>1. Tail(queue) \in Seq(Items)
      BY <1>4, TailFacts DEF DeliverStep, DeliveryTypeOK
    <3>2. RecoveredTurn \in Turns /\ <<RecoveredTurn>> \in Seq(Items)
      BY MarkFacts DEF DeliveryTypeOK, Items
    <3> QED
      <4>1. CASE Begins
        <5>1. /\ queue' = <<RecoveredTurn>> /\ ordinal' = ordinal + 1
              /\ sent' = sent \cup {RecoveredTurn}
          BY <1>4, <4>1, DeliverEffect
        <5> QED
          BY <3>2, <5>1 DEF DeliveryTypeOK
      <4>2. CASE ~Begins
        BY <1>4, <3>1, <4>2, DeliverEffect DEF DeliveryTypeOK
      <4> QED
        BY <4>1, <4>2
  <2>2. stored' \in Seq([context : Nat, turn : Turns]) /\ contextId' \in Nat
    <3>1. CASE UNCHANGED stored
      BY <1>4, <3>1 DEF DeliverStep, DeliveryTypeOK
    <3>2. CASE ~UNCHANGED stored
      <4>1. /\ Head(queue) \in Turns /\ UNCHANGED contextId
            /\ stored' = Append(stored, [context |-> contextId, turn |-> Head(queue)])
        BY <1>4, <3>2 DEF DeliverStep
      <4>2. [context |-> contextId, turn |-> Head(queue)] \in [context : Nat, turn : Turns]
        BY <4>1 DEF DeliveryTypeOK
      <4> QED
        BY <4>1, <4>2, AppendFacts DEF DeliveryTypeOK
    <3> QED
      BY <3>1, <3>2
  <2>3. degraded' \in BOOLEAN /\ recovery' \in BOOLEAN /\ ledger' \in Ledgers
    BY <1>4, DeliverEffect DEF DeliveryTypeOK
  <2> QED
    BY <1>4, <2>1, <2>2, <2>3 DEF DeliverStep, DeliveryTypeOK
<1>5. ASSUME FailStep PROVE DataOK
  <2>1. queue' \in Seq(Items) /\ ordinal' \in Nat /\ sent' \subseteq Turns
    <3>1. DegradedTurn \in Turns /\ Append(queue, DegradedTurn) \in Seq(Items)
      BY MarkFacts, AppendFacts DEF DeliveryTypeOK, Items
    <3> QED
      <4>1. CASE degraded
        BY <1>5, <4>1, FailEffect DEF DeliveryTypeOK
      <4>2. CASE ~degraded
        <5>1. /\ queue' = Append(queue, DegradedTurn) /\ ordinal' = ordinal + 1
              /\ sent' = sent \cup {DegradedTurn}
          BY <1>5, <4>2, FailEffect
        <5> QED
          BY <3>1, <5>1 DEF DeliveryTypeOK
      <4> QED
        BY <4>1, <4>2
  <2>2. stored' \in Seq([context : Nat, turn : Turns])
    <3>1. CASE UNCHANGED stored
      BY <1>5, <3>1 DEF DeliveryTypeOK
    <3>2. CASE ~UNCHANGED stored
      <4>1. /\ Head(queue) \in Turns
            /\ stored' = Append(stored, [context |-> contextId, turn |-> Head(queue)])
        BY <1>5, <3>2 DEF FailStep
      <4>2. [context |-> contextId, turn |-> Head(queue)] \in [context : Nat, turn : Turns]
        BY <4>1 DEF DeliveryTypeOK
      <4> QED
        BY <4>1, <4>2, AppendFacts DEF DeliveryTypeOK
    <3> QED
      BY <3>1, <3>2
  <2>3. degraded' \in BOOLEAN /\ recovery' \in BOOLEAN /\ ledger' \in Ledgers
    BY <1>5, FailEffect DEF DeliveryTypeOK, SameLedger
  <2>4. lost' \in Nat /\ contextId' \in Nat
    BY <1>5 DEF FailStep, DeliveryTypeOK
  <2> QED
    BY <1>5, <2>1, <2>2, <2>3, <2>4 DEF FailStep, DeliveryTypeOK
<1>6. ASSUME NEW b \in Senders, SendStep(b) PROVE DataOK
  <2>1. Head(todo[b]) \in Turns /\ Tail(todo[b]) \in Seq(Turns)
    BY <1>6, TailFacts DEF SendStep, DeliveryTypeOK
  <2>2. channel' \in Seq(Msgs) /\ sent' \subseteq Turns
    <3>1. Append(channel, Head(todo[b])) \in Seq(Msgs)
      BY <2>1, AppendFacts, MsgFacts DEF DeliveryTypeOK
    <3> QED
      BY <1>6, <2>1, <3>1 DEF SendStep, DeliveryTypeOK
  <2> QED
    BY <1>6, <2>1, <2>2 DEF SendStep, Held, SameLedger, DeliveryTypeOK
<1>7. ASSUME NEW b \in Senders, NEW us \in Seq(Turns), TakeStep(b, us) PROVE DataOK
  <2>1. channel' \in Seq(Msgs)
    <3>1. Append(channel, CreateItem) \in Seq(Msgs)
      BY AppendFacts, MsgFacts DEF DeliveryTypeOK
    <3> QED
      BY <1>7, <3>1 DEF TakeStep, DeliveryTypeOK
  <2> QED
    BY <1>7, <2>1 DEF TakeStep, FreshTurns, Held, SameLedger, DeliveryTypeOK
<1>8. DataOK
  BY <1>1, <1>2, <1>3, <1>4, <1>5, <1>6, <1>7, StepKinds
<1> QED
  BY <1>0, <1>8 DEF ControlOK, DeliveryTypeOK

-----------------------------------------------------------------------------
(* What run() and the worker have in hand.                                 *)

\* The two halves of HandsInv.
MainHands ==
    /\ main \in {"start", "ending"} => Len(todo["main"]) = 1
    /\ main \notin {"start", "ending"} => todo["main"] = <<>>
WorkerHands ==
    /\ worker \in {"drain", "early", "register", "post"} => queue # <<>>
    /\ worker = "register" \/ (worker = "post" /\ Head(queue) # CreateItem)
          => contextId # 0 /\ Head(queue) # CreateItem

\* run() holds a lifecycle turn exactly while it is about to send it.
LEMMA MainHandsStep ==
    ASSUME DeliveryTypeOK, HandsInv, [DeliveryNext]_vars
    PROVE  MainHands'
<1>1. ASSUME Spawn PROVE MainHands'
  BY <1>1, SenderFacts DEF Spawn, mainVars, proxyVars, workerVars, serverVars, MainHands,
     HandsInv, DeliveryTypeOK
<1>2. ASSUME SpawnFails PROVE MainHands'
  BY <1>2, SenderFacts DEF SpawnFails, mainVars, proxyVars, workerVars, serverVars, MainHands,
     HandsInv, DeliveryTypeOK
<1>3. ASSUME ChildExits PROVE MainHands'
  <2>1. todo'["main"] = <<Turn("end", ordinal, "main")>>
    BY <1>3, SenderFacts DEF ChildExits, TakeMark, DeliveryTypeOK
  <2> QED
    BY <1>3, <2>1 DEF ChildExits, MainHands
<1>4. ASSUME MainFails PROVE MainHands'
  BY <1>4, SenderFacts DEF MainFails, mainVars, proxyVars, workerVars, serverVars, MainHands,
     HandsInv, DeliveryTypeOK
<1>5. ASSUME EnqueueCreate PROVE MainHands'
  <2>1. todo'["main"] = <<Turn("start", ordinal, "main")>>
    BY <1>5, SenderFacts DEF EnqueueCreate, TakeMark, DeliveryTypeOK
  <2> QED
    BY <1>5, <2>1 DEF EnqueueCreate, MainHands
<1>6. ASSUME EnqueueStart PROVE MainHands'
  BY <1>6, SenderFacts DEF EnqueueStart, SendMark, SendTurn, Send, mainVars, proxyVars,
     workerVars, serverVars, MainHands, HandsInv, DeliveryTypeOK
<1>7. ASSUME EnqueueEnd PROVE MainHands'
  BY <1>7, SenderFacts DEF EnqueueEnd, SendMark, SendTurn, Send, mainVars, proxyVars,
     workerVars, serverVars, MainHands, HandsInv, DeliveryTypeOK
<1>8. ASSUME ProxyShutdown PROVE MainHands'
  BY <1>8, SenderFacts DEF ProxyShutdown, mainVars, proxyVars, workerVars, serverVars,
     MainHands, HandsInv, DeliveryTypeOK
<1>9. ASSUME AskShutdown PROVE MainHands'
  BY <1>9, SenderFacts DEF AskShutdown, Send, mainVars, proxyVars, workerVars, serverVars,
     MainHands, HandsInv, DeliveryTypeOK
<1>10. ASSUME Finish PROVE MainHands'
  BY <1>10, SenderFacts DEF Finish, mainVars, proxyVars, workerVars, serverVars, MainHands,
     HandsInv, DeliveryTypeOK
<1>11. ASSUME NEW t \in Tasks, NEW n \in 0 .. 2, Observe(t, n) PROVE MainHands'
  BY <1>11, SenderFacts DEF Observe, Take, mainVars, proxyVars, workerVars, serverVars,
     MainHands, HandsInv, DeliveryTypeOK
<1>12. ASSUME NEW t \in Tasks, Respond(t, 1) PROVE MainHands'
  BY <1>12, SenderFacts DEF Respond, Take, mainVars, proxyVars, workerVars, serverVars,
     MainHands, HandsInv, DeliveryTypeOK
<1>13. ASSUME NEW t \in Tasks, Detach(t) PROVE MainHands'
  BY <1>13, SenderFacts DEF Detach, mainVars, proxyVars, workerVars, serverVars, MainHands,
     HandsInv, DeliveryTypeOK
<1>14. ASSUME NEW t \in Tasks, EndExchange(t) PROVE MainHands'
  BY <1>14, SenderFacts DEF EndExchange, mainVars, proxyVars, workerVars, serverVars, MainHands,
     HandsInv, DeliveryTypeOK
<1>15. ASSUME NEW t \in Tasks, EnqueueTurn(t) PROVE MainHands'
  BY <1>15, SenderFacts DEF EnqueueTurn, SendTurn, Send, mainVars, proxyVars, workerVars,
     serverVars, MainHands, HandsInv, DeliveryTypeOK
<1>16. ASSUME Stop PROVE MainHands'
  BY <1>16, SenderFacts DEF Stop, At, MayFinish, mainVars, proxyVars, workerVars, serverVars,
     MainHands, HandsInv, DeliveryTypeOK
<1>17. ASSUME Receive PROVE MainHands'
  BY <1>17, SenderFacts DEF Receive, At, HandleMessage, mainVars, proxyVars, workerVars,
     serverVars, MainHands, HandsInv, DeliveryTypeOK
<1>18. ASSUME Drain PROVE MainHands'
  BY <1>18, SenderFacts DEF Drain, Draining, At, HandleMessage, mainVars, proxyVars, workerVars,
     serverVars, MainHands, HandsInv, DeliveryTypeOK
<1>19. ASSUME Process PROVE MainHands'
  BY <1>19, SenderFacts DEF Process, Draining, At, mainVars, proxyVars, workerVars, serverVars,
     MainHands, HandsInv, DeliveryTypeOK
<1>20. ASSUME AppendTooEarly PROVE MainHands'
  BY <1>20, SenderFacts DEF AppendTooEarly, At, mainVars, proxyVars, workerVars, serverVars,
     MainHands, HandsInv, DeliveryTypeOK
<1>21. ASSUME Refused PROVE MainHands'
  BY <1>21, SenderFacts DEF Refused, At, mainVars, proxyVars, workerVars, serverVars, MainHands,
     HandsInv, DeliveryTypeOK
<1>22. ASSUME Register PROVE MainHands'
  BY <1>22, SenderFacts DEF Register, At, mainVars, proxyVars, workerVars, serverVars,
     MainHands, HandsInv, DeliveryTypeOK
<1>23. ASSUME PostCreate PROVE MainHands'
  BY <1>23, SenderFacts DEF PostCreate, At, mainVars, proxyVars, workerVars, serverVars,
     MainHands, HandsInv, DeliveryTypeOK
<1>24. ASSUME PostAppend PROVE MainHands'
  BY <1>24, SenderFacts DEF PostAppend, At, mainVars, proxyVars, workerVars, serverVars,
     MainHands, HandsInv, DeliveryTypeOK
<1>25. ASSUME AnswerLost PROVE MainHands'
  BY <1>25, SenderFacts DEF AnswerLost, At, mainVars, proxyVars, workerVars, serverVars,
     MainHands, HandsInv, DeliveryTypeOK
<1>26. ASSUME Deadline PROVE MainHands'
  BY <1>26, SenderFacts DEF Deadline, mainVars, proxyVars, workerVars, serverVars, MainHands,
     HandsInv, DeliveryTypeOK
<1>27. ASSUME UNCHANGED vars PROVE MainHands'
  BY <1>27, SenderFacts DEF vars, mainVars, proxyVars, workerVars, serverVars, MainHands,
     HandsInv, DeliveryTypeOK
<1> QED
  BY <1>1, <1>2, <1>3, <1>4, <1>5, <1>6, <1>7, <1>8, <1>9, <1>10, <1>11, <1>12, <1>13, <1>14,
     <1>15, <1>16, <1>17, <1>18, <1>19, <1>20, <1>21, <1>22, <1>23, <1>24, <1>25, <1>26, <1>27
  DEF DeliveryNext, MainStep, WorkerStep, RequestEnds

\* A message taken from the channel leaves the front of the queue.
LEMMA HandleKeeps ==
    ASSUME DeliveryTypeOK, HandleMessage
    PROVE  queue' = queue \/ (queue' # <<>> /\ (queue # <<>> => Head(queue') = Head(queue)))
<1>1. Head(channel) \in Msgs
  BY TailFacts DEF HandleMessage, DeliveryTypeOK
<1>2. Head(channel) # ShutdownMsg => Head(channel) \in Items
  BY <1>1, MsgFacts
<1> QED
  BY <1>2, AppendFacts DEF HandleMessage, DeliveryTypeOK

\* The worker has an item in front of it, and a context where it appends.
LEMMA WorkerHandsStep ==
    ASSUME DeliveryTypeOK, HandsInv, [DeliveryNext]_vars
    PROVE  WorkerHands'
<1>1. ASSUME Spawn PROVE WorkerHands'
  BY <1>1 DEF Spawn, mainVars, proxyVars, workerVars, serverVars, WorkerHands, HandsInv,
     Delivered, Failed
<1>2. ASSUME SpawnFails PROVE WorkerHands'
  BY <1>2 DEF SpawnFails, mainVars, proxyVars, workerVars, serverVars, WorkerHands, HandsInv,
     Delivered, Failed
<1>3. ASSUME ChildExits PROVE WorkerHands'
  BY <1>3 DEF ChildExits, TakeMark, mainVars, proxyVars, workerVars, serverVars, WorkerHands,
     HandsInv, Delivered, Failed
<1>4. ASSUME MainFails PROVE WorkerHands'
  BY <1>4 DEF MainFails, mainVars, proxyVars, workerVars, serverVars, WorkerHands, HandsInv,
     Delivered, Failed
<1>5. ASSUME EnqueueCreate PROVE WorkerHands'
  BY <1>5 DEF EnqueueCreate, Send, TakeMark, mainVars, proxyVars, workerVars, serverVars,
     WorkerHands, HandsInv, Delivered, Failed
<1>6. ASSUME EnqueueStart PROVE WorkerHands'
  BY <1>6 DEF EnqueueStart, SendMark, SendTurn, Send, mainVars, proxyVars, workerVars,
     serverVars, WorkerHands, HandsInv, Delivered, Failed
<1>7. ASSUME EnqueueEnd PROVE WorkerHands'
  BY <1>7 DEF EnqueueEnd, SendMark, SendTurn, Send, mainVars, proxyVars, workerVars, serverVars,
     WorkerHands, HandsInv, Delivered, Failed
<1>8. ASSUME ProxyShutdown PROVE WorkerHands'
  BY <1>8 DEF ProxyShutdown, mainVars, proxyVars, workerVars, serverVars, WorkerHands, HandsInv,
     Delivered, Failed
<1>9. ASSUME AskShutdown PROVE WorkerHands'
  BY <1>9 DEF AskShutdown, Send, mainVars, proxyVars, workerVars, serverVars, WorkerHands,
     HandsInv, Delivered, Failed
<1>10. ASSUME Finish PROVE WorkerHands'
  BY <1>10 DEF Finish, mainVars, proxyVars, workerVars, serverVars, WorkerHands, HandsInv,
     Delivered, Failed
<1>11. ASSUME NEW t \in Tasks, NEW n \in 0 .. 2, Observe(t, n) PROVE WorkerHands'
  BY <1>11 DEF Observe, Take, mainVars, proxyVars, workerVars, serverVars, WorkerHands,
     HandsInv, Delivered, Failed
<1>12. ASSUME NEW t \in Tasks, Respond(t, 1) PROVE WorkerHands'
  BY <1>12 DEF Respond, Take, mainVars, proxyVars, workerVars, serverVars, WorkerHands,
     HandsInv, Delivered, Failed
<1>13. ASSUME NEW t \in Tasks, Detach(t) PROVE WorkerHands'
  BY <1>13 DEF Detach, mainVars, proxyVars, workerVars, serverVars, WorkerHands, HandsInv,
     Delivered, Failed
<1>14. ASSUME NEW t \in Tasks, EndExchange(t) PROVE WorkerHands'
  BY <1>14 DEF EndExchange, mainVars, proxyVars, workerVars, serverVars, WorkerHands, HandsInv,
     Delivered, Failed
<1>15. ASSUME NEW t \in Tasks, EnqueueTurn(t) PROVE WorkerHands'
  BY <1>15 DEF EnqueueTurn, SendTurn, Send, mainVars, proxyVars, workerVars, serverVars,
     WorkerHands, HandsInv, Delivered, Failed
<1>16. ASSUME Stop PROVE WorkerHands'
  BY <1>16 DEF Stop, At, MayFinish, mainVars, proxyVars, workerVars, serverVars, WorkerHands,
     HandsInv, Delivered, Failed
<1>17. ASSUME Receive PROVE WorkerHands'
  <2>1. queue' = queue \/ (queue' # <<>> /\ (queue # <<>> => Head(queue') = Head(queue)))
    BY <1>17, HandleKeeps DEF Receive, HandleMessage
  <2> QED
    BY <1>17, <2>1 DEF Receive, At, WorkerHands, HandsInv
<1>18. ASSUME Drain PROVE WorkerHands'
  <2>1. queue' = queue \/ (queue' # <<>> /\ (queue # <<>> => Head(queue') = Head(queue)))
    BY <1>18, HandleKeeps DEF Drain, HandleMessage
  <2> QED
    BY <1>18, <2>1 DEF Drain, Draining, At, WorkerHands, HandsInv
<1>19. ASSUME Process PROVE WorkerHands'
  BY <1>19 DEF Process, Draining, At, mainVars, proxyVars, workerVars, serverVars, WorkerHands,
     HandsInv, Delivered, Failed
<1>20. ASSUME AppendTooEarly PROVE WorkerHands'
  BY <1>20 DEF AppendTooEarly, At, mainVars, proxyVars, workerVars, serverVars, WorkerHands,
     HandsInv, Delivered, Failed
<1>21. ASSUME Refused PROVE WorkerHands'
  BY <1>21 DEF Refused, At, mainVars, proxyVars, workerVars, serverVars, WorkerHands, HandsInv,
     Delivered, Failed
<1>22. ASSUME Register PROVE WorkerHands'
  BY <1>22 DEF Register, At, mainVars, proxyVars, workerVars, serverVars, WorkerHands, HandsInv,
     Delivered, Failed
<1>23. ASSUME PostCreate PROVE WorkerHands'
  BY <1>23 DEF PostCreate, At, mainVars, proxyVars, workerVars, serverVars, WorkerHands,
     HandsInv, Delivered, Failed
<1>24. ASSUME PostAppend PROVE WorkerHands'
  BY <1>24 DEF PostAppend, At, mainVars, proxyVars, workerVars, serverVars, WorkerHands,
     HandsInv, Delivered, Failed
<1>25. ASSUME AnswerLost PROVE WorkerHands'
  BY <1>25 DEF AnswerLost, At, mainVars, proxyVars, workerVars, serverVars, WorkerHands,
     HandsInv, Delivered, Failed
<1>26. ASSUME Deadline PROVE WorkerHands'
  BY <1>26 DEF Deadline, mainVars, proxyVars, workerVars, serverVars, WorkerHands, HandsInv,
     Delivered, Failed
<1>27. ASSUME UNCHANGED vars PROVE WorkerHands'
  BY <1>27 DEF vars, mainVars, proxyVars, workerVars, serverVars, WorkerHands, HandsInv,
     Delivered, Failed
<1> QED
  BY <1>1, <1>2, <1>3, <1>4, <1>5, <1>6, <1>7, <1>8, <1>9, <1>10, <1>11, <1>12, <1>13, <1>14,
     <1>15, <1>16, <1>17, <1>18, <1>19, <1>20, <1>21, <1>22, <1>23, <1>24, <1>25, <1>26, <1>27
  DEF DeliveryNext, MainStep, WorkerStep, RequestEnds

\* Every step keeps what run() and the worker hold at each place.
LEMMA HandsStep ==
    ASSUME DeliveryTypeOK, HandsInv, [DeliveryNext]_vars
    PROVE  HandsInv'
  BY MainHandsStep, WorkerHandsStep DEF MainHands, WorkerHands, HandsInv

-----------------------------------------------------------------------------
(* Where the turns are after a step.                                       *)

Records == [context : Nat, turn : Turns]

\* Appending a record adds its turn.
LEMMA StoredFacts ==
    ASSUME NEW seq \in Seq(Records), NEW c \in Nat, NEW u \in Turns
    PROVE  LET r == Append(seq, [context |-> c, turn |-> u])
           IN  {r[i].turn : i \in DOMAIN r} = {seq[i].turn : i \in DOMAIN seq} \cup {u}
<1> DEFINE x == [context |-> c, turn |-> u]
           r == Append(seq, x)
<1>1. x \in Records /\ x.turn = u
  BY DEF Records
<1> HIDE DEF x
<1>2. /\ \A i \in 1 .. Len(seq) : r[i] = seq[i]
      /\ r[Len(seq) + 1] = x
      /\ DOMAIN r = 1 .. (Len(seq) + 1) /\ DOMAIN seq = 1 .. Len(seq) /\ Len(seq) \in Nat
  BY <1>1, AppendProperties, LenProperties
<1> HIDE DEF r
<1>3. {r[i].turn : i \in DOMAIN r} = {seq[i].turn : i \in DOMAIN seq} \cup {u}
  BY <1>1, <1>2
<1> QED
  BY <1>3 DEF r, x

\* AppendFacts for members alone.
LEMMA MembersAfterAppend ==
    \A seq \in Seq(Items), x \in Items : ToSet(Append(seq, x)) = ToSet(seq) \cup {x}
  BY AppendFacts

\* What is where.
LEMMA PlaceFacts ==
    ASSUME DeliveryTypeOK
    PROVE  /\ StoredTurns \subseteq Turns /\ ToSet(queue) \subseteq Items /\ ToSet(channel) \subseteq Msgs
           /\ \A b \in Senders : ToSet(todo[b]) \subseteq Turns
           /\ queue = <<>> => ToSet(queue) = {} /\ Waiting = {}
           /\ queue # <<>> => /\ Head(queue) \in Items
                              /\ ToSet(queue) = {Head(queue)} \cup Waiting
           /\ stored = <<>> => StoredTurns = {}
<1>1. StoredTurns \subseteq Turns
  <2>1. \A i \in DOMAIN stored : stored[i] \in [context : Nat, turn : Turns]
    BY LenProperties, ElementOfSeq DEF DeliveryTypeOK
  <2> QED
    BY <2>1 DEF StoredTurns
<1>2. /\ ToSet(queue) \subseteq Items /\ ToSet(channel) \subseteq Msgs
      /\ \A b \in Senders : ToSet(todo[b]) \subseteq Turns
  BY MemberFacts DEF DeliveryTypeOK
<1>3. queue = <<>> => ToSet(queue) = {} /\ Waiting = {}
  BY EmptyFacts DEF Waiting
<1>4. queue # <<>> => Head(queue) \in Items /\ ToSet(queue) = {Head(queue)} \cup Waiting
  BY TailFacts DEF Waiting, DeliveryTypeOK
<1>5. stored = <<>> => StoredTurns = {}
  BY DEF StoredTurns
<1> QED
  BY <1>1, <1>2, <1>3, <1>4, <1>5

\* Without an append the same turns are stored.
LEMMA SameStored == ASSUME UNCHANGED stored PROVE StoredTurns' = StoredTurns
  BY DEF StoredTurns

\* The channel alone says which turns are waiting in it.
LEMMA SameWaiting == ASSUME UNCHANGED queue PROVE Waiting' = Waiting
  BY DEF Waiting

\* A turn is sent: it leaves its task's list.
LEMMA SendPlaces ==
    ASSUME DeliveryTypeOK, NEW b \in Senders, SendStep(b)
    PROVE  /\ Head(todo[b]) \in Turns
           /\ ToSet(todo[b]) = {Head(todo[b])} \cup ToSet(todo'[b])
           /\ todo'[b] = Tail(todo[b])
           /\ \A c \in Senders : c # b => todo'[c] = todo[c]
           /\ \A c \in Senders : ToSet(todo'[c]) \subseteq ToSet(todo[c])
           /\ \/ UNCHANGED <<channel, sent>>
              \/ /\ ToSet(channel') = ToSet(channel) \cup {Head(todo[b])}
                 /\ sent' = sent \cup {Head(todo[b])} /\ worker # "done"
<1>1. todo[b] \in Seq(Turns) /\ todo[b] # <<>>
  BY DEF SendStep, DeliveryTypeOK
<1>2. todo'[b] = Tail(todo[b]) /\ \A c \in Senders : c # b => todo'[c] = todo[c]
  BY DEF SendStep, DeliveryTypeOK
<1>3. Head(todo[b]) \in Turns /\ ToSet(todo[b]) = {Head(todo[b])} \cup ToSet(todo'[b])
  BY <1>1, <1>2, TailFacts
<1>4. \A c \in Senders : ToSet(todo'[c]) \subseteq ToSet(todo[c])
  BY <1>2, <1>3
<1>5. ToSet(Append(channel, Head(todo[b]))) = ToSet(channel) \cup {Head(todo[b])}
  BY <1>3, AppendFacts, MsgFacts DEF DeliveryTypeOK
<1> QED
  BY <1>2, <1>3, <1>4, <1>5 DEF SendStep

\* Turns are taken: they replace the list of their task.
LEMMA TakePlaces ==
    ASSUME DeliveryTypeOK, NEW b \in Senders, NEW us \in Seq(Turns), TakeStep(b, us)
    PROVE  /\ todo'[b] = us /\ \A c \in Senders : c # b => todo'[c] = todo[c]
           /\ \/ UNCHANGED channel
              \/ /\ ToSet(channel') = ToSet(channel) \cup {CreateItem}
                 /\ channel' = Append(channel, CreateItem) /\ main = "create"
<1>1. todo'[b] = us /\ \A c \in Senders : c # b => todo'[c] = todo[c]
  BY DEF TakeStep, DeliveryTypeOK
<1>2. ToSet(Append(channel, CreateItem)) = ToSet(channel) \cup {CreateItem}
  BY AppendFacts, MsgFacts DEF DeliveryTypeOK
<1> QED
  BY <1>1, <1>2 DEF TakeStep

\* The shutdown message is behind all others.
LEMMA AskPlaces ==
    ASSUME DeliveryTypeOK, AskStep
    PROVE  \/ UNCHANGED channel
           \/ /\ ToSet(channel') = ToSet(channel) \cup {ShutdownMsg}
              /\ channel' = Append(channel, ShutdownMsg)
<1>1. ToSet(Append(channel, ShutdownMsg)) = ToSet(channel) \cup {ShutdownMsg}
  BY AppendFacts, MsgFacts DEF DeliveryTypeOK
<1> QED
  BY <1>1 DEF AskStep

\* A message goes from the channel to the end of the queue.
LEMMA HandlePlaces ==
    ASSUME DeliveryTypeOK, HandleStep
    PROVE  LET h == Head(channel)
           IN  /\ h \in Msgs /\ ToSet(channel) = {h} \cup ToSet(channel') /\ channel' = Tail(channel)
               /\ \/ h = ShutdownMsg /\ UNCHANGED queue /\ shutdown' = "asked"
                  \/ /\ h \in Items /\ h # ShutdownMsg /\ queue' = Append(queue, h) /\ queue' # <<>>
                     /\ UNCHANGED shutdown
                     /\ ToSet(queue') = ToSet(queue) \cup {h}
                     /\ queue = <<>> => Head(queue') = h /\ Waiting' = {}
                     /\ queue # <<>> => Head(queue') = Head(queue) /\ Waiting' = Waiting \cup {h}
<1> DEFINE h == Head(channel)
<1>1. h \in Msgs /\ ToSet(channel) = {h} \cup ToSet(channel') /\ channel' = Tail(channel)
  BY TailFacts DEF HandleStep, DeliveryTypeOK
<1>2. CASE h = ShutdownMsg
  BY <1>1, <1>2 DEF HandleStep
<1>3. CASE h # ShutdownMsg
  <2>1. h \in Items /\ queue' = Append(queue, h) /\ queue \in Seq(Items) /\ UNCHANGED shutdown
    BY <1>1, <1>3, MsgFacts DEF HandleStep, DeliveryTypeOK
  <2> HIDE DEF h
  <2>2. ToSet(queue') = ToSet(queue) \cup {h} /\ queue' # <<>>
    BY <2>1, AppendFacts
  <2>3. queue = <<>> => Head(queue') = h /\ Waiting' = {}
    BY <2>1, AppendFacts, EmptyFacts DEF Waiting
  <2>4. ASSUME queue # <<>> PROVE Head(queue') = Head(queue) /\ Waiting' = Waiting \cup {h}
    <3>1. Head(queue') = Head(queue) /\ Tail(queue') = Append(Tail(queue), h)
      BY <2>1, <2>4, AppendFacts
    <3>2. Tail(queue) \in Seq(Items)
      BY <2>1, <2>4, TailFacts
    <3>3. ToSet(Append(Tail(queue), h)) = ToSet(Tail(queue)) \cup {h}
      BY <2>1, <3>2, MembersAfterAppend
    <3> QED
      BY <2>2, <2>4, <3>1, <3>3 DEF Waiting
  <2> QED
    BY <1>1, <1>3, <2>1, <2>2, <2>3, <2>4 DEF h
<1> QED
  BY <1>2, <1>3

\* The front of the queue is delivered; if it was a turn, it is stored.
LEMMA DeliverPlaces ==
    ASSUME DeliveryTypeOK, DeliverStep
    PROVE  /\ Begins => /\ ToSet(queue') = {RecoveredTurn} /\ Head(queue') = RecoveredTurn
                        /\ Waiting' = {} /\ Waiting = {}
           /\ ~Begins => /\ ToSet(queue') = Waiting /\ queue' = Tail(queue) /\ Waiting' \subseteq Waiting
                         /\ queue' # <<>> => Head(queue') \in Waiting
           /\ ToSet(queue) = {Head(queue)} \cup Waiting
           /\ \/ Head(queue) = CreateItem /\ StoredTurns' = StoredTurns
              \/ Head(queue) \in Turns /\ StoredTurns' = StoredTurns \cup {Head(queue)}
<1>1. queue \in Seq(Items) /\ queue # <<>> /\ Tail(queue) \in Seq(Items) /\ Waiting = ToSet(Tail(queue))
      /\ ToSet(queue) = {Head(queue)} \cup Waiting
  BY TailFacts DEF DeliverStep, DeliveryTypeOK, Waiting
<1>2. ASSUME Begins
      PROVE  /\ ToSet(queue') = {RecoveredTurn} /\ Head(queue') = RecoveredTurn
             /\ Waiting' = {} /\ Waiting = {}
  <2>1. queue' = <<RecoveredTurn>>
    BY <1>2, DeliverEffect
  <2>2. /\ ToSet(<<RecoveredTurn>>) = {RecoveredTurn} /\ Head(<<RecoveredTurn>>) = RecoveredTurn
        /\ Tail(<<RecoveredTurn>>) = <<>> /\ <<RecoveredTurn>> # <<>>
    BY DEF ToSet
  <2>3. Waiting' = {}
    BY <2>1, <2>2, EmptyFacts DEF Waiting
  <2> QED
    BY <1>1, <1>2, <2>1, <2>2, <2>3, EmptyFacts DEF Begins
<1>3. ASSUME ~Begins
      PROVE  /\ ToSet(queue') = Waiting /\ queue' = Tail(queue) /\ Waiting' \subseteq Waiting
             /\ queue' # <<>> => Head(queue') \in Waiting
  <2>1. queue' = Tail(queue)
    BY <1>3, DeliverEffect
  <2>2. queue' # <<>> => ToSet(queue') = {Head(queue')} \cup ToSet(Tail(queue'))
    BY <1>1, <2>1, TailFacts
  <2> QED
    BY <1>1, <2>1, <2>2 DEF Waiting
<1>4. \/ Head(queue) = CreateItem /\ StoredTurns' = StoredTurns
      \/ Head(queue) \in Turns /\ StoredTurns' = StoredTurns \cup {Head(queue)}
  <2>1. CASE UNCHANGED stored /\ Head(queue) = CreateItem
    BY <2>1, SameStored
  <2>2. CASE /\ Head(queue) \in Turns
             /\ stored' = Append(stored, [context |-> contextId, turn |-> Head(queue)])
    <3>1. stored \in Seq(Records) /\ contextId \in Nat
      BY DEF DeliveryTypeOK, Records
    <3> QED
      BY <2>2, <3>1, StoredFacts DEF StoredTurns
  <2> QED
    BY <2>1, <2>2 DEF DeliverStep
<1> QED
  BY <1>1, <1>2, <1>3, <1>4

\* The front of the queue stays there; if it is a turn, it may be stored.
LEMMA FailPlaces ==
    ASSUME DeliveryTypeOK, FailStep
    PROVE  /\ Head(queue') = Head(queue) /\ queue' # <<>> /\ ToSet(queue) = {Head(queue)} \cup Waiting
           /\ \/ /\ degraded /\ ToSet(queue') = ToSet(queue) /\ Waiting' = Waiting
                 /\ UNCHANGED <<queue, ordinal, recovery, sent>>
              \/ /\ ~degraded /\ ToSet(queue') = ToSet(queue) \cup {DegradedTurn}
                 /\ Waiting' = Waiting \cup {DegradedTurn} /\ queue' = Append(queue, DegradedTurn)
                 /\ ordinal' = ordinal + 1 /\ recovery' = FALSE /\ sent' = sent \cup {DegradedTurn}
           /\ \/ UNCHANGED stored /\ StoredTurns' = StoredTurns
              \/ Head(queue) \in Turns /\ StoredTurns' = StoredTurns \cup {Head(queue)}
<1>1. queue \in Seq(Items) /\ queue # <<>> /\ Tail(queue) \in Seq(Items) /\ Waiting = ToSet(Tail(queue))
      /\ ToSet(queue) = {Head(queue)} \cup Waiting /\ DegradedTurn \in Items
  BY TailFacts, MarkFacts, MsgFacts DEF FailStep, DeliveryTypeOK, Waiting
<1>2. ASSUME degraded
      PROVE  /\ Head(queue') = Head(queue) /\ queue' # <<>>
             /\ ToSet(queue') = ToSet(queue) /\ Waiting' = Waiting
             /\ UNCHANGED <<queue, ordinal, recovery, sent>>
  BY <1>1, <1>2, FailEffect, SameWaiting
<1>3. ASSUME ~degraded
      PROVE  /\ Head(queue') = Head(queue) /\ queue' # <<>>
             /\ ToSet(queue') = ToSet(queue) \cup {DegradedTurn}
             /\ Waiting' = Waiting \cup {DegradedTurn} /\ queue' = Append(queue, DegradedTurn)
             /\ ordinal' = ordinal + 1 /\ recovery' = FALSE /\ sent' = sent \cup {DegradedTurn}
  <2>1. /\ queue' = Append(queue, DegradedTurn)
        /\ ordinal' = ordinal + 1 /\ recovery' = FALSE /\ sent' = sent \cup {DegradedTurn}
    BY <1>3, FailEffect
  <2>2. /\ ToSet(queue') = ToSet(queue) \cup {DegradedTurn} /\ queue' # <<>>
        /\ Head(queue') = Head(queue) /\ Tail(queue') = Append(Tail(queue), DegradedTurn)
    BY <1>1, <2>1, AppendFacts
  <2>3. ToSet(Append(Tail(queue), DegradedTurn)) = ToSet(Tail(queue)) \cup {DegradedTurn}
    BY <1>1, MembersAfterAppend
  <2> QED
    BY <1>1, <2>1, <2>2, <2>3 DEF Waiting
<1>4. \/ UNCHANGED stored /\ StoredTurns' = StoredTurns
      \/ Head(queue) \in Turns /\ StoredTurns' = StoredTurns \cup {Head(queue)}
  <2>1. CASE UNCHANGED stored
    BY <2>1, SameStored
  <2>2. CASE /\ Head(queue) \in Turns
             /\ stored' = Append(stored, [context |-> contextId, turn |-> Head(queue)])
    <3>1. stored \in Seq(Records) /\ contextId \in Nat
      BY DEF DeliveryTypeOK, Records
    <3> QED
      BY <2>2, <3>1, StoredFacts DEF StoredTurns
  <2> QED
    BY <2>1, <2>2 DEF FailStep
<1> QED
  BY <1>1, <1>2, <1>3, <1>4

-----------------------------------------------------------------------------
(* Ordinals and order.                                                     *)

\* Every step keeps the next ordinal above all turns, and turns with those who made them.
LEMMA FreshStep ==
    ASSUME DeliveryTypeOK, HandsInv, FreshInv, [DeliveryNext]_vars
    PROVE  FreshInv'
<1>0. /\ ordinal \in Nat /\ "worker" \notin Senders
      /\ StoredTurns \subseteq Turns /\ sent \subseteq Turns /\ ToSet(queue) \subseteq Items
      /\ \A b \in Senders : ToSet(todo[b]) \subseteq Turns
      /\ \A u \in Turns : u.ordinal \in Nat
  BY PlaceFacts, SenderFacts, TurnFacts DEF DeliveryTypeOK
<1>1. ASSUME QuietStep PROVE FreshInv'
  BY <1>1, SameStored DEF QuietStep, Held, FreshInv
<1>2. ASSUME AskStep PROVE FreshInv'
  BY <1>2, AskPlaces, SameStored, TurnFacts DEF AskStep, Held, FreshInv
<1>3. ASSUME HandleStep PROVE FreshInv'
  BY <1>3, HandlePlaces, SameStored DEF HandleStep, FreshInv
<1>4. ASSUME DeliverStep PROVE FreshInv'
  <2>1. UNCHANGED <<todo, channel>>
    BY <1>4 DEF DeliverStep
  <2>2. /\ StoredTurns' \subseteq StoredTurns \cup (ToSet(queue) \cap Turns)
        /\ ordinal <= ordinal' /\ ordinal' \in Nat
        /\ ToSet(queue') \subseteq ToSet(queue) \cup (IF Begins THEN {RecoveredTurn} ELSE {})
        /\ sent' = sent \cup (IF Begins THEN {RecoveredTurn} ELSE {})
        /\ Begins => ordinal' = ordinal + 1
    <3>1. /\ ToSet(queue) = {Head(queue)} \cup Waiting
          /\ \/ StoredTurns' = StoredTurns
             \/ Head(queue) \in Turns /\ StoredTurns' = StoredTurns \cup {Head(queue)}
      BY <1>4, DeliverPlaces
    <3>2. CASE Begins
      <4>1. /\ ToSet(queue') = {RecoveredTurn} /\ ordinal' = ordinal + 1
            /\ sent' = sent \cup {RecoveredTurn}
        BY <1>4, <3>2, DeliverPlaces, DeliverEffect
      <4> QED
        BY <1>0, <3>1, <3>2, <4>1
    <3>3. CASE ~Begins
      <4>1. ToSet(queue') = Waiting /\ UNCHANGED <<ordinal, sent>>
        BY <1>4, <3>3, DeliverPlaces, DeliverEffect
      <4> QED
        BY <1>0, <3>1, <3>3, <4>1
    <3> QED
      BY <3>2, <3>3
  <2>3. Begins => RecoveredTurn \in Turns /\ RecoveredTurn.ordinal < ordinal' /\ RecoveredTurn.by = "worker"
    BY <1>0, <2>2, MarkFacts
  <2>4. ASSUME NEW u \in (ToSet(channel') \cup ToSet(queue') \cup StoredTurns' \cup sent') \cap Turns
        PROVE  u.ordinal < ordinal'
    <3>1. u \in ToSet(channel) \cup ToSet(queue) \cup StoredTurns \cup sent \/ (Begins /\ u = RecoveredTurn)
      BY <2>1, <2>2, <2>4
    <3> QED
      BY <1>0, <2>2, <2>3, <2>4, <3>1 DEF FreshInv
  <2>5. \A u \in sent' : u.kind \in {"degraded", "recovered"} => u.by = "worker"
    BY <2>2, <2>3 DEF FreshInv
  <2>6. \A b \in Senders : \A u \in ToSet(todo'[b]) : u.ordinal < ordinal' /\ u.by = b
    BY <1>0, <2>1, <2>2 DEF FreshInv
  <2> QED
    BY <2>1, <2>4, <2>5, <2>6 DEF FreshInv
<1>5. ASSUME FailStep PROVE FreshInv'
  <2>1. UNCHANGED <<todo, channel>>
    BY <1>5 DEF FailStep
  <2>2. /\ StoredTurns' \subseteq StoredTurns \cup (ToSet(queue) \cap Turns)
        /\ ordinal <= ordinal' /\ ordinal' \in Nat
        /\ ToSet(queue') \subseteq ToSet(queue) \cup (IF degraded THEN {} ELSE {DegradedTurn})
        /\ sent' = sent \cup (IF degraded THEN {} ELSE {DegradedTurn})
        /\ ~degraded => ordinal' = ordinal + 1
    <3>1. /\ ToSet(queue) = {Head(queue)} \cup Waiting
          /\ \/ StoredTurns' = StoredTurns
             \/ Head(queue) \in Turns /\ StoredTurns' = StoredTurns \cup {Head(queue)}
      BY <1>5, FailPlaces
    <3>2. CASE degraded
      <4>1. UNCHANGED <<queue, ordinal, sent>>
        BY <1>5, <3>2, FailPlaces
      <4> QED
        BY <1>0, <3>1, <3>2, <4>1
    <3>3. CASE ~degraded
      <4>1. /\ ToSet(queue') = ToSet(queue) \cup {DegradedTurn} /\ ordinal' = ordinal + 1
            /\ sent' = sent \cup {DegradedTurn}
        BY <1>5, <3>3, FailPlaces
      <4> QED
        BY <1>0, <3>1, <3>3, <4>1
    <3> QED
      BY <3>2, <3>3
  <2>3. ~degraded => DegradedTurn \in Turns /\ DegradedTurn.ordinal < ordinal' /\ DegradedTurn.by = "worker"
    BY <1>0, <2>2, MarkFacts
  <2>4. ASSUME NEW u \in (ToSet(channel') \cup ToSet(queue') \cup StoredTurns' \cup sent') \cap Turns
        PROVE  u.ordinal < ordinal'
    <3>1. u \in ToSet(channel) \cup ToSet(queue) \cup StoredTurns \cup sent \/ (~degraded /\ u = DegradedTurn)
      BY <2>1, <2>2, <2>4
    <3> QED
      BY <1>0, <2>2, <2>3, <2>4, <3>1 DEF FreshInv
  <2>5. \A u \in sent' : u.kind \in {"degraded", "recovered"} => u.by = "worker"
    BY <2>2, <2>3 DEF FreshInv
  <2>6. \A b \in Senders : \A u \in ToSet(todo'[b]) : u.ordinal < ordinal' /\ u.by = b
    BY <1>0, <2>1, <2>2 DEF FreshInv
  <2> QED
    BY <2>1, <2>4, <2>5, <2>6 DEF FreshInv
<1>6. ASSUME NEW b \in Senders, SendStep(b) PROVE FreshInv'
  <2>1. UNCHANGED <<queue, stored, ordinal>> /\ StoredTurns' = StoredTurns
    BY <1>6, SameStored DEF SendStep, Held
  <2>2. /\ Head(todo[b]) \in ToSet(todo[b])
        /\ ToSet(channel') \subseteq ToSet(channel) \cup {Head(todo[b])}
        /\ sent' \subseteq sent \cup {Head(todo[b])}
        /\ \A c \in Senders : ToSet(todo'[c]) \subseteq ToSet(todo[c])
    BY <1>6, SendPlaces
  <2>3. /\ Head(todo[b]).ordinal < ordinal /\ Head(todo[b]).by = b
        /\ Head(todo[b]).kind \notin {"degraded", "recovered"}
    BY <2>2 DEF FreshInv
  <2> QED
    BY <1>0, <2>1, <2>2, <2>3 DEF FreshInv
<1>7. ASSUME NEW b \in Senders, NEW us \in Seq(Turns), TakeStep(b, us) PROVE FreshInv'
  <2>1. UNCHANGED <<queue, stored, sent>> /\ StoredTurns' = StoredTurns /\ FreshTurns(b, us, ordinal')
    BY <1>7, SameStored DEF TakeStep, Held
  <2>2. /\ ToSet(channel') \subseteq ToSet(channel) \cup {CreateItem}
        /\ todo'[b] = us /\ \A c \in Senders : c # b => todo'[c] = todo[c]
    BY <1>7, TakePlaces
  <2>3. ordinal <= ordinal' /\ ordinal' \in Nat
        /\ \A u \in ToSet(us) : /\ u.by = b /\ u.kind \notin {"degraded", "recovered"}
                                /\ u.ordinal < ordinal'
    BY <2>1 DEF FreshTurns
  <2>4. ASSUME NEW c \in Senders, NEW u \in ToSet(todo'[c])
        PROVE  u.ordinal < ordinal' /\ u.by = c /\ u.kind \notin {"degraded", "recovered"}
    <3>1. CASE c = b
      BY <2>2, <2>3, <2>4, <3>1
    <3>2. CASE c # b
      BY <1>0, <2>2, <2>3, <2>4, <3>2 DEF FreshInv
    <3> QED
      BY <3>1, <3>2
  <2>5. ASSUME NEW u \in (ToSet(channel') \cup ToSet(queue') \cup StoredTurns' \cup sent') \cap Turns
        PROVE  u.ordinal < ordinal'
    <3>1. u \in (ToSet(channel) \cup ToSet(queue) \cup StoredTurns \cup sent) \cap Turns
      BY <2>1, <2>2, <2>5, TurnFacts
    <3> QED
      BY <1>0, <2>3, <3>1 DEF FreshInv
  <2>6. \A u \in ToSet(channel') \cap Turns : u.by # "worker"
    BY <2>2, TurnFacts DEF FreshInv
  <2>7. \A u \in ToSet(channel') : u.kind \notin {"degraded", "recovered"}
    BY <2>2, TurnFacts DEF FreshInv
  <2> QED
    BY <2>1, <2>4, <2>5, <2>6, <2>7 DEF FreshInv
<1> QED
  BY <1>1, <1>2, <1>3, <1>4, <1>5, <1>6, <1>7, StepKinds

\* When one message is before another.
LEMMA BeforeFacts ==
    /\ \A u \in Msgs : u # ShutdownMsg => Before(u, ShutdownMsg)
    /\ \A u \in Msgs : u # CreateItem => Before(u, CreateItem)
    /\ \A v \in Turns : Before(CreateItem, v)
    /\ \A v \in Turns : v.by # "main" => Before(ShutdownMsg, v)
    /\ \A u, v \in Turns : u.by # v.by \/ u.ordinal < v.ordinal => Before(u, v)
  BY TurnFacts DEF Before

\* Every step keeps the messages in order, each stage behind the one after it.
LEMMA FlowStep ==
    ASSUME DeliveryTypeOK, HandsInv, FlowInv, FreshInv, ShutdownInv, ContextInv,
           DeliveryTypeOK', [DeliveryNext]_vars
    PROVE  FlowInv'
<1>0. /\ ToSet(queue) \subseteq Items /\ ToSet(channel) \subseteq Msgs
      /\ \A b \in Senders : ToSet(todo[b]) \subseteq Turns
      /\ queue \in Seq(Items) /\ channel \in Seq(Msgs) /\ \A b \in Senders : todo[b] \in Seq(Turns)
      /\ ordinal \in Nat
  BY PlaceFacts DEF DeliveryTypeOK
<1>1. ASSUME QuietStep PROVE FlowInv'
  BY <1>1 DEF QuietStep, Held, FlowInv
<1>2. ASSUME AskStep PROVE FlowInv'
  <2>1. UNCHANGED <<queue, todo>> /\ main = "shutdown"
    BY <1>2 DEF AskStep, Held
  <2>2. CASE UNCHANGED channel
    BY <2>1, <2>2 DEF FlowInv
  <2>3. CASE channel' = Append(channel, ShutdownMsg) /\ ToSet(channel') = ToSet(channel) \cup {ShutdownMsg}
    <3>1. ShutdownMsg \notin ToSet(channel) /\ ToSet(todo["main"]) = {}
      BY <2>1, EmptyFacts DEF ShutdownInv, HandsInv
    <3>2. Below(ToSet(channel) \cup ToSet(queue), {ShutdownMsg})
      BY <1>0, <3>1, BeforeFacts, MsgFacts, TurnFacts DEF Below
    <3>3. InOrder(channel')
      BY <1>0, <2>3, <3>2, OrderAppend, MsgFacts DEF FlowInv, Below
    <3>4. \A b \in Senders : Below({ShutdownMsg}, ToSet(todo[b]))
      BY <1>0, <3>1, BeforeFacts DEF Below, FreshInv
    <3> QED
      BY <2>1, <2>3, <3>2, <3>3, <3>4 DEF FlowInv, Below
  <2> QED
    BY <1>2, <2>2, <2>3, AskPlaces
<1>3. ASSUME HandleStep PROVE FlowInv'
  <2>1. UNCHANGED todo /\ channel # <<>>
    BY <1>3 DEF HandleStep
  <2>2. InOrder(channel') /\ Below({Head(channel)}, ToSet(channel')) /\ ToSet(channel) = {Head(channel)} \cup ToSet(channel')
    BY <1>0, <1>3, <2>1, OrderTail, HandlePlaces DEF FlowInv
  <2>3. CASE UNCHANGED queue
    BY <2>1, <2>2, <2>3 DEF FlowInv, Below
  <2>4. CASE /\ queue' = Append(queue, Head(channel)) /\ Head(channel) \in Items
             /\ ToSet(queue') = ToSet(queue) \cup {Head(channel)}
    <3>1. InOrder(queue')
      BY <1>0, <2>2, <2>4, OrderAppend DEF FlowInv, Below
    <3> QED
      BY <2>1, <2>2, <2>4, <3>1 DEF FlowInv, Below
  <2> QED
    BY <1>3, <2>3, <2>4, HandlePlaces
<1>4. ASSUME DeliverStep PROVE FlowInv'
  <2>1. UNCHANGED <<todo, channel>> /\ queue # <<>>
    BY <1>4 DEF DeliverStep
  <2>2. CASE Begins
    <3>1. queue' = <<RecoveredTurn>> /\ ToSet(queue') = {RecoveredTurn}
      BY <1>4, <2>2, DeliverPlaces, DeliverEffect
    <3>2. InOrder(queue')
      BY <3>1 DEF InOrder
    <3>3. RecoveredTurn \in Turns /\ RecoveredTurn.by = "worker"
      BY <1>0, MarkFacts
    <3>4. \A v \in ToSet(channel) : Before(RecoveredTurn, v)
      <4>1. \A v \in ToSet(channel) \cap Turns : v.by # "worker"
        BY DEF FreshInv
      <4>2. RecoveredTurn # CreateItem /\ RecoveredTurn # ShutdownMsg
        BY <3>3, TurnFacts
      <4>3. RecoveredTurn \in Msgs
        BY <3>3, MsgFacts
      <4>4. \A v \in Msgs : v \in Turns \/ v = CreateItem \/ v = ShutdownMsg
        BY MsgFacts
      <4> QED
        BY <1>0, <3>3, <4>1, <4>2, <4>3, <4>4, BeforeFacts
    <3>5. \A b \in Senders : \A v \in ToSet(todo[b]) : Before(RecoveredTurn, v)
      <4>1. \A b \in Senders : \A v \in ToSet(todo[b]) : v \in Turns /\ v.by # "worker"
        BY <1>0, SenderFacts DEF FreshInv
      <4> QED
        BY <3>3, <4>1, BeforeFacts
    <3> QED
      BY <2>1, <3>1, <3>2, <3>4, <3>5 DEF FlowInv, Below
  <2>3. CASE ~Begins
    <3>1. queue' = Tail(queue) /\ ToSet(queue') = Waiting /\ Waiting \subseteq ToSet(queue)
      BY <1>4, <2>3, DeliverPlaces
    <3>2. InOrder(queue')
      BY <1>0, <2>1, <3>1, OrderTail DEF FlowInv
    <3> QED
      BY <2>1, <3>1, <3>2 DEF FlowInv, Below
  <2> QED
    BY <2>2, <2>3
<1>5. ASSUME FailStep PROVE FlowInv'
  <2>1. UNCHANGED <<todo, channel>> /\ queue # <<>>
    BY <1>5 DEF FailStep
  <2>2. CASE UNCHANGED queue
    BY <2>1, <2>2 DEF FlowInv
  <2>3. CASE queue' = Append(queue, DegradedTurn) /\ ToSet(queue') = ToSet(queue) \cup {DegradedTurn}
    <3>1. DegradedTurn \in Turns /\ DegradedTurn.by = "worker" /\ DegradedTurn.ordinal = ordinal
      BY <1>0, MarkFacts
    <3>2. Below(ToSet(queue), {DegradedTurn})
      <4>1. \A u \in ToSet(queue) \cap Turns : u.ordinal < DegradedTurn.ordinal
        BY <3>1 DEF FreshInv
      <4>2. \A u \in Items : u \in Turns \/ u = CreateItem
        BY MsgFacts
      <4> QED
        BY <1>0, <3>1, <4>1, <4>2, BeforeFacts DEF Below
    <3>3. InOrder(queue')
      BY <1>0, <2>3, <3>1, <3>2, OrderAppend, MsgFacts DEF FlowInv
    <3>4. \A v \in ToSet(channel) : Before(DegradedTurn, v)
      <4>1. \A v \in ToSet(channel) \cap Turns : v.by # "worker"
        BY DEF FreshInv
      <4>2. DegradedTurn # CreateItem /\ DegradedTurn # ShutdownMsg
        BY <3>1, TurnFacts
      <4>3. DegradedTurn \in Msgs
        BY <3>1, MsgFacts
      <4>4. \A v \in Msgs : v \in Turns \/ v = CreateItem \/ v = ShutdownMsg
        BY MsgFacts
      <4> QED
        BY <1>0, <3>1, <4>1, <4>2, <4>3, <4>4, BeforeFacts
    <3>5. \A b \in Senders : \A v \in ToSet(todo[b]) : Before(DegradedTurn, v)
      <4>1. \A b \in Senders : \A v \in ToSet(todo[b]) : v \in Turns /\ v.by # "worker"
        BY <1>0, SenderFacts DEF FreshInv
      <4> QED
        BY <3>1, <4>1, BeforeFacts
    <3> QED
      BY <2>1, <2>3, <3>3, <3>4, <3>5 DEF FlowInv, Below
  <2> QED
    BY <1>5, <2>2, <2>3, FailPlaces
<1>6. ASSUME NEW b \in Senders, SendStep(b) PROVE FlowInv'
  <2>1. UNCHANGED queue /\ todo[b] # <<>>
    BY <1>6 DEF SendStep, Held
  <2>2. /\ Head(todo[b]) \in Turns /\ ToSet(todo[b]) = {Head(todo[b])} \cup ToSet(todo'[b])
        /\ todo'[b] = Tail(todo[b]) /\ \A c \in Senders : c # b => todo'[c] = todo[c]
        /\ \A c \in Senders : ToSet(todo'[c]) \subseteq ToSet(todo[c])
    BY <1>6, SendPlaces
  <2>3. InOrder(todo'[b]) /\ Below({Head(todo[b])}, ToSet(todo'[b]))
    BY <1>0, <2>1, <2>2, OrderTail DEF FlowInv
  <2>4. \A c \in Senders : InOrder(todo'[c])
    BY <2>2, <2>3 DEF FlowInv
  <2>5. \A c \in Senders : c # b => Below({Head(todo[b])}, ToSet(todo'[c]))
    <3>1. \A c \in Senders : c # b => \A v \in ToSet(todo[c]) : v \in Turns /\ v.by # Head(todo[b]).by
      BY <1>0, <2>2 DEF FreshInv
    <3> QED
      BY <2>2, <3>1, BeforeFacts DEF Below
  <2>6. CASE UNCHANGED channel
    BY <2>1, <2>2, <2>4, <2>6 DEF FlowInv, Below
  <2>7. CASE ~UNCHANGED channel
    <3>1. channel' = Append(channel, Head(todo[b])) /\ ToSet(channel') = ToSet(channel) \cup {Head(todo[b])}
      BY <1>6, <2>7, SendPlaces DEF SendStep
    <3>2. Below(ToSet(channel) \cup ToSet(queue), {Head(todo[b])})
      BY <2>2 DEF FlowInv, Below
    <3>3. InOrder(channel')
      BY <1>0, <2>2, <3>1, <3>2, OrderAppend, MsgFacts DEF FlowInv, Below
    <3> QED
      BY <2>1, <2>2, <2>3, <2>4, <2>5, <3>1, <3>2, <3>3 DEF FlowInv, Below
  <2> QED
    BY <2>6, <2>7
<1>7. ASSUME NEW b \in Senders, NEW us \in Seq(Turns), TakeStep(b, us) PROVE FlowInv'
  <2>1. UNCHANGED queue /\ FreshTurns(b, us, ordinal') /\ (b = "main" => main \notin {"drain", "done"})
    BY <1>7 DEF TakeStep, Held
  <2>2. todo'[b] = us /\ \A c \in Senders : c # b => todo'[c] = todo[c]
    BY <1>7, TakePlaces
  <2>3. \A v \in ToSet(us) : v \in Turns /\ v.by = b /\ ordinal <= v.ordinal /\ v.ordinal \in Nat
    BY <2>1, MemberFacts, TurnFacts DEF FreshTurns
  <2>4. Below(ToSet(channel) \cup ToSet(queue), ToSet(us))
    <3>1. \A u \in (ToSet(channel) \cup ToSet(queue)) \cap Turns : u.ordinal < ordinal /\ u.ordinal \in Nat
      BY TurnFacts DEF FreshInv
    <3>2. \A u \in (ToSet(channel) \cup ToSet(queue)) \cap Turns, v \in ToSet(us) : u.ordinal < v.ordinal
      BY <1>0, <2>3, <3>1
    <3>3. \A u \in ToSet(channel) \cup ToSet(queue) : u \in Turns \/ u = CreateItem \/ (u = ShutdownMsg /\ b # "main")
      <4>1. ShutdownMsg \notin Items
        BY MsgFacts, TurnFacts
      <4>2. b = "main" => ShutdownMsg \notin ToSet(channel)
        BY <2>1 DEF ShutdownInv
      <4> QED
        BY <1>0, <4>1, <4>2, MsgFacts
    <3> QED
      BY <2>3, <3>2, <3>3, BeforeFacts DEF Below
  <2>5. \A c \in Senders : /\ InOrder(todo'[c])
                           /\ Below(ToSet(channel) \cup ToSet(queue), ToSet(todo'[c]))
                           /\ ToSet(todo'[c]) \subseteq Turns
    <3>1. InOrder(us)
      BY <2>1 DEF FreshTurns
    <3> QED
      BY <1>0, <2>2, <2>3, <2>4, <3>1 DEF FlowInv, Below
  <2>6. CASE UNCHANGED channel
    BY <2>1, <2>5, <2>6 DEF FlowInv, Below
  <2>7. CASE /\ ToSet(channel') = ToSet(channel) \cup {CreateItem} /\ main = "create"
             /\ channel' = Append(channel, CreateItem)
    <3>1. \A u \in ToSet(channel) \cup ToSet(queue) : Before(u, CreateItem)
      BY <1>0, <2>7, BeforeFacts, MsgFacts DEF ContextInv
    <3>2. InOrder(channel')
      BY <1>0, <2>7, <3>1, OrderAppend, MsgFacts DEF FlowInv, Below
    <3>3. \A c \in Senders : Below({CreateItem}, ToSet(todo'[c]))
      BY <2>5, BeforeFacts DEF Below
    <3> QED
      BY <2>1, <2>5, <2>7, <3>1, <3>2, <3>3 DEF FlowInv, Below
  <2> QED
    BY <1>7, <2>6, <2>7, TakePlaces
<1> QED
  BY <1>1, <1>2, <1>3, <1>4, <1>5, <1>6, <1>7, StepKinds

-----------------------------------------------------------------------------
(* What CXDB holds.                                                        *)

\* Every step keeps what CXDB stored before all that waits, but for the front of the queue.
LEMMA StoredStep ==
    ASSUME DeliveryTypeOK, HandsInv, FlowInv, StoredInv, FreshInv, [DeliveryNext]_vars
    PROVE  StoredInv'
<1>0. /\ StoredTurns \subseteq Turns /\ ordinal \in Nat
      /\ queue = <<>> => Waiting = {}
      /\ queue # <<>> => ToSet(queue) = {Head(queue)} \cup Waiting
      /\ queue # <<>> => Below({Head(queue)}, Waiting)
      /\ \A u \in StoredTurns : u.ordinal < ordinal
  <2>1. queue # <<>> => Below({Head(queue)}, Waiting)
    BY OrderTail DEF Waiting, FlowInv, DeliveryTypeOK
  <2>2. \A u \in StoredTurns : u.ordinal < ordinal
    BY PlaceFacts DEF FreshInv
  <2> QED
    BY <2>1, <2>2, PlaceFacts DEF DeliveryTypeOK
<1>1. ASSUME QuietStep PROVE StoredInv'
  <2>1. StoredTurns' = StoredTurns /\ Waiting' = Waiting
    BY <1>1, SameStored, SameWaiting DEF QuietStep, Held
  <2> QED
    BY <1>1, <2>1 DEF QuietStep, Held, StoredInv
<1>2. ASSUME AskStep PROVE StoredInv'
  <2>1. StoredTurns' = StoredTurns /\ Waiting' = Waiting
    BY <1>2, SameStored, SameWaiting DEF AskStep, Held
  <2>2. \A u \in StoredTurns : Before(u, ShutdownMsg)
    BY <1>0, BeforeFacts, MsgFacts, TurnFacts
  <2> QED
    BY <1>2, <2>1, <2>2, AskPlaces DEF AskStep, Held, StoredInv, Below
<1>3. ASSUME HandleStep PROVE StoredInv'
  <2>1. StoredTurns' = StoredTurns /\ UNCHANGED todo
    BY <1>3, SameStored DEF HandleStep
  <2>2. ToSet(channel) = {Head(channel)} \cup ToSet(channel')
    BY <1>3, HandlePlaces
  <2>3. CASE UNCHANGED queue
    BY <2>1, <2>2, <2>3, SameWaiting DEF StoredInv, Below
  <2>4. CASE ~UNCHANGED queue
    <3>1. /\ queue = <<>> => Head(queue') = Head(channel) /\ Waiting' = {}
          /\ queue # <<>> => Head(queue') = Head(queue) /\ Waiting' = Waiting \cup {Head(channel)}
      BY <1>3, <2>4, HandlePlaces
    <3>2. CASE queue = <<>>
      BY <2>1, <2>2, <3>1, <3>2 DEF StoredInv, Below
    <3>3. CASE queue # <<>>
      BY <2>1, <2>2, <3>1, <3>3 DEF StoredInv, Below
    <3> QED
      BY <3>2, <3>3
  <2> QED
    BY <2>3, <2>4
<1>4. ASSUME DeliverStep PROVE StoredInv'
  <2>1. UNCHANGED <<todo, channel>> /\ queue # <<>>
    BY <1>4 DEF DeliverStep
  <2>2. /\ StoredTurns' \subseteq StoredTurns \cup {Head(queue)} /\ StoredTurns' \subseteq Turns
        /\ ToSet(queue) = {Head(queue)} \cup Waiting
    BY <1>0, <1>4, DeliverPlaces
  <2>3. /\ Below(StoredTurns', ToSet(channel'))
        /\ \A b \in Senders : Below(StoredTurns', ToSet(todo'[b]))
        /\ Below(StoredTurns', Waiting)
    BY <1>0, <2>1, <2>2 DEF StoredInv, FlowInv, Below
  <2>4. CASE Begins
    <3>1. Waiting' = {} /\ Head(queue') = RecoveredTurn
      BY <1>4, <2>4, DeliverPlaces
    <3>2. \A u \in StoredTurns' : Before(u, RecoveredTurn)
      <4>1. \A u \in StoredTurns' : u.ordinal < ordinal
        BY <2>1, <2>2 DEF FreshInv
      <4>2. RecoveredTurn \in Turns /\ RecoveredTurn.ordinal = ordinal
        BY <1>0, MarkFacts
      <4> QED
        BY <2>2, <4>1, <4>2, BeforeFacts
    <3> QED
      BY <2>3, <3>1, <3>2 DEF StoredInv, Below
  <2>5. CASE ~Begins
    <3>1. Waiting' \subseteq Waiting /\ (queue' # <<>> => Head(queue') \in Waiting)
      BY <1>4, <2>5, DeliverPlaces
    <3> QED
      BY <2>3, <3>1 DEF StoredInv, Below
  <2> QED
    BY <2>4, <2>5
<1>5. ASSUME FailStep PROVE StoredInv'
  <2>1. UNCHANGED <<todo, channel>> /\ queue # <<>>
    BY <1>5 DEF FailStep
  <2>2. /\ StoredTurns' \subseteq StoredTurns \cup {Head(queue)} /\ StoredTurns' \subseteq Turns
        /\ ToSet(queue) = {Head(queue)} \cup Waiting /\ Head(queue') = Head(queue)
        /\ Waiting' \subseteq Waiting \cup {DegradedTurn}
    BY <1>0, <1>5, FailPlaces
  <2>3. /\ Below(StoredTurns', ToSet(channel'))
        /\ \A b \in Senders : Below(StoredTurns', ToSet(todo'[b]))
        /\ Below(StoredTurns', Waiting)
    BY <1>0, <2>1, <2>2 DEF StoredInv, FlowInv, Below
  <2>4. \A u \in StoredTurns' : Before(u, DegradedTurn)
    <3>1. \A u \in StoredTurns' : u.ordinal < ordinal
      BY <2>1, <2>2 DEF FreshInv
    <3>2. DegradedTurn \in Turns /\ DegradedTurn.ordinal = ordinal
      BY <1>0, MarkFacts
    <3> QED
      BY <2>2, <3>1, <3>2, BeforeFacts
  <2> QED
    BY <2>1, <2>2, <2>3, <2>4 DEF StoredInv, Below
<1>6. ASSUME NEW b \in Senders, SendStep(b) PROVE StoredInv'
  <2>1. StoredTurns' = StoredTurns /\ Waiting' = Waiting /\ UNCHANGED queue
    BY <1>6, SameStored, SameWaiting DEF SendStep, Held
  <2>2. /\ Head(todo[b]) \in ToSet(todo[b])
        /\ ToSet(channel') \subseteq ToSet(channel) \cup {Head(todo[b])}
        /\ \A c \in Senders : ToSet(todo'[c]) \subseteq ToSet(todo[c])
    BY <1>6, SendPlaces
  <2> QED
    BY <2>1, <2>2 DEF StoredInv, Below
<1>7. ASSUME NEW b \in Senders, NEW us \in Seq(Turns), TakeStep(b, us) PROVE StoredInv'
  <2>1. StoredTurns' = StoredTurns /\ Waiting' = Waiting /\ UNCHANGED queue
    BY <1>7, SameStored, SameWaiting DEF TakeStep, Held
  <2>2. /\ ToSet(channel') \subseteq ToSet(channel) \cup {CreateItem}
        /\ todo'[b] = us /\ \A c \in Senders : c # b => todo'[c] = todo[c]
    BY <1>7, TakePlaces
  <2>3. \A u \in StoredTurns, v \in ToSet(us) : Before(u, v)
    <3>1. \A v \in ToSet(us) : v \in Turns /\ ordinal <= v.ordinal /\ v.ordinal \in Nat
      BY <1>7, MemberFacts, TurnFacts DEF TakeStep, FreshTurns
    <3>2. \A u \in StoredTurns, v \in ToSet(us) : u.ordinal < v.ordinal
      BY <1>0, <3>1, TurnFacts
    <3> QED
      BY <1>0, <3>1, <3>2, BeforeFacts
  <2>4. \A u \in StoredTurns : Before(u, CreateItem)
    BY <1>0, BeforeFacts, MsgFacts, TurnFacts
  <2>5. \A c \in Senders : Below(StoredTurns, ToSet(todo'[c]))
    BY <2>2, <2>3 DEF StoredInv, Below
  <2> QED
    BY <2>1, <2>2, <2>4, <2>5 DEF StoredInv, Below
<1> QED
  BY <1>1, <1>2, <1>3, <1>4, <1>5, <1>6, <1>7, StepKinds

\* Only a delivery and a lost answer append to CXDB, and what they append is
\* the front of the queue.
LEMMA StoredGrows ==
    ASSUME DeliveryTypeOK, HandsInv, [DeliveryNext]_vars
    PROVE  \/ UNCHANGED stored /\ StoredTurns' = StoredTurns
           \/ /\ queue # <<>> /\ Head(queue) \in Turns /\ contextId # 0 /\ UNCHANGED contextId
              /\ stored' = Append(stored, [context |-> contextId, turn |-> Head(queue)])
              /\ StoredTurns' = StoredTurns \cup {Head(queue)}
<1>1. \/ UNCHANGED stored
      \/ /\ queue # <<>> /\ Head(queue) \in Turns /\ contextId # 0 /\ UNCHANGED contextId
         /\ stored' = Append(stored, [context |-> contextId, turn |-> Head(queue)])
  BY StepKinds DEF QuietStep, AskStep, HandleStep, DeliverStep, FailStep, SendStep, TakeStep,
     Held
<1>2. CASE UNCHANGED stored
  BY <1>2, SameStored
<1>3. CASE ~UNCHANGED stored
  <2>1. stored \in Seq(Records) /\ contextId \in Nat
    BY DEF DeliveryTypeOK, Records
  <2>2. Head(queue) \in Turns => 
           LET r == Append(stored, [context |-> contextId, turn |-> Head(queue)])
           IN  {r[i].turn : i \in DOMAIN r} = StoredTurns \cup {Head(queue)}
    BY <2>1, StoredFacts DEF StoredTurns
  <2> QED
    BY <1>1, <1>3, <2>2 DEF StoredTurns
<1> QED
  BY <1>2, <1>3

\* Every step keeps the turns of one task sorted in CXDB.
LEMMA SortedStep ==
    ASSUME DeliveryTypeOK, HandsInv, StoredInv, SortedInv, [DeliveryNext]_vars
    PROVE  SortedInv'
<1>1. CASE UNCHANGED stored
  BY <1>1 DEF SortedInv
<1>2. CASE ~UNCHANGED stored
  <2> DEFINE x == [context |-> contextId, turn |-> Head(queue)]
             n == Len(stored)
  <2>1. queue # <<>> /\ Head(queue) \in Turns /\ stored' = Append(stored, x)
    BY <1>2, StoredGrows
  <2>2. stored \in Seq(Records) /\ x \in Records /\ x.turn = Head(queue)
    BY <2>1 DEF DeliveryTypeOK, Records
  <2> HIDE DEF x
  <2>3. /\ \A i \in 1 .. n : stored'[i] = stored[i]
        /\ stored'[n + 1] = x
        /\ DOMAIN stored' = 1 .. (n + 1) /\ DOMAIN stored = 1 .. n /\ n \in Nat
    BY <2>1, <2>2, AppendProperties, LenProperties
  <2> HIDE DEF n
  <2>4. \A i \in 1 .. n : /\ stored[i].turn \in StoredTurns /\ stored[i].turn \in Turns
    BY <2>3, PlaceFacts DEF StoredTurns
  <2>5. \A u \in StoredTurns : u \in Turns /\ (u.by = Head(queue).by => u.ordinal <= Head(queue).ordinal)
    <3>1. \A u \in StoredTurns : u \in Turns /\ u.ordinal \in Nat /\ Head(queue).ordinal \in Nat
      BY <2>1, PlaceFacts, TurnFacts
    <3>2. \A u \in StoredTurns : Before(u, Head(queue)) \/ u = Head(queue)
      BY <2>1 DEF StoredInv
    <3> QED
      BY <2>1, <3>1, <3>2 DEF Before
  <2>6. ASSUME NEW i \in 1 .. (n + 1), NEW j \in 1 .. (n + 1), i < j,
               stored'[i].turn.by = stored'[j].turn.by
        PROVE  stored'[i].turn.ordinal <= stored'[j].turn.ordinal
    <3>1. i \in 1 .. n
      BY <2>3, <2>6
    <3>2. CASE j \in 1 .. n
      BY <2>3, <2>6, <3>1, <3>2 DEF SortedInv
    <3>3. CASE j = n + 1
      BY <2>2, <2>3, <2>4, <2>5, <2>6, <3>1, <3>3
    <3> QED
      BY <2>3, <3>2, <3>3
  <2> QED
    BY <2>3, <2>6 DEF SortedInv
<1> QED
  BY <1>1, <1>2

\* A set grows by one element at most.
LEMMA AddOne ==
    ASSUME NEW S, IsFiniteSet(S), NEW x
    PROVE  /\ IsFiniteSet(S \cup {x}) /\ Cardinality(S) \in Nat
           /\ x \in S => S \cup {x} = S
           /\ x \notin S => Cardinality(S \cup {x}) = Cardinality(S) + 1
  BY FS_AddElement, FS_CardinalityType

\* Nothing that waits behind the front, or in the channel, is stored.
LEMMA NotStored ==
    ASSUME DeliveryTypeOK, StoredInv
    PROVE  \A u \in Waiting \cup ToSet(channel) : u \notin StoredTurns
  BY PlaceFacts, BeforeIrreflexive DEF StoredInv, Below

\* Every step keeps the number of copies in CXDB below the number of lost answers.
LEMMA CopiesStep ==
    ASSUME DeliveryTypeOK, HandsInv, FlowInv, StoredInv, FreshInv, CopiesInv, [DeliveryNext]_vars
    PROVE  CopiesInv'
<1>0. Len(stored) \in Nat /\ lost \in Nat /\ IsFiniteSet(StoredTurns) /\ Cardinality(StoredTurns) \in Nat
  BY FS_CardinalityType, LenProperties DEF CopiesInv, DeliveryTypeOK
<1>1. ASSUME UNCHANGED stored, lost' \in Nat, lost <= lost', Retrying' => Retrying
      PROVE  CopiesInv'
  <2>1. StoredTurns' = StoredTurns /\ Len(stored') = Len(stored)
    BY <1>1, SameStored
  <2> QED
    BY <1>0, <1>1, <2>1 DEF CopiesInv
<1>2. ASSUME UNCHANGED <<queue, stored, lost>> PROVE CopiesInv'
  <2>1. Retrying' = Retrying
    BY <1>2, SameStored DEF Retrying
  <2> QED
    BY <1>0, <1>1, <1>2, <2>1
<1>3. ASSUME HandleStep PROVE CopiesInv'
  <2>1. UNCHANGED <<stored, lost>> /\ StoredTurns' = StoredTurns
    BY <1>3, SameStored DEF HandleStep
  <2>2. Retrying' => Retrying
    <3>1. CASE UNCHANGED queue
      BY <2>1, <3>1 DEF Retrying
    <3>2. CASE ~UNCHANGED queue
      <4>1. /\ Head(channel) \in ToSet(channel)
            /\ queue = <<>> => Head(queue') = Head(channel)
            /\ queue # <<>> => Head(queue') = Head(queue)
        BY <1>3, <3>2, HandlePlaces
      <4> QED
        BY <2>1, <4>1, NotStored DEF Retrying
    <3> QED
      BY <3>1, <3>2
  <2> QED
    BY <1>0, <1>1, <2>1, <2>2
<1>4. \A x \in Records : Len(Append(stored, x)) = Len(stored) + 1
  BY AppendProperties DEF DeliveryTypeOK, Records
<1>5. ASSUME DeliverStep PROVE CopiesInv'
  <2>1. UNCHANGED lost /\ queue # <<>>
    BY <1>5 DEF DeliverStep
  <2>2. ~Retrying'
    <3>1. CASE Begins
      <4>1. Head(queue') = RecoveredTurn /\ RecoveredTurn.ordinal = ordinal /\ RecoveredTurn \in Turns
        BY <1>5, <3>1, DeliverPlaces, MarkFacts DEF DeliveryTypeOK
      <4>2. \A u \in StoredTurns' : u \in ToSet(queue) \cup StoredTurns /\ u \in Turns
        BY <1>5, DeliverPlaces, PlaceFacts
      <4>3. \A u \in StoredTurns' : u.ordinal < ordinal
        BY <4>2 DEF FreshInv
      <4> QED
        BY <4>1, <4>3, TurnFacts DEF Retrying
    <3>2. CASE ~Begins
      <4>1. queue' # <<>> => Head(queue') \in Waiting
        BY <1>5, <3>2, DeliverPlaces
      <4>2. queue' # <<>> => Head(queue') \notin StoredTurns
        BY <4>1, NotStored
      <4>3. Head(queue) \in Turns => Head(queue) \notin Waiting
        <5>1. Below({Head(queue)}, Waiting)
          BY <2>1, OrderTail DEF Waiting, FlowInv, DeliveryTypeOK
        <5> QED
          BY <5>1, BeforeIrreflexive DEF Below
      <4> QED
        <5>1. StoredTurns' = StoredTurns \/ (Head(queue) \in Turns /\ StoredTurns' = StoredTurns \cup {Head(queue)})
          BY <1>5, DeliverPlaces
        <5> QED
          BY <4>1, <4>2, <4>3, <5>1 DEF Retrying
    <3> QED
      BY <3>1, <3>2
  <2>3. CASE UNCHANGED stored
    BY <1>0, <1>1, <2>1, <2>2, <2>3
  <2>4. CASE ~UNCHANGED stored
    <3>1. /\ Len(stored') = Len(stored) + 1 /\ StoredTurns' = StoredTurns \cup {Head(queue)}
      BY <1>4, <2>4, StoredGrows DEF DeliveryTypeOK, Records
    <3>2. Head(queue) \in StoredTurns => Retrying
      BY <2>1 DEF Retrying
    <3>3. CASE Head(queue) \in StoredTurns
      <4>1. StoredTurns' = StoredTurns /\ Retrying
        BY <3>1, <3>2, <3>3
      <4>2. /\ IsFiniteSet(StoredTurns') /\ Cardinality(StoredTurns') = Cardinality(StoredTurns)
            /\ Len(stored') = Len(stored) + 1
        BY <1>0, <3>1, <4>1
      <4>3. Len(stored) - Cardinality(StoredTurns) + 1 <= lost
        BY <4>1 DEF CopiesInv
      <4> QED
        BY <1>0, <2>1, <2>2, <4>2, <4>3 DEF CopiesInv
    <3>4. CASE Head(queue) \notin StoredTurns
      <4>1. IsFiniteSet(StoredTurns') /\ Cardinality(StoredTurns') = Cardinality(StoredTurns) + 1
        BY <1>0, <3>1, <3>4, AddOne
      <4> QED
        BY <1>0, <2>1, <2>2, <3>1, <4>1 DEF CopiesInv
    <3> QED
      BY <3>3, <3>4
  <2> QED
    BY <2>3, <2>4
<1>6. ASSUME FailStep PROVE CopiesInv'
  <2>0. lost' \in Nat /\ lost <= lost'
    BY <1>0, <1>6 DEF FailStep
  <2>1. Head(queue') = Head(queue) /\ queue # <<>> /\ queue' # <<>>
    BY <1>6, FailPlaces DEF FailStep
  <2>2. CASE UNCHANGED stored
    BY <1>0, <1>1, <2>0, <2>1, <2>2, SameStored DEF Retrying
  <2>3. CASE ~UNCHANGED stored
    <3>1. /\ Len(stored') = Len(stored) + 1 /\ StoredTurns' = StoredTurns \cup {Head(queue)}
      BY <1>4, <2>3, StoredGrows DEF DeliveryTypeOK, Records
    <3>2. Head(queue) \in StoredTurns <=> Retrying
      BY <2>1 DEF Retrying
    <3>3. lost' = lost + 1
      BY <1>6, <2>3 DEF FailStep
    <3>4. Retrying'
      BY <2>1, <3>1 DEF Retrying
    <3>5. CASE Head(queue) \in StoredTurns
      <4>1. StoredTurns' = StoredTurns /\ Retrying
        BY <3>1, <3>2, <3>5
      <4>2. /\ IsFiniteSet(StoredTurns') /\ Cardinality(StoredTurns') = Cardinality(StoredTurns)
            /\ Len(stored') = Len(stored) + 1
        BY <1>0, <3>1, <4>1
      <4>3. Len(stored) - Cardinality(StoredTurns) + 1 <= lost
        BY <4>1 DEF CopiesInv
      <4> QED
        BY <1>0, <3>3, <3>4, <4>2, <4>3 DEF CopiesInv
    <3>6. CASE Head(queue) \notin StoredTurns
      <4>1. IsFiniteSet(StoredTurns') /\ Cardinality(StoredTurns') = Cardinality(StoredTurns) + 1
        BY <1>0, <3>1, <3>6, AddOne
      <4> QED
        BY <1>0, <3>1, <3>2, <3>3, <3>4, <3>6, <4>1 DEF CopiesInv
    <3> QED
      BY <3>5, <3>6
  <2> QED
    BY <2>2, <2>3
<1> QED
  BY <1>2, <1>3, <1>5, <1>6, StepKinds DEF QuietStep, AskStep, SendStep, TakeStep, Held

\* Every step keeps a sent turn in the channel, in the queue or in CXDB.
LEMMA KeptStep ==
    ASSUME DeliveryTypeOK, HandsInv, KeptInv, [DeliveryNext]_vars
    PROVE  KeptInv'
<1>0. sent \subseteq Turns
  BY DEF DeliveryTypeOK
<1>1. ASSUME QuietStep PROVE KeptInv'
  BY <1>1, SameStored DEF QuietStep, Held, KeptInv
<1>2. ASSUME AskStep PROVE KeptInv'
  <2>1. ToSet(channel) \subseteq ToSet(channel') /\ StoredTurns' = StoredTurns /\ UNCHANGED <<queue, sent>>
    BY <1>2, AskPlaces, SameStored DEF AskStep, Held
  <2> QED
    BY <2>1 DEF KeptInv
<1>3. ASSUME HandleStep PROVE KeptInv'
  <2>1. StoredTurns' = StoredTurns /\ UNCHANGED sent
    BY <1>3, SameStored DEF HandleStep
  <2> QED
    BY <1>0, <1>3, <2>1, HandlePlaces, TurnFacts DEF KeptInv
<1>4. ASSUME DeliverStep PROVE KeptInv'
  <2>1. UNCHANGED channel
    BY <1>4 DEF DeliverStep
  <2>2. /\ ToSet(queue) = {Head(queue)} \cup Waiting
        /\ \/ Head(queue) = CreateItem /\ StoredTurns' = StoredTurns
           \/ Head(queue) \in Turns /\ StoredTurns' = StoredTurns \cup {Head(queue)}
    BY <1>4, DeliverPlaces
  <2>3. CASE Begins
    <3>1. ToSet(queue') = {RecoveredTurn} /\ sent' = sent \cup {RecoveredTurn} /\ Waiting = {}
      BY <1>4, <2>3, DeliverPlaces, DeliverEffect
    <3> QED
      BY <1>0, <2>1, <2>2, <3>1, TurnFacts DEF KeptInv
  <2>4. CASE ~Begins
    <3>1. ToSet(queue') = Waiting /\ UNCHANGED sent
      BY <1>4, <2>4, DeliverPlaces, DeliverEffect
    <3> QED
      BY <1>0, <2>1, <2>2, <3>1, TurnFacts DEF KeptInv
  <2> QED
    BY <2>3, <2>4
<1>5. ASSUME FailStep PROVE KeptInv'
  <2>1. UNCHANGED channel /\ StoredTurns \subseteq StoredTurns'
    BY <1>5, FailPlaces DEF FailStep
  <2>2. CASE degraded
    BY <1>5, <2>1, <2>2, FailPlaces DEF KeptInv
  <2>3. CASE ~degraded
    BY <1>5, <2>1, <2>3, FailPlaces DEF KeptInv
  <2> QED
    BY <2>2, <2>3
<1>6. ASSUME NEW b \in Senders, SendStep(b) PROVE KeptInv'
  <2>1. UNCHANGED queue /\ StoredTurns' = StoredTurns
    BY <1>6, SameStored DEF SendStep, Held
  <2> QED
    BY <1>6, <2>1, SendPlaces DEF KeptInv
<1>7. ASSUME NEW b \in Senders, NEW us \in Seq(Turns), TakeStep(b, us) PROVE KeptInv'
  <2>1. UNCHANGED <<queue, sent>> /\ StoredTurns' = StoredTurns /\ ToSet(channel) \subseteq ToSet(channel')
    BY <1>7, SameStored, TakePlaces DEF TakeStep, Held
  <2> QED
    BY <2>1 DEF KeptInv
<1> QED
  BY <1>1, <1>2, <1>3, <1>4, <1>5, <1>6, <1>7, StepKinds

-----------------------------------------------------------------------------
(* The shutdown, the context and the ledger.                               *)

\* Every step keeps the shutdown message behind run()'s turns, and a worker that ends in answer to it has stored them all.
LEMMA ShutdownStep ==
    ASSUME DeliveryTypeOK, HandsInv, FlowInv, FreshInv, KeptInv, ShutdownInv, [DeliveryNext]_vars
    PROVE  ShutdownInv'
<1>0. sent \subseteq Turns
  BY DEF DeliveryTypeOK
<1>1. ASSUME QuietStep PROVE ShutdownInv'
  <2>1. /\ UNCHANGED <<channel, queue, sent>> /\ StoredTurns' = StoredTurns
        /\ main' \notin {"drain", "done"} => main \notin {"drain", "done"}
        /\ (shutdown' = "no") <=> (shutdown = "no")
    BY <1>1, SameStored DEF QuietStep, Held, Onward
  <2>2. ASSUME worker' = "done", shutdown' = "asked", NEW turn \in sent, turn.by = "main"
        PROVE  turn \in StoredTurns
    <3>1. shutdown = "asked" /\ (worker = "done" \/ queue = <<>>)
      BY <1>1, <2>2 DEF QuietStep
    <3>2. CASE worker = "done"
      BY <2>2, <3>1, <3>2 DEF ShutdownInv
    <3>3. CASE queue = <<>>
      <4>1. turn \notin ToSet(channel)
        BY <1>0, <2>2, <3>1 DEF ShutdownInv
      <4>2. turn \notin ToSet(queue)
        BY <3>3, EmptyFacts
      <4> QED
        BY <4>1, <4>2 DEF KeptInv
    <3> QED
      BY <3>1, <3>2, <3>3
  <2> QED
    BY <2>1, <2>2 DEF ShutdownInv
<1>2. ASSUME AskStep PROVE ShutdownInv'
  <2>1. main = "shutdown" /\ main' = "drain" /\ shutdown' = "no"
    BY <1>2 DEF AskStep, ShutdownInv
  <2> QED
    BY <2>1 DEF ShutdownInv
<1>3. ASSUME HandleStep PROVE ShutdownInv'
  <2>1. UNCHANGED main /\ worker' # "done" /\ channel # <<>>
    BY <1>3 DEF HandleStep
  <2>2. ToSet(channel) = {Head(channel)} \cup ToSet(channel') /\ channel' = Tail(channel)
    BY <1>3, HandlePlaces
  <2>3. Below({Head(channel)}, ToSet(channel'))
    BY <2>1, <2>2, OrderTail DEF FlowInv, DeliveryTypeOK
  <2>4. CASE Head(channel) = ShutdownMsg
    <3>1. main' \in {"drain", "done"}
      BY <2>1, <2>2, <2>4 DEF ShutdownInv
    <3>2. \A m \in ToSet(channel') : m # ShutdownMsg /\ (m \in Turns => m.by # "main")
      BY <2>3, <2>4 DEF Below, Before
    <3> QED
      BY <2>1, <3>1, <3>2 DEF ShutdownInv
  <2>5. CASE Head(channel) # ShutdownMsg
    <3>1. UNCHANGED shutdown
      BY <1>3, <2>5 DEF HandleStep
    <3> QED
      BY <2>1, <2>2, <3>1 DEF ShutdownInv
  <2> QED
    BY <2>4, <2>5
<1>4. ASSUME DeliverStep PROVE ShutdownInv'
  BY <1>4, DeliverEffect DEF DeliverStep, ShutdownInv
<1>5. ASSUME FailStep PROVE ShutdownInv'
  BY <1>5, FailEffect DEF FailStep, ShutdownInv
<1>6. ASSUME NEW b \in Senders, SendStep(b) PROVE ShutdownInv'
  <2>1. /\ UNCHANGED <<worker, shutdown>> /\ StoredTurns' = StoredTurns
        /\ main' \notin {"drain", "done"} => main \notin {"drain", "done"}
        /\ b = "main" => main \notin {"drain", "done"}
    BY <1>6, SameStored DEF SendStep, Held, Onward
  <2>2. /\ Head(todo[b]) \in Turns /\ Head(todo[b]) \in ToSet(todo[b])
        /\ \/ UNCHANGED <<channel, sent>>
           \/ ToSet(channel') = ToSet(channel) \cup {Head(todo[b])} /\ worker # "done"
    BY <1>6, SendPlaces
  <2>3. Head(todo[b]) # ShutdownMsg /\ Head(todo[b]).by = b
    BY <2>2, TurnFacts DEF FreshInv
  <2>4. shutdown # "no" => b # "main"
    BY <2>1 DEF ShutdownInv
  <2> QED
    BY <2>1, <2>2, <2>3, <2>4 DEF ShutdownInv
<1>7. ASSUME NEW b \in Senders, NEW us \in Seq(Turns), TakeStep(b, us) PROVE ShutdownInv'
  <2>1. /\ UNCHANGED <<worker, shutdown, sent>> /\ StoredTurns' = StoredTurns
        /\ main' \notin {"drain", "done"} => main \notin {"drain", "done"}
    BY <1>7, SameStored DEF TakeStep, Held, Onward
  <2>2. ToSet(channel') \subseteq ToSet(channel) \cup {CreateItem}
    BY <1>7, TakePlaces
  <2> QED
    BY <2>1, <2>2, TurnFacts DEF ShutdownInv
<1> QED
  BY <1>1, <1>2, <1>3, <1>4, <1>5, <1>6, <1>7, StepKinds

\* Whether there is a context, and where the create item is.
CreateInv ==
    /\ main \in {"spawn", "create"} => contextId = 0 /\ CreateItem \notin ToSet(channel) \cup ToSet(queue)
    /\ contextId # 0 => CreateItem \notin ToSet(channel) \cup ToSet(queue)

\* Every step keeps the context asked for at most once.
LEMMA CreateStep ==
    ASSUME DeliveryTypeOK, HandsInv, FlowInv, ContextInv, [DeliveryNext]_vars
    PROVE  CreateInv'
<1>0. CreateInv
  BY DEF ContextInv, CreateInv
<1>1. ASSUME QuietStep PROVE CreateInv'
  BY <1>0, <1>1 DEF QuietStep, Held, Onward, CreateInv
<1>2. ASSUME AskStep PROVE CreateInv'
  <2>1. UNCHANGED <<queue, contextId>> /\ main' = "drain" /\ ToSet(channel') \subseteq ToSet(channel) \cup {ShutdownMsg}
    BY <1>2, AskPlaces DEF AskStep, Held
  <2> QED
    BY <1>0, <2>1, TurnFacts DEF CreateInv
<1>3. ASSUME HandleStep PROVE CreateInv'
  <2>1. UNCHANGED <<main, contextId>> /\ ToSet(channel') \cup ToSet(queue') \subseteq ToSet(channel) \cup ToSet(queue)
    BY <1>3, HandlePlaces DEF HandleStep
  <2> QED
    BY <1>0, <2>1 DEF CreateInv
<1>4. ASSUME DeliverStep PROVE CreateInv'
  <2>1. UNCHANGED <<main, channel>> /\ queue # <<>> /\ ToSet(queue) = {Head(queue)} \cup Waiting
    BY <1>4, DeliverPlaces DEF DeliverStep
  <2>2. ToSet(queue') \subseteq Waiting \cup {RecoveredTurn} /\ RecoveredTurn # CreateItem
    BY <1>4, DeliverPlaces, MarkFacts, TurnFacts DEF DeliveryTypeOK
  <2>3. CASE Head(queue) = CreateItem
    <3>1. main \notin {"spawn", "create"}
      BY <1>0, <2>1, <2>3 DEF CreateInv
    <3>2. CreateItem \notin Waiting
      <4>1. Below({Head(queue)}, Waiting)
        BY <2>1, OrderTail DEF Waiting, FlowInv, DeliveryTypeOK
      <4> QED
        BY <2>3, <4>1 DEF Below, Before
    <3>3. CreateItem \notin ToSet(channel)
      BY <2>1, <2>3 DEF FlowInv, Below, Before
    <3> QED
      BY <2>1, <2>2, <3>1, <3>2, <3>3 DEF CreateInv
  <2>4. CASE Head(queue) # CreateItem
    <3>1. UNCHANGED contextId
      BY <1>4, <2>4 DEF DeliverStep
    <3> QED
      BY <1>0, <2>1, <2>2, <3>1 DEF CreateInv
  <2> QED
    BY <2>3, <2>4
<1>5. ASSUME FailStep PROVE CreateInv'
  <2>1. UNCHANGED <<main, channel, contextId>> /\ ToSet(queue') \subseteq ToSet(queue) \cup {DegradedTurn}
    BY <1>5, FailPlaces DEF FailStep
  <2>2. DegradedTurn # CreateItem
    BY MarkFacts, TurnFacts DEF DeliveryTypeOK
  <2> QED
    BY <1>0, <2>1, <2>2 DEF CreateInv
<1>6. ASSUME NEW b \in Senders, SendStep(b) PROVE CreateInv'
  <2>1. /\ UNCHANGED <<queue, contextId>>
        /\ main' \in {"spawn", "create"} => main \in {"spawn", "create"}
    BY <1>6 DEF SendStep, Held, Onward
  <2>2. /\ ToSet(channel') \subseteq ToSet(channel) \cup {Head(todo[b])}
        /\ Head(todo[b]) # CreateItem
    BY <1>6, SendPlaces, TurnFacts
  <2> QED
    BY <1>0, <2>1, <2>2 DEF CreateInv
<1>7. ASSUME NEW b \in Senders, NEW us \in Seq(Turns), TakeStep(b, us) PROVE CreateInv'
  <2>1. /\ UNCHANGED <<queue, contextId>>
        /\ main' \in {"spawn", "create"} => main \in {"spawn", "create"}
    BY <1>7 DEF TakeStep, Held, Onward
  <2>2. CASE UNCHANGED channel
    BY <1>0, <2>1, <2>2 DEF CreateInv
  <2>3. CASE ~UNCHANGED channel
    <3>1. main = "create" /\ main' = "start"
      BY <1>7, <2>3 DEF TakeStep
    <3> QED
      BY <1>0, <2>1, <3>1 DEF CreateInv
  <2> QED
    BY <2>2, <2>3
<1> QED
  BY <1>1, <1>2, <1>3, <1>4, <1>5, <1>6, <1>7, StepKinds

\* The context of the stored records and of the ledger.
LEMMA ContextStep ==
    ASSUME DeliveryTypeOK, HandsInv, FlowInv, ContextInv, [DeliveryNext]_vars
    PROVE  ContextInv'
<1>1. CreateInv'
  BY CreateStep
<1>2. ledger'.context = contextId'
  <2>1. ASSUME UNCHANGED contextId, SameLedger PROVE ledger'.context = contextId'
    BY <2>1 DEF SameLedger, ContextInv
  <2>2. ASSUME DeliverStep PROVE ledger'.context = contextId'
    BY <2>2, DeliverEffect DEF DeliverStep, ContextInv
  <2>3. ASSUME FailStep PROVE ledger'.context = contextId'
    BY <2>1, <2>3, FailEffect DEF FailStep
  <2> QED
    BY <2>1, <2>2, <2>3, StepKinds DEF QuietStep, AskStep, HandleStep, SendStep, TakeStep, Held
<1>3. contextId' = contextId \/ (contextId = 0 /\ UNCHANGED stored)
  <2>1. ASSUME DeliverStep PROVE contextId' = contextId \/ (contextId = 0 /\ UNCHANGED stored)
    <3>1. queue # <<>> /\ Head(queue) \in ToSet(queue)
      BY <2>1, DeliverPlaces DEF DeliverStep
    <3> QED
      BY <2>1, <3>1 DEF DeliverStep, ContextInv
  <2> QED
    BY <2>1, StepKinds DEF QuietStep, AskStep, HandleStep, FailStep, SendStep, TakeStep, Held
<1>4. /\ contextId' = 0 => stored' = <<>>
      /\ \A i \in DOMAIN stored' : stored'[i].context = contextId'
  <2>1. CASE UNCHANGED stored
    <3>1. CASE contextId' = contextId
      BY <2>1, <3>1 DEF ContextInv
    <3>2. CASE contextId = 0
      <4>1. stored = <<>> /\ DOMAIN stored = {}
        BY <3>2 DEF ContextInv
      <4> QED
        BY <2>1, <4>1
    <3> QED
      BY <1>3, <3>1, <3>2
  <2>2. CASE ~UNCHANGED stored
    <3> DEFINE x == [context |-> contextId, turn |-> Head(queue)]
    <3>1. stored' = Append(stored, x) /\ Head(queue) \in Turns /\ contextId # 0 /\ UNCHANGED contextId
      BY <2>2, StoredGrows
    <3>2. stored \in Seq(Records) /\ x \in Records /\ x.context = contextId
      BY <3>1 DEF DeliveryTypeOK, Records
    <3> HIDE DEF x
    <3>3. /\ \A i \in 1 .. Len(stored) : stored'[i] = stored[i]
          /\ stored'[Len(stored) + 1] = x /\ Len(stored) \in Nat
          /\ DOMAIN stored' = 1 .. (Len(stored) + 1) /\ DOMAIN stored = 1 .. Len(stored)
      BY <3>1, <3>2, AppendProperties, LenProperties
    <3> QED
      BY <3>1, <3>2, <3>3 DEF ContextInv
  <2> QED
    BY <2>1, <2>2
<1> QED
  BY <1>1, <1>2, <1>4 DEF CreateInv, ContextInv

\* Every step keeps the ledger one turn behind CXDB at most.
LEMMA LedgerStep ==
    ASSUME DeliveryTypeOK, HandsInv, LedgerInv, [DeliveryNext]_vars
    PROVE  LedgerInv'
<1>0. StoredTurns \subseteq Turns
  BY PlaceFacts
<1>1. ASSUME SameLedger, UNCHANGED <<queue, stored>> PROVE LedgerInv'
  BY <1>1, SameStored DEF SameLedger, LedgerInv
<1>2. ASSUME HandleStep PROVE LedgerInv'
  <2>1. StoredTurns' = StoredTurns /\ ledger'.appended = ledger.appended
    BY <1>2, SameStored DEF HandleStep, SameLedger
  <2>2. queue # <<>> => queue' # <<>> /\ Head(queue') = Head(queue)
    BY <1>2, HandlePlaces
  <2> QED
    BY <2>1, <2>2 DEF LedgerInv
<1>3. ASSUME DeliverStep PROVE LedgerInv'
  <2>1. CASE Head(queue) = CreateItem
    <3>1. StoredTurns' = StoredTurns /\ ledger'.appended = ledger.appended
      BY <1>3, <2>1, DeliverPlaces, DeliverEffect, TurnFacts
    <3>2. \A u \in StoredTurns : u # Head(queue)
      BY <1>0, <2>1, TurnFacts
    <3> QED
      BY <3>1, <3>2 DEF LedgerInv
  <2>2. CASE Head(queue) \in Turns
    <3>1. /\ StoredTurns' = StoredTurns \cup {Head(queue)}
          /\ ledger'.appended = ledger.appended \cup {Head(queue).ordinal}
      BY <1>3, <2>2, DeliverPlaces, DeliverEffect, TurnFacts
    <3> QED
      BY <3>1 DEF LedgerInv
  <2> QED
    BY <1>3, <2>1, <2>2 DEF DeliverStep
<1>4. ASSUME FailStep PROVE LedgerInv'
  <2>1. /\ ledger'.appended = ledger.appended /\ Head(queue') = Head(queue) /\ queue' # <<>>
        /\ StoredTurns' = StoredTurns \/ StoredTurns' = StoredTurns \cup {Head(queue)}
    BY <1>4, FailPlaces, FailEffect DEF SameLedger
  <2> QED
    BY <2>1 DEF LedgerInv
<1> QED
  BY <1>1, <1>2, <1>3, <1>4, StepKinds DEF QuietStep, AskStep, SendStep, TakeStep, Held

-----------------------------------------------------------------------------
(* Outages.                                                                *)

\* The marks after a turn is added to what was sent.
LEMMA MarksFacts ==
    ASSUME NEW m, sent' = sent \cup {m}
    PROVE  \A k \in {"degraded", "recovered"} :
              /\ m.kind = k => Marks(k)' = Marks(k) \cup {m}
              /\ m.kind # k => Marks(k)' = Marks(k)
  BY DEF Marks

\* As long as no mark is sent and no outage begins or ends, all stays paired.
LEMMA OutageFrame ==
    ASSUME OutageInv, UNCHANGED <<degraded, recovery>>, StoredTurns \subseteq StoredTurns',
           Marks("degraded")' = Marks("degraded"), Marks("recovered")' = Marks("recovered")
    PROVE  OutageInv'
  BY DEF OutageInv

\* Every step keeps the degraded and the recovered turns paired.
LEMMA OutageStep ==
    ASSUME DeliveryTypeOK, HandsInv, FreshInv, KeptInv, OutageInv, [DeliveryNext]_vars
    PROVE  OutageInv'
<1>0. /\ ordinal \in Nat /\ degraded \in BOOLEAN /\ recovery \in BOOLEAN
      /\ \A k \in {"degraded", "recovered"} : \A m \in Marks(k) :
            m \in sent /\ m \in Turns /\ m.kind = k /\ m.ordinal \in Nat /\ m.ordinal < ordinal /\ m.by = "worker"
  BY TurnFacts DEF DeliveryTypeOK, Marks, FreshInv
<1>1. ASSUME UNCHANGED <<sent, degraded, recovery, stored>> PROVE OutageInv'
  BY <1>1, OutageFrame, SameStored DEF Marks
<1>2. ASSUME NEW b \in Senders, SendStep(b) PROVE OutageInv'
  <2>1. UNCHANGED <<degraded, recovery, stored>>
    BY <1>2 DEF SendStep, Held
  <2>2. Head(todo[b]).kind \notin {"degraded", "recovered"}
    BY <1>2, SendPlaces DEF FreshInv
  <2>3. UNCHANGED sent \/ sent' = sent \cup {Head(todo[b])}
    BY <1>2, SendPlaces
  <2>4. Marks("degraded")' = Marks("degraded") /\ Marks("recovered")' = Marks("recovered")
    BY <2>2, <2>3 DEF Marks
  <2> QED
    BY <2>1, <2>4, OutageFrame, SameStored
<1>3. ASSUME DeliverStep PROVE OutageInv'
  <2>0. StoredTurns \subseteq StoredTurns'
    BY <1>3, DeliverPlaces
  <2>1. CASE Begins
    <3>1. /\ sent' = sent \cup {RecoveredTurn} /\ recovery' = TRUE /\ degraded' = TRUE
          /\ degraded /\ ~recovery
      BY <1>3, <2>1, DeliverEffect DEF Begins
    <3>2. /\ RecoveredTurn.kind = "recovered" /\ RecoveredTurn.ordinal = ordinal
      BY <1>0, MarkFacts
    <3>3. Marks("degraded")' = Marks("degraded") /\ Marks("recovered")' = Marks("recovered") \cup {RecoveredTurn}
      BY <3>1, <3>2, MarksFacts
    <3>4. RecoveredTurn \notin Marks("recovered")
      BY <1>0, <3>2
    <3>5. /\ IsFiniteSet(Marks("degraded")') /\ IsFiniteSet(Marks("recovered")')
          /\ Cardinality(Marks("recovered")') = Cardinality(Marks("recovered")) + 1
          /\ Cardinality(Marks("recovered")) \in Nat /\ Cardinality(Marks("degraded")) \in Nat
      BY <3>3, <3>4, AddOne, FS_CardinalityType DEF OutageInv
    <3>6. Cardinality(Marks("degraded")) - Cardinality(Marks("recovered")) = 1
      BY <3>1 DEF OutageInv
    <3>7. Cardinality(Marks("degraded")') - Cardinality(Marks("recovered")') = 0
      BY <3>3, <3>5, <3>6
    <3>8. \A a \in Marks("degraded")' : \E r \in Marks("recovered")' : a.ordinal < r.ordinal
      BY <1>0, <3>2, <3>3
    <3>9. \A a, b \in Marks("degraded")' :
             a.ordinal < b.ordinal =>
                 \E r \in Marks("recovered")' : a.ordinal < r.ordinal /\ r.ordinal < b.ordinal
      BY <3>3 DEF OutageInv
    <3> QED
      BY <3>1, <3>5, <3>7, <3>8, <3>9 DEF OutageInv
  <2>2. CASE Ends
    <3>1. /\ UNCHANGED sent /\ degraded' = FALSE /\ recovery' = FALSE /\ degraded /\ recovery
          /\ Tail(queue) = <<>> /\ Head(queue) # CreateItem
      BY <1>3, <2>2, DeliverEffect DEF Ends, Begins
    <3>2. Marks("degraded")' = Marks("degraded") /\ Marks("recovered")' = Marks("recovered")
      BY <3>1 DEF Marks
    <3>3. ASSUME NEW m \in Marks("degraded") \cup Marks("recovered") PROVE m \in StoredTurns'
      <4>1. m \in sent /\ m \in Turns /\ m.by = "worker"
        BY <1>0, <3>3
      <4>2. m \notin ToSet(channel)
        BY <4>1 DEF FreshInv
      <4>3. ToSet(queue) = {Head(queue)} /\ StoredTurns' = StoredTurns \cup {Head(queue)}
        <5>1. Waiting = {}
          BY <3>1, EmptyFacts DEF Waiting
        <5> QED
          BY <1>3, <3>1, <5>1, DeliverPlaces
      <4> QED
        BY <4>1, <4>2, <4>3 DEF KeptInv
    <3>4. /\ \A a \in Marks("degraded") : \E r \in Marks("recovered") : a.ordinal < r.ordinal
          /\ Cardinality(Marks("degraded")) - Cardinality(Marks("recovered")) = 0
      BY <3>1 DEF OutageInv
    <3> QED
      BY <3>1, <3>2, <3>3, <3>4 DEF OutageInv
  <2>3. CASE ~Begins /\ ~Ends
    <3>1. UNCHANGED <<sent, degraded, recovery>>
      BY <1>3, <2>3, DeliverEffect
    <3> QED
      BY <2>0, <3>1, OutageFrame DEF Marks
  <2> QED
    BY <2>1, <2>2, <2>3
<1>4. ASSUME FailStep PROVE OutageInv'
  <2>0. StoredTurns \subseteq StoredTurns' /\ degraded' = TRUE
    BY <1>4, FailPlaces, FailEffect
  <2>1. CASE degraded
    <3>1. UNCHANGED <<sent, recovery>> /\ degraded' = degraded
      BY <1>0, <1>4, <2>0, <2>1, FailPlaces
    <3> QED
      BY <2>0, <3>1, OutageFrame DEF Marks
  <2>2. CASE ~degraded
    <3>1. sent' = sent \cup {DegradedTurn} /\ recovery' = FALSE
      BY <1>4, <2>2, FailPlaces
    <3>2. /\ DegradedTurn.kind = "degraded" /\ DegradedTurn.ordinal = ordinal
      BY <1>0, MarkFacts
    <3>3. Marks("recovered")' = Marks("recovered") /\ Marks("degraded")' = Marks("degraded") \cup {DegradedTurn}
      BY <3>1, <3>2, MarksFacts
    <3>4. DegradedTurn \notin Marks("degraded")
      BY <1>0, <3>2
    <3>5. /\ IsFiniteSet(Marks("degraded")') /\ IsFiniteSet(Marks("recovered")')
          /\ Cardinality(Marks("degraded")') = Cardinality(Marks("degraded")) + 1
          /\ Cardinality(Marks("recovered")) \in Nat /\ Cardinality(Marks("degraded")) \in Nat
      BY <3>3, <3>4, AddOne, FS_CardinalityType DEF OutageInv
    <3>6. Cardinality(Marks("degraded")) - Cardinality(Marks("recovered")) = 0
      BY <2>2 DEF OutageInv
    <3>7. Cardinality(Marks("degraded")') - Cardinality(Marks("recovered")') = 1
      BY <3>3, <3>5, <3>6
    <3>8. ASSUME NEW a \in Marks("degraded")', NEW b \in Marks("degraded")', a.ordinal < b.ordinal
          PROVE  \E r \in Marks("recovered")' : a.ordinal < r.ordinal /\ r.ordinal < b.ordinal
      <4>1. a \in Marks("degraded")
        BY <1>0, <3>2, <3>3, <3>8
      <4>2. CASE b \in Marks("degraded")
        BY <3>3, <3>8, <4>1, <4>2 DEF OutageInv
      <4>3. CASE b = DegradedTurn
        <5>1. \E r \in Marks("recovered") : a.ordinal < r.ordinal
          BY <2>2, <4>1 DEF OutageInv
        <5> QED
          BY <1>0, <3>2, <3>3, <4>3, <5>1
      <4> QED
        BY <3>3, <4>2, <4>3
    <3> QED
      BY <2>0, <3>1, <3>5, <3>7, <3>8 DEF OutageInv
  <2> QED
    BY <2>1, <2>2
<1> QED
  BY <1>1, <1>2, <1>3, <1>4, StepKinds DEF QuietStep, AskStep, HandleStep, TakeStep, Held

-----------------------------------------------------------------------------
(* The theorems.                                                           *)

\* The invariant holds at the start.
LEMMA DeliveryInvInit == DeliveryInit => DeliveryInv
<1> SUFFICES ASSUME DeliveryInit PROVE DeliveryInv
  OBVIOUS
<1>1. DeliveryTypeOK
  BY TypeInit
<1>2. /\ channel = <<>> /\ queue = <<>> /\ stored = <<>> /\ \A b \in Senders : todo[b] = <<>>
      /\ sent = {} /\ main = "spawn" /\ worker = "top" /\ shutdown = "no" /\ contextId = 0 /\ lost = 0
      /\ ledger = [state |-> "starting", context |-> 0, appended |-> {}]
      /\ degraded = FALSE /\ recovery = FALSE
  BY DEF DeliveryInit, Senders
<1>3. /\ ToSet(<<>>) = {} /\ InOrder(<<>>) /\ StoredTurns = {} /\ Waiting = {}
      /\ DOMAIN stored = {} /\ Len(stored) = 0
      /\ Marks("degraded") = {} /\ Marks("recovered") = {}
  BY <1>1, <1>2, EmptyFacts, PlaceFacts DEF Marks
<1>4. IsFiniteSet({}) /\ Cardinality({}) = 0
  BY FS_EmptySet
<1>5. HandsInv /\ FlowInv /\ StoredInv /\ FreshInv
  BY <1>2, <1>3, SenderFacts DEF HandsInv, FlowInv, StoredInv, FreshInv, Below
<1>6. SortedInv /\ CopiesInv /\ KeptInv
  BY <1>2, <1>3, <1>4 DEF SortedInv, CopiesInv, KeptInv, Retrying
<1>7. ShutdownInv /\ ContextInv /\ LedgerInv
  BY <1>2, <1>3 DEF ShutdownInv, ContextInv, LedgerInv
<1>8. OutageInv
  <2>1. /\ Cardinality(Marks("degraded")) - Cardinality(Marks("recovered")) = 0
        /\ IsFiniteSet(Marks("degraded")) /\ IsFiniteSet(Marks("recovered"))
    <3>1. Cardinality(Marks("degraded")) = 0 /\ Cardinality(Marks("recovered")) = 0
      BY <1>3, <1>4, Zenon
    <3>2. IsFiniteSet(Marks("degraded")) /\ IsFiniteSet(Marks("recovered"))
      BY <1>3, <1>4, Zenon
    <3> QED
      BY <3>1, <3>2
  <2>2. (IF degraded /\ ~recovery THEN 1 ELSE 0) = 0 /\ ~recovery
    BY <1>2
  <2> QED
    BY <1>3, <2>1, <2>2 DEF OutageInv
<1> QED
  BY <1>1, <1>5, <1>6, <1>7, <1>8 DEF DeliveryInv

\* Every step keeps it.
LEMMA DeliveryInvStep == DeliveryInv /\ [DeliveryNext]_vars => DeliveryInv'
<1> SUFFICES ASSUME DeliveryInv, [DeliveryNext]_vars PROVE DeliveryInv'
  OBVIOUS
<1> USE DEF DeliveryInv
<1>1. DeliveryTypeOK' /\ HandsInv'
  BY TypeStep, HandsStep
<1>2. FlowInv' /\ StoredInv' /\ FreshInv'
  BY <1>1, FlowStep, StoredStep, FreshStep
<1>3. SortedInv' /\ CopiesInv' /\ KeptInv'
  BY SortedStep, CopiesStep, KeptStep
<1>4. ShutdownInv' /\ ContextInv' /\ LedgerInv' /\ OutageInv'
  BY ShutdownStep, ContextStep, LedgerStep, OutageStep
<1> QED
  BY <1>1, <1>2, <1>3, <1>4

\* The inductive invariant holds in every reachable state of the wrapper.
LEMMA DeliveryInvariant == DeliverySpec => []DeliveryInv
  BY DeliveryInvInit, DeliveryInvStep, PTL DEF DeliverySpec

\* Being stored is being among the stored turns.
LEMMA IsStoredFacts == \A u : IsStored(u) <=> u \in StoredTurns
  BY DEF IsStored, StoredTurns

\* CXDB holds the turns of each proxy task, of run() and of the worker in the
\* order in which they were taken, and holds a turn twice only because an answer
\* was lost (run and process_item of the delivery worker).
THEOREM OrderCorrect == DeliverySpec => []TasksInOrder
<1>1. DeliveryInv => TasksInOrder
  <2> SUFFICES ASSUME DeliveryInv PROVE TasksInOrder
    OBVIOUS
  <2>1. /\ Len(stored) - Cardinality(StoredTurns) + (IF Retrying THEN 1 ELSE 0) <= lost
        /\ Len(stored) \in Nat /\ Cardinality(StoredTurns) \in Nat /\ lost \in Nat
    BY FS_CardinalityType, LenProperties DEF DeliveryInv, CopiesInv, DeliveryTypeOK
  <2>2. Len(stored) - Cardinality(StoredTurns) <= lost
    BY <2>1
  <2> QED
    BY <2>2 DEF DeliveryInv, SortedInv, TasksInOrder, StoredTurns
<1> QED
  BY <1>1, DeliveryInvariant, PTL

\* A turn that was sent is in the channel, in the queue or in CXDB, and a worker
\* that stops in time has delivered all of run()'s turns (handle_message,
\* maybe_finish_shutdown).
THEOREM DeliveryComplete == DeliverySpec => []NothingDropped
<1>1. DeliveryInv => NothingDropped
  BY IsStoredFacts DEF DeliveryInv, KeptInv, ShutdownInv, NothingDropped
<1> QED
  BY <1>1, DeliveryInvariant, PTL

\* The ledger's sequences are in CXDB, in the ledger's context, and CXDB has at
\* most one turn more, which is in front of the queue (process_item,
\* and the ledger's record of appended sequences).
THEOREM LedgerCorrect == DeliverySpec => []LedgerTruthful
<1>1. DeliveryInv => LedgerTruthful
  <2> SUFFICES ASSUME DeliveryInv PROVE LedgerTruthful
    OBVIOUS
  <2>1. \A i, j \in DOMAIN stored : stored[i].context = stored[j].context
    BY DEF DeliveryInv, ContextInv
  <2>2. \A n \in ledger.appended :
           \E i \in DOMAIN stored : /\ stored[i].turn.ordinal = n
                                    /\ stored[i].context = ledger.context
    BY DEF DeliveryInv, ContextInv, LedgerInv, StoredTurns
  <2>3. \A i \in DOMAIN stored :
           stored[i].turn.ordinal \notin ledger.appended =>
               queue # <<>> /\ Head(queue) = stored[i].turn
    BY DEF DeliveryInv, LedgerInv, StoredTurns
  <2> QED
    BY <2>1, <2>2, <2>3 DEF LedgerTruthful
<1> QED
  BY <1>1, DeliveryInvariant, PTL

\* Degraded and recovered turns take turns, one pair for each outage, and a
\* healthy worker has delivered them all (enter_degraded, and the success branch of run).
THEOREM OutagesCorrect == DeliverySpec => []OutagesPaired
<1>1. DeliveryInv => OutagesPaired
  BY IsStoredFacts DEF DeliveryInv, OutageInv, OutagesPaired
<1> QED
  BY <1>1, DeliveryInvariant, PTL

-----------------------------------------------------------------------------
(* Capture: sequences of items.                                            *)

\* A sequence of items that a request replays.
Tame(s) == IsSeq(s) /\ \A i \in 1 .. Len(s) : IsItem(s[i])

LEMMA SeqIsSeq ==
    ASSUME NEW S, NEW s \in Seq(S)
    PROVE  /\ IsSeq(s) /\ Len(s) \in Nat /\ DOMAIN s = 1 .. Len(s)
           /\ \A i \in 1 .. Len(s) : s[i] \in S
<1>1. Len(s) \in Nat /\ DOMAIN s = 1 .. Len(s) /\ \A i \in 1 .. Len(s) : s[i] \in S
  OBVIOUS
<1>2. \A i \in 1 .. Len(s) : s[i] \in ToSet(s)
  BY <1>1 DEF ToSet
<1>3. s = [i \in 1 .. Len(s) |-> s[i]]
  BY <1>1
<1>4. s \in Seq(ToSet(s))
  BY <1>1, <1>2, <1>3, SeqDef
<1> QED
  BY <1>1, <1>4 DEF IsSeq

\* A function on the first numbers is a sequence.
LEMMA FunIsSeq ==
    ASSUME NEW S, NEW n \in Nat, NEW f, f = [i \in 1 .. n |-> f[i]],
           \A i \in 1 .. n : f[i] \in S
    PROVE  f \in Seq(S) /\ Len(f) = n
OBVIOUS

LEMMA IsSeqFacts ==
    ASSUME NEW s, IsSeq(s)
    PROVE  /\ s \in Seq(ToSet(s)) /\ Len(s) \in Nat /\ DOMAIN s = 1 .. Len(s)
           /\ s = [i \in 1 .. Len(s) |-> s[i]]
BY DEF IsSeq

LEMMA TupleIsSeq == ASSUME NEW x PROVE IsSeq(<<x>>) /\ Len(<<x>>) = 1 /\ <<x>>[1] = x
<1>1. <<x>> \in Seq({x})
  OBVIOUS
<1> QED
  BY <1>1, SeqIsSeq

LEMMA EmptyIsSeq == IsSeq(<<>>) /\ Len(<<>>) = 0
<1>1. <<>> \in Seq({})
  OBVIOUS
<1> QED
  BY <1>1, SeqIsSeq

\* FlattenSeq from its beginning.
Flats(seqs) == CHOOSE f : f = [i \in 1 .. Len(seqs) |->
                                 IF i = 1 THEN seqs[i] ELSE f[i - 1] \o seqs[i]]

LEMMA FlattenIsFlats == \A seqs : Len(seqs) # 0 => FlattenSeq(seqs) = Flats(seqs)[Len(seqs)]
BY DEF FlattenSeq, Flats

LEMMA FlattenIn ==
    ASSUME NEW S, NEW seqs, IsSeq(seqs), \A i \in 1 .. Len(seqs) : seqs[i] \in Seq(S)
    PROVE  FlattenSeq(seqs) \in Seq(S)
<1>1. PICK l : l = Len(seqs)
  OBVIOUS
<1> l \in Nat
  BY <1>1, IsSeqFacts
<1>2. CASE l = 0
  <2>1. seqs = <<>>
    BY <1>1, <1>2, EmptySeq DEF IsSeq
  <2>2. FlattenSeq(seqs) = seqs
    BY <1>1, <1>2 DEF FlattenSeq
  <2>3. <<>> \in Seq(S)
    BY EmptySeq
  <2> QED
    BY <2>1, <2>2, <2>3
<1>3. CASE l # 0
  <2> DEFINE Def(f) == f = [i \in 1 .. Len(seqs) |->
                              IF i = 1 THEN seqs[i] ELSE f[i - 1] \o seqs[i]]
  <2>1. PICK Q : Q = Seq(S)
    OBVIOUS
  <2>2. PICK link : link = [i \in 1 .. l |-> i - 1]
    OBVIOUS
  <2>3. PICK step : step = [i \in 1 .. l |-> [v \in Q |-> IF i = 1 THEN seqs[i] ELSE v \o seqs[i]]]
    OBVIOUS
  <2>4. \A i \in 1 .. l : link[i] = i - 1 /\ link[i] \in 0 .. i - 1
    BY <2>2
  <2>5. \A i \in 1 .. l : \A v \in Q : step[i][v] = IF i = 1 THEN seqs[i] ELSE v \o seqs[i]
    BY <2>3
  <2>6. \A i \in 1 .. l : \A v \in Q : step[i][v] \in Q
    <3> TAKE i \in 1 .. l
    <3> TAKE v \in Q
    <3>1. seqs[i] \in Seq(S)
      BY <1>1
    <3>2. v \o seqs[i] \in Seq(S)
      BY <2>1, <3>1, ConcatProperties
    <3> QED
      BY <2>1, <2>5, <3>1, <3>2
  <2>7. PICK f : IsWalk(f, l, Q, <<>>, link, step)
    <3>1. Descends(link, l) /\ StepsIn(step, l, Q) /\ <<>> \in Q
      BY <2>1, <2>4, <2>6 DEF Descends, StepsIn
    <3> QED
      BY <3>1, WalkExists
  <2>8. f \in [0 .. l -> Q] /\ \A i \in 1 .. l : f[i] = step[i][f[link[i]]]
    BY <2>7 DEF IsWalk
  <2>9. \A i \in 1 .. l : f[i] = IF i = 1 THEN seqs[i] ELSE f[i - 1] \o seqs[i]
    <3> TAKE i \in 1 .. l
    <3>1. i - 1 \in 0 .. l
      OBVIOUS
    <3>2. f[i - 1] \in Q
      BY <2>8, <3>1
    <3> QED
      BY <2>4, <2>5, <2>8, <3>2
  <2>10. PICK g : g = [i \in 1 .. l |-> f[i]]
    OBVIOUS
  <2>11. \A i \in 1 .. l : g[i] = IF i = 1 THEN seqs[i] ELSE g[i - 1] \o seqs[i]
    <3> TAKE i \in 1 .. l
    <3>1. i # 1 => i - 1 \in 1 .. l
      OBVIOUS
    <3> QED
      BY <2>9, <2>10, <3>1
  <2>12. Def(g)
    <3>1. g = [i \in 1 .. l |-> g[i]]
      BY <2>10
    <3> QED
      BY <1>1, <2>11, <3>1
  <2>13. Def(CHOOSE h : Def(h))
    <3> HIDE DEF Def
    <3> QED
      BY <2>12, Zenon
  <2>14. PICK h : h = Flats(seqs) /\ Def(h)
    BY <2>13 DEF Flats
  <2>15. \A i \in 1 .. l : h[i] = IF i = 1 THEN seqs[i] ELSE h[i - 1] \o seqs[i]
    BY <1>1, <2>14, Zenon
  <2> DEFINE T == {i \in 0 .. l : i # 0 => h[i] \in Seq(S)}
  <2>16. ASSUME NEW i \in 0 .. l, \A m \in 0 .. i - 1 : m \in T
         PROVE  i \in T
    <3>1. CASE i = 0
      BY <3>1
    <3>2. CASE i # 0
      <4>1. i \in 1 .. l
        BY <3>2
      <4>2. seqs[i] \in Seq(S)
        BY <1>1, <4>1
      <4>3. CASE i = 1
        <5>1. h[i] = seqs[i]
          BY <2>15, <4>1, <4>3
        <5> QED
          BY <4>2, <5>1
      <4>4. CASE i # 1
        <5>1. i - 1 \in 0 .. i - 1 /\ i - 1 # 0
          BY <4>1, <4>4
        <5>2. h[i - 1] \in Seq(S)
          BY <2>16, <5>1
        <5>3. h[i] = h[i - 1] \o seqs[i]
          BY <2>15, <4>1, <4>4
        <5>4. h[i - 1] \o seqs[i] \in Seq(S)
          BY <4>2, <5>2, ConcatProperties
        <5> QED
          BY <5>3, <5>4
      <4> QED
        BY <4>3, <4>4
    <3> QED
      BY <3>1, <3>2
  <2>17. \A i \in 0 .. l : i \in T
    <3> HIDE DEF T
    <3> QED
      BY <2>16, SetInduction
  <2>18. l \in 0 .. l
    OBVIOUS
  <2>19. h[l] \in Seq(S)
    BY <1>3, <2>17, <2>18
  <2> QED
    BY <1>1, <1>3, <2>14, <2>19, FlattenIsFlats
<1> QED
  BY <1>2, <1>3

\* Sequences flatten to a sequence, tame ones to a tame one.
LEMMA FlattenIsSeq ==
    ASSUME NEW seqs, IsSeq(seqs), \A i \in 1 .. Len(seqs) : IsSeq(seqs[i])
    PROVE  IsSeq(FlattenSeq(seqs))
<1>1. PICK S : S = UNION {ToSet(seqs[i]) : i \in 1 .. Len(seqs)}
  OBVIOUS
<1>2. ASSUME NEW i \in 1 .. Len(seqs)
      PROVE  seqs[i] \in Seq(S)
  <2>1. PICK s : s = seqs[i]
    OBVIOUS
  <2>2. s \in Seq(ToSet(s))
    BY <2>1 DEF IsSeq
  <2>3. ToSet(s) \subseteq S
    BY <1>1, <2>1
  <2>4. \A j \in 1 .. Len(s) : s[j] \in ToSet(s)
    BY <2>2
  <2>5. \A j \in 1 .. Len(s) : s[j] \in S
    BY <2>3, <2>4
  <2>6. Len(s) \in Nat /\ s = [j \in 1 .. Len(s) |-> s[j]]
    BY <2>2
  <2>7. s \in Seq(S)
    BY <2>5, <2>6, FunIsSeq
  <2> QED
    BY <2>1, <2>7
<1>3. FlattenSeq(seqs) \in Seq(S)
  BY <1>2, FlattenIn
<1> QED
  BY <1>3, SeqIsSeq

LEMMA FlattenIsTame ==
    ASSUME NEW seqs, IsSeq(seqs), \A i \in 1 .. Len(seqs) : Tame(seqs[i])
    PROVE  Tame(FlattenSeq(seqs))
<1>1. PICK U : U = UNION {ToSet(seqs[i]) : i \in 1 .. Len(seqs)}
  OBVIOUS
<1>2. PICK S : S = {x \in U : IsItem(x)}
  OBVIOUS
<1>3. ASSUME NEW i \in 1 .. Len(seqs)
      PROVE  seqs[i] \in Seq(S)
  <2>1. PICK s : s = seqs[i]
    OBVIOUS
  <2>2. s \in Seq(ToSet(s)) /\ \A j \in 1 .. Len(s) : IsItem(s[j])
    BY <2>1 DEF IsSeq, Tame
  <2>3. ToSet(s) \subseteq U
    BY <1>1, <2>1
  <2>4. \A j \in 1 .. Len(s) : s[j] \in ToSet(s)
    BY <2>2
  <2>5. \A j \in 1 .. Len(s) : s[j] \in S
    BY <1>2, <2>2, <2>3, <2>4
  <2>6. Len(s) \in Nat /\ s = [j \in 1 .. Len(s) |-> s[j]]
    BY <2>2
  <2>7. s \in Seq(S)
    BY <2>5, <2>6, FunIsSeq
  <2> QED
    BY <2>1, <2>7
<1>4. PICK fl : fl = FlattenSeq(seqs) /\ fl \in Seq(S)
  BY <1>3, FlattenIn
<1>5. IsSeq(fl) /\ \A i \in 1 .. Len(fl) : fl[i] \in S
  BY <1>4, SeqIsSeq
<1>6. \A i \in 1 .. Len(fl) : IsItem(fl[i])
  BY <1>2, <1>5
<1> QED
  BY <1>4, <1>5, <1>6 DEF Tame

\* What a sequence is mapped to is a sequence.
LEMMA MapIsSeq ==
    ASSUME NEW s, IsSeq(s), NEW f, f = [i \in DOMAIN s |-> f[i]]
    PROVE  IsSeq(f) /\ Len(f) = Len(s) /\ DOMAIN f = 1 .. Len(s)
<1>1. Len(s) \in Nat /\ DOMAIN s = 1 .. Len(s)
  BY IsSeqFacts
<1>2. PICK S : S = {f[i] : i \in 1 .. Len(s)}
  OBVIOUS
<1>3. f \in Seq(S) /\ Len(f) = Len(s)
  BY <1>1, <1>2, FunIsSeq
<1> QED
  BY <1>1, <1>3, SeqIsSeq

LEMMA SubIsSeq ==
    ASSUME NEW s, NEW m \in Int, NEW n \in Int
    PROVE  IsSeq(SubSeq(s, m, n))
<1>1. PICK S : S = {s[i] : i \in m .. n}
  OBVIOUS
<1>2. \A i \in m .. n : s[i] \in S
  BY <1>1
<1>3. SubSeq(s, m, n) \in Seq(S)
  BY <1>2, SubSeqProperties
<1> QED
  BY <1>3, SeqIsSeq

\* A sequence is one over every set that has its elements.
LEMMA IsSeqOver ==
    ASSUME NEW S, NEW s, IsSeq(s), ToSet(s) \subseteq S
    PROVE  s \in Seq(S)
<1>1. Len(s) \in Nat /\ s = [i \in 1 .. Len(s) |-> s[i]] /\ s \in Seq(ToSet(s))
  BY IsSeqFacts
<1>2. \A i \in 1 .. Len(s) : s[i] \in ToSet(s)
  BY <1>1
<1>3. \A i \in 1 .. Len(s) : s[i] \in S
  BY <1>2
<1> QED
  BY <1>1, <1>3, FunIsSeq

LEMMA ConcatIsSeq ==
    ASSUME NEW s, IsSeq(s), NEW t, IsSeq(t)
    PROVE  /\ IsSeq(s \o t) /\ Len(s \o t) = Len(s) + Len(t)
           /\ \A i \in 1 .. Len(s) : (s \o t)[i] = s[i]
           /\ \A i \in 1 .. Len(t) : (s \o t)[Len(s) + i] = t[i]
<1>1. PICK S : S = ToSet(s) \union ToSet(t)
  OBVIOUS
<1>2. s \in Seq(S) /\ t \in Seq(S)
  BY <1>1, IsSeqOver
<1>3. /\ s \o t \in Seq(S) /\ Len(s \o t) = Len(s) + Len(t)
      /\ \A i \in 1 .. Len(s) + Len(t) :
            (s \o t)[i] = IF i <= Len(s) THEN s[i] ELSE t[i - Len(s)]
  BY <1>2, ConcatProperties
<1>4. Len(s) \in Nat /\ Len(t) \in Nat
  BY IsSeqFacts
<1>5. \A i \in 1 .. Len(s) : i \in 1 .. Len(s) + Len(t) /\ i <= Len(s)
  BY <1>4
<1>6. ASSUME NEW i \in 1 .. Len(t)
      PROVE  (s \o t)[Len(s) + i] = t[i]
  <2>1. PICK j : j = Len(s) + i
    OBVIOUS
  <2>2. j \in 1 .. Len(s) + Len(t) /\ ~ (j <= Len(s)) /\ j - Len(s) = i
    BY <1>4, <2>1
  <2> QED
    BY <1>3, <2>1, <2>2
<1>7. IsSeq(s \o t)
  BY <1>3, SeqIsSeq
<1> QED
  BY <1>3, <1>5, <1>6, <1>7

LEMMA AppendIsSeq ==
    ASSUME NEW s, IsSeq(s), NEW x
    PROVE  /\ IsSeq(Append(s, x)) /\ Len(Append(s, x)) = Len(s) + 1
           /\ \A i \in 1 .. Len(s) : Append(s, x)[i] = s[i]
           /\ Append(s, x)[Len(s) + 1] = x
<1>1. PICK S : S = ToSet(s) \union {x}
  OBVIOUS
<1>2. s \in Seq(S) /\ x \in S
  BY <1>1, IsSeqOver
<1>3. /\ Append(s, x) \in Seq(S) /\ Len(Append(s, x)) = Len(s) + 1
      /\ \A i \in 1 .. Len(s) : Append(s, x)[i] = s[i]
      /\ Append(s, x)[Len(s) + 1] = x
  BY <1>2, AppendProperties
<1>4. IsSeq(Append(s, x))
  BY <1>3, SeqIsSeq
<1> QED
  BY <1>3, <1>4

-----------------------------------------------------------------------------
(* Capture: the history in a request is a sequence of items.               *)

LEMMA TupleIsTame == ASSUME NEW x, IsItem(x) PROVE Tame(<<x>>)
<1>1. PICK s : s = <<x>>
  OBVIOUS
<1>2. IsSeq(s) /\ Len(s) = 1 /\ s[1] = x
  BY <1>1, TupleIsSeq
<1>3. \A i \in 1 .. Len(s) : IsItem(s[i])
  BY <1>2
<1> QED
  BY <1>1, <1>2, <1>3 DEF Tame

LEMMA EmptyIsTame == Tame(<<>>)
<1>1. \A i \in 1 .. Len(<<>>) : IsItem(<<>>[i])
  BY EmptyIsSeq
<1> QED
  BY <1>1, EmptyIsSeq DEF Tame

LEMMA AppendIsTame == ASSUME NEW s, Tame(s), NEW x, IsItem(x) PROVE Tame(Append(s, x))
<1>1. IsSeq(s) /\ \A i \in 1 .. Len(s) : IsItem(s[i])
  BY DEF Tame
<1>2. PICK t : t = Append(s, x)
  OBVIOUS
<1>3. /\ IsSeq(t) /\ Len(t) = Len(s) + 1 /\ Len(s) \in Nat
      /\ \A i \in 1 .. Len(s) : t[i] = s[i]
      /\ t[Len(s) + 1] = x
  BY <1>1, <1>2, AppendIsSeq, IsSeqFacts
<1>4. ASSUME NEW i \in 1 .. Len(t)
      PROVE  IsItem(t[i])
  <2>1. CASE i = Len(s) + 1
    BY <1>3, <2>1
  <2>2. CASE i # Len(s) + 1
    <3>1. i \in 1 .. Len(s)
      BY <1>3, <2>2
    <3> QED
      BY <1>1, <1>3, <3>1
  <2> QED
    BY <2>1, <2>2
<1> QED
  BY <1>2, <1>3, <1>4 DEF Tame

LEMMA ItemKinds ==
    ASSUME NEW a, NEW b, NEW c, NEW d
    PROVE  /\ IsItem(UserInput(a)) /\ IsItem(AssistantTurn(a, b, c, d))
           /\ IsItem(ToolResult(a, b))
BY DEF IsItem, UserInput, AssistantTurn, ToolResult

LEMMA ChatItemTame == ASSUME NEW m PROVE Tame(ChatItem(m))
<1>1. \/ \E x : IsItem(x) /\ ChatItem(m) = <<x>>
      \/ ChatItem(m) = <<>>
  BY ItemKinds DEF ChatItem
<1> QED
  BY <1>1, TupleIsTame, EmptyIsTame

LEMMA InputItemTame == ASSUME NEW m PROVE Tame(InputItem(m))
<1>1. \/ \E x : IsItem(x) /\ InputItem(m) = <<x>>
      \/ InputItem(m) = <<>>
  BY ItemKinds DEF InputItem
<1> QED
  BY <1>1, TupleIsTame, EmptyIsTame

\* What the child may have in a conversation.
GoodItem(item) ==
    /\ item.kind \in {"user", "answer", "result", "mode"}
    /\ item.kind = "user" => IsSeq(item.parts)
    /\ item.kind = "answer" => IsSeq(item.calls)
GoodItems(items) == IsSeq(items) /\ \A i \in 1 .. Len(items) : GoodItem(items[i])

LEMMA ChatMessagesSeq == ASSUME NEW item, GoodItem(item) PROVE IsSeq(ChatMessages(item))
<1>1. \E x : ChatMessages(item) = <<x>>
  BY DEF GoodItem, ChatMessages
<1> QED
  BY <1>1, TupleIsSeq

LEMMA InputItemsSeq == ASSUME NEW item, GoodItem(item) PROVE IsSeq(InputItems(item))
<1>1. CASE item.kind # "answer"
  <2>1. \E x : InputItems(item) = <<x>>
    BY <1>1 DEF GoodItem, InputItems
  <2> QED
    BY <2>1, TupleIsSeq
<1>2. CASE item.kind = "answer"
  <2>1. PICK text : text = IF item.texts = <<>> THEN <<>>
                           ELSE <<InputMessage("assistant", <<Joined(item.texts)>>)>>
    OBVIOUS
  <2>2. PICK calls : calls = [i \in DOMAIN item.calls |->
                                [type |-> "function_call", call |-> item.calls[i]]]
    OBVIOUS
  <2>3. InputItems(item) = text \o calls
    BY <1>2, <2>1, <2>2 DEF InputItems
  <2>4. IsSeq(text)
    BY <2>1, TupleIsSeq, EmptyIsSeq
  <2>5. IsSeq(item.calls)
    BY <1>2 DEF GoodItem
  <2>6. calls = [i \in DOMAIN item.calls |-> calls[i]]
    BY <2>2
  <2>7. IsSeq(calls)
    BY <2>5, <2>6, MapIsSeq
  <2> QED
    BY <2>3, <2>4, <2>7, ConcatIsSeq
<1> QED
  BY <1>1, <1>2

\* A message from the user has a list of blocks.
GoodMessage(m) == m.role = "user" => IsSeq(m.blocks)

LEMMA AnthropicMessagesGood ==
    ASSUME NEW item, GoodItem(item)
    PROVE  \E m : GoodMessage(m) /\ AnthropicMessages(item) = <<m>>
<1>1. CASE item.kind = "user"
  <2>1. PICK b : b = [i \in DOMAIN item.parts |-> TextBlock(item.parts[i])]
    OBVIOUS
  <2>2. b = [i \in DOMAIN item.parts |-> b[i]] /\ IsSeq(item.parts)
    BY <1>1, <2>1 DEF GoodItem
  <2>3. IsSeq(b)
    BY <2>2, MapIsSeq
  <2>4. AnthropicMessages(item) = <<[role |-> "user", blocks |-> b]>>
    BY <1>1, <2>1 DEF AnthropicMessages, Each
  <2> QED
    BY <2>3, <2>4 DEF GoodMessage
<1>2. CASE item.kind = "answer"
  BY <1>2 DEF AnthropicMessages, GoodMessage
<1>3. CASE item.kind = "result"
  <2>1. PICK b : b = <<[type |-> "tool_result", call |-> item.call, parts |-> item.parts]>>
    OBVIOUS
  <2>2. AnthropicMessages(item) = <<[role |-> "user", blocks |-> b]>>
    BY <1>3, <2>1 DEF AnthropicMessages
  <2>3. IsSeq(b)
    BY <2>1, TupleIsSeq
  <2> QED
    BY <2>2, <2>3 DEF GoodMessage
<1>4. CASE item.kind = "mode"
  BY <1>4 DEF AnthropicMessages, GoodMessage
<1> QED
  BY <1>1, <1>2, <1>3, <1>4 DEF GoodItem

\* The least and the greatest place of a set of places.
LEMMA MinPlace ==
    ASSUME NEW n \in Nat, NEW I \in SUBSET (1 .. n), I # {}
    PROVE  Min(I) \in 1 .. n
<1>1. I \in SUBSET Nat
  OBVIOUS
<1>2. \E i \in I : \A j \in I : i <= j
  BY <1>1, LeastNumber
<1>3. Min(I) \in I
  BY <1>2, Zenon DEF Min
<1> QED
  BY <1>3

LEMMA MaxPlace ==
    ASSUME NEW n \in Nat, NEW I \in SUBSET (1 .. n), I # {}
    PROVE  Max(I) \in 1 .. n
<1>1. I \in SUBSET (0 .. n)
  OBVIOUS
<1>2. \E i \in I : \A j \in I : j <= i
  BY <1>1, GreatestNumber
<1>3. \A i, j \in I : j <= i <=> i >= j
  BY <1>1
<1>4. \E i \in I : \A j \in I : i >= j
  BY <1>2, <1>3
<1>5. Max(I) \in I
  BY <1>4, Zenon DEF Max
<1> QED
  BY <1>5

LEMMA LastDeveloperNat == ASSUME NEW s, IsSeq(s) PROVE LastDeveloper(s) \in Nat
<1>1. PICK I : I = {i \in 1 .. Len(s) : s[i].type = "message" /\ s[i].role = "developer"}
  OBVIOUS
<1>2. LastDeveloper(s) = IF I # {} THEN Max(I) ELSE 0
  BY <1>1 DEF LastDeveloper, SelectLastInSeq
<1>3. Len(s) \in Nat /\ I \in SUBSET (1 .. Len(s))
  BY <1>1, IsSeqFacts
<1>4. I # {} => Max(I) \in 1 .. Len(s)
  BY <1>3, MaxPlace
<1> QED
  BY <1>2, <1>3, <1>4

LEMMA FirstItemNat == ASSUME NEW s, IsSeq(s) PROVE FirstItem(s) \in Nat
<1>1. PICK I : I = {i \in 1 .. Len(s) : ~ is_bootstrap_input_item(s[i])}
  OBVIOUS
<1>2. FirstItem(s) = IF I # {} THEN Min(I) ELSE 0
  BY <1>1 DEF FirstItem, SelectInSeq
<1>3. Len(s) \in Nat /\ I \in SUBSET (1 .. Len(s))
  BY <1>1, IsSeqFacts
<1>4. I # {} => Min(I) \in 1 .. Len(s)
  BY <1>3, MinPlace
<1> QED
  BY <1>2, <1>3, <1>4

LEMMA FirstBlockNat == ASSUME NEW s, IsSeq(s) PROVE FirstBlock(s) \in 0 .. Len(s)
<1>1. PICK I : I = {i \in 1 .. Len(s) : ~ is_bootstrap_user_block(s[i])}
  OBVIOUS
<1>2. FirstBlock(s) = IF I # {} THEN Min(I) ELSE 0
  BY <1>1 DEF FirstBlock, SelectInSeq
<1>3. Len(s) \in Nat /\ I \in SUBSET (1 .. Len(s))
  BY <1>1, IsSeqFacts
<1>4. I # {} => Min(I) \in 1 .. Len(s)
  BY <1>3, MinPlace
<1> QED
  BY <1>2, <1>3, <1>4

LEMMA InputHistoryTame == ASSUME NEW input, IsSeq(input) PROVE Tame(parse_input_history(input))
<1>1. PICK recent : recent = SubSeq(input, LastDeveloper(input) + 1, Len(input))
  OBVIOUS
<1>2. LastDeveloper(input) + 1 \in Int /\ Len(input) \in Int
  BY LastDeveloperNat, IsSeqFacts
<1>3. IsSeq(recent)
  BY <1>1, <1>2, SubIsSeq
<1>4. PICK rest : rest = SubSeq(recent, FirstItem(recent), Len(recent))
  OBVIOUS
<1>5. FirstItem(recent) \in Int /\ Len(recent) \in Int
  BY <1>3, FirstItemNat, IsSeqFacts
<1>6. IsSeq(rest)
  BY <1>4, <1>5, SubIsSeq
<1>7. PICK each : each = [i \in DOMAIN rest |-> InputItem(rest[i])]
  OBVIOUS
<1>8. each = [i \in DOMAIN rest |-> each[i]]
  BY <1>7
<1>9. IsSeq(each) /\ Len(each) = Len(rest) /\ DOMAIN rest = 1 .. Len(rest)
  BY <1>6, <1>8, MapIsSeq, IsSeqFacts
<1>10. \A i \in 1 .. Len(each) : Tame(each[i])
  BY <1>7, <1>9, InputItemTame
<1>11. Tame(FlattenSeq(each))
  BY <1>9, <1>10, FlattenIsTame
<1>12. parse_input_history(input) = IF FirstItem(recent) = 0 THEN <<>> ELSE FlattenSeq(each)
  BY <1>1, <1>4, <1>7 DEF parse_input_history, Each
<1> QED
  BY <1>11, <1>12, EmptyIsTame

\* The blocks of a user's message, from the first that is no bootstrap text.
NoBlocks == [items |-> <<>>, buffer |-> <<>>]
Gathering(blocks) == CHOOSE f : f = [n \in 0 .. Len(blocks) |->
                                       IF n < FirstBlock(blocks) THEN NoBlocks
                                       ELSE UserBlock(f[n - 1], blocks[n])]

LEMMA ParseUserBlocksIs ==
    \A blocks : parse_user_blocks(blocks) =
                   IF FirstBlock(blocks) = 0 THEN <<>> ELSE Gathered(Gathering(blocks)[Len(blocks)])
BY DEF parse_user_blocks, Gathering, NoBlocks

LEMMA GatheringDefined ==
    ASSUME NEW blocks, IsSeq(blocks), FirstBlock(blocks) # 0
    PROVE  \A n \in 0 .. Len(blocks) : Gathering(blocks)[n] =
              IF n < FirstBlock(blocks) THEN NoBlocks
              ELSE UserBlock(Gathering(blocks)[n - 1], blocks[n])
<1>1. PICK N : N = Len(blocks)
  OBVIOUS
<1>2. PICK k : k = FirstBlock(blocks)
  OBVIOUS
<1> N \in Nat
  BY <1>1, IsSeqFacts
<1> k \in 1 .. N
  BY <1>1, <1>2, FirstBlockNat
<1> DEFINE Value(f, n) == IF n < k THEN NoBlocks ELSE UserBlock(f[n - 1], blocks[n])
           Upto(f, n) == f = [i \in 0 .. n |-> f[i]] /\ \A i \in 0 .. n : f[i] = Value(f, i)
           Good == {n \in 0 .. N : \E f : Upto(f, n)}
           Def(f) == f = [n \in 0 .. Len(blocks) |->
                            IF n < FirstBlock(blocks) THEN NoBlocks
                            ELSE UserBlock(f[n - 1], blocks[n])]
<1>3. ASSUME NEW n \in 0 .. N, \A m \in 0 .. n - 1 : m \in Good
      PROVE  n \in Good
  <2>1. CASE n = 0
    <3>1. PICK f : f = [i \in 0 .. 0 |-> NoBlocks]
      OBVIOUS
    <3>2. Upto(f, 0)
      BY <3>1
    <3> QED
      BY <2>1, <3>2
  <2>2. CASE n # 0
    <3>1. n - 1 \in 0 .. n - 1
      BY <2>2
    <3>2. n - 1 \in Good
      BY <1>3, <3>1
    <3>3. PICK f : Upto(f, n - 1)
      BY <3>2
    <3>4. PICK v : v = Value(f, n)
      OBVIOUS
    <3>5. PICK g : g = [i \in 0 .. n |-> IF i = n THEN v ELSE f[i]]
      OBVIOUS
    <3>6. \A i \in 0 .. n - 1 : i \in 0 .. n /\ i # n
      OBVIOUS
    <3>7. \A i \in 0 .. n - 1 : g[i] = f[i]
      BY <3>5, <3>6
    <3>8. g[n] = v
      BY <3>5
    <3>9. ASSUME NEW i \in 0 .. n
          PROVE  g[i] = Value(g, i)
      <4>1. CASE i < k
        <5>1. CASE i = n
          BY <3>4, <3>8, <4>1, <5>1
        <5>2. CASE i # n
          <6>1. i \in 0 .. n - 1
            BY <5>2
          <6> QED
            BY <3>3, <3>7, <4>1, <6>1
        <5> QED
          BY <5>1, <5>2
      <4>2. CASE ~ (i < k)
        <5>1. i - 1 \in 0 .. n - 1
          BY <4>2
        <5>2. g[i - 1] = f[i - 1]
          BY <3>7, <5>1
        <5>3. CASE i = n
          BY <3>4, <3>8, <4>2, <5>2, <5>3
        <5>4. CASE i # n
          <6>1. i \in 0 .. n - 1
            BY <5>4
          <6>2. g[i] = f[i] /\ f[i] = Value(f, i)
            BY <3>3, <3>7, <6>1
          <6> QED
            BY <4>2, <5>2, <6>2
        <5> QED
          BY <5>3, <5>4
      <4> QED
        BY <4>1, <4>2
    <3>10. g = [i \in 0 .. n |-> g[i]]
      BY <3>5
    <3>11. Upto(g, n)
      BY <3>9, <3>10
    <3> QED
      BY <3>11
  <2> QED
    BY <2>1, <2>2
<1>4. \A n \in 0 .. N : n \in Good
  <2> HIDE DEF Good
  <2> QED
    BY <1>3, SetInduction
<1>5. PICK f : Upto(f, N)
  <2>1. N \in Good
    BY <1>4
  <2> QED
    BY <2>1
<1>6. Def(f)
  BY <1>1, <1>2, <1>5
<1>7. Def(CHOOSE g : Def(g))
  <2> HIDE DEF Def
  <2> QED
    BY <1>6, Zenon
<1>8. PICK g : g = Gathering(blocks) /\ Def(g)
  BY <1>7 DEF Gathering
<1>9. \A n \in 0 .. N : g[n] = Value(g, n)
  BY <1>1, <1>2, <1>8, Zenon
<1> QED
  BY <1>1, <1>2, <1>8, <1>9

LEMMA UserBlocksTame == ASSUME NEW blocks, IsSeq(blocks) PROVE Tame(parse_user_blocks(blocks))
<1>1. CASE FirstBlock(blocks) = 0
  BY <1>1, ParseUserBlocksIs, EmptyIsTame
<1>2. CASE FirstBlock(blocks) # 0
  <2>1. PICK N : N = Len(blocks)
    OBVIOUS
  <2>2. PICK k : k = FirstBlock(blocks)
    OBVIOUS
  <2> N \in Nat
    BY <2>1, IsSeqFacts
  <2> k \in 1 .. N
    BY <1>2, <2>1, <2>2, FirstBlockNat
  <2>3. PICK g : g = Gathering(blocks)
    OBVIOUS
  <2>4. \A n \in 0 .. N : g[n] = IF n < k THEN NoBlocks ELSE UserBlock(g[n - 1], blocks[n])
    BY <1>2, <2>1, <2>2, <2>3, GatheringDefined
  <2>5. ASSUME NEW acc, Tame(acc.items)
        PROVE  Tame(Gathered(acc))
    <3>1. Tame(Append(acc.items, UserInput(acc.buffer)))
      BY <2>5, ItemKinds, AppendIsTame
    <3> QED
      BY <2>5, <3>1 DEF Gathered
  <2> DEFINE Fine(acc) == Tame(acc.items) /\ acc = [items |-> acc.items, buffer |-> acc.buffer]
             T == {n \in 0 .. N : Fine(g[n])}
  <2>6. ASSUME NEW acc, Fine(acc), NEW b
        PROVE  Fine(UserBlock(acc, b))
    <3>1. CASE b.type = "text"
      <4>1. PICK t : t = (IF acc.buffer = <<>> THEN acc.buffer
                          ELSE Append(acc.buffer, Newline)) \o b.text
        OBVIOUS
      <4>2. UserBlock(acc, b) = [acc EXCEPT !.buffer = t]
        BY <3>1, <4>1 DEF UserBlock
      <4>3. [acc EXCEPT !.buffer = t] = [items |-> acc.items, buffer |-> t]
        BY <2>6
      <4>4. PICK u : u = [items |-> acc.items, buffer |-> t]
        OBVIOUS
      <4> QED
        BY <2>6, <4>2, <4>3, <4>4
    <3>2. CASE b.type # "text"
      <4>1. PICK s : s = Append(Gathered(acc), ToolResult(b.call, content_to_text(b.parts)))
        OBVIOUS
      <4>2. Tame(Gathered(acc))
        BY <2>5, <2>6
      <4>3. Tame(s)
        BY <4>1, <4>2, ItemKinds, AppendIsTame
      <4>4. UserBlock(acc, b) = [items |-> s, buffer |-> <<>>]
        BY <3>2, <4>1 DEF UserBlock
      <4>5. PICK u : u = [items |-> s, buffer |-> <<>>]
        OBVIOUS
      <4> QED
        BY <4>3, <4>4, <4>5
    <3> QED
      BY <3>1, <3>2
  <2>7. ASSUME NEW n \in 0 .. N, \A m \in 0 .. n - 1 : m \in T
        PROVE  n \in T
    <3>1. CASE n < k
      <4>1. g[n] = NoBlocks
        BY <2>4, <3>1
      <4>2. Fine(NoBlocks)
        BY EmptyIsTame DEF NoBlocks
      <4> QED
        BY <4>1, <4>2
    <3>2. CASE ~ (n < k)
      <4>1. n - 1 \in 0 .. n - 1
        BY <3>2
      <4>2. Fine(g[n - 1])
        BY <2>7, <4>1
      <4>3. g[n] = UserBlock(g[n - 1], blocks[n])
        BY <2>4, <3>2
      <4>4. Fine(UserBlock(g[n - 1], blocks[n]))
        <5> HIDE DEF Fine
        <5> QED
          BY <2>6, <4>2
      <4> QED
        BY <4>3, <4>4
    <3> QED
      BY <3>1, <3>2
  <2>8. \A n \in 0 .. N : n \in T
    <3> HIDE DEF T
    <3> QED
      BY <2>7, SetInduction
  <2>9. Tame(g[N].items)
    <3>1. N \in 0 .. N
      OBVIOUS
    <3> QED
      BY <2>8, <3>1
  <2>10. Tame(Gathered(g[N]))
    BY <2>5, <2>9
  <2> QED
    BY <1>2, <2>1, <2>3, <2>10, ParseUserBlocksIs
<1> QED
  BY <1>1, <1>2

LEMMA AnthropicItemTame == ASSUME NEW m, GoodMessage(m) PROVE Tame(AnthropicItem(m))
<1>1. CASE m.role = "user"
  <2>1. AnthropicItem(m) = parse_user_blocks(m.blocks)
    BY <1>1 DEF AnthropicItem
  <2> QED
    BY <1>1, <2>1, UserBlocksTame DEF GoodMessage
<1>2. CASE m.role # "user"
  <2>1. \/ \E x : IsItem(x) /\ AnthropicItem(m) = <<x>>
        \/ AnthropicItem(m) = <<>>
    BY <1>2, ItemKinds DEF AnthropicItem, parse_assistant_content
  <2> QED
    BY <2>1, TupleIsTame, EmptyIsTame
<1> QED
  BY <1>1, <1>2

LEMMA HistoryIsTame ==
    ASSUME NEW protocol \in Protocols, NEW items, GoodItems(items)
    PROVE  Tame(parse_request_history(protocol, items))
<1> IsSeq(items) /\ DOMAIN items = 1 .. Len(items)
  BY IsSeqFacts DEF GoodItems
<1>1. CASE Format(protocol) = "chat"
  <2>1. PICK each : each = [i \in DOMAIN items |-> ChatMessages(items[i])]
    OBVIOUS
  <2>2. each = [i \in DOMAIN items |-> each[i]]
    BY <2>1
  <2>3. IsSeq(each) /\ Len(each) = Len(items)
    BY <2>2, MapIsSeq
  <2>4. \A i \in 1 .. Len(each) : IsSeq(each[i])
    BY <2>1, <2>3, ChatMessagesSeq DEF GoodItems
  <2>5. PICK ms : ms = FlattenSeq(each) /\ IsSeq(ms)
    BY <2>3, <2>4, FlattenIsSeq
  <2>6. PICK read : read = [i \in DOMAIN ms |-> ChatItem(ms[i])]
    OBVIOUS
  <2>7. read = [i \in DOMAIN ms |-> read[i]]
    BY <2>6
  <2>8. IsSeq(read) /\ Len(read) = Len(ms) /\ DOMAIN ms = 1 .. Len(ms)
    BY <2>5, <2>7, MapIsSeq, IsSeqFacts
  <2>9. \A i \in 1 .. Len(read) : Tame(read[i])
    BY <2>6, <2>8, ChatItemTame
  <2>10. Tame(FlattenSeq(read))
    BY <2>8, <2>9, FlattenIsTame
  <2>11. parse_request_history(protocol, items) = FlattenSeq(read)
    BY <1>1, <2>1, <2>5, <2>6 DEF parse_request_history, parse_message_history, Each
  <2> QED
    BY <2>10, <2>11
<1>2. CASE Format(protocol) = "responses"
  <2>1. PICK each : each = [i \in DOMAIN items |-> InputItems(items[i])]
    OBVIOUS
  <2>2. each = [i \in DOMAIN items |-> each[i]]
    BY <2>1
  <2>3. IsSeq(each) /\ Len(each) = Len(items)
    BY <2>2, MapIsSeq
  <2>4. \A i \in 1 .. Len(each) : IsSeq(each[i])
    BY <2>1, <2>3, InputItemsSeq DEF GoodItems
  <2>5. PICK ms : ms = FlattenSeq(each) /\ IsSeq(ms)
    BY <2>3, <2>4, FlattenIsSeq
  <2>6. parse_request_history(protocol, items) = parse_input_history(ms)
    BY <1>2, <2>1, <2>5 DEF parse_request_history, Each
  <2> QED
    BY <2>5, <2>6, InputHistoryTame
<1>3. CASE Format(protocol) = "anthropic"
  <2>1. PICK each : each = [i \in DOMAIN items |-> AnthropicMessages(items[i])]
    OBVIOUS
  <2>2. each = [i \in DOMAIN items |-> each[i]]
    BY <2>1
  <2>3. IsSeq(each) /\ Len(each) = Len(items)
    BY <2>2, MapIsSeq
  <2>4. PICK M : M = {m \in UNION {ToSet(each[i]) : i \in 1 .. Len(each)} : GoodMessage(m)}
    OBVIOUS
  <2>5. ASSUME NEW i \in 1 .. Len(each)
        PROVE  each[i] \in Seq(M)
    <3>1. GoodItem(items[i]) /\ each[i] = AnthropicMessages(items[i])
      BY <2>1, <2>3 DEF GoodItems
    <3>2. PICK m : GoodMessage(m) /\ each[i] = <<m>>
      BY <3>1, AnthropicMessagesGood
    <3>3. m \in ToSet(each[i])
      BY <3>2 DEF ToSet
    <3>4. m \in M
      BY <2>4, <3>2, <3>3
    <3> QED
      BY <3>2, <3>4
  <2>6. PICK ms : ms = FlattenSeq(each)
    OBVIOUS
  <2>7. ms \in Seq(M)
    BY <2>3, <2>5, <2>6, FlattenIn
  <2>8. IsSeq(ms) /\ \A i \in 1 .. Len(ms) : ms[i] \in M
    BY <2>7, SeqIsSeq
  <2>9. \A i \in 1 .. Len(ms) : GoodMessage(ms[i])
    BY <2>4, <2>8
  <2>10. PICK read : read = [i \in DOMAIN ms |-> AnthropicItem(ms[i])]
    OBVIOUS
  <2>11. read = [i \in DOMAIN ms |-> read[i]]
    BY <2>10
  <2>12. IsSeq(read) /\ Len(read) = Len(ms) /\ DOMAIN ms = 1 .. Len(ms)
    BY <2>8, <2>11, MapIsSeq, IsSeqFacts
  <2>13. \A i \in 1 .. Len(read) : Tame(read[i])
    BY <2>9, <2>10, <2>12, AnthropicItemTame
  <2>14. Tame(FlattenSeq(read))
    BY <2>12, <2>13, FlattenIsTame
  <2>15. parse_request_history(protocol, items) = FlattenSeq(read)
    BY <1>3, <2>1, <2>6, <2>10 DEF parse_request_history, Each
  <2> QED
    BY <2>14, <2>15
<1> QED
  BY <1>1, <1>2, <1>3 DEF Protocols, Format

-----------------------------------------------------------------------------
(* Capture: what was observed lies in what was uploaded.                   *)

Norm(s) == [i \in DOMAIN s |-> normalize_history_item(s[i])]

\* pos gives every observed item its place among the uploaded turns.
Places(pos, obs, up) ==
    /\ \A i \in 1 .. Len(obs) :
          /\ pos[i] \in 1 .. Len(up) /\ IsItem(up[pos[i]])
          /\ normalize_history_item(up[pos[i]]) = obs[i]
    /\ \A i, j \in 1 .. Len(obs) : i < j => pos[i] < pos[j]
Embeds(obs, up) == IsSeq(obs) /\ IsSeq(up) /\ \E pos : Places(pos, obs, up)

LEMMA EmbedsEmpty == Embeds(<<>>, <<>>)
<1>1. IsSeq(<<>>) /\ Len(<<>>) = 0
  BY EmptyIsSeq
<1>2. Places(<<>>, <<>>, <<>>)
  BY <1>1 DEF Places
<1> QED
  BY <1>1, <1>2 DEF Embeds

\* A turn more leaves the others where they are.
LEMMA EmbedsMore ==
    ASSUME NEW obs, NEW up, Embeds(obs, up), NEW more, IsSeq(more)
    PROVE  Embeds(obs, up \o more)
<1>1. PICK pos : Places(pos, obs, up)
  BY DEF Embeds
<1>2. IsSeq(obs) /\ IsSeq(up) /\ Len(up) \in Nat /\ Len(more) \in Nat
  BY IsSeqFacts DEF Embeds
<1>3. PICK t : t = up \o more
  OBVIOUS
<1>4. IsSeq(t) /\ Len(t) = Len(up) + Len(more) /\ \A i \in 1 .. Len(up) : t[i] = up[i]
  BY <1>2, <1>3, ConcatIsSeq
<1>5. \A i \in 1 .. Len(up) : i \in 1 .. Len(t)
  BY <1>2, <1>4
<1>6. Places(pos, obs, t)
  BY <1>1, <1>4, <1>5 DEF Places
<1> QED
  BY <1>2, <1>3, <1>4, <1>6 DEF Embeds

\* An item that is uploaded and noted.
LEMMA EmbedsBoth ==
    ASSUME NEW obs, NEW up, Embeds(obs, up), NEW x, IsItem(x)
    PROVE  Embeds(Append(obs, normalize_history_item(x)), Append(up, x))
<1>1. PICK pos : Places(pos, obs, up)
  BY DEF Embeds
<1>2. IsSeq(obs) /\ IsSeq(up) /\ Len(up) \in Nat /\ Len(obs) \in Nat
  BY IsSeqFacts DEF Embeds
<1>3. PICK y : y = normalize_history_item(x)
  OBVIOUS
<1>4. PICK o : o = Append(obs, y)
  OBVIOUS
<1>5. PICK u : u = Append(up, x)
  OBVIOUS
<1>6. PICK n : n = Len(obs)
  OBVIOUS
<1>7. PICK k : k = Len(up)
  OBVIOUS
<1> n \in Nat /\ k \in Nat
  BY <1>2, <1>6, <1>7
<1>8. /\ IsSeq(o) /\ Len(o) = n + 1 /\ o[n + 1] = y
      /\ \A i \in 1 .. n : o[i] = obs[i]
  BY <1>2, <1>4, <1>6, AppendIsSeq
<1>9. /\ IsSeq(u) /\ Len(u) = k + 1 /\ u[k + 1] = x
      /\ \A i \in 1 .. k : u[i] = up[i]
  BY <1>2, <1>5, <1>7, AppendIsSeq
<1>10. PICK q : q = [i \in 1 .. n + 1 |-> IF i = n + 1 THEN k + 1 ELSE pos[i]]
  OBVIOUS
<1>11. \A i \in 1 .. n + 1 : i = n + 1 \/ i \in 1 .. n
  OBVIOUS
<1>12. q[n + 1] = k + 1 /\ \A i \in 1 .. n : q[i] = pos[i] /\ i \in 1 .. n + 1 /\ i # n + 1
  BY <1>10
<1>13. \A i \in 1 .. n : pos[i] \in 1 .. k /\ IsItem(up[pos[i]])
                         /\ normalize_history_item(up[pos[i]]) = obs[i]
  BY <1>1, <1>6, <1>7 DEF Places
<1>14. ASSUME NEW i \in 1 .. n + 1
       PROVE  /\ q[i] \in 1 .. k + 1 /\ IsItem(u[q[i]])
              /\ normalize_history_item(u[q[i]]) = o[i]
  <2>1. CASE i = n + 1
    BY <1>3, <1>8, <1>9, <1>12, <2>1
  <2>2. CASE i \in 1 .. n
    BY <1>8, <1>9, <1>12, <1>13, <2>2
  <2> QED
    BY <1>11, <2>1, <2>2
<1>15. ASSUME NEW i \in 1 .. n + 1, NEW j \in 1 .. n + 1, i < j
       PROVE  q[i] < q[j]
  <2>1. i \in 1 .. n /\ q[i] = pos[i] /\ pos[i] \in 1 .. k
    BY <1>12, <1>13, <1>15
  <2>2. CASE j = n + 1
    BY <1>12, <2>1, <2>2
  <2>3. CASE j \in 1 .. n
    BY <1>1, <1>6, <1>12, <1>15, <2>1, <2>3 DEF Places
  <2> QED
    BY <1>11, <2>2, <2>3
<1>16. Places(q, o, u)
  BY <1>8, <1>9, <1>14, <1>15 DEF Places
<1> QED
  BY <1>3, <1>4, <1>5, <1>8, <1>9, <1>16 DEF Embeds

LEMMA PrefixFacts ==
    ASSUME NEW l, IsSeq(l), NEW r, IsSeq(r), NEW p, p = common_prefix_len(l, r)
    PROVE  p \in 0 .. Len(l) /\ p <= Len(r) /\ \A i \in 1 .. p : l[i] = r[i]
<1>1. PICK T : T = {n \in 0 .. Len(l) : n <= Len(r) /\ \A i \in 1 .. n : l[i] = r[i]}
  OBVIOUS
<1>2. Len(l) \in Nat /\ Len(r) \in Nat
  BY IsSeqFacts
<1>3. 0 \in T /\ T \in SUBSET (0 .. Len(l))
  BY <1>1, <1>2
<1>4. \E n \in T : \A m \in T : m <= n
  BY <1>2, <1>3, GreatestNumber
<1>5. p = CHOOSE n \in T : \A k \in T : k <= n
  BY <1>1 DEF common_prefix_len
<1>6. p \in T
  BY <1>4, <1>5, Zenon
<1> QED
  BY <1>1, <1>6

\* A request: what it replays was uploaded before or is uploaded now.
LEMMA EmbedsReplay ==
    ASSUME NEW obs, NEW up, Embeds(obs, up), NEW h, Tame(h)
    PROVE  Embeds(Norm(h), up \o RequestTurns(obs, h))
<1>1. PICK pos : Places(pos, obs, up)
  BY DEF Embeds
<1>2. IsSeq(obs) /\ IsSeq(up) /\ IsSeq(h)
  BY DEF Embeds, Tame
<1>3. PICK o : o = Norm(h)
  OBVIOUS
<1>4. o = [i \in DOMAIN h |-> o[i]] /\ \A i \in DOMAIN h : o[i] = normalize_history_item(h[i])
  BY <1>3 DEF Norm
<1>5. PICK n : n = Len(h)
  OBVIOUS
<1>6. IsSeq(o) /\ Len(o) = n /\ DOMAIN h = 1 .. n /\ n \in Nat
  BY <1>2, <1>4, <1>5, MapIsSeq, IsSeqFacts
<1>7. PICK p : p = common_prefix_len(obs, o)
  OBVIOUS
<1>8. p \in 0 .. Len(obs) /\ p <= n /\ \A i \in 1 .. p : obs[i] = o[i]
  BY <1>2, <1>6, <1>7, PrefixFacts
<1>9. PICK k : k = Len(up)
  OBVIOUS
<1>10. PICK pre : pre = IF p < Len(obs) THEN <<Rewrite(Len(obs), Len(h))>> ELSE <<>>
  OBVIOUS
<1>11. PICK tail : tail = SubSeq(h, p + 1, Len(h))
  OBVIOUS
<1>12. RequestTurns(obs, h) = pre \o tail
  BY <1>3, <1>7, <1>10, <1>11 DEF RequestTurns, Norm, Each
<1> n \in Nat /\ k \in Nat /\ p \in 0 .. n /\ Len(obs) \in Nat
  BY <1>2, <1>6, <1>8, <1>9, IsSeqFacts
<1>13. PICK r : r = Len(pre)
  OBVIOUS
<1>14. IsSeq(pre) /\ r \in Nat
  BY <1>10, <1>13, TupleIsSeq, EmptyIsSeq, IsSeqFacts
<1>15. IsSeq(tail) /\ Len(tail) = n - p /\ \A i \in 1 .. n - p : tail[i] = h[p + i]
  <2> \A i \in p + 1 .. n : i \in 1 .. n
    OBVIOUS
  <2>1. \A i \in p + 1 .. n : h[i] \in ToSet(h)
    BY <1>6 DEF ToSet
  <2>2. /\ Len(tail) = IF p + 1 <= n THEN n - (p + 1) + 1 ELSE 0
        /\ \A i \in 1 .. n - (p + 1) + 1 : tail[i] = h[p + 1 + i - 1]
    BY <1>5, <1>11, <2>1, SubSeqProperties
  <2>3. n - (p + 1) + 1 = n - p /\ \A i \in 1 .. n - p : p + 1 + i - 1 = p + i
    OBVIOUS
  <2>4. IsSeq(tail)
    BY <1>5, <1>11, SubIsSeq
  <2> QED
    BY <2>2, <2>3, <2>4
<1>16. PICK t : t = pre \o tail
  OBVIOUS
<1>17. IsSeq(t) /\ Len(t) = r + n - p /\ \A i \in 1 .. n - p : t[r + i] = tail[i]
  <2>1. IsSeq(pre) /\ IsSeq(tail)
    BY <1>14, <1>15
  <2>2. /\ IsSeq(t) /\ Len(t) = Len(pre) + Len(tail)
        /\ \A i \in 1 .. Len(tail) : t[Len(pre) + i] = tail[i]
    BY <1>16, <2>1, ConcatIsSeq
  <2>3. Len(pre) = r /\ Len(tail) = n - p
    BY <1>13, <1>15
  <2> QED
    BY <1>14, <2>2, <2>3
<1>18. PICK u : u = up \o t
  OBVIOUS
<1> IsSeq(up) /\ IsSeq(t) /\ Len(t) \in Nat
  BY <1>2, <1>17, IsSeqFacts
<1>19. /\ IsSeq(u) /\ Len(u) = k + Len(t)
       /\ \A i \in 1 .. k : u[i] = up[i]
       /\ \A i \in 1 .. Len(t) : u[k + i] = t[i]
  BY <1>9, <1>18, ConcatIsSeq
<1>20. ASSUME NEW i \in p + 1 .. n
       PROVE  k + r + i - p \in 1 .. Len(u) /\ u[k + r + i - p] = h[i]
  <2>1. PICK j : j = i - p
    OBVIOUS
  <2> r \in Nat /\ j \in 1 .. n - p
    BY <1>14, <2>1
  <2>2. p + j = i /\ r + j \in 1 .. Len(t) /\ k + r + i - p = k + (r + j)
    <3>1. p + j = i /\ k + r + i - p = k + (r + j)
      BY <2>1
    <3>2. r + j \in 1 .. r + n - p
      OBVIOUS
    <3> QED
      BY <1>17, <3>1, <3>2
  <2>3. u[k + (r + j)] = t[r + j] /\ t[r + j] = tail[j] /\ tail[j] = h[p + j]
    BY <1>15, <1>17, <1>19, <2>2
  <2>4. k + (r + j) \in 1 .. Len(u)
    BY <1>19, <2>2
  <2> QED
    BY <2>2, <2>3, <2>4
<1>21. PICK q : q = [i \in 1 .. n |-> IF i <= p THEN pos[i] ELSE k + r + i - p]
  OBVIOUS
<1>22. ASSUME NEW i \in 1 .. n, i <= p
       PROVE  /\ i \in 1 .. Len(obs) /\ q[i] = pos[i] /\ q[i] \in 1 .. k
              /\ IsItem(u[q[i]]) /\ normalize_history_item(u[q[i]]) = o[i]
  <2>1. i \in 1 .. Len(obs) /\ q[i] = pos[i]
    BY <1>8, <1>21, <1>22
  <2>2. /\ pos[i] \in 1 .. k /\ IsItem(up[pos[i]])
        /\ normalize_history_item(up[pos[i]]) = obs[i]
    BY <1>1, <1>9, <2>1 DEF Places
  <2>3. obs[i] = o[i]
    BY <1>8, <1>22
  <2> QED
    BY <1>19, <2>1, <2>2, <2>3
<1>23. ASSUME NEW i \in 1 .. n, ~ (i <= p)
       PROVE  /\ q[i] = k + r + i - p /\ q[i] \in 1 .. Len(u)
              /\ IsItem(u[q[i]]) /\ normalize_history_item(u[q[i]]) = o[i]
  <2>1. i \in p + 1 .. n /\ q[i] = k + r + i - p
    BY <1>21, <1>23
  <2>2. q[i] \in 1 .. Len(u) /\ u[q[i]] = h[i]
    BY <1>20, <2>1
  <2>3. IsItem(h[i]) /\ normalize_history_item(h[i]) = o[i]
    BY <1>4, <1>5, <1>6 DEF Tame
  <2> QED
    BY <2>1, <2>2, <2>3
<1>24. \A i \in 1 .. k : i \in 1 .. Len(u)
  BY <1>14, <1>17, <1>19
<1>25. \A i \in 1 .. n : /\ q[i] \in 1 .. Len(u) /\ IsItem(u[q[i]])
                         /\ normalize_history_item(u[q[i]]) = o[i]
  BY <1>22, <1>23, <1>24
<1>26. ASSUME NEW i \in 1 .. n, NEW j \in 1 .. n, i < j
       PROVE  q[i] < q[j]
  <2>1. CASE j <= p
    <3>1. i <= p
      BY <1>26, <2>1
    <3> QED
      BY <1>1, <1>22, <1>26, <2>1, <3>1 DEF Places
  <2>2. CASE i <= p /\ ~ (j <= p)
    BY <1>14, <1>22, <1>23, <2>2
  <2>3. CASE ~ (i <= p)
    <3>1. ~ (j <= p)
      BY <1>26, <2>3
    <3> QED
      BY <1>14, <1>23, <1>26, <2>3, <3>1
  <2> QED
    BY <2>1, <2>2, <2>3
<1>27. Places(q, o, u)
  BY <1>6, <1>25, <1>26 DEF Places
<1> QED
  BY <1>3, <1>6, <1>12, <1>16, <1>18, <1>19, <1>27 DEF Embeds

-----------------------------------------------------------------------------
(* Capture: the search for what was observed finds all of it.              *)

Takes(o, u, n, k) ==
    IF k < Len(o) /\ IsItem(u[n]) /\ normalize_history_item(u[n]) = o[k + 1] THEN k + 1 ELSE k
Founds(o, u) == CHOOSE f : f = [n \in 0 .. Len(u) |->
                                  IF n = 0 THEN 0
                                  ELSE LET k == f[n - 1] IN
                                       IF /\ k < Len(o) /\ IsItem(u[n])
                                          /\ normalize_history_item(u[n]) = o[k + 1]
                                       THEN k + 1 ELSE k]

LEMMA FoundIs == Found = Founds(observed, uploaded)[Len(uploaded)]
BY DEF Found, Founds

LEMMA FoundsDefined ==
    ASSUME NEW o, IsSeq(o), NEW u, IsSeq(u)
    PROVE  /\ Founds(o, u) \in [0 .. Len(u) -> 0 .. Len(o)]
           /\ Founds(o, u)[0] = 0
           /\ \A n \in 1 .. Len(u) : Founds(o, u)[n] = Takes(o, u, n, Founds(o, u)[n - 1])
<1> DEFINE Def(f) == f = [n \in 0 .. Len(u) |->
                            IF n = 0 THEN 0
                            ELSE LET k == f[n - 1] IN
                                 IF /\ k < Len(o) /\ IsItem(u[n])
                                    /\ normalize_history_item(u[n]) = o[k + 1]
                                 THEN k + 1 ELSE k]
<1>1. PICK N : N = Len(u)
  OBVIOUS
<1>2. PICK K : K = 0 .. Len(o)
  OBVIOUS
<1> N \in Nat /\ Len(o) \in Nat
  BY <1>1, IsSeqFacts
<1>3. PICK link : link = [n \in 1 .. N |-> n - 1]
  OBVIOUS
<1>4. PICK step : step = [n \in 1 .. N |-> [k \in K |-> Takes(o, u, n, k)]]
  OBVIOUS
<1>5. \A n \in 1 .. N : link[n] = n - 1 /\ link[n] \in 0 .. n - 1
  BY <1>3
<1>6. \A n \in 1 .. N : \A k \in K : step[n][k] = Takes(o, u, n, k)
  BY <1>4
<1>7. \A n : \A k \in K : Takes(o, u, n, k) \in K
  BY <1>2 DEF Takes
<1>8. PICK f : IsWalk(f, N, K, 0, link, step)
  <2>1. Descends(link, N)
    BY <1>5 DEF Descends
  <2>2. StepsIn(step, N, K)
    BY <1>6, <1>7 DEF StepsIn
  <2>3. 0 \in K
    BY <1>2
  <2> QED
    BY <2>1, <2>2, <2>3, WalkExists
<1>9. f \in [0 .. N -> K] /\ f[0] = 0 /\ \A n \in 1 .. N : f[n] = step[n][f[link[n]]]
  BY <1>8 DEF IsWalk
<1>10. ASSUME NEW n \in 1 .. N
       PROVE  f[n] = Takes(o, u, n, f[n - 1])
  <2>1. n - 1 \in 0 .. N
    OBVIOUS
  <2>2. f[n - 1] \in K
    BY <1>9, <2>1
  <2> QED
    BY <1>5, <1>6, <1>9, <2>2
<1>11. Def(f)
  <2>1. f = [n \in 0 .. N |-> f[n]]
    BY <1>9
  <2>2. \A n \in 0 .. N : n # 0 => n \in 1 .. N
    OBVIOUS
  <2>3. \A n \in 0 .. N : f[n] = IF n = 0 THEN 0 ELSE Takes(o, u, n, f[n - 1])
    BY <1>9, <1>10, <2>2
  <2> QED
    BY <1>1, <2>1, <2>3 DEF Takes
<1>12. Def(CHOOSE g : Def(g))
  <2> HIDE DEF Def
  <2> QED
    BY <1>11, Zenon
<1>13. PICK g : g = Founds(o, u) /\ Def(g)
  BY <1>12 DEF Founds
<1>14. \A n \in 0 .. N : g[n] = IF n = 0 THEN 0 ELSE Takes(o, u, n, g[n - 1])
  BY <1>1, <1>13, Zenon DEF Takes
<1>15. g[0] = 0
  BY <1>14
<1>16. \A n \in 1 .. N : g[n] = Takes(o, u, n, g[n - 1])
  <2>1. \A n \in 1 .. N : n \in 0 .. N /\ n # 0
    OBVIOUS
  <2> QED
    BY <1>14, <2>1
<1> DEFINE T == {n \in 0 .. N : g[n] \in K}
<1>17. ASSUME NEW n \in 0 .. N, \A m \in 0 .. n - 1 : m \in T
       PROVE  n \in T
  <2>1. CASE n = 0
    BY <1>2, <1>15, <2>1
  <2>2. CASE n # 0
    <3>1. n \in 1 .. N /\ n - 1 \in 0 .. n - 1
      BY <2>2
    <3>2. g[n - 1] \in K
      BY <1>17, <3>1
    <3> QED
      BY <1>7, <1>16, <3>1, <3>2
  <2> QED
    BY <2>1, <2>2
<1>18. \A n \in 0 .. N : n \in T
  <2> HIDE DEF T
  <2> QED
    BY <1>17, SetInduction
<1>19. g = [n \in 0 .. N |-> g[n]]
  BY <1>1, <1>13, Zenon
<1>20. g \in [0 .. N -> K]
  BY <1>18, <1>19
<1> QED
  BY <1>1, <1>2, <1>13, <1>15, <1>16, <1>20

\* The search is never behind the places: what lies before n was found by n.
LEMMA EmbedsIsFound ==
    ASSUME NEW o, NEW u, Embeds(o, u)
    PROVE  Founds(o, u)[Len(u)] = Len(o)
<1>1. PICK pos : Places(pos, o, u)
  BY DEF Embeds
<1>2. IsSeq(o) /\ IsSeq(u)
  BY DEF Embeds
<1>3. PICK N : N = Len(u)
  OBVIOUS
<1>4. PICK L : L = Len(o)
  OBVIOUS
<1> N \in Nat /\ L \in Nat
  BY <1>2, <1>3, <1>4, IsSeqFacts
<1>5. PICK f : f = Founds(o, u)
  OBVIOUS
<1>6. /\ \A n \in 0 .. N : f[n] \in 0 .. L
      /\ f[0] = 0
      /\ \A n \in 1 .. N : f[n] = Takes(o, u, n, f[n - 1])
  BY <1>2, <1>3, <1>4, <1>5, FoundsDefined
<1>7. /\ \A i \in 1 .. L : /\ pos[i] \in 1 .. N /\ IsItem(u[pos[i]])
                           /\ normalize_history_item(u[pos[i]]) = o[i]
      /\ \A i, j \in 1 .. L : i < j => pos[i] < pos[j]
  BY <1>1, <1>3, <1>4 DEF Places
<1> DEFINE T == {n \in 0 .. N : \A i \in 1 .. L : pos[i] <= n => i <= f[n]}
<1>8. ASSUME NEW n \in 0 .. N, \A m \in 0 .. n - 1 : m \in T
      PROVE  n \in T
  <2>1. CASE n = 0
    BY <1>7, <2>1
  <2>2. CASE n # 0
    <3>1. n \in 1 .. N /\ n - 1 \in 0 .. n - 1 /\ n - 1 \in 0 .. N
      BY <2>2
    <3>2. PICK k : k = f[n - 1]
      OBVIOUS
    <3>3. k \in 0 .. L /\ \A i \in 1 .. L : pos[i] <= n - 1 => i <= k
      BY <1>6, <1>8, <3>1, <3>2
    <3>4. f[n] = Takes(o, u, n, k)
      BY <1>6, <3>1, <3>2
    <3>5. f[n] \in {k, k + 1}
      BY <3>4 DEF Takes
    <3>6. SUFFICES ASSUME NEW i \in 1 .. L, pos[i] <= n
                   PROVE  i <= f[n]
      OBVIOUS
    <3>7. pos[i] \in 1 .. N
      BY <1>7
    <3>8. CASE i <= k
      BY <3>3, <3>5, <3>8
    <3>9. CASE ~ (i <= k)
      <4>1. pos[i] = n
        BY <3>1, <3>3, <3>6, <3>7, <3>9
      <4>2. CASE i = k + 1
        <5>1. k < Len(o) /\ IsItem(u[n]) /\ normalize_history_item(u[n]) = o[k + 1]
          BY <1>4, <1>7, <3>3, <4>1, <4>2
        <5>2. f[n] = k + 1
          BY <3>4, <5>1 DEF Takes
        <5> QED
          BY <4>2, <5>2
      <4>3. CASE i # k + 1
        <5>1. k + 1 \in 1 .. L /\ k + 1 < i
          BY <3>3, <3>9, <4>3
        <5>2. pos[k + 1] < pos[i] /\ pos[k + 1] \in 1 .. N
          BY <1>7, <5>1
        <5>3. pos[k + 1] <= n - 1
          BY <3>1, <4>1, <5>2
        <5>4. k + 1 <= k
          BY <3>3, <5>1, <5>3
        <5> QED
          BY <3>3, <5>4
      <4> QED
        BY <4>2, <4>3
    <3> QED
      BY <3>8, <3>9
  <2> QED
    BY <2>1, <2>2
<1>9. \A n \in 0 .. N : n \in T
  <2> HIDE DEF T
  <2> QED
    BY <1>8, SetInduction
<1>10. N \in T /\ f[N] \in 0 .. L
  BY <1>6, <1>9
<1>11. CASE L = 0
  BY <1>3, <1>4, <1>5, <1>10, <1>11
<1>12. CASE L # 0
  <2>1. L \in 1 .. L /\ pos[L] <= N
    BY <1>7, <1>12
  <2>2. L <= f[N]
    BY <1>10, <2>1
  <2> QED
    BY <1>3, <1>4, <1>5, <1>10, <2>2
<1> QED
  BY <1>11, <1>12

LEMMA EmbedsGivesProperty == Embeds(observed, uploaded) => ObservedUploaded
BY EmbedsIsFound, FoundIs DEF ObservedUploaded

-----------------------------------------------------------------------------
(* Capture: the inductive invariant.                                       *)

\* An exchange that still relays frames has an answer the child will hear.
ExchangeOK(x) ==
    /\ DOMAIN x = {"conv", "phase", "state", "left", "answer"}
    /\ x.conv \in Convs
    /\ x.phase = "stream" => GoodItem(x.answer)
    /\ x.phase = "relay" => GoodItem(x.answer) \/ x.left = <<>>
ExchangesOK(xs) == IsSeq(xs) /\ \A e \in 1 .. Len(xs) : ExchangeOK(xs[e])

RouteInv == proto \in [Convs -> Protocols] /\ requests \in 0 .. Len(Inputs)
ConvInv == DOMAIN conv = Convs /\ \A c \in Convs : GoodItems(conv[c])
ExchangeInv == ExchangesOK(exchanges)
EmbedInv == Embeds(observed, uploaded)
CaptureInv == RouteInv /\ ConvInv /\ ExchangeInv /\ EmbedInv

LEMMA CaptureInitHolds == CaptureInit => CaptureInv
<1> SUFFICES ASSUME CaptureInit PROVE CaptureInv
  OBVIOUS
<1>1. RouteInv
  BY CaptureAssumption DEF CaptureInit, RouteInv
<1>2. \A i \in 1 .. Len(<<>>) : GoodItem(<<>>[i]) /\ ExchangeOK(<<>>[i])
  BY EmptyIsSeq
<1>3. GoodItems(<<>>) /\ ExchangesOK(<<>>)
  BY <1>2, EmptyIsSeq DEF GoodItems, ExchangesOK
<1>4. ConvInv
  BY <1>3 DEF CaptureInit, ConvInv
<1>5. ExchangeInv /\ EmbedInv
  BY <1>3, EmbedsEmpty DEF CaptureInit, ExchangeInv, EmbedInv
<1> QED
  BY <1>1, <1>4, <1>5 DEF CaptureInv

\* Items of the child, and answers.
LEMMA SpokenGood ==
    ASSUME RouteInv, NEW item \in ItemsNow, item # Nothing
    PROVE  GoodItem(item)
<1>1. Len(Inputs) \in Nat /\ requests \in 0 .. Len(Inputs)
  BY CaptureAssumption DEF RouteInv
<1>2. requests < Len(Inputs) /\ item \in Inputs[requests + 1]
  BY DEF ItemsNow
<1>3. PICK n : n = requests + 1
  OBVIOUS
<1>4. n \in 1 .. Len(Inputs) /\ item \in Inputs[n]
  BY <1>1, <1>2, <1>3
<1>5. /\ item.kind \in {"nothing", "user", "result", "mode"}
      /\ item.kind = "nothing" => item = Nothing
      /\ item.kind = "user" => IsSeq(item.parts)
  BY <1>4, CaptureAssumption
<1> QED
  BY <1>5 DEF GoodItem

LEMMA AnswerGood ==
    ASSUME RouteInv, NEW a \in AnswersNow
    PROVE  GoodItem(a)
<1>1. Len(Inputs) \in Nat /\ requests \in 0 .. Len(Inputs)
  BY CaptureAssumption DEF RouteInv
<1>2. requests > 0 /\ a \in Answers[requests]
  BY DEF AnswersNow
<1>3. PICK n : n = requests
  OBVIOUS
<1>4. n \in 1 .. Len(Inputs) /\ a \in Answers[n]
  BY <1>1, <1>2, <1>3
<1>5. a.kind = "answer" /\ IsSeq(a.calls)
  BY <1>4, CaptureAssumption
<1> QED
  BY <1>5 DEF GoodItem

LEMMA ExchangeChanged ==
    ASSUME NEW xs, ExchangesOK(xs), NEW e \in DOMAIN xs, NEW y, ExchangeOK(y)
    PROVE  ExchangesOK([xs EXCEPT ![e] = y])
<1>1. IsSeq(xs) /\ DOMAIN xs = 1 .. Len(xs)
  BY IsSeqFacts DEF ExchangesOK
<1>2. PICK ys : ys = [xs EXCEPT ![e] = y]
  OBVIOUS
<1>3. ys = [i \in DOMAIN xs |-> ys[i]] /\ \A i \in DOMAIN xs : ys[i] = IF i = e THEN y ELSE xs[i]
  BY <1>2
<1>4. IsSeq(ys) /\ Len(ys) = Len(xs)
  BY <1>1, <1>3, MapIsSeq
<1>5. \A i \in 1 .. Len(ys) : ExchangeOK(ys[i])
  BY <1>1, <1>3, <1>4 DEF ExchangesOK
<1> QED
  BY <1>2, <1>4, <1>5 DEF ExchangesOK

LEMMA ExchangeAdded ==
    ASSUME NEW xs, ExchangesOK(xs), NEW y, ExchangeOK(y)
    PROVE  ExchangesOK(Append(xs, y))
<1>1. IsSeq(xs) /\ Len(xs) \in Nat
  BY IsSeqFacts DEF ExchangesOK
<1>2. PICK ys : ys = Append(xs, y)
  OBVIOUS
<1>3. PICK n : n = Len(xs)
  OBVIOUS
<1>4. /\ IsSeq(ys) /\ Len(ys) = n + 1 /\ ys[n + 1] = y
      /\ \A i \in 1 .. n : ys[i] = xs[i]
  BY <1>1, <1>2, <1>3, AppendIsSeq
<1>5. \A i \in 1 .. n + 1 : i \in 1 .. n \/ i = n + 1
  BY <1>1, <1>3
<1>6. \A i \in 1 .. Len(ys) : ExchangeOK(ys[i])
  BY <1>3, <1>4, <1>5 DEF ExchangesOK
<1> QED
  BY <1>2, <1>4, <1>6 DEF ExchangesOK

LEMMA NewExchangeOK ==
    ASSUME NEW c \in Convs, NEW phase, phase # "stream", NEW model
    PROVE  ExchangeOK(Exchange(c, phase, model))
<1>1. PICK x : x = Exchange(c, phase, model)
  OBVIOUS
<1>2. /\ DOMAIN x = {"conv", "phase", "state", "left", "answer"}
      /\ x.conv = c /\ x.phase = phase /\ x.left = <<>>
  BY <1>1 DEF Exchange
<1> QED
  BY <1>1, <1>2 DEF ExchangeOK

LEMMA ClosedKeeps ==
    ASSUME ExchangeInv, NEW e \in DOMAIN exchanges, Closed(e)
    PROVE  ExchangeInv'
<1>1. PICK x : x = exchanges[e]
  OBVIOUS
<1>2. ExchangeOK(x)
  BY <1>1, IsSeqFacts DEF ExchangeInv, ExchangesOK
<1>3. PICK y : y = [x EXCEPT !.phase = "done"]
  OBVIOUS
<1>4. DOMAIN y = DOMAIN x /\ y.conv = x.conv /\ y.phase = "done"
  BY <1>2, <1>3 DEF ExchangeOK
<1>5. ExchangeOK(y)
  BY <1>2, <1>4 DEF ExchangeOK
<1>6. exchanges' = [exchanges EXCEPT ![e] = y]
  BY <1>1, <1>3 DEF Closed
<1> QED
  BY <1>5, <1>6, ExchangeChanged DEF ExchangeInv

\* An action that edits one exchange.
LEMMA EditKeeps ==
    ASSUME ExchangeInv, NEW e \in DOMAIN exchanges, NEW y, ExchangeOK(y),
           exchanges' = [exchanges EXCEPT ![e] = y]
    PROVE  ExchangeInv'
BY ExchangeChanged DEF ExchangeInv

LEMMA AddKeeps ==
    ASSUME ExchangeInv, NEW c \in Convs, NEW phase, phase # "stream", NEW model,
           exchanges' = Append(exchanges, Exchange(c, phase, model))
    PROVE  ExchangeInv'
<1>1. PICK y : y = Exchange(c, phase, model)
  OBVIOUS
<1>2. ExchangeOK(y)
  BY <1>1, NewExchangeOK
<1> QED
  BY <1>1, <1>2, ExchangeAdded DEF ExchangeInv

LEMMA AgainKeeps ==
    ASSUME ExchangeInv, NEW e \in DOMAIN exchanges, NEW model,
           exchanges' = [exchanges EXCEPT ![e] = Exchange(exchanges[e].conv, "relay", model)]
    PROVE  ExchangeInv'
<1>1. PICK y : y = Exchange(exchanges[e].conv, "relay", model)
  OBVIOUS
<1>2. exchanges[e].conv \in Convs
  BY IsSeqFacts DEF ExchangeInv, ExchangesOK, ExchangeOK
<1>3. ExchangeOK(y)
  BY <1>1, <1>2, NewExchangeOK
<1> QED
  BY <1>1, <1>3, ExchangeChanged DEF ExchangeInv

\* An exchange with frames left has an answer; what has been absorbed changes
\* its state and the rest.
LEMMA AbsorbedIs ==
    ASSUME ExchangeInv, NEW e \in DOMAIN exchanges, NEW x, x = exchanges[e],
           x.phase \in {"stream", "relay"}, x.left # <<>>, NEW n, NEW y, y = Absorbed(e, n)
    PROVE  GoodItem(x.answer) /\ ExchangeOK(y)
<1>1. ExchangeOK(x)
  BY IsSeqFacts DEF ExchangeInv, ExchangesOK
<1>2. GoodItem(x.answer)
  BY <1>1 DEF ExchangeOK
<1>3. \E state, left : y = [x EXCEPT !.state = state, !.left = left]
  BY DEF Absorbed
<1>4. PICK state, left : y = [x EXCEPT !.state = state, !.left = left]
  BY <1>3
<1>5. DOMAIN y = DOMAIN x /\ y.conv = x.conv /\ y.phase = x.phase /\ y.answer = x.answer
  BY <1>1, <1>4 DEF ExchangeOK
<1> QED
  BY <1>1, <1>2, <1>5 DEF ExchangeOK

LEMMA ChunkLeft ==
    ASSUME NEW e, NEW n \in Chunks(e)
    PROVE  exchanges[e].left # <<>>
BY EmptyIsSeq DEF Chunks

\* Every step leaves the exchanges in order.
LEMMA ExchangeKeeps == CaptureInv /\ CaptureNext => ExchangeInv'
<1> SUFFICES ASSUME CaptureInv, CaptureNext
             PROVE  ExchangeInv'
  OBVIOUS
<1>0. ExchangeInv /\ RouteInv
  BY DEF CaptureInv
<1>1. CASE \E c \in Convs : \/ \E item \in ItemsNow : Request(c, item)
                            \/ \E model \in {None, RequestModel} : BadRequest(c, model)
                            \/ WsOpen(c) \/ WsRefused(c)
  <2>1. ASSUME NEW c \in Convs, NEW item, Request(c, item)
        PROVE  ExchangeInv'
    BY <1>0, <2>1, AddKeeps DEF Request
  <2>2. ASSUME NEW c \in Convs, NEW model, BadRequest(c, model)
        PROVE  ExchangeInv'
    BY <1>0, <2>2, AddKeeps DEF BadRequest
  <2>3. ASSUME NEW c \in Convs, WsOpen(c)
        PROVE  ExchangeInv'
    BY <1>0, <2>3, AddKeeps DEF WsOpen
  <2>4. ASSUME NEW c \in Convs, WsRefused(c)
        PROVE  ExchangeInv'
    BY <1>0, <2>4 DEF WsRefused, ExchangeInv
  <2> QED
    BY <1>1, <2>1, <2>2, <2>3, <2>4
<1>2. ASSUME NEW e \in DOMAIN exchanges, NEW a \in AnswersNow,
             BodyResponse(e, a) \/ StreamResponse(e, a) \/ WsAnswers(e, a)
      PROVE  ExchangeInv'
  <2>1. CASE BodyResponse(e, a)
    BY <1>0, <2>1, ClosedKeeps DEF BodyResponse
  <2>2. PICK x : x = exchanges[e]
    OBVIOUS
  <2>3. ExchangeOK(x) /\ GoodItem(a)
    BY <1>0, <2>2, IsSeqFacts, AnswerGood DEF ExchangeInv, ExchangesOK
  <2>4. CASE StreamResponse(e, a)
    <3>1. PICK fs : fs = Frames(proto[x.conv], a)
      OBVIOUS
    <3>2. PICK y : y = [x EXCEPT !.phase = "stream", !.answer = a, !.left = fs]
      OBVIOUS
    <3>3. DOMAIN y = DOMAIN x /\ y.conv = x.conv /\ y.phase = "stream" /\ y.answer = a
      BY <2>3, <3>2 DEF ExchangeOK
    <3>4. ExchangeOK(y)
      BY <2>3, <3>3 DEF ExchangeOK
    <3>5. exchanges' = [exchanges EXCEPT ![e] = y]
      BY <2>2, <2>4, <3>1, <3>2 DEF StreamResponse
    <3> QED
      BY <1>0, <3>4, <3>5, EditKeeps
  <2>5. CASE WsAnswers(e, a)
    <3>1. PICK fs : fs = Frames("websocket", a)
      OBVIOUS
    <3>2. PICK y : y = [x EXCEPT !.answer = a, !.left = fs]
      OBVIOUS
    <3>3. DOMAIN y = DOMAIN x /\ y.conv = x.conv /\ y.phase = x.phase /\ y.answer = a
      BY <2>3, <3>2 DEF ExchangeOK
    <3>4. ExchangeOK(y)
      BY <2>3, <3>3 DEF ExchangeOK
    <3>5. exchanges' = [exchanges EXCEPT ![e] = y]
      BY <2>2, <2>5, <3>1, <3>2 DEF WsAnswers
    <3> QED
      BY <1>0, <3>4, <3>5, EditKeeps
  <2> QED
    BY <1>2, <2>1, <2>4, <2>5
<1>3. ASSUME NEW e \in DOMAIN exchanges,
             \/ NoResponse(e) \/ ProxyError(e) \/ StreamEnds(e) \/ StreamRefused(e)
             \/ WsClose(e) \/ WsBreaks(e) \/ WsLost(e)
      PROVE  ExchangeInv'
  <2>1. Closed(e)
    BY <1>3 DEF NoResponse, ProxyError, StreamEnds, StreamRefused, WsClose, WsBreaks, WsLost
  <2> QED
    BY <1>0, <2>1, ClosedKeeps
<1>4. ASSUME NEW e \in DOMAIN exchanges, NEW n \in Chunks(e), StreamChunk(e, n) \/ WsFrames(e, n)
      PROVE  ExchangeInv'
  <2>1. PICK x : x = exchanges[e]
    OBVIOUS
  <2>2. x.phase \in {"stream", "relay"} /\ x.left # <<>>
    BY <1>4, <2>1, ChunkLeft DEF StreamChunk, WsFrames
  <2>4. PICK y : y = Absorbed(e, n)
    OBVIOUS
  <2> ExchangeOK(y)
    BY <1>0, <2>1, <2>2, <2>4, AbsorbedIs
  <2>5. CASE exchanges' = [exchanges EXCEPT ![e] = Absorbed(e, n)]
    BY <1>0, <2>4, <2>5, EditKeeps
  <2>6. CASE exchanges' = [exchanges EXCEPT ![e] = [Absorbed(e, n) EXCEPT !.phase = "quiet"]]
    <3>1. PICK z : z = [y EXCEPT !.phase = "quiet"]
      OBVIOUS
    <3>2. DOMAIN z = DOMAIN y /\ z.conv = y.conv /\ z.phase = "quiet"
      BY <3>1 DEF ExchangeOK
    <3>3. ExchangeOK(z)
      BY <3>2 DEF ExchangeOK
    <3> QED
      BY <1>0, <2>4, <2>6, <3>1, <3>3, EditKeeps
  <2>7. \/ exchanges' = [exchanges EXCEPT ![e] = Absorbed(e, n)]
        \/ exchanges' = [exchanges EXCEPT ![e] = [Absorbed(e, n) EXCEPT !.phase = "quiet"]]
    BY <1>4 DEF StreamChunk, WsFrames
  <2> QED
    BY <2>5, <2>6, <2>7
<1>5. ASSUME NEW e \in DOMAIN exchanges,
             FrameUnsaved(e) \/ FrameMalformed(e) \/ StreamBreaks(e) \/ StreamUnsaved(e)
      PROVE  ExchangeInv'
  <2>1. PICK x : x = exchanges[e]
    OBVIOUS
  <2>2. ExchangeOK(x) /\ x.phase = "stream" /\ GoodItem(x.answer)
    BY <1>0, <1>5, <2>1, IsSeqFacts
    DEF ExchangeInv, ExchangesOK, ExchangeOK, FrameUnsaved, FrameMalformed, StreamBreaks,
        StreamUnsaved
  <2>3. CASE FrameUnsaved(e)
    <3>1. x.left # <<>> /\ exchanges' = [exchanges EXCEPT ![e] = Absorbed(e, 1)]
      BY <2>1, <2>3 DEF FrameUnsaved
    <3>2. PICK y : y = Absorbed(e, 1)
      OBVIOUS
    <3>4. ExchangeOK(y)
      BY <1>0, <2>1, <2>2, <3>1, <3>2, AbsorbedIs
    <3> QED
      BY <1>0, <3>1, <3>2, <3>4, EditKeeps
  <2>4. CASE FrameMalformed(e)
    <3>1. PICK y : y = [exchanges[e] EXCEPT !.left = Tail(exchanges[e].left),
                                         !.state.malformed = TRUE]
      OBVIOUS
    <3>2. exchanges' = [exchanges EXCEPT ![e] = y]
      BY <2>4, <3>1 DEF FrameMalformed
    <3>3. DOMAIN y = DOMAIN x /\ y.conv = x.conv /\ y.phase = x.phase /\ y.answer = x.answer
      BY <2>1, <2>2, <3>1 DEF ExchangeOK
    <3>4. ExchangeOK(y)
      BY <2>2, <3>3 DEF ExchangeOK
    <3> QED
      BY <1>0, <3>2, <3>4, EditKeeps
  <2>5. CASE StreamBreaks(e)
    <3>1. PICK y : y = [x EXCEPT !.left = <<>>]
      OBVIOUS
    <3>2. exchanges' = [exchanges EXCEPT ![e] = y]
      BY <2>1, <2>5, <3>1 DEF StreamBreaks
    <3>3. /\ DOMAIN y = DOMAIN x /\ y.conv = x.conv /\ y.phase = x.phase
          /\ y.answer = x.answer
      BY <2>2, <3>1 DEF ExchangeOK
    <3>4. ExchangeOK(y)
      BY <2>2, <3>3 DEF ExchangeOK
    <3> QED
      BY <1>0, <3>2, <3>4, EditKeeps
  <2>6. CASE StreamUnsaved(e)
    <3>1. PICK y : y = [x EXCEPT !.phase = "unsaved"]
      OBVIOUS
    <3>2. exchanges' = [exchanges EXCEPT ![e] = y]
      BY <2>1, <2>6, <3>1 DEF StreamUnsaved
    <3>3. DOMAIN y = DOMAIN x /\ y.conv = x.conv /\ y.phase = "unsaved"
      BY <2>2, <3>1 DEF ExchangeOK
    <3>4. ExchangeOK(y)
      BY <2>2, <3>3 DEF ExchangeOK
    <3> QED
      BY <1>0, <3>2, <3>4, EditKeeps
  <2> QED
    BY <1>5, <2>3, <2>4, <2>5, <2>6
<1>6. ASSUME NEW e \in DOMAIN exchanges, NEW item, WsRequest(e, item)
      PROVE  ExchangeInv'
  BY <1>0, <1>6, AgainKeeps DEF WsRequest
<1>7. ASSUME NEW e \in DOMAIN exchanges, WsBadRequest(e)
      PROVE  ExchangeInv'
  BY <1>0, <1>7, AgainKeeps DEF WsBadRequest
<1> QED
  BY <1>1, <1>2, <1>3, <1>4, <1>5, <1>6, <1>7 DEF CaptureNext

\* Every step leaves every conversation a sequence of items.
LEMMA ItemHeard ==
    ASSUME ConvInv, NEW c \in Convs, NEW item, GoodItem(item),
           conv' = [conv EXCEPT ![c] = Append(@, item)]
    PROVE  ConvInv'
<1>1. PICK s : s = conv[c]
  OBVIOUS
<1>2. PICK t : t = Append(s, item)
  OBVIOUS
<1>3. IsSeq(s) /\ Len(s) \in Nat /\ \A i \in 1 .. Len(s) : GoodItem(s[i])
  BY <1>1, IsSeqFacts DEF ConvInv, GoodItems
<1>4. PICK n : n = Len(s)
  OBVIOUS
<1>5. /\ IsSeq(t) /\ Len(t) = n + 1 /\ t[n + 1] = item
      /\ \A i \in 1 .. n : t[i] = s[i]
  BY <1>2, <1>3, <1>4, AppendIsSeq
<1>6. \A i \in 1 .. n + 1 : i \in 1 .. n \/ i = n + 1
  BY <1>3, <1>4
<1>7. GoodItems(t)
  BY <1>3, <1>4, <1>5, <1>6 DEF GoodItems
<1>8. conv' = [conv EXCEPT ![c] = t] /\ DOMAIN conv = Convs
  BY <1>1, <1>2 DEF ConvInv
<1>9. DOMAIN conv' = Convs /\ \A d \in Convs : conv'[d] = IF d = c THEN t ELSE conv[d]
  BY <1>8
<1> QED
  BY <1>7, <1>9 DEF ConvInv

LEMMA SaidKeeps ==
    ASSUME RouteInv, ConvInv, NEW c \in Convs, NEW item \in ItemsNow, Says(c, item)
    PROVE  ConvInv'
<1>1. CASE item = Nothing
  BY <1>1 DEF Says, ConvInv
<1>2. CASE item # Nothing
  <2>1. GoodItem(item)
    BY <1>2, SpokenGood
  <2>2. conv' = [conv EXCEPT ![c] = Append(@, item)]
    BY <1>2 DEF Says
  <2> QED
    BY <2>1, <2>2, ItemHeard
<1> QED
  BY <1>1, <1>2

LEMMA RelayedKeeps ==
    ASSUME ConvInv, ExchangeInv, NEW e \in DOMAIN exchanges,
           exchanges[e].phase \in {"stream", "relay"}, exchanges[e].left # <<>>,
           NEW n, Relayed(e, n)
    PROVE  ConvInv'
<1>1. PICK x : x = exchanges[e]
  OBVIOUS
<1>2. GoodItem(x.answer) /\ x.conv \in Convs
  BY <1>1, IsSeqFacts DEF ExchangeInv, ExchangesOK, ExchangeOK
<1>3. UNCHANGED conv \/ conv' = [conv EXCEPT ![x.conv] = Append(@, x.answer)]
  BY <1>1 DEF Relayed, Hears
<1>4. UNCHANGED conv => ConvInv'
  BY DEF ConvInv
<1> QED
  BY <1>2, <1>3, <1>4, ItemHeard

LEMMA ConvKeeps == CaptureInv /\ CaptureNext => ConvInv'
<1> SUFFICES ASSUME CaptureInv, CaptureNext
             PROVE  ConvInv'
  OBVIOUS
<1>0. ExchangeInv /\ RouteInv /\ ConvInv
  BY DEF CaptureInv
<1>1. CASE UNCHANGED conv
  BY <1>0, <1>1 DEF ConvInv
<1>2. ASSUME NEW c \in Convs, NEW item \in ItemsNow, Request(c, item)
      PROVE  ConvInv'
  BY <1>0, <1>2, SaidKeeps DEF Request
<1>3. ASSUME NEW e \in DOMAIN exchanges, NEW item \in ItemsNow, WsRequest(e, item)
      PROVE  ConvInv'
  <2>1. PICK c : c = exchanges[e].conv
    OBVIOUS
  <2>2. c \in Convs
    BY <1>0, <2>1, IsSeqFacts DEF ExchangeInv, ExchangesOK, ExchangeOK
  <2>3. Says(c, item)
    BY <1>3, <2>1 DEF WsRequest
  <2> QED
    BY <1>0, <2>2, <2>3, SaidKeeps
<1>4. ASSUME NEW e \in DOMAIN exchanges, NEW a \in AnswersNow, BodyResponse(e, a)
      PROVE  ConvInv'
  <2>1. PICK c : c = exchanges[e].conv
    OBVIOUS
  <2>2. c \in Convs
    BY <1>0, <2>1, IsSeqFacts DEF ExchangeInv, ExchangesOK, ExchangeOK
  <2>3. conv' = [conv EXCEPT ![c] = Append(@, a)] /\ GoodItem(a)
    BY <1>0, <1>4, <2>1, AnswerGood DEF BodyResponse, Hears
  <2> QED
    BY <1>0, <2>2, <2>3, ItemHeard
<1>5. ASSUME NEW e \in DOMAIN exchanges, NEW n \in Chunks(e), StreamChunk(e, n) \/ WsFrames(e, n)
      PROVE  ConvInv'
  <2>1. /\ exchanges[e].phase \in {"stream", "relay"} /\ exchanges[e].left # <<>>
        /\ Relayed(e, n)
    BY <1>5, ChunkLeft DEF StreamChunk, WsFrames
  <2> QED
    BY <1>0, <2>1, RelayedKeeps
<1>6. ASSUME NEW e \in DOMAIN exchanges, FrameUnsaved(e)
      PROVE  ConvInv'
  <2>1. /\ exchanges[e].phase \in {"stream", "relay"} /\ exchanges[e].left # <<>>
        /\ Relayed(e, 1)
    BY <1>6 DEF FrameUnsaved
  <2> QED
    BY <1>0, <2>1, RelayedKeeps
<1>7. \/ UNCHANGED conv
      \/ \E c \in Convs : \E item \in ItemsNow : Request(c, item)
      \/ \E e \in DOMAIN exchanges :
            \/ \E item \in ItemsNow : WsRequest(e, item)
            \/ \E a \in AnswersNow : BodyResponse(e, a)
            \/ \E n \in Chunks(e) : StreamChunk(e, n) \/ WsFrames(e, n)
            \/ FrameUnsaved(e)
  <2>1. ASSUME NEW c, NEW model, BadRequest(c, model) \/ WsOpen(c) \/ WsRefused(c)
        PROVE  UNCHANGED conv
    BY <2>1 DEF BadRequest, WsOpen, WsRefused
  <2>2. ASSUME NEW e, NEW a, StreamResponse(e, a) \/ WsAnswers(e, a)
        PROVE  UNCHANGED conv
    BY <2>2 DEF StreamResponse, WsAnswers
  <2>3. ASSUME NEW e, \/ NoResponse(e) \/ ProxyError(e) \/ FrameMalformed(e) \/ StreamBreaks(e)
                      \/ StreamUnsaved(e) \/ StreamEnds(e) \/ StreamRefused(e)
                      \/ WsBadRequest(e) \/ WsClose(e) \/ WsBreaks(e) \/ WsLost(e)
        PROVE  UNCHANGED conv
    BY <2>3 DEF NoResponse, ProxyError, FrameMalformed, StreamBreaks, StreamUnsaved, StreamEnds,
                StreamRefused, WsBadRequest, WsClose, WsBreaks, WsLost
  <2> QED
    BY <2>1, <2>2, <2>3 DEF CaptureNext
<1> QED
  BY <1>1, <1>2, <1>3, <1>4, <1>5, <1>6, <1>7

\* The formats stay, and the requests are counted up to their bound.
LEMMA RouteKeeps == CaptureInv /\ CaptureNext => RouteInv'
<1> SUFFICES ASSUME CaptureInv, CaptureNext
             PROVE  RouteInv'
  OBVIOUS
<1>1. RouteInv /\ Len(Inputs) \in Nat
  BY CaptureAssumption DEF CaptureInv
<1>2. \A c : Asks(c) => requests < Len(Inputs) /\ requests' = requests + 1
  BY DEF Asks
<1>3. ASSUME NEW c, NEW item, NEW model,
             Request(c, item) \/ BadRequest(c, model) \/ WsOpen(c) \/ WsRefused(c)
      PROVE  /\ UNCHANGED proto
             /\ \/ UNCHANGED requests
                \/ requests < Len(Inputs) /\ requests' = requests + 1
  BY <1>2, <1>3 DEF Request, BadRequest, WsOpen, WsRefused
<1>4. ASSUME NEW e, NEW item, NEW a, NEW n,
             \/ BodyResponse(e, a) \/ StreamResponse(e, a) \/ WsAnswers(e, a)
             \/ NoResponse(e) \/ ProxyError(e) \/ StreamChunk(e, n) \/ WsFrames(e, n)
             \/ FrameUnsaved(e) \/ FrameMalformed(e) \/ StreamBreaks(e)
             \/ StreamUnsaved(e) \/ StreamEnds(e) \/ StreamRefused(e)
             \/ WsClose(e) \/ WsBreaks(e) \/ WsLost(e)
      PROVE  UNCHANGED proto /\ UNCHANGED requests
  BY <1>4 DEF BodyResponse, StreamResponse, WsAnswers, NoResponse, ProxyError, StreamChunk,
              WsFrames, FrameUnsaved, FrameMalformed, StreamBreaks, StreamUnsaved, StreamEnds,
              StreamRefused, WsClose, WsBreaks, WsLost
<1>5. ASSUME NEW e, NEW item, WsRequest(e, item) \/ WsBadRequest(e)
      PROVE  UNCHANGED proto /\ requests < Len(Inputs) /\ requests' = requests + 1
  BY <1>2, <1>5 DEF WsRequest, WsBadRequest
<1>6. /\ UNCHANGED proto
      /\ \/ UNCHANGED requests
         \/ requests < Len(Inputs) /\ requests' = requests + 1
  BY <1>3, <1>4, <1>5 DEF CaptureNext
<1> QED
  BY <1>1, <1>6 DEF RouteInv

\* What is taken of an answer is nothing, or an item.
TakenItem(x) == x = Nothing \/ IsItem(x)

LEMMA PayloadTaken ==
    ASSUME NEW protocol \in Protocols, NEW a
    PROVE  TakenItem(parse_assistant_payload(protocol, a))
<1>1. \A output : TakenItem(ResponsesAssistant(output))
  BY ItemKinds DEF ResponsesAssistant, TakenItem
<1>2. Format(protocol) \in {"chat", "responses", "anthropic"}
  BY DEF Format, Protocols
<1> QED
  BY <1>1, <1>2, ItemKinds DEF parse_assistant_payload, parse_assistant_content, TakenItem

LEMMA StreamTaken ==
    ASSUME NEW protocol, NEW x
    PROVE  TakenItem(Streamed(protocol, x))
BY ItemKinds DEF Streamed, parse_assistant_content, TakenItem

LEMMA PendingTaken == ASSUME NEW e PROVE TakenItem(Pending(e))
<1>1. TakenItem(Nothing)
  BY DEF TakenItem
<1> QED
  BY <1>1, StreamTaken DEF Pending

LEMMA EmbedsTaken ==
    ASSUME NEW obs, NEW up, Embeds(obs, up), NEW x, TakenItem(x)
    PROVE  Embeds(Noted(obs, x), Appended(up, x))
<1>1. CASE x = Nothing
  BY <1>1 DEF Noted, Appended
<1>2. CASE x # Nothing
  BY <1>2, EmbedsBoth DEF TakenItem, Noted, Appended
<1> QED
  BY <1>1, <1>2

LEMMA EmbedsTurn ==
    ASSUME NEW obs, NEW up, Embeds(obs, up), NEW x
    PROVE  Embeds(obs, Append(up, x))
<1>1. IsSeq(up)
  BY DEF Embeds
<1>2. PICK S : S = ToSet(up) \union {x}
  OBVIOUS
<1>3. up \in Seq(S) /\ x \in S
  BY <1>1, <1>2, IsSeqOver
<1>4. Append(up, x) = up \o <<x>>
  BY <1>3, AppendIsConcat
<1>5. IsSeq(<<x>>)
  BY TupleIsSeq
<1> QED
  BY <1>4, <1>5, EmbedsMore

LEMMA ErrorKeeps == EmbedInv /\ provider_error_turn => EmbedInv'
BY EmbedsTurn DEF EmbedInv, provider_error_turn

LEMMA ItemKeeps ==
    ASSUME EmbedInv, NEW x, TakenItem(x), append_history_item(x)
    PROVE  EmbedInv'
BY EmbedsTaken DEF EmbedInv, append_history_item

\* Every step leaves what was observed among what was uploaded.
LEMMA EmbedKeeps == CaptureInv /\ CaptureNext => EmbedInv'
<1> SUFFICES ASSUME CaptureInv, CaptureNext
             PROVE  EmbedInv'
  OBVIOUS
<1>0. RouteInv /\ ExchangeInv /\ EmbedInv /\ ConvInv'
  BY ConvKeeps DEF CaptureInv
<1>00. \A e \in DOMAIN exchanges : exchanges[e].conv \in Convs
  BY <1>0, IsSeqFacts DEF ExchangeInv, ExchangesOK, ExchangeOK
<1>1. ASSUME NEW c \in Convs, NEW item \in ItemsNow, Request(c, item)
      PROVE  EmbedInv'
  <2>1. PICK items : items = conv'[c]
    OBVIOUS
  <2>2. GoodItems(items) /\ proto[c] \in Protocols
    BY <1>0, <2>1 DEF ConvInv, RouteInv
  <2>3. PICK h : h = parse_request_history(proto[c], items)
    OBVIOUS
  <2>4. Tame(h)
    BY <2>2, <2>3, HistoryIsTame
  <2>5. uploaded' = uploaded \o RequestTurns(observed, h) /\ observed' = Norm(h)
    BY <1>1, <2>1, <2>3 DEF Request, Each, Norm
  <2> QED
    BY <1>0, <2>4, <2>5, EmbedsReplay DEF EmbedInv
<1>2. ASSUME NEW e \in DOMAIN exchanges, NEW item \in ItemsNow, WsRequest(e, item)
      PROVE  EmbedInv'
  <2>1. PICK items : items = conv'[exchanges[e].conv]
    OBVIOUS
  <2>2. GoodItems(items) /\ "websocket" \in Protocols
    BY <1>0, <1>00, <2>1 DEF ConvInv, Protocols
  <2>3. PICK h : h = parse_request_history("websocket", items)
    OBVIOUS
  <2>4. Tame(h)
    BY <2>2, <2>3, HistoryIsTame
  <2>5. PICK o, u : o = Noted(observed, Pending(e)) /\ u = Appended(uploaded, Pending(e))
    OBVIOUS
  <2>6. Embeds(o, u)
    BY <1>0, <2>5, PendingTaken, EmbedsTaken DEF EmbedInv
  <2>7. uploaded' = u \o RequestTurns(o, h) /\ observed' = Norm(h)
    BY <1>2, <2>1, <2>3, <2>5 DEF WsRequest, Each, Norm
  <2> QED
    BY <2>4, <2>6, <2>7, EmbedsReplay DEF EmbedInv
<1>3. ASSUME NEW e \in DOMAIN exchanges, WsBadRequest(e)
      PROVE  EmbedInv'
  <2>1. PICK o, u : o = Noted(observed, Pending(e)) /\ u = Appended(uploaded, Pending(e))
    OBVIOUS
  <2>2. Embeds(o, u)
    BY <1>0, <2>1, PendingTaken, EmbedsTaken DEF EmbedInv
  <2>3. uploaded' = Append(u, ErrorTurn) /\ observed' = o
    BY <1>3, <2>1 DEF WsBadRequest
  <2> QED
    BY <2>2, <2>3, EmbedsTurn DEF EmbedInv
<1>4. ASSUME NEW e \in DOMAIN exchanges, NEW a, BodyResponse(e, a)
      PROVE  EmbedInv'
  <2>1. proto[exchanges[e].conv] \in Protocols
    BY <1>0, <1>00 DEF RouteInv
  <2>2. append_history_item(parse_assistant_payload(proto[exchanges[e].conv], a))
    BY <1>4 DEF BodyResponse
  <2> QED
    BY <1>0, <2>1, <2>2, PayloadTaken, ItemKeeps
<1>5. ASSUME NEW e \in DOMAIN exchanges, NEW n, WsFrames(e, n)
      PROVE  EmbedInv'
  <2>1. PICK x : TakenItem(x) /\ append_history_item(x)
    <3>1. PICK x : x = IF n = Len(exchanges[e].left)
                       THEN Streamed("websocket", Absorbed(e, n).state) ELSE Nothing
      OBVIOUS
    <3>2. TakenItem(x)
      BY <3>1, StreamTaken DEF TakenItem
    <3>3. append_history_item(x)
      BY <1>5, <3>1 DEF WsFrames
    <3> QED
      BY <3>2, <3>3
  <2> QED
    BY <1>0, <2>1, ItemKeeps
<1>6. ASSUME NEW e \in DOMAIN exchanges, StreamEnds(e)
      PROVE  EmbedInv'
  <2>1. PICK x : x = Streamed(proto[exchanges[e].conv], exchanges[e].state)
    OBVIOUS
  <2>2. provider_error_turn \/ append_history_item(x)
    BY <1>6, <2>1 DEF StreamEnds
  <2>3. TakenItem(x)
    BY <2>1, StreamTaken
  <2> QED
    BY <1>0, <2>2, <2>3, ErrorKeeps, ItemKeeps
<1>7. ASSUME NEW e \in DOMAIN exchanges, WsClose(e)
      PROVE  EmbedInv'
  <2>1. append_history_item(Pending(e))
    BY <1>7 DEF WsClose
  <2> QED
    BY <1>0, <2>1, PendingTaken, ItemKeeps
<1>8. CASE provider_error_turn
  BY <1>0, <1>8, ErrorKeeps
<1>9. CASE UNCHANGED <<observed, uploaded>>
  BY <1>0, <1>9 DEF EmbedInv
<1>10. \A c, model : /\ BadRequest(c, model) => provider_error_turn
                     /\ WsOpen(c) => UNCHANGED <<observed, uploaded>>
                     /\ WsRefused(c) => provider_error_turn
  BY DEF BadRequest, WsOpen, WsRefused
<1>11. \A e : \/ NoResponse(e) \/ FrameUnsaved(e) \/ StreamBreaks(e) \/ StreamUnsaved(e)
              \/ StreamRefused(e) \/ WsBreaks(e)
              => provider_error_turn
  BY DEF NoResponse, FrameUnsaved, StreamBreaks, StreamUnsaved, StreamRefused, WsBreaks
<1>12. \A e, a, n : \/ StreamResponse(e, a) \/ WsAnswers(e, a) \/ ProxyError(e)
                    \/ StreamChunk(e, n) \/ FrameMalformed(e) \/ WsLost(e)
                    => UNCHANGED <<observed, uploaded>>
  BY DEF StreamResponse, WsAnswers, ProxyError, StreamChunk, FrameMalformed, WsLost
<1> QED
  BY <1>1, <1>2, <1>3, <1>4, <1>5, <1>6, <1>7, <1>8, <1>9, <1>10, <1>11, <1>12 DEF CaptureNext

LEMMA CaptureStepKeeps == CaptureInv /\ [CaptureNext]_captureVars => CaptureInv'
<1>1. CaptureInv /\ CaptureNext => CaptureInv'
  BY RouteKeeps, ConvKeeps, ExchangeKeeps, EmbedKeeps DEF CaptureInv
<1>2. CaptureInv /\ UNCHANGED captureVars => CaptureInv'
  BY DEF CaptureInv, RouteInv, ConvInv, ExchangeInv, EmbedInv, captureVars
<1> QED
  BY <1>1, <1>2

\* What SessionRuntime takes for recorded was uploaded, in that order, for any
\* conversations, formats, errors and interleaving of their exchanges.
THEOREM ObservedIsUploaded == CaptureSpec => []ObservedUploaded
<1>1. CaptureInv => ObservedUploaded
  BY EmbedsGivesProperty DEF CaptureInv, EmbedInv
<1> QED
  BY <1>1, CaptureInitHolds, CaptureStepKeeps, PTL DEF CaptureSpec
=============================================================================

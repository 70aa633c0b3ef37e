------------------------------ MODULE Delivery ------------------------------
(***************************************************************************)
(* cxtx, the wrapper that captures a coding agent's conversation: the main *)
(* task around the child process (cxtx/src/lib.rs), the proxy's tasks that *)
(* turn provider traffic into turns (proxy.rs, session.rs), the worker     *)
(* that uploads them in order and retries (delivery.rs), and its HTTP      *)
(* client (cxdb_http.rs) with the CXDB server behind it.                   *)
(*                                                                         *)
(* A turn is its ordinal, its kind and the task that took it.  A request   *)
(* is answered, refused without effect, or takes effect while the answer   *)
(* is lost.  The worker treats every error alike; its delays are left to   *)
(* the scheduler.  Writing ledger.json to disk is left out.                *)
(***************************************************************************)
EXTENDS Integers, FiniteSets, SequencesExt

CONSTANTS
    Tasks,         \* proxy tasks, each handling one exchange after the other
    Capacity,      \* of the channel to the worker, 1024 in the code
    MaxCaptured,   \* bound: turns the proxy captures
    MaxErrors      \* bound: requests to CXDB that fail

ASSUME DeliveryBounds == /\ Capacity \in Nat \ {0}
                         /\ MaxCaptured \in Nat /\ MaxErrors \in Nat

\* No proxy task is called like the two others that take turns.
ASSUME TasksAssumption == "main" \notin Tasks /\ "worker" \notin Tasks

VARIABLES
    main,          \* where run() is
    task,          \* task -> "idle", "request", "stream": what it is handling
    todo,          \* task, "main" -> turns taken and not yet sent to the worker
    captured,      \* turns the proxy has captured so far
    ordinal,       \* next_turn_ordinal of the session
    channel,       \* messages to the worker
    queue,         \* the worker's queue
    worker,        \* where the worker is
    contextId,     \* the worker's context, 0 if none
    degraded, recovery,      \* degraded, recovery_turn_enqueued
    shutdown,      \* "no", "asked", or "late" once the deadline has passed
    registryReady, \* the client has seen the type registered
    ledger,        \* delivery_state, cxdb_context_id, appended_sequences
    contexts,      \* server: contexts created
    typeKnown,     \* server: the conversation type is registered
    stored,        \* server: the turns appended, with their context
    lost, errors,  \* lost answers, and all failures, so far
    sent           \* history: turns that reached the channel or the queue

mainVars   == <<main>>
proxyVars  == <<task, todo, captured>>
workerVars == <<queue, worker, contextId, degraded, recovery, shutdown, ledger>>
serverVars == <<registryReady, contexts, typeKnown, stored, lost, errors>>
vars == <<mainVars, proxyVars, ordinal, channel, workerVars, serverVars, sent>>

Turn(kind, n, by) == [kind |-> kind, ordinal |-> n, by |-> by]
CreateItem        == [kind |-> "create"]
ShutdownMsg       == [kind |-> "shutdown"]

Alive == main # "done"

\* mpsc::Sender::send: waits for room; once the worker is gone the message is
\* dropped and the error ignored.
Send(msg) ==
    IF worker = "done" THEN UNCHANGED channel
    ELSE Len(channel) < Capacity /\ channel' = Append(channel, msg)

SendTurn(turn) ==
    /\ Send(turn)
    /\ sent' = IF worker = "done" THEN sent ELSE sent \cup {turn}

-----------------------------------------------------------------------------
(* run().                                                                  *)

\* The child runs, and its traffic with it, before anything is enqueued.
Spawn ==
    /\ main = "spawn"
    /\ main' = "create"
    /\ UNCHANGED <<proxyVars, ordinal, channel, workerVars, serverVars, sent>>

SpawnFails ==
    /\ main = "spawn"
    /\ ledger' = [ledger EXCEPT !.state = "child_launch_failed"]
    /\ main' = "shutdown"
    /\ UNCHANGED <<proxyVars, ordinal, channel, queue, worker, contextId, degraded,
                   recovery, shutdown, serverVars, sent>>

\* session_start_turn and session_end_turn: the ordinal is taken first, the
\* turn sent when the channel has room.
TakeMark(kind) ==
    /\ todo' = [todo EXCEPT !["main"] = <<Turn(kind, ordinal, "main")>>]
    /\ ordinal' = ordinal + 1

SendMark ==
    /\ SendTurn(Head(todo["main"]))
    /\ todo' = [todo EXCEPT !["main"] = <<>>]

\* enqueue_create_context, and with no wait in between session_start_turn.
EnqueueCreate ==
    /\ main = "create"
    /\ Send(CreateItem)
    /\ TakeMark("start")
    /\ main' = "start"
    /\ UNCHANGED <<task, captured, workerVars, serverVars, sent>>

EnqueueStart ==
    /\ main = "start"
    /\ SendMark
    /\ main' = "wait"
    /\ UNCHANGED <<task, captured, ordinal, workerVars, serverVars>>

ChildExits ==
    /\ main = "wait"
    /\ TakeMark("end")
    /\ main' = "ending"
    /\ UNCHANGED <<task, captured, channel, workerVars, serverVars, sent>>

EnqueueEnd ==
    /\ main = "ending"
    /\ SendMark
    /\ main' = "proxy"
    /\ UNCHANGED <<task, captured, ordinal, workerVars, serverVars>>

\* proxy.shutdown: the handlers finish; a task that streams a response is
\* not theirs any more, and not waited for.
ProxyShutdown ==
    /\ main = "proxy"
    /\ \A t \in Tasks : task[t] # "request"
    /\ main' = "shutdown"
    /\ UNCHANGED <<proxyVars, ordinal, channel, workerVars, serverVars, sent>>

AskShutdown ==
    /\ main = "shutdown"
    /\ Send(ShutdownMsg)
    /\ main' = "drain"
    /\ UNCHANGED <<proxyVars, ordinal, workerVars, serverVars, sent>>

\* The worker has acknowledged: run() returns and the process ends.
Finish ==
    /\ main = "drain" /\ worker = "done"
    /\ main' = "done"
    /\ UNCHANGED <<proxyVars, ordinal, channel, workerVars, serverVars, sent>>

\* The ledger cannot be written after the launch or the exit: run() returns.
MainFails ==
    /\ main \in {"create", "proxy"}
    /\ main' = "done"
    /\ UNCHANGED <<proxyVars, ordinal, channel, workerVars, serverVars, sent>>

-----------------------------------------------------------------------------
(* The proxy.                                                              *)

\* Consecutive ordinals, taken together under the session's lock.
Taken(t, n) == [i \in 1 .. n |-> Turn("turn", ordinal + i - 1, t)]

Take(t, n) ==
    /\ captured + n <= MaxCaptured
    /\ todo' = [todo EXCEPT ![t] = Taken(t, n)]
    /\ captured' = captured + n
    /\ ordinal' = ordinal + n

\* A request of the child: the turns its history adds (none for a replay), a
\* rewrite notice or an error among them.
Observe(t, n) ==
    /\ main \in {"create", "start", "wait"}
    /\ task[t] = "idle" /\ todo[t] = <<>>
    /\ Take(t, n)
    /\ task' = [task EXCEPT ![t] = "request"]
    /\ UNCHANGED <<main, channel, workerVars, serverVars, sent>>

\* A response: its turns, if any, are taken by the handler, or by a task of
\* its own when the response is a stream.
Respond(t, n) ==
    /\ Alive
    /\ task[t] \in {"request", "stream"} /\ todo[t] = <<>>
    /\ Take(t, n)
    /\ UNCHANGED <<main, task, channel, workerVars, serverVars, sent>>

Detach(t) ==
    /\ Alive
    /\ task[t] = "request" /\ todo[t] = <<>>
    /\ task' = [task EXCEPT ![t] = "stream"]
    /\ UNCHANGED <<main, todo, captured, ordinal, channel, workerVars, serverVars, sent>>

EndExchange(t) ==
    /\ Alive
    /\ task[t] \in {"request", "stream"} /\ todo[t] = <<>>
    /\ task' = [task EXCEPT ![t] = "idle"]
    /\ UNCHANGED <<main, todo, captured, ordinal, channel, workerVars, serverVars, sent>>

\* enqueue_turns, one send after the other.
EnqueueTurn(t) ==
    /\ Alive
    /\ todo[t] # <<>>
    /\ SendTurn(Head(todo[t]))
    /\ todo' = [todo EXCEPT ![t] = Tail(@)]
    /\ UNCHANGED <<main, task, captured, ordinal, workerVars, serverVars>>

-----------------------------------------------------------------------------
(* The worker's loop.                                                      *)

At(place) == Alive /\ worker = place

\* maybe_finish_shutdown: nothing left, or out of time.
MayFinish == shutdown = "late" \/ (shutdown # "no" /\ queue = <<>>)

\* Mutant: the deadline is not looked at.
StopPatient ==
    /\ At("top") /\ shutdown # "no" /\ queue = <<>>
    /\ worker' = "done"
    /\ UNCHANGED <<main, proxyVars, ordinal, channel, queue, contextId, degraded, recovery,
                   shutdown, ledger, serverVars, sent>>

Stop ==
    /\ At("top") /\ MayFinish
    /\ worker' = "done"
    /\ ledger' = IF shutdown = "late"
                 THEN [ledger EXCEPT !.state = IF degraded THEN "degraded" ELSE "healthy"]
                 ELSE ledger
    /\ UNCHANGED <<main, proxyVars, ordinal, channel, queue, contextId, degraded, recovery,
                   shutdown, serverVars, sent>>

\* handle_message for the first message of the channel.
HandleMessage ==
    /\ channel # <<>>
    /\ channel' = Tail(channel)
    /\ IF Head(channel) = ShutdownMsg
       THEN shutdown' = "asked" /\ UNCHANGED <<queue, ledger>>
       ELSE /\ queue' = Append(queue, Head(channel))
            /\ ledger' = [ledger EXCEPT !.state = IF degraded THEN "degraded" ELSE "healthy"]
            /\ UNCHANGED shutdown

\* The queue is empty: recv waits for a message.
Receive ==
    /\ At("top") /\ ~MayFinish /\ queue = <<>>
    /\ HandleMessage
    /\ UNCHANGED <<main, proxyVars, ordinal, worker, contextId, degraded, recovery,
                   serverVars, sent>>

\* It is not: what has arrived is taken with try_recv, one message after the
\* other, and other tasks may send more in between.
Draining == (At("top") /\ ~MayFinish /\ queue # <<>>) \/ At("drain")

Drain ==
    /\ Draining
    /\ HandleMessage
    /\ worker' = "drain"
    /\ UNCHANGED <<main, proxyVars, ordinal, contextId, degraded, recovery, serverVars, sent>>

\* Mutant: in an outage only a new message makes the worker try again.
ProcessProdded ==
    /\ Draining /\ channel = <<>>
    /\ degraded => worker = "drain"
    /\ worker' = IF Head(queue) = CreateItem THEN "post"
                 ELSE IF contextId = 0 THEN "early"
                 ELSE IF registryReady THEN "post" ELSE "register"
    /\ UNCHANGED <<main, proxyVars, ordinal, channel, queue, contextId, degraded, recovery,
                   shutdown, ledger, serverVars, sent>>

\* The channel is empty, and the front item is processed: an append only once
\* there is a context and its type is known to be registered.
Process ==
    /\ Draining /\ channel = <<>>
    /\ worker' = IF Head(queue) = CreateItem THEN "post"
                 ELSE IF contextId = 0 THEN "early"
                 ELSE IF registryReady THEN "post" ELSE "register"
    /\ UNCHANGED <<main, proxyVars, ordinal, channel, queue, contextId, degraded, recovery,
                   shutdown, ledger, serverVars, sent>>

\* SHUTDOWN_DRAIN_TIMEOUT has passed.
Deadline ==
    /\ Alive /\ shutdown = "asked" /\ worker # "done"
    /\ shutdown' = "late"
    /\ UNCHANGED <<main, proxyVars, ordinal, channel, queue, worker, contextId, degraded,
                   recovery, ledger, serverVars, sent>>

-----------------------------------------------------------------------------
(* The outcome of an item.                                                 *)

\* Ok: the item leaves the queue; an outage ends with one more turn, and is
\* over once that one, and all that arrived meanwhile, is delivered.
Delivered(item) ==
    LET rest   == Tail(queue)
        mark   == Turn("recovered", ordinal, "worker")
        begins == degraded /\ rest = <<>> /\ ~recovery
        ends   == degraded /\ rest = <<>> /\ recovery /\ item # CreateItem
        noted  == IF item = CreateItem THEN [ledger EXCEPT !.context = contextId']
                  ELSE [ledger EXCEPT !.appended = @ \cup {item.ordinal}]
    IN /\ queue' = IF begins THEN <<mark>> ELSE rest
       /\ ordinal' = IF begins THEN ordinal + 1 ELSE ordinal
       /\ sent' = IF begins THEN sent \cup {mark} ELSE sent
       /\ recovery' = IF begins THEN TRUE ELSE IF ends THEN FALSE ELSE recovery
       /\ degraded' = (degraded /\ ~ends)
       /\ ledger' = IF ends THEN [noted EXCEPT !.state = "healthy"] ELSE noted
       /\ worker' = "top"
       /\ UNCHANGED shutdown

\* Mutant: the failed item goes to the back of the queue.
FailedRotates ==
    LET mark == Turn("degraded", ordinal, "worker")
    IN /\ ledger' = [ledger EXCEPT !.state = "degraded"]
       /\ degraded' = TRUE
       /\ queue' = IF degraded THEN Append(Tail(queue), Head(queue)) ELSE Append(Append(Tail(queue), Head(queue)), mark)
       /\ ordinal' = IF degraded THEN ordinal ELSE ordinal + 1
       /\ recovery' = (degraded /\ recovery)
       /\ sent' = IF degraded THEN sent ELSE sent \cup {mark}
       /\ worker' = "top"
       /\ UNCHANGED shutdown

\* Mutant: a failed item is given up.
FailedDrops ==
    LET mark == Turn("degraded", ordinal, "worker")
    IN /\ ledger' = [ledger EXCEPT !.state = "degraded"]
       /\ degraded' = TRUE
       /\ queue' = IF degraded THEN Tail(queue) ELSE Append(Tail(queue), mark)
       /\ ordinal' = IF degraded THEN ordinal ELSE ordinal + 1
       /\ recovery' = (degraded /\ recovery)
       /\ sent' = IF degraded THEN sent ELSE sent \cup {mark}
       /\ worker' = "top"
       /\ UNCHANGED shutdown

\* Mutant: the sequence is noted before the answer is looked at.
FailedNotes ==
    LET mark == Turn("degraded", ordinal, "worker")
    IN /\ ledger' = [state |-> "degraded", context |-> ledger.context,
                   appended |-> ledger.appended \cup
                       {queue[i].ordinal : i \in {j \in {1} : queue[j] # CreateItem}}]
       /\ degraded' = TRUE
       /\ queue' = IF degraded THEN queue ELSE Append(queue, mark)
       /\ ordinal' = IF degraded THEN ordinal ELSE ordinal + 1
       /\ recovery' = (degraded /\ recovery)
       /\ sent' = IF degraded THEN sent ELSE sent \cup {mark}
       /\ worker' = "top"
       /\ UNCHANGED shutdown

\* Mutant: every failure is announced, not only the first.
FailedAlways ==
    LET mark == Turn("degraded", ordinal, "worker")
    IN /\ ledger' = [ledger EXCEPT !.state = "degraded"]
       /\ degraded' = TRUE
       /\ queue' = Append(queue, mark)
       /\ ordinal' = ordinal + 1
       /\ recovery' = FALSE
       /\ sent' = sent \cup {mark}
       /\ worker' = "top"
       /\ UNCHANGED shutdown

\* Err: enter_degraded; the item stays at the front.
Failed ==
    LET mark == Turn("degraded", ordinal, "worker")
    IN /\ ledger' = [ledger EXCEPT !.state = "degraded"]
       /\ degraded' = TRUE
       /\ IF degraded THEN UNCHANGED <<queue, ordinal, recovery, sent>>
          ELSE /\ queue' = Append(queue, mark)
               /\ ordinal' = ordinal + 1
               /\ recovery' = FALSE
               /\ sent' = sent \cup {mark}
       /\ worker' = "top"
       /\ UNCHANGED shutdown

\* "context creation has not completed"
AppendTooEarly ==
    /\ At("early")
    /\ Failed
    /\ UNCHANGED <<main, proxyVars, channel, contextId, serverVars>>

\* A request that has no effect on the server.
Refused ==
    /\ At("register") \/ At("post")
    /\ errors < MaxErrors
    /\ errors' = errors + 1
    /\ Failed
    /\ UNCHANGED <<main, proxyVars, channel, contextId, registryReady, contexts, typeKnown,
                   stored, lost>>

-----------------------------------------------------------------------------
(* The client's requests.                                                  *)

\* ensure_conversation_type_registered: look the type up, and publish it if
\* it is not there.
Register ==
    /\ At("register")
    /\ typeKnown' = TRUE
    /\ registryReady' = TRUE
    /\ worker' = "post"
    /\ UNCHANGED <<main, proxyVars, ordinal, channel, queue, contextId, degraded, recovery,
                   shutdown, ledger, contexts, stored, lost, errors, sent>>

\* create_context
PostCreate ==
    /\ At("post") /\ Head(queue) = CreateItem
    /\ contexts' = contexts + 1
    /\ contextId' = contexts + 1
    /\ Delivered(CreateItem)
    /\ UNCHANGED <<main, proxyVars, channel, registryReady, typeKnown, stored, lost, errors>>

\* append_turn
PostAppend ==
    /\ At("post") /\ Head(queue) # CreateItem
    /\ stored' = Append(stored, [context |-> contextId, turn |-> Head(queue)])
    /\ UNCHANGED contextId
    /\ Delivered(Head(queue))
    /\ UNCHANGED <<main, proxyVars, channel, registryReady, contexts, typeKnown, lost, errors>>

\* The server did it and the answer never came.
AnswerLost ==
    /\ errors < MaxErrors
    /\ \/ /\ At("register") /\ typeKnown' = TRUE
          /\ UNCHANGED <<contexts, stored>>
       \/ /\ At("post") /\ Head(queue) = CreateItem
          /\ contexts' = contexts + 1
          /\ UNCHANGED <<typeKnown, stored>>
       \/ /\ At("post") /\ Head(queue) # CreateItem
          /\ stored' = Append(stored, [context |-> contextId, turn |-> Head(queue)])
          /\ UNCHANGED <<contexts, typeKnown>>
    /\ errors' = errors + 1
    /\ lost' = lost + 1
    /\ Failed
    /\ UNCHANGED <<main, proxyVars, channel, contextId, registryReady>>

-----------------------------------------------------------------------------
DeliveryInit ==
    /\ main = "spawn"
    /\ task = [t \in Tasks |-> "idle"]
    /\ todo = [t \in Tasks \cup {"main"} |-> <<>>]
    /\ captured = 0 /\ ordinal = 1
    /\ channel = <<>> /\ queue = <<>>
    /\ worker = "top"
    /\ contextId = 0
    /\ degraded = FALSE /\ recovery = FALSE
    /\ shutdown = "no"
    /\ registryReady = FALSE
    /\ ledger = [state |-> "starting", context |-> 0, appended |-> {}]
    /\ contexts = 0
    /\ typeKnown = FALSE
    /\ stored = <<>>
    /\ lost = 0 /\ errors = 0
    /\ sent = {}

MainStep ==
    \/ EnqueueCreate \/ EnqueueStart \/ EnqueueEnd \/ ProxyShutdown \/ AskShutdown \/ Finish

\* What the worker does by itself, and the ends of a request it waits for.
WorkerStep == Stop \/ Receive \/ Drain \/ Process \/ AppendTooEarly
RequestEnds == Refused \/ Register \/ PostCreate \/ PostAppend \/ AnswerLost

DeliveryNext ==
    \/ Spawn \/ SpawnFails \/ ChildExits \/ MainFails
    \/ MainStep
    \/ \E t \in Tasks :
           \/ \E n \in 0 .. 2 : Observe(t, n)
           \/ Respond(t, 1) \/ Detach(t) \/ EndExchange(t) \/ EnqueueTurn(t)
    \/ WorkerStep \/ RequestEnds
    \/ Deadline

\* Both tasks run and the clock does.  Nothing is owed by the network: the client
\* is built without a timeout, so a request may never end.
DeliverySpec == /\ DeliveryInit /\ [][DeliveryNext]_vars
                /\ WF_vars(MainStep) /\ WF_vars(WorkerStep) /\ WF_vars(Deadline)

-----------------------------------------------------------------------------
(* Correctness.                                                            *)

IsStored(turn) == \E i \in DOMAIN stored : stored[i].turn = turn

\* Whatever failed and was retried, CXDB holds the turns of each task in the
\* order in which they were taken, a repeated one next to its first copy, and
\* only an answer that was lost makes a turn appear twice.
TasksInOrder ==
    /\ \A i, j \in DOMAIN stored :
          i < j /\ stored[i].turn.by = stored[j].turn.by
              => stored[i].turn.ordinal <= stored[j].turn.ordinal
    /\ Len(stored) - Cardinality({stored[i].turn : i \in DOMAIN stored}) <= lost

\* No failure, outage or shutdown removes a turn that was not stored; and a
\* worker that stops before its deadline has delivered the whole session up to
\* its end turn.
NothingDropped ==
    /\ \A turn \in sent : \/ turn \in ToSet(channel)
                          \/ turn \in ToSet(queue)
                          \/ IsStored(turn)
    /\ worker = "done" /\ shutdown = "asked" =>
          \A turn \in sent : turn.by = "main" => IsStored(turn)

\* A session's turns are all in one context, even if a lost answer left
\* another, empty one behind.  What the ledger calls appended is in CXDB, in
\* the ledger's context; what is in CXDB and not in the ledger is the turn
\* being retried.
LedgerTruthful ==
    /\ \A i, j \in DOMAIN stored : stored[i].context = stored[j].context
    /\ \A n \in ledger.appended :
          \E i \in DOMAIN stored : /\ stored[i].turn.ordinal = n
                                  /\ stored[i].context = ledger.context
    /\ \A i \in DOMAIN stored :
          stored[i].turn.ordinal \notin ledger.appended =>
              queue # <<>> /\ Head(queue) = stored[i].turn

\* Outages are recorded in pairs: a degraded and a recovered turn take turns,
\* and both are in CXDB once the worker calls itself healthy again.
Marks(kind) == {turn \in sent : turn.kind = kind}
OutagesPaired ==
    /\ \A a, b \in Marks("degraded") :
          a.ordinal < b.ordinal =>
              \E r \in Marks("recovered") : a.ordinal < r.ordinal /\ r.ordinal < b.ordinal
    /\ Cardinality(Marks("degraded")) - Cardinality(Marks("recovered"))
          = IF degraded /\ ~recovery THEN 1 ELSE 0
    /\ ~degraded => \A m \in Marks("degraded") \cup Marks("recovered") : IsStored(m)

\* The worker waits for an answer, and for nothing else: its deadline is looked at
\* between two items only.
InRequest == worker \in {"register", "post"}
AllStored == \A turn \in sent : IsStored(turn)
Over      == main = "done" \/ worker = "done"

\* Once the session has its context, the worker catches up again and again:
\* nothing that was sent to it waits for ever, unless the session ends first or
\* one request never ends.
DeliveredOnceCreated == <>[]InRequest \/ ((contextId # 0) ~> (AllStored \/ Over))

\* Only a request that never ends keeps a shutdown from its end: failures, full
\* channels, items that cannot be delivered and turns that still arrive do not
\* (maybe_finish_shutdown looks at the deadline before every item).
ShutdownEnds == <>[]InRequest \/ ((main = "drain") ~> (main = "done"))

\* The decision record: unsent messages are retried until delivery succeeds
\* or the shutdown boundary is reached (or one request never ends).
TurnsDelivered == <>[]InRequest \/ ((sent # {}) ~> (AllStored \/ Over))
=============================================================================

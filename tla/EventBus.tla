------------------------------ MODULE EventBus ------------------------------
(***************************************************************************)
(* The event bus (server/src/events.rs) and the SSE streams it feeds       *)
(* (handle_sse_stream in server/src/http/mod.rs).                          *)
(*                                                                         *)
(* publish() holds the mutex of the subscriber list while it offers the    *)
(* event to every channel, so publishes are totally ordered: log is that   *)
(* order, and a channel holds positions of log.  Offering to the channels  *)
(* one after the other and at once cannot be told apart, since no step     *)
(* looks at two of them.                                                   *)
(*                                                                         *)
(* A subscriber stands for one GET /v1/events request: its stream thread   *)
(* takes an event off the channel and writes it to the socket.  A write    *)
(* can fail once the client has left, and may still succeed for a while.   *)
(***************************************************************************)
EXTENDS Naturals, Sequences, Functions

CONSTANTS
    Subscribers,     \* the SSE requests
    Bound,           \* SUBSCRIBER_CHANNEL_BOUND
    Events           \* what is published

ASSUME BoundAssumption == Bound \in Nat \ {0}

VARIABLES
    log,         \* the events published, in order
    subs,        \* EventBus.subscribers: the senders on the list
    stream,      \* subscriber -> "none" | "connecting" | "streaming" | "ended"
    queue,       \* the channel of each subscriber: positions of log
    hand,        \* the position received and not yet written, 0 if none
    delivered,   \* history: the positions written to the client
    missed,      \* history: the positions dropped because the channel was full
    since,       \* history: the length of log when the subscriber subscribed
    present      \* the subscribers whose client has not left

streamVars == <<stream, hand, delivered, present, since>>
busVars    == <<log, subs, queue, missed, streamVars>>

\* The receiver lives as long as its thread.
Receiving(s) == stream[s] \in {"connecting", "streaming"}

BusInit ==
    /\ log = <<>> /\ subs = {}
    /\ stream    = [s \in Subscribers |-> "none"]
    /\ queue     = [s \in Subscribers |-> <<>>]
    /\ hand      = [s \in Subscribers |-> 0]
    /\ delivered = [s \in Subscribers |-> <<>>]
    /\ missed    = [s \in Subscribers |-> {}]
    /\ since     = [s \in Subscribers |-> 0]
    /\ present   = Subscribers

-----------------------------------------------------------------------------
(* EventBus::publish.                                                      *)

\* Mutant: a subscriber with a full channel is taken off the list.
PublishEvicts(event) ==
    LET n    == Len(log) + 1
        live == {s \in subs : Receiving(s)}
        room == {s \in live : Len(queue[s]) < Bound}
    IN /\ log' = Append(log, event)
       /\ subs' = room
       /\ queue' = [s \in Subscribers |->
                      IF s \in room THEN Append(queue[s], n) ELSE queue[s]]
       /\ missed' = [s \in Subscribers |->
                      IF s \in live \ room THEN missed[s] \cup {n} ELSE missed[s]]

\* try_send on every channel: Ok, Full (the event is dropped for this
\* subscriber) or Disconnected (the sender is dropped).
Publish(event) ==
    LET n    == Len(log) + 1
        live == {s \in subs : Receiving(s)}
        room == {s \in live : Len(queue[s]) < Bound}
    IN /\ log' = Append(log, event)
       /\ subs' = live
       /\ queue' = [s \in Subscribers |->
                      IF s \in room THEN Append(queue[s], n) ELSE queue[s]]
       /\ missed' = [s \in Subscribers |->
                      IF s \in live \ room THEN missed[s] \cup {n} ELSE missed[s]]

-----------------------------------------------------------------------------
(* The stream of a subscriber.                                             *)

\* handle_sse_stream, after the headers were written: subscribe and spawn.
Subscribe(s) ==
    /\ stream[s] = "none"
    /\ stream' = [stream EXCEPT ![s] = "connecting"]
    /\ subs' = subs \cup {s}
    /\ since' = [since EXCEPT ![s] = Len(log)]
    /\ UNCHANGED <<log, queue, missed, hand, delivered, present>>

\* The first write, of the "connected" event.
StreamConnected(s) ==
    /\ stream[s] = "connecting"
    /\ stream' = [stream EXCEPT ![s] = "streaming"]
    /\ UNCHANGED <<log, subs, queue, missed, hand, delivered, present, since>>

\* recv_timeout returns an event.
Take(s) ==
    /\ stream[s] = "streaming" /\ hand[s] = 0 /\ queue[s] # <<>>
    /\ hand' = [hand EXCEPT ![s] = Head(queue[s])]
    /\ queue' = [queue EXCEPT ![s] = Tail(@)]
    /\ UNCHANGED <<log, subs, missed, stream, delivered, present, since>>

\* write_sse_event succeeds.
Write(s) ==
    /\ stream[s] = "streaming" /\ hand[s] # 0
    /\ delivered' = [delivered EXCEPT ![s] = Append(@, hand[s])]
    /\ hand' = [hand EXCEPT ![s] = 0]
    /\ UNCHANGED <<log, subs, queue, missed, stream, present, since>>

\* Mutant: a failed heartbeat is not noticed.
WriteFailsNoHeartbeat(s) ==
    /\ s \notin present
    /\ \/ stream[s] = "connecting"
       \/ stream[s] = "streaming" /\ hand[s] # 0
    /\ stream' = [stream EXCEPT ![s] = "ended"]
    /\ queue' = [queue EXCEPT ![s] = <<>>]
    /\ hand' = [hand EXCEPT ![s] = 0]
    /\ UNCHANGED <<log, subs, missed, delivered, present, since>>

\* A write fails: of "connected", of an event, or of the heartbeat that is due
\* when the channel stays empty.  The thread returns and drops its receiver
\* with all that waits in it.
WriteFails(s) ==
    /\ s \notin present
    /\ \/ stream[s] = "connecting"
       \/ stream[s] = "streaming" /\ (hand[s] # 0 \/ queue[s] = <<>>)
    /\ stream' = [stream EXCEPT ![s] = "ended"]
    /\ queue' = [queue EXCEPT ![s] = <<>>]
    /\ hand' = [hand EXCEPT ![s] = 0]
    /\ UNCHANGED <<log, subs, missed, delivered, present, since>>

\* The client closes its connection.
ClientLeaves(s) ==
    /\ s \in present /\ stream[s] # "none"
    /\ present' = present \ {s}
    /\ UNCHANGED <<log, subs, queue, missed, stream, hand, delivered, since>>

StreamThread(s) == StreamConnected(s) \/ Take(s) \/ Write(s) \/ WriteFails(s)

StreamNext(s) == Subscribe(s) \/ StreamThread(s) \/ ClientLeaves(s)

-----------------------------------------------------------------------------
\* Anyone publishes anything.
BusNext ==
    \/ \E event \in Events : Publish(event) /\ UNCHANGED streamVars
    \/ \E s \in Subscribers : StreamNext(s)

BusSpec == BusInit /\ [][BusNext]_busVars

\* A stream's thread keeps running, and writes to a connection whose client
\* has left do not succeed for ever (TCP answers with a reset).
StreamFairness ==
    \A s \in Subscribers : WF_busVars(StreamThread(s)) /\ SF_busVars(WriteFails(s))

-----------------------------------------------------------------------------
(* Correctness.                                                            *)

\* The state has the shape of the bus and its streams; a channel never holds
\* more than its bound.
BusTypeOK ==
    /\ log \in Seq(Events)
    /\ subs \subseteq Subscribers /\ present \subseteq Subscribers
    /\ stream \in [Subscribers -> {"none", "connecting", "streaming", "ended"}]
    /\ queue \in [Subscribers -> Seq(1 .. Len(log))]
    /\ \A s \in Subscribers : Len(queue[s]) <= Bound
    /\ hand \in [Subscribers -> 0 .. Len(log)]
    /\ delivered \in [Subscribers -> Seq(1 .. Len(log))]
    /\ missed \in [Subscribers -> SUBSET (1 .. Len(log))]
    /\ since \in [Subscribers -> 0 .. Len(log)]

Increasing(seq) == \A i, j \in DOMAIN seq : i < j => seq[i] < seq[j]

InHand(s) == IF hand[s] = 0 THEN <<>> ELSE <<hand[s]>>

\* What a client was sent, and what is on its way to it, is in the order of
\* publication and without repetition.
DeliveredInOrder ==
    \A s \in Subscribers : Increasing(delivered[s] \o InHand(s) \o queue[s])

\* As long as its stream runs, a subscriber gets every event published since
\* it subscribed except the ones its full channel refused: none is lost in the
\* hand-over from channel to thread to socket.
NothingLost ==
    \A s \in Subscribers :
        Receiving(s) =>
            /\ s \in subs
            /\ Range(delivered[s]) \cup Range(InHand(s)) \cup Range(queue[s]) \cup missed[s]
                  = (since[s] + 1) .. Len(log)

\* The thread of a client that left ends, also when nothing is published: the
\* heartbeat finds out.
LeaversNoticed ==
    \A s \in Subscribers : (s \notin present) ~> (stream[s] = "ended")
=============================================================================

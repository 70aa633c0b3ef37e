------------------------------ MODULE Reconnect ------------------------------
(***************************************************************************)
(* The reconnecting client (clients/rust/src/reconnect.rs): callers put    *)
(* their request in a bounded queue and wait; one sender thread takes the  *)
(* requests off, runs them on the current client, and on a connection      *)
(* error dials anew and runs the request once more.  close() races with    *)
(* all of it.                                                              *)
(***************************************************************************)
EXTENDS Client, Functions

CONSTANTS
    QueueSize,    \* ReconnectConfig.queue_size
    MaxRetries    \* ReconnectConfig.max_retries

ASSUME SizesAssumption == QueueSize \in Nat /\ MaxRetries \in Nat

VARIABLES
    requests,   \* queue_tx, queue_rx: the requests waiting
    answer,     \* call -> the content of its result channel
    client,     \* Inner.client: the current connection, 0 for None
    sender,     \* the sender thread: where it is, its request, tries and attempt
    closed,     \* Inner.closed
    shutdown,   \* shutdown_tx has its message
    closer      \* where the caller of close() is

reconVars == <<requests, answer, client, sender, closed, shutdown, closer>>
reconnectVars == <<clientVars, reconVars>>

NoAnswer == [err |-> "none", of |-> "none"]
Idle == [pc |-> "select", req |-> "none", tries |-> 0, attempt |-> 0]

\* dial_reconnecting: the first dial succeeded and the sender is running.
ReconnectInit ==
    /\ ClientInit
    /\ requests = <<>> /\ client = 1
    /\ answer = [r \in Calls |-> NoAnswer]
    /\ sender = Idle
    /\ closed = FALSE /\ shutdown = FALSE /\ closer = "open"

-----------------------------------------------------------------------------
(* A caller: create_context, append_turn, get_last, ... through enqueue.   *)

Return(r, err, of) ==
    call' = [call EXCEPT ![r].pc = "done", ![r].result = err, ![r].of = of]

\* enqueue, up to try_send.
Check(r) ==
    /\ call[r].pc = "new"
    /\ IF closed THEN Return(r, "closed", "none")
       ELSE IF call[r].over THEN Return(r, "over", "none")
       ELSE call' = [call EXCEPT ![r].pc = "checked"]
    /\ UNCHANGED <<conn, served, faults, reconVars>>

\* try_send: the queue takes the request or is full.
TrySend(r) ==
    /\ call[r].pc = "checked"
    /\ IF Len(requests) < QueueSize
       THEN requests' = Append(requests, r) /\ call' = [call EXCEPT ![r].pc = "waiting"]
       ELSE Return(r, "full", "none") /\ UNCHANGED requests
    /\ UNCHANGED <<conn, served, faults, answer, client, sender, closed, shutdown, closer>>

\* wait_for_result, the top of the loop: without a deadline the thread then
\* blocks in recv, where a cancellation does not wake it.
WaitTop(r) ==
    /\ call[r].pc = "waiting"
    /\ IF call[r].over THEN Return(r, "over", "none")
       ELSE call' = [call EXCEPT ![r].pc = "blocked"]
    /\ UNCHANGED <<conn, served, faults, reconVars>>

\* recv or recv_timeout ends: with the result (the wrapper then takes the
\* value the operation left), or at the deadline.
WaitEnd(r) ==
    /\ call[r].pc = "blocked"
    /\ \/ answer[r] # NoAnswer /\ Return(r, answer[r].err, answer[r].of)
       \/ /\ answer[r] = NoAnswer /\ call[r].ctx = "deadline" /\ call[r].over
          /\ Return(r, "over", "none")
    /\ UNCHANGED <<conn, served, faults, reconVars>>

-----------------------------------------------------------------------------
(* The sender thread.                                                      *)

\* result_tx.send: the request is answered and the thread selects again.
Answer(r, err, of) ==
    /\ answer' = [answer EXCEPT ![r] = [err |-> err, of |-> of]]
    /\ sender' = Idle

senderKeeps == <<call, served, closed, shutdown, closer>>

\* sender_loop: a message of the queue, and the checks process_request makes
\* first (the context, then that there is a client) ...
SelectRequest ==
    /\ sender.pc = "select" /\ requests # <<>>
    /\ requests' = Tail(requests)
    /\ LET r == Head(requests) IN
       IF call[r].over THEN Answer(r, "over", "none")
       ELSE IF client = 0 THEN Answer(r, "closed", "none")
       ELSE /\ sender' = [pc |-> "write", req |-> r, tries |-> 1, attempt |-> 0]
            /\ UNCHANGED answer
    /\ UNCHANGED <<senderKeeps, conn, faults, client>>

\* ... or the shutdown message: drain_queue starts.
SelectShutdown ==
    /\ sender.pc = "select" /\ shutdown
    /\ shutdown' = FALSE
    /\ sender' = [sender EXCEPT !.pc = "drain"]
    /\ UNCHANGED <<clientVars, requests, answer, client, closed, closer>>

\* Mutant: the thread ends without answering the requests that wait.
DrainNone ==
    /\ sender.pc = "drain"
    /\ sender' = [sender EXCEPT !.pc = "gone"]
    /\ UNCHANGED <<senderKeeps, conn, faults, requests, answer, client>>

\* drain_queue: the next request, or the end of the thread.
Drain ==
    /\ sender.pc = "drain"
    /\ IF requests = <<>>
       THEN /\ sender' = [sender EXCEPT !.pc = "gone"]
            /\ UNCHANGED <<requests, answer>>
       ELSE /\ answer' = [answer EXCEPT ![Head(requests)] = [err |-> "closed", of |-> "none"]]
            /\ requests' = Tail(requests)
            /\ UNCHANGED sender
    /\ UNCHANGED <<senderKeeps, conn, faults, client>>

\* Mutant: the request is run again after every connection error.
OpEndsForever(err, of) ==
    IF err = "broken"
    THEN sender' = [sender EXCEPT !.pc = "check", !.attempt = 1] /\ UNCHANGED answer
    ELSE Answer(sender.req, err, of)

\* The operation has returned: a connection error of the first try leads to
\* reconnect, everything else is the answer.  is_connection_error counts
\* neither a read that timed out (WouldBlock) nor a frame cut short.
OpEnds(err, of) ==
    IF err = "broken" /\ sender.tries = 1
    THEN sender' = [sender EXCEPT !.pc = "check", !.attempt = 1] /\ UNCHANGED answer
    ELSE Answer(sender.req, err, of)

\* op(client), the first half: the request is written.
RunWrite ==
    /\ sender.pc = "write"
    /\ LET err == WriteError(client, sender.req) IN
       IF err = "none"
       THEN /\ WriteFrame(client, sender.req)
            /\ sender' = [sender EXCEPT !.pc = "read"]
            /\ UNCHANGED answer
       ELSE OpEnds(err, "none") /\ UNCHANGED conn
    /\ UNCHANGED <<senderKeeps, faults, requests, client>>

\* Mutant: a request whose context is over is answered without reading its frame.
RunReadImpatient ==
    /\ sender.pc = "read"
    /\ IF call[sender.req].over
       THEN Answer(sender.req, "over", "none") /\ UNCHANGED <<conn, faults>>
       ELSE ReadFrame(client) /\ OpEnds(FrameRead(client).err, FrameRead(client).of) /\ UNCHANGED faults
    /\ UNCHANGED <<senderKeeps, requests, client>>

\* op(client), the second half: a frame is read.
RunRead ==
    /\ sender.pc = "read"
    /\ ReadFrame(client) /\ OpEnds(FrameRead(client).err, FrameRead(client).of)
    /\ UNCHANGED <<senderKeeps, faults, requests, client>>

\* reconnect: the check of closed, and the old client is taken and closed.
ReconnectCheck ==
    /\ sender.pc = "check"
    /\ IF MaxRetries = 0 \/ closed
       THEN Answer(sender.req, "closed", "none") /\ UNCHANGED <<conn, client>>
       ELSE /\ sender' = [sender EXCEPT !.pc = "dial"]
            /\ client' = 0
            /\ conn' = IF client = 0 THEN conn ELSE ClosedConn(client)
            /\ UNCHANGED answer
    /\ UNCHANGED <<senderKeeps, faults, requests>>

\* reconnect: the dial.  The new client runs the request a second time.
ReconnectDial ==
    /\ sender.pc = "dial"
    /\ \/ /\ DialOk
          /\ client' = Len(conn) + 1
          /\ sender' = [sender EXCEPT !.pc = "write", !.tries = 2]
          /\ UNCHANGED answer
       \/ /\ DialFails
          /\ IF sender.attempt < MaxRetries
             THEN /\ sender' = [sender EXCEPT !.pc = "sleep", !.attempt = @ + 1]
                  /\ UNCHANGED answer
             ELSE Answer(sender.req, "broken", "none")
          /\ UNCHANGED client
    /\ UNCHANGED <<senderKeeps, requests>>

\* sleep_with_cancel: closed, the context, or the end of the delay.
Sleep ==
    /\ sender.pc = "sleep"
    /\ \/ closed /\ Answer(sender.req, "closed", "none")
       \/ call[sender.req].over /\ Answer(sender.req, "over", "none")
       \/ sender' = [sender EXCEPT !.pc = "check"] /\ UNCHANGED answer
    /\ UNCHANGED <<senderKeeps, conn, faults, requests, client>>

SenderThread ==
    \/ SelectRequest \/ SelectShutdown \/ Drain
    \/ RunWrite \/ RunRead \/ ReconnectCheck \/ ReconnectDial \/ Sleep

-----------------------------------------------------------------------------
(* close().                                                                *)

CloseSwap ==
    /\ closer = "open"
    /\ closed' = TRUE /\ closer' = "send"
    /\ UNCHANGED <<clientVars, requests, answer, client, sender, shutdown>>

CloseSend ==
    /\ closer = "send"
    /\ shutdown' = TRUE /\ closer' = "join"
    /\ UNCHANGED <<clientVars, requests, answer, client, sender, closed>>

\* The thread has been joined; the client, if any, is taken and closed.
CloseJoin ==
    /\ closer = "join" /\ sender.pc = "gone"
    /\ closer' = "done" /\ client' = 0
    /\ conn' = IF client = 0 THEN conn ELSE ClosedConn(client)
    /\ UNCHANGED <<call, served, faults, requests, answer, sender, closed, shutdown>>

-----------------------------------------------------------------------------
Caller(r) == Check(r) \/ TrySend(r) \/ WaitTop(r) \/ WaitEnd(r)
Closer == CloseSwap \/ CloseSend \/ CloseJoin

Network ==
    /\ \E c \in DOMAIN conn : Serve(c) \/ \E how \in {"fin", "rst"} : Break(c, how)
    /\ UNCHANGED reconVars

ReconnectNext ==
    \/ \E r \in Calls : Caller(r) \/ (ContextOver(r) /\ UNCHANGED reconVars)
    \/ SenderThread \/ Closer \/ Network

\* The threads run; a read or a dial ends (the request and dial timeouts), and
\* a deadline comes.
ReconnectFairness ==
    /\ WF_reconnectVars(SenderThread) /\ WF_reconnectVars(CloseSend \/ CloseJoin)
    /\ \A r \in Calls : WF_reconnectVars(Caller(r))
    /\ \A r \in Calls :
          WF_reconnectVars(call[r].ctx = "deadline" /\ ContextOver(r) /\ UNCHANGED reconVars)

ReconnectSpec == ReconnectInit /\ [][ReconnectNext]_reconnectVars /\ ReconnectFairness
-----------------------------------------------------------------------------
(* Correctness.                                                            *)

\* The places of request r among the frames connections conns have not handled.
Waiting(conns, r) ==
    UNION {{c} \X {i \in DOMAIN conns[c].in : conns[c].in[i] = r} : c \in DOMAIN conns}

\* Copies of a request: those carried out and those a server may still find.
Copies(r) == served[r] + Cardinality(Waiting(conn, r))

\* An operation that returned a result returned its own.
OwnAnswers == \A r \in Calls : call[r].result = "ok" => call[r].of = r

\* Answers and requests get out of step only on a connection on which a read
\* has timed out: on every other one the only frame on its way is the answer
\* to the request the sender is waiting for.
AnswersMatch ==
    /\ \A c \in DOMAIN conn :
          (~conn[c].late /\ conn[c].up = "up" /\ conn[c].in \o conn[c].out # <<>>) =>
             /\ c = client /\ sender.pc = "read"
             /\ Len(conn[c].in) + Len(conn[c].out) = 1
             /\ \A f \in Range(conn[c].out) : f.of = sender.req
    /\ (\A c \in DOMAIN conn : ~conn[c].late) => OwnAnswers

\* The retry of process_request may repeat an operation the server carried out,
\* but once, and only after a connection was given up; a request that was
\* refused or still waits has no effect at all.
RepeatedAtMostOnce ==
    \A r \in Calls :
        /\ Copies(r) <= 2
        /\ Copies(r) = 2 => Len(conn) > 1
        /\ (call[r].result = "full" \/ call[r].pc \in {"new", "checked"} \/ r \in Range(requests))
              => Copies(r) = 0
        /\ (call[r].result = "ok" /\ call[r].of = r) => served[r] > 0

\* A call returns, whatever the connection and close() do: one with a deadline
\* always, one without it if its request was in the queue before the sender's last
\* look at it.  (The others wait for ever: enqueue looked at closed before close()
\* set it, and its request came behind drain_queue.)  And close() returns, also
\* while the sender waits for an answer, dials or sleeps between two dials.
CallsReturn ==
    /\ \A r \in Calls :
          (call[r].ctx = "deadline" /\ call[r].pc # "new") ~> (call[r].pc = "done")
    /\ \A r \in Calls :
          (r \in Range(requests) /\ sender.pc # "gone") ~> (call[r].pc = "done")
    /\ (closer = "send") ~> (closer = "done")
=============================================================================

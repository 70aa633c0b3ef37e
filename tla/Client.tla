------------------------------- MODULE Client -------------------------------
(***************************************************************************)
(* The Rust client's connection (clients/rust/src/client.rs, protocol.rs,  *)
(* context.rs, turn.rs, fs.rs): one request is one frame written and one   *)
(* frame read on the socket, under the mutex of the connection.            *)
(*                                                                         *)
(* A frame is the request it belongs to.  What the operations differ in is *)
(* the layout of their payload, which is left out: parse_context_head,     *)
(* parse_append_result and their like look at the length of the payload,   *)
(* never at the request id or the message type of the frame.               *)
(*                                                                         *)
(* A connection is a pair of FIFO queues, and breaks in one of two ways:   *)
(* "fin" (the server closed it: answers already sent still arrive, then    *)
(* reads see the end) and "rst" (reads and writes fail).  The server       *)
(* handles the frames of a connection in order, and may do so after the    *)
(* client has given the connection up.                                     *)
(***************************************************************************)
EXTENDS Naturals, Sequences, FiniteSets

CONSTANTS
    Calls,       \* the requests made; each is a thread that calls once
    ContextOf,   \* call -> the kind of its RequestContext
    MaxFaults    \* bound: connections that break, dials that fail, errors the server answers

\* Without deadline or handle, with a deadline, with a cancel handle.
ASSUME ContextsAssumption ==
    ContextOf \in [Calls -> {"background", "deadline", "cancellable"}]

VARIABLES
    call,     \* call -> what its RequestContext says and how it ended
    conn,     \* the connections opened, in order
    served,   \* call -> how often the server carried it out
    faults    \* faults so far

clientVars == <<call, conn, served, faults>>

\* The results: "broken", an Error::Io of a broken connection; "wouldblock", a
\* read that timed out; "invalid", InvalidResponse; "server", Error::Server;
\* "over", Timeout or Cancelled; "closed", ClientClosed; "full", QueueFull.

FreshConn == [up |-> "up", in |-> <<>>, out |-> <<>>, late |-> FALSE]

ClientInit ==
    /\ call = [r \in Calls |-> [pc |-> "new", ctx |-> ContextOf[r], over |-> FALSE,
                                 result |-> "none", of |-> "none"]]
    /\ conn = <<FreshConn>>
    /\ served = [r \in Calls |-> 0]
    /\ faults = 0

Fault == faults < MaxFaults /\ faults' = faults + 1

-----------------------------------------------------------------------------
(* RequestContext.                                                         *)

\* The deadline of the context passes, or its handle cancels it.
ContextOver(r) ==
    /\ call[r].ctx # "background" /\ ~call[r].over
    /\ call[r].pc # "done"
    /\ call' = [call EXCEPT ![r].over = TRUE]
    /\ UNCHANGED <<conn, served, faults>>

-----------------------------------------------------------------------------
(* The server, and the network.                                            *)

\* handle_client takes the next frame of connection c and answers, with an ERROR
\* frame and no effect, or with the result; an operation whose error it returns
\* (`?`) closes the connection instead, which is a Break.
Serve(c) ==
    /\ conn[c].in # <<>>
    /\ LET r == Head(conn[c].in) IN
       \E ok \in BOOLEAN :
        /\ served' = IF ok THEN [served EXCEPT ![r] = @ + 1] ELSE served
        /\ conn' = [conn EXCEPT ![c].in = Tail(@),
                       ![c].out = IF conn[c].up = "up"
                                  THEN Append(@, [of |-> r, ok |-> ok]) ELSE @]
        /\ ok \/ faults < MaxFaults
        /\ faults' = IF ok THEN faults ELSE faults + 1
    /\ UNCHANGED call

\* The connection breaks; frames not yet handled may be lost with it, and a
\* reset also takes the answers on their way.
Break(c, how) ==
    /\ conn[c].up = "up" /\ Fault
    /\ \E left \in {<<>>, conn[c].in} :
          conn' = [conn EXCEPT ![c].up = how, ![c].in = left,
                      ![c].out = IF how = "rst" THEN <<>> ELSE @]
    /\ UNCHANGED <<call, served>>

-----------------------------------------------------------------------------
(* Client: dial and send_request_with_flags.                               *)

\* dial (or dial_tls), whose HELLO is answered: the connection is the last one.
DialOk == conn' = Append(conn, FreshConn) /\ UNCHANGED faults

\* No address answers, or the HELLO fails: the client is closed and dropped.
DialFails == Fault /\ UNCHANGED conn

\* Client::close: both directions are shut down; answers to come are lost,
\* frames already sent are not.
ClosedConn(c) == [conn EXCEPT ![c].up = "rst", ![c].out = <<>>]

\* The checks before the frame is written, and the write.  A write to a
\* connection the peer has closed is answered by a reset.
WriteError(c, r) ==
    IF call[r].over THEN "over"
    ELSE IF conn[c].up # "up" THEN "broken" ELSE "none"

\* write_frame.
WriteFrame(c, r) == conn' = [conn EXCEPT ![c].in = Append(@, r)]

\* What read_frame returns, and the request the frame answers: the next frame of
\* the connection, whatever its req_id; the end of a closed connection
\* (InvalidResponse, "frame header truncated"); a reset; or a read that times
\* out.
FrameRead(c) ==
    IF conn[c].out # <<>>
    THEN [err |-> IF Head(conn[c].out).ok THEN "ok" ELSE "server", of |-> Head(conn[c].out).of]
    ELSE [err |-> CASE conn[c].up = "fin" -> "invalid"
                    [] conn[c].up = "rst" -> "broken"
                    [] conn[c].up = "up" -> "wouldblock",
          of |-> "none"]

\* read_frame's effect on the connection: after a read that timed out the answer
\* may still come.
ReadFrame(c) ==
    conn' = IF conn[c].out # <<>> THEN [conn EXCEPT ![c].out = Tail(@)]
            ELSE IF conn[c].up = "up" THEN [conn EXCEPT ![c].late = TRUE] ELSE conn
=============================================================================

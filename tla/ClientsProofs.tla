----------------------------- MODULE ClientsProofs ----------------------------
(***************************************************************************)
(* Proofs about the Rust client: the reconnecting client, for any number   *)
(* of calls, faults and retries and any size of the queue; the follower of *)
(* contexts, for any turns and any window of those it remembers; and the   *)
(* messages it exchanges with the server, for any calls and answers that   *)
(* the types of the code can hold.                                         *)
(***************************************************************************)
EXTENDS Reconnect, Follow, Wire, Induction, FiniteSetTheorems, SequenceTheorems, TLAPS

-----------------------------------------------------------------------------
(* The inductive invariant.                                                *)

Frame == [of : Calls, ok : BOOLEAN]
Connection == [up : {"up", "fin", "rst"}, in : Seq(Calls), out : Seq(Frame), late : BOOLEAN]

\* The places of the sender at which it has a request, and a client for it.
Busy == {"write", "read", "check", "dial", "sleep"}
OnClient == {"write", "read"}

\* The shape of a call.
IsCall(x) == x = [pc |-> x.pc, ctx |-> x.ctx, over |-> x.over, result |-> x.result, of |-> x.of]

TypeInv ==
    /\ conn \in Seq(Connection) /\ client \in 0 .. Len(conn)
    /\ requests \in Seq(Calls)
    /\ DOMAIN call = Calls /\ DOMAIN answer = Calls /\ DOMAIN served = Calls
    /\ \A r \in Calls :
          /\ IsCall(call[r])
          /\ answer[r] = [err |-> answer[r].err, of |-> answer[r].of]
          /\ served[r] \in Nat
    /\ sender = [pc |-> sender.pc, req |-> sender.req, tries |-> sender.tries,
                 attempt |-> sender.attempt]
    /\ sender.pc \in Busy => sender.req \in Calls
    /\ sender.pc \in OnClient => client # 0

\* On a connection without a read that timed out an answer on its way is the one
\* the sender waits for, and as long as the connection is up so is a request.
InStep(c) ==
    LET mine == c = client /\ sender.pc = "read" IN
    /\ conn[c].up = "up" /\ ~mine => conn[c].in = <<>>
    /\ conn[c].up = "up" /\ mine =>
           /\ Len(conn[c].in) + Len(conn[c].out) = 1
           /\ \A i \in DOMAIN conn[c].in : conn[c].in[i] = sender.req
    /\ conn[c].out # <<>> => mine /\ Len(conn[c].out) = 1 /\ conn[c].out[1].of = sender.req
ConnInv ==
    \A c \in DOMAIN conn :
        /\ conn[c].up = "rst" => conn[c].out = <<>>
        /\ ~conn[c].late => InStep(c)

NoneLate == \A c \in DOMAIN conn : ~conn[c].late
OwnInv ==
    NoneLate => \A r \in Calls :
        /\ answer[r].err = "ok" => answer[r].of = r
        /\ call[r].result = "ok" => call[r].of = r

ReconnectInv == TypeInv /\ ConnInv /\ OwnInv

-----------------------------------------------------------------------------
(* Connections.                                                            *)

\* The fields of a connection.
LEMMA ConnFields ==
    ASSUME conn \in Seq(Connection), NEW c \in DOMAIN conn
    PROVE  /\ conn[c] \in Connection
           /\ conn[c] = [up |-> conn[c].up, in |-> conn[c].in, out |-> conn[c].out,
                         late |-> conn[c].late]
           /\ conn[c].up \in {"up", "fin", "rst"} /\ conn[c].late \in BOOLEAN
           /\ conn[c].in \in Seq(Calls) /\ conn[c].out \in Seq(Frame)
<1>1. DOMAIN conn = 1 .. Len(conn)
  BY LenProperties
<1>2. conn[c] \in Connection
  BY <1>1, ElementOfSeq
<1>3. QED
  BY <1>2 DEF Connection

\* The fields of a connection that changes.
LEMMA FieldsChanged ==
    ASSUME NEW a, a = [up |-> a.up, in |-> a.in, out |-> a.out, late |-> a.late], NEW x
    PROVE  /\ [a EXCEPT !.up = x] = [up |-> x, in |-> a.in, out |-> a.out, late |-> a.late]
           /\ [a EXCEPT !.in = x] = [up |-> a.up, in |-> x, out |-> a.out, late |-> a.late]
           /\ [a EXCEPT !.out = x] = [up |-> a.up, in |-> a.in, out |-> x, late |-> a.late]
           /\ [a EXCEPT !.late = x] = [up |-> a.up, in |-> a.in, out |-> a.out, late |-> x]
<1>1. [a EXCEPT !.up = x] = [up |-> x, in |-> a.in, out |-> a.out, late |-> a.late]
  OBVIOUS
<1>2. [a EXCEPT !.in = x] = [up |-> a.up, in |-> x, out |-> a.out, late |-> a.late]
  OBVIOUS
<1>3. [a EXCEPT !.out = x] = [up |-> a.up, in |-> a.in, out |-> x, late |-> a.late]
  OBVIOUS
<1>4. [a EXCEPT !.late = x] = [up |-> a.up, in |-> a.in, out |-> a.out, late |-> x]
  OBVIOUS
<1>5. QED
  BY <1>1, <1>2, <1>3, <1>4

\* Several fields that change in one step.
LEMMA InOutChanged ==
    \A a \in Connection : \A x, y : [a EXCEPT !.in = x, !.out = y] =
        [up |-> a.up, in |-> x, out |-> y, late |-> a.late]
<1> SUFFICES ASSUME NEW a \in Connection, NEW x, NEW y
             PROVE  [a EXCEPT !.in = x, !.out = y] =
                        [up |-> a.up, in |-> x, out |-> y, late |-> a.late]
  OBVIOUS
<1>1. a = [up |-> a.up, in |-> a.in, out |-> a.out, late |-> a.late]
  BY DEF Connection
<1>2. [a EXCEPT !.in = x, !.out = y] = [[a EXCEPT !.in = x] EXCEPT !.out = y]
  OBVIOUS
<1>3. \A b : b = [up |-> a.up, in |-> x, out |-> a.out, late |-> a.late] =>
            [b EXCEPT !.out = y] = [up |-> a.up, in |-> x, out |-> y, late |-> a.late]
  BY FieldsChanged
<1>4. QED
  BY <1>1, <1>2, <1>3, FieldsChanged

LEMMA UpOutChanged ==
    \A a \in Connection : \A x, y : [a EXCEPT !.up = x, !.out = y] =
        [up |-> x, in |-> a.in, out |-> y, late |-> a.late]
<1> SUFFICES ASSUME NEW a \in Connection, NEW x, NEW y
             PROVE  [a EXCEPT !.up = x, !.out = y] =
                        [up |-> x, in |-> a.in, out |-> y, late |-> a.late]
  OBVIOUS
<1>1. a = [up |-> a.up, in |-> a.in, out |-> a.out, late |-> a.late]
  BY DEF Connection
<1>2. [a EXCEPT !.up = x, !.out = y] = [[a EXCEPT !.up = x] EXCEPT !.out = y]
  OBVIOUS
<1>3. \A b : b = [up |-> x, in |-> a.in, out |-> a.out, late |-> a.late] =>
            [b EXCEPT !.out = y] = [up |-> x, in |-> a.in, out |-> y, late |-> a.late]
  BY FieldsChanged
<1>4. QED
  BY <1>1, <1>2, <1>3, FieldsChanged

LEMMA UpInOutChanged ==
    \A a \in Connection : \A x, y, z : [a EXCEPT !.up = x, !.in = y, !.out = z] =
        [up |-> x, in |-> y, out |-> z, late |-> a.late]
<1> SUFFICES ASSUME NEW a \in Connection, NEW x, NEW y, NEW z
             PROVE  [a EXCEPT !.up = x, !.in = y, !.out = z] =
                        [up |-> x, in |-> y, out |-> z, late |-> a.late]
  OBVIOUS
<1>1. [a EXCEPT !.up = x, !.in = y, !.out = z] =
          [[[a EXCEPT !.up = x] EXCEPT !.in = y] EXCEPT !.out = z]
  OBVIOUS
<1>2. [a EXCEPT !.up = x] = [up |-> x, in |-> a.in, out |-> a.out, late |-> a.late]
  BY FieldsChanged DEF Connection
<1>3. \A b : b = [up |-> x, in |-> a.in, out |-> a.out, late |-> a.late] =>
            [b EXCEPT !.in = y] = [up |-> x, in |-> y, out |-> a.out, late |-> a.late]
  BY FieldsChanged
<1>4. [[a EXCEPT !.up = x] EXCEPT !.in = y] =
          [up |-> x, in |-> y, out |-> a.out, late |-> a.late]
  BY <1>2, <1>3
<1>5. \A b : b = [up |-> x, in |-> y, out |-> a.out, late |-> a.late] =>
            [b EXCEPT !.out = z] = [up |-> x, in |-> y, out |-> z, late |-> a.late]
  BY FieldsChanged
<1>6. QED
  BY <1>1, <1>4, <1>5

\* A queue of one frame.
LEMMA OneFrame ==
    ASSUME NEW S, NEW s \in Seq(S)
    PROVE  /\ Len(s) \in Nat /\ (Len(s) = 0 => s = <<>>) /\ (s # <<>> => Len(s) # 0)
           /\ s # <<>> => /\ Head(s) = s[1] /\ s[1] \in S /\ Tail(s) \in Seq(S)
                          /\ Len(Tail(s)) = Len(s) - 1
                          /\ Len(s) = 1 => Tail(s) = <<>>
<1>1. Len(s) \in Nat /\ (Len(s) = 0 => s = <<>>) /\ (s # <<>> => Len(s) # 0)
  BY EmptySeq, LenProperties
<1>2. ASSUME s # <<>>
      PROVE  /\ Head(s) = s[1] /\ s[1] \in S /\ Tail(s) \in Seq(S)
             /\ Len(Tail(s)) = Len(s) - 1
  <2>1. 1 \in 1 .. Len(s)
    BY <1>1, <1>2
  <2>2. QED
    BY <1>2, <2>1, HeadTailProperties, ElementOfSeq
<1>3. ASSUME s # <<>>, Len(s) = 1 PROVE Tail(s) = <<>>
  <2>1. Len(Tail(s)) = 0 /\ Tail(s) \in Seq(S)
    BY <1>2, <1>3
  <2>2. QED
    BY <2>1, EmptySeq
<1>4. QED
  BY <1>1, <1>2, <1>3

\* One connection changes.
LEMMA ConnUpdated ==
    ASSUME conn \in Seq(Connection), NEW c \in DOMAIN conn, NEW new \in Connection,
           conn' = [conn EXCEPT ![c] = new]
    PROVE  /\ conn' \in Seq(Connection) /\ Len(conn') = Len(conn) /\ DOMAIN conn' = DOMAIN conn
           /\ conn'[c] = new /\ \A d \in DOMAIN conn : d # c => conn'[d] = conn[d]
<1>1. DOMAIN conn = 1 .. Len(conn) /\ Len(conn) \in Nat
  BY LenProperties
<1>2. conn' \in Seq(Connection) /\ Len(conn') = Len(conn)
  BY <1>1, ExceptSeq
<1>3. QED
  BY <1>2

\* What the first half of the invariant says of a step that changes connection c
\* only, and of the sender nothing that another connection depends on.
LEMMA OthersKept ==
    ASSUME ConnInv, NEW c \in DOMAIN conn, DOMAIN conn' = DOMAIN conn,
           \A d \in DOMAIN conn : d # c => conn'[d] = conn[d],
           \A d \in DOMAIN conn : d # c => (d = client <=> d = client'),
           c = client \/ (UNCHANGED sender),
           /\ conn'[c].up = "rst" => conn'[c].out = <<>>
           /\ ~conn'[c].late => InStep(c)'
    PROVE  ConnInv'
<1> SUFFICES ASSUME NEW d \in DOMAIN conn, d # c
             PROVE  /\ conn'[d].up = "rst" => conn'[d].out = <<>>
                    /\ ~conn'[d].late => InStep(d)'
  BY DEF ConnInv
<1>1. conn'[d].up = "rst" => conn'[d].out = <<>>
  BY DEF ConnInv
<1>2. ASSUME ~conn[d].late PROVE InStep(d)'
  <2>1. InStep(d)
    BY <1>2 DEF ConnInv
  <2>2. CASE c = client
    <3>1. d # client /\ d # client'
      BY <2>2
    <3>2. conn[d].out = <<>> /\ (conn[d].up = "up" => conn[d].in = <<>>)
      BY <2>1, <3>1 DEF InStep
    <3>3. conn'[d].out = <<>> /\ (conn'[d].up = "up" => conn'[d].in = <<>>)
      BY <3>2
    <3>4. QED
      BY <3>1, <3>3 DEF InStep
  <2>3. CASE UNCHANGED sender
    BY <2>1, <2>3 DEF InStep
  <2>4. QED
    BY <2>2, <2>3
<1>3. QED
  BY <1>1, <1>2

\* A step that leaves the connections alone, and the sender outside of a read or
\* where it is.
LEMMA ConnSame ==
    ASSUME ConnInv, UNCHANGED <<conn, client>>,
           UNCHANGED sender \/ (sender.pc # "read" /\ sender'.pc # "read")
    PROVE  ConnInv'
<1> SUFFICES ASSUME NEW d \in DOMAIN conn, ~conn[d].late PROVE InStep(d)'
  BY DEF ConnInv
<1>1. InStep(d)
  BY DEF ConnInv
<1>2. CASE UNCHANGED sender
  BY <1>1, <1>2 DEF InStep
<1>3. CASE sender.pc # "read" /\ sender'.pc # "read"
  <2>1. conn[d].out = <<>> /\ (conn[d].up = "up" => conn[d].in = <<>>)
    BY <1>1, <1>3 DEF InStep
  <2>2. QED
    BY <1>3, <2>1 DEF InStep
<1>4. QED
  BY <1>2, <1>3

-----------------------------------------------------------------------------
(* The steps of the callers, the context and close().                      *)

\* A step that changes calls and the queue; an answer returned is the call's.
LEMMA CallerStep ==
    ASSUME ReconnectInv, UNCHANGED <<conn, client, sender, answer, served>>,
           requests' \in Seq(Calls), DOMAIN call' = Calls,
           \A r \in Calls :
              /\ IsCall(call'[r])
              /\ call'[r].result = "ok" =>
                    \/ call[r].result = "ok" /\ call'[r].of = call[r].of
                    \/ answer[r].err = "ok" /\ call'[r].of = answer[r].of
    PROVE  ReconnectInv'
<1>1. TypeInv'
  BY DEF ReconnectInv, TypeInv
<1>2. ConnInv'
  BY ConnSame DEF ReconnectInv
<1>3. OwnInv'
  BY DEF ReconnectInv, OwnInv, NoneLate
<1>4. QED
  BY <1>1, <1>2, <1>3 DEF ReconnectInv

\* A call returns.
LEMMA Returned ==
    ASSUME TypeInv, NEW r \in Calls, NEW err, NEW of, Return(r, err, of)
    PROVE  /\ DOMAIN call' = Calls /\ \A s \in Calls : s # r => call'[s] = call[s]
           /\ IsCall(call'[r]) /\ call'[r].result = err /\ call'[r].of = of
           /\ call'[r].pc = "done"
<1>1. DOMAIN call = Calls /\ IsCall(call[r])
  BY DEF TypeInv
<1>2. DOMAIN call' = Calls /\ \A s \in Calls : s # r => call'[s] = call[s]
  BY <1>1 DEF Return
<1>3. call'[r] = [call[r] EXCEPT !.pc = "done", !.result = err, !.of = of]
  BY <1>1 DEF Return
<1>4. call'[r] = [pc |-> "done", ctx |-> call[r].ctx, over |-> call[r].over,
                  result |-> err, of |-> of]
  BY <1>1, <1>3 DEF IsCall
<1>5. QED
  BY <1>2, <1>4 DEF IsCall

\* A call goes on.
LEMMA Moved ==
    ASSUME TypeInv, NEW r \in Calls, NEW pc, call' = [call EXCEPT ![r].pc = pc]
    PROVE  /\ DOMAIN call' = Calls /\ \A s \in Calls : s # r => call'[s] = call[s]
           /\ IsCall(call'[r]) /\ call'[r].result = call[r].result /\ call'[r].of = call[r].of
           /\ call'[r].pc = pc
<1>1. DOMAIN call = Calls /\ IsCall(call[r])
  BY DEF TypeInv
<1>2. DOMAIN call' = Calls /\ \A s \in Calls : s # r => call'[s] = call[s]
  BY <1>1
<1>3. call'[r] = [call[r] EXCEPT !.pc = pc]
  BY <1>1
<1>4. call'[r] = [pc |-> pc, ctx |-> call[r].ctx, over |-> call[r].over,
                  result |-> call[r].result, of |-> call[r].of]
  BY <1>1, <1>3 DEF IsCall
<1>5. QED
  BY <1>2, <1>4 DEF IsCall

\* A call returns an error, or goes on.
LEMMA ErrorOrOn ==
    ASSUME ReconnectInv, NEW r \in Calls, NEW pc,
           UNCHANGED <<conn, client, sender, answer, served>>, requests' \in Seq(Calls),
           \/ \E err \in {"closed", "over", "full"} : Return(r, err, "none")
           \/ call' = [call EXCEPT ![r].pc = pc]
    PROVE  ReconnectInv'
<1>1. TypeInv
  BY DEF ReconnectInv
<1>2. /\ DOMAIN call' = Calls /\ \A s \in Calls : s # r => call'[s] = call[s]
      /\ IsCall(call'[r])
      /\ \/ call'[r].result \in {"closed", "over", "full"}
         \/ call'[r].result = call[r].result /\ call'[r].of = call[r].of
  <2>1. CASE \E err \in {"closed", "over", "full"} : Return(r, err, "none")
    BY <1>1, <2>1, Returned
  <2>2. CASE call' = [call EXCEPT ![r].pc = pc]
    BY <1>1, <2>2, Moved
  <2>3. QED
    BY <2>1, <2>2
<1>3. \A s \in Calls : IsCall(call[s])
  BY <1>1 DEF TypeInv
<1>4. ASSUME NEW s \in Calls
      PROVE  /\ IsCall(call'[s])
             /\ call'[s].result = "ok" => call[s].result = "ok" /\ call'[s].of = call[s].of
  BY <1>2, <1>3
<1>5. QED
  BY <1>2, <1>4, CallerStep

LEMMA CheckKeeps ==
    ASSUME ReconnectInv, NEW r \in Calls, Check(r) PROVE ReconnectInv'
<1>1. requests' \in Seq(Calls) /\ UNCHANGED <<conn, client, sender, answer, served>>
  BY DEF ReconnectInv, TypeInv, Check, reconVars
<1>2. \/ \E err \in {"closed", "over", "full"} : Return(r, err, "none")
      \/ call' = [call EXCEPT ![r].pc = "checked"]
  BY DEF Check
<1>3. QED
  BY <1>1, <1>2, ErrorOrOn

LEMMA TrySendKeeps ==
    ASSUME ReconnectInv, NEW r \in Calls, TrySend(r) PROVE ReconnectInv'
<1>a. requests \in Seq(Calls)
  BY DEF ReconnectInv, TypeInv
<1>1. requests' \in Seq(Calls) /\ UNCHANGED <<conn, client, sender, answer, served>>
  BY <1>a DEF TrySend
<1>2. \/ \E err \in {"closed", "over", "full"} : Return(r, err, "none")
      \/ call' = [call EXCEPT ![r].pc = "waiting"]
  BY DEF TrySend
<1>3. QED
  BY <1>1, <1>2, ErrorOrOn

LEMMA WaitTopKeeps ==
    ASSUME ReconnectInv, NEW r \in Calls, WaitTop(r) PROVE ReconnectInv'
<1>1. requests' \in Seq(Calls) /\ UNCHANGED <<conn, client, sender, answer, served>>
  BY DEF ReconnectInv, TypeInv, WaitTop, reconVars
<1>2. \/ \E err \in {"closed", "over", "full"} : Return(r, err, "none")
      \/ call' = [call EXCEPT ![r].pc = "blocked"]
  BY DEF WaitTop
<1>3. QED
  BY <1>1, <1>2, ErrorOrOn

LEMMA WaitEndKeeps ==
    ASSUME ReconnectInv, NEW r \in Calls, WaitEnd(r) PROVE ReconnectInv'
<1>1. /\ TypeInv /\ requests' \in Seq(Calls)
      /\ UNCHANGED <<conn, client, sender, answer, served>>
  BY DEF ReconnectInv, TypeInv, WaitEnd, reconVars
<1>2. CASE Return(r, "over", "none")
  <2>1. \E err \in {"closed", "over", "full"} : Return(r, err, "none")
    BY <1>2
  <2>2. QED
    BY <1>1, <2>1, ErrorOrOn
<1>3. CASE Return(r, answer[r].err, answer[r].of)
  <2>1. /\ DOMAIN call' = Calls /\ \A s \in Calls : s # r => call'[s] = call[s]
        /\ IsCall(call'[r]) /\ call'[r].result = answer[r].err /\ call'[r].of = answer[r].of
    BY <1>1, <1>3, Returned
  <2>2. \A s \in Calls : IsCall(call[s])
    BY <1>1 DEF TypeInv
  <2>3. ASSUME NEW s \in Calls
        PROVE  /\ IsCall(call'[s])
               /\ call'[s].result = "ok" =>
                    \/ call[s].result = "ok" /\ call'[s].of = call[s].of
                    \/ answer[s].err = "ok" /\ call'[s].of = answer[s].of
    BY <2>1, <2>2
  <2>4. QED
    BY <1>1, <2>1, <2>3, CallerStep
<1>4. QED
  BY <1>2, <1>3 DEF WaitEnd

LEMMA ContextOverKeeps ==
    ASSUME ReconnectInv, NEW r \in Calls, ContextOver(r), UNCHANGED reconVars
    PROVE  ReconnectInv'
<1>1. /\ TypeInv /\ requests' \in Seq(Calls) /\ DOMAIN call = Calls
      /\ \A s \in Calls : IsCall(call[s])
      /\ UNCHANGED <<conn, client, sender, answer, served>>
      /\ call' = [call EXCEPT ![r].over = TRUE]
  BY DEF ReconnectInv, TypeInv, ContextOver, reconVars
<1>2. DOMAIN call' = Calls /\ \A s \in Calls : s # r => call'[s] = call[s]
  BY <1>1
<1>3. call'[r] = [call[r] EXCEPT !.over = TRUE]
  BY <1>1
<1>4. call'[r] = [pc |-> call[r].pc, ctx |-> call[r].ctx, over |-> TRUE,
                  result |-> call[r].result, of |-> call[r].of]
  <2>1. ASSUME NEW a, NEW x, IsCall(a)
        PROVE  [a EXCEPT !.over = x] = [pc |-> a.pc, ctx |-> a.ctx, over |-> x,
                                        result |-> a.result, of |-> a.of]
    BY <2>1 DEF IsCall
  <2>2. QED
    BY <1>1, <1>3, <2>1
<1>5. IsCall(call'[r]) /\ call'[r].result = call[r].result /\ call'[r].of = call[r].of
  BY <1>4 DEF IsCall
<1>6. ASSUME NEW s \in Calls
      PROVE  /\ IsCall(call'[s])
             /\ call'[s].result = "ok" => call[s].result = "ok" /\ call'[s].of = call[s].of
  BY <1>1, <1>2, <1>5
<1>7. QED
  BY <1>1, <1>2, <1>6, CallerStep

\* close() up to the join leaves the connections, the sender and the calls alone.
LEMMA CloseKeeps ==
    ASSUME ReconnectInv, CloseSwap \/ CloseSend PROVE ReconnectInv'
<1>1. /\ UNCHANGED <<conn, client, sender, answer, served, call, requests>>
      /\ requests \in Seq(Calls) /\ DOMAIN call = Calls /\ \A r \in Calls : IsCall(call[r])
  BY DEF CloseSwap, CloseSend, clientVars, ReconnectInv, TypeInv
<1>2. QED
  BY <1>1, CallerStep

-----------------------------------------------------------------------------
(* The steps of the sender.                                                *)

\* A request is answered, with a result only if it is its own.
LEMMA Answered ==
    ASSUME TypeInv, NEW r \in Calls, NEW err, NEW of, Answer(r, err, of)
    PROVE  /\ DOMAIN answer' = Calls /\ \A s \in Calls : s # r => answer'[s] = answer[s]
           /\ answer'[r] = [err |-> err, of |-> of] /\ sender' = Idle
BY DEF TypeInv, Answer

\* Where the sender is after its step, and what it has answered.
SenderOK ==
    /\ sender' = [pc |-> sender'.pc, req |-> sender'.req, tries |-> sender'.tries,
                  attempt |-> sender'.attempt]
    /\ sender'.pc \in Busy => sender'.req \in Calls
    /\ DOMAIN answer' = Calls
    /\ \A r \in Calls : /\ answer'[r] = [err |-> answer'[r].err, of |-> answer'[r].of]
                        /\ answer'[r].err = "ok" /\ NoneLate =>
                               \/ answer'[r].of = r
                               \/ answer[r].err = "ok" /\ answer'[r].of = answer[r].of

\* The sender answers a request: with an error, or with what a read returned.
LEMMA AnswerOK ==
    ASSUME TypeInv, NEW r \in Calls, NEW err, NEW of, Answer(r, err, of),
           err = "ok" /\ NoneLate => of = r
    PROVE  SenderOK /\ sender' = Idle
<1>1. /\ DOMAIN answer' = Calls /\ \A s \in Calls : s # r => answer'[s] = answer[s]
      /\ answer'[r] = [err |-> err, of |-> of] /\ sender' = Idle
  BY Answered
<1>2. /\ answer'[r].err = err /\ answer'[r].of = of
      /\ answer'[r] = [err |-> answer'[r].err, of |-> answer'[r].of]
  BY <1>1
<1>3. ASSUME NEW s \in Calls
      PROVE  /\ answer'[s] = [err |-> answer'[s].err, of |-> answer'[s].of]
             /\ answer'[s].err = "ok" /\ NoneLate =>
                    \/ answer'[s].of = s
                    \/ answer[s].err = "ok" /\ answer'[s].of = answer[s].of
  BY <1>1, <1>2 DEF TypeInv
<1>4. /\ sender' = [pc |-> sender'.pc, req |-> sender'.req, tries |-> sender'.tries,
                    attempt |-> sender'.attempt]
      /\ sender'.pc \notin Busy
  BY <1>1 DEF Idle, Busy
<1>5. QED
  BY <1>1, <1>3, <1>4 DEF SenderOK

\* The sender goes on to another place with a request.
LEMMA SenderMoves ==
    ASSUME TypeInv, UNCHANGED answer, NEW pc, NEW req, NEW tries, NEW attempt,
           sender' = [pc |-> pc, req |-> req, tries |-> tries, attempt |-> attempt],
           pc \in Busy => req \in Calls
    PROVE  SenderOK /\ sender'.pc = pc /\ sender'.req = req
BY DEF SenderOK, TypeInv

\* A step of the sender that leaves connections and client alone, outside of a read.
LEMMA QuietSenderStep ==
    ASSUME ReconnectInv, UNCHANGED <<conn, client, call, served>>, SenderOK,
           requests' \in Seq(Calls), sender.pc # "read", sender'.pc # "read",
           sender'.pc = "write" => client # 0
    PROVE  ReconnectInv'
<1>1. TypeInv'
  BY DEF ReconnectInv, TypeInv, SenderOK, OnClient
<1>2. ConnInv'
  BY ConnSame DEF ReconnectInv
<1>3. OwnInv'
  BY DEF ReconnectInv, OwnInv, NoneLate, SenderOK
<1>4. QED
  BY <1>1, <1>2, <1>3 DEF ReconnectInv

LEMMA SelectRequestKeeps ==
    ASSUME ReconnectInv, SelectRequest PROVE ReconnectInv'
<1>1. /\ TypeInv /\ requests \in Seq(Calls) /\ sender.pc = "select" /\ requests # <<>>
      /\ requests' = Tail(requests) /\ UNCHANGED <<conn, client, call, served>>
  BY DEF ReconnectInv, TypeInv, SelectRequest, senderKeeps
<1>2. Head(requests) \in Calls /\ requests' \in Seq(Calls)
  BY <1>1
<1>3. CASE \E err \in {"over", "closed"} : Answer(Head(requests), err, "none")
  <2>1. SenderOK /\ sender' = Idle
    BY <1>1, <1>2, <1>3, AnswerOK
  <2>2. sender'.pc = "select"
    BY <2>1 DEF Idle
  <2>3. QED
    BY <1>1, <1>2, <2>1, <2>2, QuietSenderStep
<1>4. CASE /\ sender' = [pc |-> "write", req |-> Head(requests), tries |-> 1, attempt |-> 0]
           /\ UNCHANGED answer /\ client # 0
  <2>1. SenderOK /\ sender'.pc = "write"
    BY <1>1, <1>2, <1>4, SenderMoves
  <2>2. QED
    BY <1>1, <1>2, <1>4, <2>1, QuietSenderStep
<1>5. QED
  BY <1>3, <1>4 DEF SelectRequest

LEMMA SelectShutdownKeeps ==
    ASSUME ReconnectInv, SelectShutdown PROVE ReconnectInv'
<1>1. /\ TypeInv /\ requests' \in Seq(Calls) /\ sender.pc = "select"
      /\ UNCHANGED <<conn, client, call, served, answer>>
      /\ sender' = [pc |-> "drain", req |-> sender.req, tries |-> sender.tries,
                    attempt |-> sender.attempt]
  BY DEF ReconnectInv, TypeInv, SelectShutdown, clientVars
<1>2. SenderOK /\ sender'.pc = "drain"
  BY <1>1, SenderMoves DEF Busy
<1>3. QED
  BY <1>1, <1>2, QuietSenderStep

LEMMA DrainKeeps ==
    ASSUME ReconnectInv, Drain PROVE ReconnectInv'
<1>1. /\ TypeInv /\ requests \in Seq(Calls) /\ sender.pc = "drain"
      /\ UNCHANGED <<conn, client, call, served>>
      /\ sender = [pc |-> sender.pc, req |-> sender.req, tries |-> sender.tries,
                   attempt |-> sender.attempt]
  BY DEF ReconnectInv, TypeInv, Drain, senderKeeps
<1>2. CASE requests = <<>>
  <2>1. /\ UNCHANGED <<requests, answer>>
        /\ sender' = [pc |-> "gone", req |-> sender.req, tries |-> sender.tries,
                      attempt |-> sender.attempt]
    BY <1>1, <1>2 DEF Drain
  <2>2. SenderOK /\ sender'.pc = "gone"
    BY <1>1, <2>1, SenderMoves DEF Busy
  <2>3. QED
    BY <1>1, <2>1, <2>2, QuietSenderStep
<1>3. CASE requests # <<>>
  <2>1. Head(requests) \in Calls /\ Tail(requests) \in Seq(Calls)
    BY <1>1, <1>3
  <2>2. /\ answer' = [answer EXCEPT ![Head(requests)] = [err |-> "closed", of |-> "none"]]
        /\ requests' = Tail(requests) /\ UNCHANGED sender
    BY <1>3 DEF Drain
  <2>3. /\ DOMAIN answer' = Calls
        /\ answer'[Head(requests)] = [err |-> "closed", of |-> "none"]
        /\ \A s \in Calls : s # Head(requests) => answer'[s] = answer[s]
    BY <1>1, <2>1, <2>2 DEF TypeInv
  <2>4. ASSUME NEW s \in Calls
        PROVE  /\ answer'[s] = [err |-> answer'[s].err, of |-> answer'[s].of]
               /\ answer'[s].err = "ok" =>
                      answer[s].err = "ok" /\ answer'[s].of = answer[s].of
    BY <1>1, <2>3 DEF TypeInv
  <2>5. SenderOK
    BY <1>1, <2>2, <2>3, <2>4 DEF SenderOK, Busy
  <2>6. QED
    BY <1>1, <2>1, <2>2, <2>5, QuietSenderStep
<1>4. QED
  BY <1>2, <1>3

LEMMA SleepKeeps ==
    ASSUME ReconnectInv, Sleep PROVE ReconnectInv'
<1>1. /\ TypeInv /\ requests' \in Seq(Calls) /\ sender.pc = "sleep" /\ sender.req \in Calls
      /\ UNCHANGED <<conn, client, call, served>>
      /\ sender = [pc |-> sender.pc, req |-> sender.req, tries |-> sender.tries,
                   attempt |-> sender.attempt]
  BY DEF ReconnectInv, TypeInv, Sleep, senderKeeps, Busy
<1>2. CASE \E err \in {"over", "closed"} : Answer(sender.req, err, "none")
  <2>1. SenderOK /\ sender' = Idle
    BY <1>1, <1>2, AnswerOK
  <2>2. sender'.pc = "select"
    BY <2>1 DEF Idle
  <2>3. QED
    BY <1>1, <2>1, <2>2, QuietSenderStep
<1>3. CASE sender' = [sender EXCEPT !.pc = "check"] /\ UNCHANGED answer
  <2>1. sender' = [pc |-> "check", req |-> sender.req, tries |-> sender.tries,
                   attempt |-> sender.attempt]
    BY <1>1, <1>3
  <2>2. SenderOK /\ sender'.pc = "check"
    BY <1>1, <1>3, <2>1, SenderMoves
  <2>3. QED
    BY <1>1, <2>2, QuietSenderStep
<1>4. QED
  BY <1>2, <1>3 DEF Sleep

\* A step that changes connection c, and the sender if c is the current one.
LEMMA ConnStep ==
    ASSUME ReconnectInv, NEW c \in DOMAIN conn, NEW new \in Connection,
           conn' = [conn EXCEPT ![c] = new],
           client' = client \/ (client' = 0 /\ c = client),
           UNCHANGED <<call, requests>>,
           DOMAIN served' = Calls, \A r \in Calls : served'[r] \in Nat,
           (UNCHANGED <<sender, answer>> /\ client' = client) \/ (c = client /\ SenderOK),
           sender'.pc \in OnClient => client' # 0,
           conn[c].late => new.late,
           new.up = "rst" => new.out = <<>>, ~new.late => InStep(c)'
    PROVE  ReconnectInv'
<1>1. TypeInv /\ ConnInv /\ OwnInv /\ conn \in Seq(Connection)
  BY DEF ReconnectInv, TypeInv
<1>2. /\ conn' \in Seq(Connection) /\ Len(conn') = Len(conn) /\ DOMAIN conn' = DOMAIN conn
      /\ conn'[c] = new /\ \A d \in DOMAIN conn : d # c => conn'[d] = conn[d]
  BY <1>1, ConnUpdated
<1>3. DOMAIN conn = 1 .. Len(conn) /\ Len(conn) \in Nat
  BY <1>1, LenProperties
<1>4. TypeInv'
  <2>1. client' \in 0 .. Len(conn')
    BY <1>1, <1>2, <1>3 DEF TypeInv
  <2>2. QED
    BY <1>1, <1>2, <2>1 DEF TypeInv, SenderOK
<1>5. ConnInv'
  <2>1. \A d \in DOMAIN conn : d # c => (d = client <=> d = client')
    BY <1>3
  <2>2. c = client \/ UNCHANGED sender
    OBVIOUS
  <2>3. QED
    BY <1>1, <1>2, <2>1, <2>2, OthersKept
<1>6. OwnInv'
  <2> SUFFICES ASSUME NoneLate' PROVE OwnInv'
    BY DEF OwnInv
  <2>1. NoneLate
    BY <1>2 DEF NoneLate
  <2>2. QED
    BY <1>1, <2>1 DEF OwnInv, SenderOK
<1>7. QED
  BY <1>4, <1>5, <1>6 DEF ReconnectInv

\* What the sender does with the result of an operation.
LEMMA OpEndsOK ==
    ASSUME TypeInv, sender.req \in Calls, NEW err, NEW of, OpEnds(err, of),
           err = "ok" /\ NoneLate => of = sender.req
    PROVE  SenderOK /\ sender'.pc \in {"select", "check"}
<1>1. CASE Answer(sender.req, err, of)
  <2>1. SenderOK /\ sender' = Idle
    BY <1>1, AnswerOK
  <2>2. QED
    BY <2>1 DEF Idle
<1>2. CASE sender' = [sender EXCEPT !.pc = "check", !.attempt = 1] /\ UNCHANGED answer
  <2>1. sender' = [pc |-> "check", req |-> sender.req, tries |-> sender.tries, attempt |-> 1]
    BY <1>2 DEF TypeInv
  <2>2. QED
    BY <1>2, <2>1, SenderMoves
<1>3. QED
  BY <1>1, <1>2 DEF OpEnds

\* The facts a step of the sender on its client starts from.
LEMMA OnClientFacts ==
    ASSUME ReconnectInv, sender.pc \in OnClient
    PROVE  /\ TypeInv /\ conn \in Seq(Connection) /\ client \in DOMAIN conn /\ client # 0
           /\ sender.req \in Calls /\ requests \in Seq(Calls)
           /\ DOMAIN served = Calls /\ \A r \in Calls : served[r] \in Nat
           /\ sender = [pc |-> sender.pc, req |-> sender.req, tries |-> sender.tries,
                        attempt |-> sender.attempt]
<1>1. TypeInv /\ conn \in Seq(Connection) /\ client \in 0 .. Len(conn) /\ client # 0
  BY DEF ReconnectInv, TypeInv
<1>2. DOMAIN conn = 1 .. Len(conn) /\ Len(conn) \in Nat
  BY <1>1, LenProperties
<1>3. client \in DOMAIN conn
  BY <1>1, <1>2
<1>4. QED
  BY <1>1, <1>3 DEF TypeInv, OnClient, Busy

LEMMA RunWriteKeeps ==
    ASSUME ReconnectInv, RunWrite PROVE ReconnectInv'
<1> DEFINE err == WriteError(client, sender.req)
<1>1. sender.pc = "write" /\ UNCHANGED <<call, served, requests, client>>
  BY DEF RunWrite, senderKeeps
<1>2. /\ TypeInv /\ conn \in Seq(Connection) /\ client \in DOMAIN conn /\ client # 0
      /\ sender.req \in Calls /\ requests \in Seq(Calls)
      /\ DOMAIN served = Calls /\ \A r \in Calls : served[r] \in Nat
      /\ sender = [pc |-> sender.pc, req |-> sender.req, tries |-> sender.tries,
                   attempt |-> sender.attempt]
  BY <1>1, OnClientFacts DEF OnClient
<1>3. CASE err = "none"
  <2> DEFINE new == [up |-> conn[client].up, in |-> Append(conn[client].in, sender.req),
                     out |-> conn[client].out, late |-> conn[client].late]
  <2>1. /\ conn[client] = [up |-> conn[client].up, in |-> conn[client].in,
                           out |-> conn[client].out, late |-> conn[client].late]
        /\ conn[client].up = "up" /\ conn[client].late \in BOOLEAN
        /\ conn[client].in \in Seq(Calls) /\ conn[client].out \in Seq(Frame)
    BY <1>2, <1>3, ConnFields DEF WriteError
  <2>2. /\ conn' = [conn EXCEPT ![client].in = Append(@, sender.req)]
        /\ sender' = [sender EXCEPT !.pc = "read"] /\ UNCHANGED answer
    BY <1>3 DEF RunWrite, WriteFrame
  <2>3. conn' = [conn EXCEPT ![client] = new]
    <3>1. conn' = [conn EXCEPT ![client] =
                      [conn[client] EXCEPT !.in = Append(conn[client].in, sender.req)]]
      BY <2>2
    <3>2. [conn[client] EXCEPT !.in = Append(conn[client].in, sender.req)] = new
      BY <1>2, ConnFields, FieldsChanged
    <3> HIDE DEF new
    <3>3. QED
      BY <3>1, <3>2
  <2>4. new \in Connection
    BY <1>2, <2>1 DEF Connection
  <2>5. sender' = [pc |-> "read", req |-> sender.req, tries |-> sender.tries,
                   attempt |-> sender.attempt]
    BY <1>2, <2>2
  <2>6. SenderOK /\ sender'.pc = "read" /\ sender'.req = sender.req
    BY <1>2, <2>2, <2>5, SenderMoves
  <2>7. conn'[client] = new
    BY <1>2, <2>3, <2>4, ConnUpdated
  <2>8. ASSUME ~new.late PROVE InStep(client)'
    <3>1. conn[client].in = <<>> /\ conn[client].out = <<>>
      BY <1>1, <1>2, <2>1, <2>8 DEF ReconnectInv, ConnInv, InStep
    <3>2. new.in = <<sender.req>> /\ new.out = <<>> /\ new.up = "up"
      BY <2>1, <3>1
    <3>3. Len(new.in) + Len(new.out) = 1 /\ \A i \in DOMAIN new.in : new.in[i] = sender.req
      <4> HIDE DEF new
      <4>1. Len(new.in) = 1 /\ Len(new.out) = 0 /\ DOMAIN new.in = {1} /\ new.in[1] = sender.req
        BY <3>2
      <4>2. QED
        BY <4>1
    <3>4. QED
      BY <1>1, <2>6, <2>7, <3>2, <3>3 DEF InStep
  <2> HIDE DEF new
  <2>9. new.up # "rst" /\ (conn[client].late => new.late)
    BY <2>1 DEF new
  <2>10. QED
    BY <1>1, <1>2, <2>3, <2>4, <2>6, <2>8, <2>9, ConnStep
<1>4. CASE err # "none"
  <2>1. OpEnds(err, "none") /\ UNCHANGED conn /\ err # "ok"
    BY <1>4 DEF RunWrite, WriteError
  <2>2. SenderOK /\ sender'.pc \in {"select", "check"}
    BY <1>2, <2>1, OpEndsOK
  <2>3. QED
    BY <1>1, <1>2, <2>1, <2>2, QuietSenderStep
<1>5. QED
  BY <1>3, <1>4

LEMMA RunReadKeeps ==
    ASSUME ReconnectInv, RunRead PROVE ReconnectInv'
<1> DEFINE c == client
           err == FrameRead(client).err
           of == FrameRead(client).of
<1>1. /\ sender.pc = "read" /\ UNCHANGED <<call, served, requests, client>>
      /\ ReadFrame(c) /\ OpEnds(err, of)
  BY DEF RunRead, senderKeeps
<1>2. /\ TypeInv /\ conn \in Seq(Connection) /\ c \in DOMAIN conn /\ c # 0
      /\ sender.req \in Calls /\ requests \in Seq(Calls)
      /\ DOMAIN served = Calls /\ \A r \in Calls : served[r] \in Nat
  BY <1>1, OnClientFacts DEF OnClient
<1>3. /\ conn[c] \in Connection /\ conn[c].up \in {"up", "fin", "rst"} /\ conn[c].late \in BOOLEAN
      /\ conn[c].in \in Seq(Calls) /\ conn[c].out \in Seq(Frame)
      /\ conn[c] = [up |-> conn[c].up, in |-> conn[c].in, out |-> conn[c].out,
                    late |-> conn[c].late]
  BY <1>2, ConnFields
<1>4. ~conn[c].late => InStep(c)
  BY <1>2 DEF ReconnectInv, ConnInv
<1>5. NoneLate => ~conn[c].late
  BY <1>2 DEF NoneLate
<1>6. CASE conn[c].out # <<>>
  <2>1. /\ err = IF Head(conn[c].out).ok THEN "ok" ELSE "server"
        /\ of = Head(conn[c].out).of
    BY <1>6 DEF FrameRead
  <2>2. ~conn[c].late => /\ Len(conn[c].out) = 1 /\ conn[c].out[1].of = sender.req
                         /\ conn[c].up = "up" => Len(conn[c].in) + Len(conn[c].out) = 1
    BY <1>1, <1>4, <1>6 DEF InStep
  <2>3. ~conn[c].late => /\ of = sender.req /\ Tail(conn[c].out) = <<>>
                         /\ conn[c].up = "up" => conn[c].in = <<>>
    <3> SUFFICES ASSUME ~conn[c].late
                 PROVE  /\ of = sender.req /\ Tail(conn[c].out) = <<>>
                        /\ conn[c].up = "up" => conn[c].in = <<>>
      OBVIOUS
    <3>1. Head(conn[c].out) = conn[c].out[1] /\ Tail(conn[c].out) = <<>>
      BY <1>3, <1>6, <2>2, OneFrame
    <3>2. conn[c].up = "up" => Len(conn[c].in) = 0
      <4>1. Len(conn[c].in) \in Nat
        BY <1>3, LenProperties
      <4>2. Len(conn[c].out) = 1 /\ (conn[c].up = "up" => Len(conn[c].in) + Len(conn[c].out) = 1)
        BY <2>2
      <4>3. \A i \in Nat : \A o : i + o = 1 /\ o = 1 => i = 0
        OBVIOUS
      <4>4. QED
        BY <4>1, <4>2, <4>3
    <3>3. conn[c].up = "up" => conn[c].in = <<>>
      BY <1>3, <3>2, OneFrame
    <3>4. QED
      BY <2>1, <2>2, <3>1, <3>3
  <2>4. SenderOK /\ sender'.pc \in {"select", "check"}
    <3> HIDE DEF c, err, of
    <3>1. err = "ok" /\ NoneLate => of = sender.req
      BY <1>5, <2>3
    <3>2. QED
      BY <1>1, <1>2, <3>1, OpEndsOK
  <2> DEFINE new == [up |-> conn[c].up, in |-> conn[c].in, out |-> Tail(conn[c].out),
                     late |-> conn[c].late]
  <2>5. conn' = [conn EXCEPT ![c] = new]
    <3>1. conn' = [conn EXCEPT ![c] = [conn[c] EXCEPT !.out = Tail(conn[c].out)]]
      BY <1>1, <1>6 DEF ReadFrame
    <3>2. [conn[c] EXCEPT !.out = Tail(conn[c].out)] = new
      BY <1>3, FieldsChanged
    <3> HIDE DEF new
    <3>3. QED
      BY <3>1, <3>2
  <2>6. new \in Connection
    BY <1>3, <1>6 DEF Connection
  <2>7. conn'[c] = new
    BY <1>2, <2>5, <2>6, ConnUpdated
  <2>8. ASSUME ~new.late PROVE InStep(c)'
    <3>1. conn'[c].out = <<>> /\ (conn'[c].up = "up" => conn'[c].in = <<>>)
      BY <2>3, <2>7, <2>8
    <3>2. sender'.pc # "read" /\ c' = c
      BY <1>1, <2>4
    <3>3. QED
      BY <3>1, <3>2 DEF InStep
  <2>9. new.up = "rst" => new.out = <<>>
    BY <1>2, <1>6 DEF ReconnectInv, ConnInv
  <2>10. conn[c].late => new.late
    OBVIOUS
  <2> HIDE DEF new
  <2>11. QED
    BY <1>1, <1>2, <2>4, <2>5, <2>6, <2>8, <2>9, <2>10, ConnStep DEF OnClient
<1>7. CASE conn[c].out = <<>>
  <2>1. err # "ok"
    BY <1>3, <1>7 DEF FrameRead
  <2>2. SenderOK /\ sender'.pc \in {"select", "check"}
    BY <1>1, <1>2, <2>1, OpEndsOK
  <2>3. ASSUME NEW new \in Connection, conn' = [conn EXCEPT ![c] = new],
               new.out = <<>>, conn[c].late => new.late, ~new.late => new.up # "up"
        PROVE  ReconnectInv'
    <3>1. conn'[c] = new
      BY <1>2, <2>3, ConnUpdated
    <3>2. ASSUME ~new.late PROVE InStep(c)'
      BY <1>1, <2>2, <2>3, <3>1, <3>2 DEF InStep
    <3>3. QED
      BY <1>1, <1>2, <2>2, <2>3, <3>2, ConnStep DEF OnClient
  <2>4. CASE conn[c].up = "up"
    <3> DEFINE new == [up |-> conn[c].up, in |-> conn[c].in, out |-> conn[c].out, late |-> TRUE]
    <3>1. conn' = [conn EXCEPT ![c] = [conn[c] EXCEPT !.late = TRUE]]
      BY <1>1, <1>7, <2>4 DEF ReadFrame
    <3>2. conn' = [conn EXCEPT ![c] = new]
      <4>1. [conn[c] EXCEPT !.late = TRUE] = new
        BY <1>3, FieldsChanged
      <4> HIDE DEF new
      <4>2. QED
        BY <3>1, <4>1
    <3>3. new \in Connection
      BY <1>3 DEF Connection
    <3>4. new.out = <<>> /\ new.late
      BY <1>7
    <3> HIDE DEF new
    <3>5. QED
      BY <2>3, <3>2, <3>3, <3>4
  <2>5. CASE conn[c].up # "up"
    <3>1. conn' = conn
      BY <1>1, <1>7, <2>5 DEF ReadFrame
    <3>2. [conn EXCEPT ![c] = conn[c]] = conn
      <4>1. DOMAIN conn = 1 .. Len(conn) /\ conn \in [1 .. Len(conn) -> Connection]
        BY <1>2, LenProperties
      <4>2. QED
        BY <4>1, <1>2
    <3>3. QED
      BY <1>3, <1>7, <2>3, <2>5, <3>1, <3>2
  <2>6. QED
    BY <2>4, <2>5
<1>8. QED
  BY <1>6, <1>7

\* The client closes connection c, which is the current one, and forgets it.
LEMMA CloseConnStep ==
    ASSUME ReconnectInv, client # 0, client' = 0, conn' = ClosedConn(client), SenderOK,
           UNCHANGED <<call, requests, served>>, sender'.pc \notin OnClient
    PROVE  ReconnectInv'
<1> DEFINE new == [up |-> "rst", in |-> conn[client].in, out |-> <<>>, late |-> conn[client].late]
<1>1. TypeInv /\ conn \in Seq(Connection) /\ client \in 0 .. Len(conn)
      /\ DOMAIN served = Calls /\ \A r \in Calls : served[r] \in Nat
  BY DEF ReconnectInv, TypeInv
<1>2. DOMAIN conn = 1 .. Len(conn) /\ Len(conn) \in Nat
  BY <1>1, LenProperties
<1>3. client \in DOMAIN conn
  BY <1>1, <1>2
<1>4. /\ conn[client] \in Connection /\ conn[client].late \in BOOLEAN
      /\ conn[client].in \in Seq(Calls)
  BY <1>1, <1>3, ConnFields
<1>5. conn' = [conn EXCEPT ![client] = new]
  <2>1. conn' = [conn EXCEPT ![client] = [conn[client] EXCEPT !.up = "rst", !.out = <<>>]]
    BY DEF ClosedConn
  <2>2. [conn[client] EXCEPT !.up = "rst", !.out = <<>>] = new
    BY <1>4, UpOutChanged, Zenon
  <2> HIDE DEF new
  <2>3. QED
    BY <2>1, <2>2
<1>6. new \in Connection
  <2>1. <<>> \in Seq(Frame)
    BY EmptySeq
  <2>2. QED
    BY <1>4, <2>1 DEF Connection
<1>7. conn'[client] = new
  BY <1>1, <1>3, <1>5, <1>6, ConnUpdated
<1>8. ASSUME NEW c, c = client PROVE InStep(c)'
  <2>1. conn'[c].up = "rst" /\ conn'[c].out = <<>>
    BY <1>7, <1>8
  <2>2. QED
    BY <2>1 DEF InStep
<1>9. new.up = "rst" /\ new.out = <<>> /\ (conn[client].late => new.late)
  OBVIOUS
<1> HIDE DEF new
<1>10. ASSUME NEW c, c = client PROVE ReconnectInv'
  <2>1. c \in DOMAIN conn /\ conn' = [conn EXCEPT ![c] = new]
    BY <1>3, <1>5, <1>10
  <2>2. InStep(c)' /\ (conn[c].late => new.late)
    BY <1>8, <1>9, <1>10
  <2>3. QED
    BY <1>1, <1>6, <1>9, <1>10, <2>1, <2>2, ConnStep
<1>11. QED
  BY <1>10

LEMMA ReconnectCheckKeeps ==
    ASSUME ReconnectInv, ReconnectCheck PROVE ReconnectInv'
<1>1. /\ TypeInv /\ sender.pc = "check" /\ sender.req \in Calls /\ requests' \in Seq(Calls)
      /\ UNCHANGED <<call, served, requests>>
      /\ sender = [pc |-> sender.pc, req |-> sender.req, tries |-> sender.tries,
                   attempt |-> sender.attempt]
  BY DEF ReconnectInv, TypeInv, ReconnectCheck, senderKeeps, Busy
<1>2. CASE Answer(sender.req, "closed", "none") /\ UNCHANGED <<conn, client>>
  <2>1. SenderOK /\ sender' = Idle
    BY <1>1, <1>2, AnswerOK
  <2>2. sender'.pc = "select"
    BY <2>1 DEF Idle
  <2>3. QED
    BY <1>1, <1>2, <2>1, <2>2, QuietSenderStep
<1>3. CASE /\ sender' = [sender EXCEPT !.pc = "dial"] /\ client' = 0
           /\ conn' = IF client = 0 THEN conn ELSE ClosedConn(client)
           /\ UNCHANGED answer
  <2>1. sender' = [pc |-> "dial", req |-> sender.req, tries |-> sender.tries,
                   attempt |-> sender.attempt]
    BY <1>1, <1>3
  <2>2. SenderOK /\ sender'.pc = "dial"
    BY <1>1, <1>3, <2>1, SenderMoves
  <2>3. CASE client = 0
    BY <1>1, <1>3, <2>2, <2>3, QuietSenderStep
  <2>4. CASE client # 0
    <3>1. sender'.pc \notin OnClient
      BY <2>2 DEF OnClient
    <3>2. QED
      BY <1>1, <1>3, <2>2, <2>4, <3>1, CloseConnStep
  <2>5. QED
    BY <2>3, <2>4
<1>4. QED
  BY <1>2, <1>3 DEF ReconnectCheck

LEMMA CloseJoinKeeps ==
    ASSUME ReconnectInv, CloseJoin PROVE ReconnectInv'
<1>1. /\ TypeInv /\ sender.pc = "gone" /\ client' = 0 /\ requests' \in Seq(Calls)
      /\ conn' = IF client = 0 THEN conn ELSE ClosedConn(client)
      /\ UNCHANGED <<call, served, requests, answer, sender>>
  BY DEF ReconnectInv, TypeInv, CloseJoin
<1>2. SenderOK
  BY <1>1 DEF SenderOK, TypeInv
<1>3. CASE client = 0
  BY <1>1, <1>2, <1>3, QuietSenderStep
<1>4. CASE client # 0
  BY <1>1, <1>2, <1>4, CloseConnStep DEF OnClient
<1>5. QED
  BY <1>3, <1>4

\* Connections outside of a read: none has an answer on its way, and one that is
\* up has no request either.
LEMMA IdleConns ==
    ASSUME ReconnectInv, sender.pc # "read", NEW d \in DOMAIN conn, ~conn[d].late
    PROVE  conn[d].out = <<>> /\ (conn[d].up = "up" => conn[d].in = <<>>)
BY DEF ReconnectInv, ConnInv, InStep

LEMMA DialOkKeeps ==
    ASSUME ReconnectInv, sender.pc = "dial", DialOk, client' = Len(conn) + 1,
           sender' = [sender EXCEPT !.pc = "write", !.tries = 2],
           UNCHANGED <<answer, call, served, requests>>
    PROVE  ReconnectInv'
<1>1. /\ TypeInv /\ conn \in Seq(Connection) /\ sender.req \in Calls
      /\ conn' = Append(conn, FreshConn)
      /\ sender = [pc |-> sender.pc, req |-> sender.req, tries |-> sender.tries,
                   attempt |-> sender.attempt]
  BY DEF ReconnectInv, TypeInv, Busy, DialOk
<1>2. FreshConn \in Connection
  <2>1. <<>> \in Seq(Calls) /\ <<>> \in Seq(Frame)
    BY EmptySeq
  <2>2. QED
    BY <2>1 DEF FreshConn, Connection
<1>3. /\ conn' \in Seq(Connection) /\ Len(conn') = Len(conn) + 1 /\ Len(conn) \in Nat
      /\ DOMAIN conn = 1 .. Len(conn) /\ DOMAIN conn' = 1 .. Len(conn) + 1
      /\ conn'[Len(conn) + 1] = FreshConn
      /\ \A d \in 1 .. Len(conn) : conn'[d] = conn[d]
  BY <1>1, <1>2, AppendProperties, LenProperties
<1>4. sender' = [pc |-> "write", req |-> sender.req, tries |-> 2, attempt |-> sender.attempt]
  <2>1. ASSUME NEW a, a = [pc |-> a.pc, req |-> a.req, tries |-> a.tries, attempt |-> a.attempt]
        PROVE  [a EXCEPT !.pc = "write"] =
                   [pc |-> "write", req |-> a.req, tries |-> a.tries, attempt |-> a.attempt]
    BY <2>1
  <2>2. [sender EXCEPT !.pc = "write", !.tries = 2] =
            [[sender EXCEPT !.pc = "write"] EXCEPT !.tries = 2]
    OBVIOUS
  <2>3. \A b, r, t, n : b = [pc |-> "write", req |-> r, tries |-> t, attempt |-> n] =>
                [b EXCEPT !.tries = 2] = [pc |-> "write", req |-> r, tries |-> 2, attempt |-> n]
    OBVIOUS
  <2>4. QED
    BY <1>1, <2>1, <2>2, <2>3
<1>5. SenderOK /\ sender'.pc = "write" /\ sender'.req = sender.req
  BY <1>1, <1>4, SenderMoves
<1>6. TypeInv'
  <2>1. client' \in 0 .. Len(conn') /\ client' # 0
    BY <1>3
  <2>2. QED
    BY <1>1, <1>3, <1>5, <2>1 DEF TypeInv, SenderOK
<1>7. ConnInv'
  <2> SUFFICES ASSUME NEW d \in 1 .. Len(conn) + 1
               PROVE  /\ conn'[d].up = "rst" => conn'[d].out = <<>>
                      /\ ~conn'[d].late => InStep(d)'
    BY <1>3 DEF ConnInv
  <2>1. CASE d \in 1 .. Len(conn)
    <3>1. d \in DOMAIN conn /\ conn'[d] = conn[d]
      BY <1>3, <2>1
    <3>2. conn'[d].up = "rst" => conn'[d].out = <<>>
      BY <3>1 DEF ReconnectInv, ConnInv
    <3>3. ASSUME ~conn'[d].late PROVE InStep(d)'
      <4>1. conn'[d].out = <<>> /\ (conn'[d].up = "up" => conn'[d].in = <<>>)
        BY <3>1, <3>3, IdleConns
      <4>2. QED
        BY <1>5, <4>1 DEF InStep
    <3>4. QED
      BY <3>2, <3>3
  <2>2. CASE d = Len(conn) + 1
    <3>1. conn'[d] = FreshConn
      BY <1>3, <2>2
    <3>2. conn'[d].up = "up" /\ conn'[d].in = <<>> /\ conn'[d].out = <<>>
      BY <3>1 DEF FreshConn
    <3>3. QED
      BY <1>5, <3>2 DEF InStep
  <2>3. QED
    BY <1>3, <2>1, <2>2
<1>8. OwnInv'
  <2> SUFFICES ASSUME NoneLate' PROVE OwnInv'
    BY DEF OwnInv
  <2>1. NoneLate
    BY <1>3 DEF NoneLate
  <2>2. QED
    BY <2>1 DEF ReconnectInv, OwnInv
<1>9. QED
  BY <1>6, <1>7, <1>8 DEF ReconnectInv

LEMMA ReconnectDialKeeps ==
    ASSUME ReconnectInv, ReconnectDial PROVE ReconnectInv'
<1>1. /\ TypeInv /\ sender.pc = "dial" /\ sender.req \in Calls /\ requests' \in Seq(Calls)
      /\ UNCHANGED <<call, served, requests>>
      /\ sender = [pc |-> sender.pc, req |-> sender.req, tries |-> sender.tries,
                   attempt |-> sender.attempt]
  BY DEF ReconnectInv, TypeInv, ReconnectDial, senderKeeps, Busy
<1>2. CASE /\ DialOk /\ client' = Len(conn) + 1
           /\ sender' = [sender EXCEPT !.pc = "write", !.tries = 2] /\ UNCHANGED answer
  BY <1>1, <1>2, DialOkKeeps
<1>3. CASE /\ sender' = [sender EXCEPT !.pc = "sleep", !.attempt = @ + 1]
           /\ UNCHANGED <<answer, client, conn>>
  <2>1. sender' = [pc |-> "sleep", req |-> sender.req, tries |-> sender.tries,
                   attempt |-> sender.attempt + 1]
    <3>1. \A a, p, r, t, n : a = [pc |-> p, req |-> r, tries |-> t, attempt |-> n] =>
             [a EXCEPT !.pc = "sleep"] = [pc |-> "sleep", req |-> r, tries |-> t, attempt |-> n]
      OBVIOUS
    <3>2. \A a, m : a = [pc |-> "sleep", req |-> sender.req, tries |-> sender.tries,
                         attempt |-> sender.attempt] =>
             [a EXCEPT !.attempt = m] = [pc |-> "sleep", req |-> sender.req,
                                         tries |-> sender.tries, attempt |-> m]
      OBVIOUS
    <3>3. sender' = [[sender EXCEPT !.pc = "sleep"] EXCEPT !.attempt = sender.attempt + 1]
      BY <1>3
    <3>4. [sender EXCEPT !.pc = "sleep"] =
             [pc |-> "sleep", req |-> sender.req, tries |-> sender.tries,
              attempt |-> sender.attempt]
      BY <1>1, <3>1
    <3>5. QED
      BY <3>2, <3>3, <3>4
  <2>2. SenderOK /\ sender'.pc = "sleep"
    BY <1>1, <1>3, <2>1, SenderMoves
  <2>3. QED
    BY <1>1, <1>3, <2>2, QuietSenderStep
<1>4. CASE Answer(sender.req, "broken", "none") /\ UNCHANGED <<client, conn>>
  <2>1. SenderOK /\ sender' = Idle
    BY <1>1, <1>4, AnswerOK
  <2>2. sender'.pc = "select"
    BY <2>1 DEF Idle
  <2>3. QED
    BY <1>1, <1>4, <2>1, <2>2, QuietSenderStep
<1>5. QED
  BY <1>2, <1>3, <1>4 DEF ReconnectDial, DialFails

-----------------------------------------------------------------------------
(* The steps of the network.                                               *)

\* A step of the network changes one connection, and what was served.
LEMMA NetworkStep ==
    ASSUME ReconnectInv, NEW c \in DOMAIN conn, NEW new \in Connection,
           conn' = [conn EXCEPT ![c] = new], UNCHANGED reconVars, UNCHANGED call,
           DOMAIN served' = Calls, \A r \in Calls : served'[r] \in Nat,
           conn[c].late => new.late,
           new.up = "rst" => new.out = <<>>, ~new.late => InStep(c)'
    PROVE  ReconnectInv'
<1>1. UNCHANGED <<client, sender, answer, requests>>
  BY DEF reconVars
<1>2. sender'.pc \in OnClient => client' # 0
  BY <1>1 DEF ReconnectInv, TypeInv
<1>3. QED
  BY <1>1, <1>2, ConnStep

LEMMA BreakKeeps ==
    ASSUME ReconnectInv, NEW c \in DOMAIN conn, NEW how \in {"fin", "rst"}, Break(c, how),
           UNCHANGED reconVars
    PROVE  ReconnectInv'
<1>1. /\ conn \in Seq(Connection) /\ DOMAIN served' = Calls /\ \A r \in Calls : served'[r] \in Nat
      /\ UNCHANGED <<call, served>> /\ UNCHANGED <<client, sender>> /\ conn[c].up = "up"
  BY DEF ReconnectInv, TypeInv, Break, reconVars
<1>2. /\ conn[c] \in Connection /\ conn[c].late \in BOOLEAN
      /\ conn[c].in \in Seq(Calls) /\ conn[c].out \in Seq(Frame)
  BY <1>1, ConnFields
<1>3. PICK left \in {<<>>, conn[c].in} :
          conn' = [conn EXCEPT ![c].up = how, ![c].in = left,
                      ![c].out = IF how = "rst" THEN <<>> ELSE conn[c].out]
  BY DEF Break
<1> DEFINE rest == IF how = "rst" THEN <<>> ELSE conn[c].out
           new == [up |-> how, in |-> left, out |-> rest, late |-> conn[c].late]
<1>4. left \in Seq(Calls) /\ rest \in Seq(Frame)
  BY <1>2, EmptySeq
<1>5. new \in Connection
  BY <1>2, <1>4 DEF Connection
<1>6. conn' = [conn EXCEPT ![c] = new]
  <2> HIDE DEF new
  <2>1. conn' = [conn EXCEPT ![c] = [conn[c] EXCEPT !.up = how, !.in = left, !.out = rest]]
    BY <1>3
  <2>2. [conn[c] EXCEPT !.up = how, !.in = left, !.out = rest] = new
    <3> HIDE DEF rest
    <3>1. conn[c] \in Connection
      BY <1>2
    <3>2. \A x, y, z : [conn[c] EXCEPT !.up = x, !.in = y, !.out = z] =
                          [up |-> x, in |-> y, out |-> z, late |-> conn[c].late]
      BY <3>1, UpInOutChanged, Zenon
    <3>3. QED
      BY <3>2, Zenon DEF new
  <2>3. QED
    BY <2>1, <2>2
<1>7. conn'[c] = new
  BY <1>1, <1>5, <1>6, ConnUpdated
<1>8. ASSUME ~new.late PROVE InStep(c)'
  <2>1. InStep(c)
    BY <1>8 DEF ReconnectInv, ConnInv
  <2>2. conn'[c].up # "up" /\ conn'[c].out \in {<<>>, conn[c].out}
    BY <1>7
  <2>3. conn'[c].out # <<>> => /\ c = client' /\ sender'.pc = "read"
                               /\ Len(conn'[c].out) = 1 /\ conn'[c].out[1].of = sender'.req
    BY <1>1, <2>1, <2>2 DEF InStep
  <2>4. QED
    BY <2>2, <2>3 DEF InStep
<1>9. (conn[c].late => new.late) /\ (new.up = "rst" => new.out = <<>>)
  OBVIOUS
<1> HIDE DEF new
<1>10. QED
  BY <1>1, <1>5, <1>6, <1>8, <1>9, NetworkStep

LEMMA ServeKeeps ==
    ASSUME ReconnectInv, NEW c \in DOMAIN conn, Serve(c), UNCHANGED reconVars
    PROVE  ReconnectInv'
<1> DEFINE r == Head(conn[c].in)
<1>1. /\ conn \in Seq(Connection) /\ DOMAIN served = Calls /\ \A s \in Calls : served[s] \in Nat
      /\ UNCHANGED call /\ UNCHANGED <<client, sender>> /\ conn[c].in # <<>>
  BY DEF ReconnectInv, TypeInv, Serve, reconVars
<1>2. /\ conn[c] \in Connection /\ conn[c].late \in BOOLEAN /\ conn[c].up \in {"up", "fin", "rst"}
      /\ conn[c].in \in Seq(Calls) /\ conn[c].out \in Seq(Frame)
  BY <1>1, ConnFields
<1>3. /\ r = conn[c].in[1] /\ r \in Calls /\ Tail(conn[c].in) \in Seq(Calls)
      /\ Len(Tail(conn[c].in)) = Len(conn[c].in) - 1 /\ Len(conn[c].in) \in Nat
      /\ Len(conn[c].in) = 1 => Tail(conn[c].in) = <<>>
      /\ Len(conn[c].in) # 0
  BY <1>1, <1>2, OneFrame
<1>4. PICK ok \in BOOLEAN :
        /\ served' = IF ok THEN [served EXCEPT ![r] = @ + 1] ELSE served
        /\ conn' = [conn EXCEPT ![c].in = Tail(@),
                       ![c].out = IF conn[c].up = "up"
                                  THEN Append(@, [of |-> r, ok |-> ok]) ELSE @]
  BY DEF Serve
<1>5. DOMAIN served' = Calls /\ \A s \in Calls : served'[s] \in Nat
  BY <1>1, <1>3, <1>4
<1> DEFINE fr == [of |-> r, ok |-> ok]
           rest == IF conn[c].up = "up" THEN Append(conn[c].out, fr) ELSE conn[c].out
           new == [up |-> conn[c].up, in |-> Tail(conn[c].in), out |-> rest, late |-> conn[c].late]
<1>6. fr \in Frame /\ fr.of = r
  BY <1>3 DEF Frame
<1> HIDE DEF fr
<1>7. rest \in Seq(Frame)
  BY <1>2, <1>6, AppendProperties
<1>8. new \in Connection
  BY <1>2, <1>3, <1>7 DEF Connection
<1>9. conn' = [conn EXCEPT ![c] = new]
  <2> HIDE DEF new
  <2>1. conn' = [conn EXCEPT ![c] = [conn[c] EXCEPT !.in = Tail(conn[c].in), !.out = rest]]
    BY <1>4 DEF fr
  <2>2. [conn[c] EXCEPT !.in = Tail(conn[c].in), !.out = rest] = new
    <3> HIDE DEF rest
    <3>1. conn[c] \in Connection
      BY <1>2
    <3>2. QED
      BY <3>1, InOutChanged, Zenon DEF new
  <2>3. QED
    BY <2>1, <2>2
<1>10. conn'[c] = new
  BY <1>1, <1>8, <1>9, ConnUpdated
<1>11. ASSUME ~new.late PROVE InStep(c)'
  <2>1. InStep(c)
    BY <1>11 DEF ReconnectInv, ConnInv
  <2>2. CASE conn[c].up = "up"
    <3>1. /\ c = client /\ sender.pc = "read" /\ Len(conn[c].in) + Len(conn[c].out) = 1
          /\ \A i \in DOMAIN conn[c].in : conn[c].in[i] = sender.req
      BY <1>1, <2>1, <2>2 DEF InStep
    <3>2. Len(conn[c].in) = 1 /\ Len(conn[c].out) = 0
      <4>1. Len(conn[c].in) \in Nat /\ Len(conn[c].out) \in Nat /\ Len(conn[c].in) # 0
        BY <1>2, <1>3, LenProperties
      <4>2. \A i, o \in Nat : i + o = 1 /\ i # 0 => i = 1 /\ o = 0
        OBVIOUS
      <4>3. QED
        BY <3>1, <4>1, <4>2
    <3>3. r = sender.req
      <4>1. 1 \in DOMAIN conn[c].in
        BY <1>2, <3>2, LenProperties
      <4>2. QED
        BY <1>3, <3>1, <4>1
    <3>4. conn[c].out = <<>>
      BY <1>2, <3>2, EmptySeq
    <3>5. conn'[c].in = <<>> /\ conn'[c].out = <<fr>> /\ conn'[c].up = "up"
      <4> HIDE DEF r
      <4>1. Tail(conn[c].in) = <<>>
        BY <1>3, <3>2
      <4>2. QED
        BY <1>10, <2>2, <3>4, <4>1
    <3>6. /\ Len(conn'[c].in) + Len(conn'[c].out) = 1
          /\ \A i \in DOMAIN conn'[c].in : conn'[c].in[i] = sender'.req
          /\ Len(conn'[c].out) = 1 /\ conn'[c].out[1].of = sender'.req
      <4>1. Len(conn'[c].in) = 0 /\ DOMAIN conn'[c].in = {} /\ Len(conn'[c].out) = 1
            /\ conn'[c].out[1] = fr
        BY <3>5
      <4>2. QED
        BY <1>1, <1>6, <3>3, <4>1
    <3>7. c = client' /\ sender'.pc = "read"
      BY <1>1, <3>1
    <3>8. QED
      BY <3>6, <3>7 DEF InStep
  <2>3. CASE conn[c].up # "up"
    <3>1. conn'[c].up # "up" /\ conn'[c].out = conn[c].out
      BY <1>10, <2>3
    <3>2. QED
      BY <1>1, <2>1, <3>1 DEF InStep
  <2>4. QED
    BY <2>2, <2>3
<1>12. conn[c].late => new.late
  OBVIOUS
<1>13. new.up = "rst" => new.out = <<>>
  BY DEF ReconnectInv, ConnInv
<1> HIDE DEF new
<1>14. QED
  BY <1>1, <1>5, <1>8, <1>9, <1>11, <1>12, <1>13, NetworkStep

-----------------------------------------------------------------------------
(* The theorem.                                                            *)

LEMMA ReconnectInitHolds ==
    ReconnectInit => ReconnectInv
<1> SUFFICES ASSUME ReconnectInit PROVE ReconnectInv
  OBVIOUS
<1>1. /\ conn = <<FreshConn>> /\ client = 1 /\ requests = <<>> /\ sender = Idle
      /\ answer = [r \in Calls |-> NoAnswer] /\ served = [r \in Calls |-> 0]
      /\ call = [r \in Calls |-> [pc |-> "new", ctx |-> ContextOf[r], over |-> FALSE,
                                  result |-> "none", of |-> "none"]]
  BY DEF ReconnectInit, ClientInit
<1>2. FreshConn \in Connection
  <2>1. <<>> \in Seq(Calls) /\ <<>> \in Seq(Frame)
    BY EmptySeq
  <2>2. QED
    BY <2>1 DEF FreshConn, Connection
<1>3. conn \in Seq(Connection) /\ Len(conn) = 1 /\ DOMAIN conn = {1} /\ conn[1] = FreshConn
  BY <1>1, <1>2
<1>4. TypeInv
  <2>1. requests \in Seq(Calls)
    BY <1>1, EmptySeq
  <2>2. ASSUME NEW r \in Calls
        PROVE  /\ IsCall(call[r]) /\ answer[r] = [err |-> answer[r].err, of |-> answer[r].of]
               /\ served[r] \in Nat
    BY <1>1 DEF IsCall, NoAnswer
  <2>3. sender = [pc |-> sender.pc, req |-> sender.req, tries |-> sender.tries,
                  attempt |-> sender.attempt] /\ sender.pc \notin Busy /\ sender.pc \notin OnClient
    BY <1>1 DEF Idle, Busy, OnClient
  <2>4. client \in 0 .. Len(conn)
    BY <1>1, <1>3
  <2>5. QED
    BY <1>1, <1>3, <2>1, <2>2, <2>3, <2>4 DEF TypeInv
<1>5. ConnInv
  <2>1. conn[1].up = "up" /\ conn[1].in = <<>> /\ conn[1].out = <<>> /\ sender.pc # "read"
    BY <1>1, <1>3 DEF FreshConn, Idle
  <2>2. QED
    BY <1>3, <2>1 DEF ConnInv, InStep
<1>6. OwnInv
  BY <1>1 DEF OwnInv, NoAnswer
<1>7. QED
  BY <1>4, <1>5, <1>6 DEF ReconnectInv

LEMMA ReconnectStepKeeps ==
    ReconnectInv /\ [ReconnectNext]_reconnectVars => ReconnectInv'
<1> SUFFICES ASSUME ReconnectInv, [ReconnectNext]_reconnectVars PROVE ReconnectInv'
  OBVIOUS
<1>1. ASSUME NEW r \in Calls, Caller(r) \/ (ContextOver(r) /\ UNCHANGED reconVars)
      PROVE  ReconnectInv'
  BY <1>1, CheckKeeps, TrySendKeeps, WaitTopKeeps, WaitEndKeeps, ContextOverKeeps DEF Caller
<1>2. CASE SenderThread
  BY <1>2, SelectRequestKeeps, SelectShutdownKeeps, DrainKeeps, RunWriteKeeps, RunReadKeeps,
     ReconnectCheckKeeps, ReconnectDialKeeps, SleepKeeps DEF SenderThread
<1>3. CASE Closer
  BY <1>3, CloseKeeps, CloseJoinKeeps DEF Closer
<1>4. CASE Network
  BY <1>4, ServeKeeps, BreakKeeps DEF Network
<1>5. CASE UNCHANGED reconnectVars
  <2>1. /\ UNCHANGED <<conn, client, sender, answer, served, call, requests>>
        /\ requests \in Seq(Calls) /\ DOMAIN call = Calls /\ \A r \in Calls : IsCall(call[r])
    BY <1>5 DEF reconnectVars, reconVars, clientVars, ReconnectInv, TypeInv
  <2>2. QED
    BY <2>1, CallerStep
<1>6. QED
  BY <1>1, <1>2, <1>3, <1>4, <1>5 DEF ReconnectNext

LEMMA InvImpliesMatch ==
    ReconnectInv => AnswersMatch
<1> SUFFICES ASSUME ReconnectInv PROVE AnswersMatch
  OBVIOUS
<1>1. ASSUME NEW c \in DOMAIN conn, ~conn[c].late, conn[c].up = "up",
             conn[c].in \o conn[c].out # <<>>
      PROVE  /\ c = client /\ sender.pc = "read"
             /\ Len(conn[c].in) + Len(conn[c].out) = 1
             /\ \A f \in Range(conn[c].out) : f.of = sender.req
  <2>1. InStep(c) /\ conn[c].in \in Seq(Calls) /\ conn[c].out \in Seq(Frame)
    BY <1>1, ConnFields DEF ReconnectInv, ConnInv, TypeInv
  <2>2. c = client /\ sender.pc = "read"
    <3>1. ASSUME ~(c = client /\ sender.pc = "read") PROVE FALSE
      <4>1. conn[c].in = <<>> /\ conn[c].out = <<>>
        BY <1>1, <2>1, <3>1 DEF InStep
      <4>2. <<>> \o <<>> = <<>>
        OBVIOUS
      <4>3. QED
        BY <1>1, <4>1, <4>2
    <3>2. QED
      BY <3>1
  <2>3. Len(conn[c].in) + Len(conn[c].out) = 1
    BY <1>1, <2>1, <2>2 DEF InStep
  <2>4. ASSUME NEW f \in Range(conn[c].out) PROVE f.of = sender.req
    <3>1. PICK i \in DOMAIN conn[c].out : f = conn[c].out[i]
      BY <2>4 DEF Range
    <3>2. DOMAIN conn[c].out = 1 .. Len(conn[c].out)
      BY <2>1, LenProperties
    <3>3. conn[c].out # <<>>
      BY <3>1
    <3>4. Len(conn[c].out) = 1 /\ conn[c].out[1].of = sender.req
      BY <2>1, <3>3 DEF InStep
    <3>5. i = 1
      BY <3>1, <3>2, <3>4
    <3>6. QED
      BY <3>1, <3>4, <3>5
  <2>5. QED
    BY <2>2, <2>3, <2>4
<1>2. (\A c \in DOMAIN conn : ~conn[c].late) => OwnAnswers
  BY DEF ReconnectInv, OwnInv, NoneLate, OwnAnswers
<1>3. QED
  BY <1>1, <1>2 DEF AnswersMatch

\* The answers of the reconnecting client belong to the requests they are
\* returned for: whatever callers, the sender thread (reconnect.rs, sender_loop
\* and process_request), close(), the server and the network do, a frame on its
\* way on a connection that is up is the answer to the request the sender waits
\* for, unless a read has timed out on that connection; and as long as none has,
\* every operation that returned a result returned its own.
THEOREM AnswersCorrect == ReconnectSpec => []AnswersMatch
<1>1. ReconnectSpec => []ReconnectInv
  BY ReconnectInitHolds, ReconnectStepKeeps, PTL DEF ReconnectSpec
<1>2. QED
  BY <1>1, InvImpliesMatch, PTL

-----------------------------------------------------------------------------
(* How often a request is carried out.                                     *)

\* A request that was not queued yet, or never will be; one in the queue; the
\* one the sender has.
Fresh(r) == call[r].pc \in {"new", "checked"} \/ call[r].result = "full"
Queued(r) == \E i \in DOMAIN requests : requests[i] = r
Held(r) == sender.pc \in Busy /\ sender.req = r

\* A request is in one place.
PlaceInv ==
    /\ \A r \in Calls :
          /\ Fresh(r) => ~Queued(r) /\ ~Held(r)
          /\ Queued(r) => ~Held(r)
          /\ call[r].result = "full" => call[r].pc = "done"
          /\ answer[r].err # "full"
    /\ \A i, j \in DOMAIN requests : requests[i] = requests[j] => i = j

\* The sender runs a request twice at most, the second time on a new connection.
TriesInv ==
    sender.pc \in Busy =>
        /\ sender.tries \in {1, 2}
        /\ sender.tries = 2 => sender.pc \in OnClient /\ Len(conn) > 1

\* The copies the sender has made of its request.
Allowed == IF sender.pc = "write" THEN sender.tries - 1 ELSE sender.tries
CountInv ==
    \A r \in Calls :
        /\ IsFiniteSet(Waiting(conn, r)) /\ Copies(r) <= 2 /\ (Copies(r) = 2 => Len(conn) > 1)
        /\ Fresh(r) \/ Queued(r) => Copies(r) = 0
        /\ Held(r) => Copies(r) <= Allowed

\* A result is of a request that was carried out.
Done(r) == r \in Calls /\ served[r] > 0
DoneInv ==
    /\ \A c \in DOMAIN conn : \A i \in DOMAIN conn[c].out :
          conn[c].out[i].ok => Done(conn[c].out[i].of)
    /\ \A r \in Calls : /\ answer[r].err = "ok" => Done(answer[r].of)
                        /\ call[r].result = "ok" => Done(call[r].of)

\* The client has been connected.
OpenedInv == Len(conn) > 0

RepeatInv == ReconnectInv /\ PlaceInv /\ TriesInv /\ CountInv /\ DoneInv /\ OpenedInv

-----------------------------------------------------------------------------
(* Counting the frames not handled.                                        *)

LEMMA WaitingIs ==
    ASSUME NEW s, NEW r, NEW p
    PROVE  p \in Waiting(s, r) <=>
             \E c \in DOMAIN s : \E i \in DOMAIN s[c].in : p = <<c, i>> /\ s[c].in[i] = r
BY DEF Waiting

\* Frames are lost, or connections without any are added.
LEMMA WaitingFewer ==
    ASSUME NEW s, NEW t, NEW r, IsFiniteSet(Waiting(s, r)),
           \A c \in DOMAIN t : t[c].in = <<>> \/ (c \in DOMAIN s /\ t[c].in = s[c].in)
    PROVE  IsFiniteSet(Waiting(t, r)) /\ Cardinality(Waiting(t, r)) <= Cardinality(Waiting(s, r))
<1>1. ASSUME NEW p \in Waiting(t, r) PROVE p \in Waiting(s, r)
  <2>1. PICK c \in DOMAIN t : \E i \in DOMAIN t[c].in : p = <<c, i>> /\ t[c].in[i] = r
    BY <1>1, WaitingIs
  <2>2. t[c].in # <<>>
    BY <2>1
  <2>3. c \in DOMAIN s /\ t[c].in = s[c].in
    BY <2>2
  <2>4. QED
    BY <2>1, <2>3, WaitingIs
<1>2. QED
  BY <1>1, FS_Subset

\* A frame is written.
LEMMA WaitingWritten ==
    ASSUME NEW s, NEW t, NEW q, NEW c \in DOMAIN s, DOMAIN t = DOMAIN s,
           s[c].in \in Seq(Calls), q \in Calls, t[c].in = Append(s[c].in, q),
           \A d \in DOMAIN s : d # c => t[d].in = s[d].in, NEW r, IsFiniteSet(Waiting(s, r))
    PROVE  /\ IsFiniteSet(Waiting(t, r))
           /\ Cardinality(Waiting(t, r)) <= Cardinality(Waiting(s, r)) + 1
           /\ r # q => Cardinality(Waiting(t, r)) <= Cardinality(Waiting(s, r))
<1> DEFINE last == <<c, Len(s[c].in) + 1>>
<1>1. /\ DOMAIN s[c].in = 1 .. Len(s[c].in) /\ Len(s[c].in) \in Nat
      /\ DOMAIN t[c].in = 1 .. Len(s[c].in) + 1 /\ t[c].in[Len(s[c].in) + 1] = q
      /\ \A i \in 1 .. Len(s[c].in) : t[c].in[i] = s[c].in[i]
  BY LenProperties, AppendProperties
<1>2. ASSUME NEW p \in Waiting(t, r), p \notin Waiting(s, r) PROVE p = last /\ r = q
  <2>1. PICK d \in DOMAIN t : \E i \in DOMAIN t[d].in : p = <<d, i>> /\ t[d].in[i] = r
    BY <1>2, WaitingIs
  <2>2. PICK i \in DOMAIN t[d].in : p = <<d, i>> /\ t[d].in[i] = r
    BY <2>1
  <2>3. d = c
    BY <1>2, <2>1, WaitingIs
  <2>4. i \notin 1 .. Len(s[c].in)
    BY <1>1, <1>2, <2>2, <2>3, WaitingIs
  <2>5. i = Len(s[c].in) + 1
    BY <1>1, <2>2, <2>3, <2>4
  <2>6. QED
    BY <1>1, <2>2, <2>3, <2>5
<1> HIDE DEF last
<1>3. Waiting(t, r) \in SUBSET (Waiting(s, r) \cup {last})
  BY <1>2
<1>4. r # q => Waiting(t, r) \in SUBSET Waiting(s, r)
  BY <1>2
<1>5. /\ IsFiniteSet(Waiting(s, r) \cup {last}) /\ Cardinality(Waiting(s, r)) \in Nat
      /\ Cardinality(Waiting(s, r) \cup {last}) <= Cardinality(Waiting(s, r)) + 1
  <2>1. Cardinality(Waiting(s, r)) \in Nat
    BY FS_CardinalityType
  <2>2. /\ IsFiniteSet(Waiting(s, r) \cup {last})
        /\ Cardinality(Waiting(s, r) \cup {last}) =
              IF last \in Waiting(s, r) THEN Cardinality(Waiting(s, r))
                                        ELSE Cardinality(Waiting(s, r)) + 1
    BY FS_AddElement
  <2>3. QED
    BY <2>1, <2>2
<1>6. /\ IsFiniteSet(Waiting(t, r))
      /\ Cardinality(Waiting(t, r)) <= Cardinality(Waiting(s, r) \cup {last})
  BY <1>3, <1>5, FS_Subset
<1>7. r # q => Cardinality(Waiting(t, r)) <= Cardinality(Waiting(s, r))
  BY <1>4, FS_Subset
<1>8. /\ Cardinality(Waiting(t, r)) \in Nat /\ Cardinality(Waiting(s, r) \cup {last}) \in Nat
  BY <1>5, <1>6, FS_CardinalityType
<1>9. QED
  BY <1>5, <1>6, <1>7, <1>8

\* The first frame of a connection is handled.
LEMMA WaitingServed ==
    ASSUME NEW s, NEW t, NEW c \in DOMAIN s, DOMAIN t = DOMAIN s,
           s[c].in \in Seq(Calls), s[c].in # <<>>, t[c].in = Tail(s[c].in),
           \A d \in DOMAIN s : d # c => t[d].in = s[d].in, NEW r, IsFiniteSet(Waiting(s, r))
    PROVE  /\ IsFiniteSet(Waiting(t, r))
           /\ Cardinality(Waiting(t, r)) <= Cardinality(Waiting(s, r))
           /\ r = Head(s[c].in) => Cardinality(Waiting(t, r)) + 1 <= Cardinality(Waiting(s, r))
<1> DEFINE first == <<c, 1>>
           before == Waiting(s, r) \ {first}
           was(p) == IF p[1] = c THEN <<c, p[2] + 1>> ELSE p
           f == [p \in Waiting(t, r) |-> was(p)]
<1>1. /\ DOMAIN s[c].in = 1 .. Len(s[c].in) /\ Len(s[c].in) \in Nat /\ Len(s[c].in) # 0
      /\ DOMAIN t[c].in = 1 .. Len(s[c].in) - 1 /\ Head(s[c].in) = s[c].in[1]
      /\ \A i \in 1 .. Len(s[c].in) - 1 : t[c].in[i] = s[c].in[i + 1]
  BY LenProperties, HeadTailProperties, EmptySeq
<1>2. ASSUME NEW p \in Waiting(t, r)
      PROVE  /\ was(p) \in before /\ p = <<p[1], p[2]>>
             /\ p[1] = c => p[2] \in Nat
  <2>1. PICK d \in DOMAIN t : \E i \in DOMAIN t[d].in : p = <<d, i>> /\ t[d].in[i] = r
    BY <1>2, WaitingIs
  <2>2. PICK i \in DOMAIN t[d].in : p = <<d, i>> /\ t[d].in[i] = r
    BY <2>1
  <2>3. p[1] = d /\ p[2] = i
    BY <2>2
  <2>4. CASE d = c
    <3>1. i \in Nat /\ i + 1 \in 1 .. Len(s[c].in) /\ i + 1 # 1 /\ s[c].in[i + 1] = r
      <4>1. i \in 1 .. Len(s[c].in) - 1 /\ t[c].in[i] = r
        BY <1>1, <2>2, <2>4
      <4>2. s[c].in[i + 1] = r
        BY <1>1, <4>1
      <4>3. i \in Nat /\ i + 1 \in 1 .. Len(s[c].in) /\ i + 1 # 1
        BY <1>1, <4>1
      <4>4. QED
        BY <4>2, <4>3
    <3>2. <<c, i + 1>> \in Waiting(s, r)
      BY <1>1, <3>1, WaitingIs
    <3>3. <<c, i + 1>> # first
      BY <3>1
    <3>4. was(p) = <<c, i + 1>>
      BY <2>3, <2>4
    <3>5. QED
      BY <2>2, <2>3, <3>1, <3>2, <3>3, <3>4
  <2>5. CASE d # c
    <3>1. p \in Waiting(s, r)
      BY <2>1, <2>2, <2>5, WaitingIs
    <3>2. p # first /\ was(p) = p
      BY <2>2, <2>3, <2>5
    <3>3. QED
      BY <2>2, <2>3, <2>5, <3>1, <3>2
  <2>6. QED
    BY <2>4, <2>5
<1>3. f \in [Waiting(t, r) -> before]
  BY <1>2
<1>4. ASSUME NEW p \in Waiting(t, r), NEW q \in Waiting(t, r), f[p] = f[q] PROVE p = q
  <2>1. was(p) = was(q)
    BY <1>4
  <2>2. was(p)[1] = p[1] /\ was(q)[1] = q[1]
    BY <1>2, <1>4
  <2>3. p[1] = q[1]
    BY <2>1, <2>2
  <2>4. CASE p[1] = c
    <3>1. p[2] + 1 = q[2] + 1 /\ p[2] \in Nat /\ q[2] \in Nat
      BY <1>2, <1>4, <2>1, <2>3, <2>4
    <3>2. p[2] = q[2]
      BY <3>1
    <3>3. QED
      BY <1>2, <1>4, <2>3, <3>2
  <2>5. CASE p[1] # c
    BY <2>1, <2>3, <2>5
  <2>6. QED
    BY <2>4, <2>5
<1> HIDE DEF f, before
<1>5. f \in Injection(Waiting(t, r), before)
  BY <1>3, <1>4 DEF Injection, IsInjective
<1>6. /\ IsFiniteSet(before)
      /\ Cardinality(before) = IF first \in Waiting(s, r) THEN Cardinality(Waiting(s, r)) - 1
                                                          ELSE Cardinality(Waiting(s, r))
  BY FS_RemoveElement DEF before
<1>7. IsFiniteSet(Waiting(t, r)) /\ Cardinality(Waiting(t, r)) <= Cardinality(before)
  BY <1>5, <1>6, FS_Injection
<1>8. /\ Cardinality(Waiting(s, r)) \in Nat /\ Cardinality(Waiting(t, r)) \in Nat
      /\ Cardinality(before) \in Nat
  BY <1>6, <1>7, FS_CardinalityType
<1>9. r = Head(s[c].in) => first \in Waiting(s, r)
  BY <1>1, WaitingIs
<1>10. QED
  BY <1>6, <1>7, <1>8, <1>9

-----------------------------------------------------------------------------
(* The steps of RepeatInv by what they change.                             *)

LEMMA CopiesType ==
    ASSUME NEW r, IsFiniteSet(Waiting(conn, r)), served[r] \in Nat
    PROVE  Copies(r) \in Nat /\ Copies(r) = served[r] + Cardinality(Waiting(conn, r))
BY FS_CardinalityType DEF Copies

\* No copy is made.
LEMMA CountStep ==
    ASSUME CountInv, \A r \in Calls : served[r] \in Nat /\ served'[r] \in Nat,
           \A r \in Calls : /\ IsFiniteSet(Waiting(conn', r))
                            /\ served'[r] + Cardinality(Waiting(conn', r)) <= Copies(r),
           Len(conn) \in Nat, Len(conn') \in Nat, Len(conn) <= Len(conn'),
           \A r \in Calls : (Fresh(r) \/ Queued(r))' => Fresh(r) \/ Queued(r),
           \A r \in Calls : Held(r)' => Allowed' \in Nat /\ Copies(r) <= Allowed'
    PROVE  CountInv'
<1> SUFFICES ASSUME NEW r \in Calls
             PROVE  /\ IsFiniteSet(Waiting(conn', r)) /\ Copies(r)' <= 2
                    /\ Copies(r)' = 2 => Len(conn') > 1
                    /\ (Fresh(r) \/ Queued(r))' => Copies(r)' = 0
                    /\ Held(r)' => Copies(r)' <= Allowed'
  BY DEF CountInv
<1>1. Copies(r) \in Nat
  BY CopiesType DEF CountInv
<1>2. Copies(r)' \in Nat /\ Copies(r)' <= Copies(r)
  <2>1. Cardinality(Waiting(conn', r)) \in Nat
    BY FS_CardinalityType
  <2>2. Copies(r)' = served'[r] + Cardinality(Waiting(conn', r))
    BY DEF Copies
  <2>3. QED
    BY <2>1, <2>2
<1>3. Copies(r) <= 2 /\ (Copies(r) = 2 => Len(conn) > 1)
  BY DEF CountInv
<1>4. Copies(r)' <= 2 /\ (Copies(r)' = 2 => Len(conn') > 1)
  BY <1>1, <1>2, <1>3
<1>5. (Fresh(r) \/ Queued(r))' => Copies(r)' = 0
  <2>1. Fresh(r) \/ Queued(r) => Copies(r) = 0
    BY DEF CountInv
  <2>2. Copies(r) = 0 => Copies(r)' = 0
    BY <1>1, <1>2
  <2>3. QED
    BY <2>1, <2>2
<1>6. Held(r)' => Copies(r)' <= Allowed'
  <2>1. ASSUME Copies(r) <= Allowed', Allowed' \in Nat PROVE Copies(r)' <= Allowed'
    BY <1>1, <1>2, <2>1
  <2>2. QED
    BY <2>1
<1>7. QED
  BY <1>4, <1>5, <1>6

\* A call goes on or returns; nothing else changes.
LEMMA CallRepeats ==
    ASSUME RepeatInv, ReconnectInv', UNCHANGED <<conn, sender, answer, served, requests>>,
           NEW r \in Calls, \A s \in Calls : s # r => call'[s] = call[s],
           Fresh(r)' => Fresh(r),
           call'[r].result = "full" => call'[r].pc = "done",
           call'[r].result = "ok" => Done(call'[r].of)
    PROVE  RepeatInv'
<1>1. TypeInv /\ \A s \in Calls : served[s] \in Nat
  BY DEF RepeatInv, ReconnectInv, TypeInv
<1>2. \A s \in Calls : Fresh(s)' => Fresh(s)
  BY DEF Fresh
<1>3. \A s \in Calls : (Queued(s)' <=> Queued(s)) /\ (Held(s)' <=> Held(s))
  BY DEF Queued, Held
<1>4. PlaceInv'
  BY <1>2, <1>3 DEF RepeatInv, PlaceInv
<1>5. TriesInv'
  BY DEF RepeatInv, TriesInv
<1>6. CountInv'
  <2>1. \A s \in Calls : /\ Copies(s)' = Copies(s) /\ Allowed' = Allowed
                         /\ IsFiniteSet(Waiting(conn', s)) <=> IsFiniteSet(Waiting(conn, s))
    BY DEF Copies, Allowed
  <2>2. Len(conn') = Len(conn)
    OBVIOUS
  <2>3. QED
    BY <1>2, <1>3, <2>1, <2>2 DEF RepeatInv, CountInv
<1>7. DoneInv'
  <2>1. \A x : Done(x)' <=> Done(x)
    BY DEF Done
  <2>2. QED
    BY <2>1 DEF RepeatInv, DoneInv
<1>8. OpenedInv'
  BY DEF RepeatInv, OpenedInv
<1>9. QED
  BY <1>4, <1>5, <1>6, <1>7, <1>8 DEF RepeatInv

\* The queue gives up its first request, or none.
QueueShrinks ==
    \/ requests' = requests
    \/ requests # <<>> /\ requests' = Tail(requests)

LEMMA Shrunk ==
    ASSUME requests \in Seq(Calls), QueueShrinks, PlaceInv
    PROVE  /\ \A r \in Calls : Queued(r)' => Queued(r)
           /\ \A i, j \in DOMAIN requests' : requests'[i] = requests'[j] => i = j
           /\ requests # <<>> => Head(requests) \in Calls /\ Queued(Head(requests))
           /\ requests # <<>> /\ requests' = Tail(requests) =>
                  \A r \in Calls : r = Head(requests) => ~Queued(r)'
<1>1. CASE requests = <<>>
  BY <1>1 DEF QueueShrinks, PlaceInv, Queued
<1>2. CASE requests # <<>>
  <2>1. /\ DOMAIN requests = 1 .. Len(requests) /\ Len(requests) \in Nat /\ Len(requests) # 0
        /\ Head(requests) = requests[1] /\ Head(requests) \in Calls
        /\ DOMAIN Tail(requests) = 1 .. Len(requests) - 1
        /\ \A i \in 1 .. Len(requests) - 1 : Tail(requests)[i] = requests[i + 1]
    BY <1>2, LenProperties, HeadTailProperties, EmptySeq
  <2>2. 1 \in DOMAIN requests /\ Queued(Head(requests))
    BY <2>1 DEF Queued
  <2>3. CASE requests' = requests
    <3>1. requests # Tail(requests)
      <4>1. Len(Tail(requests)) = Len(requests) - 1
        BY <1>2, HeadTailProperties
      <4>2. \A n \in Nat : n # n - 1
        OBVIOUS
      <4>3. QED
        BY <2>1, <4>1, <4>2
    <3>2. QED
      BY <2>1, <2>2, <2>3, <3>1 DEF PlaceInv, Queued
  <2>4. CASE requests' = Tail(requests)
    <3>1. \A i \in DOMAIN requests' : /\ i + 1 \in DOMAIN requests /\ requests'[i] = requests[i + 1]
                                      /\ i \in Nat /\ i + 1 # 1
      <4>1. \A i \in 1 .. Len(requests) - 1 : i + 1 \in 1 .. Len(requests) /\ i \in Nat /\ i + 1 # 1
        BY <2>1
      <4>2. QED
        BY <2>1, <2>4, <4>1
    <3>2. ASSUME NEW i \in DOMAIN requests', NEW j \in DOMAIN requests', requests'[i] = requests'[j]
          PROVE  i = j
      <4>1. i + 1 = j + 1
        BY <3>1, <3>2 DEF PlaceInv
      <4>2. QED
        BY <3>1, <3>2, <4>1
    <3>3. \A r \in Calls : Queued(r)' => Queued(r)
      BY <3>1 DEF Queued
    <3>4. \A r \in Calls : r = Head(requests) => ~Queued(r)'
      <4>1. \A i \in DOMAIN requests' : requests'[i] # requests[1]
        BY <2>2, <3>1 DEF PlaceInv
      <4>2. QED
        BY <2>1, <4>1 DEF Queued
    <3>5. QED
      BY <2>1, <2>2, <3>2, <3>3, <3>4
  <2>5. QED
    BY <2>3, <2>4 DEF QueueShrinks
<1>3. QED
  BY <1>1, <1>2

\* What the sender has after a step: nothing, the first request of the queue, or
\* the request it had, with no more copies of it allowed for than made.
SenderHolds ==
    sender'.pc \in Busy =>
        \/ /\ requests # <<>> /\ requests' = Tail(requests)
           /\ sender'.pc = "write" /\ sender'.req = Head(requests) /\ sender'.tries = 1
        \/ /\ sender.pc \in Busy /\ sender'.req = sender.req
           /\ TriesInv' /\ Allowed \in Nat /\ Allowed' \in Nat /\ Allowed <= Allowed'

\* No connection has a new frame.
NoFrames ==
    /\ Len(conn) <= Len(conn')
    /\ \A c \in DOMAIN conn' :
          /\ conn'[c].in = <<>> \/ (c \in DOMAIN conn /\ conn'[c].in = conn[c].in)
          /\ \/ conn'[c].out = <<>>
             \/ c \in DOMAIN conn /\ conn'[c].out = conn[c].out
             \/ c \in DOMAIN conn /\ conn[c].out # <<>> /\ conn'[c].out = Tail(conn[c].out)

\* A step that makes no copy of a request and carries none out.
LEMMA SenderRepeats ==
    ASSUME RepeatInv, ReconnectInv', UNCHANGED <<call, served>>, QueueShrinks, NoFrames,
           SenderHolds,
           \A r \in Calls : \/ answer'[r] = answer[r] \/ answer'[r].err \notin {"ok", "full"}
                            \/ answer'[r].err = "ok" /\ Done(answer'[r].of)
    PROVE  RepeatInv'
<1>1. /\ conn \in Seq(Connection) /\ conn' \in Seq(Connection) /\ requests \in Seq(Calls)
      /\ \A r \in Calls : served[r] \in Nat /\ served'[r] \in Nat
      /\ PlaceInv /\ TriesInv /\ CountInv /\ DoneInv
  BY DEF RepeatInv, ReconnectInv, TypeInv
<1>2. Len(conn) \in Nat /\ Len(conn') \in Nat
  BY <1>1, LenProperties
<1>3. /\ \A r \in Calls : Queued(r)' => Queued(r)
      /\ \A i, j \in DOMAIN requests' : requests'[i] = requests'[j] => i = j
      /\ requests # <<>> => Head(requests) \in Calls /\ Queued(Head(requests))
      /\ requests # <<>> /\ requests' = Tail(requests) =>
             \A r \in Calls : r = Head(requests) => ~Queued(r)'
  BY <1>1, Shrunk
<1>4. \A r \in Calls : Fresh(r)' <=> Fresh(r)
  BY DEF Fresh
<1>5. ASSUME NEW r \in Calls, Held(r)'
      PROVE  /\ Held(r) \/ (Queued(r) /\ ~Queued(r)')
             /\ Allowed' \in Nat /\ Copies(r) <= Allowed'
  <2>1. sender'.pc \in Busy /\ sender'.req = r
    BY <1>5 DEF Held
  <2>2. CASE /\ requests # <<>> /\ requests' = Tail(requests)
             /\ sender'.pc = "write" /\ sender'.req = Head(requests) /\ sender'.tries = 1
    <3>1. Queued(r) /\ ~Queued(r)'
      BY <1>3, <2>1, <2>2
    <3>2. Copies(r) = 0
      BY <1>1, <3>1 DEF CountInv
    <3>3. Allowed' = 0
      BY <2>2 DEF Allowed
    <3>4. QED
      BY <3>1, <3>2, <3>3
  <2>3. CASE /\ sender.pc \in Busy /\ sender'.req = sender.req
             /\ TriesInv' /\ Allowed \in Nat /\ Allowed' \in Nat /\ Allowed <= Allowed'
    <3>1. Held(r)
      BY <2>1, <2>3 DEF Held
    <3>2. Copies(r) <= Allowed /\ IsFiniteSet(Waiting(conn, r))
      BY <1>1, <3>1 DEF CountInv
    <3>3. Copies(r) \in Nat
      BY <1>1, <3>2, CopiesType
    <3>4. \A x, y, z \in Nat : x <= y /\ y <= z => x <= z
      OBVIOUS
    <3>5. Copies(r) <= Allowed'
      BY <2>3, <3>2, <3>3, <3>4
    <3>6. QED
      BY <2>3, <3>1, <3>5
  <2>4. QED
    BY <2>1, <2>2, <2>3 DEF SenderHolds
<1>6. PlaceInv'
  <2>1. ASSUME NEW r \in Calls
        PROVE  /\ Fresh(r)' => ~Queued(r)' /\ ~Held(r)'
               /\ Queued(r)' => ~Held(r)'
               /\ call'[r].result = "full" => call'[r].pc = "done"
               /\ answer'[r].err # "full"
    <3>1. Fresh(r)' => ~Queued(r)' /\ ~Held(r)'
      BY <1>1, <1>3, <1>4, <1>5 DEF PlaceInv
    <3>2. Queued(r)' => ~Held(r)'
      BY <1>1, <1>3, <1>5 DEF PlaceInv
    <3>3. QED
      BY <1>1, <3>1, <3>2 DEF PlaceInv
  <2>2. QED
    BY <1>3, <2>1 DEF PlaceInv
<1>7. TriesInv'
  BY DEF SenderHolds, TriesInv, OnClient
<1>8. CountInv'
  <2>1. ASSUME NEW r \in Calls
        PROVE  /\ IsFiniteSet(Waiting(conn', r))
               /\ served'[r] + Cardinality(Waiting(conn', r)) <= Copies(r)
    <3>1. IsFiniteSet(Waiting(conn, r))
      BY <1>1 DEF CountInv
    <3>2. /\ IsFiniteSet(Waiting(conn', r))
          /\ Cardinality(Waiting(conn', r)) <= Cardinality(Waiting(conn, r))
      BY <3>1, WaitingFewer DEF NoFrames
    <3>3. Cardinality(Waiting(conn', r)) \in Nat /\ Cardinality(Waiting(conn, r)) \in Nat
      BY <3>1, <3>2, FS_CardinalityType
    <3>4. QED
      BY <1>1, <3>2, <3>3 DEF Copies
  <2>2. \A r \in Calls : (Fresh(r) \/ Queued(r))' => Fresh(r) \/ Queued(r)
    BY <1>3, <1>4
  <2>3. QED
    BY <1>1, <1>2, <1>5, <2>1, <2>2, CountStep DEF NoFrames
<1>9. DoneInv'
  <2>1. \A x : Done(x)' <=> Done(x)
    BY DEF Done
  <2>2. ASSUME NEW c \in DOMAIN conn', NEW i \in DOMAIN conn'[c].out, conn'[c].out[i].ok
        PROVE  Done(conn'[c].out[i].of)
    <3>1. conn'[c].out # <<>>
      BY <2>2
    <3>2. CASE c \in DOMAIN conn /\ conn'[c].out = conn[c].out
      BY <1>1, <2>2, <3>2 DEF DoneInv
    <3>3. CASE c \in DOMAIN conn /\ conn[c].out # <<>> /\ conn'[c].out = Tail(conn[c].out)
      <4>1. conn[c].out \in Seq(Frame)
        BY <1>1, <3>3, ConnFields
      <4>2. i + 1 \in DOMAIN conn[c].out /\ conn'[c].out[i] = conn[c].out[i + 1]
        <5>1. /\ Len(Tail(conn[c].out)) = Len(conn[c].out) - 1 /\ Len(conn[c].out) \in Nat
              /\ Tail(conn[c].out) \in Seq(Frame) /\ DOMAIN conn[c].out = 1 .. Len(conn[c].out)
              /\ \A k \in 1 .. Len(Tail(conn[c].out)) : Tail(conn[c].out)[k] = conn[c].out[k + 1]
          BY <3>3, <4>1, HeadTailProperties, LenProperties
        <5>2. i \in 1 .. Len(conn[c].out) - 1
          BY <2>2, <3>3, <5>1, LenProperties
        <5>3. i + 1 \in 1 .. Len(conn[c].out)
          BY <5>1, <5>2
        <5>4. QED
          BY <3>3, <5>1, <5>2, <5>3
      <4>3. QED
        BY <1>1, <2>2, <3>3, <4>2 DEF DoneInv
    <3>4. QED
      BY <3>1, <3>2, <3>3 DEF NoFrames
  <2>3. \A r \in Calls : /\ answer'[r].err = "ok" => Done(answer'[r].of)
                         /\ call'[r].result = "ok" => Done(call'[r].of)
    BY <1>1 DEF DoneInv
  <2>4. ASSUME NEW c \in DOMAIN conn', NEW i \in DOMAIN conn'[c].out, conn'[c].out[i].ok
        PROVE  Done(conn[c].out[i].of)'
    BY <2>1, <2>2, <2>4 DEF Done
  <2>5. ASSUME NEW r \in Calls
        PROVE  /\ answer'[r].err = "ok" => Done(answer[r].of)'
               /\ call'[r].result = "ok" => Done(call[r].of)'
    BY <2>3, <2>5 DEF Done
  <2>6. QED
    BY <2>4, <2>5 DEF DoneInv
<1>10. OpenedInv'
  BY <1>2 DEF RepeatInv, OpenedInv, NoFrames
<1>11. QED
  BY <1>6, <1>7, <1>8, <1>9, <1>10 DEF RepeatInv

-----------------------------------------------------------------------------
(* The callers.                                                            *)

LEMMA CheckRepeats ==
    ASSUME RepeatInv, NEW r \in Calls, Check(r) PROVE RepeatInv'
<1>1. /\ TypeInv /\ ReconnectInv /\ call[r].pc = "new" /\ Fresh(r)
      /\ UNCHANGED <<conn, sender, answer, served, requests>>
  BY DEF RepeatInv, ReconnectInv, Check, Fresh, reconVars
<1>2. ReconnectInv'
  BY <1>1, CheckKeeps
<1>3. call[r].result # "full" /\ (call[r].result = "ok" => Done(call[r].of))
  BY <1>1 DEF RepeatInv, PlaceInv, DoneInv
<1>4. /\ \A s \in Calls : s # r => call'[s] = call[s]
      /\ call'[r].result # "full" /\ (call'[r].result = "ok" => Done(call'[r].of))
  <2>1. CASE \E err \in {"closed", "over"} : Return(r, err, "none")
    BY <1>1, <2>1, Returned
  <2>2. CASE call' = [call EXCEPT ![r].pc = "checked"]
    <3>1. /\ \A s \in Calls : s # r => call'[s] = call[s]
          /\ call'[r].result = call[r].result /\ call'[r].of = call[r].of
      BY <1>1, <2>2, Moved
    <3>2. QED
      BY <1>3, <3>1
  <2>3. QED
    BY <2>1, <2>2 DEF Check
<1>5. QED
  BY <1>1, <1>2, <1>4, CallRepeats

LEMMA WaitTopRepeats ==
    ASSUME RepeatInv, NEW r \in Calls, WaitTop(r) PROVE RepeatInv'
<1>1. /\ TypeInv /\ ReconnectInv /\ call[r].pc = "waiting"
      /\ UNCHANGED <<conn, sender, answer, served, requests>>
  BY DEF RepeatInv, ReconnectInv, WaitTop, reconVars
<1>2. ReconnectInv'
  BY <1>1, WaitTopKeeps
<1>3. call[r].result # "full" /\ (call[r].result = "ok" => Done(call[r].of))
  BY <1>1 DEF RepeatInv, PlaceInv, DoneInv
<1>4. /\ \A s \in Calls : s # r => call'[s] = call[s]
      /\ call'[r].result # "full" /\ (call'[r].result = "ok" => Done(call'[r].of))
      /\ call'[r].pc \in {"done", "blocked"}
  <2>1. CASE Return(r, "over", "none")
    BY <1>1, <2>1, Returned
  <2>2. CASE call' = [call EXCEPT ![r].pc = "blocked"]
    <3>1. /\ \A s \in Calls : s # r => call'[s] = call[s]
          /\ call'[r].result = call[r].result /\ call'[r].of = call[r].of
          /\ call'[r].pc = "blocked"
      BY <1>1, <2>2, Moved
    <3>2. QED
      BY <1>3, <3>1
  <2>3. QED
    BY <2>1, <2>2 DEF WaitTop
<1>5. ~Fresh(r)'
  BY <1>4 DEF Fresh
<1>6. QED
  BY <1>1, <1>2, <1>4, <1>5, CallRepeats

LEMMA WaitEndRepeats ==
    ASSUME RepeatInv, NEW r \in Calls, WaitEnd(r) PROVE RepeatInv'
<1>1. /\ TypeInv /\ ReconnectInv
      /\ UNCHANGED <<conn, sender, answer, served, requests>>
  BY DEF RepeatInv, ReconnectInv, WaitEnd, reconVars
<1>2. ReconnectInv'
  BY <1>1, WaitEndKeeps
<1>3. answer[r].err # "full" /\ (answer[r].err = "ok" => Done(answer[r].of))
  BY <1>1 DEF RepeatInv, PlaceInv, DoneInv
<1>4. /\ \A s \in Calls : s # r => call'[s] = call[s]
      /\ call'[r].result # "full" /\ (call'[r].result = "ok" => Done(call'[r].of))
      /\ call'[r].pc = "done"
  <2>1. CASE Return(r, "over", "none")
    BY <1>1, <2>1, Returned
  <2>2. CASE Return(r, answer[r].err, answer[r].of)
    <3>1. /\ \A s \in Calls : s # r => call'[s] = call[s]
          /\ call'[r].result = answer[r].err /\ call'[r].of = answer[r].of
          /\ call'[r].pc = "done"
      BY <1>1, <2>2, Returned
    <3>2. QED
      BY <1>3, <3>1
  <2>3. QED
    BY <2>1, <2>2 DEF WaitEnd
<1>5. ~Fresh(r)'
  BY <1>4 DEF Fresh
<1>6. QED
  BY <1>1, <1>2, <1>4, <1>5, CallRepeats

LEMMA ContextOverRepeats ==
    ASSUME RepeatInv, NEW r \in Calls, ContextOver(r), UNCHANGED reconVars PROVE RepeatInv'
<1>1. /\ TypeInv /\ ReconnectInv /\ DOMAIN call = Calls /\ IsCall(call[r])
      /\ UNCHANGED <<conn, sender, answer, served, requests>>
      /\ call' = [call EXCEPT ![r].over = TRUE]
  BY DEF RepeatInv, ReconnectInv, TypeInv, ContextOver, reconVars
<1>2. ReconnectInv'
  BY <1>1, ContextOverKeeps
<1>3. \A s \in Calls : s # r => call'[s] = call[s]
  BY <1>1
<1>4. call'[r].pc = call[r].pc /\ call'[r].result = call[r].result /\ call'[r].of = call[r].of
  BY <1>1 DEF IsCall
<1>5. /\ call[r].result = "full" => call[r].pc = "done"
      /\ call[r].result = "ok" => Done(call[r].of)
  BY <1>1 DEF RepeatInv, PlaceInv, DoneInv
<1>6. Fresh(r)' => Fresh(r)
  BY <1>4 DEF Fresh
<1>7. QED
  BY <1>1, <1>2, <1>3, <1>4, <1>5, <1>6, CallRepeats

\* The request is queued: it was nowhere before, and there is no copy of it.
LEMMA TrySendRepeats ==
    ASSUME RepeatInv, NEW r \in Calls, TrySend(r) PROVE RepeatInv'
<1>1. /\ TypeInv /\ ReconnectInv /\ call[r].pc = "checked" /\ Fresh(r) /\ requests \in Seq(Calls)
      /\ UNCHANGED <<conn, sender, answer, served>>
      /\ PlaceInv /\ TriesInv /\ CountInv /\ DoneInv
  BY DEF RepeatInv, ReconnectInv, TypeInv, TrySend, Fresh
<1>2. ReconnectInv'
  BY <1>1, TrySendKeeps
<1>3. call[r].result # "full" /\ (call[r].result = "ok" => Done(call[r].of))
  BY <1>1 DEF PlaceInv, DoneInv
<1>4. CASE Return(r, "full", "none") /\ UNCHANGED requests
  <2>1. /\ \A s \in Calls : s # r => call'[s] = call[s]
        /\ call'[r].result = "full" /\ call'[r].pc = "done"
    BY <1>1, <1>4, Returned
  <2>2. QED
    BY <1>1, <1>2, <1>4, <2>1, CallRepeats
<1>5. CASE requests' = Append(requests, r) /\ call' = [call EXCEPT ![r].pc = "waiting"]
  <2>1. /\ \A s \in Calls : s # r => call'[s] = call[s]
        /\ call'[r].result = call[r].result /\ call'[r].of = call[r].of
        /\ call'[r].pc = "waiting"
    BY <1>1, <1>5, Moved
  <2>2. /\ DOMAIN requests = 1 .. Len(requests) /\ Len(requests) \in Nat
        /\ DOMAIN requests' = 1 .. Len(requests) + 1
        /\ requests'[Len(requests) + 1] = r
        /\ \A i \in 1 .. Len(requests) : requests'[i] = requests[i]
    BY <1>1, <1>5, AppendProperties, LenProperties
  <2>3. ~Fresh(r)' /\ \A s \in Calls : s # r => (Fresh(s)' <=> Fresh(s))
    BY <1>3, <2>1 DEF Fresh
  <2>4. \A s \in Calls : s # r => (Queued(s)' => Queued(s))
    <3>1. \A i \in DOMAIN requests' : i \in DOMAIN requests \/ i = Len(requests) + 1
      BY <2>2
    <3>2. QED
      BY <2>2, <3>1 DEF Queued
  <2>5. \A s \in Calls : Held(s)' <=> Held(s)
    BY <1>1 DEF Held
  <2>6. ~Queued(r) /\ ~Held(r) /\ Copies(r) = 0
    BY <1>1 DEF PlaceInv, CountInv
  <2>7. PlaceInv'
    <3>1. ASSUME NEW s \in Calls
          PROVE  /\ Fresh(s)' => ~Queued(s)' /\ ~Held(s)'
                 /\ Queued(s)' => ~Held(s)'
                 /\ call'[s].result = "full" => call'[s].pc = "done"
                 /\ answer'[s].err # "full"
      BY <1>1, <1>3, <2>1, <2>3, <2>4, <2>5, <2>6 DEF PlaceInv
    <3>2. ASSUME NEW i \in DOMAIN requests', NEW j \in DOMAIN requests',
                 requests'[i] = requests'[j]
          PROVE  i = j
      <4>1. \A k \in DOMAIN requests : requests[k] # r
        BY <2>6 DEF Queued
      <4>2. \A k \in DOMAIN requests' : k \in DOMAIN requests \/ k = Len(requests) + 1
        BY <2>2
      <4>3. \A k \in DOMAIN requests : requests'[k] = requests[k]
        BY <2>2
      <4>4. QED
        BY <1>1, <2>2, <3>2, <4>1, <4>2, <4>3 DEF PlaceInv
    <3>3. QED
      BY <3>1, <3>2 DEF PlaceInv
  <2>8. TriesInv'
    BY <1>1 DEF TriesInv
  <2>9. CountInv'
    <3>1. \A s \in Calls : /\ Copies(s)' = Copies(s) /\ Allowed' = Allowed
                           /\ IsFiniteSet(Waiting(conn', s)) <=> IsFiniteSet(Waiting(conn, s))
      BY <1>1 DEF Copies, Allowed
    <3>2. Len(conn') = Len(conn)
      BY <1>1
    <3>3. \A s \in Calls : Fresh(s)' \/ Queued(s)' => Copies(s) = 0
      BY <1>1, <2>3, <2>4, <2>6 DEF CountInv
    <3>4. QED
      BY <1>1, <2>5, <3>1, <3>2, <3>3 DEF CountInv
  <2>10. DoneInv'
    <3>1. \A x : Done(x)' <=> Done(x)
      BY <1>1 DEF Done
    <3>2. QED
      BY <1>1, <1>3, <2>1, <3>1 DEF DoneInv
  <2>11. OpenedInv'
    BY <1>1 DEF RepeatInv, OpenedInv
  <2>12. QED
    BY <1>2, <2>7, <2>8, <2>9, <2>10, <2>11 DEF RepeatInv
<1>6. QED
  BY <1>4, <1>5 DEF TrySend

-----------------------------------------------------------------------------
(* The sender, close() and the network, when no copy is made.              *)

\* What a step may do to the result channels.
AnswersDone ==
    \A r \in Calls : \/ answer'[r] = answer[r] \/ answer'[r].err \notin {"ok", "full"}
                     \/ answer'[r].err = "ok" /\ Done(answer'[r].of)

\* The connections stay as they are.
LEMMA QuietRepeats ==
    ASSUME RepeatInv, ReconnectInv', UNCHANGED <<conn, call, served>>, QueueShrinks,
           SenderHolds, AnswersDone
    PROVE  RepeatInv'
<1>1. conn \in Seq(Connection)
  BY DEF RepeatInv, ReconnectInv, TypeInv
<1>2. Len(conn) \in Nat
  BY <1>1, LenProperties
<1>3. NoFrames
  BY <1>2 DEF NoFrames
<1>4. QED
  BY <1>3, SenderRepeats DEF AnswersDone

\* A request is answered.
LEMMA AnswerDone ==
    ASSUME TypeInv, NEW r \in Calls, NEW err, NEW of, Answer(r, err, of),
           err # "full", err = "ok" => Done(of)
    PROVE  SenderHolds /\ AnswersDone
<1>1. /\ \A s \in Calls : s # r => answer'[s] = answer[s]
      /\ answer'[r] = [err |-> err, of |-> of] /\ sender' = Idle
  BY Answered
<1>2. answer'[r].err = err /\ answer'[r].of = of
  BY <1>1
<1>3. AnswersDone
  BY <1>1, <1>2 DEF AnswersDone
<1>4. sender'.pc \notin Busy
  BY <1>1 DEF Idle, Busy
<1>5. QED
  BY <1>3, <1>4 DEF SenderHolds

\* The sender goes on with its request.
LEMMA SenderGoesOn ==
    ASSUME RepeatInv, UNCHANGED answer, sender.pc \in Busy, sender'.pc \in Busy,
           sender'.req = sender.req, sender'.tries = sender.tries,
           sender'.pc \notin OnClient, sender.tries = 1
    PROVE  SenderHolds /\ AnswersDone
<1>1. TriesInv'
  BY DEF TriesInv
<1>2. Allowed \in Nat /\ Allowed <= 1
  BY DEF Allowed
<1>3. Allowed' = 1
  BY DEF Allowed, OnClient
<1>4. Allowed' \in Nat /\ Allowed <= Allowed'
  BY <1>2, <1>3
<1>5. SenderHolds
  BY <1>1, <1>2, <1>4 DEF SenderHolds
<1>6. QED
  BY <1>5 DEF AnswersDone

\* The facts a step of the sender starts from.
LEMMA BusyFacts ==
    ASSUME RepeatInv, sender.pc \in Busy
    PROVE  /\ TypeInv /\ ReconnectInv /\ sender.req \in Calls /\ requests \in Seq(Calls)
           /\ conn \in Seq(Connection) /\ sender.tries \in {1, 2}
           /\ sender.pc \notin OnClient => sender.tries = 1
           /\ sender = [pc |-> sender.pc, req |-> sender.req, tries |-> sender.tries,
                        attempt |-> sender.attempt]
BY DEF RepeatInv, ReconnectInv, TypeInv, TriesInv

LEMMA OpEndsDone ==
    ASSUME RepeatInv, sender.pc \in Busy, NEW err, NEW of, OpEnds(err, of),
           err # "full", err = "ok" => Done(of)
    PROVE  SenderHolds /\ AnswersDone
<1>1. /\ TypeInv /\ sender.req \in Calls
      /\ sender = [pc |-> sender.pc, req |-> sender.req, tries |-> sender.tries,
                   attempt |-> sender.attempt]
  BY BusyFacts
<1>2. CASE Answer(sender.req, err, of)
  BY <1>1, <1>2, AnswerDone
<1>3. CASE /\ sender.tries = 1 /\ UNCHANGED answer
           /\ sender' = [sender EXCEPT !.pc = "check", !.attempt = 1]
  <2>1. sender' = [pc |-> "check", req |-> sender.req, tries |-> sender.tries, attempt |-> 1]
    BY <1>1, <1>3
  <2>2. /\ sender'.pc = "check" /\ sender'.req = sender.req /\ sender'.tries = sender.tries
    BY <2>1
  <2>3. sender'.pc \in Busy /\ sender'.pc \notin OnClient
    BY <2>2 DEF Busy, OnClient
  <2>4. QED
    BY <1>3, <2>2, <2>3, SenderGoesOn
<1>4. QED
  BY <1>2, <1>3 DEF OpEnds

LEMMA SelectRequestRepeats ==
    ASSUME RepeatInv, SelectRequest PROVE RepeatInv'
<1>1. /\ TypeInv /\ ReconnectInv /\ requests \in Seq(Calls) /\ requests # <<>>
      /\ requests' = Tail(requests) /\ UNCHANGED <<conn, call, served>>
  BY DEF RepeatInv, ReconnectInv, TypeInv, SelectRequest, senderKeeps
<1>2. Head(requests) \in Calls /\ QueueShrinks
  BY <1>1 DEF QueueShrinks
<1>3. ReconnectInv'
  BY <1>1, SelectRequestKeeps
<1>4. CASE \E err \in {"over", "closed"} : Answer(Head(requests), err, "none")
  <2>1. SenderHolds /\ AnswersDone
    BY <1>1, <1>2, <1>4, AnswerDone
  <2>2. QED
    BY <1>1, <1>2, <1>3, <2>1, QuietRepeats
<1>5. CASE /\ sender' = [pc |-> "write", req |-> Head(requests), tries |-> 1, attempt |-> 0]
           /\ UNCHANGED answer
  <2>1. sender'.pc = "write" /\ sender'.req = Head(requests) /\ sender'.tries = 1
    BY <1>5
  <2>2. SenderHolds /\ AnswersDone
    BY <1>1, <1>5, <2>1 DEF SenderHolds, AnswersDone
  <2>3. QED
    BY <1>1, <1>2, <1>3, <2>2, QuietRepeats
<1>6. QED
  BY <1>4, <1>5 DEF SelectRequest

LEMMA SelectShutdownRepeats ==
    ASSUME RepeatInv, SelectShutdown PROVE RepeatInv'
<1>1. /\ ReconnectInv /\ UNCHANGED <<conn, call, served, answer>> /\ QueueShrinks
      /\ sender' = [pc |-> "drain", req |-> sender.req, tries |-> sender.tries,
                    attempt |-> sender.attempt]
  BY DEF RepeatInv, ReconnectInv, TypeInv, SelectShutdown, clientVars, QueueShrinks
<1>2. ReconnectInv'
  BY <1>1, SelectShutdownKeeps
<1>3. SenderHolds /\ AnswersDone
  BY <1>1 DEF SenderHolds, AnswersDone, Busy
<1>4. QED
  BY <1>1, <1>2, <1>3, QuietRepeats

LEMMA DrainRepeats ==
    ASSUME RepeatInv, Drain PROVE RepeatInv'
<1>1. /\ TypeInv /\ ReconnectInv /\ UNCHANGED <<conn, call, served>> /\ sender.pc = "drain"
      /\ requests \in Seq(Calls) /\ DOMAIN answer = Calls
      /\ sender = [pc |-> sender.pc, req |-> sender.req, tries |-> sender.tries,
                   attempt |-> sender.attempt]
  BY DEF RepeatInv, ReconnectInv, TypeInv, Drain, senderKeeps
<1>2. ReconnectInv'
  BY <1>1, DrainKeeps
<1>3. CASE requests = <<>>
  <2>1. /\ QueueShrinks /\ UNCHANGED answer
        /\ sender' = [pc |-> "gone", req |-> sender.req, tries |-> sender.tries,
                      attempt |-> sender.attempt]
    BY <1>1, <1>3 DEF Drain, QueueShrinks
  <2>2. SenderHolds /\ AnswersDone
    BY <2>1 DEF SenderHolds, AnswersDone, Busy
  <2>3. QED
    BY <1>1, <1>2, <2>1, <2>2, QuietRepeats
<1>4. CASE requests # <<>>
  <2>1. /\ Head(requests) \in Calls /\ requests' = Tail(requests) /\ UNCHANGED sender
        /\ answer' = [answer EXCEPT ![Head(requests)] = [err |-> "closed", of |-> "none"]]
    BY <1>1, <1>4 DEF Drain
  <2>2. QueueShrinks /\ SenderHolds
    BY <1>1, <1>4, <2>1 DEF QueueShrinks, SenderHolds, Busy
  <2>3. \A r \in Calls : answer'[r] = answer[r] \/ answer'[r].err = "closed"
    BY <1>1, <2>1
  <2>4. AnswersDone
    BY <2>3 DEF AnswersDone
  <2>5. QED
    BY <1>1, <1>2, <2>2, <2>4, QuietRepeats
<1>5. QED
  BY <1>3, <1>4

LEMMA SleepRepeats ==
    ASSUME RepeatInv, Sleep PROVE RepeatInv'
<1>1. sender.pc = "sleep" /\ sender.pc \in Busy /\ sender.pc \notin OnClient
      /\ UNCHANGED <<conn, call, served, requests>>
  BY DEF Sleep, senderKeeps, Busy, OnClient
<1>2. /\ TypeInv /\ ReconnectInv /\ sender.req \in Calls /\ sender.tries = 1
      /\ sender = [pc |-> sender.pc, req |-> sender.req, tries |-> sender.tries,
                   attempt |-> sender.attempt]
  BY <1>1, BusyFacts
<1>3. ReconnectInv' /\ QueueShrinks
  BY <1>1, <1>2, SleepKeeps DEF QueueShrinks
<1>4. CASE \E err \in {"over", "closed"} : Answer(sender.req, err, "none")
  <2>1. SenderHolds /\ AnswersDone
    BY <1>2, <1>4, AnswerDone
  <2>2. QED
    BY <1>1, <1>3, <2>1, QuietRepeats
<1>5. CASE sender' = [sender EXCEPT !.pc = "check"] /\ UNCHANGED answer
  <2>1. sender' = [pc |-> "check", req |-> sender.req, tries |-> sender.tries,
                   attempt |-> sender.attempt]
    BY <1>2, <1>5
  <2>2. /\ sender'.pc \in Busy /\ sender'.pc \notin OnClient
        /\ sender'.req = sender.req /\ sender'.tries = sender.tries
    BY <2>1 DEF Busy, OnClient
  <2>3. SenderHolds /\ AnswersDone
    BY <1>1, <1>2, <1>5, <2>2, SenderGoesOn
  <2>4. QED
    BY <1>1, <1>3, <2>3, QuietRepeats
<1>6. QED
  BY <1>4, <1>5 DEF Sleep

\* One connection changes.
LEMMA ConnEdited ==
    ASSUME conn \in Seq(Connection), conn' \in Seq(Connection), NEW c \in DOMAIN conn, NEW new,
           conn' = [conn EXCEPT ![c] = new]
    PROVE  /\ DOMAIN conn' = DOMAIN conn /\ Len(conn') = Len(conn) /\ Len(conn) \in Nat
           /\ conn'[c] = new /\ \A d \in DOMAIN conn : d # c => conn'[d] = conn[d]
<1>1. /\ DOMAIN conn = 1 .. Len(conn) /\ Len(conn) \in Nat
      /\ DOMAIN conn' = 1 .. Len(conn') /\ Len(conn') \in Nat
  BY LenProperties
<1>2. DOMAIN conn' = DOMAIN conn
  OBVIOUS
<1>3. Len(conn') = Len(conn)
  BY <1>1, <1>2
<1>4. QED
  BY <1>1, <1>2, <1>3

\* One connection changes and has no new frame.
LEMMA EditedNoFrames ==
    ASSUME conn \in Seq(Connection), conn' \in Seq(Connection), NEW c \in DOMAIN conn, NEW new,
           conn' = [conn EXCEPT ![c] = new],
           new.in = <<>> \/ new.in = conn[c].in,
           \/ new.out = <<>> \/ new.out = conn[c].out
           \/ conn[c].out # <<>> /\ new.out = Tail(conn[c].out)
    PROVE  NoFrames
<1>1. /\ DOMAIN conn' = DOMAIN conn /\ Len(conn') = Len(conn) /\ Len(conn) \in Nat
      /\ conn'[c] = new /\ \A d \in DOMAIN conn : d # c => conn'[d] = conn[d]
  BY ConnEdited
<1>2. QED
  BY <1>1 DEF NoFrames

LEMMA RunReadRepeats ==
    ASSUME RepeatInv, RunRead PROVE RepeatInv'
<1> DEFINE c == client
           err == FrameRead(client).err
           of == FrameRead(client).of
<1>1. /\ sender.pc = "read" /\ UNCHANGED <<call, served, requests>>
      /\ ReadFrame(c) /\ OpEnds(err, of) /\ ReconnectInv
  BY DEF RunRead, senderKeeps, RepeatInv
<1>2. TypeInv /\ conn \in Seq(Connection) /\ c \in DOMAIN conn
  BY <1>1, OnClientFacts DEF OnClient
<1>3. ReconnectInv' /\ QueueShrinks /\ sender.pc \in Busy
  BY <1>1, RunReadKeeps DEF QueueShrinks, Busy
<1>4. conn' \in Seq(Connection)
  BY <1>3 DEF ReconnectInv, TypeInv
<1>5. /\ conn[c].up \in {"up", "fin", "rst"} /\ conn[c].out \in Seq(Frame)
      /\ conn[c] = [up |-> conn[c].up, in |-> conn[c].in, out |-> conn[c].out,
                    late |-> conn[c].late]
  BY <1>2, ConnFields
<1>6. err # "full" /\ (err = "ok" => Done(of))
  <2>1. CASE conn[c].out # <<>>
    <3>1. /\ err = IF Head(conn[c].out).ok THEN "ok" ELSE "server"
          /\ of = Head(conn[c].out).of
      BY <2>1 DEF FrameRead
    <3>2. 1 \in DOMAIN conn[c].out /\ Head(conn[c].out) = conn[c].out[1]
      <4>1. /\ DOMAIN conn[c].out = 1 .. Len(conn[c].out) /\ Len(conn[c].out) \in Nat
            /\ Len(conn[c].out) # 0 /\ Head(conn[c].out) = conn[c].out[1]
        BY <1>5, <2>1, LenProperties, OneFrame
      <4>2. QED
        BY <4>1
    <3>3. Head(conn[c].out).ok => Done(Head(conn[c].out).of)
      BY <1>2, <3>2 DEF RepeatInv, DoneInv
    <3>4. QED
      BY <3>1, <3>3
  <2>2. CASE conn[c].out = <<>>
    <3>1. err \in {"invalid", "broken", "wouldblock"}
      BY <1>5, <2>2 DEF FrameRead
    <3>2. QED
      BY <3>1
  <2>3. QED
    BY <2>1, <2>2
<1>7. SenderHolds /\ AnswersDone
  <2> HIDE DEF err, of
  <2>1. QED
    BY <1>1, <1>3, <1>6, OpEndsDone
<1>8. NoFrames
  <2>1. CASE conn[c].out # <<>>
    <3>1. conn' = [conn EXCEPT ![c] = [conn[c] EXCEPT !.out = Tail(conn[c].out)]]
      BY <1>1, <2>1 DEF ReadFrame
    <3>2. PICK new : new = [conn[c] EXCEPT !.out = Tail(conn[c].out)]
      OBVIOUS
    <3>3. new.in = conn[c].in /\ new.out = Tail(conn[c].out)
      BY <1>5, <3>2, FieldsChanged
    <3>4. conn' = [conn EXCEPT ![c] = new]
      BY <3>1, <3>2
    <3>5. QED
      BY <1>2, <1>4, <2>1, <3>3, <3>4, EditedNoFrames
  <2>2. CASE conn[c].out = <<>> /\ conn[c].up = "up"
    <3>1. conn' = [conn EXCEPT ![c] = [conn[c] EXCEPT !.late = TRUE]]
      BY <1>1, <2>2 DEF ReadFrame
    <3>2. PICK new : new = [conn[c] EXCEPT !.late = TRUE]
      OBVIOUS
    <3>3. new.in = conn[c].in /\ new.out = conn[c].out
      BY <1>5, <3>2, FieldsChanged
    <3>4. conn' = [conn EXCEPT ![c] = new]
      BY <3>1, <3>2
    <3>5. QED
      BY <1>2, <1>4, <3>3, <3>4, EditedNoFrames
  <2>3. CASE conn[c].out = <<>> /\ conn[c].up # "up"
    <3>1. conn' = conn
      BY <1>1, <2>3 DEF ReadFrame
    <3>2. Len(conn) \in Nat
      BY <1>2, LenProperties
    <3>3. QED
      BY <3>1, <3>2 DEF NoFrames
  <2>4. QED
    BY <2>1, <2>2, <2>3
<1>9. QED
  BY <1>1, <1>3, <1>7, <1>8, SenderRepeats DEF AnswersDone

\* The current connection, if any, is closed.
LEMMA ClosedNoFrames ==
    ASSUME conn \in Seq(Connection), conn' \in Seq(Connection), client \in 0 .. Len(conn),
           conn' = IF client = 0 THEN conn ELSE ClosedConn(client)
    PROVE  NoFrames
<1>1. DOMAIN conn = 1 .. Len(conn) /\ Len(conn) \in Nat
  BY LenProperties
<1>2. CASE client = 0
  BY <1>1, <1>2 DEF NoFrames
<1>3. CASE client # 0
  <2>1. client \in DOMAIN conn
    BY <1>1, <1>3
  <2>2. conn[client] \in Connection
    BY <2>1, ConnFields
  <2>3. conn' = [conn EXCEPT ![client] = [conn[client] EXCEPT !.up = "rst", !.out = <<>>]]
    BY <1>3 DEF ClosedConn
  <2>4. [conn[client] EXCEPT !.up = "rst", !.out = <<>>] =
            [up |-> "rst", in |-> conn[client].in, out |-> <<>>, late |-> conn[client].late]
    BY <2>2, UpOutChanged, Zenon
  <2>5. PICK c, new : c = client /\ new = [conn[client] EXCEPT !.up = "rst", !.out = <<>>]
    OBVIOUS
  <2>6. c \in DOMAIN conn /\ conn' = [conn EXCEPT ![c] = new]
    BY <2>1, <2>3, <2>5
  <2>7. new.in = conn[c].in /\ new.out = <<>>
    BY <2>4, <2>5
  <2>8. QED
    BY <2>6, <2>7, EditedNoFrames
<1>4. QED
  BY <1>2, <1>3

LEMMA ReconnectCheckRepeats ==
    ASSUME RepeatInv, ReconnectCheck PROVE RepeatInv'
<1>1. sender.pc = "check" /\ sender.pc \in Busy /\ sender.pc \notin OnClient
      /\ UNCHANGED <<call, served, requests>>
  BY DEF ReconnectCheck, senderKeeps, Busy, OnClient
<1>2. /\ TypeInv /\ ReconnectInv /\ sender.req \in Calls /\ sender.tries = 1
      /\ sender = [pc |-> sender.pc, req |-> sender.req, tries |-> sender.tries,
                   attempt |-> sender.attempt]
  BY <1>1, BusyFacts
<1>3. ReconnectInv' /\ QueueShrinks
  BY <1>1, <1>2, ReconnectCheckKeeps DEF QueueShrinks
<1>4. CASE Answer(sender.req, "closed", "none") /\ UNCHANGED <<conn, client>>
  <2>1. SenderHolds /\ AnswersDone
    BY <1>2, <1>4, AnswerDone
  <2>2. QED
    BY <1>1, <1>3, <1>4, <2>1, QuietRepeats
<1>5. CASE /\ sender' = [sender EXCEPT !.pc = "dial"]
           /\ conn' = IF client = 0 THEN conn ELSE ClosedConn(client)
           /\ UNCHANGED answer
  <2>1. sender' = [pc |-> "dial", req |-> sender.req, tries |-> sender.tries,
                   attempt |-> sender.attempt]
    BY <1>2, <1>5
  <2>2. /\ sender'.pc \in Busy /\ sender'.pc \notin OnClient
        /\ sender'.req = sender.req /\ sender'.tries = sender.tries
    BY <2>1 DEF Busy, OnClient
  <2>3. SenderHolds /\ AnswersDone
    BY <1>1, <1>2, <1>5, <2>2, SenderGoesOn
  <2>4. /\ conn \in Seq(Connection) /\ conn' \in Seq(Connection) /\ client \in 0 .. Len(conn)
    BY <1>2, <1>3 DEF ReconnectInv, TypeInv
  <2>5. NoFrames
    BY <1>5, <2>4, ClosedNoFrames
  <2>6. QED
    BY <1>1, <1>3, <2>3, <2>5, SenderRepeats DEF AnswersDone
<1>6. QED
  BY <1>4, <1>5 DEF ReconnectCheck

LEMMA CloseJoinRepeats ==
    ASSUME RepeatInv, CloseJoin PROVE RepeatInv'
<1>1. /\ ReconnectInv /\ sender.pc = "gone" /\ UNCHANGED <<call, served, requests, answer, sender>>
      /\ conn' = IF client = 0 THEN conn ELSE ClosedConn(client)
  BY DEF RepeatInv, CloseJoin
<1>2. ReconnectInv'
  BY <1>1, CloseJoinKeeps
<1>3. /\ conn \in Seq(Connection) /\ conn' \in Seq(Connection) /\ client \in 0 .. Len(conn)
  BY <1>1, <1>2 DEF ReconnectInv, TypeInv
<1>4. NoFrames
  BY <1>1, <1>3, ClosedNoFrames
<1>5. SenderHolds /\ AnswersDone /\ QueueShrinks
  BY <1>1 DEF SenderHolds, AnswersDone, QueueShrinks, Busy
<1>6. QED
  BY <1>1, <1>2, <1>4, <1>5, SenderRepeats DEF AnswersDone

\* Nothing the invariant is about changes.
LEMMA SameRepeats ==
    ASSUME RepeatInv, ReconnectInv',
           UNCHANGED <<conn, sender, answer, served, call, requests>>
    PROVE  RepeatInv'
<1>1. CASE Calls = {}
  BY <1>1 DEF RepeatInv, PlaceInv, TriesInv, CountInv, DoneInv, Done, OpenedInv
<1>2. CASE Calls # {}
  <2>1. PICK r \in Calls : TRUE
    BY <1>2
  <2>2. /\ Fresh(r)' => Fresh(r)
        /\ call'[r].result = "full" => call'[r].pc = "done"
        /\ call'[r].result = "ok" => Done(call'[r].of)
    BY DEF Fresh, RepeatInv, PlaceInv, DoneInv
  <2>3. QED
    BY <2>1, <2>2, CallRepeats
<1>3. QED
  BY <1>1, <1>2

LEMMA ReconnectDialRepeats ==
    ASSUME RepeatInv, ReconnectDial PROVE RepeatInv'
<1>1. sender.pc = "dial" /\ sender.pc \in Busy /\ sender.pc \notin OnClient
      /\ UNCHANGED <<call, served, requests>>
  BY DEF ReconnectDial, senderKeeps, Busy, OnClient
<1>2. /\ TypeInv /\ ReconnectInv /\ sender.req \in Calls /\ sender.tries = 1
      /\ conn \in Seq(Connection)
      /\ sender = [pc |-> sender.pc, req |-> sender.req, tries |-> sender.tries,
                   attempt |-> sender.attempt]
  BY <1>1, BusyFacts
<1>3. ReconnectInv' /\ QueueShrinks
  BY <1>1, <1>2, ReconnectDialKeeps DEF QueueShrinks
<1>4. CASE /\ DialOk /\ UNCHANGED answer
           /\ sender' = [sender EXCEPT !.pc = "write", !.tries = 2]
  <2>1. sender'.pc = "write" /\ sender'.req = sender.req /\ sender'.tries = 2
    <3>1. [sender EXCEPT !.pc = "write", !.tries = 2] =
              [[sender EXCEPT !.pc = "write"] EXCEPT !.tries = 2]
      OBVIOUS
    <3>2. QED
      BY <1>2, <1>4, <3>1
  <2>2. FreshConn \in Connection
    BY EmptySeq DEF FreshConn, Connection
  <2>3. /\ Len(conn') = Len(conn) + 1 /\ Len(conn) \in Nat
        /\ DOMAIN conn = 1 .. Len(conn) /\ DOMAIN conn' = 1 .. Len(conn) + 1
        /\ conn'[Len(conn) + 1] = FreshConn
        /\ \A d \in 1 .. Len(conn) : conn'[d] = conn[d]
    BY <1>2, <1>4, <2>2, AppendProperties, LenProperties DEF DialOk
  <2>4. NoFrames
    <3>1. ASSUME NEW c \in DOMAIN conn'
          PROVE  (c \in DOMAIN conn /\ conn'[c] = conn[c]) \/ conn'[c] = FreshConn
      <4>1. c \in 1 .. Len(conn) \/ c = Len(conn) + 1
        BY <2>3
      <4>2. QED
        BY <2>3, <4>1
    <3>2. FreshConn.in = <<>> /\ FreshConn.out = <<>>
      BY DEF FreshConn
    <3>3. Len(conn) <= Len(conn')
      BY <2>3
    <3>4. QED
      BY <3>1, <3>2, <3>3 DEF NoFrames
  <2>5. SenderHolds
    <3>1. Len(conn') > 1
      <4>1. Len(conn) > 0
        BY DEF RepeatInv, OpenedInv
      <4>2. QED
        BY <2>3, <4>1
    <3>2. TriesInv'
      BY <2>1, <3>1 DEF TriesInv, OnClient
    <3>3. Allowed = 1 /\ Allowed' = 1
      BY <1>1, <1>2, <2>1 DEF Allowed
    <3>4. QED
      BY <1>1, <2>1, <3>2, <3>3 DEF SenderHolds
  <2>6. QED
    BY <1>1, <1>3, <1>4, <2>4, <2>5, SenderRepeats
<1>5. CASE /\ sender' = [sender EXCEPT !.pc = "sleep", !.attempt = @ + 1]
           /\ UNCHANGED <<answer, conn>>
  <2>1. sender'.pc = "sleep" /\ sender'.req = sender.req /\ sender'.tries = sender.tries
    <3>1. sender' = [[sender EXCEPT !.pc = "sleep"] EXCEPT !.attempt = sender.attempt + 1]
      BY <1>5
    <3>2. QED
      BY <1>2, <3>1
  <2>2. sender'.pc \in Busy /\ sender'.pc \notin OnClient
    BY <2>1 DEF Busy, OnClient
  <2>3. SenderHolds /\ AnswersDone
    BY <1>1, <1>2, <1>5, <2>1, <2>2, SenderGoesOn
  <2>4. QED
    BY <1>1, <1>3, <1>5, <2>3, QuietRepeats
<1>6. CASE Answer(sender.req, "broken", "none") /\ UNCHANGED conn
  <2>1. SenderHolds /\ AnswersDone
    BY <1>2, <1>6, AnswerDone
  <2>2. QED
    BY <1>1, <1>3, <1>6, <2>1, QuietRepeats
<1>7. QED
  BY <1>4, <1>5, <1>6 DEF ReconnectDial, DialFails

LEMMA BreakRepeats ==
    ASSUME RepeatInv, NEW c \in DOMAIN conn, NEW how \in {"fin", "rst"}, Break(c, how),
           UNCHANGED reconVars
    PROVE  RepeatInv'
<1>1. /\ ReconnectInv /\ conn \in Seq(Connection) /\ PlaceInv /\ TriesInv
      /\ UNCHANGED <<call, served>> /\ UNCHANGED <<sender, answer, requests>>
  BY DEF RepeatInv, ReconnectInv, TypeInv, Break, reconVars
<1>2. ReconnectInv'
  BY <1>1, BreakKeeps
<1>3. conn' \in Seq(Connection)
  BY <1>2 DEF ReconnectInv, TypeInv
<1>4. conn[c] \in Connection
  BY <1>1, ConnFields
<1>5. PICK left \in {<<>>, conn[c].in} :
          conn' = [conn EXCEPT ![c].up = how, ![c].in = left,
                      ![c].out = IF how = "rst" THEN <<>> ELSE conn[c].out]
  BY DEF Break
<1>6. PICK rest : rest = IF how = "rst" THEN <<>> ELSE conn[c].out
  OBVIOUS
<1>7. conn' = [conn EXCEPT ![c] = [conn[c] EXCEPT !.up = how, !.in = left, !.out = rest]]
  BY <1>5, <1>6
<1>8. PICK new : new = [conn[c] EXCEPT !.up = how, !.in = left, !.out = rest]
  OBVIOUS
<1>9. new = [up |-> how, in |-> left, out |-> rest, late |-> conn[c].late]
  <2>1. \A x, y, z : [conn[c] EXCEPT !.up = x, !.in = y, !.out = z] =
                        [up |-> x, in |-> y, out |-> z, late |-> conn[c].late]
    BY <1>4, UpInOutChanged, Zenon
  <2>2. QED
    BY <1>8, <2>1, Zenon
<1>10. new.in \in {<<>>, conn[c].in} /\ new.out \in {<<>>, conn[c].out}
  BY <1>5, <1>6, <1>9
<1>11. NoFrames
  <2>1. conn' = [conn EXCEPT ![c] = new]
    BY <1>7, <1>8
  <2>2. QED
    BY <1>1, <1>3, <1>10, <2>1, EditedNoFrames
<1>12. SenderHolds /\ AnswersDone /\ QueueShrinks
  <2>1. TriesInv'
    <3>1. Len(conn) <= Len(conn') /\ Len(conn) \in Nat /\ Len(conn') \in Nat
      BY <1>1, <1>3, <1>11, LenProperties DEF NoFrames
    <3>2. Len(conn) > 1 => Len(conn') > 1
      BY <3>1
    <3>3. QED
      BY <1>1, <3>2 DEF TriesInv
  <2>2. sender.pc \in Busy => Allowed \in Nat /\ Allowed <= Allowed
    <3>1. sender.tries \in {1, 2} => Allowed \in {0, 1, 2}
      BY DEF Allowed
    <3>2. QED
      BY <1>1, <3>1 DEF TriesInv
  <2>3. Allowed' = Allowed
    BY <1>1 DEF Allowed
  <2>4. SenderHolds
    BY <1>1, <2>1, <2>2, <2>3 DEF SenderHolds
  <2>5. QED
    BY <1>1, <2>4 DEF AnswersDone, QueueShrinks
<1>13. QED
  BY <1>1, <1>2, <1>11, <1>12, SenderRepeats DEF AnswersDone

-----------------------------------------------------------------------------
(* A copy is made, and one is carried out.                                 *)

LEMMA RunWriteRepeats ==
    ASSUME RepeatInv, RunWrite PROVE RepeatInv'
<1> DEFINE err == WriteError(client, sender.req)
<1>1. sender.pc = "write" /\ sender.pc \in Busy /\ UNCHANGED <<call, served, requests>>
  BY DEF RunWrite, senderKeeps, Busy
<1>2. /\ TypeInv /\ ReconnectInv /\ sender.req \in Calls /\ requests \in Seq(Calls)
      /\ conn \in Seq(Connection) /\ client \in DOMAIN conn /\ sender.tries \in {1, 2}
      /\ \A r \in Calls : served[r] \in Nat
      /\ sender = [pc |-> sender.pc, req |-> sender.req, tries |-> sender.tries,
                   attempt |-> sender.attempt]
  BY <1>1, BusyFacts, OnClientFacts DEF OnClient
<1>3. ReconnectInv' /\ conn' \in Seq(Connection) /\ QueueShrinks
  BY <1>1, <1>2, RunWriteKeeps DEF ReconnectInv, TypeInv, QueueShrinks
<1>4. PlaceInv /\ TriesInv /\ CountInv /\ DoneInv
  BY DEF RepeatInv
<1>5. CASE err # "none"
  <2>1. OpEnds(err, "none") /\ UNCHANGED conn /\ err \in {"over", "broken"}
    BY <1>5 DEF RunWrite, WriteError
  <2>2. SenderHolds /\ AnswersDone
    <3> HIDE DEF err
    <3>1. QED
      BY <1>1, <2>1, OpEndsDone
  <2>3. QED
    BY <1>1, <1>3, <2>1, <2>2, QuietRepeats
<1>6. CASE err = "none"
  <2>1. /\ conn' = [conn EXCEPT ![client].in = Append(@, sender.req)]
        /\ sender' = [sender EXCEPT !.pc = "read"] /\ UNCHANGED answer
    BY <1>6 DEF RunWrite, WriteFrame
  <2>2. PICK c, q : c = client /\ q = sender.req
    OBVIOUS
  <2>3. /\ c \in DOMAIN conn /\ q \in Calls
        /\ conn[c] = [up |-> conn[c].up, in |-> conn[c].in, out |-> conn[c].out,
                      late |-> conn[c].late]
        /\ conn[c].in \in Seq(Calls)
    BY <1>2, <2>2, ConnFields
  <2>4. PICK new : new = [conn[c] EXCEPT !.in = Append(conn[c].in, q)]
    OBVIOUS
  <2>5. new.in = Append(conn[c].in, q) /\ new.out = conn[c].out
    BY <2>3, <2>4, FieldsChanged
  <2>6. conn' = [conn EXCEPT ![c] = new]
    BY <2>1, <2>2, <2>4
  <2>7. /\ DOMAIN conn' = DOMAIN conn /\ Len(conn') = Len(conn) /\ Len(conn) \in Nat
        /\ conn'[c] = new /\ \A d \in DOMAIN conn : d # c => conn'[d] = conn[d]
    BY <1>2, <1>3, <2>3, <2>6, ConnEdited
  <2>8. sender'.pc = "read" /\ sender'.req = q /\ sender'.tries = sender.tries
    BY <1>2, <2>1, <2>2
  <2>9. /\ \A r \in Calls : (Held(r)' <=> Held(r)) /\ (Held(r) <=> r = q)
        /\ \A r \in Calls : (Fresh(r)' <=> Fresh(r)) /\ (Queued(r)' <=> Queued(r))
    BY <1>1, <2>2, <2>8 DEF Held, Fresh, Queued, Busy
  <2>10. PlaceInv'
    BY <1>1, <1>4, <2>1, <2>9 DEF PlaceInv
  <2>11. TriesInv'
    BY <1>1, <1>4, <2>7, <2>8 DEF TriesInv, OnClient, Busy
  <2>12. DoneInv'
    <3>1. \A x : Done(x)' <=> Done(x)
      BY <1>1 DEF Done
    <3>2. \A d \in DOMAIN conn' : d \in DOMAIN conn /\ conn'[d].out = conn[d].out
      BY <2>5, <2>7
    <3>3. QED
      BY <1>1, <1>4, <2>1, <3>1, <3>2 DEF DoneInv
  <2>13. CountInv'
    <3> SUFFICES ASSUME NEW r \in Calls
                 PROVE  /\ IsFiniteSet(Waiting(conn', r)) /\ Copies(r)' <= 2
                        /\ Copies(r)' = 2 => Len(conn') > 1
                        /\ (Fresh(r) \/ Queued(r))' => Copies(r)' = 0
                        /\ Held(r)' => Copies(r)' <= Allowed'
      BY DEF CountInv
    <3>1. /\ IsFiniteSet(Waiting(conn, r)) /\ Copies(r) <= 2 /\ (Copies(r) = 2 => Len(conn) > 1)
          /\ Fresh(r) \/ Queued(r) => Copies(r) = 0
          /\ Held(r) => Copies(r) <= Allowed
      BY <1>4 DEF CountInv
    <3>2. /\ IsFiniteSet(Waiting(conn', r))
          /\ Cardinality(Waiting(conn', r)) <= Cardinality(Waiting(conn, r)) + 1
          /\ r # q => Cardinality(Waiting(conn', r)) <= Cardinality(Waiting(conn, r))
      <4>1. PICK s, t : s = conn /\ t = conn'
        OBVIOUS
      <4>2. /\ c \in DOMAIN s /\ DOMAIN t = DOMAIN s /\ s[c].in \in Seq(Calls) /\ q \in Calls
            /\ t[c].in = Append(s[c].in, q) /\ \A d \in DOMAIN s : d # c => t[d].in = s[d].in
            /\ IsFiniteSet(Waiting(s, r))
        BY <2>3, <2>5, <2>7, <3>1, <4>1
      <4>3. /\ IsFiniteSet(Waiting(t, r))
            /\ Cardinality(Waiting(t, r)) <= Cardinality(Waiting(s, r)) + 1
            /\ r # q => Cardinality(Waiting(t, r)) <= Cardinality(Waiting(s, r))
        BY <4>2, WaitingWritten
      <4>4. QED
        BY <4>1, <4>3
    <3>3. /\ Cardinality(Waiting(conn', r)) \in Nat /\ Cardinality(Waiting(conn, r)) \in Nat
          /\ served[r] \in Nat
      BY <1>2, <3>1, <3>2, FS_CardinalityType
    <3>4. /\ Copies(r) = served[r] + Cardinality(Waiting(conn, r))
          /\ Copies(r)' = served[r] + Cardinality(Waiting(conn', r))
      BY <1>1 DEF Copies
    <3>5. /\ Copies(r) \in Nat /\ Copies(r)' \in Nat /\ Copies(r)' <= Copies(r) + 1
          /\ r # q => Copies(r)' <= Copies(r)
      BY <3>2, <3>3, <3>4
    <3>6. CASE r # q
      <4>1. Copies(r)' <= 2 /\ (Copies(r)' = 2 => Len(conn') > 1)
        BY <2>7, <3>1, <3>5, <3>6
      <4>2. Copies(r) = 0 => Copies(r)' = 0
        BY <3>5, <3>6
      <4>3. QED
        BY <2>9, <3>1, <3>2, <3>6, <4>1, <4>2
    <3>7. CASE r = q
      <4>1. Held(r) /\ ~Fresh(r) /\ ~Queued(r)
        BY <1>4, <2>9, <3>7 DEF PlaceInv
      <4>2. Allowed = sender.tries - 1 /\ Allowed' = sender.tries
        BY <1>1, <2>8 DEF Allowed
      <4>3. Copies(r)' <= sender.tries
        BY <1>2, <3>1, <3>5, <4>1, <4>2
      <4>4. Copies(r)' = 2 => Len(conn') > 1
        <5>1. sender.tries = 2 => Len(conn) > 1
          BY <1>1, <1>4 DEF TriesInv
        <5>2. Copies(r)' = 2 => sender.tries = 2
          BY <1>2, <3>5, <4>3
        <5>3. QED
          BY <2>7, <5>1, <5>2
      <4>5. Copies(r)' <= 2
        BY <1>2, <3>5, <4>3
      <4>6. QED
        BY <2>9, <3>2, <4>1, <4>2, <4>3, <4>4, <4>5
    <3>8. QED
      BY <3>6, <3>7
  <2>14. OpenedInv'
    BY <2>7 DEF RepeatInv, OpenedInv
  <2>15. QED
    BY <1>3, <2>10, <2>11, <2>12, <2>13, <2>14 DEF RepeatInv
<1>7. QED
  BY <1>5, <1>6

LEMMA ServeRepeats ==
    ASSUME RepeatInv, NEW c \in DOMAIN conn, Serve(c), UNCHANGED reconVars
    PROVE  RepeatInv'
<1>1. /\ ReconnectInv /\ conn \in Seq(Connection) /\ conn[c].in # <<>>
      /\ PlaceInv /\ TriesInv /\ CountInv /\ DoneInv
      /\ DOMAIN served = Calls /\ \A s \in Calls : served[s] \in Nat
      /\ UNCHANGED call /\ UNCHANGED <<sender, answer, requests>>
  BY DEF RepeatInv, ReconnectInv, TypeInv, Serve, reconVars
<1>2. ReconnectInv'
  BY <1>1, ServeKeeps
<1>3. conn' \in Seq(Connection)
  BY <1>2 DEF ReconnectInv, TypeInv
<1>4. conn[c] \in Connection /\ conn[c].in \in Seq(Calls) /\ conn[c].out \in Seq(Frame)
  BY <1>1, ConnFields
<1>5. PICK r : r = Head(conn[c].in)
  OBVIOUS
<1>6. r \in Calls
  BY <1>1, <1>4, <1>5, OneFrame
<1>7. PICK ok \in BOOLEAN :
        /\ served' = IF ok THEN [served EXCEPT ![r] = @ + 1] ELSE served
        /\ conn' = [conn EXCEPT ![c].in = Tail(@),
                       ![c].out = IF conn[c].up = "up"
                                  THEN Append(@, [of |-> r, ok |-> ok]) ELSE @]
  BY <1>5 DEF Serve
<1>8. /\ \A q \in Calls : q # r => served'[q] = served[q]
      /\ \A q \in Calls : served'[q] \in Nat /\ served[q] <= served'[q]
      /\ served'[r] <= served[r] + 1 /\ (ok => served'[r] > 0)
  BY <1>1, <1>6, <1>7
<1>9. PICK fr, rest : /\ fr = [of |-> r, ok |-> ok]
                      /\ rest = IF conn[c].up = "up" THEN Append(conn[c].out, fr)
                                ELSE conn[c].out
  OBVIOUS
<1>10. PICK new : new = [conn[c] EXCEPT !.in = Tail(conn[c].in), !.out = rest]
  OBVIOUS
<1>11. new.in = Tail(conn[c].in) /\ new.out = rest
  <2>1. \A x, y : [conn[c] EXCEPT !.in = x, !.out = y] =
                     [up |-> conn[c].up, in |-> x, out |-> y, late |-> conn[c].late]
    BY <1>4, InOutChanged, Zenon
  <2>2. new = [up |-> conn[c].up, in |-> Tail(conn[c].in), out |-> rest, late |-> conn[c].late]
    BY <1>10, <2>1, Zenon
  <2>3. QED
    BY <2>2
<1>12. conn' = [conn EXCEPT ![c] = new]
  <2>1. conn' = [conn EXCEPT ![c] = [conn[c] EXCEPT !.in = Tail(conn[c].in), !.out = rest]]
    BY <1>7, <1>9
  <2>2. QED
    BY <1>10, <2>1
<1>13. /\ DOMAIN conn' = DOMAIN conn /\ Len(conn') = Len(conn) /\ Len(conn) \in Nat
       /\ conn'[c] = new /\ \A d \in DOMAIN conn : d # c => conn'[d] = conn[d]
  BY <1>1, <1>3, <1>12, ConnEdited
<1>14. /\ \A q \in Calls : (Held(q)' <=> Held(q)) /\ (Fresh(q)' <=> Fresh(q))
                           /\ (Queued(q)' <=> Queued(q))
       /\ Allowed' = Allowed
  BY <1>1 DEF Held, Fresh, Queued, Allowed
<1>15. PlaceInv'
  BY <1>1, <1>14 DEF PlaceInv
<1>16. TriesInv' /\ OpenedInv'
  BY <1>1, <1>13 DEF TriesInv, RepeatInv, OpenedInv
<1>17. CountInv'
  <2>1. ASSUME NEW q \in Calls
        PROVE  /\ IsFiniteSet(Waiting(conn', q))
               /\ served'[q] + Cardinality(Waiting(conn', q)) <= Copies(q)
    <3>1. PICK s, t : s = conn /\ t = conn'
      OBVIOUS
    <3>2. /\ c \in DOMAIN s /\ DOMAIN t = DOMAIN s /\ s[c].in \in Seq(Calls) /\ s[c].in # <<>>
          /\ t[c].in = Tail(s[c].in) /\ \A d \in DOMAIN s : d # c => t[d].in = s[d].in
          /\ IsFiniteSet(Waiting(s, q)) /\ r = Head(s[c].in)
      BY <1>1, <1>4, <1>5, <1>11, <1>13, <3>1 DEF CountInv
    <3>3. /\ IsFiniteSet(Waiting(t, q))
          /\ Cardinality(Waiting(t, q)) <= Cardinality(Waiting(s, q))
          /\ q = Head(s[c].in) => Cardinality(Waiting(t, q)) + 1 <= Cardinality(Waiting(s, q))
      BY <3>2, WaitingServed
    <3>4. Cardinality(Waiting(t, q)) \in Nat /\ Cardinality(Waiting(s, q)) \in Nat
      BY <3>2, <3>3, FS_CardinalityType
    <3>5. Copies(q) = served[q] + Cardinality(Waiting(s, q))
      BY <3>1 DEF Copies
    <3>6. served'[q] + Cardinality(Waiting(t, q)) <= served[q] + Cardinality(Waiting(s, q))
      <4>1. served[q] \in Nat /\ served'[q] \in Nat
        BY <1>1, <1>8
      <4>2. CASE q = r
        BY <1>8, <3>2, <3>3, <3>4, <4>1, <4>2
      <4>3. CASE q # r
        BY <1>8, <3>3, <3>4, <4>1, <4>3
      <4>4. QED
        BY <4>2, <4>3
    <3>7. QED
      BY <3>1, <3>3, <3>5, <3>6
  <2>2. \A q \in Calls : (Fresh(q) \/ Queued(q))' => Fresh(q) \/ Queued(q)
    BY <1>14
  <2>3. \A q \in Calls : Held(q)' => Allowed' \in Nat /\ Copies(q) <= Allowed'
    <3>1. sender.pc \in Busy => Allowed \in Nat
      <4>1. sender.tries \in {1, 2} => Allowed \in {0, 1, 2}
        BY DEF Allowed
      <4>2. QED
        BY <1>1, <4>1 DEF TriesInv
    <3>2. \A q \in Calls : Held(q) => sender.pc \in Busy /\ Copies(q) <= Allowed
      BY <1>1 DEF Held, CountInv
    <3>3. QED
      BY <1>14, <3>1, <3>2
  <2>4. Len(conn) <= Len(conn') /\ Len(conn') \in Nat
    BY <1>13
  <2>5. QED
    BY <1>1, <1>8, <1>13, <2>1, <2>2, <2>3, <2>4, CountStep
<1>18. DoneInv'
  <2>1. ASSUME NEW x, Done(x) PROVE Done(x)'
    BY <1>1, <1>8, <2>1 DEF Done
  <2>2. ASSUME NEW d \in DOMAIN conn', NEW i \in DOMAIN conn'[d].out, conn'[d].out[i].ok
        PROVE  Done(conn[d].out[i].of)'
    <3>1. PICK x : x = conn'[d].out[i].of
      OBVIOUS
    <3>2. CASE i \in DOMAIN conn[d].out /\ conn'[d].out[i] = conn[d].out[i]
      <4>1. Done(x)
        BY <1>1, <1>13, <2>2, <3>1, <3>2 DEF DoneInv
      <4>2. Done(x)'
        BY <2>1, <4>1
      <4>3. QED
        BY <3>1, <4>2 DEF Done
    <3>3. CASE conn'[d].out[i] = fr
      <4>1. x = r /\ ok
        BY <1>9, <2>2, <3>1, <3>3
      <4>2. QED
        BY <1>6, <1>8, <3>1, <4>1 DEF Done
    <3>4. CASE d # c
      BY <1>13, <2>2, <3>2, <3>4
    <3>5. CASE d = c
      <4>1. CASE rest = conn[c].out
        BY <1>11, <1>13, <2>2, <3>2, <3>5, <4>1
      <4>2. CASE rest = Append(conn[c].out, fr)
        <5>1. fr \in Frame
          BY <1>6, <1>9 DEF Frame
        <5>2. /\ DOMAIN conn[c].out = 1 .. Len(conn[c].out) /\ Len(conn[c].out) \in Nat
              /\ DOMAIN rest = 1 .. Len(conn[c].out) + 1 /\ rest[Len(conn[c].out) + 1] = fr
              /\ \A k \in 1 .. Len(conn[c].out) : rest[k] = conn[c].out[k]
          BY <1>4, <4>2, <5>1, AppendProperties, LenProperties
        <5>3. conn'[d].out = rest
          BY <1>11, <1>13, <3>5
        <5>4. i \in 1 .. Len(conn[c].out) \/ i = Len(conn[c].out) + 1
          BY <2>2, <5>2, <5>3
        <5>5. QED
          BY <3>2, <3>3, <3>5, <5>2, <5>3, <5>4
      <4>3. QED
        BY <1>9, <4>1, <4>2
    <3>6. QED
      BY <3>4, <3>5
  <2>3. ASSUME NEW q \in Calls
        PROVE  /\ answer'[q].err = "ok" => Done(answer[q].of)'
               /\ call'[q].result = "ok" => Done(call[q].of)'
    <3>1. PICK x, y : x = answer[q].of /\ y = call[q].of
      OBVIOUS
    <3>2. (answer[q].err = "ok" => Done(x)) /\ (call[q].result = "ok" => Done(y))
      BY <1>1, <3>1 DEF DoneInv
    <3>3. (answer[q].err = "ok" => Done(x)') /\ (call[q].result = "ok" => Done(y)')
      BY <2>1, <3>2
    <3>4. answer'[q].of = x /\ call'[q].of = y
      BY <1>1, <3>1
    <3>5. QED
      BY <1>1, <3>3, <3>4 DEF Done
  <2>4. QED
    BY <2>2, <2>3 DEF DoneInv
<1>19. QED
  BY <1>2, <1>15, <1>16, <1>17, <1>18 DEF RepeatInv

-----------------------------------------------------------------------------
(* The theorem.                                                            *)

LEMMA RepeatInitHolds ==
    ReconnectInit => RepeatInv
<1> SUFFICES ASSUME ReconnectInit PROVE RepeatInv
  OBVIOUS
<1>1. /\ ReconnectInv /\ conn = <<FreshConn>> /\ requests = <<>> /\ sender = Idle
      /\ answer = [r \in Calls |-> NoAnswer] /\ served = [r \in Calls |-> 0]
      /\ call = [r \in Calls |-> [pc |-> "new", ctx |-> ContextOf[r], over |-> FALSE,
                                  result |-> "none", of |-> "none"]]
  BY ReconnectInitHolds DEF ReconnectInit, ClientInit
<1>2. sender.pc \notin Busy /\ \A r \in Calls : ~Held(r)
  BY <1>1 DEF Idle, Busy, Held
<1>3. \A r \in Calls : ~Queued(r)
  BY <1>1 DEF Queued
<1>4. PlaceInv
  BY <1>1, <1>2, <1>3 DEF PlaceInv, NoAnswer
<1>5. TriesInv /\ OpenedInv
  BY <1>1, <1>2 DEF TriesInv, OpenedInv
<1>6. ASSUME NEW r \in Calls PROVE IsFiniteSet(Waiting(conn, r)) /\ Copies(r) = 0
  <2>1. DOMAIN conn = {1} /\ conn[1].in = <<>>
    BY <1>1 DEF FreshConn
  <2>2. \A p : p \notin Waiting(conn, r)
    BY <2>1, WaitingIs
  <2>3. Waiting(conn, r) = {}
    BY <2>2
  <2>4. IsFiniteSet({}) /\ Cardinality({}) = 0
    BY FS_EmptySet
  <2>5. Copies(r) = 0 + 0
    BY <1>1, <2>3, <2>4 DEF Copies
  <2>6. QED
    BY <2>3, <2>4, <2>5
<1>7. CountInv
  <2>1. \A r \in Calls : Copies(r) <= 2 /\ Copies(r) # 2
    BY <1>6
  <2>2. QED
    BY <1>2, <1>6, <2>1 DEF CountInv
<1>8. DoneInv
  <2>1. \A c \in DOMAIN conn : DOMAIN conn[c].out = {}
    BY <1>1 DEF FreshConn
  <2>2. QED
    BY <1>1, <2>1 DEF DoneInv, NoAnswer
<1>9. QED
  BY <1>1, <1>4, <1>5, <1>7, <1>8 DEF RepeatInv

LEMMA RepeatStep ==
    RepeatInv /\ [ReconnectNext]_reconnectVars => RepeatInv'
<1> SUFFICES ASSUME RepeatInv, [ReconnectNext]_reconnectVars PROVE RepeatInv'
  OBVIOUS
<1>1. ReconnectInv'
  BY ReconnectStepKeeps DEF RepeatInv
<1>2. ASSUME NEW r \in Calls, Caller(r) \/ (ContextOver(r) /\ UNCHANGED reconVars)
      PROVE  RepeatInv'
  BY <1>2, CheckRepeats, TrySendRepeats, WaitTopRepeats, WaitEndRepeats, ContextOverRepeats
     DEF Caller
<1>3. CASE SenderThread
  BY <1>3, SelectRequestRepeats, SelectShutdownRepeats, DrainRepeats, RunWriteRepeats,
     RunReadRepeats, ReconnectCheckRepeats, ReconnectDialRepeats, SleepRepeats DEF SenderThread
<1>4. CASE Closer
  <2>1. CASE CloseSwap \/ CloseSend
    <3>1. UNCHANGED <<conn, sender, answer, served, call, requests>>
      BY <2>1 DEF CloseSwap, CloseSend, clientVars
    <3>2. QED
      BY <1>1, <3>1, SameRepeats
  <2>2. QED
    BY <1>4, <2>1, CloseJoinRepeats DEF Closer
<1>5. CASE Network
  BY <1>5, ServeRepeats, BreakRepeats DEF Network
<1>6. CASE UNCHANGED reconnectVars
  <2>1. UNCHANGED <<conn, sender, answer, served, call, requests>>
    BY <1>6 DEF reconnectVars, reconVars, clientVars
  <2>2. QED
    BY <1>1, <2>1, SameRepeats
<1>7. QED
  BY <1>2, <1>3, <1>4, <1>5, <1>6 DEF ReconnectNext

LEMMA InvImpliesRepeated ==
    RepeatInv => RepeatedAtMostOnce
<1> SUFFICES ASSUME RepeatInv, NEW r \in Calls
             PROVE  /\ Copies(r) <= 2
                    /\ Copies(r) = 2 => Len(conn) > 1
                    /\ (call[r].result = "full" \/ call[r].pc \in {"new", "checked"}
                            \/ r \in Range(requests)) => Copies(r) = 0
                    /\ (call[r].result = "ok" /\ call[r].of = r) => served[r] > 0
  BY DEF RepeatedAtMostOnce
<1>1. r \in Range(requests) => Queued(r)
  BY DEF Range, Queued
<1>2. QED
  BY <1>1 DEF RepeatInv, CountInv, DoneInv, Done, Fresh

\* A request is carried out twice at most, whatever the server, the network and
\* close() do while process_request (reconnect.rs) retries it: twice only after a
\* connection was given up, never when it was refused, still waits in the queue or
\* was not queued yet, and at least once when it returned its result.
THEOREM RepeatsCorrect == ReconnectSpec => []RepeatedAtMostOnce
<1>1. ReconnectSpec => []RepeatInv
  BY RepeatInitHolds, RepeatStep, PTL DEF ReconnectSpec
<1>2. QED
  BY <1>1, InvImpliesRepeated, PTL

-----------------------------------------------------------------------------
(* Following a context: the turns of the server.                           *)

TurnRecord == [parent : Nat, depth : Nat]

\* Every turn is below an earlier one, or the first of its branch.
TreeShape(ts, n) ==
    /\ ts \in Seq(TurnRecord) /\ Len(ts) = n
    /\ \A t \in 1 .. n : ts[t].parent \in 0 .. t - 1
    /\ \A t \in 1 .. n :
          ts[t].depth = IF ts[t].parent = 0 THEN 0 ELSE ts[ts[t].parent].depth + 1

\* The path to every turn of any such tree.
Paths(ts) ==
    CHOOSE f : f = [n \in 0 .. Len(ts) |-> IF n = 0 THEN <<>> ELSE Append(f[ts[n].parent], n)]

LEMMA ChainIsPath == Chain = Paths(turns)[head]
BY DEF Chain, Paths

LEMMA TreeFacts ==
    ASSUME NEW n \in Nat, NEW ts, TreeShape(ts, n)
    PROVE  /\ DOMAIN ts = 1 .. n
           /\ \A t \in 1 .. n : ts[t].depth \in Nat /\ ts[t].parent \in Nat
<1>1. ts \in Seq(TurnRecord) /\ Len(ts) = n
  BY DEF TreeShape
<1>2. DOMAIN ts = 1 .. n /\ \A t \in 1 .. n : ts[t] \in TurnRecord
  BY <1>1
<1> QED
  BY <1>2 DEF TurnRecord

LEMMA PathsDefined ==
    ASSUME NEW n \in Nat, NEW ts, TreeShape(ts, n)
    PROVE  /\ Paths(ts)[0] = <<>>
           /\ \A t \in 1 .. n : Paths(ts)[t] = Append(Paths(ts)[ts[t].parent], t)
<1> DEFINE Def(f) == f = [t \in 0 .. Len(ts) |->
                              IF t = 0 THEN <<>> ELSE Append(f[ts[t].parent], t)]
<1>0. Len(ts) = n /\ \A t \in 1 .. n : ts[t].parent \in 0 .. t - 1
  BY DEF TreeShape
<1>1. PICK link : link = [t \in 1 .. n |-> ts[t].parent]
  OBVIOUS
<1>2. PICK step : step = [t \in 1 .. n |-> [v \in Seq(1 .. n) |-> Append(v, t)]]
  OBVIOUS
<1>3. \A t \in 1 .. n : link[t] = ts[t].parent /\ link[t] \in 0 .. t - 1
  BY <1>0, <1>1
<1>4. \A t \in 1 .. n : \A v \in Seq(1 .. n) : step[t][v] = Append(v, t)
  BY <1>2
<1>5. PICK S : S = Seq(1 .. n)
  OBVIOUS
<1>6. Descends(link, n) /\ StepsIn(step, n, S) /\ <<>> \in S
  <2>1. \A t \in 1 .. n : \A v \in S : step[t][v] \in S
    <3> SUFFICES ASSUME NEW t \in 1 .. n, NEW v \in Seq(1 .. n)
                 PROVE  step[t][v] \in Seq(1 .. n)
      BY <1>5
    <3>1. Append(v, t) \in Seq(1 .. n)
      OBVIOUS
    <3> QED
      BY <1>4, <3>1
  <2>2. <<>> \in S
    BY <1>5
  <2> QED
    BY <1>3, <2>1, <2>2 DEF Descends, StepsIn
<1>7. PICK f : IsWalk(f, n, S, <<>>, link, step)
  BY <1>6, WalkExists
<1>8. /\ f \in [0 .. n -> Seq(1 .. n)] /\ f[0] = <<>>
      /\ \A t \in 1 .. n : f[t] = step[t][f[link[t]]]
  BY <1>5, <1>7 DEF IsWalk
<1>9. \A t \in 1 .. n : f[t] = Append(f[ts[t].parent], t)
  <2> TAKE t \in 1 .. n
  <2>1. link[t] \in 0 .. n
    BY <1>3
  <2>2. f[link[t]] \in Seq(1 .. n)
    BY <1>8, <2>1
  <2> QED
    BY <1>3, <1>4, <1>8, <2>2
<1>10. Def(f)
  <2>1. \A t \in 0 .. n : f[t] = IF t = 0 THEN <<>> ELSE Append(f[ts[t].parent], t)
    BY <1>8, <1>9
  <2>2. f = [t \in 0 .. n |-> f[t]]
    BY <1>8
  <2> QED
    BY <1>0, <2>1, <2>2
<1>11. Def(CHOOSE g : Def(g))
  <2> HIDE DEF Def
  <2> QED
    BY <1>10, Zenon
<1>12. PICK g : g = Paths(ts) /\ Def(g)
  BY <1>11 DEF Paths
<1>13. g = [t \in 0 .. n |-> IF t = 0 THEN <<>> ELSE Append(g[ts[t].parent], t)]
  BY <1>0, <1>12
<1>14. \A t \in 0 .. n : g[t] = IF t = 0 THEN <<>> ELSE Append(g[ts[t].parent], t)
  BY <1>13, Zenon
<1>15. 0 \in 0 .. n /\ \A t \in 1 .. n : t \in 0 .. n /\ t # 0
  OBVIOUS
<1>16. g[0] = <<>>
  BY <1>14, <1>15, Zenon
<1>17. \A t \in 1 .. n : g[t] = Append(g[ts[t].parent], t)
  BY <1>14, <1>15, Zenon
<1> QED
  BY <1>12, <1>16, <1>17

\* The turn at place i of a path is at depth i - 1.
IsPath(ts, n, t, c) ==
    /\ c \in Seq(1 .. n) /\ Len(c) = (IF t = 0 THEN 0 ELSE ts[t].depth + 1)
    /\ \A i \in 1 .. Len(c) : ts[c[i]].depth = i - 1

LEMMA PathsArePaths ==
    ASSUME NEW n \in Nat, NEW ts, TreeShape(ts, n)
    PROVE  \A t \in 0 .. n : IsPath(ts, n, t, Paths(ts)[t])
<1> DEFINE S == {t \in 0 .. n : IsPath(ts, n, t, Paths(ts)[t])}
<1>1. ASSUME NEW t \in 0 .. n, \A m \in 0 .. t - 1 : m \in S
      PROVE  t \in S
  <2>1. CASE t = 0
    <3>1. Paths(ts)[t] = <<>>
      BY <2>1, PathsDefined
    <3>2. <<>> \in Seq(1 .. n) /\ Len(<<>>) = 0 /\ 1 .. 0 = {}
      OBVIOUS
    <3>3. IsPath(ts, n, t, <<>>)
      BY <2>1, <3>2 DEF IsPath
    <3> QED
      BY <3>1, <3>3
  <2>2. CASE t # 0
    <3>1. t \in 1 .. n
      BY <2>2
    <3>2. PICK p \in 0 .. t - 1 : p = ts[t].parent
      BY <3>1 DEF TreeShape
    <3>3. PICK c : c = Paths(ts)[p] /\ IsPath(ts, n, p, c)
      BY <1>1, <3>2
    <3>4. Paths(ts)[t] = Append(c, t)
      BY <3>1, <3>2, <3>3, PathsDefined
    <3>5. ts[t].depth = (IF p = 0 THEN 0 ELSE ts[p].depth + 1) /\ ts[t].depth \in Nat
      BY <3>1, <3>2, TreeFacts DEF TreeShape
    <3>6. c \in Seq(1 .. n) /\ Len(c) = ts[t].depth /\ \A i \in 1 .. Len(c) : ts[c[i]].depth = i - 1
      BY <3>3, <3>5 DEF IsPath
    <3>7. PICK d : d = Append(c, t)
      OBVIOUS
    <3>8. /\ d \in Seq(1 .. n) /\ Len(d) = Len(c) + 1 /\ d[Len(c) + 1] = t
          /\ \A i \in 1 .. Len(c) : d[i] = c[i]
      BY <3>1, <3>6, <3>7
    <3>9. ASSUME NEW i \in 1 .. Len(d)
          PROVE  ts[d[i]].depth = i - 1
      <4>1. CASE i = Len(c) + 1
        <5>1. d[i] = t /\ i - 1 = Len(c)
          BY <3>8, <4>1
        <5> QED
          BY <3>6, <5>1
      <4>2. CASE i # Len(c) + 1
        <5>1. i \in 1 .. Len(c)
          BY <3>5, <3>6, <3>8, <4>2
        <5> QED
          BY <3>6, <3>8, <5>1
      <4> QED
        BY <4>1, <4>2
    <3> QED
      BY <2>2, <3>4, <3>6, <3>7, <3>8, <3>9 DEF IsPath
  <2> QED
    BY <2>1, <2>2
<1>2. \A t \in 0 .. n : t \in S
  <2> HIDE DEF S
  <2> QED
    BY <1>1, SetInduction
<1> QED
  BY <1>2

\* Every turn is below the one before it.
Straight(ts, n) == \A t \in 1 .. n : ts[t].parent = t - 1

LEMMA StraightPaths ==
    ASSUME NEW n \in Nat, NEW ts, TreeShape(ts, n), Straight(ts, n)
    PROVE  \A t \in 0 .. n : /\ Len(Paths(ts)[t]) = t
                             /\ \A i \in 1 .. t : Paths(ts)[t][i] = i
                             /\ t > 0 => ts[t].depth = t - 1
<1> DEFINE P(t) == /\ Len(Paths(ts)[t]) = t
                   /\ \A i \in 1 .. t : Paths(ts)[t][i] = i
                   /\ t > 0 => ts[t].depth = t - 1
           S == {t \in 0 .. n : P(t)}
<1>1. ASSUME NEW t \in 0 .. n, \A m \in 0 .. t - 1 : m \in S
      PROVE  t \in S
  <2>1. CASE t = 0
    BY <2>1, PathsDefined
  <2>2. CASE t # 0
    <3>1. t \in 1 .. n /\ t - 1 \in 0 .. n /\ t - 1 \in 0 .. t - 1 /\ ts[t].parent = t - 1
      BY <2>2 DEF Straight
    <3>2. PICK c : c = Paths(ts)[t - 1] /\ c \in Seq(1 .. n)
      BY <3>1, PathsArePaths DEF IsPath
    <3>3. Paths(ts)[t] = Append(c, t)
      BY <3>1, <3>2, PathsDefined
    <3>4. P(t - 1)
      BY <1>1, <3>1
    <3>5. Len(c) = t - 1 /\ \A i \in 1 .. t - 1 : c[i] = i
      BY <3>2, <3>4
    <3>6. PICK d : d = Append(c, t)
      OBVIOUS
    <3>7. Len(d) = t /\ d[t] = t /\ \A i \in 1 .. t - 1 : d[i] = c[i]
      BY <3>1, <3>2, <3>5, <3>6
    <3>8. \A i \in 1 .. t : d[i] = i
      BY <3>5, <3>7
    <3>9. ts[t].depth = t - 1
      <4>1. ts[t].depth = IF t - 1 = 0 THEN 0 ELSE ts[t - 1].depth + 1
        BY <3>1 DEF TreeShape
      <4>2. t - 1 # 0 => ts[t - 1].depth = t - 2
        BY <3>1, <3>4
      <4> QED
        BY <3>1, <4>1, <4>2
    <3>10. P(t)
      BY <3>3, <3>6, <3>7, <3>8, <3>9
    <3> QED
      BY <3>10
  <2> QED
    BY <2>1, <2>2
<1>2. \A t \in 0 .. n : t \in S
  <2> HIDE DEF S
  <2> QED
    BY <1>1, SetInduction
<1> QED
  BY <1>2

\* The end of the path to the head, without its first turns.
EndOfPath(s, n, m, base) ==
    /\ s \in Seq(1 .. n)
    /\ head # 0 => base = IF turns[head].depth + 1 > m THEN turns[head].depth + 1 - m ELSE 0
    /\ Len(s) = (IF head = 0 THEN 0 ELSE turns[head].depth + 1) - base
    /\ \A i \in 1 .. Len(s) : turns[s[i]].depth = base + i - 1
    /\ Straight(turns, n) => \A i \in 1 .. Len(s) : s[i] = base + i

\* GET_LAST answers with it.
LEMMA LastTurnsFacts ==
    ASSUME NEW n \in Nat, TreeShape(turns, n), head \in 0 .. n, NEW m \in Nat
    PROVE  \E base \in Nat : EndOfPath(LastTurns(m), n, m, base)
<1>1. PICK c : c = Chain /\ IsPath(turns, n, head, c)
  BY ChainIsPath, PathsArePaths
<1>2. PICK len \in Nat : len = Len(c) /\ c \in Seq(1 .. n)
  BY <1>1 DEF IsPath
<1>3. PICK base \in 0 .. len : base = IF len > m THEN len - m ELSE 0
  BY <1>2
<1>4. PICK s : s = SubSeq(c, base + 1, len)
  OBVIOUS
<1>5. LastTurns(m) = s
  <2>1. (IF len > m THEN len - m + 1 ELSE 1) = base + 1
    BY <1>2, <1>3
  <2> QED
    BY <1>1, <1>2, <1>4, <2>1 DEF LastTurns
<1>6. /\ s \in Seq(1 .. n) /\ Len(s) = len - base
      /\ \A i \in 1 .. Len(s) : base + i \in 1 .. len /\ s[i] = c[base + i]
  <2>1. \A i \in base + 1 .. len : c[i] \in 1 .. n
    BY <1>2
  <2>2. base + 1 \in Int /\ len \in Int
    OBVIOUS
  <2>3. /\ s \in Seq(1 .. n) /\ Len(s) = IF base + 1 <= len THEN len - (base + 1) + 1 ELSE 0
        /\ \A i \in 1 .. len - (base + 1) + 1 : s[i] = c[(base + 1) + i - 1]
    BY <1>4, <2>1, <2>2, SubSeqProperties
  <2>4. Len(s) = len - base /\ len - (base + 1) + 1 = len - base
    BY <2>3
  <2>5. \A i \in 1 .. Len(s) : base + i \in 1 .. len /\ (base + 1) + i - 1 = base + i
    BY <2>4
  <2> QED
    BY <2>3, <2>4, <2>5
<1>7. ASSUME NEW i \in 1 .. Len(s)
      PROVE  turns[s[i]].depth = base + i - 1
  <2>1. base + i \in 1 .. Len(c) /\ s[i] = c[base + i]
    BY <1>2, <1>6
  <2>2. turns[c[base + i]].depth = (base + i) - 1
    BY <1>1, <2>1 DEF IsPath
  <2> QED
    BY <2>1, <2>2
<1>8. len = IF head = 0 THEN 0 ELSE turns[head].depth + 1
  BY <1>1, <1>2 DEF IsPath
<1>9. ASSUME Straight(turns, n), NEW i \in 1 .. Len(s)
      PROVE  s[i] = base + i
  <2>1. len = head /\ \A j \in 1 .. head : c[j] = j
    BY <1>1, <1>2, <1>9, ChainIsPath, StraightPaths
  <2> QED
    BY <1>6, <2>1
<1>10. head # 0 => base = IF turns[head].depth + 1 > m THEN turns[head].depth + 1 - m ELSE 0
  <2> SUFFICES ASSUME head # 0
               PROVE  base = IF turns[head].depth + 1 > m THEN turns[head].depth + 1 - m ELSE 0
    OBVIOUS
  <2>1. len = turns[head].depth + 1 /\ turns[head].depth \in Nat
    BY <1>8, TreeFacts
  <2> QED
    BY <1>3, <2>1
<1>11. EndOfPath(s, n, m, base)
  BY <1>6, <1>7, <1>8, <1>9, <1>10 DEF EndOfPath
<1> QED
  BY <1>3, <1>5, <1>11
-----------------------------------------------------------------------------
(* The follower.                                                           *)

\* The window of seen turns is the end of what was emitted.
Window(o, seen, n) ==
    /\ o \in Seq(1 .. n) /\ seen \in Seq(1 .. n)
    /\ Len(seen) <= Len(o) /\ Len(seen) <= MaxSeen
    /\ Len(seen) < MaxSeen => Len(seen) = Len(o)
    /\ \A i \in 1 .. Len(seen) : seen[i] = o[Len(o) - Len(seen) + i]
    /\ \A i, j \in 1 .. Len(o) : i < j /\ o[i] = o[j] => j - i > MaxSeen

\* What get_head and get_last found begins below the last turn emitted.
Ordered(ts, f, st, o, n) ==
    /\ \A i, j \in 1 .. Len(o) : i < j => ts[o[i]].depth < ts[o[j]].depth
    /\ o # <<>> => st.lastDepth = ts[o[Len(o)]].depth
    /\ (f.pc = "last" /\ o # <<>>) => st.lastDepth + f.missing <= ts[n].depth
    /\ f.pc = "emit" =>
          /\ \A i, j \in 1 .. Len(f.todo) : i < j => ts[f.todo[i]].depth < ts[f.todo[j]].depth
          /\ o # <<>> => \A i \in 1 .. Len(f.todo) : st.lastDepth < ts[f.todo[i]].depth

\* And where the head never moved otherwise, at the turn after it.
Gapless(f, o, n) ==
    /\ \A i \in 1 .. Len(o) : o[i] = i
    /\ f.pc = "last" => n = 0 \/ f.missing = n - Len(o)
    /\ f.pc = "emit" => \A i \in 1 .. Len(f.todo) : f.todo[i] = Len(o) + i

FollowShape(ts, h, f, st, o, r, n) ==
    /\ TreeShape(ts, n) /\ h = n /\ r \in BOOLEAN
    /\ DOMAIN f = {"pc", "missing", "todo"}
    /\ f.pc = "last" => f.missing \in Nat
    /\ f.pc = "emit" => f.todo \in Seq(1 .. n)
    /\ st.hasLast = (o # <<>>) /\ st.lastDepth \in Nat
    /\ Window(o, st.seen, n)
    /\ (~r \/ Straight(ts, n)) => Ordered(ts, f, st, o, n)
    /\ (~r /\ Straight(ts, n)) => Gapless(f, o, n)

FollowInv == \E n \in Nat : FollowShape(turns, head, fol, state, out, raced, n)
LEMMA FollowInitInv == FollowInit => FollowInv
<1> SUFFICES ASSUME FollowInit
             PROVE  FollowShape(turns, head, fol, state, out, raced, 0)
  BY DEF FollowInv
<1>1. turns = <<>> /\ head = 0 /\ fol = AtRest /\ state = NewFollowState /\ out = <<>> /\ ~raced
      /\ raced \in BOOLEAN
  BY DEF FollowInit
<1>2. TreeShape(<<>>, 0)
  BY DEF TreeShape
<1>3. Window(<<>>, <<>>, 0)
  BY FollowAssumption DEF Window
<1>4. DOMAIN fol = {"pc", "missing", "todo"} /\ fol.pc = "recv"
  BY <1>1 DEF AtRest
<1>5. state.seen = <<>> /\ state.hasLast = FALSE /\ state.lastDepth = 0
  BY <1>1 DEF NewFollowState
<1>6. Ordered(turns, fol, state, out, 0) /\ Gapless(fol, out, 0)
  BY <1>1, <1>4 DEF Ordered, Gapless
<1>7. state.hasLast = (out # <<>>)
  BY <1>1, <1>5
<1> QED
  BY <1>1, <1>2, <1>3, <1>4, <1>5, <1>6, <1>7 DEF FollowShape

LEMMA FollowGivesProperty == FollowInv => EmittedInOrder
<1> SUFFICES ASSUME NEW n \in Nat, FollowShape(turns, head, fol, state, out, raced, n)
             PROVE  EmittedInOrder
  BY DEF FollowInv
<1>1. TreeShape(turns, n) /\ Window(out, state.seen, n)
  BY DEF FollowShape
<1>2. DOMAIN turns = 1 .. n
  BY <1>1, TreeFacts
<1>3. out \in Seq(1 .. n) /\ DOMAIN out = 1 .. Len(out)
      /\ \A i, j \in 1 .. Len(out) : i < j /\ out[i] = out[j] => j - i > MaxSeen
  BY <1>1 DEF Window
<1>4. \A i \in DOMAIN out : out[i] \in 1 .. n /\ DepthOf(out[i]) = turns[out[i]].depth
  BY <1>2, <1>3 DEF DepthOf
<1>5. ~Branched <=> Straight(turns, n)
  BY <1>2 DEF Branched, Straight
<1>6. (~raced \/ ~Branched) =>
          \A i, j \in DOMAIN out : i < j => DepthOf(out[i]) < DepthOf(out[j])
  <2> SUFFICES ASSUME ~raced \/ Straight(turns, n)
               PROVE  \A i, j \in DOMAIN out : i < j => DepthOf(out[i]) < DepthOf(out[j])
    BY <1>5
  <2>1. Ordered(turns, fol, state, out, n)
    BY DEF FollowShape
  <2> QED
    BY <1>3, <1>4, <2>1 DEF Ordered
<1>7. (~raced /\ ~Branched) =>
          \A i \in DOMAIN out : turns[out[i]].parent = IF i = 1 THEN 0 ELSE out[i - 1]
  <2> SUFFICES ASSUME ~raced, Straight(turns, n), NEW i \in DOMAIN out
               PROVE  turns[out[i]].parent = IF i = 1 THEN 0 ELSE out[i - 1]
    BY <1>5
  <2>1. \A j \in 1 .. Len(out) : out[j] = j
    BY DEF FollowShape, Gapless
  <2>2. out[i] = i /\ turns[i].parent = i - 1
    BY <1>3, <1>4, <2>1 DEF Straight
  <2>3. i # 1 => i - 1 \in 1 .. Len(out)
    BY <1>3
  <2> QED
    BY <1>3, <2>1, <2>2, <2>3
<1> QED
  BY <1>3, <1>6, <1>7 DEF EmittedInOrder

\* Between its requests the follower promises nothing about the next turns.
LEMMA AtRestKeeps ==
    ASSUME NEW n \in Nat, FollowShape(turns, head, fol, state, out, raced, n),
           NEW f, DOMAIN f = {"pc", "missing", "todo"}, f.pc \in {"recv", "head"}
    PROVE  FollowShape(turns, head, f, state, out, raced, n)
<1>1. Ordered(turns, fol, state, out, n) => Ordered(turns, f, state, out, n)
  BY DEF Ordered
<1>2. Gapless(fol, out, n) => Gapless(f, out, n)
  BY DEF Gapless
<1> QED
  BY <1>1, <1>2 DEF FollowShape

NewTurn(ts, p) == [parent |-> p, depth |-> IF p = 0 THEN 0 ELSE ts[p].depth + 1]
Grown(us, ts, p) == us = Append(ts, NewTurn(ts, p))

\* append_turn: the turns that are there keep their place.
LEMMA TreeGrows ==
    ASSUME NEW n \in Nat, NEW ts, TreeShape(ts, n), NEW p \in 0 .. n,
           NEW us, Grown(us, ts, p)
    PROVE  /\ TreeShape(us, n + 1) /\ \A t \in 1 .. n : us[t] = ts[t]
           /\ us[n + 1].parent = p
           /\ us[n + 1].depth = IF p = 0 THEN 0 ELSE ts[p].depth + 1
<1>1. PICK new : new = NewTurn(ts, p)
  OBVIOUS
<1>2. \A t \in 1 .. n : ts[t].depth \in Nat
  BY TreeFacts
<1>3. new \in TurnRecord /\ new.parent = p /\ new.depth = IF p = 0 THEN 0 ELSE ts[p].depth + 1
  <2>1. (IF p = 0 THEN 0 ELSE ts[p].depth + 1) \in Nat
    <3>1. CASE p = 0
      BY <3>1
    <3>2. CASE p # 0
      <4>1. p \in 1 .. n
        BY <3>2
      <4> QED
        BY <1>2, <3>2, <4>1
    <3> QED
      BY <3>1, <3>2
  <2> QED
    BY <1>1, <2>1 DEF TurnRecord, NewTurn
<1>4. ts \in Seq(TurnRecord) /\ Len(ts) = n
  BY DEF TreeShape
<1>5. /\ us \in Seq(TurnRecord) /\ Len(us) = n + 1 /\ us[n + 1] = new
      /\ \A t \in 1 .. n : us[t] = ts[t]
  <2>1. us = Append(ts, new)
    BY <1>1 DEF Grown
  <2> QED
    BY <1>3, <1>4, <2>1
<1>6. ASSUME NEW t \in 1 .. n + 1
      PROVE  /\ us[t].parent \in 0 .. t - 1
             /\ us[t].depth = IF us[t].parent = 0 THEN 0 ELSE us[us[t].parent].depth + 1
  <2>1. CASE t = n + 1
    <3>1. us[t].parent = p /\ us[t].depth = IF p = 0 THEN 0 ELSE ts[p].depth + 1
      BY <1>3, <1>5, <2>1
    <3>2. p # 0 => us[p] = ts[p]
      BY <1>5
    <3>3. p \in 0 .. t - 1
      BY <2>1
    <3> QED
      BY <2>1, <3>1, <3>2, <3>3
  <2>2. CASE t # n + 1
    <3>1. t \in 1 .. n
      BY <2>2
    <3>2. us[t] = ts[t] /\ ts[t].parent \in 0 .. t - 1
          /\ ts[t].depth = IF ts[t].parent = 0 THEN 0 ELSE ts[ts[t].parent].depth + 1
      BY <1>5, <3>1 DEF TreeShape
    <3>3. ts[t].parent # 0 => us[ts[t].parent] = ts[ts[t].parent]
      BY <1>5, <3>1, <3>2
    <3> QED
      BY <3>2, <3>3
  <2> QED
    BY <2>1, <2>2
<1>7. TreeShape(us, n + 1)
  BY <1>5, <1>6 DEF TreeShape
<1> QED
  BY <1>3, <1>5, <1>7

LEMMA AppendTurnKeeps ==
    ASSUME NEW n \in Nat, FollowShape(turns, head, fol, state, out, raced, n),
           NEW p \in 0 .. n, AppendTurn(p)
    PROVE  FollowShape(turns', head', fol', state', out', raced', n + 1)
<1>1. PICK us, r : us = turns' /\ r = raced'
  OBVIOUS
<1>2. /\ TreeShape(turns, n) /\ head = n /\ raced \in BOOLEAN
      /\ DOMAIN fol = {"pc", "missing", "todo"}
      /\ fol.pc = "last" => fol.missing \in Nat
      /\ fol.pc = "emit" => fol.todo \in Seq(1 .. n)
      /\ state.hasLast = (out # <<>>) /\ state.lastDepth \in Nat
      /\ Window(out, state.seen, n)
  BY DEF FollowShape
<1>3. /\ Grown(us, turns, p)
      /\ head' = n + 1 /\ r = (raced \/ fol.pc = "last")
      /\ fol' = fol /\ state' = state /\ out' = out
  BY <1>1, <1>2 DEF AppendTurn, TreeShape, Grown, NewTurn
<1>4. /\ TreeShape(us, n + 1) /\ \A t \in 1 .. n : us[t] = turns[t]
      /\ us[n + 1].parent = p
      /\ us[n + 1].depth = IF p = 0 THEN 0 ELSE turns[p].depth + 1
  BY <1>2, <1>3, TreeGrows
<1>5. Straight(us, n + 1) => Straight(turns, n) /\ p = n
  BY <1>4 DEF Straight
<1>6. out \in Seq(1 .. n) /\ state.seen \in Seq(1 .. n)
  BY <1>2 DEF Window
<1>7. Window(out, state.seen, n + 1)
  <2>1. out \in Seq(1 .. n + 1) /\ state.seen \in Seq(1 .. n + 1)
    BY <1>6
  <2> QED
    BY <1>2, <2>1 DEF Window
<1>8. fol.pc = "emit" => fol.todo \in Seq(1 .. n + 1)
  BY <1>2
<1>9. ASSUME ~r \/ Straight(us, n + 1)
      PROVE  Ordered(us, fol, state, out, n + 1)
  <2>1. Ordered(turns, fol, state, out, n)
    BY <1>3, <1>5, <1>9 DEF FollowShape
  <2>2. \A i \in 1 .. Len(out) : us[out[i]] = turns[out[i]]
    BY <1>4, <1>6
  <2>3. fol.pc = "emit" => \A i \in 1 .. Len(fol.todo) : us[fol.todo[i]] = turns[fol.todo[i]]
    BY <1>2, <1>4
  <2>4. out # <<>> => Len(out) \in 1 .. Len(out)
    BY <1>6
  <2>5. ASSUME fol.pc = "last", out # <<>>
        PROVE  state.lastDepth + fol.missing <= us[n + 1].depth
    <3>1. p = n
      BY <1>3, <1>5, <1>9, <2>5
    <3>2. n # 0 /\ n \in 1 .. n
      BY <1>6, <2>5
    <3>3. us[n + 1].depth = turns[n].depth + 1 /\ turns[n].depth \in Nat
      BY <1>2, <1>4, <3>1, <3>2, TreeFacts
    <3>4. state.lastDepth + fol.missing <= turns[n].depth
      BY <2>1, <2>5 DEF Ordered
    <3> QED
      BY <1>2, <2>5, <3>3, <3>4
  <2> QED
    BY <2>1, <2>2, <2>3, <2>4, <2>5 DEF Ordered
<1>10. ASSUME ~r, Straight(us, n + 1)
       PROVE  Gapless(fol, out, n + 1)
  <2>1. Gapless(fol, out, n)
    BY <1>3, <1>5, <1>10 DEF FollowShape
  <2>2. fol.pc # "last"
    BY <1>3, <1>10
  <2> QED
    BY <2>1, <2>2 DEF Gapless
<1>11. r \in BOOLEAN
  BY <1>3
<1>12. FollowShape(us, n + 1, fol, state, out, r, n + 1)
  BY <1>2, <1>4, <1>7, <1>8, <1>9, <1>10, <1>11 DEF FollowShape
<1> QED
  BY <1>1, <1>3, <1>12
\* record_turn: the window moves on with what is emitted, and what is emitted
\* was not in it.
Recorded(o, seen, t, b, w) ==
    /\ b = Append(o, t)
    /\ LET a == Append(seen, t) IN w = IF Len(a) > MaxSeen THEN Tail(a) ELSE a

LEMMA WindowMoves ==
    ASSUME NEW n \in Nat, NEW o, NEW seen, Window(o, seen, n), NEW t \in 1 .. n,
           t \notin Range(seen), NEW b, NEW w, Recorded(o, seen, t, b, w)
    PROVE  Window(b, w, n)
<1>0. MaxSeen \in Nat /\ MaxSeen > 0
  BY FollowAssumption
<1>1. PICK k, l : k = Len(o) /\ l = Len(seen)
  OBVIOUS
<1> k \in Nat /\ l \in Nat
  BY <1>1 DEF Window
<1>2. /\ o \in Seq(1 .. n) /\ seen \in Seq(1 .. n) /\ l <= k /\ l <= MaxSeen
      /\ l < MaxSeen => l = k
      /\ \A i \in 1 .. l : seen[i] = o[k - l + i]
      /\ \A i, j \in 1 .. k : i < j /\ o[i] = o[j] => j - i > MaxSeen
  BY <1>1 DEF Window
<1>3. PICK a : /\ b = Append(o, t) /\ a = Append(seen, t)
               /\ w = IF Len(a) > MaxSeen THEN Tail(a) ELSE a
  BY DEF Recorded
<1>4. /\ b \in Seq(1 .. n) /\ Len(b) = k + 1 /\ b[k + 1] = t
      /\ \A i \in 1 .. k : b[i] = o[i]
  BY <1>1, <1>2, <1>3
<1>5. /\ a \in Seq(1 .. n) /\ Len(a) = l + 1 /\ a[l + 1] = t
      /\ \A i \in 1 .. l : a[i] = seen[i]
  BY <1>1, <1>2, <1>3
<1>6. ASSUME NEW i \in 1 .. k, o[i] = t
      PROVE  (k + 1) - i > MaxSeen
  <2>1. SUFFICES ASSUME (k + 1) - i <= MaxSeen
                 PROVE  FALSE
    BY <1>0
  <2>2. i > k - l
    BY <1>0, <1>2, <2>1
  <2>3. i - (k - l) \in 1 .. l /\ (k - l) + (i - (k - l)) = i
    BY <1>2, <2>2
  <2>4. seen[i - (k - l)] = t
    BY <1>2, <1>6, <2>3
  <2>5. DOMAIN seen = 1 .. l
    BY <1>1, <1>2
  <2> QED
    BY <2>3, <2>4, <2>5 DEF Range
<1>7. ASSUME NEW i \in 1 .. k + 1, NEW j \in 1 .. k + 1, i < j, b[i] = b[j]
      PROVE  j - i > MaxSeen
  <2>1. i \in 1 .. k
    BY <1>7
  <2>2. CASE j = k + 1
    BY <1>4, <1>6, <1>7, <2>1, <2>2
  <2>3. CASE j # k + 1
    <3>1. j \in 1 .. k
      BY <2>3
    <3> QED
      BY <1>2, <1>4, <1>7, <2>1, <3>1
  <2> QED
    BY <2>2, <2>3
<1>8. CASE Len(a) > MaxSeen
  <2>1. l = MaxSeen
    BY <1>0, <1>2, <1>5, <1>8
  <2>2. PICK s : s = Tail(a)
    OBVIOUS
  <2>3. s \in Seq(1 .. n) /\ Len(s) = l /\ \A i \in 1 .. l : s[i] = a[i + 1]
    <3>1. a # <<>> /\ Len(a) - 1 = l
      BY <1>5
    <3>2. /\ s \in Seq(1 .. n) /\ Len(s) = Len(a) - 1
          /\ \A i \in 1 .. Len(s) : s[i] = a[i + 1]
      BY <1>5, <2>2, <3>1, HeadTailProperties
    <3> QED
      BY <3>1, <3>2
  <2>4. ASSUME NEW i \in 1 .. l
        PROVE  s[i] = b[(k + 1) - l + i]
    <3>1. CASE i = l
      <4>1. (k + 1) - l + i = k + 1
        BY <3>1
      <4> QED
        BY <1>4, <1>5, <2>3, <3>1, <4>1
    <3>2. CASE i # l
      <4>0. l <= k
        BY <1>2
      <4>1. i + 1 \in 1 .. l /\ (k + 1) - l + i = k - l + (i + 1) /\ k - l + (i + 1) \in 1 .. k
        BY <3>2, <4>0
      <4>2. s[i] = seen[i + 1] /\ seen[i + 1] = o[k - l + (i + 1)]
        BY <1>2, <1>5, <2>3, <4>1
      <4> QED
        BY <1>4, <4>1, <4>2
    <3> QED
      BY <3>1, <3>2
  <2>5. Window(b, s, n)
    BY <1>0, <1>2, <1>4, <1>7, <2>1, <2>3, <2>4 DEF Window
  <2> QED
    BY <1>3, <1>8, <2>2, <2>5
<1>9. CASE ~(Len(a) > MaxSeen)
  <2>1. l = k /\ l + 1 <= MaxSeen
    BY <1>0, <1>2, <1>5, <1>9
  <2>2. ASSUME NEW i \in 1 .. k + 1
        PROVE  a[i] = b[(k + 1) - (k + 1) + i]
    <3>1. (k + 1) - (k + 1) + i = i
      OBVIOUS
    <3>2. CASE i = k + 1
      BY <1>4, <1>5, <2>1, <3>1, <3>2
    <3>3. CASE i # k + 1
      <4>1. i \in 1 .. k /\ k - l + i = i
        BY <2>1, <3>3
      <4> QED
        BY <1>2, <1>4, <1>5, <2>1, <3>1, <4>1
    <3> QED
      BY <3>2, <3>3
  <2>3. Window(b, a, n)
    BY <1>0, <1>4, <1>5, <1>7, <2>1, <2>2 DEF Window
  <2> QED
    BY <1>3, <1>9, <2>3
<1> QED
  BY <1>8, <1>9

LEMMA GetHeadKeeps ==
    ASSUME NEW n \in Nat, FollowShape(turns, head, fol, state, out, raced, n), GetHead
    PROVE  FollowShape(turns, head, fol', state, out, raced, n)
<1>1. /\ TreeShape(turns, n) /\ head = n /\ DOMAIN fol = {"pc", "missing", "todo"}
      /\ state.hasLast = (out # <<>>) /\ state.lastDepth \in Nat
      /\ Window(out, state.seen, n)
  BY DEF FollowShape
<1>2. PICK depth, m, f : depth = DepthOf(head) /\ m = Missing(depth) /\ f = fol'
  OBVIOUS
<1>3. f = IF (state.hasLast /\ depth < state.lastDepth) \/ m = 0 THEN AtRest
          ELSE [fol EXCEPT !.pc = "last", !.missing = m]
  BY <1>2 DEF GetHead
<1>4. CASE f = AtRest
  <2>1. DOMAIN f = {"pc", "missing", "todo"} /\ f.pc = "recv"
    BY <1>4 DEF AtRest
  <2> QED
    BY <1>2, <2>1, AtRestKeeps
<1>5. CASE ~((state.hasLast /\ depth < state.lastDepth) \/ m = 0)
  <2>1. f.pc = "last" /\ f.missing = m /\ DOMAIN f = {"pc", "missing", "todo"}
    BY <1>1, <1>3, <1>5
  <2>2. out \in Seq(1 .. n) /\ state.seen \in Seq(1 .. n)
    BY <1>1 DEF Window
  <2>3. out # <<>> => n # 0 /\ n \in 1 .. n
    BY <2>2
  <2>4. out # <<>> => state.seen # <<>>
    <3>1. out # <<>> => Len(out) > 0
      BY <2>2
    <3>2. state.seen = <<>> => Len(state.seen) = 0
      OBVIOUS
    <3> QED
      BY <1>1, <3>1, <3>2, FollowAssumption DEF Window
  <2>5. depth \in Nat /\ (n # 0 => depth = turns[n].depth)
    <3>1. n # 0 => n \in DOMAIN turns /\ turns[n].depth \in Nat
      BY <1>1, TreeFacts
    <3>2. n = 0 => n \notin DOMAIN turns
      BY <1>1, TreeFacts
    <3> QED
      BY <1>1, <1>2, <3>1, <3>2 DEF DepthOf
  <2>6. out = <<>> => m = depth + 1
    BY <1>1, <1>2 DEF Missing
  <2>7. out # <<>> => m = depth - state.lastDepth /\ depth > state.lastDepth
    BY <1>1, <1>2, <1>5, <2>4, <2>5 DEF Missing
  <2>8. m \in Nat
    BY <1>1, <2>5, <2>6, <2>7
  <2>9. ASSUME Ordered(turns, fol, state, out, n)
        PROVE  Ordered(turns, f, state, out, n)
    <3>1. out # <<>> => state.lastDepth + m <= turns[n].depth
      BY <1>1, <2>3, <2>5, <2>7
    <3> QED
      BY <2>1, <2>9, <3>1 DEF Ordered
  <2>10. ASSUME Ordered(turns, fol, state, out, n), Gapless(fol, out, n), Straight(turns, n)
         PROVE  Gapless(f, out, n)
    <3>1. n # 0 => depth = n - 1
      BY <1>1, <2>5, <2>10, StraightPaths
    <3>2. out # <<>> => state.lastDepth = Len(out) - 1
      <4> SUFFICES ASSUME out # <<>>
                   PROVE  state.lastDepth = Len(out) - 1
        OBVIOUS
      <4>1. Len(out) \in 1 .. Len(out) /\ out[Len(out)] \in 1 .. n
        BY <2>2
      <4>2. out[Len(out)] = Len(out) /\ state.lastDepth = turns[out[Len(out)]].depth
        BY <2>10, <4>1 DEF Ordered, Gapless
      <4>3. Len(out) \in 1 .. n
        BY <4>1, <4>2
      <4>4. turns[Len(out)].depth = Len(out) - 1
        BY <1>1, <2>10, <4>3, StraightPaths
      <4> QED
        BY <4>2, <4>4
    <3>3. out = <<>> => Len(out) = 0
      OBVIOUS
    <3>4. Len(out) \in Nat
      BY <2>2
    <3>5. n = 0 \/ m = n - Len(out)
      BY <2>3, <2>6, <2>7, <3>1, <3>2, <3>3, <3>4
    <3> QED
      BY <2>1, <2>10, <3>5 DEF Gapless
  <2>11. FollowShape(turns, head, f, state, out, raced, n)
    BY <1>1, <2>1, <2>8, <2>9, <2>10 DEF FollowShape
  <2> QED
    BY <1>2, <2>11
<1> QED
  BY <1>3, <1>4, <1>5

LEMMA GetLastKeeps ==
    ASSUME NEW n \in Nat, FollowShape(turns, head, fol, state, out, raced, n), GetLast
    PROVE  FollowShape(turns, head, fol', state, out, raced, n)
<1>1. /\ TreeShape(turns, n) /\ head = n /\ fol.pc = "last" /\ fol.missing \in Nat
      /\ state.hasLast = (out # <<>>) /\ state.lastDepth \in Nat
      /\ Window(out, state.seen, n)
  BY DEF FollowShape, GetLast
<1>2. PICK m \in Nat : m = fol.missing
  BY <1>1
<1>3. PICK s, f : s = LastTurns(m) /\ f = fol'
  OBVIOUS
<1>4. PICK base \in Nat : EndOfPath(s, n, m, base)
  BY <1>1, <1>3, LastTurnsFacts
<1>5. /\ s \in Seq(1 .. n)
      /\ n # 0 => base = IF turns[n].depth + 1 > m THEN turns[n].depth + 1 - m ELSE 0
      /\ n = 0 => Len(s) = 0 - base
      /\ \A i \in 1 .. Len(s) : turns[s[i]].depth = base + i - 1
      /\ Straight(turns, n) => \A i \in 1 .. Len(s) : s[i] = base + i
  BY <1>1, <1>4 DEF EndOfPath
<1>6. f.pc = "emit" /\ f.todo = s /\ DOMAIN f = {"pc", "missing", "todo"}
  BY <1>2, <1>3 DEF GetLast
<1>7. out \in Seq(1 .. n)
  BY <1>1 DEF Window
<1>8. n # 0 => turns[n].depth \in Nat
  BY <1>1, TreeFacts
<1>9. ASSUME Ordered(turns, fol, state, out, n)
      PROVE  Ordered(turns, f, state, out, n)
  <2>1. \A i, j \in 1 .. Len(s) : i < j => turns[s[i]].depth < turns[s[j]].depth
    BY <1>5
  <2>2. ASSUME out # <<>>, NEW i \in 1 .. Len(s)
        PROVE  state.lastDepth < turns[s[i]].depth
    <3>1. n # 0
      BY <1>7, <2>2
    <3>2. state.lastDepth + m <= turns[n].depth
      BY <1>1, <1>2, <1>9, <2>2 DEF Ordered
    <3>3. base > state.lastDepth
      <4>1. turns[n].depth \in Nat /\ state.lastDepth \in Nat
        BY <1>1, <1>8, <3>1
      <4>2. base = IF turns[n].depth + 1 > m THEN turns[n].depth + 1 - m ELSE 0
        BY <1>5, <3>1
      <4> QED
        BY <3>2, <4>1, <4>2
    <3> QED
      BY <1>1, <1>5, <3>3
  <2> QED
    BY <1>6, <1>9, <2>1, <2>2 DEF Ordered
<1>10. ASSUME Gapless(fol, out, n), Straight(turns, n)
       PROVE  Gapless(f, out, n)
  <2>1. \A i \in 1 .. Len(s) : n # 0
    BY <1>5
  <2>2. n # 0 => turns[n].depth = n - 1
    BY <1>1, <1>10, StraightPaths
  <2>3. n # 0 => m = n - Len(out)
    BY <1>1, <1>2, <1>10 DEF Gapless
  <2>4. Len(out) \in Nat
    BY <1>7
  <2>5. n # 0 => base = Len(out)
    BY <1>5, <2>2, <2>3, <2>4
  <2>6. \A i \in 1 .. Len(s) : s[i] = Len(out) + i
    BY <1>5, <1>10, <2>1, <2>5
  <2> QED
    BY <1>6, <1>10, <2>6 DEF Gapless
<1>11. FollowShape(turns, head, f, state, out, raced, n)
  BY <1>5, <1>6, <1>9, <1>10 DEF FollowShape
<1> QED
  BY <1>3, <1>11
LEMMA EmitKeeps ==
    ASSUME NEW n \in Nat, FollowShape(turns, head, fol, state, out, raced, n), Emit
    PROVE  FollowShape(turns, head, fol', state', out', raced, n)
<1>1. /\ TreeShape(turns, n) /\ fol.pc = "emit" /\ fol.todo \in Seq(1 .. n)
      /\ DOMAIN fol = {"pc", "missing", "todo"}
      /\ state.hasLast = (out # <<>>) /\ state.lastDepth \in Nat
      /\ Window(out, state.seen, n)
  BY DEF FollowShape, Emit
<1>2. CASE fol.todo = <<>>
  <2>1. fol' = AtRest /\ state' = state /\ out' = out
    BY <1>2 DEF Emit
  <2>2. PICK f : f = fol'
    OBVIOUS
  <2>3. DOMAIN f = {"pc", "missing", "todo"} /\ f.pc = "recv"
    BY <2>1, <2>2 DEF AtRest
  <2>4. FollowShape(turns, head, f, state, out, raced, n)
    BY <2>3, AtRestKeeps
  <2> QED
    BY <2>1, <2>2, <2>4
<1>3. CASE fol.todo # <<>>
  <2>1. PICK t, rest, f : t = Head(fol.todo) /\ rest = Tail(fol.todo) /\ f = fol'
    OBVIOUS
  <2>2. f = [fol EXCEPT !.todo = Tail(@)]
    BY <1>3, <2>1 DEF Emit
  <2>3. f.pc = "emit" /\ f.todo = rest /\ DOMAIN f = {"pc", "missing", "todo"}
    BY <1>1, <2>1, <2>2
  <2>4. /\ t \in 1 .. n /\ t = fol.todo[1] /\ 1 \in 1 .. Len(fol.todo)
        /\ rest \in Seq(1 .. n) /\ Len(rest) = Len(fol.todo) - 1
        /\ \A i \in 1 .. Len(rest) : rest[i] = fol.todo[i + 1] /\ i + 1 \in 1 .. Len(fol.todo)
    <3>1. /\ rest \in Seq(1 .. n) /\ Len(rest) = Len(fol.todo) - 1
          /\ \A i \in 1 .. Len(rest) : rest[i] = fol.todo[i + 1]
          /\ t \in 1 .. n
      BY <1>1, <1>3, <2>1, HeadTailProperties
    <3>2. t = fol.todo[1] /\ Len(fol.todo) \in Nat /\ Len(fol.todo) > 0
      BY <1>1, <1>3, <2>1
    <3> QED
      BY <3>1, <3>2
  <2>5. ASSUME Ordered(turns, fol, state, out, n), NEW i \in 1 .. Len(rest),
               NEW j \in 1 .. Len(rest), i < j
        PROVE  turns[rest[i]].depth < turns[rest[j]].depth
    <3>1. /\ rest[i] = fol.todo[i + 1] /\ i + 1 \in 1 .. Len(fol.todo)
          /\ rest[j] = fol.todo[j + 1] /\ j + 1 \in 1 .. Len(fol.todo) /\ i + 1 < j + 1
      BY <2>4, <2>5
    <3> QED
      BY <1>1, <2>5, <3>1 DEF Ordered
  <2>6. ASSUME Ordered(turns, fol, state, out, n), out # <<>>, NEW i \in 1 .. Len(rest)
        PROVE  state.lastDepth < turns[rest[i]].depth
    BY <1>1, <2>4, <2>6 DEF Ordered
  <2>7. CASE t \in Range(state.seen)
    <3>1. state' = state /\ out' = out
      BY <1>3, <2>1, <2>7 DEF Emit
    <3>2. Ordered(turns, fol, state, out, n) => Ordered(turns, f, state, out, n)
      BY <1>1, <2>3, <2>4, <2>5, <2>6 DEF Ordered
    <3>3. ~Gapless(fol, out, n)
      <4> SUFFICES ASSUME Gapless(fol, out, n)
                   PROVE  FALSE
        OBVIOUS
      <4>1. t = Len(out) + 1
        BY <1>1, <2>4 DEF Gapless
      <4>2. PICK i \in DOMAIN state.seen : t = state.seen[i]
        BY <2>7 DEF Range
      <4>3. PICK k \in Nat, m \in Nat : k = Len(out) /\ m = Len(state.seen)
        BY <1>1 DEF Window
      <4>4. i \in 1 .. m /\ m <= k /\ t = out[k - m + i]
        <5>1. state.seen \in Seq(1 .. n) /\ m <= k
              /\ \A j \in 1 .. m : state.seen[j] = out[k - m + j]
          BY <1>1, <4>3 DEF Window
        <5>2. i \in 1 .. m
          BY <4>3, <5>1
        <5> QED
          BY <4>2, <5>1, <5>2
      <4>5. k - m + i \in 1 .. k
        BY <4>4
      <4>6. out[k - m + i] = k - m + i
        BY <4>3, <4>5 DEF Gapless
      <4> QED
        BY <4>1, <4>3, <4>4, <4>5, <4>6
    <3>4. FollowShape(turns, head, f, state, out, raced, n)
      BY <2>3, <2>4, <3>2, <3>3 DEF FollowShape
    <3> QED
      BY <2>1, <3>1, <3>4
  <2>8. CASE t \notin Range(state.seen)
    <3>1. PICK st, b, a : st = state' /\ b = Append(out, t) /\ a = Append(state.seen, t)
      OBVIOUS
    <3>2. st = RecordTurn(t) /\ out' = b
      BY <1>3, <2>1, <2>8, <3>1 DEF Emit
    <3>3. /\ st.hasLast = TRUE
          /\ st.lastDepth = IF ~state.hasLast \/ turns[t].depth >= state.lastDepth
                            THEN turns[t].depth ELSE state.lastDepth
          /\ st.seen = IF Len(a) > MaxSeen THEN Tail(a) ELSE a
      BY <3>1, <3>2 DEF RecordTurn
    <3>4. Window(b, st.seen, n)
      <4>1. Recorded(out, state.seen, t, b, st.seen)
        BY <3>1, <3>3 DEF Recorded
      <4> QED
        BY <1>1, <2>4, <2>8, <4>1, WindowMoves
    <3>5. PICK k \in Nat : k = Len(out) /\ out \in Seq(1 .. n)
      BY <1>1 DEF Window
    <3>6. /\ b \in Seq(1 .. n) /\ Len(b) = k + 1 /\ b[k + 1] = t /\ b # <<>>
          /\ \A i \in 1 .. k : b[i] = out[i] /\ out[i] \in 1 .. n
      <4>1. /\ b \in Seq(1 .. n) /\ Len(b) = k + 1 /\ b[k + 1] = t
            /\ \A i \in 1 .. k : b[i] = out[i]
        BY <2>4, <3>1, <3>5
      <4>2. b # <<>>
        BY <4>1
      <4>3. \A i \in 1 .. k : out[i] \in 1 .. n
        BY <3>5
      <4> QED
        BY <4>1, <4>2, <4>3
    <3>7. turns[t].depth \in Nat /\ \A u \in 1 .. n : turns[u].depth \in Nat
      BY <1>1, <2>4, TreeFacts
    <3>8. st.lastDepth \in Nat
      BY <1>1, <3>3, <3>7
    <3>9. ASSUME Ordered(turns, fol, state, out, n)
          PROVE  Ordered(turns, f, st, b, n)
      <4>1. out # <<>> => state.lastDepth < turns[t].depth
        BY <1>1, <2>4, <3>9 DEF Ordered
      <4>2. st.lastDepth = turns[t].depth
        <5>1. CASE out = <<>>
          BY <1>1, <3>3, <5>1
        <5>2. CASE out # <<>>
          BY <1>1, <3>3, <3>7, <4>1, <5>2
        <5> QED
          BY <5>1, <5>2
      <4>3. \A i \in 1 .. k : turns[out[i]].depth < turns[t].depth
        <5> TAKE i \in 1 .. k
        <5>1. out # <<>> /\ k \in 1 .. k
          BY <3>5
        <5>2. state.lastDepth = turns[out[k]].depth
          BY <3>5, <3>9, <5>1 DEF Ordered
        <5>3. i = k \/ turns[out[i]].depth < turns[out[k]].depth
          BY <3>5, <3>9, <5>1 DEF Ordered
        <5>4. out[i] \in 1 .. n /\ out[k] \in 1 .. n
          BY <3>6, <5>1
        <5> QED
          BY <3>7, <4>1, <5>1, <5>2, <5>3, <5>4
      <4>4. ASSUME NEW i \in 1 .. k + 1, NEW j \in 1 .. k + 1, i < j
            PROVE  turns[b[i]].depth < turns[b[j]].depth
        <5>1. i \in 1 .. k
          BY <4>4
        <5>2. CASE j = k + 1
          BY <3>6, <4>3, <5>1, <5>2
        <5>3. CASE j # k + 1
          <6>1. j \in 1 .. k
            BY <5>3
          <6> QED
            BY <3>5, <3>6, <3>9, <4>4, <5>1, <6>1 DEF Ordered
        <5> QED
          BY <5>2, <5>3
      <4>5. ASSUME NEW i \in 1 .. Len(rest)
            PROVE  turns[t].depth < turns[rest[i]].depth
        <5>1. rest[i] = fol.todo[i + 1] /\ i + 1 \in 1 .. Len(fol.todo)
          BY <2>4
        <5>2. 1 < i + 1
          OBVIOUS
        <5> QED
          BY <1>1, <2>4, <3>9, <5>1, <5>2 DEF Ordered
      <4> QED
        BY <2>3, <2>5, <3>6, <3>9, <4>2, <4>4, <4>5 DEF Ordered
    <3>10. ASSUME Gapless(fol, out, n)
           PROVE  Gapless(f, b, n)
      <4>1. t = k + 1
        BY <1>1, <2>4, <3>5, <3>10 DEF Gapless
      <4>2. \A i \in 1 .. k + 1 : b[i] = i
        BY <3>5, <3>6, <3>10, <4>1 DEF Gapless
      <4>3. ASSUME NEW i \in 1 .. Len(rest)
            PROVE  rest[i] = (k + 1) + i
        <5>1. rest[i] = fol.todo[i + 1] /\ i + 1 \in 1 .. Len(fol.todo)
          BY <2>4
        <5>2. fol.todo[i + 1] = k + (i + 1)
          BY <1>1, <3>5, <3>10, <5>1 DEF Gapless
        <5> QED
          BY <5>1, <5>2
      <4> QED
        BY <2>3, <3>6, <4>2, <4>3 DEF Gapless
    <3>11. st.hasLast = (b # <<>>)
      BY <3>3, <3>6
    <3>12. FollowShape(turns, head, f, st, b, raced, n)
      BY <2>3, <2>4, <3>4, <3>8, <3>9, <3>10, <3>11 DEF FollowShape
    <3> QED
      BY <2>1, <3>1, <3>2, <3>12
  <2> QED
    BY <2>7, <2>8
<1> QED
  BY <1>2, <1>3

\* What the rest of the system does leaves the follower as it is.
LEMMA OthersKeep ==
    ASSUME \/ AnnounceTurn \/ Streams \/ Connect \/ ReadEvent \/ StreamCut
           \/ UNCHANGED followAllVars
    PROVE  UNCHANGED <<turns, head, fol, state, out, raced>>
BY DEF AnnounceTurn, Streams, Connect, ReadEvent, StreamCut, followAllVars, serverVars, followVars

LEMMA FollowNextInv == FollowInv /\ [FollowNext]_followAllVars => FollowInv'
<1> SUFFICES ASSUME FollowInv, [FollowNext]_followAllVars
             PROVE  FollowInv'
  OBVIOUS
<1>0. PICK n \in Nat : FollowShape(turns, head, fol, state, out, raced, n)
  BY DEF FollowInv
<1>1. ASSUME NEW k \in Nat, FollowShape(turns', head', fol', state', out', raced', k)
      PROVE  FollowInv'
  BY <1>1 DEF FollowInv
<1>2. ASSUME NEW p \in 0 .. Len(turns), AppendTurn(p)
      PROVE  FollowInv'
  <2>1. Len(turns) = n /\ n + 1 \in Nat
    BY <1>0 DEF FollowShape, TreeShape
  <2>2. FollowShape(turns', head', fol', state', out', raced', n + 1)
    BY <1>0, <1>2, <2>1, AppendTurnKeeps
  <2> QED
    BY <1>1, <2>1, <2>2
<1>3. ASSUME FollowShape(turns, head, fol', state', out', raced, n),
             UNCHANGED <<turns, head, raced>>
      PROVE  FollowInv'
  BY <1>1, <1>3
<1>4. CASE Receive \/ RequestFails
  <2>1. UNCHANGED <<turns, head, raced, state, out>>
    BY <1>4 DEF Receive, RequestFails, followerKeeps, serverVars
  <2>2. PICK f : f = fol'
    OBVIOUS
  <2>3. f = fol \/ (DOMAIN f = {"pc", "missing", "todo"} /\ f.pc \in {"recv", "head"})
    <3>1. DOMAIN fol = {"pc", "missing", "todo"}
      BY <1>0 DEF FollowShape
    <3> QED
      BY <1>4, <2>2, <3>1 DEF Receive, RequestFails, AtRest
  <2>4. FollowShape(turns, head, f, state, out, raced, n)
    BY <1>0, <2>3, AtRestKeeps
  <2> QED
    BY <1>3, <2>1, <2>2, <2>4
<1>5. CASE GetHead
  <2>1. UNCHANGED <<turns, head, raced, state, out>>
    BY <1>5 DEF GetHead, followerKeeps, serverVars
  <2>2. FollowShape(turns, head, fol', state, out, raced, n)
    BY <1>0, <1>5, GetHeadKeeps
  <2> QED
    BY <1>3, <2>1, <2>2
<1>6. CASE GetLast
  <2>1. UNCHANGED <<turns, head, raced, state, out>>
    BY <1>6 DEF GetLast, followerKeeps, serverVars
  <2>2. FollowShape(turns, head, fol', state, out, raced, n)
    BY <1>0, <1>6, GetLastKeeps
  <2> QED
    BY <1>3, <2>1, <2>2
<1>7. CASE Emit
  <2>1. UNCHANGED <<turns, head, raced>>
    BY <1>7 DEF Emit, followerKeeps, serverVars
  <2>2. FollowShape(turns, head, fol', state', out', raced, n)
    BY <1>0, <1>7, EmitKeeps
  <2> QED
    BY <1>3, <2>1, <2>2
<1>8. CASE \/ AnnounceTurn \/ Streams \/ Connect \/ ReadEvent \/ StreamCut
           \/ UNCHANGED followAllVars
  <2>1. UNCHANGED <<turns, head, fol, state, out, raced>>
    BY <1>8, OthersKeep
  <2> QED
    BY <1>0, <1>1, <2>1
<1> QED
  BY <1>2, <1>4, <1>5, <1>6, <1>7, <1>8 DEF FollowNext, Server, Subscriber, Follower

\* However often the stream is cut, hints repeat and requests fail, a turn is
\* emitted again only after max_seen others, in order of depth unless the head
\* moved to another branch between get_head and get_last, and with no turn left
\* out unless the head moved between the two or to another branch
\* (FollowState::sync_context and record_turn).
THEOREM FollowedInOrder == FollowSpec => []EmittedInOrder
<1> QED
  BY FollowInitInv, FollowNextInv, FollowGivesProperty, PTL DEF FollowSpec

-----------------------------------------------------------------------------
(* The messages of the protocol: numbers, hashes and fields.               *)

\* The base of the bytes and the limit of a frame are numbers.
LEMMA BaseFacts == Base \in Nat /\ Base \in Int /\ Base >= 4 /\ Base > 0 /\ MaxFrame \in Nat
BY WireAssumption

\* A number is its lowest digit and the rest.
LEMMA DivMod == ASSUME NEW n \in Nat PROVE (n % Base) + Base * (n \div Base) = n
<1>0. Base \in Int /\ Base > 0
  BY BaseFacts
<1>1. n % Base = n - Base * (n \div Base)
  BY <1>0, Z3
<1>2. PICK p : p = Base * (n \div Base)
  OBVIOUS
<1>3. p \in Int
  <2>1. n \div Base \in Int
    BY <1>0
  <2> QED
    BY <1>0, <1>2, <2>1
<1>4. n % Base = n - p
  BY <1>1, <1>2, Zenon
<1>5. PICK r : r = n % Base
  OBVIOUS
<1>6. r = n - p
  BY <1>4, <1>5
<1>7. r + p = n
  BY <1>3, <1>6
<1> QED
  BY <1>2, <1>5, <1>7, Zenon

\* The rest of a number is no larger than the number.
LEMMA DivFacts == ASSUME NEW n \in Nat PROVE n \div Base \in Nat /\ n % Base \in Bytes /\ n \div Base <= n
BY BaseFacts DEF Bytes

\* A smaller number has a smaller rest.
LEMMA DivGrows == ASSUME NEW m \in Nat, NEW n \in Nat, m <= n PROVE m \div Base <= n \div Base
BY BaseFacts

\* A number of one digit, and one of two.
LEMMA DivSmall == ASSUME NEW n \in Nat, n < Base PROVE n \div Base = 0
BY BaseFacts

\* Nothing is left of a number of two digits without them.
LEMMA DivTwo == ASSUME NEW n \in Nat, n < Base * Base PROVE (n \div Base) \div Base = 0
<1>1. n \div Base \in Nat /\ n \div Base < Base
  BY BaseFacts
<1> QED
  BY <1>1, DivSmall

\* The widths of the types.
LEMMA Widths == /\ Width("u8") = 1 /\ Width("u16") = 2 /\ Width("bytes16") = 2 /\ Width("hash") = 2
                /\ Width("u32") = 4 /\ Width("bytes32") = 4 /\ Width("u64") = 5
BY DEF Width

High(n) == CHOOSE high : high = [i \in 0 .. Width("u64") |-> IF i = 0 THEN n ELSE high[i - 1] \div Base]

\* Shifted is the function of its definition.
LEMMA ShiftedIs == \A n, k : Shifted(n, k) = High(n)[k]
BY DEF Shifted, High

\* Each digit taken off divides by the base.
LEMMA ShiftedFacts ==
    ASSUME NEW n \in Nat
    PROVE  /\ Shifted(n, 0) = n
           /\ \A i \in 1 .. 5 : Shifted(n, i) = Shifted(n, i - 1) \div Base
           /\ \A i \in 0 .. 5 : Shifted(n, i) \in Nat
<1> DEFINE Def(f) == f = [i \in 0 .. Width("u64") |-> IF i = 0 THEN n ELSE f[i - 1] \div Base]
<1>1. PICK link : link = [i \in 1 .. 5 |-> i - 1]
  OBVIOUS
<1>2. PICK step : step = [i \in 1 .. 5 |-> [k \in Nat |-> k \div Base]]
  OBVIOUS
<1>3. \A i \in 1 .. 5 : link[i] = i - 1 /\ link[i] \in 0 .. i - 1
  BY <1>1
<1>4. \A i \in 1 .. 5 : \A k \in Nat : step[i][k] = k \div Base
  BY <1>2
<1>5. PICK f : IsWalk(f, 5, Nat, n, link, step)
  <2>1. Descends(link, 5)
    BY <1>3 DEF Descends
  <2>2. StepsIn(step, 5, Nat)
    BY <1>4, DivFacts DEF StepsIn
  <2> QED
    BY <2>1, <2>2, WalkExists
<1>6. f \in [0 .. 5 -> Nat] /\ f[0] = n /\ \A i \in 1 .. 5 : f[i] = step[i][f[link[i]]]
  BY <1>5 DEF IsWalk
<1>7. ASSUME NEW i \in 1 .. 5
      PROVE  f[i] = f[i - 1] \div Base
  <2>1. i - 1 \in 0 .. 5
    OBVIOUS
  <2>2. f[i - 1] \in Nat
    BY <1>6, <2>1
  <2> QED
    BY <1>3, <1>4, <1>6, <2>2
<1>8. Def(f)
  <2>1. f = [i \in 0 .. 5 |-> f[i]]
    BY <1>6
  <2>2. \A i \in 0 .. 5 : i # 0 => i \in 1 .. 5
    OBVIOUS
  <2>3. \A i \in 0 .. 5 : f[i] = IF i = 0 THEN n ELSE f[i - 1] \div Base
    BY <1>6, <1>7, <2>2
  <2> QED
    BY <2>1, <2>3, Widths
<1>9. Def(CHOOSE g : Def(g))
  <2> HIDE DEF Def
  <2> QED
    BY <1>8, Zenon
<1>10. PICK g : g = High(n) /\ Def(g)
  BY <1>9 DEF High
<1>11. \A i \in 0 .. 5 : g[i] = IF i = 0 THEN n ELSE g[i - 1] \div Base
  BY <1>10, Widths, Zenon
<1>12. g[0] = n
  BY <1>11
<1>13. \A i \in 1 .. 5 : g[i] = g[i - 1] \div Base
  <2>1. \A i \in 1 .. 5 : i \in 0 .. 5 /\ i # 0
    OBVIOUS
  <2> QED
    BY <1>11, <2>1
<1> DEFINE T == {i \in 0 .. 5 : g[i] \in Nat}
<1>14. ASSUME NEW i \in 0 .. 5, \A m \in 0 .. i - 1 : m \in T
       PROVE  i \in T
  <2>1. CASE i = 0
    BY <1>12, <2>1
  <2>2. CASE i # 0
    <3>1. i \in 1 .. 5 /\ i - 1 \in 0 .. i - 1
      BY <2>2
    <3>2. g[i - 1] \in Nat
      BY <1>14, <3>1
    <3> QED
      BY <1>13, <3>1, <3>2, DivFacts
  <2> QED
    BY <2>1, <2>2
<1>15. \A i \in 0 .. 5 : i \in T
  <2> HIDE DEF T
  <2> QED
    BY <1>14, SetInduction
<1> QED
  BY <1>10, <1>12, <1>13, <1>15, ShiftedIs

\* Nothing is left of a smaller number either.
LEMMA ShiftedGrows ==
    ASSUME NEW m \in Nat, NEW n \in Nat, m <= n, NEW w \in 0 .. 5
    PROVE  Shifted(m, w) <= Shifted(n, w)
<1> DEFINE T == {i \in 0 .. 5 : Shifted(m, i) <= Shifted(n, i)}
<1>1. ASSUME NEW i \in 0 .. 5, \A k \in 0 .. i - 1 : k \in T
      PROVE  i \in T
  <2>1. CASE i = 0
    BY <2>1, ShiftedFacts
  <2>2. CASE i # 0
    <3>1. i \in 1 .. 5 /\ i - 1 \in 0 .. i - 1 /\ i - 1 \in 0 .. 5
      BY <2>2
    <3>2. Shifted(m, i - 1) <= Shifted(n, i - 1)
      BY <1>1, <3>1
    <3>3. Shifted(m, i - 1) \in Nat /\ Shifted(n, i - 1) \in Nat
      BY <3>1, ShiftedFacts
    <3>4. Shifted(m, i) = Shifted(m, i - 1) \div Base /\ Shifted(n, i) = Shifted(n, i - 1) \div Base
      BY <3>1, ShiftedFacts
    <3>5. Shifted(m, i) <= Shifted(n, i)
      BY <3>2, <3>3, <3>4, DivGrows
    <3> QED
      BY <3>5
  <2> QED
    BY <2>1, <2>2
<1>2. \A i \in 0 .. 5 : i \in T
  <2> HIDE DEF T
  <2> QED
    BY <1>1, SetInduction
<1> QED
  BY <1>2

\* What is smaller than a number that fits also fits.
LEMMA SmallerFits ==
    ASSUME NEW m \in Nat, NEW n \in Nat, m <= n, NEW w \in 0 .. 5, Shifted(n, w) = 0
    PROVE  Shifted(m, w) = 0
<1>1. Shifted(m, w) \in Nat /\ Shifted(m, w) <= 0
  BY ShiftedGrows, ShiftedFacts
<1> QED
  BY <1>1

\* A number below the square of the base fits two digits and more.
LEMMA SmallFits ==
    ASSUME NEW n \in Nat, n < Base * Base, NEW w \in 2 .. 5
    PROVE  Shifted(n, w) = 0
<1>1. Shifted(n, 0) = n /\ Shifted(n, 1) = Shifted(n, 0) \div Base /\ Shifted(n, 2) = Shifted(n, 1) \div Base
      /\ Shifted(n, 3) = Shifted(n, 2) \div Base /\ Shifted(n, 4) = Shifted(n, 3) \div Base
      /\ Shifted(n, 5) = Shifted(n, 4) \div Base
  <2>1. 1 \in 1 .. 5 /\ 2 \in 1 .. 5 /\ 3 \in 1 .. 5 /\ 4 \in 1 .. 5 /\ 5 \in 1 .. 5
        /\ 1 - 1 = 0 /\ 2 - 1 = 1 /\ 3 - 1 = 2 /\ 4 - 1 = 3 /\ 5 - 1 = 4
    OBVIOUS
  <2> QED
    BY <2>1, ShiftedFacts
<1>2. Shifted(n, 2) = 0
  BY <1>1, DivTwo
<1>3. 0 \div Base = 0
  BY BaseFacts, DivSmall
<1>4. Shifted(n, 3) = 0 /\ Shifted(n, 4) = 0 /\ Shifted(n, 5) = 0
  BY <1>1, <1>2, <1>3
<1>5. w = 2 \/ w = 3 \/ w = 4 \/ w = 5
  OBVIOUS
<1> QED
  BY <1>2, <1>4, <1>5

\* Two digits hold every type of message.
LEMMA SquareOfBase == Base * Base \in Nat /\ Base * Base >= 16
<1>1. \A b \in Nat : b >= 4 => b * b \in Nat /\ b * b >= 16
  OBVIOUS
<1> QED
  BY <1>1, BaseFacts

\* The digits of a number are bytes.
LEMMA DigitsFacts ==
    ASSUME NEW n \in Nat, NEW w \in 0 .. 5
    PROVE  /\ Digits(n, w) \in Seq(Bytes) /\ Len(Digits(n, w)) = w
           /\ \A i \in 1 .. w : Digits(n, w)[i] = Shifted(n, i - 1) % Base
<1>1. \A i \in 1 .. w : i - 1 \in 0 .. 5 /\ Shifted(n, i - 1) \in Nat
  BY ShiftedFacts
<1>2. \A i \in 1 .. w : Shifted(n, i - 1) % Base \in Bytes
  BY <1>1, DivFacts
<1> QED
  BY <1>2 DEF Digits

Sums(bytes) == CHOOSE sum : sum = [i \in 0 .. Len(bytes) |->
                    IF i = 0 THEN 0 ELSE bytes[Len(bytes) + 1 - i] + Base * sum[i - 1]]

\* Number is the function of its definition.
LEMMA NumberIs == \A bytes : Number(bytes) = Sums(bytes)[Len(bytes)]
BY DEF Number, Sums

\* Reading what was written gives the number, if all its digits were.
LEMMA NumberOfDigits ==
    ASSUME NEW n \in Nat, NEW w \in 0 .. 5, Shifted(n, w) = 0
    PROVE  Number(Digits(n, w)) = n
<1>1. PICK d : d = Digits(n, w)
  OBVIOUS
<1>2. d \in Seq(Bytes) /\ Len(d) = w /\ \A i \in 1 .. w : d[i] = Shifted(n, i - 1) % Base
  BY <1>1, DigitsFacts
<1> DEFINE Def(f) == f = [i \in 0 .. Len(d) |-> IF i = 0 THEN 0 ELSE d[Len(d) + 1 - i] + Base * f[i - 1]]
<1>3. \A i \in 0 .. 5 : Shifted(n, i) \in Nat
  BY ShiftedFacts
<1>4. ASSUME NEW i \in 1 .. w
      PROVE  d[w + 1 - i] + Base * Shifted(n, w - (i - 1)) = Shifted(n, w - i)
  <2>1. w + 1 - i \in 1 .. w /\ (w + 1 - i) - 1 = w - i /\ w - i \in 0 .. 5 /\ w - (i - 1) = w + 1 - i
        /\ w + 1 - i \in 1 .. 5
    OBVIOUS
  <2>2. PICK k \in 0 .. 5 : k = w - i
    BY <2>1
  <2>3. PICK q \in Nat : q = Shifted(n, k)
    BY <1>3
  <2>4. d[w + 1 - i] = q % Base
    BY <1>2, <2>1, <2>2, <2>3
  <2>5. Shifted(n, w - (i - 1)) = q \div Base
    BY <2>1, <2>2, <2>3, ShiftedFacts
  <2>6. (q % Base) + Base * (q \div Base) = q
    BY DivMod
  <2> QED
    BY <2>2, <2>3, <2>4, <2>5, <2>6
<1>5. PICK f : f = [i \in 0 .. w |-> Shifted(n, w - i)]
  OBVIOUS
<1>6. \A i \in 0 .. w : f[i] = Shifted(n, w - i)
  BY <1>5
<1>7. f[0] = 0
  <2>1. 0 \in 0 .. w /\ w - 0 = w
    OBVIOUS
  <2> QED
    BY <1>6, <2>1
<1>8. ASSUME NEW i \in 1 .. w
      PROVE  f[i] = d[w + 1 - i] + Base * f[i - 1]
  <2>1. i \in 0 .. w /\ i - 1 \in 0 .. w
    OBVIOUS
  <2>2. f[i] = Shifted(n, w - i) /\ f[i - 1] = Shifted(n, w - (i - 1))
    BY <1>6, <2>1
  <2> QED
    BY <1>4, <2>2
<1>9. Def(f)
  <2>1. f = [i \in 0 .. w |-> f[i]]
    BY <1>5
  <2>2. \A i \in 0 .. w : i # 0 => i \in 1 .. w
    OBVIOUS
  <2>3. \A i \in 0 .. w : f[i] = IF i = 0 THEN 0 ELSE d[w + 1 - i] + Base * f[i - 1]
    BY <1>7, <1>8, <2>2
  <2> QED
    BY <1>2, <2>1, <2>3
<1>10. Def(CHOOSE g : Def(g))
  <2> HIDE DEF Def
  <2> QED
    BY <1>9, Zenon
<1>11. PICK g : g = Sums(d) /\ Def(g)
  BY <1>10 DEF Sums
<1>12. \A i \in 0 .. w : g[i] = IF i = 0 THEN 0 ELSE d[w + 1 - i] + Base * g[i - 1]
  BY <1>2, <1>11, Zenon
<1> DEFINE T == {i \in 0 .. w : g[i] = Shifted(n, w - i)}
<1>13. ASSUME NEW i \in 0 .. w, \A m \in 0 .. i - 1 : m \in T
       PROVE  i \in T
  <2>1. CASE i = 0
    <3>1. g[i] = 0 /\ Shifted(n, w - i) = 0
      <4>1. w - 0 = w
        OBVIOUS
      <4> QED
        BY <1>12, <2>1, <4>1
    <3> QED
      BY <3>1
  <2>2. CASE i # 0
    <3>1. i \in 1 .. w /\ i - 1 \in 0 .. i - 1
      BY <2>2
    <3>2. g[i - 1] = Shifted(n, w - (i - 1))
      BY <1>13, <3>1
    <3>3. g[i] = d[w + 1 - i] + Base * g[i - 1]
      BY <1>12, <2>2
    <3>4. g[i] = Shifted(n, w - i)
      BY <1>4, <3>1, <3>2, <3>3
    <3> QED
      BY <3>4
  <2> QED
    BY <2>1, <2>2
<1>14. \A i \in 0 .. w : i \in T
  <2> HIDE DEF T
  <2> QED
    BY <1>13, SetInduction
<1>15. g[w] = n
  <2>1. w \in 0 .. w /\ w - w = 0
    OBVIOUS
  <2> QED
    BY <1>14, <2>1, ShiftedFacts
<1> QED
  BY <1>1, <1>2, <1>11, <1>15, NumberIs

Checks(bytes) == CHOOSE sum : sum = [i \in 0 .. Len(bytes) |->
                    IF i = 0 THEN Len(bytes) ELSE sum[i - 1] + bytes[i]]

\* Blake3 is the function of its definition.
LEMMA Blake3Is == \A bytes : Blake3(bytes) = Digits(Checks(bytes)[Len(bytes)], Width("hash"))
BY DEF Blake3, Checks

\* A hash is a hash.
LEMMA Blake3Facts ==
    ASSUME NEW b \in Seq(Bytes)
    PROVE  Blake3(b) \in Seq(Bytes) /\ Len(Blake3(b)) = 2
<1> DEFINE Def(f) == f = [i \in 0 .. Len(b) |-> IF i = 0 THEN Len(b) ELSE f[i - 1] + b[i]]
<1>1. PICK N : N = Len(b)
  OBVIOUS
<1> N \in Nat
  BY <1>1
<1>2. \A i \in 1 .. N : b[i] \in Nat
  BY <1>1, BaseFacts DEF Bytes
<1>3. PICK link : link = [i \in 1 .. N |-> i - 1]
  OBVIOUS
<1>4. PICK step : step = [i \in 1 .. N |-> [k \in Nat |-> k + b[i]]]
  OBVIOUS
<1>5. \A i \in 1 .. N : link[i] = i - 1 /\ link[i] \in 0 .. i - 1
  BY <1>3
<1>6. \A i \in 1 .. N : \A k \in Nat : step[i][k] = k + b[i]
  BY <1>4
<1>7. PICK f : IsWalk(f, N, Nat, N, link, step)
  <2>1. Descends(link, N)
    BY <1>5 DEF Descends
  <2>2. \A i \in 1 .. N : \A k \in Nat : k + b[i] \in Nat
    BY <1>2
  <2>3. StepsIn(step, N, Nat)
    BY <1>6, <2>2 DEF StepsIn
  <2> QED
    BY <2>1, <2>3, WalkExists
<1>8. f \in [0 .. N -> Nat] /\ f[0] = N /\ \A i \in 1 .. N : f[i] = step[i][f[link[i]]]
  BY <1>7 DEF IsWalk
<1>9. ASSUME NEW i \in 1 .. N
      PROVE  f[i] = f[i - 1] + b[i]
  <2>1. i - 1 \in 0 .. N
    OBVIOUS
  <2>2. f[i - 1] \in Nat
    BY <1>8, <2>1
  <2> QED
    BY <1>5, <1>6, <1>8, <2>2
<1>10. Def(f)
  <2>1. f = [i \in 0 .. N |-> f[i]]
    BY <1>8
  <2>2. \A i \in 0 .. N : i # 0 => i \in 1 .. N
    OBVIOUS
  <2>3. \A i \in 0 .. N : f[i] = IF i = 0 THEN N ELSE f[i - 1] + b[i]
    BY <1>8, <1>9, <2>2
  <2> QED
    BY <1>1, <2>1, <2>3
<1>11. Def(CHOOSE g : Def(g))
  <2> HIDE DEF Def
  <2> QED
    BY <1>10, Zenon
<1>12. PICK g : g = Checks(b) /\ Def(g)
  BY <1>11 DEF Checks
<1>13. \A i \in 0 .. N : g[i] = IF i = 0 THEN N ELSE g[i - 1] + b[i]
  BY <1>1, <1>12, Zenon
<1> DEFINE T == {i \in 0 .. N : g[i] \in Nat}
<1>14. ASSUME NEW i \in 0 .. N, \A m \in 0 .. i - 1 : m \in T
       PROVE  i \in T
  <2>1. CASE i = 0
    BY <1>13, <2>1
  <2>2. CASE i # 0
    <3>1. i \in 1 .. N /\ i - 1 \in 0 .. i - 1
      BY <2>2
    <3>2. g[i - 1] \in Nat
      BY <1>14, <3>1
    <3>3. g[i] = g[i - 1] + b[i]
      BY <1>13, <2>2
    <3> QED
      BY <1>2, <3>1, <3>2, <3>3
  <2> QED
    BY <2>1, <2>2
<1>15. \A i \in 0 .. N : i \in T
  <2> HIDE DEF T
  <2> QED
    BY <1>14, SetInduction
<1>16. g[N] \in Nat
  BY <1>15
<1>17. Blake3(b) = Digits(g[N], 2)
  BY <1>1, <1>12, Blake3Is, Widths
<1>18. 2 \in 0 .. 5
  OBVIOUS
<1> QED
  BY <1>16, <1>17, <1>18, DigitsFacts

FieldTypes == {"u8", "u16", "u32", "u64", "hash", "bytes16", "bytes32"}
\* A value that can be written as a field, whether or not it fits, and one that
\* its field has room for.
Writable(type, v) ==
    IF type = "hash" THEN v \in Seq(Bytes) /\ Len(v) = 2
    ELSE IF IsBytes(type) THEN v \in Seq(Bytes) ELSE v \in Nat
Fitting(field, v) ==
    /\ field.type \in FieldTypes /\ Writable(field.type, v)
    /\ IsBytes(field.type) => Shifted(Len(v), Width(field.type)) = 0
    /\ field.type # "hash" /\ ~IsBytes(field.type) => Shifted(v, Width(field.type)) = 0
\* What there is of r agrees with w.
Begins(r, w) == \A i \in 1 .. Len(w) : i <= Len(r) => r[i] = w[i]

\* No type is wider than a u64.
LEMMA WidthRange == \A type \in FieldTypes : Width(type) \in 1 .. 5
BY DEF FieldTypes, Width

\* What a variable of the code holds can be written.
LEMMA ValueFacts ==
    ASSUME NEW type \in FieldTypes, NEW v, IsValue(type, v)
    PROVE  Writable(type, v) /\ (type # "hash" /\ ~IsBytes(type) => Shifted(v, Width(type)) = 0)
BY Widths DEF IsValue, Writable, IsBytes

\* A field is written as bytes, at least as many as its type is wide.
LEMMA WriteFacts ==
    ASSUME NEW field, field.type \in FieldTypes, NEW v, Writable(field.type, v)
    PROVE  /\ WriteField(field, v) \in Seq(Bytes)
           /\ Len(WriteField(field, v)) = Width(field.type) + (IF IsBytes(field.type) THEN Len(v) ELSE 0)
           /\ field.type = "hash" => WriteField(field, v) = v
           /\ IsBytes(field.type) => WriteField(field, v) = Digits(Len(v), Width(field.type)) \o v
           /\ field.type # "hash" /\ ~IsBytes(field.type) => WriteField(field, v) = Digits(v, Width(field.type))
<1>1. PICK w \in 1 .. 5 : w = Width(field.type)
  BY WidthRange
<1> w \in 0 .. 5
  OBVIOUS
<1>2. CASE field.type = "hash"
  BY <1>2, Widths DEF Writable, WriteField, IsBytes
<1>3. CASE IsBytes(field.type)
  <2>1. v \in Seq(Bytes) /\ Len(v) \in Nat /\ field.type # "hash"
    BY <1>3 DEF Writable, IsBytes
  <2>2. PICK d : d = Digits(Len(v), w)
    OBVIOUS
  <2>3. d \in Seq(Bytes) /\ Len(d) = w
    BY <2>1, <2>2, DigitsFacts
  <2>4. WriteField(field, v) = d \o v
    BY <1>1, <1>3, <2>1, <2>2 DEF WriteField
  <2>5. d \o v \in Seq(Bytes) /\ Len(d \o v) = w + Len(v)
    BY <2>1, <2>3
  <2> QED
    BY <1>1, <1>3, <2>1, <2>2, <2>4, <2>5
<1>4. CASE field.type # "hash" /\ ~IsBytes(field.type)
  <2>1. v \in Nat
    BY <1>4 DEF Writable
  <2>2. WriteField(field, v) = Digits(v, w)
    BY <1>1, <1>4 DEF WriteField
  <2>3. PICK d : d = Digits(v, w)
    OBVIOUS
  <2>4. d \in Seq(Bytes) /\ Len(d) = w
    BY <2>1, <2>3, DigitsFacts
  <2>5. w + 0 = w
    OBVIOUS
  <2> QED
    BY <1>1, <1>4, <2>2, <2>3, <2>4, <2>5
<1> QED
  BY <1>2, <1>3, <1>4

\* What begins with the bytes of a field is read as that field, or not at all.
LEMMA ReadFieldOf ==
    ASSUME NEW cursor, cursor.ok = TRUE, cursor.rest \in Seq(Bytes),
           NEW field, NEW v, Fitting(field, v), Begins(cursor.rest, WriteField(field, v))
    PROVE  ReadField(cursor, field) =
              IF Len(WriteField(field, v)) <= Len(cursor.rest)
              THEN [ok |-> TRUE,
                    rest |-> SubSeq(cursor.rest, Len(WriteField(field, v)) + 1, Len(cursor.rest)),
                    values |-> Bind(cursor.values, field.name, v)]
              ELSE Failed
<1>1. PICK r : r = cursor.rest
  OBVIOUS
<1>2. PICK w \in 1 .. 5 : w = Width(field.type)
  BY WidthRange DEF Fitting
<1> w \in 0 .. 5
  OBVIOUS
<1>3. PICK x : x = WriteField(field, v)
  OBVIOUS
<1>4. PICK number : number = Number(SubSeq(r, 1, w))
  OBVIOUS
<1>5. r \in Seq(Bytes) /\ x \in Seq(Bytes) /\ Len(r) \in Nat /\ Len(x) \in Nat
  BY <1>1, <1>3, WriteFacts DEF Fitting
<1>6. \A i \in 1 .. Len(x) : i <= Len(r) => r[i] = x[i]
  BY <1>1, <1>3 DEF Begins
<1>7. PICK size : size = IF IsBytes(field.type) THEN w + number ELSE w
  OBVIOUS
<1>8. PICK value : value = IF field.type = "hash" THEN SubSeq(r, 1, w)
                           ELSE IF IsBytes(field.type) THEN SubSeq(r, w + 1, size) ELSE number
  OBVIOUS
<1>9. ReadField(cursor, field) =
         IF Len(r) < w THEN Failed
         ELSE IF Len(r) < size THEN Failed
         ELSE [ok |-> TRUE, rest |-> SubSeq(r, size + 1, Len(r)),
               values |-> Bind(cursor.values, field.name, value)]
  BY <1>1, <1>2, <1>4, <1>7, <1>8 DEF ReadField
<1>10. w <= Len(x)
  <2>1. Len(x) = w + (IF IsBytes(field.type) THEN Len(v) ELSE 0)
    BY <1>2, <1>3, WriteFacts DEF Fitting
  <2>2. IsBytes(field.type) => Len(v) \in Nat
    BY DEF Fitting, Writable, IsBytes
  <2> QED
    BY <2>1, <2>2
<1>11. CASE Len(r) < w
  BY <1>1, <1>3, <1>5, <1>9, <1>10, <1>11
<1>12. CASE ~ (Len(r) < w)
  <2>1. PICK d : d = SubSeq(r, 1, w)
    OBVIOUS
  <2>2. d \in Seq(Bytes) /\ Len(d) = w /\ \A i \in 1 .. w : d[i] = x[i]
    <3>1. d \in Seq(Bytes) /\ Len(d) = w /\ \A i \in 1 .. w : d[i] = r[i]
      BY <1>5, <1>12, <2>1
    <3>2. \A i \in 1 .. w : i \in 1 .. Len(x) /\ i <= Len(r)
      BY <1>5, <1>10, <1>12
    <3> QED
      BY <1>6, <3>1, <3>2
  <2>3. CASE field.type = "hash"
    <3>1. ~IsBytes(field.type) /\ x = v /\ Len(x) = w
      BY <1>2, <1>3, <2>3, WriteFacts DEF Fitting, IsBytes
    <3>2. d = v
      BY <1>5, <2>2, <3>1, SeqEqual
    <3>3. size = w /\ value = d
      BY <1>7, <1>8, <2>1, <2>3, <3>1
    <3> QED
      BY <1>1, <1>3, <1>5, <1>9, <1>12, <3>1, <3>2, <3>3
  <2>4. CASE IsBytes(field.type)
    <3>1. v \in Seq(Bytes) /\ Len(v) \in Nat /\ Shifted(Len(v), w) = 0 /\ field.type # "hash"
      BY <1>2, <2>4 DEF Fitting, Writable, IsBytes
    <3>2. PICK e : e = Digits(Len(v), w)
      OBVIOUS
    <3>3. e \in Seq(Bytes) /\ Len(e) = w /\ Number(e) = Len(v)
      BY <3>1, <3>2, DigitsFacts, NumberOfDigits
    <3>4. x = e \o v /\ Len(x) = w + Len(v)
      BY <1>2, <1>3, <2>4, <3>2, WriteFacts DEF Fitting
    <3>5. \A i \in 1 .. w : x[i] = e[i]
      BY <3>1, <3>3, <3>4
    <3>6. d = e
      BY <2>2, <3>3, <3>5, SeqEqual
    <3>7. number = Len(v) /\ size = Len(x)
      BY <1>4, <1>7, <2>1, <2>4, <3>3, <3>4, <3>6
    <3>8. CASE Len(r) < Len(x)
      BY <1>1, <1>3, <1>5, <1>9, <1>12, <3>7, <3>8
    <3>9. CASE ~ (Len(r) < Len(x))
      <4>1. PICK y : y = SubSeq(r, w + 1, Len(x))
        OBVIOUS
      <4>2. y \in Seq(Bytes) /\ Len(y) = Len(v) /\ \A i \in 1 .. Len(v) : y[i] = r[w + i]
        BY <1>5, <3>1, <3>4, <3>9, <4>1
      <4>3. \A i \in 1 .. Len(v) : w + i \in 1 .. Len(x) /\ w + i <= Len(r)
        BY <1>5, <3>1, <3>4, <3>9
      <4>4. \A i \in 1 .. Len(v) : x[w + i] = v[i]
        BY <3>1, <3>3, <3>4
      <4>5. y = v
        BY <1>6, <3>1, <4>2, <4>3, <4>4, SeqEqual
      <4>6. value = v
        BY <1>8, <2>4, <3>1, <3>7, <4>1, <4>5
      <4> QED
        BY <1>1, <1>3, <1>5, <1>9, <1>12, <3>7, <3>9, <4>6
    <3> QED
      BY <3>8, <3>9
  <2>5. CASE field.type # "hash" /\ ~IsBytes(field.type)
    <3>1. v \in Nat /\ Shifted(v, w) = 0
      BY <1>2, <2>5 DEF Fitting, Writable
    <3>2. x = Digits(v, w) /\ Len(x) = w
      BY <1>2, <1>3, <2>5, WriteFacts DEF Fitting
    <3>3. d = x
      BY <1>5, <2>2, <3>2, SeqEqual
    <3>4. number = v
      BY <1>4, <2>1, <3>1, <3>2, <3>3, NumberOfDigits
    <3>5. size = w /\ value = v
      BY <1>7, <1>8, <2>5, <3>4
    <3> QED
      BY <1>1, <1>3, <1>5, <1>9, <1>12, <3>2, <3>5
  <2> QED
    BY <2>3, <2>4, <2>5
<1> QED
  BY <1>11, <1>12

-----------------------------------------------------------------------------
(* Bytes put together piece by piece.                                      *)

IsChain(e, N, start, x) ==
    /\ e \in [0 .. N -> Seq(Bytes)] /\ e[0] = start
    /\ \A n \in 1 .. N : e[n] = e[n - 1] \o x[n]
Growing(e, N) == \A n \in 0 .. N : \A m \in 0 .. n :
                     Len(e[m]) <= Len(e[n]) /\ \A i \in 1 .. Len(e[m]) : e[n][i] = e[m][i]
Pieces(x, N) == \A i \in 1 .. N : x[i] \in Seq(Bytes)

\* Pieces can be put together one after the other.
LEMMA ChainExists ==
    ASSUME NEW N \in Nat, NEW start \in Seq(Bytes), NEW x, Pieces(x, N)
    PROVE  \E f : IsChain(f, N, start, x)
<1>4. PICK S : S = Seq(Bytes)
  OBVIOUS
<1>5. \A s, t \in S : s \o t \in S
  BY <1>4
<1>6. start \in S
  BY <1>4
<1>7. PICK link : link = [i \in 1 .. N |-> i - 1]
  OBVIOUS
<1>8. PICK step : step = [i \in 1 .. N |-> [s \in S |-> s \o x[i]]]
  OBVIOUS
<1>9. \A i \in 1 .. N : link[i] = i - 1 /\ link[i] \in 0 .. i - 1
  BY <1>7
<1>10. \A i \in 1 .. N : \A s \in S : step[i][s] = s \o x[i]
  BY <1>8, Zenon
<1>11. PICK f : IsWalk(f, N, S, start, link, step)
  <2>1. Descends(link, N)
    BY <1>9 DEF Descends
  <2>2. \A i \in 1 .. N : x[i] \in S
    BY <1>4 DEF Pieces
  <2>3. StepsIn(step, N, S)
    BY <1>5, <1>10, <2>2, Zenon DEF StepsIn
  <2> QED
    BY <1>6, <2>1, <2>3, WalkExists
<1>12. f \in [0 .. N -> S] /\ f[0] = start /\ \A i \in 1 .. N : f[i] = step[i][f[link[i]]]
  BY <1>11, Zenon DEF IsWalk
<1>13. ASSUME NEW i \in 1 .. N
       PROVE  f[i] = f[i - 1] \o x[i]
  <2>1. i - 1 \in 0 .. N
    OBVIOUS
  <2>2. f[i - 1] \in S
    BY <1>12, <2>1, Zenon
  <2> QED
    BY <1>9, <1>10, <1>12, <2>2, Zenon
<1> QED
  BY <1>4, <1>12, <1>13, Zenon DEF IsChain

\* What is put together of bytes is bytes.
LEMMA ChainOf ==
    ASSUME NEW N \in Nat, NEW start \in Seq(Bytes), NEW x, Pieces(x, N),
           NEW g, g = [i \in 0 .. N |-> g[i]], g[0] = start, \A i \in 1 .. N : g[i] = g[i - 1] \o x[i]
    PROVE  IsChain(g, N, start, x)
<1>1. PICK S : S = Seq(Bytes)
  OBVIOUS
<1>2. \A s, t \in S : s \o t \in S
  BY <1>1
<1> DEFINE T == {i \in 0 .. N : g[i] \in S}
<1>3. ASSUME NEW i \in 0 .. N, \A m \in 0 .. i - 1 : m \in T
      PROVE  i \in T
  <2>1. CASE i = 0
    BY <1>1, <2>1
  <2>2. CASE i # 0
    <3>1. i \in 1 .. N /\ i - 1 \in 0 .. i - 1
      BY <2>2
    <3>2. g[i - 1] \in S /\ x[i] \in S
      BY <1>1, <1>3, <3>1 DEF Pieces
    <3>3. g[i] \in S
      BY <1>2, <3>1, <3>2, Zenon
    <3> QED
      BY <3>3
  <2> QED
    BY <2>1, <2>2
<1>4. \A i \in 0 .. N : i \in T
  <2> HIDE DEF T
  <2> QED
    BY <1>3, SetInduction
<1>5. g \in [0 .. N -> S]
  BY <1>4, Zenon
<1> QED
  BY <1>1, <1>5, Zenon DEF IsChain

\* More begins with less.
LEMMA ChainGrows ==
    ASSUME NEW N \in Nat, NEW start, NEW x, Pieces(x, N), NEW e, IsChain(e, N, start, x)
    PROVE  Growing(e, N)
<1>2. \A n \in 0 .. N : e[n] \in Seq(Bytes)
  BY DEF IsChain
<1>3. ASSUME NEW n \in 1 .. N
      PROVE  Len(e[n - 1]) <= Len(e[n]) /\ \A i \in 1 .. Len(e[n - 1]) : e[n][i] = e[n - 1][i]
  <2>1. n - 1 \in 0 .. N
    OBVIOUS
  <2>2. e[n] = e[n - 1] \o x[n] /\ e[n - 1] \in Seq(Bytes) /\ x[n] \in Seq(Bytes)
    BY <1>2, <2>1 DEF IsChain, Pieces
  <2>3. PICK s : s = e[n - 1]
    OBVIOUS
  <2>4. PICK t : t = x[n]
    OBVIOUS
  <2>5. s \in Seq(Bytes) /\ t \in Seq(Bytes)
    BY <2>2, <2>3, <2>4
  <2>6. Len(s) <= Len(s \o t) /\ \A i \in 1 .. Len(s) : (s \o t)[i] = s[i]
    BY <2>5
  <2> QED
    BY <2>2, <2>3, <2>4, <2>6, Zenon
<1> DEFINE Longer(n) == \A m \in 0 .. n :
                          Len(e[m]) <= Len(e[n]) /\ \A i \in 1 .. Len(e[m]) : e[n][i] = e[m][i]
           T == {n \in 0 .. N : Longer(n)}
<1>4. ASSUME NEW n \in 0 .. N, \A m \in 0 .. n - 1 : m \in T
      PROVE  n \in T
  <2> SUFFICES ASSUME NEW m \in 0 .. n
               PROVE  Len(e[m]) <= Len(e[n]) /\ \A i \in 1 .. Len(e[m]) : e[n][i] = e[m][i]
    OBVIOUS
  <2>1. Len(e[m]) \in Nat /\ Len(e[n]) \in Nat
    BY <1>2
  <2>2. CASE m = n
    BY <2>1, <2>2
  <2>3. CASE m # n
    <3>1. n \in 1 .. N /\ n - 1 \in 0 .. n - 1 /\ m \in 0 .. n - 1 /\ n - 1 \in 0 .. N
      BY <2>3
    <3>2. Longer(n - 1)
      BY <1>4, <3>1
    <3>3. Len(e[n - 1]) \in Nat
      BY <1>2, <3>1
    <3>4. Len(e[m]) <= Len(e[n - 1]) /\ \A i \in 1 .. Len(e[m]) : e[n - 1][i] = e[m][i]
      BY <3>1, <3>2
    <3>5. Len(e[n - 1]) <= Len(e[n]) /\ \A i \in 1 .. Len(e[n - 1]) : e[n][i] = e[n - 1][i]
      BY <1>3, <3>1
    <3>6. \A i \in 1 .. Len(e[m]) : i \in 1 .. Len(e[n - 1])
      BY <2>1, <3>3, <3>4
    <3> QED
      BY <2>1, <3>3, <3>4, <3>5, <3>6
  <2> QED
    BY <2>2, <2>3
<1>5. \A n \in 0 .. N : n \in T
  <2> HIDE DEF T
  <2> QED
    BY <1>4, SetInduction
<1> QED
  BY <1>5 DEF Growing


-----------------------------------------------------------------------------
(* Layouts.                                                                *)

IsLayout(layout) == Len(layout) \in Nat /\ \A i \in 1 .. Len(layout) : layout[i].type \in FieldTypes
\* Every value can be written.
Writes(layout, values) == \A i \in 1 .. Len(layout) : Writable(layout[i].type, values[layout[i].name])
\* Every field has room for its value.
AllFit(layout, values) == \A i \in 1 .. Len(layout) : Fitting(layout[i], values[layout[i].name])

\* The bytes of the first fields.
IsEncoding(e, layout, values) ==
    /\ e \in [0 .. Len(layout) -> Seq(Bytes)] /\ e[0] = <<>>
    /\ \A n \in 1 .. Len(layout) : e[n] = e[n - 1] \o WriteField(layout[n], values[layout[n].name])

Encodings(layout, values) == CHOOSE bytes : bytes = [n \in 0 .. Len(layout) |->
            IF n = 0 THEN <<>> ELSE bytes[n - 1] \o WriteField(layout[n], values[layout[n].name])]

\* Encode is the function of its definition.
LEMMA EncodeIs == \A layout, values : Encode(layout, values) = Encodings(layout, values)[Len(layout)]
BY DEF Encode, Encodings

\* The bytes of a layout are those of its fields, one after the other.
LEMMA EncodeFacts ==
    ASSUME NEW layout, IsLayout(layout), NEW values, Writes(layout, values)
    PROVE  \E e : IsEncoding(e, layout, values) /\ Encode(layout, values) = e[Len(layout)]
<1> DEFINE Def(f) == f = [n \in 0 .. Len(layout) |->
                IF n = 0 THEN <<>> ELSE f[n - 1] \o WriteField(layout[n], values[layout[n].name])]
<1>1. PICK N : N = Len(layout)
  OBVIOUS
<1> N \in Nat
  BY <1>1 DEF IsLayout
<1>2. PICK x : x = [i \in 1 .. N |-> WriteField(layout[i], values[layout[i].name])]
  OBVIOUS
<1>3. \A i \in 1 .. N : x[i] \in Seq(Bytes) /\ x[i] = WriteField(layout[i], values[layout[i].name])
  <2>1. \A i \in 1 .. N : layout[i].type \in FieldTypes /\ Writable(layout[i].type, values[layout[i].name])
    BY <1>1 DEF IsLayout, Writes
  <2>2. \A i \in 1 .. N : WriteField(layout[i], values[layout[i].name]) \in Seq(Bytes)
    BY <2>1, WriteFacts
  <2> QED
    BY <1>2, <2>2
<1>4. Pieces(x, N)
  BY <1>3 DEF Pieces
<1>5. PICK f : IsChain(f, N, <<>>, x)
  <2>1. <<>> \in Seq(Bytes)
    OBVIOUS
  <2> QED
    BY <1>4, <2>1, ChainExists, Zenon
<1>12. f \in [0 .. N -> Seq(Bytes)] /\ f[0] = <<>> /\ \A i \in 1 .. N : f[i] = f[i - 1] \o x[i]
  BY <1>5 DEF IsChain
<1>14. Def(f)
  <2>1. f = [i \in 0 .. N |-> f[i]]
    BY <1>12, Zenon
  <2>2. \A i \in 0 .. N : i # 0 => i \in 1 .. N
    OBVIOUS
  <2>3. \A i \in 0 .. N : f[i] = IF i = 0 THEN <<>> ELSE f[i - 1] \o WriteField(layout[i], values[layout[i].name])
    BY <1>3, <1>12, <2>2, Zenon
  <2> QED
    BY <1>1, <2>1, <2>3, Zenon
<1>15. Def(CHOOSE g : Def(g))
  <2> HIDE DEF Def
  <2> QED
    BY <1>14, Zenon
<1>16. PICK g : g = Encodings(layout, values) /\ Def(g)
  BY <1>15, Zenon DEF Encodings
<1>17. \A i \in 0 .. N : g[i] = IF i = 0 THEN <<>> ELSE g[i - 1] \o WriteField(layout[i], values[layout[i].name])
  BY <1>1, <1>16, Zenon
<1>18. \A i \in 1 .. N : g[i] = g[i - 1] \o x[i]
  <2>1. \A i \in 1 .. N : i \in 0 .. N /\ i # 0
    OBVIOUS
  <2> QED
    BY <1>3, <1>17, <2>1, Zenon
<1>19. g[0] = <<>>
  <2>1. 0 \in 0 .. N
    OBVIOUS
  <2> QED
    BY <1>17, <2>1, Zenon
<1>20. g = [i \in 0 .. N |-> g[i]]
  BY <1>1, <1>16, Zenon
<1>21. <<>> \in Seq(Bytes)
  OBVIOUS
<1>22. IsChain(g, N, <<>>, x)
  BY <1>4, <1>18, <1>19, <1>20, <1>21, ChainOf
<1>23. g \in [0 .. N -> Seq(Bytes)]
  BY <1>22 DEF IsChain
<1>24. IsEncoding(g, layout, values)
  BY <1>1, <1>3, <1>18, <1>19, <1>23, Zenon DEF IsEncoding
<1> QED
  BY <1>16, <1>24, EncodeIs, Zenon

\* The bytes of more fields begin with those of fewer.
LEMMA EncodingGrows ==
    ASSUME NEW layout, IsLayout(layout), NEW values, Writes(layout, values),
           NEW e, IsEncoding(e, layout, values)
    PROVE  \A n \in 0 .. Len(layout) : \A m \in 0 .. n :
              Len(e[m]) <= Len(e[n]) /\ \A i \in 1 .. Len(e[m]) : e[n][i] = e[m][i]
<1>1. PICK N : N = Len(layout)
  OBVIOUS
<1> N \in Nat
  BY <1>1 DEF IsLayout
<1>2. PICK x : x = [i \in 1 .. N |-> WriteField(layout[i], values[layout[i].name])]
  OBVIOUS
<1>3. \A i \in 1 .. N : x[i] = WriteField(layout[i], values[layout[i].name])
  BY <1>2
<1>4. \A i \in 1 .. N : WriteField(layout[i], values[layout[i].name]) \in Seq(Bytes)
  BY <1>1, WriteFacts DEF IsLayout, Writes
<1>5. Pieces(x, N)
  BY <1>3, <1>4 DEF Pieces
<1>6. IsChain(e, N, <<>>, x)
  BY <1>1, <1>3 DEF IsChain, IsEncoding
<1>7. Growing(e, N)
  BY <1>5, <1>6, ChainGrows
<1> QED
  BY <1>1, <1>7 DEF Growing

\* What is left after two fields is left after the second of what the first left.
LEMMA RestOfRest ==
    ASSUME NEW b \in Seq(Bytes), NEW p \in 0 .. Len(b), NEW k \in 0 .. Len(b) - p
    PROVE  LET r == SubSeq(b, p + 1, Len(b))
           IN  /\ r \in Seq(Bytes) /\ Len(r) = Len(b) - p /\ \A i \in 1 .. Len(b) - p : r[i] = b[p + i]
               /\ SubSeq(r, k + 1, Len(r)) = SubSeq(b, p + k + 1, Len(b))
<1>1. PICK r : r = SubSeq(b, p + 1, Len(b))
  OBVIOUS
<1>2. PICK N \in Nat : N = Len(b)
  OBVIOUS
<1>3. r \in Seq(Bytes) /\ Len(r) = N - p /\ \A i \in 1 .. N - p : r[i] = b[p + i]
  BY <1>1, <1>2
<1>4. PICK s : s = SubSeq(r, k + 1, Len(r))
  OBVIOUS
<1>5. PICK t : t = SubSeq(b, p + k + 1, N)
  OBVIOUS
<1>6. s \in Seq(Bytes) /\ Len(s) = N - p - k /\ \A i \in 1 .. N - p - k : s[i] = r[k + i]
  BY <1>2, <1>3, <1>4
<1>7. t \in Seq(Bytes) /\ Len(t) = N - p - k /\ \A i \in 1 .. N - p - k : t[i] = b[p + k + i]
  BY <1>2, <1>5
<1>8. ASSUME NEW i \in 1 .. N - p - k
      PROVE  s[i] = t[i]
  <2>1. k + i \in 1 .. N - p /\ p + (k + i) = p + k + i
    BY <1>2
  <2> QED
    BY <1>3, <1>6, <1>7, <2>1
<1>9. s = t
  BY <1>6, <1>7, <1>8, SeqEqual
<1> QED
  BY <1>1, <1>2, <1>3, <1>4, <1>5, <1>9

\* The cursor after n fields.
CursorAt(n, layout, values, e, b) ==
    IF Len(e[n]) <= Len(b)
    THEN [ok |-> TRUE, rest |-> SubSeq(b, Len(e[n]) + 1, Len(b)),
          values |-> [name \in {layout[i].name : i \in 1 .. n} |-> values[name]]]
    ELSE Failed

\* The cursor moves one field at a time.
LEMMA CursorSteps ==
    ASSUME NEW layout, IsLayout(layout), NEW values, AllFit(layout, values), Writes(layout, values),
           NEW e, IsEncoding(e, layout, values), NEW b \in Seq(Bytes), Begins(b, e[Len(layout)]),
           NEW n \in 1 .. Len(layout)
    PROVE  ReadField(CursorAt(n - 1, layout, values, e, b), layout[n]) = CursorAt(n, layout, values, e, b)
<1>1. PICK N : N = Len(layout)
  OBVIOUS
<1> N \in Nat
  BY <1>1 DEF IsLayout
<1>2. PICK field : field = layout[n]
  OBVIOUS
<1>3. PICK v : v = values[field.name]
  OBVIOUS
<1>4. PICK x : x = WriteField(field, v)
  OBVIOUS
<1>5. Fitting(field, v)
  BY <1>2, <1>3 DEF AllFit
<1>6. x \in Seq(Bytes) /\ Len(x) \in Nat
  BY <1>4, <1>5, WriteFacts DEF Fitting
<1>7. n \in 0 .. N /\ n - 1 \in 0 .. N /\ n - 1 \in 0 .. n /\ N \in 0 .. N /\ n \in 1 .. N
  BY <1>1
<1>8. PICK e0 : e0 = e[n - 1]
  OBVIOUS
<1>9. PICK e1 : e1 = e[n]
  OBVIOUS
<1>10. PICK eN : eN = e[N]
  OBVIOUS
<1>11. e0 \in Seq(Bytes) /\ e1 \in Seq(Bytes) /\ eN \in Seq(Bytes) /\ e1 = e0 \o x
  BY <1>1, <1>2, <1>3, <1>4, <1>7, <1>8, <1>9, <1>10 DEF IsEncoding
<1>12. Len(e0) \in Nat /\ Len(e1) = Len(e0) + Len(x) /\ \A i \in 1 .. Len(x) : e1[Len(e0) + i] = x[i]
  BY <1>6, <1>11
<1>13. Len(e1) <= Len(eN) /\ \A i \in 1 .. Len(e1) : eN[i] = e1[i]
  BY <1>1, <1>7, <1>9, <1>10, EncodingGrows
<1>14. Len(b) \in Nat /\ Len(eN) \in Nat
  BY <1>11
<1>15. \A i \in 1 .. Len(eN) : i <= Len(b) => b[i] = eN[i]
  BY <1>1, <1>10 DEF Begins
<1>16. PICK vs : vs = [name \in {layout[i].name : i \in 1 .. n - 1} |-> values[name]]
  OBVIOUS
<1>17. CASE Len(e0) <= Len(b)
  <2>1. PICK r : r = SubSeq(b, Len(e0) + 1, Len(b))
    OBVIOUS
  <2>2. r \in Seq(Bytes) /\ Len(r) = Len(b) - Len(e0) /\ \A i \in 1 .. Len(b) - Len(e0) : r[i] = b[Len(e0) + i]
    <3>1. Len(e0) \in 0 .. Len(b) /\ 0 \in 0 .. Len(b) - Len(e0)
      BY <1>12, <1>14, <1>17
    <3> QED
      BY <2>1, <3>1, RestOfRest
  <2>3. PICK cursor : cursor = CursorAt(n - 1, layout, values, e, b)
    OBVIOUS
  <2>4. cursor = [ok |-> TRUE, rest |-> r, values |-> vs]
    BY <1>8, <1>16, <1>17, <2>1, <2>3 DEF CursorAt
  <2>5. cursor.ok = TRUE /\ cursor.rest = r /\ cursor.values = vs
    BY <2>4
  <2>6. Begins(r, x)
    <3> SUFFICES ASSUME NEW i \in 1 .. Len(x), i <= Len(r)
                 PROVE  r[i] = x[i]
      BY DEF Begins
    <3>1. i \in 1 .. Len(b) - Len(e0) /\ Len(e0) + i \in 1 .. Len(e1) /\ Len(e0) + i \in 1 .. Len(eN)
          /\ Len(e0) + i <= Len(b)
      BY <1>6, <1>12, <1>13, <1>14, <1>17, <2>2
    <3>2. r[i] = b[Len(e0) + i]
      BY <2>2, <3>1
    <3>3. b[Len(e0) + i] = eN[Len(e0) + i]
      BY <1>15, <3>1
    <3>4. eN[Len(e0) + i] = e1[Len(e0) + i]
      BY <1>13, <3>1
    <3> QED
      BY <1>12, <3>2, <3>3, <3>4
  <2>7. ReadField(cursor, field) =
           IF Len(x) <= Len(r)
           THEN [ok |-> TRUE, rest |-> SubSeq(r, Len(x) + 1, Len(r)), values |-> Bind(vs, field.name, v)]
           ELSE Failed
    BY <1>4, <1>5, <2>2, <2>5, <2>6, ReadFieldOf
  <2>8. CASE Len(x) <= Len(r)
    <3>1. Len(e1) <= Len(b) /\ Len(e0) \in 0 .. Len(b) /\ Len(x) \in 0 .. Len(b) - Len(e0)
          /\ Len(e0) + Len(x) + 1 = Len(e1) + 1
      BY <1>6, <1>12, <1>14, <1>17, <2>2, <2>8
    <3>2. SubSeq(r, Len(x) + 1, Len(r)) = SubSeq(b, Len(e1) + 1, Len(b))
      BY <2>1, <3>1, RestOfRest
    <3>3. Bind(vs, field.name, v) = [name \in {layout[i].name : i \in 1 .. n} |-> values[name]]
      <4>1. \A i \in 1 .. n : i = n \/ i \in 1 .. n - 1
        OBVIOUS
      <4>2. \A i \in 1 .. n - 1 : i \in 1 .. n
        OBVIOUS
      <4>3. n \in 1 .. n
        OBVIOUS
      <4>4. {layout[i].name : i \in 1 .. n} = {layout[i].name : i \in 1 .. n - 1} \union {field.name}
        BY <1>2, <4>1, <4>2, <4>3, Zenon
      <4>5. DOMAIN vs = {layout[i].name : i \in 1 .. n - 1}
        BY <1>16, Zenon
      <4>6. \A name \in DOMAIN vs : vs[name] = values[name]
        BY <1>16, Zenon
      <4>7. Bind(vs, field.name, v) = [name \in {layout[i].name : i \in 1 .. n} |-> IF name = field.name THEN v ELSE vs[name]]
        BY <4>4, <4>5, Zenon DEF Bind
      <4>8. \A name \in {layout[i].name : i \in 1 .. n} : (IF name = field.name THEN v ELSE vs[name]) = values[name]
        BY <1>3, <4>4, <4>5, <4>6, Zenon
      <4> QED
        BY <4>7, <4>8, Zenon
    <3>4. CursorAt(n, layout, values, e, b) =
             [ok |-> TRUE, rest |-> SubSeq(b, Len(e1) + 1, Len(b)),
              values |-> [name \in {layout[i].name : i \in 1 .. n} |-> values[name]]]
      BY <1>9, <3>1 DEF CursorAt
    <3> QED
      BY <1>2, <2>3, <2>7, <2>8, <3>2, <3>3, <3>4, Zenon
  <2>9. CASE ~ (Len(x) <= Len(r))
    <3>1. ~ (Len(e1) <= Len(b))
      BY <1>6, <1>12, <1>14, <1>17, <2>2, <2>9
    <3>2. CursorAt(n, layout, values, e, b) = Failed
      BY <1>9, <3>1, Zenon DEF CursorAt
    <3> QED
      BY <1>2, <2>3, <2>7, <2>9, <3>2, Zenon
  <2> QED
    BY <2>8, <2>9
<1>18. CASE ~ (Len(e0) <= Len(b))
  <2>1. ~ (Len(e1) <= Len(b))
    BY <1>6, <1>12, <1>14, <1>18
  <2>2. CursorAt(n - 1, layout, values, e, b) = Failed /\ CursorAt(n, layout, values, e, b) = Failed
    BY <1>8, <1>9, <1>18, <2>1, Zenon DEF CursorAt
  <2>3. ReadField(Failed, layout[n]) = Failed
    BY DEF ReadField, Failed
  <2> QED
    BY <2>2, <2>3, Zenon
<1> QED
  BY <1>17, <1>18

Cursors(layout, bytes) == CHOOSE at : at = [n \in 0 .. Len(layout) |->
                              IF n = 0 THEN Cursor(bytes) ELSE ReadField(at[n - 1], layout[n])]

\* Parse is the function of its definition.
LEMMA ParseIs == \A layout, bytes : Parse(layout, bytes) = Cursors(layout, bytes)[Len(layout)]
BY DEF Parse, Cursors

\* A value its field has room for can be written.
LEMMA FitWrites ==
    ASSUME NEW layout, NEW values, AllFit(layout, values)
    PROVE  Writes(layout, values)
BY DEF AllFit, Writes, Fitting

\* What begins with the bytes of a layout is read as its values, or not at all.
LEMMA ParseOf ==
    ASSUME NEW layout, IsLayout(layout), NEW values, AllFit(layout, values),
           NEW b \in Seq(Bytes), Begins(b, Encode(layout, values))
    PROVE  Parse(layout, b) =
              IF Len(Encode(layout, values)) <= Len(b)
              THEN [ok |-> TRUE, rest |-> SubSeq(b, Len(Encode(layout, values)) + 1, Len(b)),
                    values |-> [name \in Names(layout) |-> values[name]]]
              ELSE Failed
<1> DEFINE Def(f) == f = [n \in 0 .. Len(layout) |->
                              IF n = 0 THEN Cursor(b) ELSE ReadField(f[n - 1], layout[n])]
<1>1. PICK N : N = Len(layout)
  OBVIOUS
<1> N \in Nat
  BY <1>1 DEF IsLayout
<1>2. Writes(layout, values)
  BY FitWrites
<1>3. PICK e : IsEncoding(e, layout, values) /\ Encode(layout, values) = e[N]
  BY <1>1, <1>2, EncodeFacts
<1>4. PICK C : C = [n \in 0 .. N |-> CursorAt(n, layout, values, e, b)]
  OBVIOUS
<1>5. \A n \in 0 .. N : C[n] = CursorAt(n, layout, values, e, b)
  BY <1>4, Zenon
<1>6. ASSUME NEW n \in 1 .. N
      PROVE  C[n] = ReadField(C[n - 1], layout[n])
  <2>1. n \in 0 .. N /\ n - 1 \in 0 .. N /\ n \in 1 .. Len(layout)
    BY <1>1
  <2>2. Begins(b, e[Len(layout)])
    BY <1>1, <1>3, Zenon
  <2>3. ReadField(CursorAt(n - 1, layout, values, e, b), layout[n]) = CursorAt(n, layout, values, e, b)
    BY <1>2, <1>3, <2>1, <2>2, CursorSteps
  <2> QED
    BY <1>5, <2>1, <2>3, Zenon
<1>7. C[0] = Cursor(b)
  <2>1. 0 \in 0 .. N
    OBVIOUS
  <2>2. e[0] = <<>>
    BY <1>3 DEF IsEncoding
  <2>3. Len(e[0]) = 0 /\ Len(b) \in Nat
    BY <2>2
  <2>4. SubSeq(b, 1, Len(b)) = b
    OBVIOUS
  <2>5. 0 <= Len(b) /\ 0 + 1 = 1
    BY <2>3
  <2>6. CursorAt(0, layout, values, e, b) =
           [ok |-> TRUE, rest |-> b, values |-> [name \in {layout[i].name : i \in 1 .. 0} |-> values[name]]]
    BY <2>3, <2>4, <2>5, Zenon DEF CursorAt
  <2>7. \A i \in 1 .. 0 : FALSE
    OBVIOUS
  <2>8. {layout[i].name : i \in 1 .. 0} = {}
    BY <2>7, Zenon
  <2>9. [name \in {} |-> values[name]] = [name \in {} |-> 0]
    BY Zenon
  <2> QED
    BY <1>5, <2>1, <2>6, <2>8, <2>9, Zenon DEF Cursor
<1>8. Def(C)
  <2>1. C = [n \in 0 .. N |-> C[n]]
    BY <1>4, Zenon
  <2>2. \A n \in 0 .. N : n # 0 => n \in 1 .. N
    OBVIOUS
  <2>3. \A n \in 0 .. N : C[n] = IF n = 0 THEN Cursor(b) ELSE ReadField(C[n - 1], layout[n])
    BY <1>6, <1>7, <2>2, Zenon
  <2> QED
    BY <1>1, <2>1, <2>3, Zenon
<1>9. Def(CHOOSE g : Def(g))
  <2> HIDE DEF Def
  <2> QED
    BY <1>8, Zenon
<1>10. PICK g : g = Cursors(layout, b) /\ Def(g)
  BY <1>9, Zenon DEF Cursors
<1>11. \A n \in 0 .. N : g[n] = IF n = 0 THEN Cursor(b) ELSE ReadField(g[n - 1], layout[n])
  BY <1>1, <1>10, Zenon
<1> DEFINE T == {n \in 0 .. N : g[n] = C[n]}
<1>12. ASSUME NEW n \in 0 .. N, \A m \in 0 .. n - 1 : m \in T
       PROVE  n \in T
  <2>1. CASE n = 0
    BY <1>7, <1>11, <2>1, Zenon
  <2>2. CASE n # 0
    <3>1. n \in 1 .. N /\ n - 1 \in 0 .. n - 1
      BY <2>2
    <3>2. g[n - 1] = C[n - 1]
      BY <1>12, <3>1, Zenon
    <3> QED
      BY <1>6, <1>11, <2>2, <3>1, <3>2, Zenon
  <2> QED
    BY <2>1, <2>2
<1>13. \A n \in 0 .. N : n \in T
  <2> HIDE DEF T
  <2> QED
    BY <1>12, SetInduction
<1>14. g[N] = CursorAt(N, layout, values, e, b)
  <2>1. N \in 0 .. N
    OBVIOUS
  <2> QED
    BY <1>5, <1>13, <2>1, Zenon
<1> QED
  BY <1>1, <1>3, <1>10, <1>14, ParseIs, Zenon DEF CursorAt, Names

\* Typed values can be written.
LEMMA TypedWrites ==
    ASSUME NEW layout, IsLayout(layout), NEW values, Typed(layout, values)
    PROVE  Writes(layout, values)
<1> SUFFICES ASSUME NEW i \in 1 .. Len(layout)
             PROVE  Writable(layout[i].type, values[layout[i].name])
  BY DEF Writes
<1>1. layout[i].type \in FieldTypes /\ IsValue(layout[i].type, values[layout[i].name])
  BY DEF IsLayout, Typed
<1> QED
  BY <1>1, ValueFacts

\* Typed values are written as bytes.
LEMMA EncodeType ==
    ASSUME NEW layout, IsLayout(layout), NEW values, Writes(layout, values)
    PROVE  /\ Encode(layout, values) \in Seq(Bytes)
           /\ \A i \in 1 .. Len(layout) :
                 Len(WriteField(layout[i], values[layout[i].name])) <= Len(Encode(layout, values))
<1>1. PICK N : N = Len(layout)
  OBVIOUS
<1> N \in Nat
  BY <1>1 DEF IsLayout
<1>2. PICK e : IsEncoding(e, layout, values) /\ Encode(layout, values) = e[N]
  BY <1>1, EncodeFacts
<1>3. \A n \in 0 .. N : e[n] \in Seq(Bytes)
  BY <1>1, <1>2 DEF IsEncoding
<1>4. N \in 0 .. N
  OBVIOUS
<1>5. ASSUME NEW i \in 1 .. N
      PROVE  Len(WriteField(layout[i], values[layout[i].name])) <= Len(e[N])
  <2>1. PICK x : x = WriteField(layout[i], values[layout[i].name])
    OBVIOUS
  <2>2. x \in Seq(Bytes)
    BY <1>1, <2>1, WriteFacts DEF IsLayout, Writes
  <2>3. i \in 0 .. N /\ i - 1 \in 0 .. N
    OBVIOUS
  <2>4. e[i] = e[i - 1] \o x /\ e[i - 1] \in Seq(Bytes) /\ e[i] \in Seq(Bytes) /\ e[N] \in Seq(Bytes)
    BY <1>1, <1>2, <1>3, <1>4, <2>1, <2>3 DEF IsEncoding
  <2>5. Len(e[i]) <= Len(e[N])
    BY <1>1, <1>2, <1>4, <2>3, EncodingGrows
  <2>6. Len(x) <= Len(e[i])
    BY <2>2, <2>4
  <2>7. Len(x) \in Nat /\ Len(e[i]) \in Nat /\ Len(e[N]) \in Nat
    BY <2>2, <2>4
  <2> QED
    BY <2>1, <2>5, <2>6, <2>7
<1> QED
  BY <1>1, <1>2, <1>3, <1>4, <1>5

\* Fields have room for their values if the whole is shorter than a u32 says and
\* the numbers fit; only lengths of 16 bits need more.
LEMMA SizedFits ==
    ASSUME NEW layout, IsLayout(layout), NEW values, Typed(layout, values), NEW n \in Nat,
           Len(Encode(layout, values)) <= n, Shifted(n, 4) = 0,
           \A i \in 1 .. Len(layout) : layout[i].type = "bytes16" => Shifted(Len(values[layout[i].name]), 2) = 0
    PROVE  AllFit(layout, values)
<1> SUFFICES ASSUME NEW i \in 1 .. Len(layout)
             PROVE  Fitting(layout[i], values[layout[i].name])
  BY DEF AllFit
<1>1. PICK field : field = layout[i]
  OBVIOUS
<1>2. PICK v : v = values[field.name]
  OBVIOUS
<1>3. field.type \in FieldTypes /\ IsValue(field.type, v)
  BY <1>1, <1>2 DEF IsLayout, Typed
<1>4. Writable(field.type, v) /\ (field.type # "hash" /\ ~IsBytes(field.type) => Shifted(v, Width(field.type)) = 0)
  BY <1>3, ValueFacts
<1>5. CASE field.type = "bytes32"
  <2>1. IsBytes(field.type) /\ Width(field.type) = 4
    BY <1>5, Widths DEF IsBytes
  <2>2. v \in Seq(Bytes) /\ Len(v) \in Nat
    BY <1>4, <1>5 DEF Writable, IsBytes
  <2>3. PICK x : x = WriteField(field, v)
    OBVIOUS
  <2>4. Len(x) = 4 + Len(v)
    BY <1>3, <1>4, <2>1, <2>3, WriteFacts
  <2>5. Len(x) <= Len(Encode(layout, values)) /\ Len(Encode(layout, values)) \in Nat
    BY <1>1, <1>2, <2>3, TypedWrites, EncodeType
  <2>6. Len(v) <= n /\ 4 \in 0 .. 5
    BY <2>2, <2>4, <2>5
  <2>7. Shifted(Len(v), 4) = 0
    BY <2>2, <2>6, SmallerFits
  <2> QED
    BY <1>1, <1>2, <1>3, <1>4, <2>1, <2>7 DEF Fitting
<1>6. CASE field.type # "bytes32"
  <2>1. IsBytes(field.type) => field.type = "bytes16" /\ Width(field.type) = 2
    BY <1>6, Widths DEF IsBytes
  <2> QED
    BY <1>1, <1>2, <1>3, <1>4, <2>1 DEF Fitting
<1> QED
  BY <1>5, <1>6

\* The bytes of a layout are read as its values, and what follows is left.
LEMMA RoundTrip ==
    ASSUME NEW layout, IsLayout(layout), NEW values, AllFit(layout, values), NEW tail \in Seq(Bytes)
    PROVE  Parse(layout, Encode(layout, values) \o tail) =
              [ok |-> TRUE, rest |-> tail, values |-> [name \in Names(layout) |-> values[name]]]
<1>1. PICK x : x = Encode(layout, values)
  OBVIOUS
<1>2. x \in Seq(Bytes)
  BY <1>1, FitWrites, EncodeType
<1>3. PICK b : b = x \o tail
  OBVIOUS
<1>4. b \in Seq(Bytes) /\ Len(b) = Len(x) + Len(tail) /\ Len(x) <= Len(b)
  BY <1>2, <1>3
<1>5. Begins(b, x)
  BY <1>2, <1>3 DEF Begins
<1>6. PICK t : t = SubSeq(b, Len(x) + 1, Len(b))
  OBVIOUS
<1>7. t \in Seq(Bytes) /\ Len(t) = Len(tail) /\ \A i \in 1 .. Len(tail) : t[i] = b[Len(x) + i]
  BY <1>2, <1>4, <1>6
<1>8. \A i \in 1 .. Len(tail) : b[Len(x) + i] = tail[i]
  BY <1>2, <1>3
<1>9. t = tail
  BY <1>7, <1>8, SeqEqual
<1>10. Parse(layout, b) = [ok |-> TRUE, rest |-> t, values |-> [name \in Names(layout) |-> values[name]]]
  BY <1>1, <1>4, <1>5, <1>6, ParseOf
<1> QED
  BY <1>1, <1>3, <1>9, <1>10, Zenon

\* The bytes of a layout alone are read as its values, and nothing is left.
LEMMA RoundTripWhole ==
    ASSUME NEW layout, IsLayout(layout), NEW values, AllFit(layout, values)
    PROVE  Parse(layout, Encode(layout, values)) =
              [ok |-> TRUE, rest |-> <<>>, values |-> [name \in Names(layout) |-> values[name]]]
<1>1. Encode(layout, values) \in Seq(Bytes)
  BY FitWrites, EncodeType
<1>2. Encode(layout, values) \o <<>> = Encode(layout, values)
  BY <1>1
<1>3. <<>> \in Seq(Bytes)
  OBVIOUS
<1> QED
  BY <1>2, <1>3, RoundTrip

\* No proper beginning of them is.
LEMMA Truncated ==
    ASSUME NEW layout, IsLayout(layout), NEW values, AllFit(layout, values),
           NEW k \in 0 .. Len(Encode(layout, values)) - 1
    PROVE  Parse(layout, SubSeq(Encode(layout, values), 1, k)) = Failed
<1>1. PICK x : x = Encode(layout, values)
  OBVIOUS
<1>2. x \in Seq(Bytes)
  BY <1>1, FitWrites, EncodeType
<1>3. PICK b : b = SubSeq(x, 1, k)
  OBVIOUS
<1>4. b \in Seq(Bytes) /\ Len(b) = k /\ k < Len(x) /\ \A i \in 1 .. k : b[i] = x[i]
  BY <1>1, <1>2, <1>3
<1>5. Begins(b, x)
  BY <1>2, <1>4 DEF Begins
<1>6. ~ (Len(x) <= Len(b))
  BY <1>2, <1>4
<1> QED
  BY <1>1, <1>3, <1>4, <1>5, <1>6, ParseOf

-----------------------------------------------------------------------------
(* Short layouts.                                                          *)

\* Layouts of one field, of two and of three, written out.
LEMMA EncodeOne ==
    ASSUME NEW f, NEW values, Writes(<<f>>, values), f.type \in FieldTypes
    PROVE  IsLayout(<<f>>) /\ Encode(<<f>>, values) = WriteField(f, values[f.name])
<1>1. PICK layout : layout = <<f>>
  OBVIOUS
<1>2. Len(layout) = 1 /\ layout[1] = f
  BY <1>1
<1>3. IsLayout(layout)
  BY <1>2 DEF IsLayout
<1>4. PICK e : IsEncoding(e, layout, values) /\ Encode(layout, values) = e[1]
  BY <1>1, <1>2, <1>3, EncodeFacts
<1>5. e[0] = <<>> /\ e[1] = e[0] \o WriteField(f, values[f.name])
  <2>1. 1 \in 1 .. 1 /\ 1 - 1 = 0
    OBVIOUS
  <2> QED
    BY <1>2, <1>4, <2>1 DEF IsEncoding
<1>6. WriteField(f, values[f.name]) \in Seq(Bytes)
  BY <1>1, <1>2, WriteFacts DEF Writes
<1> QED
  BY <1>1, <1>3, <1>4, <1>5, <1>6

LEMMA EncodeTwo ==
    ASSUME NEW f, NEW g, NEW values, Writes(<<f, g>>, values), f.type \in FieldTypes, g.type \in FieldTypes
    PROVE  /\ IsLayout(<<f, g>>)
           /\ Encode(<<f, g>>, values) = WriteField(f, values[f.name]) \o WriteField(g, values[g.name])
<1>1. PICK layout : layout = <<f, g>>
  OBVIOUS
<1>2. Len(layout) = 2 /\ layout[1] = f /\ layout[2] = g
  BY <1>1
<1>3. IsLayout(layout)
  BY <1>2 DEF IsLayout
<1>4. PICK e : IsEncoding(e, layout, values) /\ Encode(layout, values) = e[2]
  BY <1>1, <1>2, <1>3, EncodeFacts
<1>5. e[0] = <<>> /\ e[1] = e[0] \o WriteField(f, values[f.name]) /\ e[2] = e[1] \o WriteField(g, values[g.name])
  <2>1. 1 \in 1 .. 2 /\ 1 - 1 = 0 /\ 2 \in 1 .. 2 /\ 2 - 1 = 1
    OBVIOUS
  <2> QED
    BY <1>2, <1>4, <2>1 DEF IsEncoding
<1>6. WriteField(f, values[f.name]) \in Seq(Bytes) /\ WriteField(g, values[g.name]) \in Seq(Bytes)
  BY <1>1, <1>2, WriteFacts DEF Writes
<1>7. e[1] = WriteField(f, values[f.name])
  <2>1. \A s \in Seq(Bytes) : <<>> \o s = s
    OBVIOUS
  <2> QED
    BY <1>5, <1>6, <2>1, Zenon
<1> QED
  BY <1>1, <1>3, <1>4, <1>5, <1>7, Zenon

LEMMA EncodeThree ==
    ASSUME NEW layout, IsLayout(layout), Len(layout) = 3, NEW values, Writes(layout, values)
    PROVE  Encode(layout, values) =
              (WriteField(layout[1], values[layout[1].name]) \o WriteField(layout[2], values[layout[2].name]))
                  \o WriteField(layout[3], values[layout[3].name])
<1>1. PICK e : IsEncoding(e, layout, values) /\ Encode(layout, values) = e[3]
  BY EncodeFacts
<1>2. PICK w : w = [i \in 1 .. 3 |-> WriteField(layout[i], values[layout[i].name])]
  OBVIOUS
<1>3. 1 \in 1 .. 3 /\ 1 - 1 = 0 /\ 2 \in 1 .. 3 /\ 2 - 1 = 1 /\ 3 \in 1 .. 3 /\ 3 - 1 = 2
  OBVIOUS
<1>4. \A i \in 1 .. 3 : w[i] = WriteField(layout[i], values[layout[i].name])
  BY <1>2
<1>5. e[0] = <<>> /\ e[1] = e[0] \o w[1] /\ e[2] = e[1] \o w[2] /\ e[3] = e[2] \o w[3]
  BY <1>1, <1>3, <1>4 DEF IsEncoding
<1>6. w[1] \in Seq(Bytes)
  BY <1>3, <1>4, WriteFacts DEF Writes, IsLayout
<1>7. e[1] = w[1]
  <2>1. \A s \in Seq(Bytes) : <<>> \o s = s
    OBVIOUS
  <2> QED
    BY <1>5, <1>6, <2>1, Zenon
<1> QED
  BY <1>1, <1>3, <1>4, <1>5, <1>7, Zenon

\* The constants the two sides write fit every type but a byte.
LEMMA SmallNumbers == \A n \in 0 .. 15 : n \in Nat /\ Shifted(n, 2) = 0 /\ Shifted(n, 4) = 0 /\ Shifted(n, 5) = 0
<1> SUFFICES ASSUME NEW n \in 0 .. 15
             PROVE  n \in Nat /\ Shifted(n, 2) = 0 /\ Shifted(n, 4) = 0 /\ Shifted(n, 5) = 0
  OBVIOUS
<1>1. n \in Nat /\ n < Base * Base
  BY SquareOfBase
<1>2. 2 \in 2 .. 5 /\ 4 \in 2 .. 5 /\ 5 \in 2 .. 5
  OBVIOUS
<1> QED
  BY <1>1, <1>2, SmallFits

\* Bytes and bytes are bytes.
LEMMA Joins == \A s, t \in Seq(Bytes) : s \o t \in Seq(Bytes) /\ Len(s \o t) = Len(s) + Len(t)
OBVIOUS

\* The fields of the header.
LEMMA HeaderFacts ==
    /\ IsLayout(Header) /\ Len(Header) = 4
    /\ Header[1] = F("len", "u32") /\ Header[2] = F("msg_type", "u16")
    /\ Header[3] = F("flags", "u16") /\ Header[4] = F("req_id", "u64")
    /\ Names(Header) = {"len", "msg_type", "flags", "req_id"}
<1>1. /\ Len(Header) = 4 /\ Header[1] = F("len", "u32") /\ Header[2] = F("msg_type", "u16")
      /\ Header[3] = F("flags", "u16") /\ Header[4] = F("req_id", "u64")
  BY DEF Header
<1>2. \A i \in 1 .. 4 : i = 1 \/ i = 2 \/ i = 3 \/ i = 4
  OBVIOUS
<1>3. IsLayout(Header)
  BY <1>1, <1>2 DEF IsLayout, F, FieldTypes
<1>4. \A i \in 1 .. 4 : Header[i].name \in {"len", "msg_type", "flags", "req_id"}
  BY <1>1, <1>2 DEF F
<1>5. Header[1].name = "len" /\ Header[2].name = "msg_type" /\ Header[3].name = "flags" /\ Header[4].name = "req_id"
  BY <1>1 DEF F
<1>6. 1 \in 1 .. 4 /\ 2 \in 1 .. 4 /\ 3 \in 1 .. 4 /\ 4 \in 1 .. 4
  OBVIOUS
<1>7. Names(Header) = {"len", "msg_type", "flags", "req_id"}
  BY <1>1, <1>4, <1>5, <1>6 DEF Names
<1> QED
  BY <1>1, <1>3, <1>7

\* The header of a frame.
HeaderOf(type, flags, n) == [len |-> n, msg_type |-> type, flags |-> flags, req_id |-> 1]

\* Every header is as long as that of an empty frame.
LEMMA HeaderLength ==
    ASSUME NEW type \in Nat, NEW flags \in 0 .. 1, NEW n \in Nat
    PROVE  /\ Encode(Header, HeaderOf(type, flags, n)) \in Seq(Bytes)
           /\ Len(Encode(Header, HeaderOf(type, flags, n))) = 13
           /\ Writes(Header, HeaderOf(type, flags, n))
<1>1. PICK v : v = HeaderOf(type, flags, n)
  OBVIOUS
<1>2. v.len = n /\ v.msg_type = type /\ v.flags = flags /\ v.req_id = 1
  BY <1>1 DEF HeaderOf
<1>3. v["len"] \in Nat /\ v["msg_type"] \in Nat /\ v["flags"] \in Nat /\ v["req_id"] \in Nat
  BY <1>2
<1>4. \A i \in 1 .. 4 : i = 1 \/ i = 2 \/ i = 3 \/ i = 4
  OBVIOUS
<1>5. Writes(Header, v)
  BY <1>3, <1>4, HeaderFacts DEF Writes, Writable, F, IsBytes
<1>6. PICK e : IsEncoding(e, Header, v) /\ Encode(Header, v) = e[4]
  BY <1>5, HeaderFacts, EncodeFacts
<1>7. PICK w : w = [i \in 1 .. 4 |-> WriteField(Header[i], v[Header[i].name])]
  OBVIOUS
<1>8. \A i \in 1 .. 4 : w[i] = WriteField(Header[i], v[Header[i].name])
  BY <1>7
<1>9. \A i \in 1 .. 4 : w[i] \in Seq(Bytes) /\ Len(w[i]) = Width(Header[i].type)
  <2>1. \A i \in 1 .. 4 : /\ Header[i].type \in FieldTypes /\ Writable(Header[i].type, v[Header[i].name])
                          /\ ~IsBytes(Header[i].type)
    BY <1>4, <1>5, HeaderFacts DEF Writes, IsLayout, IsBytes, F
  <2>2. \A i \in 1 .. 4 : w[i] \in Seq(Bytes) /\ Len(w[i]) = Width(Header[i].type) + 0
    BY <1>8, <2>1, WriteFacts
  <2>3. \A i \in 1 .. 4 : Width(Header[i].type) + 0 = Width(Header[i].type)
    BY <2>1, WidthRange
  <2> QED
    BY <2>2, <2>3
<1>10. Width(Header[1].type) = 4 /\ Width(Header[2].type) = 2 /\ Width(Header[3].type) = 2 /\ Width(Header[4].type) = 5
  BY HeaderFacts, Widths DEF F
<1>11. 1 \in 1 .. 4 /\ 1 - 1 = 0 /\ 2 \in 1 .. 4 /\ 2 - 1 = 1 /\ 3 \in 1 .. 4 /\ 3 - 1 = 2 /\ 4 \in 1 .. 4 /\ 4 - 1 = 3
  OBVIOUS
<1>12. e[0] = <<>> /\ e[1] = e[0] \o w[1] /\ e[2] = e[1] \o w[2] /\ e[3] = e[2] \o w[3] /\ e[4] = e[3] \o w[4]
  <2>1. e[0] = <<>> /\ \A i \in 1 .. 4 : e[i] = e[i - 1] \o w[i]
    BY <1>6, <1>8, HeaderFacts DEF IsEncoding
  <2> QED
    BY <1>11, <2>1
<1>13. /\ w[1] \in Seq(Bytes) /\ Len(w[1]) = 4 /\ w[2] \in Seq(Bytes) /\ Len(w[2]) = 2
       /\ w[3] \in Seq(Bytes) /\ Len(w[3]) = 2 /\ w[4] \in Seq(Bytes) /\ Len(w[4]) = 5
  BY <1>9, <1>10, <1>11
<1>14. e[0] \in Seq(Bytes) /\ Len(e[0]) = 0
  BY <1>12
<1>15. e[1] \in Seq(Bytes) /\ Len(e[1]) = 0 + 4
  BY <1>12, <1>13, <1>14, Joins, Zenon
<1>16. e[2] \in Seq(Bytes) /\ Len(e[2]) = (0 + 4) + 2
  BY <1>12, <1>13, <1>15, Joins, Zenon
<1>17. e[3] \in Seq(Bytes) /\ Len(e[3]) = ((0 + 4) + 2) + 2
  BY <1>12, <1>13, <1>16, Joins, Zenon
<1>18. e[4] \in Seq(Bytes) /\ Len(e[4]) = (((0 + 4) + 2) + 2) + 5
  BY <1>12, <1>13, <1>17, Joins, Zenon
<1> QED
  BY <1>1, <1>5, <1>6, <1>18

\* read_frame returns what write_frame was given, unless it is too large.
LEMMA FrameRoundTrip ==
    ASSUME NEW type \in Nat, Shifted(type, 2) = 0, NEW flags \in 0 .. 1,
           NEW payload \in Seq(Bytes), Shifted(Len(payload), 4) = 0
    PROVE  LET frm == FrameBytes(type, flags, payload)
               got == FrameOf(frm)
           IN  /\ frm \in Seq(Bytes) /\ Len(frm) = 13 + Len(payload)
               /\ got.ok = (Len(payload) <= MaxFrame)
               /\ got.header.msg_type = type /\ got.header.flags = flags
               /\ got.payload = payload
<1>1. PICK v : v = HeaderOf(type, flags, Len(payload))
  OBVIOUS
<1>2. v.len = Len(payload) /\ v.msg_type = type /\ v.flags = flags /\ v.req_id = 1
      /\ DOMAIN v = {"len", "msg_type", "flags", "req_id"}
  BY <1>1 DEF HeaderOf
<1>3. Len(payload) \in Nat /\ flags \in Nat
  OBVIOUS
<1>4. PICK x : x = Encode(Header, v)
  OBVIOUS
<1>5. x \in Seq(Bytes) /\ Len(x) = 13 /\ Writes(Header, v)
  BY <1>1, <1>3, <1>4, HeaderLength
<1>6. AllFit(Header, v)
  <2>1. Shifted(flags, 2) = 0 /\ Shifted(1, 5) = 0
    BY SmallNumbers
  <2>2. \A i \in 1 .. 4 : i = 1 \/ i = 2 \/ i = 3 \/ i = 4
    OBVIOUS
  <2>3. \A i \in 1 .. 4 : Header[i].type \in FieldTypes /\ Writable(Header[i].type, v[Header[i].name])
    BY <1>5, HeaderFacts DEF Writes, IsLayout
  <2>4. \A i \in 1 .. 4 : ~IsBytes(Header[i].type) /\ Shifted(v[Header[i].name], Width(Header[i].type)) = 0
    BY <1>2, <2>1, <2>2, HeaderFacts, Widths DEF F, IsBytes
  <2>5. \A i \in 1 .. 4 : Fitting(Header[i], v[Header[i].name])
    BY <2>3, <2>4 DEF Fitting
  <2> QED
    BY <2>5, HeaderFacts DEF AllFit
<1>7. PICK h : h = Parse(Header, x \o payload)
  OBVIOUS
<1>8. h = [ok |-> TRUE, rest |-> payload, values |-> [name \in Names(Header) |-> v[name]]]
  <2>1. IsLayout(Header)
    BY HeaderFacts
  <2>2. Parse(Header, Encode(Header, v) \o payload) =
            [ok |-> TRUE, rest |-> payload, values |-> [name \in Names(Header) |-> v[name]]]
    BY <1>6, <2>1, RoundTrip
  <2> QED
    BY <1>4, <1>7, <2>2, Zenon
<1>9. h.ok = TRUE /\ h.rest = payload /\ h.values = [name \in Names(Header) |-> v[name]]
  BY <1>8
<1>10. h.values.len = Len(payload) /\ h.values.msg_type = type /\ h.values.flags = flags
  BY <1>2, <1>9, HeaderFacts
<1>11. FrameBytes(type, flags, payload) = x \o payload
  BY <1>1, <1>4 DEF FrameBytes, HeaderOf
<1>12. PICK got : got = FrameOf(x \o payload)
  OBVIOUS
<1>13. got = [ok |-> h.values.len <= MaxFrame /\ h.values.len <= Len(h.rest),
              header |-> h.values, payload |-> SubSeq(h.rest, 1, h.values.len)]
  BY <1>7, <1>9, <1>12 DEF FrameOf
<1>14. got.ok = (Len(payload) <= MaxFrame) /\ got.header = h.values /\ got.payload = SubSeq(payload, 1, Len(payload))
  BY <1>3, <1>9, <1>10, <1>13
<1>15. SubSeq(payload, 1, Len(payload)) = payload
  OBVIOUS
<1>16. x \o payload \in Seq(Bytes) /\ Len(x \o payload) = 13 + Len(payload)
  BY <1>5, Joins, Zenon
<1> QED
  BY <1>10, <1>11, <1>12, <1>14, <1>15, <1>16

IdTypes == {MsgCtxCreate, MsgCtxFork, MsgGetHead}

-----------------------------------------------------------------------------
(* Requests.                                                               *)

\* What the server reads, message by message.
LEMMA ParseByType ==
    \A flags, b :
        /\ ParseRequest(MsgHello, flags, b) = ParseHello(b)
        /\ \A t \in IdTypes : ParseRequest(t, flags, b) = ParseId(b)
        /\ ParseRequest(MsgAppendTurn, flags, b) = ParseAppendTurn(b, flags)
        /\ ParseRequest(MsgGetLast, flags, b) = ParseGetLast(b)
        /\ ParseRequest(MsgAttachFs, flags, b) = ParseAttachFs(b)
        /\ ParseRequest(MsgPutBlob, flags, b) = ParsePutBlob(b)
BY DEF IdTypes, ParseRequest, MsgHello, MsgCtxCreate, MsgCtxFork, MsgGetHead, MsgAppendTurn, MsgGetLast,
       MsgAttachFs, MsgPutBlob

\* What the client writes, message by message.
LEMMA RequestByType ==
    \A c :
        /\ c.type = MsgHello => Request(c) = HelloPayload(c)
        /\ c.type \in IdTypes => Request(c) = IdPayload(c)
        /\ c.type = MsgAppendTurn => Request(c) = AppendPayload(c)
        /\ c.type = MsgGetLast => Request(c) = GetLastPayload(c)
        /\ c.type = MsgAttachFs => Request(c) = AttachFsPayload(c)
        /\ c.type = MsgPutBlob => Request(c) = PutBlobPayload(c)
BY DEF IdTypes, Request, MsgHello, MsgCtxCreate, MsgCtxFork, MsgGetHead, MsgAppendTurn, MsgGetLast,
       MsgAttachFs, MsgPutBlob

\* What a call holds, message by message.
LEMMA CallByType ==
    \A c : CallOK(c) =>
        /\ c.type = MsgHello => IsValue("bytes16", c.tag)
        /\ c.type \in IdTypes => IsValue("u64", c.id)
        /\ c.type = MsgAppendTurn =>
              /\ IsValue("u64", c.context_id) /\ IsValue("u64", c.parent)
              /\ IsValue("u32", c.type_version) /\ IsValue("u32", c.encoding) /\ IsValue("u32", c.compression)
              /\ IsValue("bytes32", c.type_id) /\ IsValue("bytes32", c.payload) /\ IsValue("bytes32", c.key)
              /\ c.fs_root = <<>> \/ IsValue("hash", c.fs_root)
        /\ c.type = MsgGetLast => IsValue("u64", c.context_id) /\ IsValue("u32", c.limit) /\ c.include \in BOOLEAN
        /\ c.type = MsgAttachFs => IsValue("u64", c.turn_id) /\ IsValue("hash", c.root)
        /\ c.type = MsgPutBlob => IsValue("bytes32", c.data)
<1> SUFFICES ASSUME NEW c, CallOK(c)
             PROVE  /\ c.type = MsgHello => IsValue("bytes16", c.tag)
                    /\ c.type \in IdTypes => IsValue("u64", c.id)
                    /\ c.type = MsgAppendTurn =>
                          /\ IsValue("u64", c.context_id) /\ IsValue("u64", c.parent)
                          /\ IsValue("u32", c.type_version) /\ IsValue("u32", c.encoding)
                          /\ IsValue("u32", c.compression) /\ IsValue("bytes32", c.type_id)
                          /\ IsValue("bytes32", c.payload) /\ IsValue("bytes32", c.key)
                          /\ c.fs_root = <<>> \/ IsValue("hash", c.fs_root)
                    /\ c.type = MsgGetLast => /\ IsValue("u64", c.context_id) /\ IsValue("u32", c.limit)
                                             /\ c.include \in BOOLEAN
                    /\ c.type = MsgAttachFs => IsValue("u64", c.turn_id) /\ IsValue("hash", c.root)
                    /\ c.type = MsgPutBlob => IsValue("bytes32", c.data)
  OBVIOUS
<1>1. CASE c.type = MsgHello
  BY <1>1 DEF IdTypes, CallOK, MsgHello, MsgCtxCreate, MsgCtxFork, MsgGetHead, MsgAppendTurn, MsgGetLast,
         MsgAttachFs, MsgPutBlob
<1>2. CASE c.type \in IdTypes
  <2>1. c.type = MsgCtxCreate \/ c.type = MsgCtxFork \/ c.type = MsgGetHead
    BY <1>2 DEF IdTypes
  <2>2. IsValue("u64", c.id)
    <3>1. CASE c.type = MsgCtxCreate
      BY <3>1 DEF CallOK, MsgHello, MsgCtxCreate, MsgCtxFork, MsgGetHead, MsgAppendTurn, MsgGetLast,
           MsgAttachFs, MsgPutBlob
    <3>2. CASE c.type = MsgCtxFork
      BY <3>2 DEF CallOK, MsgHello, MsgCtxCreate, MsgCtxFork, MsgGetHead, MsgAppendTurn, MsgGetLast,
           MsgAttachFs, MsgPutBlob
    <3>3. CASE c.type = MsgGetHead
      BY <3>3 DEF CallOK, MsgHello, MsgCtxCreate, MsgCtxFork, MsgGetHead, MsgAppendTurn, MsgGetLast,
           MsgAttachFs, MsgPutBlob
    <3> QED
      BY <2>1, <3>1, <3>2, <3>3
  <2>3. /\ c.type # MsgHello /\ c.type # MsgAppendTurn /\ c.type # MsgGetLast /\ c.type # MsgAttachFs
        /\ c.type # MsgPutBlob
    BY <2>1 DEF MsgHello, MsgCtxCreate, MsgCtxFork, MsgGetHead, MsgAppendTurn, MsgGetLast,
         MsgAttachFs, MsgPutBlob
  <2> QED
    BY <2>2, <2>3
<1>3. CASE c.type = MsgAppendTurn
  <2>1. /\ \A name \in {"context_id", "parent"} : IsValue("u64", c[name])
        /\ \A name \in {"type_version", "encoding", "compression"} : IsValue("u32", c[name])
        /\ \A name \in {"type_id", "payload", "key"} : IsValue("bytes32", c[name])
        /\ c.fs_root = <<>> \/ IsValue("hash", c.fs_root)
    BY <1>3 DEF CallOK, MsgHello, MsgCtxCreate, MsgCtxFork, MsgGetHead, MsgAppendTurn, MsgGetLast,
         MsgAttachFs, MsgPutBlob
  <2>2. IsValue("u64", c.context_id) /\ IsValue("u64", c.parent)
    BY <2>1
  <2>3. IsValue("u32", c.type_version) /\ IsValue("u32", c.encoding) /\ IsValue("u32", c.compression)
    BY <2>1
  <2>4. IsValue("bytes32", c.type_id) /\ IsValue("bytes32", c.payload) /\ IsValue("bytes32", c.key)
    BY <2>1
  <2> HIDE DEF IdTypes
  <2>5. c.type \notin IdTypes /\ c.type # MsgHello /\ c.type # MsgGetLast /\ c.type # MsgAttachFs
        /\ c.type # MsgPutBlob
    BY <1>3 DEF IdTypes, MsgHello, MsgCtxCreate, MsgCtxFork, MsgGetHead, MsgAppendTurn, MsgGetLast,
         MsgAttachFs, MsgPutBlob
  <2> QED
    BY <2>1, <2>2, <2>3, <2>4, <2>5
<1>4. CASE c.type = MsgGetLast
  BY <1>4 DEF IdTypes, CallOK, MsgHello, MsgCtxCreate, MsgCtxFork, MsgGetHead, MsgAppendTurn, MsgGetLast,
         MsgAttachFs, MsgPutBlob
<1>5. CASE c.type = MsgAttachFs
  BY <1>5 DEF IdTypes, CallOK, MsgHello, MsgCtxCreate, MsgCtxFork, MsgGetHead, MsgAppendTurn, MsgGetLast,
         MsgAttachFs, MsgPutBlob
<1>6. CASE c.type = MsgPutBlob
  BY <1>6 DEF IdTypes, CallOK, MsgHello, MsgCtxCreate, MsgCtxFork, MsgGetHead, MsgAppendTurn, MsgGetLast,
         MsgAttachFs, MsgPutBlob
<1> QED
  BY <1>1, <1>2, <1>3, <1>4, <1>5, <1>6

\* What a call says, message by message.
LEMMA MeantByType ==
    \A c :
        /\ c.type = MsgHello => Meant(c) = [version |-> 1, tag |-> c.tag, meta |-> <<>>]
        /\ c.type \in IdTypes => Meant(c) = [id |-> c.id]
        /\ c.type = MsgAppendTurn =>
              Meant(c) = [name \in {"context_id", "parent", "type_id", "type_version", "payload", "key"}
                              \union (IF HasRoot(c) THEN {"fs_root"} ELSE {}) |-> c[name]]
        /\ c.type = MsgGetLast => Meant(c) = [context_id |-> c.context_id, limit |-> IF c.limit = 0 THEN 10 ELSE c.limit,
                                              include |-> IF c.include THEN 1 ELSE 0]
        /\ c.type = MsgAttachFs => Meant(c) = [turn_id |-> c.turn_id, root |-> c.root]
        /\ c.type = MsgPutBlob => Meant(c) = [hash |-> Blake3(c.data), data |-> c.data]
BY DEF IdTypes, Meant, MsgHello, MsgCtxCreate, MsgCtxFork, MsgGetHead, MsgAppendTurn, MsgGetLast,
       MsgAttachFs, MsgPutBlob

\* No two messages have one type.
LEMMA TypesDiffer ==
    /\ IdTypes \subseteq Nat \ {MsgHello, MsgAppendTurn, MsgGetLast, MsgAttachFs, MsgPutBlob}
    /\ MsgHello # MsgAppendTurn /\ MsgGetLast # MsgAppendTurn 
    /\ MsgAttachFs # MsgAppendTurn /\ MsgPutBlob # MsgAppendTurn
BY DEF IdTypes, MsgHello, MsgCtxCreate, MsgCtxFork, MsgGetHead, MsgAppendTurn, MsgGetLast,
       MsgAttachFs, MsgPutBlob

FlagsOf(c) == IF HasRoot(c) THEN 1 ELSE 0
\* The server has read what the caller said.
Understood(c, req) ==
    /\ \A name \in DOMAIN Meant(c) : req[name] = Meant(c)[name]
    /\ DOMAIN Meant(c) = DOMAIN req \/ c.type = MsgAppendTurn
    /\ c.type = MsgAppendTurn => (HasRoot(c) <=> "fs_root" \in DOMAIN req)
ReadsBack(c) ==
    /\ ParseRequest(c.type, FlagsOf(c), Request(c)).ok = TRUE
    /\ Understood(c, ParseRequest(c.type, FlagsOf(c), Request(c)).values)
Unbroken(c) ==
    \A n \in 0 .. Len(Request(c)) - 1 :
        ParseRequest(c.type, FlagsOf(c), SubSeq(Request(c), 1, n)).ok => n = 0 /\ c.type = MsgHello

\* A request that is written, and one that is read, by one layout; and read as
\* the values.
SentBy(c, layout, values) ==
    /\ IsLayout(layout) /\ Typed(layout, values) /\ Request(c) = Encode(layout, values)
    /\ \A i \in 1 .. Len(layout) : layout[i].type = "bytes16" => Shifted(Len(values[layout[i].name]), 2) = 0
ReadBy(c, layout) ==
    /\ \A b : ParseRequest(c.type, FlagsOf(c), b) \in {Failed, Parse(layout, b)}
    /\ ParseRequest(c.type, FlagsOf(c), Request(c)) = Parse(layout, Request(c))

TakenAs(c, layout, values) ==
    /\ Request(c) \in Seq(Bytes) /\ Unbroken(c)
    /\ ParseRequest(c.type, FlagsOf(c), Request(c)).ok = TRUE
    /\ ParseRequest(c.type, FlagsOf(c), Request(c)).values = [name \in Names(layout) |-> values[name]]

\* The values of a request that fits have room in their fields.
LEMMA SentFits ==
    ASSUME NEW c, NEW layout, NEW values, SentBy(c, layout, values), Sized(Request(c))
    PROVE  Request(c) \in Seq(Bytes) /\ AllFit(layout, values)
<1>2. IsLayout(layout) /\ Typed(layout, values) /\ Request(c) = Encode(layout, values)
  BY DEF SentBy
<1>3. Request(c) \in Seq(Bytes)
  BY <1>2, TypedWrites, EncodeType
<1>4. AllFit(layout, values)
  <2>1. \A i \in 1 .. Len(layout) : layout[i].type = "bytes16" => Shifted(Len(values[layout[i].name]), 2) = 0
    BY DEF SentBy
  <2>2. Len(Request(c)) \in Nat /\ Len(Request(c)) <= Len(Request(c)) /\ Shifted(Len(Request(c)), 4) = 0
    BY <1>3, Widths DEF Sized
  <2> QED
    BY <1>2, <2>1, <2>2, SizedFits
<1> QED
  BY <1>3, <1>4

\* A request that both sides have one layout for is understood.
LEMMA LayoutRequest ==
    ASSUME NEW c, NEW layout, NEW values, SentBy(c, layout, values), ReadBy(c, layout), Sized(Request(c))
    PROVE  TakenAs(c, layout, values)
<1>1. PICK p : p = ParseRequest(c.type, FlagsOf(c), Request(c))
  OBVIOUS
<1>2. IsLayout(layout) /\ Typed(layout, values) /\ Request(c) = Encode(layout, values)
  BY DEF SentBy
<1>3. Request(c) \in Seq(Bytes)
  BY SentFits
<1>4. AllFit(layout, values)
  BY SentFits
<1>5. p = [ok |-> TRUE, rest |-> <<>>, values |-> [name \in Names(layout) |-> values[name]]]
  BY <1>1, <1>2, <1>4, RoundTripWhole DEF ReadBy
<1>6. p.ok = TRUE /\ p.values = [name \in Names(layout) |-> values[name]]
  BY <1>5
<1>7. Unbroken(c)
  <2> SUFFICES ASSUME NEW n \in 0 .. Len(Request(c)) - 1
               PROVE  ~ParseRequest(c.type, FlagsOf(c), SubSeq(Request(c), 1, n)).ok
    BY DEF Unbroken
  <2>1. n \in 0 .. Len(Encode(layout, values)) - 1
    BY <1>2
  <2>2. Parse(layout, SubSeq(Request(c), 1, n)) = Failed
    BY <1>2, <1>4, <2>1, Truncated
  <2>3. ParseRequest(c.type, FlagsOf(c), SubSeq(Request(c), 1, n)) = Failed
    BY <2>2 DEF ReadBy
  <2> QED
    BY <2>3 DEF Failed
<1> QED
  BY <1>1, <1>3, <1>6, <1>7 DEF TakenAs

\* create_context, fork_context, get_head.
LEMMA IdRequest ==
    ASSUME NEW c, c.type \in IdTypes, CallOK(c), Sized(Request(c))
    PROVE  Request(c) \in Seq(Bytes) /\ ReadsBack(c) /\ Unbroken(c)
<1>1. PICK layout : layout = <<F("id", "u64")>>
  OBVIOUS
<1>2. Len(layout) = 1 /\ layout[1].name = "id" /\ layout[1].type = "u64"
  BY <1>1 DEF F
<1>3. IsValue("u64", c.id)
  BY CallByType
<1>4. SentBy(c, layout, c)
  <2>1. Typed(layout, c) /\ IsLayout(layout) /\ \A i \in 1 .. Len(layout) : layout[i].type # "bytes16"
    BY <1>2, <1>3 DEF Typed, IsLayout, FieldTypes
  <2>2. Request(c) = Encode(layout, c)
    BY <1>1, RequestByType DEF IdPayload
  <2> QED
    BY <2>1, <2>2 DEF SentBy
<1>5. ReadBy(c, layout)
  BY <1>1, ParseByType DEF ParseId, ReadBy
<1>6. PICK req : req = ParseRequest(c.type, FlagsOf(c), Request(c)).values
  OBVIOUS
<1>7. Request(c) \in Seq(Bytes) /\ Unbroken(c) /\ ParseRequest(c.type, FlagsOf(c), Request(c)).ok = TRUE
      /\ req = [name \in Names(layout) |-> c[name]]
  <2>1. TakenAs(c, layout, c)
    BY <1>4, <1>5, LayoutRequest
  <2> QED
    BY <1>6, <2>1 DEF TakenAs
<1>8. Names(layout) = {"id"}
  BY <1>2 DEF Names
<1>9. req["id"] = c.id /\ DOMAIN req = {"id"}
  BY <1>7, <1>8
<1>10. Meant(c) = [id |-> c.id] /\ c.type # MsgAppendTurn
  BY MeantByType, TypesDiffer
<1>11. Understood(c, req)
  BY <1>9, <1>10 DEF Understood
<1> QED
  BY <1>6, <1>7, <1>11 DEF ReadsBack

\* get_last.
LEMMA GetLastRequest ==
    ASSUME NEW c, c.type = MsgGetLast, CallOK(c), Sized(Request(c))
    PROVE  Request(c) \in Seq(Bytes) /\ ReadsBack(c) /\ Unbroken(c)
<1>1. PICK layout : layout = <<F("context_id", "u64"), F("limit", "u32"), F("include", "u32")>>
  OBVIOUS
<1>2. /\ Len(layout) = 3 /\ layout[1].name = "context_id" /\ layout[1].type = "u64"
      /\ layout[2].name = "limit" /\ layout[2].type = "u32"
      /\ layout[3].name = "include" /\ layout[3].type = "u32"
  BY <1>1 DEF F
<1>3. \A i \in 1 .. 3 : i = 1 \/ i = 2 \/ i = 3
  OBVIOUS
<1>4. PICK v : v = [context_id |-> c.context_id, limit |-> IF c.limit = 0 THEN 10 ELSE c.limit,
                    include |-> IF c.include THEN 1 ELSE 0]
  OBVIOUS
<1>5. IsValue("u64", v.context_id) /\ IsValue("u32", v.limit) /\ IsValue("u32", v.include)
  <2>1. IsValue("u64", c.context_id) /\ IsValue("u32", c.limit)
    BY CallByType
  <2>2. \A n \in 0 .. 15 : IsValue("u32", n)
    BY SmallNumbers, Widths DEF IsValue, IsBytes
  <2>3. IsValue("u32", 10) /\ IsValue("u32", 1) /\ IsValue("u32", 0)
    BY <2>2
  <2> QED
    BY <1>4, <2>1, <2>3
<1>6. SentBy(c, layout, v)
  <2>1. Typed(layout, v) /\ IsLayout(layout) /\ \A i \in 1 .. Len(layout) : layout[i].type # "bytes16"
    BY <1>2, <1>3, <1>5 DEF Typed, IsLayout, FieldTypes
  <2>2. Request(c) = Encode(layout, v)
    BY <1>1, <1>4, RequestByType DEF GetLastPayload
  <2> QED
    BY <2>1, <2>2 DEF SentBy
<1>7. ReadBy(c, layout)
  BY <1>1, ParseByType DEF ParseGetLast, ReadBy
<1>8. PICK req : req = ParseRequest(c.type, FlagsOf(c), Request(c)).values
  OBVIOUS
<1>9. Request(c) \in Seq(Bytes) /\ Unbroken(c) /\ ParseRequest(c.type, FlagsOf(c), Request(c)).ok = TRUE
      /\ req = [name \in Names(layout) |-> v[name]]
  <2>1. TakenAs(c, layout, v)
    BY <1>6, <1>7, LayoutRequest
  <2> QED
    BY <1>8, <2>1 DEF TakenAs
<1>10. Names(layout) = {"context_id", "limit", "include"}
  <2>1. \A i \in 1 .. 3 : layout[i].name \in {"context_id", "limit", "include"}
    BY <1>2, <1>3
  <2>2. 1 \in 1 .. 3 /\ 2 \in 1 .. 3 /\ 3 \in 1 .. 3
    OBVIOUS
  <2> QED
    BY <1>2, <2>1, <2>2 DEF Names
<1>11. DOMAIN v = Names(layout)
  BY <1>4, <1>10
<1>12. Meant(c) = v /\ c.type # MsgAppendTurn
  BY <1>4, MeantByType, TypesDiffer
<1>13. Understood(c, req)
  BY <1>9, <1>11, <1>12 DEF Understood
<1> QED
  BY <1>8, <1>9, <1>13 DEF ReadsBack

\* attach_fs.
LEMMA AttachFsRequest ==
    ASSUME NEW c, c.type = MsgAttachFs, CallOK(c), Sized(Request(c))
    PROVE  Request(c) \in Seq(Bytes) /\ ReadsBack(c) /\ Unbroken(c)
<1>1. PICK f : f = F("turn_id", "u64")
  OBVIOUS
<1>2. PICK g : g = F("root", "hash")
  OBVIOUS
<1>3. f.name = "turn_id" /\ f.type = "u64" /\ g.name = "root" /\ g.type = "hash"
  BY <1>1, <1>2 DEF F
<1>4. PICK layout : layout = <<f, g>>
  OBVIOUS
<1>5. Len(layout) = 2 /\ layout[1] = f /\ layout[2] = g
  BY <1>4
<1>6. \A i \in 1 .. 2 : i = 1 \/ i = 2
  OBVIOUS
<1>7. IsValue("u64", c.turn_id) /\ IsValue("hash", c.root)
  BY CallByType
<1>8. Typed(layout, c) /\ IsLayout(layout) /\ \A i \in 1 .. Len(layout) : layout[i].type # "bytes16"
  BY <1>3, <1>5, <1>6, <1>7 DEF Typed, IsLayout, FieldTypes
<1>9. Request(c) = Encode(layout, c)
  BY <1>1, <1>2, <1>4, RequestByType DEF AttachFsPayload
<1>10. SentBy(c, layout, c)
  BY <1>8, <1>9 DEF SentBy
<1>11. Len(Request(c)) = 7
  <2>1. f.type \in FieldTypes /\ g.type \in FieldTypes /\ Writes(layout, c)
    BY <1>3, <1>8, TypedWrites DEF FieldTypes
  <2>2. Writable(f.type, c[f.name]) /\ Writable(g.type, c[g.name])
    BY <1>5, <2>1 DEF Writes
  <2>3. ~IsBytes(f.type) /\ ~IsBytes(g.type) /\ Width(f.type) = 5 /\ Width(g.type) = 2
    BY <1>3, Widths DEF IsBytes
  <2>4. PICK x : x = WriteField(f, c[f.name])
    OBVIOUS
  <2>5. PICK y : y = WriteField(g, c[g.name])
    OBVIOUS
  <2>6. x \in Seq(Bytes) /\ Len(x) = 5 + 0 /\ y \in Seq(Bytes) /\ Len(y) = 2 + 0
    BY <2>1, <2>2, <2>3, <2>4, <2>5, WriteFacts
  <2>7. Request(c) = x \o y
    BY <1>4, <1>9, <2>1, <2>4, <2>5, EncodeTwo
  <2>8. Len(x \o y) = (5 + 0) + (2 + 0)
    BY <2>6, Joins, Zenon
  <2> QED
    BY <2>7, <2>8
<1>12. ReadBy(c, layout)
  <2>1. \A b : ParseRequest(c.type, FlagsOf(c), b) = IF Len(b) < 7 THEN Failed ELSE Parse(layout, b)
    BY <1>1, <1>2, <1>4, ParseByType, Widths DEF ParseAttachFs
  <2>2. ~ (Len(Request(c)) < 7)
    BY <1>11
  <2>3. ParseRequest(c.type, FlagsOf(c), Request(c)) = Parse(layout, Request(c))
    BY <2>1, <2>2
  <2>4. \A b : ParseRequest(c.type, FlagsOf(c), b) \in {Failed, Parse(layout, b)}
    BY <2>1
  <2> QED
    BY <2>3, <2>4 DEF ReadBy
<1>13. PICK req : req = ParseRequest(c.type, FlagsOf(c), Request(c)).values
  OBVIOUS
<1>14. Request(c) \in Seq(Bytes) /\ Unbroken(c) /\ ParseRequest(c.type, FlagsOf(c), Request(c)).ok = TRUE
       /\ req = [name \in Names(layout) |-> c[name]]
  <2>1. TakenAs(c, layout, c)
    BY <1>10, <1>12, LayoutRequest
  <2> QED
    BY <1>13, <2>1 DEF TakenAs
<1>15. Names(layout) = {"turn_id", "root"}
  <2>1. \A i \in 1 .. 2 : layout[i].name \in {"turn_id", "root"}
    BY <1>3, <1>5, <1>6
  <2>2. 1 \in 1 .. 2 /\ 2 \in 1 .. 2
    OBVIOUS
  <2> QED
    BY <1>3, <1>5, <2>1, <2>2 DEF Names
<1>16. req["turn_id"] = c.turn_id /\ req["root"] = c.root /\ DOMAIN req = {"turn_id", "root"}
  BY <1>14, <1>15
<1>17. Meant(c) = [turn_id |-> c.turn_id, root |-> c.root] /\ c.type # MsgAppendTurn
  BY MeantByType, TypesDiffer
<1>18. Understood(c, req)
  BY <1>16, <1>17 DEF Understood
<1> QED
  BY <1>13, <1>14, <1>18 DEF ReadsBack

\* put_blob.
LEMMA PutBlobRequest ==
    ASSUME NEW c, c.type = MsgPutBlob, CallOK(c), Sized(Request(c))
    PROVE  Request(c) \in Seq(Bytes) /\ ReadsBack(c) /\ Unbroken(c)
<1>1. PICK f : f = F("hash", "hash")
  OBVIOUS
<1>2. PICK g : g = F("data", "bytes32")
  OBVIOUS
<1>3. f.name = "hash" /\ f.type = "hash" /\ g.name = "data" /\ g.type = "bytes32"
  BY <1>1, <1>2 DEF F
<1>4. PICK layout : layout = <<f, g>>
  OBVIOUS
<1>5. Len(layout) = 2 /\ layout[1] = f /\ layout[2] = g
  BY <1>4
<1>6. \A i \in 1 .. 2 : i = 1 \/ i = 2
  OBVIOUS
<1>7. PICK v : v = [hash |-> Blake3(c.data), data |-> c.data]
  OBVIOUS
<1>8. v["hash"] = Blake3(c.data) /\ v["data"] = c.data /\ DOMAIN v = {"hash", "data"}
  BY <1>7
<1>9. c.data \in Seq(Bytes) /\ IsValue("bytes32", c.data)
  BY CallByType DEF IsValue, IsBytes
<1>10. IsValue("hash", Blake3(c.data))
  BY <1>9, Blake3Facts, Widths DEF IsValue
<1>11. Typed(layout, v) /\ IsLayout(layout) /\ \A i \in 1 .. Len(layout) : layout[i].type # "bytes16"
  BY <1>3, <1>5, <1>6, <1>8, <1>9, <1>10 DEF Typed, IsLayout, FieldTypes
<1>12. Request(c) = Encode(layout, v)
  BY <1>1, <1>2, <1>4, <1>7, RequestByType DEF PutBlobPayload
<1>13. SentBy(c, layout, v)
  BY <1>11, <1>12 DEF SentBy
<1>14. ~ (Len(Request(c)) < 6)
  <2>1. f.type \in FieldTypes /\ g.type \in FieldTypes /\ Writes(layout, v)
    BY <1>3, <1>11, TypedWrites DEF FieldTypes
  <2>2. Writable(f.type, v[f.name]) /\ Writable(g.type, v[g.name])
    BY <1>5, <2>1 DEF Writes
  <2>3. ~IsBytes(f.type) /\ IsBytes(g.type) /\ Width(f.type) = 2 /\ Width(g.type) = 4
    BY <1>3, Widths DEF IsBytes
  <2>4. PICK x : x = WriteField(f, v[f.name])
    OBVIOUS
  <2>5. PICK y : y = WriteField(g, v[g.name])
    OBVIOUS
  <2>6. x \in Seq(Bytes) /\ Len(x) = 2 + 0 /\ y \in Seq(Bytes) /\ Len(y) = 4 + Len(v[g.name])
    BY <2>1, <2>2, <2>3, <2>4, <2>5, WriteFacts
  <2>7. Len(v[g.name]) \in Nat
    BY <1>3, <1>8, <1>9
  <2>8. Request(c) = x \o y
    BY <1>4, <1>12, <2>1, <2>4, <2>5, EncodeTwo
  <2>9. Len(x \o y) = (2 + 0) + (4 + Len(v[g.name]))
    BY <2>6, Joins, Zenon
  <2> QED
    BY <2>7, <2>8, <2>9
<1>15. ReadBy(c, layout)
  <2>1. \A b : ParseRequest(c.type, FlagsOf(c), b) = IF Len(b) < 6 THEN Failed ELSE Parse(layout, b)
    BY <1>1, <1>2, <1>4, ParseByType, Widths DEF ParsePutBlob
  <2> QED
    BY <1>14, <2>1 DEF ReadBy
<1>16. PICK req : req = ParseRequest(c.type, FlagsOf(c), Request(c)).values
  OBVIOUS
<1>17. Request(c) \in Seq(Bytes) /\ Unbroken(c) /\ ParseRequest(c.type, FlagsOf(c), Request(c)).ok = TRUE
       /\ req = [name \in Names(layout) |-> v[name]]
  <2>1. TakenAs(c, layout, v)
    BY <1>13, <1>15, LayoutRequest
  <2> QED
    BY <1>16, <2>1 DEF TakenAs
<1>18. Names(layout) = {"hash", "data"}
  <2>1. \A i \in 1 .. 2 : layout[i].name \in {"hash", "data"}
    BY <1>3, <1>5, <1>6
  <2>2. 1 \in 1 .. 2 /\ 2 \in 1 .. 2
    OBVIOUS
  <2> QED
    BY <1>3, <1>5, <2>1, <2>2 DEF Names
<1>19. Meant(c) = v /\ c.type # MsgAppendTurn
  BY <1>7, MeantByType, TypesDiffer
<1>20. Understood(c, req)
  BY <1>8, <1>17, <1>18, <1>19 DEF Understood
<1> QED
  BY <1>16, <1>17, <1>20 DEF ReadsBack

\* hello: the client writes a zero where the server reads the length of the metadata.
LEMMA HelloRequest ==
    ASSUME NEW c, c.type = MsgHello, CallOK(c), Fits(c)
    PROVE  Request(c) \in Seq(Bytes) /\ ReadsBack(c) /\ Unbroken(c)
<1>1. PICK f : f = F("version", "u16")
  OBVIOUS
<1>2. PICK g : g = F("tag", "bytes16")
  OBVIOUS
<1>3. PICK h : h = F("meta", "u32")
  OBVIOUS
<1>4. PICK k : k = F("meta", "bytes32")
  OBVIOUS
<1>5. /\ f.name = "version" /\ f.type = "u16" /\ g.name = "tag" /\ g.type = "bytes16"
      /\ h.name = "meta" /\ h.type = "u32" /\ k.name = "meta" /\ k.type = "bytes32"
  BY <1>1, <1>2, <1>3, <1>4 DEF F
<1>6. f.type \in FieldTypes /\ g.type \in FieldTypes /\ h.type \in FieldTypes /\ k.type \in FieldTypes
  BY <1>5 DEF FieldTypes
<1>7. PICK u : u = [version |-> 1, tag |-> c.tag, meta |-> 0]
  OBVIOUS
<1>8. PICK v : v = [version |-> 1, tag |-> c.tag, meta |-> <<>>]
  OBVIOUS
<1>9. /\ u["version"] = 1 /\ u["tag"] = c.tag /\ u["meta"] = 0 /\ v["version"] = 1 /\ v["tag"] = c.tag
      /\ v["meta"] = <<>> /\ DOMAIN v = {"version", "tag", "meta"}
  BY <1>7, <1>8
<1>10. IsValue("bytes16", c.tag) /\ IsValue("u16", 1) /\ IsValue("u32", 0) /\ IsValue("bytes32", <<>>)
  <2>1. IsValue("bytes16", c.tag)
    BY CallByType
  <2>2. \A n \in 0 .. 15 : IsValue("u16", n) /\ IsValue("u32", n)
    BY SmallNumbers, Widths DEF IsValue, IsBytes
  <2>3. IsValue("bytes32", <<>>)
    BY DEF IsValue, IsBytes
  <2> QED
    BY <2>1, <2>2, <2>3
<1>11. PICK ours : ours = <<f, g, h>>
  OBVIOUS
<1>12. PICK theirs : theirs = <<f, g, k>>
  OBVIOUS
<1>13. /\ Len(ours) = 3 /\ ours[1] = f /\ ours[2] = g /\ ours[3] = h
       /\ Len(theirs) = 3 /\ theirs[1] = f /\ theirs[2] = g /\ theirs[3] = k
  BY <1>11, <1>12
<1>14. \A i \in 1 .. 3 : i = 1 \/ i = 2 \/ i = 3
  OBVIOUS
<1>15. IsLayout(ours) /\ IsLayout(theirs)
  BY <1>6, <1>13, <1>14 DEF IsLayout
<1>16. Typed(ours, u)
  BY <1>5, <1>9, <1>10, <1>13, <1>14 DEF Typed
<1>17. Typed(theirs, v)
  BY <1>5, <1>9, <1>10, <1>13, <1>14 DEF Typed
<1>18. Writes(ours, u) /\ Writes(theirs, v)
  BY <1>15, <1>16, <1>17, TypedWrites
<1>19. WriteField(h, u[h.name]) = WriteField(k, v[k.name])
  <2>1. Writable(h.type, 0) /\ Writable(k.type, <<>>) /\ ~IsBytes(h.type) /\ IsBytes(k.type) /\ h.type # "hash"
    BY <1>5 DEF Writable, IsBytes
  <2>2. WriteField(h, 0) = Digits(0, Width(h.type))
    BY <1>6, <2>1, WriteFacts
  <2>3. WriteField(k, <<>>) = Digits(Len(<<>>), Width(k.type)) \o <<>>
    BY <1>6, <2>1, WriteFacts
  <2>4. Width(h.type) = 4 /\ Width(k.type) = 4 /\ Len(<<>>) = 0
    BY <1>5, Widths
  <2>5. Digits(0, 4) \in Seq(Bytes)
    BY DigitsFacts
  <2>6. \A s \in Seq(Bytes) : s \o <<>> = s
    OBVIOUS
  <2>7. Digits(0, 4) \o <<>> = Digits(0, 4)
    BY <2>5, <2>6, Zenon
  <2>8. u[h.name] = 0 /\ v[k.name] = <<>>
    BY <1>5, <1>9
  <2> QED
    BY <2>2, <2>3, <2>4, <2>7, <2>8, Zenon
<1>20. Request(c) = Encode(theirs, v)
  <2>1. Request(c) = Encode(ours, u)
    BY <1>1, <1>2, <1>3, <1>7, <1>11, RequestByType DEF HelloPayload
  <2>2. Encode(ours, u) = (WriteField(f, u[f.name]) \o WriteField(g, u[g.name])) \o WriteField(h, u[h.name])
    BY <1>13, <1>15, <1>18, EncodeThree
  <2>3. Encode(theirs, v) = (WriteField(f, v[f.name]) \o WriteField(g, v[g.name])) \o WriteField(k, v[k.name])
    BY <1>13, <1>15, <1>18, EncodeThree
  <2>4. u[f.name] = v[f.name] /\ u[g.name] = v[g.name]
    BY <1>5, <1>9
  <2> QED
    BY <1>19, <2>1, <2>2, <2>3, <2>4, Zenon
<1>21. SentBy(c, theirs, v)
  <2>1. Shifted(Len(c.tag), 2) = 0
    BY Widths DEF Fits
  <2>2. \A i \in 1 .. Len(theirs) : theirs[i].type = "bytes16" => Shifted(Len(v[theirs[i].name]), 2) = 0
    BY <1>5, <1>9, <1>13, <1>14, <2>1
  <2> QED
    BY <1>15, <1>17, <1>20, <2>2 DEF SentBy
<1>22. Request(c) \in Seq(Bytes) /\ AllFit(theirs, v)
  BY <1>21, SentFits DEF Fits
<1>23. Request(c) # <<>>
  <2>1. PICK x : x = WriteField(f, v[f.name])
    OBVIOUS
  <2>2. 1 \in 1 .. Len(theirs)
    BY <1>13
  <2>3. Len(x) <= Len(Request(c))
    BY <1>13, <1>15, <1>18, <1>20, <2>1, <2>2, EncodeType
  <2>4. Writable(f.type, v[f.name]) /\ ~IsBytes(f.type) /\ Width(f.type) = 2
    BY <1>5, <1>9, Widths DEF Writable, IsBytes
  <2>5. Len(x) = 2 + 0
    BY <1>6, <2>1, <2>4, WriteFacts
  <2>6. Len(Request(c)) # 0
    BY <1>22, <2>3, <2>5
  <2> QED
    BY <2>6
<1>24. \A b : ParseRequest(c.type, FlagsOf(c), b) =
          IF b = <<>> THEN [ok |-> TRUE, values |-> [version |-> 0, tag |-> <<>>, meta |-> <<>>]]
          ELSE Parse(theirs, b)
  BY <1>1, <1>2, <1>4, <1>12, ParseByType DEF ParseHello
<1>25. PICK p : p = ParseRequest(c.type, FlagsOf(c), Request(c))
  OBVIOUS
<1>26. p = Parse(theirs, Encode(theirs, v))
  BY <1>20, <1>23, <1>24, <1>25
<1>27. p = [ok |-> TRUE, rest |-> <<>>, values |-> [name \in Names(theirs) |-> v[name]]]
  BY <1>15, <1>22, <1>26, RoundTripWhole
<1>28. p.ok = TRUE /\ p.values = [name \in Names(theirs) |-> v[name]]
  BY <1>27
<1>29. Names(theirs) = {"version", "tag", "meta"}
  <2>1. \A i \in 1 .. 3 : theirs[i].name \in {"version", "tag", "meta"}
    BY <1>5, <1>13, <1>14
  <2>2. 1 \in 1 .. 3 /\ 2 \in 1 .. 3 /\ 3 \in 1 .. 3
    OBVIOUS
  <2> QED
    BY <1>5, <1>13, <2>1, <2>2 DEF Names
<1>30. Meant(c) = v /\ c.type # MsgAppendTurn
  BY <1>8, MeantByType, TypesDiffer
<1>31. Understood(c, p.values)
  BY <1>9, <1>28, <1>29, <1>30 DEF Understood
<1>32. Unbroken(c)
  <2> SUFFICES ASSUME NEW n \in 0 .. Len(Request(c)) - 1, n # 0
               PROVE  ~ParseRequest(c.type, FlagsOf(c), SubSeq(Request(c), 1, n)).ok
    BY DEF Unbroken
  <2>1. n \in 0 .. Len(Encode(theirs, v)) - 1
    BY <1>20
  <2>2. Parse(theirs, SubSeq(Request(c), 1, n)) = Failed
    BY <1>15, <1>20, <1>22, <2>1, Truncated
  <2>3. Len(SubSeq(Request(c), 1, n)) = n
    BY <1>22
  <2>4. SubSeq(Request(c), 1, n) # <<>>
    BY <2>3
  <2>5. ParseRequest(c.type, FlagsOf(c), SubSeq(Request(c), 1, n)) = Failed
    BY <1>24, <2>2, <2>4
  <2> QED
    BY <2>5 DEF Failed
<1> QED
  BY <1>22, <1>25, <1>28, <1>31, <1>32 DEF ReadsBack

-----------------------------------------------------------------------------
(* Appends.                                                                *)

AppendNames == {"context_id", "parent", "type_id", "type_version", "encoding", "compression",
                "uncompressed_len", "hash", "payload", "key"}

\* The fields of an append without a root.
LEMMA AppendLayoutFacts ==
    /\ Len(AppendLayout) = 10
    /\ AppendLayout[1] = F("context_id", "u64") /\ AppendLayout[2] = F("parent", "u64")
    /\ AppendLayout[3] = F("type_id", "bytes32") /\ AppendLayout[4] = F("type_version", "u32")
    /\ AppendLayout[5] = F("encoding", "u32") /\ AppendLayout[6] = F("compression", "u32")
    /\ AppendLayout[7] = F("uncompressed_len", "u32") /\ AppendLayout[8] = F("hash", "hash")
    /\ AppendLayout[9] = F("payload", "bytes32") /\ AppendLayout[10] = F("key", "bytes32")
BY DEF AppendLayout

\* A root is one more field.
LEMMA AppendFieldsFacts ==
    ASSUME NEW withRoot \in BOOLEAN
    PROVE  /\ Len(AppendFields(withRoot)) = (IF withRoot THEN 11 ELSE 10)
           /\ \A i \in 1 .. 10 : AppendFields(withRoot)[i] = AppendLayout[i]
           /\ withRoot => AppendFields(withRoot)[11] = F("fs_root", "hash")
<1>1. PICK L : L = AppendLayout
  OBVIOUS
<1>2. Len(L) = 10
  BY <1>1, AppendLayoutFacts
<1>3. PICK f : f = F("fs_root", "hash")
  OBVIOUS
<1>4. PICK M : M = Append(L, f)
  OBVIOUS
<1>5. Len(M) = 11 /\ M[11] = f /\ \A i \in 1 .. 10 : M[i] = L[i]
  <2>1. PICK S : S = {L[i] : i \in 1 .. 10} \union {f}
    OBVIOUS
  <2>2. \A i \in 1 .. 10 : L[i] \in S
    BY <2>1
  <2>3. L = [i \in 1 .. 10 |-> L[i]]
    BY <1>1 DEF AppendLayout
  <2>4. L \in Seq(S) /\ f \in S
    BY <2>1, <2>2, <2>3
  <2>5. Len(M) = Len(L) + 1 /\ M[Len(L) + 1] = f /\ \A i \in 1 .. Len(L) : M[i] = L[i]
    BY <1>4, <2>4, AppendProperties
  <2> QED
    BY <1>2, <2>5
<1>6. AppendFields(withRoot) = IF withRoot THEN M ELSE L
  BY <1>1, <1>3, <1>4 DEF AppendFields
<1> QED
  BY <1>1, <1>2, <1>3, <1>5, <1>6

\* The names and types of the fields of an append.
IsAppendLayout(layout, withRoot) ==
    /\ Len(layout) = (IF withRoot THEN 11 ELSE 10)
    /\ layout[1].name = "context_id" /\ layout[1].type = "u64"
    /\ layout[2].name = "parent" /\ layout[2].type = "u64"
    /\ layout[3].name = "type_id" /\ layout[3].type = "bytes32"
    /\ layout[4].name = "type_version" /\ layout[4].type = "u32"
    /\ layout[5].name = "encoding" /\ layout[5].type = "u32"
    /\ layout[6].name = "compression" /\ layout[6].type = "u32"
    /\ layout[7].name = "uncompressed_len" /\ layout[7].type = "u32"
    /\ layout[8].name = "hash" /\ layout[8].type = "hash"
    /\ layout[9].name = "payload" /\ layout[9].type = "bytes32"
    /\ layout[10].name = "key" /\ layout[10].type = "bytes32"
    /\ withRoot => layout[11].name = "fs_root" /\ layout[11].type = "hash"

\* Both sides use the layout with those names and types.
LEMMA AppendIs == ASSUME NEW withRoot \in BOOLEAN PROVE IsAppendLayout(AppendFields(withRoot), withRoot)
<1>1. PICK layout : layout = AppendFields(withRoot)
  OBVIOUS
<1>3. \A i \in 1 .. 10 : layout[i] = AppendLayout[i]
  BY <1>1, AppendFieldsFacts
<1>4. /\ layout[1] = F("context_id", "u64") /\ layout[2] = F("parent", "u64")
      /\ layout[3] = F("type_id", "bytes32") /\ layout[4] = F("type_version", "u32")
      /\ layout[5] = F("encoding", "u32") /\ layout[6] = F("compression", "u32")
      /\ layout[7] = F("uncompressed_len", "u32") /\ layout[8] = F("hash", "hash")
      /\ layout[9] = F("payload", "bytes32") /\ layout[10] = F("key", "bytes32")
  BY <1>3, AppendLayoutFacts
<1>5. Len(layout) = (IF withRoot THEN 11 ELSE 10)
  BY <1>1, AppendFieldsFacts
<1>6. withRoot => layout[11] = F("fs_root", "hash")
  BY <1>1, AppendFieldsFacts
<1> QED
  BY <1>1, <1>4, <1>5, <1>6 DEF IsAppendLayout, F

\* There is no other field.
LEMMA AppendCases ==
    ASSUME NEW withRoot \in BOOLEAN, NEW layout, IsAppendLayout(layout, withRoot), NEW i \in 1 .. Len(layout)
    PROVE  i = 1 \/ i = 2 \/ i = 3 \/ i = 4 \/ i = 5 \/ i = 6 \/ i = 7 \/ i = 8 \/ i = 9 \/ i = 10
           \/ (withRoot /\ i = 11)
BY DEF IsAppendLayout

\* What append_turn writes fits the types of the fields.
LEMMA AppendTypes ==
    ASSUME NEW withRoot \in BOOLEAN, NEW layout, IsAppendLayout(layout, withRoot)
    PROVE  /\ IsLayout(layout) /\ \A i \in 1 .. Len(layout) : layout[i].type # "bytes16"
           /\ Names(layout) = AppendNames \union (IF withRoot THEN {"fs_root"} ELSE {})
<1>1. \A i \in 1 .. Len(layout) : i = 1 \/ i = 2 \/ i = 3 \/ i = 4 \/ i = 5 \/ i = 6 \/ i = 7 \/ i = 8 \/ i = 9
                                   \/ i = 10 \/ (withRoot /\ i = 11)
  BY AppendCases
<1>2. \A i \in 1 .. Len(layout) : layout[i].type \in FieldTypes /\ layout[i].type # "bytes16"
  BY <1>1 DEF IsAppendLayout, FieldTypes
<1>3. Len(layout) \in Nat
  BY DEF IsAppendLayout
<1>4. ASSUME NEW i \in 1 .. Len(layout)
      PROVE  layout[i].name \in AppendNames \union (IF withRoot THEN {"fs_root"} ELSE {})
  BY <1>1 DEF IsAppendLayout, AppendNames
<1>5. \A i \in 1 .. 10 : i \in 1 .. Len(layout)
  BY DEF IsAppendLayout
<1>6. ASSUME NEW name \in AppendNames
      PROVE  \E i \in 1 .. Len(layout) : layout[i].name = name
  <2>1. \E i \in 1 .. 10 : layout[i].name = name
    BY DEF IsAppendLayout, AppendNames
  <2> QED
    BY <1>5, <2>1
<1>7. withRoot => 11 \in 1 .. Len(layout) /\ layout[11].name = "fs_root"
  BY DEF IsAppendLayout
<1>8. \A name \in AppendNames \union (IF withRoot THEN {"fs_root"} ELSE {}) :
          \E i \in 1 .. Len(layout) : layout[i].name = name
  BY <1>6, <1>7
<1>9. Names(layout) = AppendNames \union (IF withRoot THEN {"fs_root"} ELSE {})
  BY <1>4, <1>8 DEF Names
<1> QED
  BY <1>2, <1>3, <1>9 DEF IsLayout

\* append_turn and append_turn_with_fs.
LEMMA AppendRequest ==
    ASSUME NEW c, c.type = MsgAppendTurn, CallOK(c), Sized(Request(c))
    PROVE  Request(c) \in Seq(Bytes) /\ ReadsBack(c) /\ Unbroken(c)
<1>1. PICK root \in BOOLEAN : root = HasRoot(c)
  BY DEF HasRoot
<1>2. PICK layout : layout = AppendFields(root)
  OBVIOUS
<1>3. IsAppendLayout(layout, root)
  BY <1>2, AppendIs
<1>4. IsLayout(layout) /\ \A i \in 1 .. Len(layout) : layout[i].type # "bytes16"
  BY <1>3, AppendTypes
<1>5. Names(layout) = AppendNames \union (IF root THEN {"fs_root"} ELSE {})
  BY <1>3, AppendTypes
<1>6. PICK v : v = [context_id |-> c.context_id, parent |-> c.parent, type_id |-> c.type_id,
                    type_version |-> c.type_version, encoding |-> IF c.encoding = 0 THEN 1 ELSE c.encoding,
                    compression |-> c.compression, uncompressed_len |-> Len(c.payload),
                    hash |-> Blake3(c.payload), payload |-> c.payload, key |-> c.key, fs_root |-> c.fs_root]
  OBVIOUS
<1>7. /\ v["context_id"] = c.context_id /\ v["parent"] = c.parent /\ v["type_id"] = c.type_id
      /\ v["type_version"] = c.type_version /\ v["encoding"] = (IF c.encoding = 0 THEN 1 ELSE c.encoding)
      /\ v["compression"] = c.compression /\ v["uncompressed_len"] = Len(c.payload)
      /\ v["hash"] = Blake3(c.payload) /\ v["payload"] = c.payload /\ v["key"] = c.key /\ v["fs_root"] = c.fs_root
  BY <1>6
<1>8. /\ IsValue("u64", c.context_id) /\ IsValue("u64", c.parent)
      /\ IsValue("u32", c.type_version) /\ IsValue("u32", c.encoding) /\ IsValue("u32", c.compression)
      /\ IsValue("bytes32", c.type_id) /\ IsValue("bytes32", c.payload) /\ IsValue("bytes32", c.key)
      /\ c.fs_root = <<>> \/ IsValue("hash", c.fs_root)
  BY CallByType
<1>9. IsValue("u32", v["encoding"])
  <2>1. \A n \in 0 .. 15 : IsValue("u32", n)
    BY SmallNumbers, Widths DEF IsValue, IsBytes
  <2>2. IsValue("u32", 1)
    BY <2>1
  <2> QED
    BY <1>7, <1>8, <2>2
<1>10. c.payload \in Seq(Bytes) /\ Len(c.payload) \in Nat
  BY <1>8 DEF IsValue, IsBytes
<1>11. IsValue("hash", Blake3(c.payload))
  BY <1>10, Blake3Facts, Widths DEF IsValue, IsBytes
<1>12. root => IsValue("hash", c.fs_root)
  BY <1>1, <1>8 DEF HasRoot
<1>13. \A i \in 1 .. Len(layout) : i = 1 \/ i = 2 \/ i = 3 \/ i = 4 \/ i = 5 \/ i = 6 \/ i = 7 \/ i = 8 \/ i = 9
                                    \/ i = 10 \/ (root /\ i = 11)
  BY <1>3, AppendCases
<1>14. \A i \in 1 .. Len(layout) : i # 7 => IsValue(layout[i].type, v[layout[i].name])
  BY <1>3, <1>7, <1>8, <1>9, <1>11, <1>12, <1>13 DEF IsAppendLayout
<1>15. Writes(layout, v)
  <2>1. \A i \in 1 .. Len(layout) : i # 7 => Writable(layout[i].type, v[layout[i].name])
    BY <1>4, <1>14, ValueFacts DEF IsLayout
  <2>2. Writable(layout[7].type, v[layout[7].name])
    BY <1>3, <1>7, <1>10 DEF IsAppendLayout, Writable, IsBytes
  <2> QED
    BY <2>1, <2>2 DEF Writes
<1>16. Request(c) = Encode(layout, v)
  BY <1>1, <1>2, <1>6, RequestByType DEF AppendPayload
<1>17. Request(c) \in Seq(Bytes) /\ Len(Request(c)) \in Nat
  BY <1>4, <1>15, <1>16, EncodeType
<1>18. IsValue("u32", Len(c.payload))
  <2>1. PICK f : f = layout[9]
    OBVIOUS
  <2>2. f.type \in FieldTypes /\ IsBytes(f.type) /\ Width(f.type) = 4 /\ v[f.name] = c.payload /\ Writable(f.type, c.payload)
    BY <1>3, <1>7, <1>10, <2>1, Widths DEF IsAppendLayout, FieldTypes, IsBytes, Writable
  <2>3. PICK x : x = WriteField(f, c.payload)
    OBVIOUS
  <2>4. Len(x) = 4 + Len(c.payload)
    BY <2>2, <2>3, WriteFacts
  <2>5. 9 \in 1 .. Len(layout)
    BY <1>3 DEF IsAppendLayout
  <2>6. Len(x) <= Len(Request(c))
    BY <1>4, <1>15, <1>16, <2>1, <2>2, <2>3, <2>5, EncodeType
  <2>7. Len(c.payload) <= Len(Request(c)) /\ 4 \in 0 .. 5
    BY <1>10, <1>17, <2>4, <2>6
  <2>8. Shifted(Len(Request(c)), 4) = 0
    BY Widths DEF Sized
  <2>9. Shifted(Len(c.payload), 4) = 0
    BY <1>10, <1>17, <2>7, <2>8, SmallerFits
  <2> QED
    BY <1>10, <2>9, Widths DEF IsValue, IsBytes
<1>19. Typed(layout, v)
  <2>1. IsValue(layout[7].type, v[layout[7].name])
    BY <1>3, <1>7, <1>18 DEF IsAppendLayout
  <2> QED
    BY <1>14, <2>1 DEF Typed
<1>20. SentBy(c, layout, v)
  BY <1>4, <1>16, <1>19 DEF SentBy
<1>21. ReadBy(c, layout)
  <2>1. (FlagsOf(c) % 2 = 1) = root
    BY <1>1 DEF FlagsOf
  <2>2. \A b : ParseRequest(c.type, FlagsOf(c), b) = Parse(layout, b)
    BY <1>2, <2>1, ParseByType DEF ParseAppendTurn
  <2> QED
    BY <2>2 DEF ReadBy
<1>22. PICK req : req = ParseRequest(c.type, FlagsOf(c), Request(c)).values
  OBVIOUS
<1>23. Unbroken(c) /\ ParseRequest(c.type, FlagsOf(c), Request(c)).ok = TRUE
       /\ req = [name \in Names(layout) |-> v[name]]
  <2>1. TakenAs(c, layout, v)
    BY <1>20, <1>21, LayoutRequest
  <2> QED
    BY <1>22, <2>1 DEF TakenAs
<1>24. PICK said : said = {"context_id", "parent", "type_id", "type_version", "payload", "key"}
                              \union (IF root THEN {"fs_root"} ELSE {})
  OBVIOUS
<1>25. \A name \in said : name \in Names(layout) /\ v[name] = c[name]
  <2>1. \A name \in said : name \in Names(layout)
    BY <1>5, <1>24 DEF AppendNames
  <2>2. \A name \in said : \/ name = "context_id" \/ name = "parent" \/ name = "type_id" \/ name = "type_version"
                           \/ name = "payload" \/ name = "key" \/ name = "fs_root"
    BY <1>24
  <2>3. \A name \in said : v[name] = c[name]
    BY <1>7, <2>2
  <2> QED
    BY <2>1, <2>3
<1>26. Meant(c) = [name \in said |-> c[name]]
  BY <1>1, <1>24, MeantByType
<1>27. "fs_root" \in Names(layout) <=> root
  BY <1>5 DEF AppendNames
<1>28. Understood(c, req)
  <2>1. \A name \in said : req[name] = c[name]
    BY <1>23, <1>25
  <2>2. DOMAIN req = Names(layout) /\ DOMAIN Meant(c) = said /\ \A name \in said : Meant(c)[name] = c[name]
    BY <1>23, <1>26
  <2> QED
    BY <1>1, <1>27, <2>1, <2>2 DEF Understood
<1> QED
  BY <1>17, <1>22, <1>23, <1>28 DEF ReadsBack

\* What is sent is read, and no beginning of it.
LEMMA RequestsUnderstood ==
    ASSUME NEW c \in WireCalls, Fits(c)
    PROVE  Request(c) \in Seq(Bytes) /\ ReadsBack(c) /\ Unbroken(c)
<1>1. CallOK(c) /\ c.type \in MsgTypes /\ Sized(Request(c))
  BY WireAssumption DEF Fits
<1>2. \/ c.type = MsgHello \/ c.type \in IdTypes \/ c.type = MsgAppendTurn \/ c.type = MsgGetLast
      \/ c.type = MsgAttachFs \/ c.type = MsgPutBlob
  BY <1>1 DEF MsgTypes, IdTypes
<1> QED
  BY <1>1, <1>2, HelloRequest, IdRequest, AppendRequest, GetLastRequest, AttachFsRequest,
     PutBlobRequest

-----------------------------------------------------------------------------
(* Answers.                                                                *)

\* The layout has no length of 16 bits.
Wide(layout) == IsLayout(layout) /\ \A i \in 1 .. Len(layout) : layout[i].type # "bytes16"
Small(bytes) == Shifted(Len(bytes), 4) = 0
\* The bytes p are read as m.
Reads(type, p, m) == ParseAnswer(type, p).ok = TRUE /\ ParseAnswer(type, p).values = m

\* An answer by one layout is read as its values.
LEMMA LayoutAnswer ==
    ASSUME NEW layout, Wide(layout), NEW values, Typed(layout, values)
    PROVE  /\ Encode(layout, values) \in Seq(Bytes)
           /\ Small(Encode(layout, values)) =>
                 AllFit(layout, values)
<1>1. PICK p : p = Encode(layout, values)
  OBVIOUS
<1>2. p \in Seq(Bytes) /\ Len(p) \in Nat
  BY <1>1, TypedWrites, EncodeType DEF Wide
<1>3. ASSUME Small(p) PROVE AllFit(layout, values)
  <2>1. Len(p) <= Len(p) /\ Shifted(Len(p), 4) = 0
    BY <1>2, <1>3 DEF Small
  <2>2. IsLayout(layout) /\ \A i \in 1 .. Len(layout) : layout[i].type = "bytes16" => Shifted(Len(values[layout[i].name]), 2) = 0
    BY DEF Wide
  <2> QED
    BY <1>1, <1>2, <2>1, <2>2, SizedFits
<1> QED
  BY <1>1, <1>2, <1>3

\* An answer that is written and read by one layout.
WrittenAs(p, layout, values, m) ==
    /\ Wide(layout) /\ Typed(layout, values) /\ p = Encode(layout, values)
    /\ m = [name \in Names(layout) |-> values[name]]

\* It is read as the record it was written from.
LEMMA WholeAnswer ==
    ASSUME NEW p, NEW layout, NEW values, NEW m, WrittenAs(p, layout, values, m)
    PROVE  p \in Seq(Bytes) /\ (Small(p) => Parse(layout, p).ok = TRUE /\ Parse(layout, p).values = m)
<1>1. Wide(layout) /\ Typed(layout, values) /\ p = Encode(layout, values)
      /\ m = [name \in Names(layout) |-> values[name]]
  BY DEF WrittenAs
<1>2. ASSUME Small(p) PROVE Parse(layout, p).ok = TRUE /\ Parse(layout, p).values = m
  <2>1. AllFit(layout, values) /\ IsLayout(layout)
    BY <1>1, <1>2, LayoutAnswer DEF Wide
  <2>2. PICK r : r = Parse(layout, p)
    OBVIOUS
  <2>3. r = [ok |-> TRUE, rest |-> <<>>, values |-> m]
    BY <1>1, <2>1, <2>2, RoundTripWhole
  <2>4. r.ok = TRUE /\ r.values = m
    BY <2>3
  <2> QED
    BY <2>2, <2>4
<1> QED
  BY <1>1, <1>2, LayoutAnswer

\* What the client reads, message by message.
LEMMA AnswerByType ==
    \A p :
        /\ ParseAnswer(MsgHello, p) = Parse(<<F("session", "u64")>>, p)
        /\ \A t \in IdTypes : ParseAnswer(t, p) = Parse(HeadLayout, p)
        /\ ParseAnswer(MsgAppendTurn, p) = Parse(AckLayout, p)
        /\ ParseAnswer(MsgAttachFs, p) = Parse(<<F("turn_id", "u64"), F("root", "hash")>>, p)
        /\ ParseAnswer(MsgPutBlob, p) = Parse(<<F("hash", "hash"), F("new", "u8")>>, p)
        /\ ParseAnswer(MsgGetLast, p) = ParseRecords(p)
BY DEF IdTypes, ParseAnswer, MsgHello, MsgCtxCreate, MsgCtxFork, MsgGetHead, MsgAppendTurn, MsgGetLast,
       MsgAttachFs, MsgPutBlob

\* What the server writes, message by message.
LEMMA ReplyByType ==
    \A req, hd, ack, records :
        /\ ReplyTo(MsgHello, req, hd, ack, records) =
              [payload |-> Encode(<<F("session", "u64"), F("version", "u16")>>,
                                  [session |-> hd.context_id, version |-> 1]),
               means |-> [session |-> hd.context_id]]
        /\ \A t \in IdTypes : ReplyTo(t, req, hd, ack, records) = [payload |-> Encode(HeadLayout, hd), means |-> hd]
        /\ ReplyTo(MsgAppendTurn, req, hd, ack, records) = [payload |-> Encode(AckLayout, ack), means |-> ack]
        /\ ReplyTo(MsgAttachFs, req, hd, ack, records) =
              [payload |-> Encode(<<F("turn_id", "u64"), F("root", "hash")>>, req),
               means |-> [turn_id |-> req.turn_id, root |-> req.root]]
        /\ ReplyTo(MsgPutBlob, req, hd, ack, records) =
              [payload |-> Encode(<<F("hash", "hash"), F("new", "u8")>>, [hash |-> req.hash, new |-> ack.depth % 2]),
               means |-> [hash |-> req.hash, new |-> ack.depth % 2]]
        /\ ReplyTo(MsgGetLast, req, hd, ack, records) =
              [payload |-> EncodeRecords(records, req.include # 0), means |-> records]
BY DEF IdTypes, ReplyTo, MsgHello, MsgCtxCreate, MsgCtxFork, MsgGetHead, MsgAppendTurn, MsgGetLast,
       MsgAttachFs, MsgPutBlob

\* The fields of a head.
LEMMA HeadLayoutFacts ==
    /\ Len(HeadLayout) = 3 /\ HeadLayout[1] = F("context_id", "u64") /\ HeadLayout[2] = F("turn_id", "u64")
    /\ HeadLayout[3] = F("depth", "u32") /\ Wide(HeadLayout)
<1>1. /\ Len(HeadLayout) = 3 /\ HeadLayout[1] = F("context_id", "u64") /\ HeadLayout[2] = F("turn_id", "u64")
      /\ HeadLayout[3] = F("depth", "u32")
  BY DEF HeadLayout
<1>2. \A i \in 1 .. 3 : i = 1 \/ i = 2 \/ i = 3
  OBVIOUS
<1> QED
  BY <1>1, <1>2 DEF Wide, IsLayout, F, FieldTypes

\* A layout with one more field.
LEMMA AppendLemma ==
    ASSUME NEW L, NEW n \in Nat, L = [i \in 1 .. n |-> L[i]], NEW f
    PROVE  Len(Append(L, f)) = n + 1 /\ Append(L, f)[n + 1] = f /\ \A i \in 1 .. n : Append(L, f)[i] = L[i]
<1>1. PICK S : S = {L[i] : i \in 1 .. n} \union {f}
  OBVIOUS
<1>2. \A i \in 1 .. n : L[i] \in S
  BY <1>1
<1>3. L \in Seq(S) /\ f \in S /\ Len(L) = n
  BY <1>1, <1>2
<1> QED
  BY <1>3, AppendProperties

\* The fields of the acknowledgement of an append.
LEMMA AckLayoutFacts ==
    /\ Len(AckLayout) = 4 /\ AckLayout[1] = F("context_id", "u64") /\ AckLayout[2] = F("turn_id", "u64")
    /\ AckLayout[3] = F("depth", "u32") /\ AckLayout[4] = F("hash", "hash") /\ Wide(AckLayout)
<1>1. HeadLayout = [i \in 1 .. 3 |-> HeadLayout[i]]
  BY DEF HeadLayout
<1>2. Len(AckLayout) = 3 + 1 /\ AckLayout[3 + 1] = F("hash", "hash") /\ \A i \in 1 .. 3 : AckLayout[i] = HeadLayout[i]
  BY <1>1, AppendLemma DEF AckLayout
<1>3. /\ Len(AckLayout) = 4 /\ AckLayout[1] = F("context_id", "u64") /\ AckLayout[2] = F("turn_id", "u64")
      /\ AckLayout[3] = F("depth", "u32") /\ AckLayout[4] = F("hash", "hash")
  BY <1>2, HeadLayoutFacts
<1>4. \A i \in 1 .. 4 : i = 1 \/ i = 2 \/ i = 3 \/ i = 4
  OBVIOUS
<1> QED
  BY <1>3, <1>4 DEF Wide, IsLayout, F, FieldTypes

\* What the answers are made of.
LEMMA HeadValues ==
    ASSUME NEW hd \in Heads
    PROVE  Typed(HeadLayout, hd) /\ hd = [name \in Names(HeadLayout) |-> hd[name]]
           /\ IsValue("u64", hd.context_id)
<1>1. Typed(HeadLayout, hd) /\ hd = [name \in Names(HeadLayout) |-> hd[name]]
  BY WireAssumption DEF IsRecordOf
<1>2. 1 \in 1 .. Len(HeadLayout) /\ HeadLayout[1].type = "u64" /\ HeadLayout[1].name = "context_id"
  BY HeadLayoutFacts DEF F
<1>3. IsValue(HeadLayout[1].type, hd[HeadLayout[1].name])
  BY <1>1, <1>2 DEF Typed
<1> QED
  BY <1>1, <1>2, <1>3

LEMMA AckValues ==
    ASSUME NEW ack \in Acks
    PROVE  Typed(AckLayout, ack) /\ ack = [name \in Names(AckLayout) |-> ack[name]]
           /\ ack.depth \in Nat /\ ack.hash \in Seq(Bytes) /\ Len(ack.hash) = 2
<1>1. Typed(AckLayout, ack) /\ ack = [name \in Names(AckLayout) |-> ack[name]]
  BY WireAssumption DEF IsRecordOf
<1>2. 3 \in 1 .. Len(AckLayout) /\ AckLayout[3].type = "u32" /\ AckLayout[3].name = "depth"
      /\ 4 \in 1 .. Len(AckLayout) /\ AckLayout[4].type = "hash" /\ AckLayout[4].name = "hash"
  BY AckLayoutFacts DEF F
<1>3. IsValue(AckLayout[3].type, ack[AckLayout[3].name]) /\ IsValue(AckLayout[4].type, ack[AckLayout[4].name])
  BY <1>1, <1>2 DEF Typed
<1>4. IsValue("u32", ack.depth) /\ IsValue("hash", ack.hash)
  BY <1>2, <1>3
<1> QED
  BY <1>1, <1>4, Widths DEF IsValue, IsBytes

\* What is said of one kind of answer: its bytes, and what they are read as.
AnswerRead(type, req, hd, ack, records) ==
    LET a == ReplyTo(type, req, hd, ack, records)
    IN  a.payload \in Seq(Bytes) /\ (Small(a.payload) => Reads(type, a.payload, a.means))

\* HELLO: the client reads the session and leaves the version.
LEMMA HelloAnswer ==
    ASSUME NEW req, NEW hd \in Heads, NEW ack, NEW records
    PROVE  AnswerRead(MsgHello, req, hd, ack, records)
<1>1. PICK f : f = F("session", "u64")
  OBVIOUS
<1>2. PICK g : g = F("version", "u16")
  OBVIOUS
<1>3. /\ f.name = "session" /\ f.type = "u64" /\ g.name = "version" /\ g.type = "u16"
      /\ f.type \in FieldTypes /\ g.type \in FieldTypes
  BY <1>1, <1>2 DEF F, FieldTypes
<1>4. PICK v : v = [session |-> hd.context_id, version |-> 1]
  OBVIOUS
<1>5. v["session"] = hd.context_id /\ v["version"] = 1
  BY <1>4
<1>6. IsValue("u64", hd.context_id) /\ IsValue("u16", 1)
  <2>1. \A n \in 0 .. 15 : IsValue("u16", n)
    BY SmallNumbers, Widths DEF IsValue, IsBytes
  <2> QED
    BY <2>1, HeadValues
<1>7. PICK both : both = <<f, g>>
  OBVIOUS
<1>8. PICK one : one = <<f>>
  OBVIOUS
<1>9. Len(both) = 2 /\ both[1] = f /\ both[2] = g /\ Len(one) = 1 /\ one[1] = f
  BY <1>7, <1>8
<1>10. \A i \in 1 .. 2 : i = 1 \/ i = 2
  OBVIOUS
<1>11. Typed(both, v) /\ Wide(both)
  BY <1>3, <1>5, <1>6, <1>9, <1>10 DEF Typed, Wide, IsLayout
<1>12. Typed(one, v) /\ Wide(one)
  BY <1>3, <1>5, <1>6, <1>9 DEF Typed, Wide, IsLayout
<1>13. PICK p : p = Encode(both, v)
  OBVIOUS
<1>14. p \in Seq(Bytes) /\ Len(p) \in Nat
  BY <1>11, <1>13, LayoutAnswer
<1>15. PICK q : q = Encode(one, v)
  OBVIOUS
<1>16. PICK tail : tail = WriteField(g, v[g.name])
  OBVIOUS
<1>17. Writes(both, v) /\ Writes(one, v)
  BY <1>11, <1>12, TypedWrites DEF Wide
<1>18. tail \in Seq(Bytes)
  BY <1>3, <1>9, <1>16, <1>17, WriteFacts DEF Writes
<1>19. p = q \o tail
  <2>1. p = WriteField(f, v[f.name]) \o WriteField(g, v[g.name])
    BY <1>3, <1>7, <1>13, <1>17, EncodeTwo
  <2>2. q = WriteField(f, v[f.name])
    BY <1>3, <1>8, <1>15, <1>17, EncodeOne
  <2> QED
    BY <1>16, <2>1, <2>2, Zenon
<1>20. q \in Seq(Bytes)
  BY <1>12, <1>15, LayoutAnswer
<1>21. ASSUME Small(p) PROVE Reads(MsgHello, p, [session |-> hd.context_id])
  <2>1. Small(q)
    <3>1. Len(p) = Len(q) + Len(tail)
      BY <1>18, <1>19, <1>20, Joins, Zenon
    <3>2. Len(q) \in Nat /\ Len(tail) \in Nat
      BY <1>18, <1>20
    <3>3. Len(q) <= Len(p) /\ 4 \in 0 .. 5
      BY <3>1, <3>2
    <3> QED
      BY <1>14, <1>21, <3>2, <3>3, SmallerFits DEF Small
  <2>2. AllFit(one, v) /\ IsLayout(one)
    BY <1>12, <1>15, <2>1, LayoutAnswer DEF Wide
  <2>3. PICK r : r = Parse(one, p)
    OBVIOUS
  <2>4. r = [ok |-> TRUE, rest |-> tail, values |-> [name \in Names(one) |-> v[name]]]
    BY <1>15, <1>18, <1>19, <2>2, <2>3, RoundTrip
  <2>5. r.ok = TRUE /\ r.values = [name \in Names(one) |-> v[name]]
    BY <2>4
  <2>6. Names(one) = {"session"}
    BY <1>3, <1>9 DEF Names
  <2>7. [name \in {"session"} |-> v[name]] = [session |-> hd.context_id]
    BY <1>5
  <2>8. ParseAnswer(MsgHello, p) = r
    BY <1>1, <1>8, <2>3, AnswerByType
  <2> QED
    BY <2>5, <2>6, <2>7, <2>8 DEF Reads
<1>22. PICK a : a = ReplyTo(MsgHello, req, hd, ack, records)
  OBVIOUS
<1>23. a = [payload |-> p, means |-> [session |-> hd.context_id]]
  BY <1>1, <1>2, <1>4, <1>7, <1>13, <1>22, ReplyByType
<1>24. a.payload = p /\ a.means = [session |-> hd.context_id]
  BY <1>23
<1> QED
  BY <1>14, <1>21, <1>22, <1>24 DEF AnswerRead

\* CTX_CREATE, CTX_FORK, GET_HEAD.
LEMMA HeadAnswer ==
    ASSUME NEW type \in IdTypes, NEW req, NEW hd \in Heads, NEW ack, NEW records
    PROVE  AnswerRead(type, req, hd, ack, records)
<1>1. PICK p : p = Encode(HeadLayout, hd)
  OBVIOUS
<1>2. Wide(HeadLayout) /\ Typed(HeadLayout, hd) /\ hd = [name \in Names(HeadLayout) |-> hd[name]]
  BY HeadLayoutFacts, HeadValues
<1>3. p \in Seq(Bytes)
  BY <1>1, <1>2, LayoutAnswer
<1>4. Small(p) => Parse(HeadLayout, p).ok = TRUE /\ Parse(HeadLayout, p).values = hd
  <2>1. WrittenAs(p, HeadLayout, hd, hd)
    BY <1>1, <1>2 DEF WrittenAs
  <2> QED
    BY <2>1, WholeAnswer
<1>5. ParseAnswer(type, p) = Parse(HeadLayout, p)
  BY AnswerByType
<1>6. PICK a : a = ReplyTo(type, req, hd, ack, records)
  OBVIOUS
<1>7. a = [payload |-> p, means |-> hd]
  BY <1>1, <1>6, ReplyByType
<1>8. a.payload = p /\ a.means = hd
  BY <1>7
<1> QED
  BY <1>3, <1>4, <1>5, <1>6, <1>8 DEF AnswerRead, Reads

\* APPEND_TURN.
LEMMA AckAnswer ==
    ASSUME NEW req, NEW hd, NEW ack \in Acks, NEW records
    PROVE  AnswerRead(MsgAppendTurn, req, hd, ack, records)
<1>1. PICK p : p = Encode(AckLayout, ack)
  OBVIOUS
<1>2. Wide(AckLayout) /\ Typed(AckLayout, ack) /\ ack = [name \in Names(AckLayout) |-> ack[name]]
  BY AckLayoutFacts, AckValues
<1>3. p \in Seq(Bytes)
  BY <1>1, <1>2, LayoutAnswer
<1>4. Small(p) => Parse(AckLayout, p).ok = TRUE /\ Parse(AckLayout, p).values = ack
  <2>1. WrittenAs(p, AckLayout, ack, ack)
    BY <1>1, <1>2 DEF WrittenAs
  <2> QED
    BY <2>1, WholeAnswer
<1>5. ParseAnswer(MsgAppendTurn, p) = Parse(AckLayout, p)
  BY AnswerByType
<1>6. PICK a : a = ReplyTo(MsgAppendTurn, req, hd, ack, records)
  OBVIOUS
<1>7. a = [payload |-> p, means |-> ack]
  BY <1>1, <1>6, ReplyByType
<1>8. a.payload = p /\ a.means = ack
  BY <1>7
<1> QED
  BY <1>3, <1>4, <1>5, <1>6, <1>8 DEF AnswerRead, Reads

\* ATTACH_FS.
LEMMA AttachAnswer ==
    ASSUME NEW req, IsValue("u64", req.turn_id), IsValue("hash", req.root), NEW hd, NEW ack, NEW records
    PROVE  AnswerRead(MsgAttachFs, req, hd, ack, records)
<1>1. PICK layout : layout = <<F("turn_id", "u64"), F("root", "hash")>>
  OBVIOUS
<1>2. /\ Len(layout) = 2 /\ layout[1].name = "turn_id" /\ layout[1].type = "u64"
      /\ layout[2].name = "root" /\ layout[2].type = "hash"
  BY <1>1 DEF F
<1>3. \A i \in 1 .. 2 : i = 1 \/ i = 2
  OBVIOUS
<1>4. Wide(layout) /\ Typed(layout, req)
  BY <1>2, <1>3 DEF Typed, Wide, IsLayout, FieldTypes
<1>5. PICK p : p = Encode(layout, req)
  OBVIOUS
<1>6. p \in Seq(Bytes)
  BY <1>4, <1>5, LayoutAnswer
<1>7. Names(layout) = {"turn_id", "root"}
  <2>1. \A i \in 1 .. 2 : layout[i].name \in {"turn_id", "root"}
    BY <1>2, <1>3
  <2>2. 1 \in 1 .. 2 /\ 2 \in 1 .. 2
    OBVIOUS
  <2> QED
    BY <1>2, <2>1, <2>2 DEF Names
<1>8. PICK m : m = [turn_id |-> req.turn_id, root |-> req.root]
  OBVIOUS
<1>9. [name \in Names(layout) |-> req[name]] = m
  BY <1>7, <1>8
<1>10. Small(p) => Parse(layout, p).ok = TRUE /\ Parse(layout, p).values = m
  <2>1. WrittenAs(p, layout, req, m)
    BY <1>4, <1>5, <1>9 DEF WrittenAs
  <2> QED
    BY <2>1, WholeAnswer
<1>11. ParseAnswer(MsgAttachFs, p) = Parse(layout, p)
  BY <1>1, AnswerByType
<1>12. PICK a : a = ReplyTo(MsgAttachFs, req, hd, ack, records)
  OBVIOUS
<1>13. a = [payload |-> p, means |-> m]
  BY <1>1, <1>5, <1>8, <1>12, ReplyByType
<1>14. a.payload = p /\ a.means = m
  BY <1>13
<1> QED
  BY <1>6, <1>10, <1>11, <1>12, <1>14 DEF AnswerRead, Reads

\* PUT_BLOB.
LEMMA PutBlobAnswer ==
    ASSUME NEW req, IsValue("hash", req.hash), NEW hd, NEW ack \in Acks, NEW records
    PROVE  AnswerRead(MsgPutBlob, req, hd, ack, records)
<1>1. PICK layout : layout = <<F("hash", "hash"), F("new", "u8")>>
  OBVIOUS
<1>2. /\ Len(layout) = 2 /\ layout[1].name = "hash" /\ layout[1].type = "hash"
      /\ layout[2].name = "new" /\ layout[2].type = "u8"
  BY <1>1 DEF F
<1>3. \A i \in 1 .. 2 : i = 1 \/ i = 2
  OBVIOUS
<1>4. PICK m : m = [hash |-> req.hash, new |-> ack.depth % 2]
  OBVIOUS
<1>5. IsValue("u8", ack.depth % 2)
  <2>1. PICK n : n = ack.depth % 2
    OBVIOUS
  <2>2. ack.depth \in Nat
    BY AckValues
  <2>3. n \in Nat /\ n < 4
    BY <2>1, <2>2
  <2>4. n < Base
    BY <2>3, BaseFacts
  <2>5. Shifted(n, 0) = n /\ Shifted(n, 1) = Shifted(n, 1 - 1) \div Base
    BY <2>3, ShiftedFacts
  <2>6. 1 - 1 = 0
    OBVIOUS
  <2>7. Shifted(n, 1) = 0
    BY <2>3, <2>4, <2>5, <2>6, DivSmall
  <2> QED
    BY <2>1, <2>3, <2>7, Widths DEF IsValue, IsBytes
<1>6. m["hash"] = req.hash /\ m["new"] = ack.depth % 2 /\ m = [name \in {"hash", "new"} |-> m[name]]
  BY <1>4
<1>7. Wide(layout) /\ Typed(layout, m)
  BY <1>2, <1>3, <1>5, <1>6 DEF Typed, Wide, IsLayout, FieldTypes
<1>8. PICK p : p = Encode(layout, m)
  OBVIOUS
<1>9. p \in Seq(Bytes)
  BY <1>7, <1>8, LayoutAnswer
<1>10. Names(layout) = {"hash", "new"}
  <2>1. \A i \in 1 .. 2 : layout[i].name \in {"hash", "new"}
    BY <1>2, <1>3
  <2>2. 1 \in 1 .. 2 /\ 2 \in 1 .. 2
    OBVIOUS
  <2> QED
    BY <1>2, <2>1, <2>2 DEF Names
<1>11. Small(p) => Parse(layout, p).ok = TRUE /\ Parse(layout, p).values = m
  <2>1. WrittenAs(p, layout, m, m)
    BY <1>6, <1>7, <1>8, <1>10 DEF WrittenAs
  <2> QED
    BY <2>1, WholeAnswer
<1>12. ParseAnswer(MsgPutBlob, p) = Parse(layout, p)
  BY <1>1, AnswerByType
<1>13. PICK a : a = ReplyTo(MsgPutBlob, req, hd, ack, records)
  OBVIOUS
<1>14. a = [payload |-> p, means |-> m]
  BY <1>1, <1>4, <1>8, <1>13, ReplyByType
<1>15. a.payload = p /\ a.means = m
  BY <1>14
<1> QED
  BY <1>9, <1>11, <1>12, <1>13, <1>15 DEF AnswerRead, Reads

\* The fields of an error.
LEMMA ErrorLayoutFacts ==
    /\ Len(ErrorLayout) = 2 /\ ErrorLayout[1] = F("code", "u32") /\ ErrorLayout[2] = F("detail", "bytes32")
    /\ Wide(ErrorLayout)
<1>1. Len(ErrorLayout) = 2 /\ ErrorLayout[1] = F("code", "u32") /\ ErrorLayout[2] = F("detail", "bytes32")
  BY DEF ErrorLayout
<1>2. \A i \in 1 .. 2 : i = 1 \/ i = 2
  OBVIOUS
<1> QED
  BY <1>1, <1>2 DEF Wide, IsLayout, F, FieldTypes

\* A refusal is read with its code and its detail.
LEMMA ErrorAnswer ==
    ASSUME NEW e \in WireErrors
    PROVE  EncodeError(e) \in Seq(Bytes) /\ (Small(EncodeError(e)) => ParseServerError(EncodeError(e)) = e)
<1>1. PICK p : p = EncodeError(e)
  OBVIOUS
<1>2. Typed(ErrorLayout, e) /\ e = [name \in Names(ErrorLayout) |-> e[name]]
  BY WireAssumption DEF IsRecordOf
<1>3. WrittenAs(p, ErrorLayout, e, e)
  BY <1>1, <1>2, ErrorLayoutFacts DEF WrittenAs, EncodeError
<1>4. p \in Seq(Bytes) /\ Len(p) \in Nat
  <2>1. p \in Seq(Bytes)
    BY <1>3, WholeAnswer
  <2> QED
    BY <2>1
<1>5. PICK f : f = F("code", "u32")
  OBVIOUS
<1>6. PICK g : g = F("detail", "bytes32")
  OBVIOUS
<1>7. PICK h : h = F("len", "u32")
  OBVIOUS
<1>8. /\ f.name = "code" /\ f.type = "u32" /\ g.name = "detail" /\ g.type = "bytes32" /\ h.name = "len" /\ h.type = "u32"
      /\ f.type \in FieldTypes /\ g.type \in FieldTypes /\ h.type \in FieldTypes
  BY <1>5, <1>6, <1>7 DEF F, FieldTypes
<1>9. IsValue("u32", e.code) /\ e.detail \in Seq(Bytes)
  <2>1. 1 \in 1 .. Len(ErrorLayout) /\ 2 \in 1 .. Len(ErrorLayout) /\ ErrorLayout[1] = f /\ ErrorLayout[2] = g
    BY <1>5, <1>6, ErrorLayoutFacts
  <2>2. IsValue("u32", e.code) /\ IsValue("bytes32", e.detail)
    BY <1>2, <1>8, <2>1 DEF Typed
  <2> QED
    BY <2>2 DEF IsValue, IsBytes
<1>10. ASSUME Small(p) PROVE ParseServerError(p) = e
  <2>1. Parse(ErrorLayout, p).ok = TRUE /\ Parse(ErrorLayout, p).values = e
    BY <1>3, <1>10, WholeAnswer
  <2>2. PICK short : short = <<f, h>>
    OBVIOUS
  <2>3. PICK v : v = [code |-> e.code, len |-> Len(e.detail)]
    OBVIOUS
  <2>4. v["code"] = e.code /\ v["len"] = Len(e.detail) /\ Len(e.detail) \in Nat
    BY <1>9, <2>3
  <2>5. PICK cf : cf = WriteField(f, e.code)
    OBVIOUS
  <2>6. PICK d : d = Digits(Len(e.detail), 4)
    OBVIOUS
  <2>7. Writable(f.type, e.code) /\ Writable(g.type, e.detail) /\ Writable(h.type, Len(e.detail))
    BY <1>8, <1>9, <2>4, ValueFacts DEF Writable, IsBytes
  <2>8. WriteField(g, e.detail) = d \o e.detail /\ WriteField(h, Len(e.detail)) = d
    <3>1. IsBytes(g.type) /\ ~IsBytes(h.type) /\ h.type # "hash" /\ Width(g.type) = 4 /\ Width(h.type) = 4
      BY <1>8, Widths DEF IsBytes
    <3> QED
      BY <1>8, <2>6, <2>7, <3>1, WriteFacts
  <2>9. d \in Seq(Bytes) /\ cf \in Seq(Bytes)
    <3>1. 4 \in 0 .. 5
      OBVIOUS
    <3>2. d \in Seq(Bytes)
      BY <2>4, <2>6, <3>1, DigitsFacts
    <3>3. cf \in Seq(Bytes)
      BY <1>8, <2>5, <2>7, WriteFacts
    <3> QED
      BY <3>2, <3>3
  <2>10. p = cf \o (d \o e.detail)
    <3>1. PICK layout : layout = <<f, g>>
      OBVIOUS
    <3>2. layout = ErrorLayout
      BY <1>5, <1>6, <3>1 DEF ErrorLayout
    <3>3. Writes(layout, e)
      BY <1>2, <3>2, ErrorLayoutFacts, TypedWrites DEF Wide
    <3>4. Encode(layout, e) = WriteField(f, e[f.name]) \o WriteField(g, e[g.name])
      BY <1>8, <3>1, <3>3, EncodeTwo
    <3>5. p = Encode(layout, e)
      BY <1>1, <3>2 DEF EncodeError
    <3>6. e[f.name] = e.code /\ e[g.name] = e.detail
      BY <1>8
    <3> QED
      BY <2>5, <2>8, <3>4, <3>5, <3>6, Zenon
  <2>11. p = (cf \o d) \o e.detail
    <3>1. \A a, b, c \in Seq(Bytes) : a \o (b \o c) = (a \o b) \o c
      OBVIOUS
    <3> QED
      BY <1>9, <2>9, <2>10, <3>1, Zenon
  <2>24. PICK y : y = cf \o d
    OBVIOUS
  <2>25. y \in Seq(Bytes) /\ p = y \o e.detail
    BY <2>9, <2>11, <2>24, Joins
  <2>26. Len(p) = Len(y) + Len(e.detail) /\ Len(y) \in Nat
    BY <1>9, <2>25
  <2>12. Len(e.detail) <= Len(p) /\ Len(y) <= Len(p)
    BY <2>4, <2>26
  <2>13. IsValue("u32", Len(e.detail))
    <3>1. Shifted(Len(p), 4) = 0 /\ 4 \in 0 .. 5
      BY <1>10 DEF Small
    <3>2. Shifted(Len(e.detail), 4) = 0
      BY <1>4, <2>4, <2>12, <3>1, SmallerFits
    <3> QED
      BY <2>4, <3>2, Widths DEF IsValue, IsBytes
  <2>14. Len(short) = 2 /\ short[1] = f /\ short[2] = h
    BY <2>2
  <2>15. \A i \in 1 .. 2 : i = 1 \/ i = 2
    OBVIOUS
  <2>16. Typed(short, v) /\ Wide(short)
    BY <1>8, <1>9, <2>4, <2>13, <2>14, <2>15 DEF Typed, Wide, IsLayout
  <2>17. Encode(short, v) = cf \o d
    <3>1. Writes(short, v)
      BY <2>16, TypedWrites DEF Wide
    <3>2. Encode(short, v) = WriteField(f, v[f.name]) \o WriteField(h, v[h.name])
      BY <1>8, <2>2, <3>1, EncodeTwo
    <3>3. v[f.name] = e.code /\ v[h.name] = Len(e.detail)
      BY <1>8, <2>4
    <3> QED
      BY <2>5, <2>8, <3>2, <3>3, Zenon
  <2>18. Small(Encode(short, v))
    <3>1. Shifted(Len(p), 4) = 0 /\ 4 \in 0 .. 5
      BY <1>10 DEF Small
    <3>2. Shifted(Len(y), 4) = 0
      BY <1>4, <2>12, <2>26, <3>1, SmallerFits
    <3> QED
      BY <2>17, <2>24, <3>2 DEF Small
  <2>19. AllFit(short, v) /\ IsLayout(short)
    BY <2>16, <2>18, LayoutAnswer DEF Wide
  <2>20. PICK r : r = Parse(short, p)
    OBVIOUS
  <2>21. r = [ok |-> TRUE, rest |-> e.detail, values |-> [name \in Names(short) |-> v[name]]]
    BY <1>9, <2>11, <2>17, <2>19, <2>20, RoundTrip
  <2>22. r.ok = TRUE
    BY <2>21
  <2>23. ParseServerError(p) = Parse(ErrorLayout, p).values
    BY <1>5, <1>7, <2>1, <2>2, <2>20, <2>22 DEF ParseServerError
  <2> QED
    BY <2>1, <2>23
<1> QED
  BY <1>1, <1>4, <1>10

RecordFields == Append(RecordLayout, PayloadField)

\* The fields of a record with its payload.
LEMMA RecordFieldsFacts == Wide(RecordFields) /\ Len(RecordFields) = 10 /\ RecordFields[1].type = "u64"
<1>1. /\ Len(RecordLayout) = 9 /\ RecordLayout[1].type = "u64" /\ RecordLayout[2].type = "u64"
      /\ RecordLayout[3].type = "u32" /\ RecordLayout[4].type = "bytes32" /\ RecordLayout[5].type = "u32"
      /\ RecordLayout[6].type = "u32" /\ RecordLayout[7].type = "u32" /\ RecordLayout[8].type = "u32"
      /\ RecordLayout[9].type = "hash"
  BY DEF RecordLayout, F
<1>2. RecordLayout = [i \in 1 .. 9 |-> RecordLayout[i]]
  BY DEF RecordLayout
<1>3. Len(RecordFields) = 9 + 1 /\ RecordFields[9 + 1] = PayloadField /\ \A i \in 1 .. 9 : RecordFields[i] = RecordLayout[i]
  BY <1>2, AppendLemma DEF RecordFields
<1>4. PayloadField.type = "bytes32"
  BY DEF PayloadField, F
<1>5. \A i \in 1 .. 10 : i = 10 \/ i \in 1 .. 9
  OBVIOUS
<1>6. \A i \in 1 .. 9 : i = 1 \/ i = 2 \/ i = 3 \/ i = 4 \/ i = 5 \/ i = 6 \/ i = 7 \/ i = 8 \/ i = 9
  OBVIOUS
<1>7. \A i \in 1 .. 9 : RecordLayout[i].type \in {"u64", "u32", "bytes32", "hash"}
  BY <1>1, <1>6
<1>8. \A i \in 1 .. 10 : RecordFields[i].type \in {"u64", "u32", "bytes32", "hash"}
  BY <1>3, <1>4, <1>5, <1>7
<1>9. Len(RecordFields) = 10
  BY <1>3
<1>10. RecordFields[1].type = "u64"
  BY <1>1, <1>3
<1> QED
  BY <1>8, <1>9, <1>10 DEF Wide, IsLayout, FieldTypes

\* One record: some bytes.
LEMMA RecordBytes ==
    ASSUME NEW r, Typed(RecordFields, r)
    PROVE  /\ EncodeRecord(r, TRUE) = Encode(RecordFields, r) /\ EncodeRecord(r, TRUE) \in Seq(Bytes)
           /\ Len(EncodeRecord(r, TRUE)) >= 1
<1>1. PICK x : x = Encode(RecordFields, r)
  OBVIOUS
<1>2. EncodeRecord(r, TRUE) = x
  BY <1>1 DEF EncodeRecord, RecordFields
<1>3. IsLayout(RecordFields) /\ Writes(RecordFields, r)
  BY RecordFieldsFacts, TypedWrites DEF Wide
<1>4. x \in Seq(Bytes)
  BY <1>1, <1>3, EncodeType
<1>5. 1 \in 1 .. Len(RecordFields)
  BY RecordFieldsFacts
<1>6. PICK f : f = RecordFields[1]
  OBVIOUS
<1>7. f.type \in FieldTypes /\ Writable(f.type, r[f.name]) /\ ~IsBytes(f.type) /\ Width(f.type) = 5
  BY <1>3, <1>5, <1>6, RecordFieldsFacts, Widths DEF Writes, FieldTypes, IsBytes
<1>8. PICK y : y = WriteField(f, r[f.name])
  OBVIOUS
<1>9. Len(y) = 5 + 0
  BY <1>7, <1>8, WriteFacts
<1>10. Len(y) <= Len(x) /\ Len(x) \in Nat
  BY <1>1, <1>3, <1>4, <1>5, <1>6, <1>8, EncodeType
<1>11. Len(x) >= 1
  BY <1>9, <1>10
<1> QED
  BY <1>1, <1>2, <1>4, <1>11

Outs(rs, include) == CHOOSE bytes : bytes = [n \in 0 .. Len(rs) |->
            IF n = 0 THEN Digits(Len(rs), Width("u32"))
            ELSE bytes[n - 1] \o EncodeRecord(rs[n], include)]

\* EncodeRecords is the function of its definition.
LEMMA RecordsIs == \A rs, include : EncodeRecords(rs, include) = Outs(rs, include)[Len(rs)]
BY DEF EncodeRecords, Outs

\* The records of an answer.
AreRecords(rs) ==
    /\ rs \in Seq({rs[i] : i \in 1 .. Len(rs)})
    /\ \A i \in 1 .. Len(rs) : IsRecordOf(RecordFields, rs[i])

\* The bytes of the count and the first n records.
IsWritten(e, rs) ==
    /\ e \in [0 .. Len(rs) -> Seq(Bytes)] /\ e[0] = Digits(Len(rs), 4)
    /\ \A n \in 1 .. Len(rs) : e[n] = e[n - 1] \o EncodeRecord(rs[n], TRUE)

\* The records follow each other after their count.
LEMMA RecordsWritten ==
    ASSUME NEW rs, AreRecords(rs)
    PROVE  \E e : IsWritten(e, rs) /\ EncodeRecords(rs, TRUE) = e[Len(rs)]
<1> DEFINE Def(f) == f = [n \in 0 .. Len(rs) |->
                IF n = 0 THEN Digits(Len(rs), Width("u32")) ELSE f[n - 1] \o EncodeRecord(rs[n], TRUE)]
<1>1. PICK N : N = Len(rs)
  OBVIOUS
<1> N \in Nat
  BY <1>1 DEF AreRecords
<1>2. PICK x : x = [i \in 1 .. N |-> EncodeRecord(rs[i], TRUE)]
  OBVIOUS
<1>3. \A i \in 1 .. N : x[i] = EncodeRecord(rs[i], TRUE)
  BY <1>2
<1>4. \A i \in 1 .. N : EncodeRecord(rs[i], TRUE) \in Seq(Bytes)
  BY <1>1, RecordBytes DEF AreRecords, IsRecordOf
<1>5. Pieces(x, N)
  BY <1>3, <1>4 DEF Pieces
<1>6. PICK start : start = Digits(N, 4)
  OBVIOUS
<1>7. start \in Seq(Bytes) /\ Width("u32") = 4
  <2>1. 4 \in 0 .. 5
    OBVIOUS
  <2> QED
    BY <1>6, <2>1, DigitsFacts, Widths
<1>8. PICK f : IsChain(f, N, start, x)
  BY <1>5, <1>7, ChainExists, Zenon
<1>9. f \in [0 .. N -> Seq(Bytes)] /\ f[0] = start /\ \A i \in 1 .. N : f[i] = f[i - 1] \o x[i]
  BY <1>8 DEF IsChain
<1>10. Def(f)
  <2>1. f = [i \in 0 .. N |-> f[i]]
    BY <1>9, Zenon
  <2>2. \A i \in 0 .. N : i # 0 => i \in 1 .. N
    OBVIOUS
  <2>3. \A i \in 0 .. N : f[i] = IF i = 0 THEN Digits(Len(rs), Width("u32")) ELSE f[i - 1] \o EncodeRecord(rs[i], TRUE)
    BY <1>1, <1>3, <1>6, <1>7, <1>9, <2>2, Zenon
  <2> QED
    BY <1>1, <2>1, <2>3, Zenon
<1>11. Def(CHOOSE g : Def(g))
  <2> HIDE DEF Def
  <2> QED
    BY <1>10, Zenon
<1>12. PICK g : g = Outs(rs, TRUE) /\ Def(g)
  BY <1>11, Zenon DEF Outs
<1>13. \A i \in 0 .. N : g[i] = IF i = 0 THEN Digits(Len(rs), Width("u32")) ELSE g[i - 1] \o EncodeRecord(rs[i], TRUE)
  BY <1>1, <1>12, Zenon
<1>14. \A i \in 1 .. N : g[i] = g[i - 1] \o x[i]
  <2>1. \A i \in 1 .. N : i \in 0 .. N /\ i # 0
    OBVIOUS
  <2> QED
    BY <1>3, <1>13, <2>1, Zenon
<1>15. g[0] = start
  <2>1. 0 \in 0 .. N
    OBVIOUS
  <2> QED
    BY <1>1, <1>6, <1>7, <1>13, <2>1, Zenon
<1>16. g = [i \in 0 .. N |-> g[i]]
  BY <1>1, <1>12, Zenon
<1>17. IsChain(g, N, start, x)
  BY <1>5, <1>7, <1>14, <1>15, <1>16, ChainOf
<1>18. IsWritten(g, rs)
  BY <1>1, <1>3, <1>6, <1>17 DEF IsChain, IsWritten
<1> QED
  BY <1>12, <1>18, RecordsIs, Zenon

\* The bytes of more records begin with those of fewer.
LEMMA WrittenGrows ==
    ASSUME NEW rs, AreRecords(rs), NEW e, IsWritten(e, rs)
    PROVE  /\ Growing(e, Len(rs))
           /\ \A n \in 0 .. Len(rs) : Len(e[n]) >= n
<1>1. PICK N : N = Len(rs)
  OBVIOUS
<1> N \in Nat
  BY <1>1 DEF AreRecords
<1>2. PICK x : x = [i \in 1 .. N |-> EncodeRecord(rs[i], TRUE)]
  OBVIOUS
<1>3. \A i \in 1 .. N : x[i] = EncodeRecord(rs[i], TRUE)
  BY <1>2
<1>4. \A i \in 1 .. N : EncodeRecord(rs[i], TRUE) \in Seq(Bytes) /\ Len(EncodeRecord(rs[i], TRUE)) >= 1
  BY <1>1, RecordBytes DEF AreRecords, IsRecordOf
<1>5. Pieces(x, N) /\ \A i \in 1 .. N : x[i] \in Seq(Bytes) /\ Len(x[i]) >= 1
  BY <1>3, <1>4 DEF Pieces
<1>6. PICK start : IsChain(e, N, start, x)
  BY <1>1, <1>3 DEF IsChain, IsWritten
<1>7. \A n \in 0 .. N : e[n] \in Seq(Bytes)
  BY <1>6 DEF IsChain
<1> DEFINE T == {n \in 0 .. N : Len(e[n]) >= n}
<1>8. ASSUME NEW n \in 0 .. N, \A m \in 0 .. n - 1 : m \in T
      PROVE  n \in T
  <2>1. CASE n = 0
    BY <1>7, <2>1
  <2>2. CASE n # 0
    <3>1. n \in 1 .. N /\ n - 1 \in 0 .. n - 1 /\ n - 1 \in 0 .. N
      BY <2>2
    <3>2. Len(e[n - 1]) >= n - 1
      BY <1>8, <3>1
    <3>3. PICK s : s = e[n - 1]
      OBVIOUS
    <3>4. PICK t : t = x[n]
      OBVIOUS
    <3>5. s \in Seq(Bytes) /\ t \in Seq(Bytes) /\ Len(t) >= 1 /\ e[n] = s \o t /\ Len(s) >= n - 1
      BY <1>5, <1>6, <1>7, <3>1, <3>2, <3>3, <3>4 DEF IsChain
    <3>6. Len(s \o t) = Len(s) + Len(t) /\ Len(s) \in Nat /\ Len(t) \in Nat
      BY <3>5
    <3>7. Len(e[n]) >= n
      BY <3>5, <3>6
    <3> QED
      BY <3>7
  <2> QED
    BY <2>1, <2>2
<1>9. \A n \in 0 .. N : n \in T
  <2> HIDE DEF T
  <2> QED
    BY <1>8, SetInduction
<1>10. Growing(e, N)
  <2>1. Pieces(x, N)
    BY <1>5
  <2> HIDE DEF T
  <2> QED
    BY <1>6, <2>1, ChainGrows
<1> QED
  BY <1>1, <1>9, <1>10

\* parse_turn_records after n records.
RecordsAt(n, rs, e, p) ==
    [ok |-> TRUE, rest |-> SubSeq(p, Len(e[n]) + 1, Len(p)), values |-> SubSeq(rs, 1, n)]

\* parse_turn_records reads one record at a time.
LEMMA RecordSteps ==
    ASSUME NEW rs, AreRecords(rs), NEW e, IsWritten(e, rs), NEW p, p = e[Len(rs)], Small(p),
           NEW n \in 1 .. Len(rs)
    PROVE  ReadRecord(RecordsAt(n - 1, rs, e, p)) = RecordsAt(n, rs, e, p)
<1>1. PICK N : N = Len(rs)
  OBVIOUS
<1> N \in Nat
  BY <1>1 DEF AreRecords
<1>2. n \in 1 .. N /\ n \in 0 .. N /\ n - 1 \in 0 .. N /\ n - 1 \in 0 .. n /\ N \in 0 .. N
  BY <1>1
<1>3. PICK x : x = EncodeRecord(rs[n], TRUE)
  OBVIOUS
<1>4. IsRecordOf(RecordFields, rs[n])
  BY DEF AreRecords
<1>5. Typed(RecordFields, rs[n]) /\ rs[n] = [name \in Names(RecordFields) |-> rs[n][name]]
  BY <1>4 DEF IsRecordOf
<1>6. x = Encode(RecordFields, rs[n]) /\ x \in Seq(Bytes) /\ Len(x) \in Nat
  <2>1. Typed(RecordFields, rs[n])
    BY <1>5
  <2>2. x = Encode(RecordFields, rs[n]) /\ x \in Seq(Bytes)
    BY <1>3, <2>1, RecordBytes
  <2> QED
    BY <2>2
<1>7. PICK e0 : e0 = e[n - 1]
  OBVIOUS
<1>8. PICK e1 : e1 = e[n]
  OBVIOUS
<1>9. e0 \in Seq(Bytes) /\ e1 \in Seq(Bytes) /\ p \in Seq(Bytes) /\ e1 = e0 \o x
  BY <1>1, <1>2, <1>3, <1>7, <1>8 DEF IsWritten
<1>10. Len(e0) \in Nat /\ Len(p) \in Nat /\ Len(e1) = Len(e0) + Len(x) /\ \A i \in 1 .. Len(x) : e1[Len(e0) + i] = x[i]
  BY <1>6, <1>9
<1>11. Len(e1) <= Len(p) /\ \A i \in 1 .. Len(e1) : p[i] = e1[i]
  <2>1. Growing(e, N)
    BY <1>1, WrittenGrows
  <2> QED
    BY <1>1, <1>2, <1>8, <2>1 DEF Growing
<1>12. AllFit(RecordFields, rs[n]) /\ IsLayout(RecordFields)
  <2>1. Len(x) <= Len(p) /\ Shifted(Len(p), 4) = 0
    BY <1>6, <1>10, <1>11 DEF Small
  <2>2. IsLayout(RecordFields) /\ \A i \in 1 .. Len(RecordFields) :
            RecordFields[i].type = "bytes16" => Shifted(Len(rs[n][RecordFields[i].name]), 2) = 0
    BY RecordFieldsFacts DEF Wide
  <2> QED
    BY <1>5, <1>6, <1>10, <2>1, <2>2, SizedFits
<1>13. PICK r : r = SubSeq(p, Len(e0) + 1, Len(p))
  OBVIOUS
<1>14. Len(e0) \in 0 .. Len(p) /\ Len(x) \in 0 .. Len(p) - Len(e0) /\ Len(e0) + Len(x) + 1 = Len(e1) + 1
  BY <1>6, <1>10, <1>11
<1>15. /\ r \in Seq(Bytes) /\ Len(r) = Len(p) - Len(e0) /\ \A i \in 1 .. Len(p) - Len(e0) : r[i] = p[Len(e0) + i]
       /\ SubSeq(r, Len(x) + 1, Len(r)) = SubSeq(p, Len(e0) + Len(x) + 1, Len(p))
  BY <1>9, <1>13, <1>14, RestOfRest
<1>16. SubSeq(r, Len(x) + 1, Len(r)) = SubSeq(p, Len(e1) + 1, Len(p)) /\ Len(x) <= Len(r)
  BY <1>10, <1>14, <1>15
<1>17. Begins(r, x)
  <2> SUFFICES ASSUME NEW i \in 1 .. Len(x), i <= Len(r)
               PROVE  r[i] = x[i]
    BY DEF Begins
  <2>1. i \in 1 .. Len(p) - Len(e0) /\ Len(e0) + i \in 1 .. Len(e1)
    BY <1>6, <1>10, <1>11, <1>14
  <2>2. r[i] = p[Len(e0) + i]
    BY <1>15, <2>1
  <2>3. p[Len(e0) + i] = e1[Len(e0) + i]
    BY <1>11, <2>1
  <2> QED
    BY <1>10, <2>2, <2>3
<1>18. PICK one : one = Parse(RecordFields, r)
  OBVIOUS
<1>19. one = [ok |-> TRUE, rest |-> SubSeq(r, Len(x) + 1, Len(r)),
              values |-> [name \in Names(RecordFields) |-> rs[n][name]]]
  BY <1>6, <1>12, <1>15, <1>16, <1>17, <1>18, ParseOf
<1>20. one.ok = TRUE /\ one.rest = SubSeq(p, Len(e1) + 1, Len(p)) /\ one.values = rs[n]
  BY <1>5, <1>16, <1>19
<1>21. PICK cursor : cursor = RecordsAt(n - 1, rs, e, p)
  OBVIOUS
<1>22. cursor.ok = TRUE /\ cursor.rest = r /\ cursor.values = SubSeq(rs, 1, n - 1)
  BY <1>7, <1>13, <1>21 DEF RecordsAt
<1>23. ReadRecord(cursor) = [ok |-> TRUE, rest |-> one.rest, values |-> Append(SubSeq(rs, 1, n - 1), rs[n])]
  BY <1>18, <1>20, <1>22 DEF ReadRecord, RecordFields
<1>24. Append(SubSeq(rs, 1, n - 1), rs[n]) = SubSeq(rs, 1, n)
  <2>1. PICK S : rs \in Seq(S)
    BY DEF AreRecords
  <2> QED
    BY <1>1, <1>2, <2>1
<1> QED
  BY <1>8, <1>20, <1>21, <1>23, <1>24 DEF RecordsAt

Ats(bytes, count) == CHOOSE at : at = [n \in 0 .. count |->
            IF n = 0 THEN [ok |-> TRUE, rest |-> bytes, values |-> <<>>] ELSE ReadRecord(at[n - 1])]

\* ReadRecords is the function of its definition.
LEMMA ReadsIs == \A bytes, count : ReadRecords(bytes, count) = Ats(bytes, count)[count]
BY DEF ReadRecords, Ats

\* parse_turn_records reads the records that were written.
LEMMA RecordsRead ==
    ASSUME NEW rs, AreRecords(rs), NEW e, IsWritten(e, rs), NEW p, p = e[Len(rs)], Small(p)
    PROVE  ReadRecords(SubSeq(p, Len(e[0]) + 1, Len(p)), Len(rs)) = RecordsAt(Len(rs), rs, e, p)
<1>1. PICK N : N = Len(rs)
  OBVIOUS
<1> N \in Nat
  BY <1>1 DEF AreRecords
<1>2. PICK b : b = SubSeq(p, Len(e[0]) + 1, Len(p))
  OBVIOUS
<1> DEFINE Def(f) == f = [n \in 0 .. N |->
            IF n = 0 THEN [ok |-> TRUE, rest |-> b, values |-> <<>>] ELSE ReadRecord(f[n - 1])]
<1>3. PICK C : C = [n \in 0 .. N |-> RecordsAt(n, rs, e, p)]
  OBVIOUS
<1>4. \A n \in 0 .. N : C[n] = RecordsAt(n, rs, e, p)
  BY <1>3, Zenon
<1>5. ASSUME NEW n \in 1 .. N
      PROVE  C[n] = ReadRecord(C[n - 1])
  <2>1. n \in 0 .. N /\ n - 1 \in 0 .. N /\ n \in 1 .. Len(rs)
    BY <1>1
  <2>2. ReadRecord(RecordsAt(n - 1, rs, e, p)) = RecordsAt(n, rs, e, p)
    BY <2>1, RecordSteps
  <2> QED
    BY <1>4, <2>1, <2>2, Zenon
<1>6. C[0] = [ok |-> TRUE, rest |-> b, values |-> <<>>]
  <2>1. 0 \in 0 .. N
    OBVIOUS
  <2>2. PICK S : rs \in Seq(S)
    BY DEF AreRecords
  <2>3. SubSeq(rs, 1, 0) = <<>>
    BY <2>2
  <2> QED
    BY <1>2, <1>4, <2>1, <2>3, Zenon DEF RecordsAt
<1>7. Def(C)
  <2>1. C = [n \in 0 .. N |-> C[n]]
    BY <1>3, Zenon
  <2>2. \A n \in 0 .. N : n # 0 => n \in 1 .. N
    OBVIOUS
  <2>3. \A n \in 0 .. N : C[n] = IF n = 0 THEN [ok |-> TRUE, rest |-> b, values |-> <<>>] ELSE ReadRecord(C[n - 1])
    BY <1>5, <1>6, <2>2, Zenon
  <2> QED
    BY <2>1, <2>3, Zenon
<1>8. Def(CHOOSE g : Def(g))
  <2> HIDE DEF Def
  <2> QED
    BY <1>7, Zenon
<1>9. PICK g : g = Ats(b, N) /\ Def(g)
  BY <1>8, Zenon DEF Ats
<1>10. \A n \in 0 .. N : g[n] = IF n = 0 THEN [ok |-> TRUE, rest |-> b, values |-> <<>>] ELSE ReadRecord(g[n - 1])
  BY <1>9, Zenon
<1> DEFINE T == {n \in 0 .. N : g[n] = C[n]}
<1>11. ASSUME NEW n \in 0 .. N, \A m \in 0 .. n - 1 : m \in T
       PROVE  n \in T
  <2>1. CASE n = 0
    BY <1>6, <1>10, <2>1, Zenon
  <2>2. CASE n # 0
    <3>1. n \in 1 .. N /\ n - 1 \in 0 .. n - 1
      BY <2>2
    <3>2. g[n - 1] = C[n - 1]
      BY <1>11, <3>1, Zenon
    <3> QED
      BY <1>5, <1>10, <2>2, <3>1, <3>2, Zenon
  <2> QED
    BY <2>1, <2>2
<1>12. \A n \in 0 .. N : n \in T
  <2> HIDE DEF T
  <2> QED
    BY <1>11, SetInduction
<1>13. g[N] = RecordsAt(N, rs, e, p)
  <2>1. N \in 0 .. N
    OBVIOUS
  <2> QED
    BY <1>4, <1>12, <2>1, Zenon
<1> QED
  BY <1>1, <1>2, <1>9, <1>13, ReadsIs, Zenon

\* The count and the records are read as the records.
LEMMA RecordsAnswer ==
    ASSUME NEW rs, AreRecords(rs)
    PROVE  /\ EncodeRecords(rs, TRUE) \in Seq(Bytes)
           /\ Small(EncodeRecords(rs, TRUE)) =>
                 /\ ParseRecords(EncodeRecords(rs, TRUE)).ok = TRUE
                 /\ ParseRecords(EncodeRecords(rs, TRUE)).values = rs
<1>1. PICK N : N = Len(rs)
  OBVIOUS
<1> N \in Nat
  BY <1>1 DEF AreRecords
<1>2. PICK e : IsWritten(e, rs) /\ EncodeRecords(rs, TRUE) = e[N]
  BY <1>1, RecordsWritten
<1>3. PICK p : p = EncodeRecords(rs, TRUE)
  OBVIOUS
<1>4. N \in 0 .. N /\ 0 \in 0 .. N
  OBVIOUS
<1>5. p \in Seq(Bytes) /\ Len(p) \in Nat /\ e[0] = Digits(N, 4) /\ e[0] \in Seq(Bytes)
  BY <1>1, <1>2, <1>3, <1>4 DEF IsWritten
<1>6. ASSUME Small(p) PROVE ParseRecords(p).ok = TRUE /\ ParseRecords(p).values = rs
  <2>1. Growing(e, N) /\ Len(p) >= N
    BY <1>1, <1>2, <1>3, <1>4, WrittenGrows
  <2>2. Len(e[0]) <= Len(p) /\ \A i \in 1 .. Len(e[0]) : p[i] = e[0][i]
    BY <1>2, <1>3, <1>4, <2>1 DEF Growing
  <2>3. Shifted(N, 4) = 0
    <3>1. N <= Len(p) /\ Shifted(Len(p), 4) = 0 /\ 4 \in 0 .. 5
      BY <1>5, <1>6, <2>1 DEF Small
    <3> QED
      BY <1>5, <3>1, SmallerFits
  <2>4. PICK f : f = F("count", "u32")
    OBVIOUS
  <2>5. f.name = "count" /\ f.type = "u32" /\ f.type \in FieldTypes /\ ~IsBytes(f.type) /\ f.type # "hash" /\ Width(f.type) = 4
    BY <2>4, Widths DEF F, FieldTypes, IsBytes
  <2>6. PICK layout : layout = <<f>>
    OBVIOUS
  <2>7. Len(layout) = 1 /\ layout[1] = f
    BY <2>6
  <2>8. PICK v : v = [count |-> N]
    OBVIOUS
  <2>9. v["count"] = N
    BY <2>8
  <2>10. Fitting(f, v[f.name])
    BY <2>3, <2>5, <2>9 DEF Fitting, Writable
  <2>11. AllFit(layout, v) /\ IsLayout(layout)
    BY <2>5, <2>7, <2>10 DEF AllFit, IsLayout
  <2>12. Encode(layout, v) = e[0]
    <3>1. Writes(layout, v)
      BY <2>11, FitWrites
    <3>2. Encode(layout, v) = WriteField(f, v[f.name])
      BY <2>5, <2>6, <3>1, EncodeOne
    <3>3. v[f.name] = N /\ Writable(f.type, N)
      BY <2>5, <2>9 DEF Writable
    <3>4. WriteField(f, N) = Digits(N, 4)
      BY <2>5, <3>3, WriteFacts
    <3> QED
      BY <1>5, <3>2, <3>3, <3>4
  <2>13. Begins(p, Encode(layout, v))
    BY <2>2, <2>12 DEF Begins
  <2>14. PICK count : count = Parse(layout, p)
    OBVIOUS
  <2>15. PICK b : b = SubSeq(p, Len(e[0]) + 1, Len(p))
    OBVIOUS
  <2>16. count = [ok |-> TRUE, rest |-> b, values |-> [name \in Names(layout) |-> v[name]]]
    BY <1>5, <2>2, <2>11, <2>12, <2>13, <2>14, <2>15, ParseOf
  <2>17. Names(layout) = {"count"}
    BY <2>5, <2>7 DEF Names
  <2>18. count.ok = TRUE /\ count.rest = b /\ count.values.count = N
    BY <2>9, <2>16, <2>17
  <2>19. PICK q : q = ReadRecords(b, N)
    OBVIOUS
  <2>20. ParseRecords(p) = q
    BY <2>4, <2>6, <2>14, <2>18, <2>19 DEF ParseRecords
  <2>21. q = RecordsAt(N, rs, e, p)
    BY <1>1, <1>2, <1>3, <1>6, <2>15, <2>19, RecordsRead
  <2>22. q.ok = TRUE /\ q.values = SubSeq(rs, 1, N)
    BY <2>21 DEF RecordsAt
  <2>23. SubSeq(rs, 1, N) = rs
    <3>1. PICK S : rs \in Seq(S)
      BY DEF AreRecords
    <3> QED
      BY <1>1, <3>1
  <2> QED
    BY <2>20, <2>22, <2>23
<1> QED
  BY <1>3, <1>5, <1>6

\* No records are the same bytes with payloads and without.
LEMMA NoRecords == EncodeRecords(<<>>, FALSE) = EncodeRecords(<<>>, TRUE)
<1> DEFINE f == [n \in {0} |-> Digits(0, Width("u32"))]
<1>1. ASSUME NEW include \in BOOLEAN PROVE EncodeRecords(<<>>, include) = Digits(0, Width("u32"))
  <2> DEFINE Def(g) == g = [n \in 0 .. Len(<<>>) |->
                IF n = 0 THEN Digits(Len(<<>>), Width("u32")) ELSE g[n - 1] \o EncodeRecord(<<>>[n], include)]
  <2>1. Len(<<>>) = 0 /\ 0 .. Len(<<>>) = {0}
    OBVIOUS
  <2>2. Def(f)
    BY <2>1
  <2>3. Def(CHOOSE g : Def(g))
    <3> HIDE DEF Def
    <3> QED
      BY <2>2, Zenon
  <2>4. PICK g : g = Outs(<<>>, include) /\ Def(g)
    BY <2>3, Zenon DEF Outs
  <2>5. g[0] = Digits(0, Width("u32"))
    BY <2>1, <2>4
  <2> QED
    BY <2>1, <2>4, <2>5, RecordsIs
<1> QED
  BY <1>1

\* GET_LAST with payloads, or of nothing.
LEMMA GetLastAnswer ==
    ASSUME NEW req, NEW hd, NEW ack, NEW rs \in Records, req.include \in 0 .. 1, req.include = 1 \/ rs = <<>>
    PROVE  AnswerRead(MsgGetLast, req, hd, ack, rs)
<1>1. AreRecords(rs)
  BY WireAssumption DEF AreRecords, RecordFields
<1>2. PICK p : p = EncodeRecords(rs, TRUE)
  OBVIOUS
<1>3. EncodeRecords(rs, req.include # 0) = EncodeRecords(rs, TRUE)
  <2>1. CASE req.include = 1
    <3>1. (req.include # 0) = TRUE
      BY <2>1
    <3> QED
      BY <3>1
  <2>2. CASE req.include = 0
    <3>1. (req.include # 0) = FALSE /\ rs = <<>>
      BY <2>2
    <3> QED
      BY <3>1, NoRecords
  <2>3. req.include = 0 \/ req.include = 1
    OBVIOUS
  <2> QED
    BY <2>1, <2>2, <2>3
<1>4. PICK a : a = ReplyTo(MsgGetLast, req, hd, ack, rs)
  OBVIOUS
<1>5. a = [payload |-> p, means |-> rs]
  <2>1. a = [payload |-> EncodeRecords(rs, req.include # 0), means |-> rs]
    BY <1>4, ReplyByType
  <2> QED
    BY <1>2, <1>3, <2>1, Zenon
<1>6. a.payload = p /\ a.means = rs
  BY <1>5
<1>7. ParseAnswer(MsgGetLast, p) = ParseRecords(p)
  BY AnswerByType
<1> QED
  BY <1>1, <1>2, <1>4, <1>6, <1>7, RecordsAnswer DEF AnswerRead, Reads

\* A request is bytes.
LEMMA RequestBytes == ASSUME NEW c \in WireCalls, Sized(Request(c)) PROVE Request(c) \in Seq(Bytes)
<1>1. CASE c.type # MsgHello
  BY <1>1, RequestsUnderstood DEF Fits
<1>2. CASE c.type = MsgHello
  <2>1. PICK layout : layout = <<F("version", "u16"), F("tag", "bytes16"), F("meta", "u32")>>
    OBVIOUS
  <2>2. /\ Len(layout) = 3 /\ layout[1].name = "version" /\ layout[1].type = "u16" /\ layout[2].name = "tag"
        /\ layout[2].type = "bytes16" /\ layout[3].name = "meta" /\ layout[3].type = "u32"
    BY <2>1 DEF F
  <2>3. PICK u : u = [version |-> 1, tag |-> c.tag, meta |-> 0]
    OBVIOUS
  <2>4. u["version"] = 1 /\ u["tag"] = c.tag /\ u["meta"] = 0
    BY <2>3
  <2>5. c.tag \in Seq(Bytes)
    <3>1. CallOK(c)
      BY WireAssumption
    <3>2. IsValue("bytes16", c.tag)
      BY <1>2, <3>1, CallByType
    <3> QED
      BY <3>2 DEF IsValue, IsBytes
  <2>6. \A i \in 1 .. 3 : i = 1 \/ i = 2 \/ i = 3
    OBVIOUS
  <2>7. IsLayout(layout) /\ Writes(layout, u)
    BY <2>2, <2>4, <2>5, <2>6 DEF IsLayout, FieldTypes, Writes, Writable, IsBytes
  <2>8. Request(c) = Encode(layout, u)
    BY <1>2, <2>1, <2>3, RequestByType DEF HelloPayload
  <2> QED
    BY <2>7, <2>8, EncodeType
<1> QED
  BY <1>1, <1>2

\* A frame is its header and its payload.
LEMMA FrameLength ==
    ASSUME NEW type \in Nat, NEW payload \in Seq(Bytes)
    PROVE  Len(FrameBytes(type, 0, payload)) = 13 + Len(payload)
<1>1. PICK x : x = Encode(Header, HeaderOf(type, 0, Len(payload)))
  OBVIOUS
<1>2. 0 \in 0 .. 1 /\ Len(payload) \in Nat
  OBVIOUS
<1>3. x \in Seq(Bytes) /\ Len(x) = 13
  BY <1>1, <1>2, HeaderLength
<1>4. FrameBytes(type, 0, payload) = x \o payload
  BY <1>1 DEF FrameBytes, HeaderOf
<1>5. Len(x \o payload) = 13 + Len(payload)
  BY <1>3, Joins, Zenon
<1> QED
  BY <1>4, <1>5

\* The types of messages, among them that of a refusal, fit their field and differ.
LEMMA TypeNumbers ==
    /\ \A t \in MsgTypes : t \in Nat /\ t # 0 /\ Shifted(t, 2) = 0 /\ t # MsgError
    /\ MsgError \in Nat /\ Shifted(MsgError, 2) = 0
<1>1. MsgTypes \subseteq 1 .. 11
  BY DEF MsgTypes, MsgHello, MsgCtxCreate, MsgCtxFork, MsgGetHead, MsgAppendTurn, MsgGetLast, MsgAttachFs, MsgPutBlob
<1>2. PICK q : q = Base * Base
  OBVIOUS
<1>3. q \in Nat /\ q >= 16 /\ MsgError = q - 1
  BY <1>2, SquareOfBase DEF MsgError
<1>4. MsgError \in Nat /\ MsgError < q /\ MsgError >= 15 /\ 2 \in 2 .. 5
  BY <1>3
<1>5. Shifted(MsgError, 2) = 0
  BY <1>2, <1>4, SmallFits
<1>6. \A t \in 1 .. 11 : t \in Nat /\ t # 0 /\ t \in 0 .. 15 /\ t # MsgError
  BY <1>4
<1>7. \A t \in 1 .. 11 : Shifted(t, 2) = 0
  BY <1>6, SmallNumbers
<1> QED
  BY <1>1, <1>4, <1>5, <1>6, <1>7

\* Every answer is read as what the server meant.
LEMMA AnswersRight ==
    ASSUME NEW c \in WireCalls, NEW req, c.type # MsgHello => Understood(c, req),
           NEW hd \in Heads, NEW ack \in Acks, NEW rs \in Records,
           ~(c.type = MsgGetLast /\ ~c.include /\ rs # <<>>)
    PROVE  AnswerRead(c.type, req, hd, ack, rs)
<1>1. CallOK(c) /\ c.type \in MsgTypes
  BY WireAssumption
<1>2. \/ c.type = MsgHello \/ c.type \in IdTypes \/ c.type = MsgAppendTurn \/ c.type = MsgGetLast
      \/ c.type = MsgAttachFs \/ c.type = MsgPutBlob
  BY <1>1 DEF MsgTypes, IdTypes
<1>3. MsgAttachFs # MsgHello /\ MsgPutBlob # MsgHello /\ MsgGetLast # MsgHello
  BY DEF MsgAttachFs, MsgPutBlob, MsgGetLast, MsgHello
<1>4. CASE c.type = MsgAttachFs
  <2>1. Meant(c) = [turn_id |-> c.turn_id, root |-> c.root] /\ Understood(c, req)
    BY <1>3, <1>4, MeantByType
  <2>2. req["turn_id"] = c.turn_id /\ req["root"] = c.root
    BY <2>1 DEF Understood
  <2>3. IsValue("u64", c.turn_id) /\ IsValue("hash", c.root)
    BY <1>1, <1>4, CallByType
  <2>4. IsValue("u64", req.turn_id) /\ IsValue("hash", req.root)
    BY <2>2, <2>3
  <2> QED
    BY <1>4, <2>4, AttachAnswer
<1>5. CASE c.type = MsgPutBlob
  <2>1. Meant(c) = [hash |-> Blake3(c.data), data |-> c.data] /\ Understood(c, req)
    BY <1>3, <1>5, MeantByType
  <2>2. req["hash"] = Blake3(c.data)
    BY <2>1 DEF Understood
  <2>3. c.data \in Seq(Bytes)
    <3>1. IsValue("bytes32", c.data)
      BY <1>1, <1>5, CallByType
    <3> QED
      BY <3>1 DEF IsValue, IsBytes
  <2>4. IsValue("hash", Blake3(c.data))
    BY <2>3, Blake3Facts, Widths DEF IsValue, IsBytes
  <2>5. IsValue("hash", req.hash)
    BY <2>2, <2>4
  <2> QED
    BY <1>5, <2>5, PutBlobAnswer
<1>6. CASE c.type = MsgGetLast
  <2>1. c.include \in BOOLEAN /\ (c.include = TRUE \/ rs = <<>>)
    <3>1. c.include \in BOOLEAN
      BY <1>1, <1>6, CallByType
    <3> QED
      BY <1>6, <3>1
  <2>2. Meant(c) = [context_id |-> c.context_id, limit |-> IF c.limit = 0 THEN 10 ELSE c.limit,
                    include |-> IF c.include THEN 1 ELSE 0] /\ Understood(c, req)
    BY <1>3, <1>6, MeantByType
  <2>3. req["include"] \in 0 .. 1 /\ (req["include"] = 1 \/ rs = <<>>)
    BY <2>1, <2>2 DEF Understood
  <2> QED
    BY <1>6, <2>3, GetLastAnswer
<1> QED
  BY <1>2, <1>4, <1>5, <1>6, HelloAnswer, HeadAnswer, AckAnswer

-----------------------------------------------------------------------------
(* The exchange.                                                           *)

\* What the server makes of a frame.
Hearing(frm) ==
    LET got == FrameOf(frm)
        req == ParseRequest(got.header.msg_type, got.header.flags, got.payload)
    IN  IF got.ok /\ req.ok THEN [type |-> got.header.msg_type, req |-> req.values] ELSE [type |-> 0]
\* What the client makes of one.
ResultOf(c, frm) ==
    LET got == FrameOf(frm)
        parsed == ParseAnswer(c.type, got.payload)
    IN  CASE ~got.ok -> [ok |-> FALSE, why |-> "frame"]
          [] got.ok /\ got.header.msg_type = MsgError ->
                 [ok |-> FALSE, why |-> "server", error |-> ParseServerError(got.payload)]
          [] OTHER -> IF parsed.ok THEN [ok |-> TRUE, values |-> parsed.values]
                      ELSE [ok |-> FALSE, why |-> "answer"]
IsAnswer(h, r) ==
    \E hd \in Heads, ack \in Acks, records \in Records :
        LET a == ReplyTo(h.type, h.req, hd, ack, records)
        IN  r = [frame |-> FrameBytes(h.type, 0, a.payload), means |-> a.means]
IsRefusal(r) == \E e \in WireErrors : r = [frame |-> FrameBytes(MsgError, 0, EncodeError(e)), means |-> e]

\* Each variable is what the last step made of the ones before it.
AskedInv == IF asked = Absent THEN frame = Absent /\ heard = Absent
            ELSE asked \in WireCalls /\ frame = FrameBytes(asked.type, FlagsOf(asked), Request(asked))
HeardInv == IF heard = Absent THEN reply = Absent /\ result = Absent
            ELSE asked # Absent /\ heard = Hearing(frame)
ReplyInv == IF reply = Absent THEN result \in {Absent, [ok |-> FALSE, why |-> "connection"]}
            ELSE heard.type # 0 /\ (IsAnswer(heard, reply) \/ (IsRefusal(reply) /\ Refusable(heard.type, heard.req)))
ResultInv == result # Absent /\ reply # Absent => result = ResultOf(asked, reply.frame)
WireInv == AskedInv /\ HeardInv /\ ReplyInv /\ ResultInv

\* Nothing has happened at first.
LEMMA WireInvInit == WireInit => WireInv
BY DEF WireInit, WireInv, AskedInv, HeardInv, ReplyInv, ResultInv

\* A call of the client, and what the server makes of it, keep the invariant.
LEMMA WireInvCalls == ASSUME WireInv, NEW c \in WireCalls, ClientCalls(c) PROVE WireInv'
<1>1. asked = Absent /\ asked' = c /\ heard' = heard /\ reply' = reply /\ result' = result
  BY DEF ClientCalls
<1>2. c # Absent
  BY WireAssumption
<1>3. frame' = FrameBytes(c.type, FlagsOf(c), Request(c))
  BY DEF ClientCalls, FlagsOf
<1>4. heard = Absent
  BY <1>1 DEF WireInv, AskedInv
<1>5. reply = Absent /\ result = Absent
  BY <1>4 DEF WireInv, HeardInv
<1>6. AskedInv'
  BY <1>1, <1>2, <1>3 DEF AskedInv
<1>7. HeardInv' /\ ReplyInv' /\ ResultInv'
  BY <1>1, <1>4, <1>5 DEF HeardInv, ReplyInv, ResultInv
<1> QED
  BY <1>6, <1>7 DEF WireInv

LEMMA WireInvHears == ASSUME WireInv, ServerHears PROVE WireInv'
<1>1. frame # Absent /\ heard = Absent /\ asked' = asked /\ frame' = frame /\ reply' = reply
  BY DEF ServerHears
<1>2. heard' = Hearing(frame)
  BY DEF ServerHears, Hearing
<1>3. asked # Absent /\ reply = Absent /\ result = Absent
  BY <1>1 DEF WireInv, AskedInv, HeardInv
<1>4. result' \in {Absent, [ok |-> FALSE, why |-> "connection"]}
  BY <1>3 DEF ServerHears
<1>5. heard' = Absent => result' = Absent
  <2>1. PICK h : h = Hearing(frame)
    OBVIOUS
  <2>2. "type" \in DOMAIN h
    BY <2>1 DEF Hearing
  <2>3. h # Absent
    BY <2>2 DEF Absent
  <2> QED
    BY <1>2, <2>1, <2>3
<1>6. AskedInv'
  BY <1>1, <1>3 DEF WireInv, AskedInv
<1>7. HeardInv'
  BY <1>1, <1>2, <1>3, <1>5 DEF HeardInv
<1>8. ReplyInv' /\ ResultInv'
  BY <1>1, <1>3, <1>4 DEF ReplyInv, ResultInv
<1> QED
  BY <1>6, <1>7, <1>8 DEF WireInv

\* A step that writes the answer.
LEMMA WireInvReply ==
    ASSUME WireInv, heard # Absent, heard.type # 0, reply = Absent, result = Absent,
           IsAnswer(heard, reply') \/ (IsRefusal(reply') /\ Refusable(heard.type, heard.req)),
           asked' = asked, frame' = frame, heard' = heard, result' = result
    PROVE  WireInv'
<1>2. AskedInv' /\ HeardInv'
  BY DEF WireInv, AskedInv, HeardInv
<1>3. ResultInv'
  BY DEF ResultInv
<1>4. ReplyInv'
  <2>1. PICK r : r = reply'
    OBVIOUS
  <2>2. IsAnswer(heard, r) \/ (IsRefusal(r) /\ Refusable(heard.type, heard.req))
    BY <2>1
  <2>3. (IsAnswer(heard, reply) \/ (IsRefusal(reply) /\ Refusable(heard.type, heard.req)))'
    BY <2>1, <2>2 DEF IsAnswer, IsRefusal, Refusable
  <2> QED
    BY <2>3 DEF ReplyInv
<1> QED
  BY <1>2, <1>3, <1>4 DEF WireInv

\* So does the return of the call.
LEMMA WireInvResult == ASSUME WireInv, ClientHears PROVE WireInv'
<1>1. reply # Absent /\ asked' = asked /\ frame' = frame /\ heard' = heard /\ reply' = reply
  BY DEF ClientHears
<1>2. result' = ResultOf(asked, reply.frame)
  BY DEF ClientHears, ResultOf
<1>3. heard # Absent
  BY <1>1 DEF WireInv, HeardInv
<1>4. AskedInv' /\ HeardInv'
  BY <1>1, <1>3 DEF WireInv, AskedInv, HeardInv
<1>5. ReplyInv'
  BY <1>1 DEF WireInv, ReplyInv, IsAnswer, IsRefusal, Refusable
<1>6. ResultInv'
  BY <1>1, <1>2 DEF ResultInv
<1> QED
  BY <1>4, <1>5, <1>6 DEF WireInv

\* So does a connection that ends without an answer.
LEMMA WireInvBreaks == ASSUME WireInv, ServerBreaks PROVE WireInv'
<1>1. /\ heard # Absent /\ reply = Absent /\ result' = [ok |-> FALSE, why |-> "connection"]
      /\ asked' = asked /\ frame' = frame /\ heard' = heard /\ reply' = reply
  BY DEF ServerBreaks
<1>2. AskedInv' /\ HeardInv'
  BY <1>1 DEF WireInv, AskedInv, HeardInv
<1>3. ReplyInv' /\ ResultInv'
  BY <1>1 DEF ReplyInv, ResultInv
<1> QED
  BY <1>2, <1>3 DEF WireInv

\* Every step keeps the invariant.
LEMMA WireInvNext == WireInv /\ [WireNext]_wireVars => WireInv'
<1> SUFFICES ASSUME WireInv, [WireNext]_wireVars PROVE WireInv'
  OBVIOUS
<1>1. CASE UNCHANGED wireVars
  BY <1>1 DEF wireVars, WireInv, AskedInv, HeardInv, ReplyInv, ResultInv, IsAnswer, IsRefusal, Refusable
<1>2. CASE \E c \in WireCalls : ClientCalls(c)
  BY <1>2, WireInvCalls
<1>3. CASE ServerHears
  BY <1>3, WireInvHears
<1>4. ASSUME NEW h \in Heads, NEW a \in Acks, NEW r \in Records, ServerAnswers(h, a, r) PROVE WireInv'
  <2>1. heard # Absent /\ heard.type # 0 /\ reply = Absent /\ result = Absent
        /\ asked' = asked /\ frame' = frame /\ heard' = heard /\ result' = result
    BY <1>4 DEF ServerAnswers
  <2>2. IsAnswer(heard, reply')
    BY <1>4 DEF ServerAnswers, IsAnswer
  <2> QED
    BY <2>1, <2>2, WireInvReply
<1>5. ASSUME NEW e \in WireErrors, ServerRefuses(e) PROVE WireInv'
  <2>1. heard # Absent /\ heard.type # 0 /\ reply = Absent /\ result = Absent
        /\ asked' = asked /\ frame' = frame /\ heard' = heard /\ result' = result
    BY <1>5 DEF ServerRefuses
  <2>2. IsRefusal(reply') /\ Refusable(heard.type, heard.req)
    BY <1>5 DEF ServerRefuses, IsRefusal
  <2> QED
    BY <2>1, <2>2, WireInvReply
<1>6. CASE ClientHears
  BY <1>6, WireInvResult
<1>7. CASE ServerBreaks
  BY <1>7, WireInvBreaks
<1> QED
  BY <1>1, <1>2, <1>3, <1>4, <1>5, <1>6, <1>7 DEF WireNext

-----------------------------------------------------------------------------
(* What the invariant says of an exchange.                                 *)

\* What the server hears of a call.
LEMMA HearsCall ==
    ASSUME NEW c \in WireCalls, Sized(Request(c)), NEW h,
           h = Hearing(FrameBytes(c.type, FlagsOf(c), Request(c)))
    PROVE  LET req == ParseRequest(c.type, FlagsOf(c), Request(c))
           IN  h = IF Len(Request(c)) <= MaxFrame /\ req.ok THEN [type |-> c.type, req |-> req.values]
                   ELSE [type |-> 0]
<1>1. Request(c) \in Seq(Bytes)
  BY RequestBytes
<1>2. c.type \in Nat /\ Shifted(c.type, 2) = 0
  BY TypeNumbers, WireAssumption
<1>3. FlagsOf(c) \in 0 .. 1
  BY DEF FlagsOf
<1>4. Shifted(Len(Request(c)), 4) = 0
  BY Widths DEF Sized
<1>5. PICK got : got = FrameOf(FrameBytes(c.type, FlagsOf(c), Request(c)))
  OBVIOUS
<1>6. got.ok = (Len(Request(c)) <= MaxFrame) /\ got.header.msg_type = c.type /\ got.header.flags = FlagsOf(c)
      /\ got.payload = Request(c)
  BY <1>1, <1>2, <1>3, <1>4, <1>5, FrameRoundTrip
<1> QED
  BY <1>5, <1>6 DEF Hearing

\* The server acts on what the caller said.
LEMMA HeardRight ==
    ASSUME NEW c \in WireCalls, Fits(c), NEW h, h = Hearing(FrameBytes(c.type, FlagsOf(c), Request(c)))
    PROVE  IF h.type = 0 THEN Len(Request(c)) > MaxFrame ELSE h.type = c.type /\ Understood(c, h.req)
<1>1. PICK req : req = ParseRequest(c.type, FlagsOf(c), Request(c))
  OBVIOUS
<1>2. Sized(Request(c))
  BY DEF Fits
<1>3. req.ok = TRUE /\ Understood(c, req.values) /\ Request(c) \in Seq(Bytes)
  BY <1>1, RequestsUnderstood DEF ReadsBack
<1>4. h = IF Len(Request(c)) <= MaxFrame THEN [type |-> c.type, req |-> req.values] ELSE [type |-> 0]
  BY <1>1, <1>2, <1>3, HearsCall
<1>5. c.type # 0
  BY TypeNumbers, WireAssumption
<1>6. CASE Len(Request(c)) <= MaxFrame
  <2>1. h = [type |-> c.type, req |-> req.values]
    BY <1>4, <1>6
  <2>2. h.type = c.type /\ h.req = req.values
    BY <2>1
  <2> QED
    BY <1>3, <1>5, <2>2
<1>7. CASE ~ (Len(Request(c)) <= MaxFrame)
  <2>1. h = [type |-> 0]
    BY <1>4, <1>7
  <2>2. h.type = 0 /\ Len(Request(c)) > MaxFrame
    BY <1>3, <1>7, <2>1, BaseFacts
  <2> QED
    BY <2>2
<1> QED
  BY <1>6, <1>7

\* What the client makes of a frame with a payload p of some type.
LEMMA ResultFrom ==
    ASSUME NEW c, NEW type \in Nat, Shifted(type, 2) = 0, NEW p \in Seq(Bytes), Small(p), NEW r,
           r = ResultOf(c, FrameBytes(type, 0, p))
    PROVE  r = IF ~ (Len(p) <= MaxFrame) THEN [ok |-> FALSE, why |-> "frame"]
               ELSE IF type = MsgError THEN [ok |-> FALSE, why |-> "server", error |-> ParseServerError(p)]
               ELSE IF ParseAnswer(c.type, p).ok THEN [ok |-> TRUE, values |-> ParseAnswer(c.type, p).values]
               ELSE [ok |-> FALSE, why |-> "answer"]
<1>1. PICK got : got = FrameOf(FrameBytes(type, 0, p))
  OBVIOUS
<1>2. 0 \in 0 .. 1 /\ Shifted(Len(p), 4) = 0
  BY DEF Small
<1>3. got.ok = (Len(p) <= MaxFrame) /\ got.header.msg_type = type /\ got.payload = p
  BY <1>1, <1>2, FrameRoundTrip
<1> QED
  BY <1>1, <1>3 DEF ResultOf

\* What a call returns is what the server meant.
ReturnedRight(c, r, rep) ==
    \/ r.ok /\ r.values = rep.means
    \/ ~r.ok /\ r.why = "server" /\ r.error = rep.means /\ c.type \in {MsgGetHead, MsgPutBlob}
    \/ ~r.ok /\ r.why = "frame" /\ Len(rep.frame) - Len(FrameBytes(0, 0, <<>>)) > MaxFrame

\* The payload of a frame that fits a u32 fits it too.
LEMMA SmallPayload ==
    ASSUME NEW type \in Nat, NEW p \in Seq(Bytes), Sized(FrameBytes(type, 0, p))
    PROVE  /\ Small(p) /\ Len(FrameBytes(type, 0, p)) - Len(FrameBytes(0, 0, <<>>)) = Len(p)
<1>1. PICK frm : frm = FrameBytes(type, 0, p)
  OBVIOUS
<1>2. Len(frm) = 13 + Len(p) /\ Len(p) \in Nat
  BY <1>1, FrameLength
<1>3. Len(frm) \in Nat /\ Len(p) <= Len(frm) /\ 4 \in 0 .. 5 /\ Shifted(Len(frm), 4) = 0
  BY <1>1, <1>2, Widths DEF Sized
<1>4. Shifted(Len(p), 4) = 0
  BY <1>2, <1>3, SmallerFits
<1>5. Len(FrameBytes(0, 0, <<>>)) = 13
  <2>1. <<>> \in Seq(Bytes) /\ 0 \in Nat /\ Len(<<>>) = 0
    OBVIOUS
  <2>2. Len(FrameBytes(0, 0, <<>>)) = 13 + Len(<<>>)
    BY <2>1, FrameLength, Zenon
  <2> QED
    BY <2>1, <2>2
<1>6. PICK m : m = Len(p)
  OBVIOUS
<1>7. (13 + m) - 13 = m
  BY <1>2, <1>6
<1>8. Len(frm) - Len(FrameBytes(0, 0, <<>>)) = m
  BY <1>2, <1>5, <1>6, <1>7, Zenon
<1> QED
  BY <1>1, <1>4, <1>6, <1>8 DEF Small

\* A refusal is returned with its code and detail, unless it is too large.
LEMMA RefusalReturned ==
    ASSUME NEW c, c.type \in {MsgGetHead, MsgPutBlob}, NEW e \in WireErrors, NEW rep,
           rep = [frame |-> FrameBytes(MsgError, 0, EncodeError(e)), means |-> e], Sized(rep.frame)
    PROVE  ReturnedRight(c, ResultOf(c, rep.frame), rep)
<1>1. PICK p : p = EncodeError(e)
  OBVIOUS
<1>2. rep.frame = FrameBytes(MsgError, 0, p) /\ rep.means = e
  BY <1>1
<1>3. p \in Seq(Bytes) /\ MsgError \in Nat /\ Shifted(MsgError, 2) = 0
  BY <1>1, ErrorAnswer, TypeNumbers
<1>4. Small(p) /\ Len(rep.frame) - Len(FrameBytes(0, 0, <<>>)) = Len(p)
  BY <1>2, <1>3, SmallPayload
<1>5. ParseServerError(p) = e
  BY <1>1, <1>4, ErrorAnswer
<1>6. PICK r : r = ResultOf(c, rep.frame)
  OBVIOUS
<1>7. r = IF ~ (Len(p) <= MaxFrame) THEN [ok |-> FALSE, why |-> "frame"]
          ELSE [ok |-> FALSE, why |-> "server", error |-> e]
  BY <1>2, <1>3, <1>4, <1>5, <1>6, ResultFrom
<1>8. CASE Len(p) <= MaxFrame
  <2>1. r = [ok |-> FALSE, why |-> "server", error |-> e]
    BY <1>7, <1>8
  <2>2. ~r.ok /\ r.why = "server" /\ r.error = e
    BY <2>1
  <2> QED
    BY <1>2, <1>6, <2>2 DEF ReturnedRight
<1>9. CASE ~ (Len(p) <= MaxFrame)
  <2>1. r = [ok |-> FALSE, why |-> "frame"]
    BY <1>7, <1>9
  <2>2. ~r.ok /\ r.why = "frame" /\ Len(p) > MaxFrame
    BY <1>3, <1>9, <2>1, BaseFacts
  <2> QED
    BY <1>4, <1>6, <2>2 DEF ReturnedRight
<1> QED
  BY <1>8, <1>9

\* An answer is returned as the server meant it, unless it is too large.
LEMMA AnswerReturned ==
    ASSUME NEW c \in WireCalls, NEW req, NEW hd, NEW ack, NEW rs, AnswerRead(c.type, req, hd, ack, rs),
           NEW a, a = ReplyTo(c.type, req, hd, ack, rs), NEW rep,
           rep = [frame |-> FrameBytes(c.type, 0, a.payload), means |-> a.means], Sized(rep.frame)
    PROVE  ReturnedRight(c, ResultOf(c, rep.frame), rep)
<1>1. PICK p : p = a.payload
  OBVIOUS
<1>2. rep.frame = FrameBytes(c.type, 0, p) /\ rep.means = a.means
  BY <1>1
<1>3. p \in Seq(Bytes) /\ (Small(p) => Reads(c.type, p, a.means))
  BY <1>1 DEF AnswerRead
<1>4. c.type \in Nat /\ Shifted(c.type, 2) = 0 /\ c.type # MsgError
  BY TypeNumbers, WireAssumption
<1>5. Small(p) /\ Len(rep.frame) - Len(FrameBytes(0, 0, <<>>)) = Len(p)
  BY <1>2, <1>3, <1>4, SmallPayload
<1>6. ParseAnswer(c.type, p).ok = TRUE /\ ParseAnswer(c.type, p).values = a.means
  BY <1>3, <1>5 DEF Reads
<1>7. PICK r : r = ResultOf(c, rep.frame)
  OBVIOUS
<1>8. r = IF ~ (Len(p) <= MaxFrame) THEN [ok |-> FALSE, why |-> "frame"]
          ELSE [ok |-> TRUE, values |-> a.means]
  BY <1>2, <1>3, <1>4, <1>5, <1>6, <1>7, ResultFrom
<1>9. CASE Len(p) <= MaxFrame
  <2>1. r = [ok |-> TRUE, values |-> a.means]
    BY <1>8, <1>9
  <2>2. r.ok /\ r.values = a.means
    BY <2>1
  <2> QED
    BY <1>2, <1>7, <2>2 DEF ReturnedRight
<1>10. CASE ~ (Len(p) <= MaxFrame)
  <2>1. r = [ok |-> FALSE, why |-> "frame"]
    BY <1>8, <1>10
  <2>2. ~r.ok /\ r.why = "frame" /\ Len(p) > MaxFrame
    BY <1>3, <1>10, <2>1, BaseFacts
  <2> QED
    BY <1>5, <1>7, <2>2 DEF ReturnedRight
<1> QED
  BY <1>9, <1>10

\* The invariant says that the two sides agree.
LEMMA WireInvImplies == WireInv => FramesUnderstood
<1> SUFFICES ASSUME WireInv PROVE FramesUnderstood
  OBVIOUS
<1>1. ASSUME asked # Absent
      PROVE  asked \in WireCalls /\ frame = FrameBytes(asked.type, FlagsOf(asked), Request(asked))
  BY <1>1 DEF WireInv, AskedInv
<1>2. ASSUME heard # Absent
      PROVE  asked # Absent /\ heard = Hearing(frame)
  BY <1>2 DEF WireInv, HeardInv
<1>3. ASSUME heard # Absent, Fits(asked)
      PROVE  IF heard.type = 0 THEN Len(Request(asked)) > MaxFrame
             ELSE heard.type = asked.type /\ Understood(asked, heard.req)
  BY <1>1, <1>2, <1>3, HeardRight
<1>4. ASSUME asked # Absent, Fits(asked)
      PROVE  Unbroken(asked)
  BY <1>1, <1>4, RequestsUnderstood
<1>5. ASSUME result # Absent, reply # Absent, ~MetadataOnly, Sized(Request(asked)), Sized(reply.frame)
      PROVE  ReturnedRight(asked, result, reply)
  <2>1. /\ heard # Absent /\ heard.type # 0
        /\ IsAnswer(heard, reply) \/ (IsRefusal(reply) /\ Refusable(heard.type, heard.req))
    BY <1>5 DEF WireInv, HeardInv, ReplyInv
  <2>2. result = ResultOf(asked, reply.frame)
    BY <1>5 DEF WireInv, ResultInv
  <2>3. asked \in WireCalls /\ heard = Hearing(FrameBytes(asked.type, FlagsOf(asked), Request(asked)))
    BY <1>1, <1>2, <2>1
  <2>4. heard.type = asked.type
    <3>1. PICK req : req = ParseRequest(asked.type, FlagsOf(asked), Request(asked))
      OBVIOUS
    <3>2. heard = IF Len(Request(asked)) <= MaxFrame /\ req.ok THEN [type |-> asked.type, req |-> req.values]
                  ELSE [type |-> 0]
      BY <1>5, <2>3, <3>1, HearsCall
    <3>3. CASE Len(Request(asked)) <= MaxFrame /\ req.ok
      BY <3>2, <3>3
    <3>4. CASE ~ (Len(Request(asked)) <= MaxFrame /\ req.ok)
      <4>1. heard = [type |-> 0]
        BY <3>2, <3>4
      <4> QED
        BY <2>1, <4>1
    <3> QED
      BY <3>3, <3>4
  <2>5. asked.type # MsgHello => Understood(asked, heard.req)
    BY <1>3, <1>5, <2>1 DEF Fits
  <2>6. CASE IsAnswer(heard, reply)
    <3>1. PICK hd \in Heads, ack \in Acks, records \in Records :
              LET a == ReplyTo(heard.type, heard.req, hd, ack, records)
              IN  reply = [frame |-> FrameBytes(heard.type, 0, a.payload), means |-> a.means]
      BY <2>6 DEF IsAnswer
    <3>2. PICK a : a = ReplyTo(asked.type, heard.req, hd, ack, records)
      OBVIOUS
    <3>3. reply = [frame |-> FrameBytes(asked.type, 0, a.payload), means |-> a.means]
      BY <2>4, <3>1, <3>2
    <3>4. ~(asked.type = MsgGetLast /\ ~asked.include /\ records # <<>>)
      <4>1. asked.type = MsgGetLast => reply.means = records
        BY <3>2, <3>3, ReplyByType
      <4> QED
        BY <1>5, <4>1 DEF MetadataOnly
    <3>5. AnswerRead(asked.type, heard.req, hd, ack, records)
      BY <2>3, <2>5, <3>4, AnswersRight
    <3> QED
      BY <1>5, <2>2, <2>3, <3>2, <3>3, <3>5, AnswerReturned
  <2>7. CASE IsRefusal(reply) /\ Refusable(heard.type, heard.req)
    <3>2. asked.type \in {MsgGetHead, MsgPutBlob}
      <4>1. asked.type \in MsgTypes
        BY <2>3, WireAssumption
      <4> QED
        BY <2>4, <2>7, <4>1 DEF Refusable
    <3>1. PICK e \in WireErrors : reply = [frame |-> FrameBytes(MsgError, 0, EncodeError(e)), means |-> e]
      BY <2>7 DEF IsRefusal
    <3> QED
      BY <1>5, <2>2, <3>1, <3>2, RefusalReturned
  <2> QED
    BY <2>1, <2>6, <2>7
<1>6. ASSUME result # Absent, reply = Absent
      PROVE  ~result.ok /\ result.why = "connection"
  BY <1>6 DEF WireInv, ReplyInv
<1> QED
  BY <1>3, <1>4, <1>5, <1>6 DEF FramesUnderstood, Understood, Unbroken, ReturnedRight, FlagsOf

\* The two sides of the binary protocol agree on the bytes, for every base, limit
\* and set of calls and answers that the types of the code can hold.
THEOREM TheSidesAgree == WireSpec => []FramesUnderstood
<1>1. WireInit => WireInv
  BY WireInvInit
<1>2. WireInv /\ [WireNext]_wireVars => WireInv'
  BY WireInvNext
<1>3. WireInv => FramesUnderstood
  BY WireInvImplies
<1> QED
  BY <1>1, <1>2, <1>3, PTL DEF WireSpec

===============================================================================

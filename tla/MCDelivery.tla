----------------------------- MODULE MCDelivery -----------------------------
(***************************************************************************)
(* cxtx on small instances: the capture of turns, and their delivery.  A   *)
(* behaviour is one of one of them; Delivery leaves open which turns an    *)
(* exchange adds, Capture when they arrive.                                *)
(***************************************************************************)
EXTENDS Delivery, Capture

CONSTANTS
    Parts,          \* what is run: "capture", "delivery"
    MaxEvents       \* bound: captured turns and failing requests together

VARIABLE part

\* A prompt behind a bootstrap text; then a tool's result or the same request
\* again; then a prompt or a change of mode.
User(parts) == [kind |-> "user", parts |-> parts]
Result == [kind |-> "result", call |-> "1", parts |-> <<<<"d">>, <<"e">>>>]
SmallInputs == <<{User(<<<<BootMark>>, <<"u">>, <<"v">>>>)}, {Result, Nothing},
                 {User(<<<<"w">>>>), [kind |-> "mode"]}>>

\* Text only, text and two calls; a call whose block starts with an input, nothing.
Call(id) == ToolCallRecord(id, "f", <<"x">>)
Answer(texts, calls, start) == [kind |-> "answer", texts |-> texts, calls |-> calls, start |-> start]
Talk == Answer(<<<<"a">>, <<"b">>>>, <<>>, <<>>)
SmallAnswers == <<{Talk, Answer(<<<<"a">>>>, <<Call("1"), Call("2")>>, <<>>)},
                  {Answer(<<>>, <<Call("1")>>, <<"{}">>), Answer(<<>>, <<>>, <<>>)}, {Talk}>>

\* Codex, and Pi, which speaks the formats of both providers; a session of one
\* conversation is among them.
SmallRoutes == {<<"responses", "websocket">>, <<"chat", "anthropic">>}

MCVars == <<vars, captureVars, part>>
MCInit == DeliveryInit /\ CaptureInit /\ part \in Parts /\ (part # "capture" => proto = <<"chat", "anthropic">>)

\* At most MaxEvents of both; what the bound forbids is never owed to fairness.
BoundedNext == DeliveryNext /\ captured' + errors' <= MaxEvents
MCNext ==
    /\ UNCHANGED part
    /\ \/ part = "delivery" /\ BoundedNext /\ UNCHANGED captureVars
       \/ part = "capture" /\ CaptureNext /\ UNCHANGED vars
MCSpec == /\ MCInit /\ [][MCNext]_MCVars
          /\ part = "delivery" => WF_vars(MainStep) /\ WF_vars(WorkerStep) /\ WF_vars(Deadline)
=============================================================================

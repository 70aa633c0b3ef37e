------------------------------- MODULE Follow -------------------------------
(***************************************************************************)
(* Following a context from the Rust client: subscribe_events              *)
(* (clients/rust/src/subscribe.rs) reads the server's SSE stream, connects *)
(* again when it ends and hands the events to follow_turns                 *)
(* (clients/rust/src/follow.rs), which takes every turn_appended event as  *)
(* a hint, asks the server for the head and then for the turns it has not  *)
(* seen, and emits them.                                                   *)
(*                                                                         *)
(* Composed with EventBus: a connection of the subscriber is one of its    *)
(* streams, an event is the turn it announces.  The context is a tree of   *)
(* turns (module TurnStore has the store); an append may name an explicit  *)
(* parent, which moves the head to another branch.  A RequestContext that  *)
(* ends stops both threads between any two of their steps.                 *)
(***************************************************************************)
EXTENDS EventBus, SequencesExt, FiniteSetsExt

CONSTANTS
    MaxTurns,       \* bound: turns appended
    MaxErrors,      \* bound: requests that fail
    EventBuffer,    \* SubscribeOptions.event_buffer
    MaxSeen         \* FollowOptions.max_seen_per_context

ASSUME FollowAssumption ==
    /\ EventBuffer \in Nat \ {0} /\ MaxSeen \in Nat \ {0}
    /\ Events = 1 .. MaxTurns

VARIABLES
    turns,     \* the turns of the context: parent and depth
    head,      \* the head of the context, 0 when empty
    reader,    \* the subscriber's thread: its stream and the events read from it
    hints,     \* the event channel between the two threads
    fol,       \* the follower's thread: where it is, missing, what it fetched
    state,     \* its FollowState
    out,       \* history: the turns emitted
    errors,    \* requests that failed
    raced      \* history: a turn was appended between get_head and get_last

serverVars == <<turns, head>>
followVars == <<reader, hints, fol, state, out, errors, raced>>
followAllVars == <<busVars, serverVars, followVars>>

NoStream == "none"
NewFollowState == [hasLast |-> FALSE, lastDepth |-> 0, seen |-> <<>>]
AtRest == [pc |-> "recv", missing |-> 0, todo |-> <<>>]

FollowInit ==
    /\ BusInit
    /\ turns = <<>> /\ head = 0
    /\ reader = [at |-> NoStream, read |-> 0] /\ hints = <<>>
    /\ fol = AtRest /\ state = NewFollowState
    /\ out = <<>> /\ errors = 0 /\ raced = FALSE

-----------------------------------------------------------------------------
(* The server: append_turn, and the publish of TurnAppended after it.      *)

DepthOf(t) == IF t \in DOMAIN turns THEN turns[t].depth ELSE 0

\* A turn is appended to the head, or to an explicit parent.  The HTTP handler
\* announces it after it released the store's lock, in a step of its own; the
\* turns of one client of the context come in order.
AppendTurn(p) ==
    /\ Len(turns) < MaxTurns
    /\ p = head \/ p \in 1 .. Len(turns)
    /\ turns' = Append(turns, [parent |-> p, depth |-> IF p = 0 THEN 0 ELSE turns[p].depth + 1])
    /\ head' = Len(turns) + 1
    /\ raced' = (raced \/ fol.pc = "last")
    /\ UNCHANGED <<busVars, reader, hints, fol, state, out, errors>>

AnnounceTurn ==
    /\ Len(log) < Len(turns) /\ Publish(Len(log) + 1)
    /\ UNCHANGED <<streamVars, serverVars, followVars>>

\* The path from the first turn to the head.
Chain ==
    LET up[n \in 0 .. Len(turns)] ==
          IF n = 0 THEN <<>> ELSE Append(up[turns[n].parent], n)
    IN up[head]

\* GET_LAST: the last n turns of the chain, oldest first.
LastTurns(n) == LET c == Chain IN SubSeq(c, IF Len(c) > n THEN Len(c) - n + 1 ELSE 1, Len(c))

-----------------------------------------------------------------------------
(* The subscriber's thread.                                                *)

\* subscribe_once: the request is answered and the stream, a new one, begins.
Connect ==
    /\ reader.at = NoStream /\ \E s \in Subscribers : stream[s] = "none"
    /\ LET s == CHOOSE s \in Subscribers : stream[s] = "none" IN
       Subscribe(s) /\ reader' = [at |-> s, read |-> 0]
    /\ UNCHANGED <<serverVars, hints, fol, state, out, errors, raced>>

\* read_event_stream and send_event: an event of the stream enters the channel,
\* when it has room.
ReadEvent ==
    /\ reader.at # NoStream
    /\ reader.read < Len(delivered[reader.at]) /\ Len(hints) < EventBuffer
    /\ reader' = [reader EXCEPT !.read = @ + 1]
    /\ hints' = Append(hints, log[delivered[reader.at][reader.read + 1]])
    /\ UNCHANGED <<busVars, serverVars, fol, state, out, errors, raced>>

\* The stream ends; what was written to it and not read is lost, and an event
\* cut at the end of the stream is emitted as it is (0: it does not decode).
\* subscribe_events then sleeps and connects again.
StreamCut ==
    /\ reader.at # NoStream
    /\ ClientLeaves(reader.at)
    /\ reader' = [at |-> NoStream, read |-> 0]
    /\ \/ UNCHANGED hints
       \/ /\ reader.read < Len(delivered[reader.at]) /\ Len(hints) < EventBuffer
          /\ hints' = Append(hints, 0)
    /\ UNCHANGED <<serverVars, fol, state, out, errors, raced>>

-----------------------------------------------------------------------------
(* The follower's thread.                                                  *)

followerKeeps == <<busVars, serverVars, reader>>

\* follow_turns: an event is received; one that does not decode is reported.
Receive ==
    /\ fol.pc = "recv" /\ hints # <<>>
    /\ hints' = Tail(hints)
    /\ fol' = IF Head(hints) = 0 THEN fol ELSE [fol EXCEPT !.pc = "head"]
    /\ UNCHANGED <<followerKeeps, state, out, errors, raced>>

\* Either request of sync_context fails: the error is reported, and the state
\* stays as it is.
RequestFails ==
    /\ fol.pc \in {"head", "last"} /\ errors < MaxErrors
    /\ errors' = errors + 1 /\ fol' = AtRest
    /\ UNCHANGED <<followerKeeps, hints, state, out, raced>>

\* Mutant: a context of depth 0 is taken for an empty one.
MissingNotFirst(depth) == IF depth > state.lastDepth THEN depth - state.lastDepth ELSE 0

\* The number of turns sync_context asks for.
Missing(depth) ==
    IF state.hasLast /\ state.seen # <<>>
    THEN IF depth > state.lastDepth THEN depth - state.lastDepth ELSE 0
    ELSE depth + 1

\* sync_context, get_head: the depth may have gone back, or nothing be missing.
GetHead ==
    /\ fol.pc = "head"
    /\ LET depth == DepthOf(head)
           n     == Missing(depth)
       IN fol' = IF (state.hasLast /\ depth < state.lastDepth) \/ n = 0 THEN AtRest
                 ELSE [fol EXCEPT !.pc = "last", !.missing = n]
    /\ UNCHANGED <<followerKeeps, hints, state, out, errors, raced>>

\* sync_context, get_last.
GetLast ==
    /\ fol.pc = "last"
    /\ fol' = [pc |-> "emit", missing |-> 0, todo |-> LastTurns(fol.missing)]
    /\ UNCHANGED <<followerKeeps, hints, state, out, errors, raced>>

\* Mutant: the depth kept is that of the turn to come.
RecordTurnAhead(t) ==
    [hasLast |-> TRUE, lastDepth |-> turns[t].depth + 1, seen |-> <<t>>]

\* record_turn: the window of seen turns and the deepest one.
RecordTurn(t) ==
    LET seen   == Append(state.seen, t)
        deeper == ~state.hasLast \/ turns[t].depth >= state.lastDepth
    IN [hasLast   |-> TRUE,
        lastDepth |-> IF deeper THEN turns[t].depth ELSE state.lastDepth,
        seen      |-> IF Len(seen) > MaxSeen THEN Tail(seen) ELSE seen]

\* sync_context, the loop: a turn in the window is skipped, another one is sent
\* and recorded; then the thread waits for the next event.
Emit ==
    /\ fol.pc = "emit"
    /\ IF fol.todo = <<>> THEN fol' = AtRest /\ UNCHANGED <<state, out>>
       ELSE LET t == Head(fol.todo) IN
            /\ fol' = [fol EXCEPT !.todo = Tail(@)]
            /\ IF t \in Range(state.seen) THEN UNCHANGED <<state, out>>
               ELSE state' = RecordTurn(t) /\ out' = Append(out, t)
    /\ UNCHANGED <<followerKeeps, hints, errors, raced>>

-----------------------------------------------------------------------------
Server == (\E p \in 0 .. Len(turns) : AppendTurn(p)) \/ AnnounceTurn
Streams == (\E s \in Subscribers : StreamThread(s)) /\ UNCHANGED <<serverVars, followVars>>
Subscriber == Connect \/ ReadEvent
Follower == Receive \/ GetHead \/ GetLast \/ Emit

FollowNext == Server \/ Streams \/ Subscriber \/ StreamCut \/ Follower \/ RequestFails

\* The threads of the client and of the streams run, and a turn that was
\* stored is announced.
FollowFairness ==
    /\ WF_followAllVars(Subscriber) /\ WF_followAllVars(Follower)
    /\ WF_followAllVars(AnnounceTurn)
    /\ StreamFairness

FollowSpec == FollowInit /\ [][FollowNext]_followAllVars /\ FollowFairness

-----------------------------------------------------------------------------
(* Correctness.                                                            *)

\* An append named a parent that was not the head.
Branched == \E t \in DOMAIN turns : turns[t].parent # t - 1

\* However often the stream is cut, hints repeat and requests fail, a turn is
\* emitted again only after max_seen others, the depths emitted increase unless
\* the head moved to another branch between get_head and get_last, and a turn
\* is skipped only when the head moved between the two or to another branch.
EmittedInOrder ==
    /\ \A i, j \in DOMAIN out : i < j /\ out[i] = out[j] => j - i > MaxSeen
    /\ (~raced \/ ~Branched) =>
          \A i, j \in DOMAIN out : i < j => DepthOf(out[i]) < DepthOf(out[j])
    /\ (~raced /\ ~Branched) =>
          \A i \in DOMAIN out : turns[out[i]].parent = IF i = 1 THEN 0 ELSE out[i - 1]

\* A turn whose event a stream's channel accepted is emitted, or a deeper one,
\* unless the stream was cut, a request failed or the head went to another
\* branch: no hand-over on the way loses the hint for good.
HintsFollowed ==
    \A t \in 1 .. MaxTurns :
        (reader.at # NoStream /\ t \in {log[n] : n \in Range(queue[reader.at])}) ~>
            \/ \E i \in DOMAIN out : DepthOf(out[i]) >= DepthOf(t)
            \/ errors > 0 \/ Branched \/ reader.at = NoStream
=============================================================================

------------------------------ MODULE Sessions ------------------------------
(***************************************************************************)
(* The server's front end: the accept loop and the handler threads of the  *)
(* binary protocol (server/src/main.rs), the HTTP request thread's writes  *)
(* (server/src/http/mod.rs), the session tracker (server/src/metrics.rs)   *)
(* and the events they publish on the bus (EventBus, which this module     *)
(* composes with the front end).                                           *)
(*                                                                         *)
(* A client is a slot for one TCP connection at a time; every connection   *)
(* gets its own thread and a fresh session id.  The store is reduced to    *)
(* its id counters (TurnStore models it) and to the write lock around it.  *)
(* A handler step ends where another thread can see a difference: at a     *)
(* lock taken or released, a tracker map changed, an event published.      *)
(***************************************************************************)
EXTENDS EventBus, Integers, FiniteSets

CONSTANTS
    Clients,             \* connection slots
    MaxConnections,      \* CXDB_MAX_CONNECTIONS, 0 for no limit
    OldContexts,         \* contexts the store has when the server starts
    NamedContexts,       \* context ids an append may name
    MaxSessions,         \* bound: connections ever accepted
    MaxFrames,           \* bound: frames ever read
    MaxHttp              \* bound: HTTP requests that write

ASSUME SessionsBounds ==
    /\ MaxConnections \in Nat /\ OldContexts \in Nat /\ MaxSessions \in Nat
    /\ MaxFrames \in Nat /\ MaxHttp \in Nat
    /\ NamedContexts \subseteq Nat

Nobody == "nobody"

\* No connection slot is called that.
ASSUME ClientsAssumption == Nobody \notin Clients

VARIABLES
    acceptor,        \* the client the accept loop has let in, or Nobody
    active,          \* active_connections
    pc,              \* client -> where its handler thread is
    sid,             \* client -> session_id of its connection
    hello,           \* client -> client_tag_received
    ctx,             \* client -> the context of its request
    turn,            \* client -> the turn of its request, 0 if none
    orphaned,        \* client -> orphaned_contexts of its closing connection
    sessions,        \* SessionTracker.sessions: session -> contexts_created
    contextSession,  \* SessionTracker.context_to_session: context -> session
    writer,          \* the holder of the store's write lock
    nextSession, nextContext, nextTurn,
    http,            \* what the HTTP thread has yet to publish
    frames, httpRequests,   \* frames and HTTP requests so far
    creator,         \* history: context -> session that created it, 0 if none did
    stray,           \* history: turns appended to contexts that did not exist
    ended            \* history: session -> "clean" | "io" | "refused"

requestVars == <<ctx, turn, orphaned>>
connVars    == <<acceptor, active, pc, sid, hello, requestVars>>
trackerVars == <<sessions, contextSession>>
storeVars   == <<writer, nextContext, nextTurn, creator, stray>>
httpVars    == <<http, httpRequests>>
frontVars   == <<connVars, trackerVars, storeVars, httpVars, nextSession, frames, ended>>
vars        == <<frontVars, busVars>>

NoMap == [k \in {} |-> 0]

Put(map, key, val) ==
    [k \in DOMAIN map \cup {key} |-> IF k = key THEN val ELSE map[k]]
Drop(map, keys) == [k \in DOMAIN map \ keys |-> map[k]]

\* The StoreEvents; ids and tags only as far as the properties need them.
Connected(i)        == [kind |-> "ClientConnected", session |-> i]
Disconnected(i, xs) == [kind |-> "ClientDisconnected", session |-> i, contexts |-> xs]
Created(i, x)       == [kind |-> "ContextCreated", session |-> i, context |-> x]
Appended(i, x, t)   == [kind |-> "TurnAppended", session |-> i, context |-> x, turn |-> t]
Described(x)        == [kind |-> "ContextMetadataUpdated", context |-> x]
Linked(x)           == [kind |-> "ContextLinked", context |-> x]
Failed              == [kind |-> "ErrorOccurred"]

SessionsInit ==
    /\ BusInit
    /\ acceptor = Nobody /\ active = 0
    /\ pc    = [c \in Clients |-> "none"]
    /\ sid   = [c \in Clients |-> 0]
    /\ hello = [c \in Clients |-> FALSE]
    /\ ctx   = [c \in Clients |-> 0]
    /\ turn  = [c \in Clients |-> 0]
    /\ orphaned = [c \in Clients |-> {}]
    /\ sessions = NoMap /\ contextSession = NoMap
    /\ writer = Nobody
    /\ nextSession = 1 /\ nextContext = OldContexts + 1 /\ nextTurn = 1
    /\ http = <<>> /\ frames = 0 /\ httpRequests = 0
    /\ creator = [x \in 1 .. OldContexts |-> 0] /\ stray = {} /\ ended = NoMap

-----------------------------------------------------------------------------
(* The accept loop.                                                        *)

\* Connections accepted so far.
Accepted == nextSession - 1 + Cardinality({c \in Clients : pc[c] = "start"})

\* The limit is compared with the counter as it is now; above it the
\* connection is dropped, which changes nothing.
Accept(c) ==
    /\ acceptor = Nobody /\ pc[c] = "none" /\ Accepted < MaxSessions
    /\ MaxConnections = 0 \/ active < MaxConnections
    /\ acceptor' = c
    /\ UNCHANGED <<active, pc, sid, hello, requestVars, trackerVars, storeVars, httpVars,
                   nextSession, frames, ended, busVars>>

\* Setting up the socket failed: the loop continues, the counter untouched.
AcceptFails ==
    /\ acceptor # Nobody
    /\ acceptor' = Nobody
    /\ UNCHANGED <<active, pc, sid, hello, requestVars, trackerVars, storeVars, httpVars,
                   nextSession, frames, ended, busVars>>

\* The counter goes up and the thread is spawned.
Spawn ==
    /\ acceptor # Nobody
    /\ acceptor' = Nobody
    /\ active' = active + 1
    /\ pc' = [pc EXCEPT ![acceptor] = "start"]
    /\ UNCHANGED <<sid, hello, requestVars, trackerVars, storeVars, httpVars,
                   nextSession, frames, ended, busVars>>

-----------------------------------------------------------------------------
(* handle_client.                                                          *)

\* The thread of c moves on; nothing else of the connection changes.
Goto(c, label) ==
    /\ pc' = [pc EXCEPT ![c] = label]
    /\ UNCHANGED <<acceptor, active, sid, hello>>

\* Metrics::register_session hands out the session id.
Start(c) ==
    /\ pc[c] = "start"
    /\ pc' = [pc EXCEPT ![c] = "read"]
    /\ sid' = [sid EXCEPT ![c] = nextSession]
    /\ hello' = [hello EXCEPT ![c] = FALSE]
    /\ nextSession' = nextSession + 1
    /\ UNCHANGED <<acceptor, active, requestVars, trackerVars, storeVars, httpVars,
                   frames, ended, busVars>>

\* A frame arrives.
ReadFrame(c) ==
    /\ pc[c] = "read" /\ frames < MaxFrames
    /\ frames' = frames + 1

\* SessionTracker::register, once per connection.
Register(c) ==
    /\ hello' = [hello EXCEPT ![c] = TRUE]
    /\ sessions' = IF hello[c] THEN sessions ELSE Put(sessions, sid[c], {})

\* HELLO: register and announce, the first time.
HelloFrame(c) ==
    /\ ReadFrame(c)
    /\ Register(c)
    /\ pc' = [pc EXCEPT ![c] = IF hello[c] THEN "reply" ELSE "announce"]
    /\ UNCHANGED <<acceptor, active, sid, requestVars, contextSession, storeVars, httpVars,
                   nextSession, ended, busVars>>

Announce(c) ==
    /\ pc[c] = "announce"
    /\ Publish(Connected(sid[c]))
    /\ Goto(c, "reply")
    /\ UNCHANGED <<requestVars, trackerVars, storeVars, httpVars, nextSession, frames, ended, streamVars>>

\* CTX_CREATE and CTX_FORK register a client that sent no HELLO, with an
\* empty tag and without announcing it.
CreateFrame(c) ==
    /\ ReadFrame(c)
    /\ Register(c)
    /\ pc' = [pc EXCEPT ![c] = "create"]
    /\ UNCHANGED <<acceptor, active, sid, requestVars, contextSession, storeVars, httpVars,
                   nextSession, ended, busVars>>

\* The write lock is taken, the context created.
CreateLocked(c) ==
    /\ pc[c] = "create" /\ writer = Nobody
    /\ writer' = c
    /\ ctx' = [ctx EXCEPT ![c] = nextContext]
    /\ creator' = Put(creator, nextContext, sid[c])
    /\ nextContext' = nextContext + 1
    /\ Goto(c, "map")
    /\ UNCHANGED <<turn, orphaned, trackerVars, nextTurn, stray, httpVars, nextSession, frames, ended, busVars>>

\* SessionTracker::add_context takes its two locks one after the other.
MapContext(c) ==
    /\ pc[c] = "map"
    /\ contextSession' = Put(contextSession, ctx[c], sid[c])
    /\ Goto(c, "own")
    /\ UNCHANGED <<requestVars, sessions, storeVars, httpVars, nextSession, frames, ended, busVars>>

OwnContext(c) ==
    /\ pc[c] = "own"
    /\ sessions' = IF sid[c] \in DOMAIN sessions
                   THEN [sessions EXCEPT ![sid[c]] = @ \cup {ctx[c]}] ELSE sessions
    /\ Goto(c, "created")
    /\ UNCHANGED <<requestVars, contextSession, storeVars, httpVars, nextSession, frames, ended, busVars>>

\* The lock is released after ContextCreated is on the bus.
PublishCreated(c) ==
    /\ pc[c] = "created"
    /\ Publish(Created(sid[c], ctx[c]))
    /\ writer' = Nobody
    /\ Goto(c, "reply")
    /\ UNCHANGED <<requestVars, trackerVars, nextContext, nextTurn, creator, stray, httpVars,
                   nextSession, frames, ended, streamVars>>

\* APPEND_TURN names any context id.
AppendFrame(c, x) ==
    /\ ReadFrame(c)
    /\ ctx' = [ctx EXCEPT ![c] = x]
    /\ Goto(c, "append")
    /\ UNCHANGED <<turn, orphaned, trackerVars, storeVars, httpVars, nextSession, ended, busVars>>

\* TurnStore::append_turn looks up the head of a context only if the request
\* names no parent: with any turn of the store as its parent, the turn goes to a
\* context that was never created.
StoreAppends(x) ==
    /\ x \in DOMAIN creator \/ OldContexts > 0 \/ nextTurn > 1
    /\ nextTurn' = nextTurn + 1
    /\ stray' = IF x \in DOMAIN creator THEN stray ELSE stray \cup {nextTurn}

\* Mutant: the lock is released as soon as the turn is stored.
AppendUnlocked(c) ==
    /\ pc[c] = "append" /\ writer = Nobody
    /\ StoreAppends(ctx[c])
    /\ turn' = [turn EXCEPT ![c] = nextTurn]
    /\ Goto(c, "appended")
    /\ UNCHANGED <<ctx, orphaned, trackerVars, writer, nextContext, creator, httpVars, nextSession,
                   frames, ended, busVars>>

AppendLocked(c) ==
    /\ pc[c] = "append" /\ writer = Nobody
    /\ writer' = c
    /\ StoreAppends(ctx[c])
    /\ turn' = [turn EXCEPT ![c] = nextTurn]
    /\ Goto(c, "appended")
    /\ UNCHANGED <<ctx, orphaned, trackerVars, nextContext, creator, httpVars, nextSession, frames, ended, busVars>>

\* Still under the lock: TurnAppended, and for a context's first metadata
\* ContextMetadataUpdated and, if it names a parent context, ContextLinked.
PublishAppended(c, more) ==
    /\ pc[c] = "appended"
    /\ Publish(Appended(sid[c], ctx[c], turn[c]))
    /\ writer' = IF more THEN c ELSE Nobody
    /\ Goto(c, IF more THEN "describe" ELSE "reply")
    /\ UNCHANGED <<requestVars, trackerVars, nextContext, nextTurn, creator, stray, httpVars,
                   nextSession, frames, ended, streamVars>>

PublishMetadata(c, more) ==
    /\ pc[c] = "describe"
    /\ Publish(Described(ctx[c]))
    /\ writer' = IF more THEN c ELSE Nobody
    /\ Goto(c, IF more THEN "link" ELSE "reply")
    /\ UNCHANGED <<requestVars, trackerVars, nextContext, nextTurn, creator, stray, httpVars,
                   nextSession, frames, ended, streamVars>>

PublishLinked(c) ==
    /\ pc[c] = "link"
    /\ Publish(Linked(ctx[c]))
    /\ writer' = Nobody
    /\ Goto(c, "reply")
    /\ UNCHANGED <<requestVars, trackerVars, nextContext, nextTurn, creator, stray, httpVars,
                   nextSession, frames, ended, streamVars>>

\* The other requests take the lock and release it without a trace here; the
\* store's answer is sent, or its error is (GET_HEAD, GET_BLOB, a PUT_BLOB
\* with the wrong hash, an unknown type).
OtherFrame(c, label) ==
    /\ ReadFrame(c) /\ writer = Nobody
    /\ label \in {"reply", "error"}
    /\ Goto(c, label)
    /\ UNCHANGED <<requestVars, trackerVars, storeVars, httpVars, nextSession, ended, busVars>>

AnswerError(c) ==
    /\ pc[c] = "error"
    /\ Publish(Failed)
    /\ Goto(c, "reply")
    /\ UNCHANGED <<requestVars, trackerVars, storeVars, httpVars, nextSession, frames, ended, streamVars>>

Reply(c) ==
    /\ pc[c] = "reply"
    /\ turn' = [turn EXCEPT ![c] = 0]
    /\ ctx' = [ctx EXCEPT ![c] = 0]
    /\ Goto(c, "read")
    /\ UNCHANGED <<orphaned, trackerVars, storeVars, httpVars, nextSession, frames, ended, busVars>>

\* The handler returns with an error, through a ?: the lock is released, the
\* tracker keeps what it has and nothing is published.
Fail(c, why) ==
    /\ writer' = IF writer = c THEN Nobody ELSE writer
    /\ ended' = Put(ended, sid[c], why)
    /\ ctx' = [ctx EXCEPT ![c] = 0] /\ turn' = [turn EXCEPT ![c] = 0]
    /\ Goto(c, "exit")
    /\ UNCHANGED <<orphaned, trackerVars, nextContext, nextTurn, creator, stray, httpVars,
                   nextSession, frames, busVars>>

\* A read or a write of the socket fails, or a frame cannot be parsed.
SocketFails(c) == pc[c] \in {"read", "reply"} /\ Fail(c, "io")

\* The store refuses a create, an append or, once the turn is stored, the
\* snapshot that came with it; GET_LAST and ATTACH_FS fail the same way.
StoreRefuses(c) == pc[c] \in {"create", "append", "appended", "read"} /\ Fail(c, "refused")

\* End of file or the read timeout: the loop is left.
Close(c) ==
    /\ pc[c] = "read"
    /\ Goto(c, "unregister")
    /\ UNCHANGED <<requestVars, trackerVars, storeVars, httpVars, nextSession, frames, ended, busVars>>

\* Mutant: nothing is announced for a client that was never registered.
UnregisterQuiet(c) ==
    /\ pc[c] = "unregister"
    /\ sessions' = Drop(sessions, {sid[c]})
    /\ orphaned' = [orphaned EXCEPT ![c] =
                      IF sid[c] \in DOMAIN sessions THEN sessions[sid[c]] ELSE {}]
    /\ Goto(c, IF sid[c] \in DOMAIN sessions THEN "unmap" ELSE "exit")
    /\ UNCHANGED <<ctx, turn, contextSession, storeVars, httpVars, nextSession, frames, ended, busVars>>

\* SessionTracker::unregister takes its two locks one after the other; what
\* the session owned is kept for the event.
UnregisterSession(c) ==
    /\ pc[c] = "unregister"
    /\ sessions' = Drop(sessions, {sid[c]})
    /\ orphaned' = [orphaned EXCEPT ![c] =
                      IF sid[c] \in DOMAIN sessions THEN sessions[sid[c]] ELSE {}]
    /\ Goto(c, "unmap")
    /\ UNCHANGED <<ctx, turn, contextSession, storeVars, httpVars, nextSession, frames, ended, busVars>>

\* Mutant: the contexts stay mapped.
UnmapNothing(c) ==
    /\ pc[c] = "unmap"
    /\ Goto(c, "bye")
    /\ UNCHANGED <<requestVars, trackerVars, storeVars, httpVars, nextSession, frames, ended, busVars>>

UnmapContexts(c) ==
    /\ pc[c] = "unmap"
    /\ contextSession' = Drop(contextSession, orphaned[c])
    /\ Goto(c, "bye")
    /\ UNCHANGED <<requestVars, sessions, storeVars, httpVars, nextSession, frames, ended, busVars>>

\* Mutant: the event is built from a tracker that has already forgotten.
ByeEmpty(c) ==
    /\ pc[c] = "bye"
    /\ Publish(Disconnected(sid[c], {}))
    /\ ended' = Put(ended, sid[c], "clean")
    /\ orphaned' = [orphaned EXCEPT ![c] = {}]
    /\ Goto(c, "exit")
    /\ UNCHANGED <<ctx, turn, trackerVars, storeVars, httpVars, nextSession, frames, streamVars>>

Bye(c) ==
    /\ pc[c] = "bye"
    /\ Publish(Disconnected(sid[c], orphaned[c]))
    /\ ended' = Put(ended, sid[c], "clean")
    /\ orphaned' = [orphaned EXCEPT ![c] = {}]
    /\ Goto(c, "exit")
    /\ UNCHANGED <<ctx, turn, trackerVars, storeVars, httpVars, nextSession, frames, streamVars>>

\* ConnectionCounterGuard is dropped with the thread.
Exit(c) ==
    /\ pc[c] = "exit"
    /\ active' = active - 1
    /\ pc' = [pc EXCEPT ![c] = "none"]
    /\ UNCHANGED <<acceptor, sid, hello, requestVars, trackerVars, storeVars, httpVars,
                   nextSession, frames, ended, busVars>>
-----------------------------------------------------------------------------
(* The HTTP thread: one request at a time, and the write lock is released   *)
(* before the event is published.                                          *)

HttpRequest ==
    /\ http = <<>> /\ httpRequests < MaxHttp
    /\ httpRequests' = httpRequests + 1

\* POST /v1/contexts, /create and /fork.
HttpCreate ==
    /\ HttpRequest /\ writer = Nobody
    /\ http' = <<Created(0, nextContext)>>
    /\ creator' = Put(creator, nextContext, 0)
    /\ nextContext' = nextContext + 1
    /\ UNCHANGED <<connVars, trackerVars, writer, nextTurn, stray, nextSession, frames, ended, busVars>>

\* POST /v1/contexts/:id/append: one, two or three events.
HttpAppend(x, n) ==
    /\ HttpRequest /\ writer = Nobody
    /\ StoreAppends(x)
    /\ http' = SubSeq(<<Appended(0, x, nextTurn), Described(x), Linked(x)>>, 1, n)
    /\ UNCHANGED <<connVars, trackerVars, writer, nextContext, creator, nextSession, frames,
                   ended, busVars>>

\* A request that fails is answered and announced.
HttpFails ==
    /\ HttpRequest
    /\ http' = <<Failed>>
    /\ UNCHANGED <<connVars, trackerVars, storeVars, nextSession, frames, ended, busVars>>

HttpPublish ==
    /\ http # <<>>
    /\ Publish(Head(http))
    /\ http' = Tail(http)
    /\ UNCHANGED <<connVars, trackerVars, storeVars, httpRequests, nextSession, frames, ended,
                   streamVars>>

-----------------------------------------------------------------------------
\* What a handler does on its own, once a frame was read or the loop left.
HandlerStep(c) ==
    \/ Start(c) \/ Announce(c)
    \/ CreateLocked(c) \/ MapContext(c) \/ OwnContext(c) \/ PublishCreated(c)
    \/ AppendLocked(c) \/ PublishLinked(c)
    \/ \E more \in BOOLEAN : PublishAppended(c, more) \/ PublishMetadata(c, more)
    \/ AnswerError(c) \/ Reply(c)
    \/ UnregisterSession(c) \/ UnmapContexts(c) \/ Bye(c) \/ Exit(c)

\* What the client or the store decides.
ClientStep(c) ==
    \/ HelloFrame(c) \/ CreateFrame(c)
    \/ \E x \in NamedContexts : AppendFrame(c, x)
    \/ \E label \in {"reply", "error"} : OtherFrame(c, label)
    \/ SocketFails(c) \/ StoreRefuses(c) \/ Close(c)

HttpStep ==
    \/ HttpCreate \/ HttpFails \/ HttpPublish
    \/ \E x \in NamedContexts, n \in 1 .. 3 : HttpAppend(x, n)

SessionsNext ==
    \/ \E c \in Clients : Accept(c) \/ HandlerStep(c) \/ ClientStep(c)
    \/ AcceptFails \/ Spawn
    \/ HttpStep
    \/ \E s \in Subscribers : StreamNext(s) /\ UNCHANGED frontVars

\* Handler threads run; a write to a client that does not read ends with the
\* write timeout, so Reply or SocketFails is taken too.
SessionsFairness ==
    \A c \in Clients : WF_vars(HandlerStep(c) \/ (pc[c] = "reply" /\ SocketFails(c)))

SessionsSpec == SessionsInit /\ [][SessionsNext]_vars /\ SessionsFairness /\ StreamFairness

-----------------------------------------------------------------------------
(* Correctness.                                                            *)

Running(c) == pc[c] # "none"
SessionIds == 1 .. MaxSessions
Contexts   == DOMAIN creator

\* The two maps of the tracker agree, except while their session's own handler
\* is between the two locks of add_context or of unregister; and a session
\* without a running handler is still registered only if its connection ended
\* with an error.
TrackerAgrees ==
    /\ \A x \in DOMAIN contextSession :
          \/ /\ contextSession[x] \in DOMAIN sessions
             /\ x \in sessions[contextSession[x]]
          \/ \E c \in Clients : sid[c] = contextSession[x] /\ pc[c] \in {"own", "unmap"}
    /\ \A i \in DOMAIN sessions : \A x \in sessions[i] :
          x \in DOMAIN contextSession /\ contextSession[x] = i
    /\ \A i \in DOMAIN sessions :
          \/ \E c \in Clients : Running(c) /\ sid[c] = i
          \/ i \in DOMAIN ended /\ ended[i] # "clean"

Of(kind) == {n \in DOMAIN log : log[n].kind = kind}

\* What a reader of the events can rely on, across all connections: a context
\* created over the binary protocol is announced before every turn that is
\* appended to it once it exists, whoever appends it (a turn may be appended to
\* a context before it is created, and is then announced before it); turns
\* appended over that protocol are announced in the order of their ids; and
\* none is acknowledged before it is announced.
TurnEventsOrdered ==
    /\ \A n \in Of("TurnAppended") :
          log[n].turn \notin stray /\ creator[log[n].context] # 0 =>
              \E m \in Of("ContextCreated") : m < n /\ log[m].context = log[n].context
    /\ \A m, n \in Of("TurnAppended") :
          m < n /\ log[m].session # 0 /\ log[n].session # 0 => log[m].turn < log[n].turn
    /\ \A c \in Clients :
          pc[c] = "reply" /\ turn[c] # 0 =>
              \E n \in Of("TurnAppended") : log[n].turn = turn[c]

\* ClientDisconnected names every context the session created, none of them is
\* tracked any more, and it is the session's last event.
DisconnectComplete ==
    \A n \in Of("ClientDisconnected") :
        LET i == log[n].session IN
        /\ log[n].contexts = {x \in Contexts : creator[x] = i}
        /\ i \notin DOMAIN sessions
        /\ \A x \in log[n].contexts : x \notin DOMAIN contextSession
        /\ \A m \in (n + 1) .. Len(log) :
              "session" \in DOMAIN log[m] => log[m].session # i

\* A connection that is closed is announced, and the store's write lock, which
\* is held while events are published, is always given back.
CloseAnnounced ==
    /\ \A i \in SessionIds :
          (\E c \in Clients : pc[c] = "unregister" /\ sid[c] = i)
              ~> (\E n \in Of("ClientDisconnected") : log[n].session = i)
    /\ \A c \in Clients : (writer = c) ~> (writer # c)
=============================================================================

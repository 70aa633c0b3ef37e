--------------------------- MODULE SessionsProofs ---------------------------
(***************************************************************************)
(* Proofs about the server's front end, for any number of clients, any     *)
(* connection limit and any number of requests: the two maps of the        *)
(* session tracker agree, a reader of the events can rely on their order,  *)
(* and a disconnect event names all that its session created.              *)
(***************************************************************************)
EXTENDS Sessions, TLAPS

Labels == {"none", "start", "read", "announce", "reply", "create", "map", "own", "created",
           "append", "appended", "describe", "link", "error", "unregister", "unmap", "bye", "exit"}

\* Everything the front end publishes.
FrontEvents ==
    [kind : {"ClientConnected"}, session : Nat]
    \cup [kind : {"ClientDisconnected"}, session : Nat, contexts : SUBSET Nat]
    \cup [kind : {"ContextCreated"}, session : Nat, context : Nat]
    \cup [kind : {"TurnAppended"}, session : Nat, context : Nat, turn : Nat]
    \cup [kind : {"ContextMetadataUpdated", "ContextLinked"}, context : Nat]
    \cup [kind : {"ErrorOccurred"}]

\* The shape of the front end's state.
FrontTypeOK ==
    /\ acceptor \in Clients \cup {Nobody} /\ writer \in Clients \cup {Nobody}
    /\ pc \in [Clients -> Labels]
    /\ sid \in [Clients -> Nat] /\ hello \in [Clients -> BOOLEAN]
    /\ ctx \in [Clients -> Nat] /\ turn \in [Clients -> Nat]
    /\ orphaned \in [Clients -> SUBSET Nat]
    /\ nextSession \in Nat \ {0} /\ nextContext \in Nat \ {0} /\ nextTurn \in Nat \ {0}
    /\ DOMAIN creator = 1 .. nextContext - 1
    /\ \A x \in Contexts : creator[x] \in 0 .. nextSession - 1
    /\ \A i \in DOMAIN sessions : sessions[i] \subseteq Nat
    /\ DOMAIN sessions \subseteq 1 .. nextSession - 1
    /\ DOMAIN ended \subseteq 1 .. nextSession - 1
LogTypeOK == log \in Seq(FrontEvents) /\ http \in Seq(FrontEvents)

-----------------------------------------------------------------------------
(* The inductive invariant, in parts.                                      *)

InSession(c) == pc[c] \notin {"none", "start"}
Open(c)      == pc[c] \notin {"none", "start", "unmap", "bye", "exit"}
Holding      == {"map", "own", "created", "appended", "describe", "link"}
Creating     == {"map", "own", "created"}

\* The slot the accept loop is about to fill is free.
SlotInv == acceptor # Nobody => pc[acceptor] = "none"

\* The write lock belongs to the handler that is in its section.
LockInv == \A c \in Clients : writer = c <=> pc[c] \in Holding

\* A running handler has an id that was handed out.
LiveIds == \A c \in Clients : InSession(c) => sid[c] \in 1 .. nextSession - 1

\* Every session id handed out is that of one running handler, until it ended.
IdsInv ==
    /\ LiveIds
    /\ \A c, d \in Clients : InSession(c) /\ InSession(d) /\ sid[c] = sid[d] => c = d
    /\ \A c \in Clients : InSession(c) => (sid[c] \in DOMAIN ended <=> pc[c] = "exit")
    /\ \A i \in 1 .. nextSession - 1 :
          i \in DOMAIN ended \/ \E c \in Clients : InSession(c) /\ sid[c] = i

\* Who is registered, and where the contexts of a session are.
RegisteredInv ==
    /\ \A c \in Clients : Open(c) => (hello[c] <=> sid[c] \in DOMAIN sessions)
    /\ \A c \in Clients : pc[c] \in {"unmap", "bye"} => sid[c] \notin DOMAIN sessions
    /\ \A c \in Clients : pc[c] \in {"announce", "create"} \cup Creating => hello[c]
    /\ \A i \in DOMAIN sessions : i \in DOMAIN ended => ended[i] # "clean"

\* The context a handler is creating is its session's, and is mapped after map.
CreatingInv ==
    \A c \in Clients :
        /\ pc[c] \in Creating => ctx[c] \in Contexts /\ creator[ctx[c]] = sid[c]
        /\ pc[c] = "map" => ctx[c] \notin DOMAIN contextSession
        /\ pc[c] = "own" => ctx[c] \in DOMAIN contextSession

\* The maps speak of contexts, and of the sessions that created them.
MappedInv ==
    /\ \A x \in DOMAIN contextSession :
          x \in Contexts /\ contextSession[x] = creator[x] /\ creator[x] # 0
    /\ \A i \in DOMAIN sessions : \A x \in sessions[i] :
          x \in Contexts /\ creator[x] = i /\ x \in DOMAIN contextSession

\* A registered session owns all it created, but for the one it is creating.
Pending(x) == \E c \in Clients : pc[c] \in {"map", "own"} /\ ctx[c] = x
OwnedInv ==
    \A x \in Contexts :
        creator[x] \in DOMAIN sessions => x \in sessions[creator[x]] \/ Pending(x)

\* A context is its registered session's, or is being forgotten, or is forgotten.
Forgotten(x) ==
    /\ x \notin DOMAIN contextSession
    /\ creator[x] \in DOMAIN ended /\ ended[creator[x]] = "clean"
Forgetting(x, c) ==
    /\ sid[c] = creator[x]
    /\ pc[c] = "unmap" \/ (pc[c] = "bye" /\ x \notin DOMAIN contextSession)
TracedInv ==
    \A x \in Contexts :
        creator[x] # 0 => \/ creator[x] \in DOMAIN sessions
                          \/ Forgotten(x)
                          \/ \E c \in Clients : Forgetting(x, c)

\* What a closing handler has kept for its event is all its session created.
OrphanedInv ==
    \A c \in Clients :
        pc[c] \in {"unmap", "bye"} => orphaned[c] = {x \in Contexts : creator[x] = sid[c]}

\* What has been announced.
Announced(x) == \E m \in Of("ContextCreated") : log[m].context = x

\* The HTTP thread publishes for no session.
HttpInv ==
    \A k \in DOMAIN http :
        /\ http[k].kind \notin {"ClientConnected", "ClientDisconnected"}
        /\ "session" \in DOMAIN http[k] => http[k].session = 0
        /\ http[k].kind = "TurnAppended" =>
              \/ http[k].turn \in stray
              \/ /\ http[k].context \in Contexts
                 /\ creator[http[k].context] # 0 => Announced(http[k].context)

\* A context is announced before its creator gives the lock back, and so before
\* anyone else can append to it.
BeingCreated(x) == \E c \in Clients : pc[c] \in Creating /\ ctx[c] = x
AnnouncedInv ==
    /\ \A x \in Contexts : creator[x] # 0 => Announced(x) \/ BeingCreated(x)
    /\ \A c \in Clients : pc[c] = "appended" => turn[c] \in stray \/ ctx[c] \in Contexts
AppendedInv ==
    \A n \in Of("TurnAppended") :
        \/ log[n].turn \in stray
        \/ /\ log[n].context \in Contexts
           /\ creator[log[n].context] # 0 =>
                 \E m \in Of("ContextCreated") : m < n /\ log[m].context = log[n].context

\* Turn ids grow along the log; the one that waits for its event is above them.
TurnsInv ==
    /\ \A n \in Of("TurnAppended") : log[n].session # 0 => log[n].turn < nextTurn
    /\ \A m, n \in Of("TurnAppended") :
          m < n /\ log[m].session # 0 /\ log[n].session # 0 => log[m].turn < log[n].turn
    /\ \A c \in Clients : pc[c] = "appended" =>
          /\ turn[c] < nextTurn
          /\ \A n \in Of("TurnAppended") : log[n].session # 0 => log[n].turn < turn[c]

\* A turn is answered once it is announced.
AnsweredInv ==
    \A c \in Clients :
        turn[c] # 0 => \/ pc[c] = "appended"
                       \/ /\ pc[c] \in {"describe", "link", "reply"}
                          /\ \E n \in Of("TurnAppended") : log[n].turn = turn[c]

\* A disconnect event is about a session that has ended, and the last of it.
GoneInv ==
    \A n \in Of("ClientDisconnected") :
        LET i == log[n].session IN
        /\ i \in DOMAIN ended /\ ended[i] = "clean"
        /\ log[n].contexts = {x \in Contexts : creator[x] = i}
        /\ \A m \in (n + 1) .. Len(log) :
              "session" \in DOMAIN log[m] => log[m].session # i

SessionsInv ==
    /\ FrontTypeOK /\ LogTypeOK /\ SlotInv /\ LockInv /\ IdsInv /\ RegisteredInv
    /\ CreatingInv /\ MappedInv /\ OwnedInv /\ TracedInv /\ OrphanedInv
    /\ HttpInv /\ AnnouncedInv /\ AppendedInv /\ TurnsInv /\ AnsweredInv /\ GoneInv
-----------------------------------------------------------------------------
(* Facts the proofs share.                                                 *)

\* A stream publishes nothing.
LEMMA StreamKeepsLog == \A s \in Subscribers : StreamNext(s) => UNCHANGED log
  BY DEF StreamNext, StreamThread, Subscribe, StreamConnected, Take, Write, WriteFails,
     ClientLeaves

\* The events the front end builds are among FrontEvents, with these fields.
LEMMA EventFields ==
    /\ \A i \in Nat : Connected(i) \in FrontEvents
    /\ \A i \in Nat, xs \in SUBSET Nat : Disconnected(i, xs) \in FrontEvents
    /\ \A i, x \in Nat : Created(i, x) \in FrontEvents
    /\ \A i, x, t \in Nat : Appended(i, x, t) \in FrontEvents
    /\ \A x \in Nat : Described(x) \in FrontEvents /\ Linked(x) \in FrontEvents
    /\ Failed \in FrontEvents
  BY DEF FrontEvents, Connected, Disconnected, Created, Appended, Described, Linked, Failed

\* What publish() does to the log.
LEMMA PublishLog ==
    ASSUME NEW e \in FrontEvents, log \in Seq(FrontEvents), Publish(e)
    PROVE  /\ log' = Append(log, e) /\ log' \in Seq(FrontEvents)
           /\ Len(log) \in Nat /\ Len(log') = Len(log) + 1
           /\ DOMAIN log = 1 .. Len(log) /\ DOMAIN log' = 1 .. (Len(log) + 1)
           /\ \A n \in DOMAIN log : log'[n] = log[n]
           /\ log'[Len(log) + 1] = e
  BY DEF Publish

-----------------------------------------------------------------------------
(* The shape of the state.                                                 *)

\* The first state of the front end is well shaped.
LEMMA FrontTypeInit == SessionsInit => FrontTypeOK
  BY SessionsBounds DEF SessionsInit, FrontTypeOK, NoMap, Labels, Contexts

\* Every step keeps the shape of the front end's threads and locks.
LEMMA FrontTypeStep ==
    ASSUME FrontTypeOK, LiveIds, [SessionsNext]_vars
    PROVE  FrontTypeOK'
<1> USE ClientsAssumption DEF connVars, requestVars, trackerVars, storeVars, httpVars, busVars
<1>1. ASSUME NEW c \in Clients, Accept(c) PROVE FrontTypeOK'
  BY <1>1 DEF Accept, FrontTypeOK, Labels, Contexts, LiveIds, InSession
<1>2. ASSUME AcceptFails PROVE FrontTypeOK'
  BY <1>2 DEF AcceptFails, FrontTypeOK, Labels, Contexts, LiveIds, InSession
<1>3. ASSUME Spawn PROVE FrontTypeOK'
  BY <1>3 DEF Spawn, FrontTypeOK, Labels, Contexts, LiveIds, InSession
<1>4. ASSUME NEW c \in Clients, Start(c) PROVE FrontTypeOK'
  BY <1>4 DEF Start, FrontTypeOK, Labels, Contexts, LiveIds, InSession
<1>5. ASSUME NEW c \in Clients, HelloFrame(c) PROVE FrontTypeOK'
  BY <1>5 DEF HelloFrame, ReadFrame, Register, Put, FrontTypeOK, Labels, Contexts, LiveIds,
     InSession
<1>6. ASSUME NEW c \in Clients, Announce(c) PROVE FrontTypeOK'
  BY <1>6 DEF Announce, Goto, FrontTypeOK, Labels, Contexts, LiveIds, InSession
<1>7. ASSUME NEW c \in Clients, CreateFrame(c) PROVE FrontTypeOK'
  BY <1>7 DEF CreateFrame, ReadFrame, Register, Put, FrontTypeOK, Labels, Contexts, LiveIds,
     InSession
<1>8. ASSUME NEW c \in Clients, CreateLocked(c) PROVE FrontTypeOK'
  <2>3. sid[c] \in 1 .. nextSession - 1
    BY <1>8 DEF CreateLocked, LiveIds, InSession
  <2>4. sid[c] \in 0 .. nextSession - 1
    BY <2>3 DEF FrontTypeOK
  <2>1. /\ nextContext' = nextContext + 1
        /\ nextContext \in Nat \ {0} /\ UNCHANGED nextSession
        /\ DOMAIN creator = 1 .. nextContext - 1
        /\ \A x \in DOMAIN creator : creator[x] \in 0 .. nextSession - 1
    BY <1>8 DEF CreateLocked, Goto, Put, FrontTypeOK, Contexts
  <2>2. /\ DOMAIN creator' = 1 .. nextContext' - 1
        /\ \A x \in DOMAIN creator' : creator'[x] \in 0 .. nextSession' - 1
    BY <1>8, <2>4, <2>1 DEF Put, Goto, CreateLocked
  <2> QED
    BY <1>8, <2>1, <2>2 DEF CreateLocked, Goto, FrontTypeOK, Labels, Contexts
<1>9. ASSUME NEW c \in Clients, MapContext(c) PROVE FrontTypeOK'
  BY <1>9 DEF MapContext, Goto, Put, FrontTypeOK, Labels, Contexts, LiveIds, InSession
<1>10. ASSUME NEW c \in Clients, OwnContext(c) PROVE FrontTypeOK'
  BY <1>10 DEF OwnContext, Goto, FrontTypeOK, Labels, Contexts, LiveIds, InSession
<1>11. ASSUME NEW c \in Clients, PublishCreated(c) PROVE FrontTypeOK'
  BY <1>11 DEF PublishCreated, Goto, FrontTypeOK, Labels, Contexts, LiveIds, InSession
<1>12. ASSUME NEW c \in Clients, NEW x \in NamedContexts, AppendFrame(c, x) PROVE FrontTypeOK'
  <2>1. x \in Nat
    BY <1>12, SessionsBounds
  <2> QED
    BY <1>12, <2>1 DEF AppendFrame, ReadFrame, Goto, FrontTypeOK, Labels, Contexts
<1>13. ASSUME NEW c \in Clients, AppendLocked(c) PROVE FrontTypeOK'
  BY <1>13 DEF AppendLocked, StoreAppends, Goto, FrontTypeOK, Labels, Contexts, LiveIds, InSession
<1>14. ASSUME NEW c \in Clients, NEW more \in BOOLEAN, PublishAppended(c, more) PROVE FrontTypeOK'
  BY <1>14 DEF PublishAppended, Goto, FrontTypeOK, Labels, Contexts, LiveIds, InSession
<1>15. ASSUME NEW c \in Clients, NEW more \in BOOLEAN, PublishMetadata(c, more) PROVE FrontTypeOK'
  BY <1>15 DEF PublishMetadata, Goto, FrontTypeOK, Labels, Contexts, LiveIds, InSession
<1>16. ASSUME NEW c \in Clients, PublishLinked(c) PROVE FrontTypeOK'
  BY <1>16 DEF PublishLinked, Goto, FrontTypeOK, Labels, Contexts, LiveIds, InSession
<1>17. ASSUME NEW c \in Clients, NEW label \in {"reply", "error"}, OtherFrame(c, label) PROVE FrontTypeOK'
  BY <1>17 DEF OtherFrame, ReadFrame, Goto, FrontTypeOK, Labels, Contexts, LiveIds, InSession
<1>18. ASSUME NEW c \in Clients, AnswerError(c) PROVE FrontTypeOK'
  BY <1>18 DEF AnswerError, Goto, FrontTypeOK, Labels, Contexts, LiveIds, InSession
<1>19. ASSUME NEW c \in Clients, Reply(c) PROVE FrontTypeOK'
  BY <1>19 DEF Reply, Goto, FrontTypeOK, Labels, Contexts, LiveIds, InSession
<1>20. ASSUME NEW c \in Clients, SocketFails(c) PROVE FrontTypeOK'
  BY <1>20 DEF SocketFails, Fail, Put, Goto, FrontTypeOK, Labels, Contexts, LiveIds, InSession
<1>21. ASSUME NEW c \in Clients, StoreRefuses(c) PROVE FrontTypeOK'
  BY <1>21 DEF StoreRefuses, Fail, Put, Goto, FrontTypeOK, Labels, Contexts, LiveIds, InSession
<1>22. ASSUME NEW c \in Clients, Close(c) PROVE FrontTypeOK'
  BY <1>22 DEF Close, Goto, FrontTypeOK, Labels, Contexts, LiveIds, InSession
<1>23. ASSUME NEW c \in Clients, UnregisterSession(c) PROVE FrontTypeOK'
  BY <1>23 DEF UnregisterSession, Drop, Goto, FrontTypeOK, Labels, Contexts, LiveIds, InSession
<1>24. ASSUME NEW c \in Clients, UnmapContexts(c) PROVE FrontTypeOK'
  BY <1>24 DEF UnmapContexts, Drop, Goto, FrontTypeOK, Labels, Contexts, LiveIds, InSession
<1>25. ASSUME NEW c \in Clients, Bye(c) PROVE FrontTypeOK'
  BY <1>25 DEF Bye, Put, Goto, FrontTypeOK, Labels, Contexts, LiveIds, InSession
<1>26. ASSUME NEW c \in Clients, Exit(c) PROVE FrontTypeOK'
  BY <1>26 DEF Exit, FrontTypeOK, Labels, Contexts, LiveIds, InSession
<1>27. ASSUME HttpCreate PROVE FrontTypeOK'
  BY <1>27 DEF HttpCreate, HttpRequest, Put, FrontTypeOK, Labels, Contexts, LiveIds, InSession
<1>28. ASSUME NEW x \in NamedContexts, NEW n \in 1 .. 3, HttpAppend(x, n) PROVE FrontTypeOK'
  BY <1>28, SMTT(30) DEF HttpAppend, StoreAppends, HttpRequest, FrontTypeOK, Labels, Contexts, LiveIds, InSession
<1>29. ASSUME HttpFails PROVE FrontTypeOK'
  BY <1>29 DEF HttpFails, HttpRequest, FrontTypeOK, Labels, Contexts, LiveIds, InSession
<1>30. ASSUME HttpPublish PROVE FrontTypeOK'
  BY <1>30 DEF HttpPublish, FrontTypeOK, Labels, Contexts, LiveIds, InSession
<1>31. CASE UNCHANGED <<frontVars, log>>
  BY <1>31 DEF frontVars, FrontTypeOK, Labels, Contexts, LiveIds, InSession
<1> QED
  BY StreamKeepsLog, <1>1, <1>2, <1>3, <1>4, <1>5, <1>6, <1>7, <1>8, <1>9, <1>10, <1>11, <1>12,
     <1>13, <1>14, <1>15, <1>16, <1>17, <1>18, <1>19, <1>20, <1>21, <1>22, <1>23, <1>24, <1>25,
     <1>26, <1>27, <1>28, <1>29, <1>30, <1>31
  DEF SessionsNext, HandlerStep, ClientStep, HttpStep, Contexts, vars, busVars

\* The bus and the HTTP thread hold events of the front end.
LEMMA LogTypeStep ==
    ASSUME FrontTypeOK, LogTypeOK, [SessionsNext]_vars
    PROVE  LogTypeOK'
<1> USE ClientsAssumption DEF connVars, requestVars, trackerVars, storeVars, httpVars, busVars
<1>1. ASSUME NEW c \in Clients, Accept(c) PROVE LogTypeOK'
  BY <1>1 DEF Accept, LogTypeOK
<1>2. ASSUME AcceptFails PROVE LogTypeOK'
  BY <1>2 DEF AcceptFails, LogTypeOK
<1>3. ASSUME Spawn PROVE LogTypeOK'
  BY <1>3 DEF Spawn, LogTypeOK
<1>4. ASSUME NEW c \in Clients, Start(c) PROVE LogTypeOK'
  BY <1>4 DEF Start, LogTypeOK
<1>5. ASSUME NEW c \in Clients, HelloFrame(c) PROVE LogTypeOK'
  BY <1>5 DEF HelloFrame, ReadFrame, Register, Put, LogTypeOK
<1>6. ASSUME NEW c \in Clients, Announce(c) PROVE LogTypeOK'
  <2>1. Connected(sid[c]) \in FrontEvents /\ Publish(Connected(sid[c]))
    BY <1>6, EventFields DEF Announce, FrontTypeOK
  <2>2. log' \in Seq(FrontEvents)
    BY <2>1, PublishLog DEF LogTypeOK
  <2> QED
    BY <1>6, <2>2 DEF Announce, LogTypeOK
<1>7. ASSUME NEW c \in Clients, CreateFrame(c) PROVE LogTypeOK'
  BY <1>7 DEF CreateFrame, ReadFrame, Register, Put, LogTypeOK
<1>8. ASSUME NEW c \in Clients, CreateLocked(c) PROVE LogTypeOK'
  BY <1>8 DEF CreateLocked, Goto, Put, LogTypeOK
<1>9. ASSUME NEW c \in Clients, MapContext(c) PROVE LogTypeOK'
  BY <1>9 DEF MapContext, Goto, Put, LogTypeOK
<1>10. ASSUME NEW c \in Clients, OwnContext(c) PROVE LogTypeOK'
  BY <1>10 DEF OwnContext, Goto, LogTypeOK
<1>11. ASSUME NEW c \in Clients, PublishCreated(c) PROVE LogTypeOK'
  <2>1. Created(sid[c], ctx[c]) \in FrontEvents /\ Publish(Created(sid[c], ctx[c]))
    BY <1>11, EventFields DEF PublishCreated, FrontTypeOK
  <2>2. log' \in Seq(FrontEvents)
    BY <2>1, PublishLog DEF LogTypeOK
  <2> QED
    BY <1>11, <2>2 DEF PublishCreated, LogTypeOK
<1>12. ASSUME NEW c \in Clients, NEW x \in NamedContexts, AppendFrame(c, x) PROVE LogTypeOK'
  BY <1>12 DEF AppendFrame, ReadFrame, Goto, LogTypeOK
<1>13. ASSUME NEW c \in Clients, AppendLocked(c) PROVE LogTypeOK'
  BY <1>13 DEF AppendLocked, StoreAppends, Goto, LogTypeOK
<1>14. ASSUME NEW c \in Clients, NEW more \in BOOLEAN, PublishAppended(c, more) PROVE LogTypeOK'
  <2>1. Appended(sid[c], ctx[c], turn[c]) \in FrontEvents /\ Publish(Appended(sid[c], ctx[c], turn[c]))
    BY <1>14, EventFields DEF PublishAppended, FrontTypeOK
  <2>2. log' \in Seq(FrontEvents)
    BY <2>1, PublishLog DEF LogTypeOK
  <2> QED
    BY <1>14, <2>2 DEF PublishAppended, LogTypeOK
<1>15. ASSUME NEW c \in Clients, NEW more \in BOOLEAN, PublishMetadata(c, more) PROVE LogTypeOK'
  <2>1. Described(ctx[c]) \in FrontEvents /\ Publish(Described(ctx[c]))
    BY <1>15, EventFields DEF PublishMetadata, FrontTypeOK
  <2>2. log' \in Seq(FrontEvents)
    BY <2>1, PublishLog DEF LogTypeOK
  <2> QED
    BY <1>15, <2>2 DEF PublishMetadata, LogTypeOK
<1>16. ASSUME NEW c \in Clients, PublishLinked(c) PROVE LogTypeOK'
  <2>1. Linked(ctx[c]) \in FrontEvents /\ Publish(Linked(ctx[c]))
    BY <1>16, EventFields DEF PublishLinked, FrontTypeOK
  <2>2. log' \in Seq(FrontEvents)
    BY <2>1, PublishLog DEF LogTypeOK
  <2> QED
    BY <1>16, <2>2 DEF PublishLinked, LogTypeOK
<1>17. ASSUME NEW c \in Clients, NEW label \in {"reply", "error"}, OtherFrame(c, label) PROVE LogTypeOK'
  BY <1>17 DEF OtherFrame, ReadFrame, Goto, LogTypeOK
<1>18. ASSUME NEW c \in Clients, AnswerError(c) PROVE LogTypeOK'
  <2>1. Failed \in FrontEvents /\ Publish(Failed)
    BY <1>18, EventFields DEF AnswerError, FrontTypeOK
  <2>2. log' \in Seq(FrontEvents)
    BY <2>1, PublishLog DEF LogTypeOK
  <2> QED
    BY <1>18, <2>2 DEF AnswerError, LogTypeOK
<1>19. ASSUME NEW c \in Clients, Reply(c) PROVE LogTypeOK'
  BY <1>19 DEF Reply, Goto, LogTypeOK
<1>20. ASSUME NEW c \in Clients, SocketFails(c) PROVE LogTypeOK'
  BY <1>20 DEF SocketFails, Fail, Put, Goto, LogTypeOK
<1>21. ASSUME NEW c \in Clients, StoreRefuses(c) PROVE LogTypeOK'
  BY <1>21 DEF StoreRefuses, Fail, Put, Goto, LogTypeOK
<1>22. ASSUME NEW c \in Clients, Close(c) PROVE LogTypeOK'
  BY <1>22 DEF Close, Goto, LogTypeOK
<1>23. ASSUME NEW c \in Clients, UnregisterSession(c) PROVE LogTypeOK'
  BY <1>23 DEF UnregisterSession, Drop, Goto, LogTypeOK
<1>24. ASSUME NEW c \in Clients, UnmapContexts(c) PROVE LogTypeOK'
  BY <1>24 DEF UnmapContexts, Drop, Goto, LogTypeOK
<1>25. ASSUME NEW c \in Clients, Bye(c) PROVE LogTypeOK'
  <2>1. Disconnected(sid[c], orphaned[c]) \in FrontEvents /\ Publish(Disconnected(sid[c], orphaned[c]))
    BY <1>25, EventFields DEF Bye, FrontTypeOK
  <2>2. log' \in Seq(FrontEvents)
    BY <2>1, PublishLog DEF LogTypeOK
  <2> QED
    BY <1>25, <2>2 DEF Bye, LogTypeOK
<1>26. ASSUME NEW c \in Clients, Exit(c) PROVE LogTypeOK'
  BY <1>26 DEF Exit, LogTypeOK
<1>27. ASSUME HttpCreate PROVE LogTypeOK'
  <2>1. Created(0, nextContext) \in FrontEvents
    BY EventFields DEF FrontTypeOK
  <2> QED
    BY <1>27, <2>1 DEF HttpCreate, HttpRequest, LogTypeOK
<1>28. ASSUME NEW x \in NamedContexts, NEW n \in 1 .. 3, HttpAppend(x, n) PROVE LogTypeOK'
  <2>1. /\ Appended(0, x, nextTurn) \in FrontEvents
        /\ Described(x) \in FrontEvents /\ Linked(x) \in FrontEvents
    BY EventFields, SessionsBounds DEF FrontTypeOK
  <2>2. <<Appended(0, x, nextTurn), Described(x), Linked(x)>> \in Seq(FrontEvents)
    BY <2>1
  <2> QED
    BY <1>28, <2>2 DEF HttpAppend, StoreAppends, HttpRequest, LogTypeOK
<1>29. ASSUME HttpFails PROVE LogTypeOK'
  BY <1>29, EventFields DEF HttpFails, HttpRequest, LogTypeOK
<1>30. ASSUME HttpPublish PROVE LogTypeOK'
  <2>1. Head(http) \in FrontEvents /\ Publish(Head(http)) /\ Tail(http) \in Seq(FrontEvents)
    BY <1>30 DEF HttpPublish, LogTypeOK
  <2>2. log' \in Seq(FrontEvents)
    BY <2>1, PublishLog DEF LogTypeOK
  <2> QED
    BY <1>30, <2>1, <2>2 DEF HttpPublish, LogTypeOK
<1>31. CASE UNCHANGED <<frontVars, log>>
  BY <1>31 DEF frontVars, LogTypeOK
<1> QED
  BY StreamKeepsLog, <1>1, <1>2, <1>3, <1>4, <1>5, <1>6, <1>7, <1>8, <1>9, <1>10, <1>11, <1>12,
     <1>13, <1>14, <1>15, <1>16, <1>17, <1>18, <1>19, <1>20, <1>21, <1>22, <1>23, <1>24, <1>25,
     <1>26, <1>27, <1>28, <1>29, <1>30, <1>31
  DEF SessionsNext, HandlerStep, ClientStep, HttpStep, Contexts, vars, busVars

-----------------------------------------------------------------------------
(* The write lock and the session ids.                                     *)

\* A slot is taken by the accept loop only.
LEMMA SlotStep ==
    ASSUME FrontTypeOK, SlotInv, [SessionsNext]_vars
    PROVE  SlotInv'
<1> USE ClientsAssumption DEF connVars, requestVars, trackerVars, storeVars, httpVars, busVars
<1>1. ASSUME NEW c \in Clients, Accept(c) PROVE SlotInv'
  BY <1>1 DEF Accept, SlotInv, FrontTypeOK
<1>2. ASSUME AcceptFails PROVE SlotInv'
  BY <1>2 DEF AcceptFails, SlotInv, FrontTypeOK
<1>3. ASSUME Spawn PROVE SlotInv'
  BY <1>3 DEF Spawn, SlotInv, FrontTypeOK
<1>4. ASSUME NEW c \in Clients, Start(c) PROVE SlotInv'
  BY <1>4 DEF Start, SlotInv, FrontTypeOK
<1>5. ASSUME NEW c \in Clients, HelloFrame(c) PROVE SlotInv'
  BY <1>5 DEF HelloFrame, ReadFrame, Register, Put, SlotInv, FrontTypeOK
<1>6. ASSUME NEW c \in Clients, Announce(c) PROVE SlotInv'
  BY <1>6 DEF Announce, Goto, SlotInv, FrontTypeOK
<1>7. ASSUME NEW c \in Clients, CreateFrame(c) PROVE SlotInv'
  BY <1>7 DEF CreateFrame, ReadFrame, Register, Put, SlotInv, FrontTypeOK
<1>8. ASSUME NEW c \in Clients, CreateLocked(c) PROVE SlotInv'
  BY <1>8 DEF CreateLocked, Goto, Put, SlotInv, FrontTypeOK
<1>9. ASSUME NEW c \in Clients, MapContext(c) PROVE SlotInv'
  BY <1>9 DEF MapContext, Goto, Put, SlotInv, FrontTypeOK
<1>10. ASSUME NEW c \in Clients, OwnContext(c) PROVE SlotInv'
  BY <1>10 DEF OwnContext, Goto, SlotInv, FrontTypeOK
<1>11. ASSUME NEW c \in Clients, PublishCreated(c) PROVE SlotInv'
  BY <1>11 DEF PublishCreated, Goto, SlotInv, FrontTypeOK
<1>12. ASSUME NEW c \in Clients, NEW x \in NamedContexts, AppendFrame(c, x) PROVE SlotInv'
  BY <1>12 DEF AppendFrame, ReadFrame, Goto, SlotInv, FrontTypeOK
<1>13. ASSUME NEW c \in Clients, AppendLocked(c) PROVE SlotInv'
  BY <1>13 DEF AppendLocked, StoreAppends, Goto, SlotInv, FrontTypeOK
<1>14. ASSUME NEW c \in Clients, NEW more \in BOOLEAN, PublishAppended(c, more) PROVE SlotInv'
  BY <1>14 DEF PublishAppended, Goto, SlotInv, FrontTypeOK
<1>15. ASSUME NEW c \in Clients, NEW more \in BOOLEAN, PublishMetadata(c, more) PROVE SlotInv'
  BY <1>15 DEF PublishMetadata, Goto, SlotInv, FrontTypeOK
<1>16. ASSUME NEW c \in Clients, PublishLinked(c) PROVE SlotInv'
  BY <1>16 DEF PublishLinked, Goto, SlotInv, FrontTypeOK
<1>17. ASSUME NEW c \in Clients, NEW label \in {"reply", "error"}, OtherFrame(c, label) PROVE SlotInv'
  BY <1>17 DEF OtherFrame, ReadFrame, Goto, SlotInv, FrontTypeOK
<1>18. ASSUME NEW c \in Clients, AnswerError(c) PROVE SlotInv'
  BY <1>18 DEF AnswerError, Goto, SlotInv, FrontTypeOK
<1>19. ASSUME NEW c \in Clients, Reply(c) PROVE SlotInv'
  BY <1>19 DEF Reply, Goto, SlotInv, FrontTypeOK
<1>20. ASSUME NEW c \in Clients, SocketFails(c) PROVE SlotInv'
  BY <1>20 DEF SocketFails, Fail, Put, Goto, SlotInv, FrontTypeOK
<1>21. ASSUME NEW c \in Clients, StoreRefuses(c) PROVE SlotInv'
  BY <1>21 DEF StoreRefuses, Fail, Put, Goto, SlotInv, FrontTypeOK
<1>22. ASSUME NEW c \in Clients, Close(c) PROVE SlotInv'
  BY <1>22 DEF Close, Goto, SlotInv, FrontTypeOK
<1>23. ASSUME NEW c \in Clients, UnregisterSession(c) PROVE SlotInv'
  BY <1>23 DEF UnregisterSession, Drop, Goto, SlotInv, FrontTypeOK
<1>24. ASSUME NEW c \in Clients, UnmapContexts(c) PROVE SlotInv'
  BY <1>24 DEF UnmapContexts, Drop, Goto, SlotInv, FrontTypeOK
<1>25. ASSUME NEW c \in Clients, Bye(c) PROVE SlotInv'
  BY <1>25 DEF Bye, Put, Goto, SlotInv, FrontTypeOK
<1>26. ASSUME NEW c \in Clients, Exit(c) PROVE SlotInv'
  BY <1>26 DEF Exit, SlotInv, FrontTypeOK
<1>27. ASSUME HttpCreate PROVE SlotInv'
  BY <1>27 DEF HttpCreate, HttpRequest, Put, SlotInv, FrontTypeOK
<1>28. ASSUME NEW x \in NamedContexts, NEW n \in 1 .. 3, HttpAppend(x, n) PROVE SlotInv'
  BY <1>28 DEF HttpAppend, StoreAppends, HttpRequest, SlotInv, FrontTypeOK
<1>29. ASSUME HttpFails PROVE SlotInv'
  BY <1>29 DEF HttpFails, HttpRequest, SlotInv, FrontTypeOK
<1>30. ASSUME HttpPublish PROVE SlotInv'
  BY <1>30 DEF HttpPublish, SlotInv, FrontTypeOK
<1>31. CASE UNCHANGED <<frontVars, log>>
  BY <1>31 DEF frontVars, SlotInv, FrontTypeOK
<1> QED
  BY StreamKeepsLog, <1>1, <1>2, <1>3, <1>4, <1>5, <1>6, <1>7, <1>8, <1>9, <1>10, <1>11, <1>12,
     <1>13, <1>14, <1>15, <1>16, <1>17, <1>18, <1>19, <1>20, <1>21, <1>22, <1>23, <1>24, <1>25,
     <1>26, <1>27, <1>28, <1>29, <1>30, <1>31
  DEF SessionsNext, HandlerStep, ClientStep, HttpStep, Contexts, vars, busVars

\* A handler takes the lock when it enters its section and gives it back when
\* it leaves it, by whatever way.
LEMMA LockStep ==
    ASSUME FrontTypeOK, SlotInv, LockInv, [SessionsNext]_vars
    PROVE  LockInv'
<1> USE ClientsAssumption DEF connVars, requestVars, trackerVars, storeVars, httpVars, busVars
<1>1. ASSUME NEW c \in Clients, Accept(c) PROVE LockInv'
  BY <1>1 DEF Accept, LockInv, FrontTypeOK, Holding
<1>2. ASSUME AcceptFails PROVE LockInv'
  BY <1>2 DEF AcceptFails, LockInv, FrontTypeOK, Holding
<1>3. ASSUME Spawn PROVE LockInv'
  BY <1>3 DEF Spawn, SlotInv, LockInv, FrontTypeOK, Holding
<1>4. ASSUME NEW c \in Clients, Start(c) PROVE LockInv'
  BY <1>4 DEF Start, LockInv, FrontTypeOK, Holding
<1>5. ASSUME NEW c \in Clients, HelloFrame(c) PROVE LockInv'
  BY <1>5 DEF HelloFrame, ReadFrame, Register, Put, LockInv, FrontTypeOK, Holding
<1>6. ASSUME NEW c \in Clients, Announce(c) PROVE LockInv'
  BY <1>6 DEF Announce, Goto, LockInv, FrontTypeOK, Holding
<1>7. ASSUME NEW c \in Clients, CreateFrame(c) PROVE LockInv'
  BY <1>7 DEF CreateFrame, ReadFrame, Register, Put, LockInv, FrontTypeOK, Holding
<1>8. ASSUME NEW c \in Clients, CreateLocked(c) PROVE LockInv'
  BY <1>8 DEF CreateLocked, Goto, Put, LockInv, FrontTypeOK, Holding
<1>9. ASSUME NEW c \in Clients, MapContext(c) PROVE LockInv'
  BY <1>9 DEF MapContext, Goto, Put, LockInv, FrontTypeOK, Holding
<1>10. ASSUME NEW c \in Clients, OwnContext(c) PROVE LockInv'
  BY <1>10 DEF OwnContext, Goto, LockInv, FrontTypeOK, Holding
<1>11. ASSUME NEW c \in Clients, PublishCreated(c) PROVE LockInv'
  BY <1>11 DEF PublishCreated, Goto, LockInv, FrontTypeOK, Holding
<1>12. ASSUME NEW c \in Clients, NEW x \in NamedContexts, AppendFrame(c, x) PROVE LockInv'
  BY <1>12 DEF AppendFrame, ReadFrame, Goto, LockInv, FrontTypeOK, Holding
<1>13. ASSUME NEW c \in Clients, AppendLocked(c) PROVE LockInv'
  BY <1>13 DEF AppendLocked, StoreAppends, Goto, LockInv, FrontTypeOK, Holding
<1>14. ASSUME NEW c \in Clients, NEW more \in BOOLEAN, PublishAppended(c, more) PROVE LockInv'
  BY <1>14 DEF PublishAppended, Goto, LockInv, FrontTypeOK, Holding
<1>15. ASSUME NEW c \in Clients, NEW more \in BOOLEAN, PublishMetadata(c, more) PROVE LockInv'
  BY <1>15 DEF PublishMetadata, Goto, LockInv, FrontTypeOK, Holding
<1>16. ASSUME NEW c \in Clients, PublishLinked(c) PROVE LockInv'
  BY <1>16 DEF PublishLinked, Goto, LockInv, FrontTypeOK, Holding
<1>17. ASSUME NEW c \in Clients, NEW label \in {"reply", "error"}, OtherFrame(c, label) PROVE LockInv'
  BY <1>17 DEF OtherFrame, ReadFrame, Goto, LockInv, FrontTypeOK, Holding
<1>18. ASSUME NEW c \in Clients, AnswerError(c) PROVE LockInv'
  BY <1>18 DEF AnswerError, Goto, LockInv, FrontTypeOK, Holding
<1>19. ASSUME NEW c \in Clients, Reply(c) PROVE LockInv'
  BY <1>19 DEF Reply, Goto, LockInv, FrontTypeOK, Holding
<1>20. ASSUME NEW c \in Clients, SocketFails(c) PROVE LockInv'
  BY <1>20 DEF SocketFails, Fail, Put, Goto, LockInv, FrontTypeOK, Holding
<1>21. ASSUME NEW c \in Clients, StoreRefuses(c) PROVE LockInv'
  BY <1>21 DEF StoreRefuses, Fail, Put, Goto, LockInv, FrontTypeOK, Holding
<1>22. ASSUME NEW c \in Clients, Close(c) PROVE LockInv'
  BY <1>22 DEF Close, Goto, LockInv, FrontTypeOK, Holding
<1>23. ASSUME NEW c \in Clients, UnregisterSession(c) PROVE LockInv'
  BY <1>23 DEF UnregisterSession, Drop, Goto, LockInv, FrontTypeOK, Holding
<1>24. ASSUME NEW c \in Clients, UnmapContexts(c) PROVE LockInv'
  BY <1>24 DEF UnmapContexts, Drop, Goto, LockInv, FrontTypeOK, Holding
<1>25. ASSUME NEW c \in Clients, Bye(c) PROVE LockInv'
  BY <1>25 DEF Bye, Put, Goto, LockInv, FrontTypeOK, Holding
<1>26. ASSUME NEW c \in Clients, Exit(c) PROVE LockInv'
  BY <1>26 DEF Exit, LockInv, FrontTypeOK, Holding
<1>27. ASSUME HttpCreate PROVE LockInv'
  BY <1>27 DEF HttpCreate, HttpRequest, Put, LockInv, FrontTypeOK, Holding
<1>28. ASSUME NEW x \in NamedContexts, NEW n \in 1 .. 3, HttpAppend(x, n) PROVE LockInv'
  BY <1>28 DEF HttpAppend, StoreAppends, HttpRequest, LockInv, FrontTypeOK, Holding
<1>29. ASSUME HttpFails PROVE LockInv'
  BY <1>29 DEF HttpFails, HttpRequest, LockInv, FrontTypeOK, Holding
<1>30. ASSUME HttpPublish PROVE LockInv'
  BY <1>30 DEF HttpPublish, LockInv, FrontTypeOK, Holding
<1>31. CASE UNCHANGED <<frontVars, log>>
  BY <1>31 DEF frontVars, LockInv, FrontTypeOK, Holding
<1> QED
  BY StreamKeepsLog, <1>1, <1>2, <1>3, <1>4, <1>5, <1>6, <1>7, <1>8, <1>9, <1>10, <1>11, <1>12,
     <1>13, <1>14, <1>15, <1>16, <1>17, <1>18, <1>19, <1>20, <1>21, <1>22, <1>23, <1>24, <1>25,
     <1>26, <1>27, <1>28, <1>29, <1>30, <1>31
  DEF SessionsNext, HandlerStep, ClientStep, HttpStep, Contexts, vars, busVars

\* An id is handed out once, and ends with its handler.
LEMMA IdsStep ==
    ASSUME FrontTypeOK, SlotInv, IdsInv, [SessionsNext]_vars
    PROVE  IdsInv'
<1> USE ClientsAssumption DEF connVars, requestVars, trackerVars, storeVars, httpVars, busVars
<1>1. ASSUME NEW c \in Clients, Accept(c) PROVE IdsInv'
  BY <1>1 DEF Accept, IdsInv, LiveIds, InSession, FrontTypeOK
<1>2. ASSUME AcceptFails PROVE IdsInv'
  BY <1>2 DEF AcceptFails, IdsInv, LiveIds, InSession, FrontTypeOK
<1>3. ASSUME Spawn PROVE IdsInv'
  BY <1>3 DEF Spawn, SlotInv, IdsInv, LiveIds, InSession, FrontTypeOK
<1>4. ASSUME NEW c \in Clients, Start(c) PROVE IdsInv'
  BY <1>4 DEF Start, IdsInv, LiveIds, InSession, FrontTypeOK
<1>5. ASSUME NEW c \in Clients, HelloFrame(c) PROVE IdsInv'
  BY <1>5 DEF HelloFrame, ReadFrame, Register, Put, IdsInv, LiveIds, InSession, FrontTypeOK
<1>6. ASSUME NEW c \in Clients, Announce(c) PROVE IdsInv'
  BY <1>6 DEF Announce, Goto, IdsInv, LiveIds, InSession, FrontTypeOK
<1>7. ASSUME NEW c \in Clients, CreateFrame(c) PROVE IdsInv'
  BY <1>7 DEF CreateFrame, ReadFrame, Register, Put, IdsInv, LiveIds, InSession, FrontTypeOK
<1>8. ASSUME NEW c \in Clients, CreateLocked(c) PROVE IdsInv'
  BY <1>8 DEF CreateLocked, Goto, Put, IdsInv, LiveIds, InSession, FrontTypeOK
<1>9. ASSUME NEW c \in Clients, MapContext(c) PROVE IdsInv'
  BY <1>9 DEF MapContext, Goto, Put, IdsInv, LiveIds, InSession, FrontTypeOK
<1>10. ASSUME NEW c \in Clients, OwnContext(c) PROVE IdsInv'
  BY <1>10 DEF OwnContext, Goto, IdsInv, LiveIds, InSession, FrontTypeOK
<1>11. ASSUME NEW c \in Clients, PublishCreated(c) PROVE IdsInv'
  BY <1>11 DEF PublishCreated, Goto, IdsInv, LiveIds, InSession, FrontTypeOK
<1>12. ASSUME NEW c \in Clients, NEW x \in NamedContexts, AppendFrame(c, x) PROVE IdsInv'
  BY <1>12 DEF AppendFrame, ReadFrame, Goto, IdsInv, LiveIds, InSession, FrontTypeOK
<1>13. ASSUME NEW c \in Clients, AppendLocked(c) PROVE IdsInv'
  BY <1>13 DEF AppendLocked, StoreAppends, Goto, IdsInv, LiveIds, InSession, FrontTypeOK
<1>14. ASSUME NEW c \in Clients, NEW more \in BOOLEAN, PublishAppended(c, more) PROVE IdsInv'
  BY <1>14 DEF PublishAppended, Goto, IdsInv, LiveIds, InSession, FrontTypeOK
<1>15. ASSUME NEW c \in Clients, NEW more \in BOOLEAN, PublishMetadata(c, more) PROVE IdsInv'
  BY <1>15 DEF PublishMetadata, Goto, IdsInv, LiveIds, InSession, FrontTypeOK
<1>16. ASSUME NEW c \in Clients, PublishLinked(c) PROVE IdsInv'
  BY <1>16 DEF PublishLinked, Goto, IdsInv, LiveIds, InSession, FrontTypeOK
<1>17. ASSUME NEW c \in Clients, NEW label \in {"reply", "error"}, OtherFrame(c, label) PROVE IdsInv'
  BY <1>17, SMTT(30) DEF OtherFrame, ReadFrame, Goto, IdsInv, LiveIds, InSession, FrontTypeOK
<1>18. ASSUME NEW c \in Clients, AnswerError(c) PROVE IdsInv'
  BY <1>18 DEF AnswerError, Goto, IdsInv, LiveIds, InSession, FrontTypeOK
<1>19. ASSUME NEW c \in Clients, Reply(c) PROVE IdsInv'
  BY <1>19 DEF Reply, Goto, IdsInv, LiveIds, InSession, FrontTypeOK
<1>20. ASSUME NEW c \in Clients, SocketFails(c) PROVE IdsInv'
  BY <1>20 DEF SocketFails, Fail, Put, Goto, IdsInv, LiveIds, InSession, FrontTypeOK
<1>21. ASSUME NEW c \in Clients, StoreRefuses(c) PROVE IdsInv'
  BY <1>21, SMTT(30) DEF StoreRefuses, Fail, Put, Goto, IdsInv, LiveIds, InSession, FrontTypeOK
<1>22. ASSUME NEW c \in Clients, Close(c) PROVE IdsInv'
  BY <1>22, SMTT(30) DEF Close, Goto, IdsInv, LiveIds, InSession, FrontTypeOK
<1>23. ASSUME NEW c \in Clients, UnregisterSession(c) PROVE IdsInv'
  BY <1>23 DEF UnregisterSession, Drop, Goto, IdsInv, LiveIds, InSession, FrontTypeOK
<1>24. ASSUME NEW c \in Clients, UnmapContexts(c) PROVE IdsInv'
  BY <1>24 DEF UnmapContexts, Drop, Goto, IdsInv, LiveIds, InSession, FrontTypeOK
<1>25. ASSUME NEW c \in Clients, Bye(c) PROVE IdsInv'
  BY <1>25 DEF Bye, Put, Goto, IdsInv, LiveIds, InSession, FrontTypeOK
<1>26. ASSUME NEW c \in Clients, Exit(c) PROVE IdsInv'
  BY <1>26 DEF Exit, IdsInv, LiveIds, InSession, FrontTypeOK
<1>27. ASSUME HttpCreate PROVE IdsInv'
  BY <1>27 DEF HttpCreate, HttpRequest, Put, IdsInv, LiveIds, InSession, FrontTypeOK
<1>28. ASSUME NEW x \in NamedContexts, NEW n \in 1 .. 3, HttpAppend(x, n) PROVE IdsInv'
  BY <1>28 DEF HttpAppend, StoreAppends, HttpRequest, IdsInv, LiveIds, InSession, FrontTypeOK
<1>29. ASSUME HttpFails PROVE IdsInv'
  BY <1>29 DEF HttpFails, HttpRequest, IdsInv, LiveIds, InSession, FrontTypeOK
<1>30. ASSUME HttpPublish PROVE IdsInv'
  BY <1>30 DEF HttpPublish, IdsInv, LiveIds, InSession, FrontTypeOK
<1>31. CASE UNCHANGED <<frontVars, log>>
  BY <1>31 DEF frontVars, IdsInv, LiveIds, InSession, FrontTypeOK
<1> QED
  BY StreamKeepsLog, <1>1, <1>2, <1>3, <1>4, <1>5, <1>6, <1>7, <1>8, <1>9, <1>10, <1>11, <1>12,
     <1>13, <1>14, <1>15, <1>16, <1>17, <1>18, <1>19, <1>20, <1>21, <1>22, <1>23, <1>24, <1>25,
     <1>26, <1>27, <1>28, <1>29, <1>30, <1>31
  DEF SessionsNext, HandlerStep, ClientStep, HttpStep, Contexts, vars, busVars

-----------------------------------------------------------------------------
(* The tracker.                                                            *)

\* A session is registered from its first HELLO, create or fork until its
\* handler unregisters it.
LEMMA RegisteredStep ==
    ASSUME FrontTypeOK, SlotInv, IdsInv, RegisteredInv, [SessionsNext]_vars
    PROVE  RegisteredInv'
<1> USE ClientsAssumption DEF connVars, requestVars, trackerVars, storeVars, httpVars, busVars
<1>1. ASSUME NEW c \in Clients, Accept(c) PROVE RegisteredInv'
  BY <1>1 DEF Accept, RegisteredInv, IdsInv, LiveIds, InSession, Open, Creating, FrontTypeOK
<1>2. ASSUME AcceptFails PROVE RegisteredInv'
  BY <1>2 DEF AcceptFails, RegisteredInv, IdsInv, LiveIds, InSession, Open, Creating,
     FrontTypeOK
<1>3. ASSUME Spawn PROVE RegisteredInv'
  BY <1>3 DEF Spawn, SlotInv, RegisteredInv, IdsInv, LiveIds, InSession, Open, Creating,
     FrontTypeOK
<1>4. ASSUME NEW c \in Clients, Start(c) PROVE RegisteredInv'
  BY <1>4 DEF Start, RegisteredInv, IdsInv, LiveIds, InSession, Open, Creating, FrontTypeOK
<1>5. ASSUME NEW c \in Clients, HelloFrame(c) PROVE RegisteredInv'
  BY <1>5, ZenonT(40) DEF HelloFrame, ReadFrame, Register, Put, RegisteredInv, IdsInv, LiveIds, InSession,
     Open, Creating, FrontTypeOK
<1>6. ASSUME NEW c \in Clients, Announce(c) PROVE RegisteredInv'
  BY <1>6 DEF Announce, Goto, RegisteredInv, IdsInv, LiveIds, InSession, Open, Creating,
     FrontTypeOK
<1>7. ASSUME NEW c \in Clients, CreateFrame(c) PROVE RegisteredInv'
  BY <1>7, ZenonT(40) DEF CreateFrame, ReadFrame, Register, Put, RegisteredInv, IdsInv, LiveIds, InSession,
     Open, Creating, FrontTypeOK
<1>8. ASSUME NEW c \in Clients, CreateLocked(c) PROVE RegisteredInv'
  BY <1>8 DEF CreateLocked, Goto, Put, RegisteredInv, IdsInv, LiveIds, InSession, Open,
     Creating, FrontTypeOK
<1>9. ASSUME NEW c \in Clients, MapContext(c) PROVE RegisteredInv'
  BY <1>9 DEF MapContext, Goto, Put, RegisteredInv, IdsInv, LiveIds, InSession, Open, Creating,
     FrontTypeOK
<1>10. ASSUME NEW c \in Clients, OwnContext(c) PROVE RegisteredInv'
  BY <1>10 DEF OwnContext, Goto, RegisteredInv, IdsInv, LiveIds, InSession, Open, Creating,
     FrontTypeOK
<1>11. ASSUME NEW c \in Clients, PublishCreated(c) PROVE RegisteredInv'
  BY <1>11 DEF PublishCreated, Goto, RegisteredInv, IdsInv, LiveIds, InSession, Open, Creating,
     FrontTypeOK
<1>12. ASSUME NEW c \in Clients, NEW x \in NamedContexts, AppendFrame(c, x) PROVE RegisteredInv'
  BY <1>12 DEF AppendFrame, ReadFrame, Goto, RegisteredInv, IdsInv, LiveIds, InSession, Open,
     Creating, FrontTypeOK
<1>13. ASSUME NEW c \in Clients, AppendLocked(c) PROVE RegisteredInv'
  BY <1>13 DEF AppendLocked, StoreAppends, Goto, RegisteredInv, IdsInv, LiveIds, InSession, Open, Creating,
     FrontTypeOK
<1>14. ASSUME NEW c \in Clients, NEW more \in BOOLEAN, PublishAppended(c, more) PROVE RegisteredInv'
  BY <1>14 DEF PublishAppended, Goto, RegisteredInv, IdsInv, LiveIds, InSession, Open, Creating,
     FrontTypeOK
<1>15. ASSUME NEW c \in Clients, NEW more \in BOOLEAN, PublishMetadata(c, more) PROVE RegisteredInv'
  BY <1>15 DEF PublishMetadata, Goto, RegisteredInv, IdsInv, LiveIds, InSession, Open, Creating,
     FrontTypeOK
<1>16. ASSUME NEW c \in Clients, PublishLinked(c) PROVE RegisteredInv'
  BY <1>16 DEF PublishLinked, Goto, RegisteredInv, IdsInv, LiveIds, InSession, Open, Creating,
     FrontTypeOK
<1>17. ASSUME NEW c \in Clients, NEW label \in {"reply", "error"}, OtherFrame(c, label) PROVE RegisteredInv'
  BY <1>17 DEF OtherFrame, ReadFrame, Goto, RegisteredInv, IdsInv, LiveIds, InSession, Open,
     Creating, FrontTypeOK
<1>18. ASSUME NEW c \in Clients, AnswerError(c) PROVE RegisteredInv'
  BY <1>18 DEF AnswerError, Goto, RegisteredInv, IdsInv, LiveIds, InSession, Open, Creating,
     FrontTypeOK
<1>19. ASSUME NEW c \in Clients, Reply(c) PROVE RegisteredInv'
  BY <1>19 DEF Reply, Goto, RegisteredInv, IdsInv, LiveIds, InSession, Open, Creating,
     FrontTypeOK
<1>20. ASSUME NEW c \in Clients, SocketFails(c) PROVE RegisteredInv'
  BY <1>20 DEF SocketFails, Fail, Put, Goto, RegisteredInv, IdsInv, LiveIds, InSession, Open,
     Creating, FrontTypeOK
<1>21. ASSUME NEW c \in Clients, StoreRefuses(c) PROVE RegisteredInv'
  BY <1>21 DEF StoreRefuses, Fail, Put, Goto, RegisteredInv, IdsInv, LiveIds, InSession, Open,
     Creating, FrontTypeOK
<1>22. ASSUME NEW c \in Clients, Close(c) PROVE RegisteredInv'
  BY <1>22 DEF Close, Goto, RegisteredInv, IdsInv, LiveIds, InSession, Open, Creating,
     FrontTypeOK
<1>23. ASSUME NEW c \in Clients, UnregisterSession(c) PROVE RegisteredInv'
  BY <1>23 DEF UnregisterSession, Drop, Goto, RegisteredInv, IdsInv, LiveIds, InSession, Open,
     Creating, FrontTypeOK
<1>24. ASSUME NEW c \in Clients, UnmapContexts(c) PROVE RegisteredInv'
  BY <1>24 DEF UnmapContexts, Drop, Goto, RegisteredInv, IdsInv, LiveIds, InSession, Open,
     Creating, FrontTypeOK
<1>25. ASSUME NEW c \in Clients, Bye(c) PROVE RegisteredInv'
  BY <1>25 DEF Bye, Put, Goto, RegisteredInv, IdsInv, LiveIds, InSession, Open, Creating,
     FrontTypeOK
<1>26. ASSUME NEW c \in Clients, Exit(c) PROVE RegisteredInv'
  BY <1>26 DEF Exit, RegisteredInv, IdsInv, LiveIds, InSession, Open, Creating, FrontTypeOK
<1>27. ASSUME HttpCreate PROVE RegisteredInv'
  BY <1>27 DEF HttpCreate, HttpRequest, Put, RegisteredInv, IdsInv, LiveIds, InSession, Open,
     Creating, FrontTypeOK
<1>28. ASSUME NEW x \in NamedContexts, NEW n \in 1 .. 3, HttpAppend(x, n) PROVE RegisteredInv'
  BY <1>28 DEF HttpAppend, StoreAppends, HttpRequest, RegisteredInv, IdsInv, LiveIds, InSession, Open,
     Creating, FrontTypeOK
<1>29. ASSUME HttpFails PROVE RegisteredInv'
  BY <1>29 DEF HttpFails, HttpRequest, RegisteredInv, IdsInv, LiveIds, InSession, Open,
     Creating, FrontTypeOK
<1>30. ASSUME HttpPublish PROVE RegisteredInv'
  BY <1>30 DEF HttpPublish, RegisteredInv, IdsInv, LiveIds, InSession, Open, Creating,
     FrontTypeOK
<1>31. CASE UNCHANGED <<frontVars, log>>
  BY <1>31 DEF frontVars, RegisteredInv, IdsInv, LiveIds, InSession, Open, Creating, FrontTypeOK
<1> QED
  BY StreamKeepsLog, <1>1, <1>2, <1>3, <1>4, <1>5, <1>6, <1>7, <1>8, <1>9, <1>10, <1>11, <1>12,
     <1>13, <1>14, <1>15, <1>16, <1>17, <1>18, <1>19, <1>20, <1>21, <1>22, <1>23, <1>24, <1>25,
     <1>26, <1>27, <1>28, <1>29, <1>30, <1>31
  DEF SessionsNext, HandlerStep, ClientStep, HttpStep, Contexts, vars, busVars

\* The steps the tracker's maps are about, and what the other steps leave alone.
Tracking == Creating \cup {"unmap", "bye"}
Bystander ==
    /\ UNCHANGED <<sessions, contextSession, creator>>
    /\ \A c \in Clients :
          pc[c] \in Tracking \/ pc'[c] \in Tracking =>
              pc'[c] = pc[c] /\ sid'[c] = sid[c] /\ ctx'[c] = ctx[c] /\ orphaned'[c] = orphaned[c]
    /\ \A i \in DOMAIN ended : i \in DOMAIN ended' /\ ended'[i] = ended[i]

TrackerStep ==
    \/ \E c \in Clients : \/ HelloFrame(c) \/ CreateFrame(c)
                          \/ CreateLocked(c) \/ MapContext(c) \/ OwnContext(c) \/ PublishCreated(c)
                          \/ UnregisterSession(c) \/ UnmapContexts(c) \/ Bye(c)
    \/ HttpCreate
    \/ Bystander

\* Every step tracks, creates or is a bystander to the session tracker.
LEMMA TrackerSteps ==
    ASSUME FrontTypeOK, SlotInv, IdsInv, [SessionsNext]_vars
    PROVE  TrackerStep
<1> USE ClientsAssumption DEF connVars, requestVars, trackerVars, storeVars, httpVars, busVars
<1>1. ASSUME NEW c \in Clients, Accept(c) PROVE TrackerStep
  BY <1>1 DEF Accept, Bystander, TrackerStep, Tracking, Creating, IdsInv, LiveIds, InSession,
     FrontTypeOK
<1>2. ASSUME AcceptFails PROVE TrackerStep
  BY <1>2 DEF AcceptFails, Bystander, TrackerStep, Tracking, Creating, IdsInv, LiveIds,
     InSession, FrontTypeOK
<1>3. ASSUME Spawn PROVE TrackerStep
  BY <1>3 DEF Spawn, SlotInv, Bystander, TrackerStep, Tracking, Creating, IdsInv, LiveIds,
     InSession, FrontTypeOK
<1>4. ASSUME NEW c \in Clients, Start(c) PROVE TrackerStep
  BY <1>4 DEF Start, Bystander, TrackerStep, Tracking, Creating, IdsInv, LiveIds, InSession,
     FrontTypeOK
<1>5. ASSUME NEW c \in Clients, HelloFrame(c) PROVE TrackerStep
  BY <1>5 DEF TrackerStep
<1>6. ASSUME NEW c \in Clients, Announce(c) PROVE TrackerStep
  BY <1>6 DEF Announce, Goto, Bystander, TrackerStep, Tracking, Creating, IdsInv, LiveIds,
     InSession, FrontTypeOK
<1>7. ASSUME NEW c \in Clients, CreateFrame(c) PROVE TrackerStep
  BY <1>7 DEF TrackerStep
<1>8. ASSUME NEW c \in Clients, CreateLocked(c) PROVE TrackerStep
  BY <1>8 DEF TrackerStep
<1>9. ASSUME NEW c \in Clients, MapContext(c) PROVE TrackerStep
  BY <1>9 DEF TrackerStep
<1>10. ASSUME NEW c \in Clients, OwnContext(c) PROVE TrackerStep
  BY <1>10 DEF TrackerStep
<1>11. ASSUME NEW c \in Clients, PublishCreated(c) PROVE TrackerStep
  BY <1>11 DEF TrackerStep
<1>12. ASSUME NEW c \in Clients, NEW x \in NamedContexts, AppendFrame(c, x) PROVE TrackerStep
  BY <1>12 DEF AppendFrame, ReadFrame, Goto, Bystander, TrackerStep, Tracking, Creating, IdsInv,
     LiveIds, InSession, FrontTypeOK
<1>13. ASSUME NEW c \in Clients, AppendLocked(c) PROVE TrackerStep
  BY <1>13 DEF AppendLocked, StoreAppends, Goto, Bystander, TrackerStep, Tracking, Creating, IdsInv, LiveIds,
     InSession, FrontTypeOK
<1>14. ASSUME NEW c \in Clients, NEW more \in BOOLEAN, PublishAppended(c, more) PROVE TrackerStep
  BY <1>14 DEF PublishAppended, Goto, Bystander, TrackerStep, Tracking, Creating, IdsInv,
     LiveIds, InSession, FrontTypeOK
<1>15. ASSUME NEW c \in Clients, NEW more \in BOOLEAN, PublishMetadata(c, more) PROVE TrackerStep
  BY <1>15 DEF PublishMetadata, Goto, Bystander, TrackerStep, Tracking, Creating, IdsInv,
     LiveIds, InSession, FrontTypeOK
<1>16. ASSUME NEW c \in Clients, PublishLinked(c) PROVE TrackerStep
  BY <1>16 DEF PublishLinked, Goto, Bystander, TrackerStep, Tracking, Creating, IdsInv, LiveIds,
     InSession, FrontTypeOK
<1>17. ASSUME NEW c \in Clients, NEW label \in {"reply", "error"}, OtherFrame(c, label) PROVE TrackerStep
  BY <1>17 DEF OtherFrame, ReadFrame, Goto, Bystander, TrackerStep, Tracking, Creating, IdsInv,
     LiveIds, InSession, FrontTypeOK
<1>18. ASSUME NEW c \in Clients, AnswerError(c) PROVE TrackerStep
  BY <1>18 DEF AnswerError, Goto, Bystander, TrackerStep, Tracking, Creating, IdsInv, LiveIds,
     InSession, FrontTypeOK
<1>19. ASSUME NEW c \in Clients, Reply(c) PROVE TrackerStep
  BY <1>19 DEF Reply, Goto, Bystander, TrackerStep, Tracking, Creating, IdsInv, LiveIds,
     InSession, FrontTypeOK
<1>20. ASSUME NEW c \in Clients, SocketFails(c) PROVE TrackerStep
  BY <1>20 DEF SocketFails, Fail, Put, Goto, Bystander, TrackerStep, Tracking, Creating, IdsInv,
     LiveIds, InSession, FrontTypeOK
<1>21. ASSUME NEW c \in Clients, StoreRefuses(c) PROVE TrackerStep
  BY <1>21 DEF StoreRefuses, Fail, Put, Goto, Bystander, TrackerStep, Tracking, Creating,
     IdsInv, LiveIds, InSession, FrontTypeOK
<1>22. ASSUME NEW c \in Clients, Close(c) PROVE TrackerStep
  BY <1>22 DEF Close, Goto, Bystander, TrackerStep, Tracking, Creating, IdsInv, LiveIds,
     InSession, FrontTypeOK
<1>23. ASSUME NEW c \in Clients, UnregisterSession(c) PROVE TrackerStep
  BY <1>23 DEF TrackerStep
<1>24. ASSUME NEW c \in Clients, UnmapContexts(c) PROVE TrackerStep
  BY <1>24 DEF TrackerStep
<1>25. ASSUME NEW c \in Clients, Bye(c) PROVE TrackerStep
  BY <1>25 DEF TrackerStep
<1>26. ASSUME NEW c \in Clients, Exit(c) PROVE TrackerStep
  BY <1>26 DEF Exit, Bystander, TrackerStep, Tracking, Creating, IdsInv, LiveIds, InSession,
     FrontTypeOK
<1>27. ASSUME HttpCreate PROVE TrackerStep
  BY <1>27 DEF TrackerStep
<1>28. ASSUME NEW x \in NamedContexts, NEW n \in 1 .. 3, HttpAppend(x, n) PROVE TrackerStep
  BY <1>28 DEF HttpAppend, StoreAppends, HttpRequest, Bystander, TrackerStep, Tracking, Creating, IdsInv,
     LiveIds, InSession, FrontTypeOK
<1>29. ASSUME HttpFails PROVE TrackerStep
  BY <1>29 DEF HttpFails, HttpRequest, Bystander, TrackerStep, Tracking, Creating, IdsInv,
     LiveIds, InSession, FrontTypeOK
<1>30. ASSUME HttpPublish PROVE TrackerStep
  BY <1>30 DEF HttpPublish, Bystander, TrackerStep, Tracking, Creating, IdsInv, LiveIds,
     InSession, FrontTypeOK
<1>31. CASE UNCHANGED <<frontVars, log>>
  BY <1>31 DEF frontVars, Bystander, TrackerStep, Tracking, Creating, IdsInv, LiveIds,
     InSession, FrontTypeOK
<1> QED
  BY StreamKeepsLog, <1>1, <1>2, <1>3, <1>4, <1>5, <1>6, <1>7, <1>8, <1>9, <1>10, <1>11, <1>12,
     <1>13, <1>14, <1>15, <1>16, <1>17, <1>18, <1>19, <1>20, <1>21, <1>22, <1>23, <1>24, <1>25,
     <1>26, <1>27, <1>28, <1>29, <1>30, <1>31
  DEF SessionsNext, HandlerStep, ClientStep, HttpStep, Contexts, vars, busVars

\* One handler at a time creates, and each a context of its own.
LEMMA CreatingStep ==
    ASSUME FrontTypeOK, SlotInv, LockInv, IdsInv, RegisteredInv, CreatingInv, MappedInv, OrphanedInv, [SessionsNext]_vars
    PROVE  CreatingInv'
<1> USE ClientsAssumption DEF connVars, requestVars, trackerVars, storeVars, httpVars, busVars
<1>1. ASSUME NEW c \in Clients, HelloFrame(c) PROVE CreatingInv'
  BY <1>1 DEF HelloFrame, ReadFrame, Register, Put, CreatingInv, MappedInv, Contexts, LockInv,
     Holding, Creating, FrontTypeOK
<1>2. ASSUME NEW c \in Clients, CreateFrame(c) PROVE CreatingInv'
  BY <1>2 DEF CreateFrame, ReadFrame, Register, Put, CreatingInv, MappedInv, Contexts, LockInv,
     Holding, Creating, FrontTypeOK
<1>3. ASSUME NEW c \in Clients, CreateLocked(c) PROVE CreatingInv'
  BY <1>3 DEF CreateLocked, Goto, Put, CreatingInv, MappedInv, Contexts, LockInv, Holding,
     Creating, FrontTypeOK
<1>4. ASSUME NEW c \in Clients, MapContext(c) PROVE CreatingInv'
  BY <1>4 DEF MapContext, Goto, Put, CreatingInv, MappedInv, Contexts, LockInv, Holding,
     Creating, FrontTypeOK
<1>5. ASSUME NEW c \in Clients, OwnContext(c) PROVE CreatingInv'
  BY <1>5 DEF OwnContext, Goto, CreatingInv, MappedInv, Contexts, LockInv, Holding, Creating,
     FrontTypeOK
<1>6. ASSUME NEW c \in Clients, PublishCreated(c) PROVE CreatingInv'
  BY <1>6 DEF PublishCreated, Goto, CreatingInv, MappedInv, Contexts, LockInv, Holding,
     Creating, FrontTypeOK
<1>7. ASSUME NEW c \in Clients, UnregisterSession(c) PROVE CreatingInv'
  BY <1>7 DEF UnregisterSession, Drop, Goto, CreatingInv, MappedInv, Contexts, LockInv, Holding,
     Creating, FrontTypeOK
<1>8. ASSUME NEW c \in Clients, UnmapContexts(c) PROVE CreatingInv'
  <2>1. ASSUME NEW d \in Clients, pc[d] = "own", ctx[d] \in orphaned[c] PROVE FALSE
    <3>1. creator[ctx[d]] = sid[d] /\ creator[ctx[d]] = sid[c]
      BY <1>8, <2>1 DEF UnmapContexts, OrphanedInv, CreatingInv, Creating
    <3> QED
      BY <1>8, <2>1, <3>1 DEF UnmapContexts, IdsInv, InSession
  <2>2. ASSUME NEW d \in Clients
        PROVE  /\ pc'[d] \in Creating => pc'[d] = pc[d]
               /\ sid'[d] = sid[d] /\ ctx'[d] = ctx[d]
    BY <1>8 DEF UnmapContexts, Goto, Creating, FrontTypeOK
  <2>3. UNCHANGED creator /\ DOMAIN contextSession' = DOMAIN contextSession \ orphaned[c]
    BY <1>8 DEF UnmapContexts, Drop
  <2> QED
    BY <2>1, <2>2, <2>3 DEF CreatingInv, Contexts, Creating
<1>9. ASSUME NEW c \in Clients, Bye(c) PROVE CreatingInv'
  BY <1>9 DEF Bye, Put, Goto, CreatingInv, MappedInv, Contexts, LockInv, Holding, Creating,
     FrontTypeOK
<1>10. ASSUME HttpCreate PROVE CreatingInv'
  BY <1>10 DEF HttpCreate, HttpRequest, Put, CreatingInv, MappedInv, Contexts, LockInv, Holding,
     Creating, FrontTypeOK
<1>11. ASSUME Bystander PROVE CreatingInv'
  BY <1>11 DEF Bystander, Tracking, CreatingInv, MappedInv, Contexts, LockInv, Holding,
     Creating, FrontTypeOK
<1> QED
  BY TrackerSteps, <1>1, <1>2, <1>3, <1>4, <1>5, <1>6, <1>7, <1>8, <1>9, <1>10, <1>11 DEF
     TrackerStep

\* The maps never speak of a context that its session did not create.
LEMMA MappedStep ==
    ASSUME FrontTypeOK, SlotInv, LockInv, IdsInv, RegisteredInv, CreatingInv, MappedInv, OwnedInv, OrphanedInv, [SessionsNext]_vars
    PROVE  MappedInv'
<1> USE ClientsAssumption DEF connVars, requestVars, trackerVars, storeVars, httpVars, busVars
<1>1. ASSUME NEW c \in Clients, HelloFrame(c) PROVE MappedInv'
  BY <1>1 DEF HelloFrame, ReadFrame, Register, Put, CreatingInv, MappedInv, Contexts,
     RegisteredInv, OrphanedInv, Creating, Open, IdsInv, LiveIds, InSession, FrontTypeOK
<1>2. ASSUME NEW c \in Clients, CreateFrame(c) PROVE MappedInv'
  BY <1>2 DEF CreateFrame, ReadFrame, Register, Put, CreatingInv, MappedInv, Contexts,
     RegisteredInv, OrphanedInv, Creating, Open, IdsInv, LiveIds, InSession, FrontTypeOK
<1>3. ASSUME NEW c \in Clients, CreateLocked(c) PROVE MappedInv'
  BY <1>3 DEF CreateLocked, Goto, Put, CreatingInv, MappedInv, Contexts, RegisteredInv,
     OrphanedInv, Creating, Open, IdsInv, LiveIds, InSession, FrontTypeOK
<1>4. ASSUME NEW c \in Clients, MapContext(c) PROVE MappedInv'
  <2>1. ctx[c] \in Contexts /\ creator[ctx[c]] = sid[c]
    BY <1>4 DEF MapContext, CreatingInv, Creating
  <2>3. sid[c] \in 1 .. nextSession - 1
    BY <1>4 DEF MapContext, IdsInv, LiveIds, InSession
  <2>2. /\ UNCHANGED <<sessions, creator>>
        /\ DOMAIN contextSession' = DOMAIN contextSession \cup {ctx[c]}
        /\ contextSession'[ctx[c]] = sid[c]
        /\ \A x \in DOMAIN contextSession : x # ctx[c] => contextSession'[x] = contextSession[x]
    BY <1>4 DEF MapContext, Put
  <2> QED
    BY <2>1, <2>2, <2>3 DEF MappedInv, Contexts, FrontTypeOK
<1>5. ASSUME NEW c \in Clients, OwnContext(c) PROVE MappedInv'
  BY <1>5 DEF OwnContext, Goto, CreatingInv, MappedInv, Contexts, RegisteredInv, OrphanedInv,
     Creating, Open, IdsInv, LiveIds, InSession, FrontTypeOK
<1>6. ASSUME NEW c \in Clients, PublishCreated(c) PROVE MappedInv'
  BY <1>6 DEF PublishCreated, Goto, CreatingInv, MappedInv, Contexts, RegisteredInv,
     OrphanedInv, Creating, Open, IdsInv, LiveIds, InSession, FrontTypeOK
<1>7. ASSUME NEW c \in Clients, UnregisterSession(c) PROVE MappedInv'
  BY <1>7 DEF UnregisterSession, Drop, Goto, CreatingInv, MappedInv, Contexts, RegisteredInv,
     OrphanedInv, Creating, Open, IdsInv, LiveIds, InSession, FrontTypeOK
<1>8. ASSUME NEW c \in Clients, UnmapContexts(c) PROVE MappedInv'
  BY <1>8 DEF UnmapContexts, Drop, Goto, CreatingInv, MappedInv, Contexts, RegisteredInv,
     OrphanedInv, Creating, Open, IdsInv, LiveIds, InSession, FrontTypeOK
<1>9. ASSUME NEW c \in Clients, Bye(c) PROVE MappedInv'
  BY <1>9 DEF Bye, Put, Goto, CreatingInv, MappedInv, Contexts, RegisteredInv, OrphanedInv,
     Creating, Open, IdsInv, LiveIds, InSession, FrontTypeOK
<1>10. ASSUME HttpCreate PROVE MappedInv'
  BY <1>10 DEF HttpCreate, HttpRequest, Put, CreatingInv, MappedInv, Contexts, RegisteredInv,
     OrphanedInv, Creating, Open, IdsInv, LiveIds, InSession, FrontTypeOK
<1>11. ASSUME Bystander PROVE MappedInv'
  BY <1>11 DEF Bystander, Tracking, CreatingInv, MappedInv, Contexts, RegisteredInv,
     OrphanedInv, Creating, Open, IdsInv, LiveIds, InSession, FrontTypeOK
<1> QED
  BY TrackerSteps, <1>1, <1>2, <1>3, <1>4, <1>5, <1>6, <1>7, <1>8, <1>9, <1>10, <1>11 DEF
     TrackerStep

\* add_context enters what was created.
LEMMA OwnedStep ==
    ASSUME FrontTypeOK, SlotInv, LockInv, IdsInv, RegisteredInv, CreatingInv, MappedInv, OwnedInv, TracedInv, [SessionsNext]_vars
    PROVE  OwnedInv'
<1> USE ClientsAssumption DEF connVars, requestVars, trackerVars, storeVars, httpVars, busVars
<1>1. ASSUME NEW c \in Clients, HelloFrame(c) PROVE OwnedInv'
  <2>1. \A x \in Contexts : Pending(x) => Pending(x)'
    BY <1>1 DEF HelloFrame, ReadFrame, Pending, FrontTypeOK
  <2>2. CASE hello[c]
    BY <1>1, <2>1, <2>2 DEF HelloFrame, ReadFrame, Register, OwnedInv, Contexts
  <2>3. CASE ~hello[c]
    <3>1. sid[c] \notin DOMAIN sessions /\ sid[c] \notin DOMAIN ended /\ sid[c] # 0
      BY <1>1, <2>3 DEF HelloFrame, ReadFrame, RegisteredInv, Open, IdsInv, LiveIds, InSession
    <3>2. \A x \in Contexts : creator[x] # sid[c]
      BY <1>1, <3>1 DEF HelloFrame, ReadFrame, TracedInv, Forgotten, Forgetting, IdsInv,
         InSession
    <3>3. /\ UNCHANGED creator /\ DOMAIN sessions' = DOMAIN sessions \cup {sid[c]}
          /\ \A i \in DOMAIN sessions : i # sid[c] => sessions'[i] = sessions[i]
      BY <1>1, <2>3 DEF HelloFrame, Register, Put
    <3> QED
      BY <2>1, <3>2, <3>3 DEF OwnedInv, Contexts
  <2> QED
    BY <2>2, <2>3
<1>2. ASSUME NEW c \in Clients, CreateFrame(c) PROVE OwnedInv'
  <2>1. \A x \in Contexts : Pending(x) => Pending(x)'
    BY <1>2 DEF CreateFrame, ReadFrame, Pending, FrontTypeOK
  <2>2. CASE hello[c]
    BY <1>2, <2>1, <2>2 DEF CreateFrame, ReadFrame, Register, OwnedInv, Contexts
  <2>3. CASE ~hello[c]
    <3>1. sid[c] \notin DOMAIN sessions /\ sid[c] \notin DOMAIN ended /\ sid[c] # 0
      BY <1>2, <2>3 DEF CreateFrame, ReadFrame, RegisteredInv, Open, IdsInv, LiveIds, InSession
    <3>2. \A x \in Contexts : creator[x] # sid[c]
      BY <1>2, <3>1 DEF CreateFrame, ReadFrame, TracedInv, Forgotten, Forgetting, IdsInv,
         InSession
    <3>3. /\ UNCHANGED creator /\ DOMAIN sessions' = DOMAIN sessions \cup {sid[c]}
          /\ \A i \in DOMAIN sessions : i # sid[c] => sessions'[i] = sessions[i]
      BY <1>2, <2>3 DEF CreateFrame, Register, Put
    <3> QED
      BY <2>1, <3>2, <3>3 DEF OwnedInv, Contexts
  <2> QED
    BY <2>2, <2>3
<1>3. ASSUME NEW c \in Clients, CreateLocked(c) PROVE OwnedInv'
  <2>1. /\ UNCHANGED sessions /\ pc'[c] = "map" /\ ctx'[c] = nextContext /\ pc[c] = "create"
        /\ DOMAIN creator' = DOMAIN creator \cup {nextContext}
        /\ \A x \in DOMAIN creator : creator'[x] = creator[x]
    BY <1>3 DEF CreateLocked, Goto, Put, FrontTypeOK
  <2>2. \A x \in Contexts : Pending(x) => Pending(x)'
    BY <1>3 DEF CreateLocked, Goto, Pending, FrontTypeOK
  <2>3. \A x : x = nextContext => Pending(x)'
    BY <2>1 DEF Pending
  <2> QED
    BY <2>1, <2>2, <2>3 DEF OwnedInv, Contexts
<1>4. ASSUME NEW c \in Clients, MapContext(c) PROVE OwnedInv'
  BY <1>4 DEF MapContext, Goto, Put, Pending, MappedInv, CreatingInv, RegisteredInv, Creating,
     Open, IdsInv, LiveIds, InSession, FrontTypeOK, OwnedInv, Contexts
<1>5. ASSUME NEW c \in Clients, OwnContext(c) PROVE OwnedInv'
  BY <1>5 DEF OwnContext, Goto, Pending, MappedInv, CreatingInv, RegisteredInv, Creating, Open,
     IdsInv, LiveIds, InSession, FrontTypeOK, OwnedInv, Contexts
<1>6. ASSUME NEW c \in Clients, PublishCreated(c) PROVE OwnedInv'
  BY <1>6 DEF PublishCreated, Goto, Pending, MappedInv, CreatingInv, RegisteredInv, Creating,
     Open, IdsInv, LiveIds, InSession, FrontTypeOK, OwnedInv, Contexts
<1>7. ASSUME NEW c \in Clients, UnregisterSession(c) PROVE OwnedInv'
  BY <1>7 DEF UnregisterSession, Drop, Goto, Pending, MappedInv, CreatingInv, RegisteredInv,
     Creating, Open, IdsInv, LiveIds, InSession, FrontTypeOK, OwnedInv, Contexts
<1>8. ASSUME NEW c \in Clients, UnmapContexts(c) PROVE OwnedInv'
  BY <1>8 DEF UnmapContexts, Drop, Goto, Pending, MappedInv, CreatingInv, RegisteredInv,
     Creating, Open, IdsInv, LiveIds, InSession, FrontTypeOK, OwnedInv, Contexts
<1>9. ASSUME NEW c \in Clients, Bye(c) PROVE OwnedInv'
  BY <1>9 DEF Bye, Put, Goto, Pending, MappedInv, CreatingInv, RegisteredInv, Creating, Open,
     IdsInv, LiveIds, InSession, FrontTypeOK, OwnedInv, Contexts
<1>10. ASSUME HttpCreate PROVE OwnedInv'
  BY <1>10 DEF HttpCreate, HttpRequest, Put, Pending, FrontTypeOK, OwnedInv, Contexts
<1>11. ASSUME Bystander PROVE OwnedInv'
  <2>1. \A x \in Contexts : Pending(x) => Pending(x)'
    BY <1>11 DEF Bystander, Tracking, Creating, Pending
  <2> QED
    BY <1>11, <2>1 DEF Bystander, OwnedInv, Contexts
<1> QED
  BY TrackerSteps, <1>1, <1>2, <1>3, <1>4, <1>5, <1>6, <1>7, <1>8, <1>9, <1>10, <1>11 DEF
     TrackerStep

\* unregister forgets what it removes.
LEMMA TracedStep ==
    ASSUME FrontTypeOK, SlotInv, LockInv, IdsInv, RegisteredInv, CreatingInv, MappedInv, TracedInv, OrphanedInv, [SessionsNext]_vars
    PROVE  TracedInv'
<1> USE ClientsAssumption DEF connVars, requestVars, trackerVars, storeVars, httpVars, busVars
<1>1. ASSUME NEW c \in Clients, HelloFrame(c) PROVE TracedInv'
  BY <1>1 DEF HelloFrame, ReadFrame, Register, Put, TracedInv, Forgotten, Forgetting, MappedInv,
     CreatingInv, OrphanedInv, Contexts, RegisteredInv, Creating, Open, IdsInv, LiveIds,
     InSession, FrontTypeOK
<1>2. ASSUME NEW c \in Clients, CreateFrame(c) PROVE TracedInv'
  BY <1>2 DEF CreateFrame, ReadFrame, Register, Put, TracedInv, Forgotten, Forgetting,
     MappedInv, CreatingInv, OrphanedInv, Contexts, RegisteredInv, Creating, Open, IdsInv,
     LiveIds, InSession, FrontTypeOK
<1>3. ASSUME NEW c \in Clients, CreateLocked(c) PROVE TracedInv'
  BY <1>3 DEF CreateLocked, Goto, Put, TracedInv, Forgotten, Forgetting, MappedInv, CreatingInv,
     OrphanedInv, Contexts, RegisteredInv, Creating, Open, IdsInv, LiveIds, InSession,
     FrontTypeOK
<1>4. ASSUME NEW c \in Clients, MapContext(c) PROVE TracedInv'
  <2>1. creator[ctx[c]] = sid[c] /\ sid[c] \in DOMAIN sessions
    BY <1>4 DEF MapContext, CreatingInv, Creating, RegisteredInv, Open
  <2>2. /\ UNCHANGED <<sessions, creator, ended, sid>>
        /\ DOMAIN contextSession' = DOMAIN contextSession \cup {ctx[c]}
        /\ \A d \in Clients : pc[d] \in {"unmap", "bye"} => pc'[d] = pc[d]
    BY <1>4 DEF MapContext, Goto, Put, FrontTypeOK
  <2> QED
    BY <2>1, <2>2 DEF TracedInv, Forgotten, Forgetting, Contexts
<1>5. ASSUME NEW c \in Clients, OwnContext(c) PROVE TracedInv'
  BY <1>5 DEF OwnContext, Goto, TracedInv, Forgotten, Forgetting, MappedInv, CreatingInv,
     OrphanedInv, Contexts, RegisteredInv, Creating, Open, IdsInv, LiveIds, InSession,
     FrontTypeOK
<1>6. ASSUME NEW c \in Clients, PublishCreated(c) PROVE TracedInv'
  BY <1>6 DEF PublishCreated, Goto, TracedInv, Forgotten, Forgetting, MappedInv, CreatingInv,
     OrphanedInv, Contexts, RegisteredInv, Creating, Open, IdsInv, LiveIds, InSession,
     FrontTypeOK
<1>7. ASSUME NEW c \in Clients, UnregisterSession(c) PROVE TracedInv'
  BY <1>7 DEF UnregisterSession, Drop, Goto, TracedInv, Forgotten, Forgetting, MappedInv,
     CreatingInv, OrphanedInv, Contexts, RegisteredInv, Creating, Open, IdsInv, LiveIds,
     InSession, FrontTypeOK
<1>8. ASSUME NEW c \in Clients, UnmapContexts(c) PROVE TracedInv'
  BY <1>8 DEF UnmapContexts, Drop, Goto, TracedInv, Forgotten, Forgetting, MappedInv,
     CreatingInv, OrphanedInv, Contexts, RegisteredInv, Creating, Open, IdsInv, LiveIds,
     InSession, FrontTypeOK
<1>9. ASSUME NEW c \in Clients, Bye(c) PROVE TracedInv'
  BY <1>9, ZenonT(40) DEF Bye, Put, Goto, TracedInv, Forgotten, Forgetting, MappedInv, CreatingInv,
     OrphanedInv, Contexts, RegisteredInv, Creating, Open, IdsInv, LiveIds, InSession,
     FrontTypeOK
<1>10. ASSUME HttpCreate PROVE TracedInv'
  BY <1>10 DEF HttpCreate, HttpRequest, Put, TracedInv, Forgotten, Forgetting, MappedInv,
     CreatingInv, OrphanedInv, Contexts, RegisteredInv, Creating, Open, IdsInv, LiveIds,
     InSession, FrontTypeOK
<1>11. ASSUME Bystander PROVE TracedInv'
  <2>1. /\ UNCHANGED <<sessions, contextSession, creator>>
        /\ \A c \in Clients : pc[c] \in {"unmap", "bye"} => pc'[c] = pc[c] /\ sid'[c] = sid[c]
        /\ \A i \in DOMAIN ended : i \in DOMAIN ended' /\ ended'[i] = ended[i]
    BY <1>11 DEF Bystander, Tracking
  <2> SUFFICES ASSUME NEW x \in Contexts, creator[x] # 0, creator[x] \notin DOMAIN sessions
               PROVE  Forgotten(x)' \/ \E c \in Clients : Forgetting(x, c)'
    BY <2>1 DEF TracedInv, Contexts
  <2>2. Forgotten(x) => Forgotten(x)'
    BY <2>1 DEF Forgotten
  <2>3. \A c \in Clients : Forgetting(x, c) => Forgetting(x, c)'
    BY <2>1 DEF Forgetting
  <2> QED
    BY <2>2, <2>3 DEF TracedInv
<1> QED
  BY TrackerSteps, <1>1, <1>2, <1>3, <1>4, <1>5, <1>6, <1>7, <1>8, <1>9, <1>10, <1>11 DEF
     TrackerStep

\* unregister returns what the session owned.
LEMMA OrphanedStep ==
    ASSUME FrontTypeOK, SlotInv, LockInv, IdsInv, RegisteredInv, CreatingInv, MappedInv, OwnedInv, TracedInv, OrphanedInv, [SessionsNext]_vars
    PROVE  OrphanedInv'
<1> USE ClientsAssumption DEF connVars, requestVars, trackerVars, storeVars, httpVars, busVars
<1>1. ASSUME NEW c \in Clients, HelloFrame(c) PROVE OrphanedInv'
  BY <1>1 DEF HelloFrame, ReadFrame, Register, Put, OrphanedInv, Contexts, Creating, FrontTypeOK
<1>2. ASSUME NEW c \in Clients, CreateFrame(c) PROVE OrphanedInv'
  BY <1>2 DEF CreateFrame, ReadFrame, Register, Put, OrphanedInv, Contexts, Creating,
     FrontTypeOK
<1>3. ASSUME NEW c \in Clients, CreateLocked(c) PROVE OrphanedInv'
  <2>1. ASSUME NEW d \in Clients, pc'[d] \in {"unmap", "bye"}
        PROVE  orphaned'[d] = {x \in Contexts' : creator'[x] = sid'[d]}
    <3>1. pc[d] \in {"unmap", "bye"} /\ d # c /\ sid[d] # sid[c]
      BY <1>3, <2>1, ZenonT(40) DEF CreateLocked, Goto, IdsInv, InSession, FrontTypeOK
    <3>2. /\ UNCHANGED <<orphaned, sid>> /\ nextContext \notin DOMAIN creator
          /\ DOMAIN creator' = DOMAIN creator \cup {nextContext}
          /\ creator'[nextContext] = sid[c]
          /\ \A x \in DOMAIN creator : creator'[x] = creator[x]
      BY <1>3 DEF CreateLocked, Goto, Put, FrontTypeOK
    <3> QED
      BY <3>1, <3>2 DEF OrphanedInv, Contexts
  <2> QED
    BY <2>1 DEF OrphanedInv
<1>4. ASSUME NEW c \in Clients, MapContext(c) PROVE OrphanedInv'
  BY <1>4 DEF MapContext, Goto, Put, OrphanedInv, Contexts, Creating, FrontTypeOK
<1>5. ASSUME NEW c \in Clients, OwnContext(c) PROVE OrphanedInv'
  BY <1>5 DEF OwnContext, Goto, OrphanedInv, Contexts, Creating, FrontTypeOK
<1>6. ASSUME NEW c \in Clients, PublishCreated(c) PROVE OrphanedInv'
  BY <1>6 DEF PublishCreated, Goto, OrphanedInv, Contexts, Creating, FrontTypeOK
<1>7. ASSUME NEW c \in Clients, UnregisterSession(c) PROVE OrphanedInv'
  <2>1. /\ pc[c] = "unregister" /\ sid[c] # 0 /\ sid[c] \notin DOMAIN ended
        /\ \A d \in Clients : InSession(d) /\ sid[d] = sid[c] => d = c
    BY <1>7 DEF UnregisterSession, IdsInv, LiveIds, InSession
  <2>2. CASE sid[c] \in DOMAIN sessions
    <3>1. \A x \in Contexts : Pending(x) => creator[x] # sid[c]
      BY <2>1 DEF Pending, CreatingInv, Creating, InSession
    <3>2. sessions[sid[c]] = {x \in Contexts : creator[x] = sid[c]}
      BY <2>2, <3>1 DEF OwnedInv, MappedInv, Contexts
    <3> QED
      BY <1>7, <2>2, <3>2 DEF UnregisterSession, Goto, OrphanedInv, Contexts, FrontTypeOK
  <2>3. CASE sid[c] \notin DOMAIN sessions
    <3>1. \A x \in Contexts : creator[x] # sid[c]
      BY <2>1, <2>3 DEF TracedInv, Forgotten, Forgetting, InSession
    <3> QED
      BY <1>7, <2>3, <3>1 DEF UnregisterSession, Goto, OrphanedInv, Contexts, FrontTypeOK
  <2> QED
    BY <2>2, <2>3
<1>8. ASSUME NEW c \in Clients, UnmapContexts(c) PROVE OrphanedInv'
  BY <1>8 DEF UnmapContexts, Drop, Goto, OrphanedInv, Contexts, Creating, FrontTypeOK
<1>9. ASSUME NEW c \in Clients, Bye(c) PROVE OrphanedInv'
  BY <1>9 DEF Bye, Put, Goto, OrphanedInv, Contexts, Creating, FrontTypeOK
<1>10. ASSUME HttpCreate PROVE OrphanedInv'
  <2>1. ASSUME NEW d \in Clients, pc'[d] \in {"unmap", "bye"}
        PROVE  orphaned'[d] = {x \in Contexts' : creator'[x] = sid'[d]}
    <3>1. pc[d] \in {"unmap", "bye"} /\ sid[d] # 0
      BY <1>10, <2>1 DEF HttpCreate, IdsInv, LiveIds, InSession
    <3>2. /\ UNCHANGED <<orphaned, sid>> /\ nextContext \notin DOMAIN creator
          /\ DOMAIN creator' = DOMAIN creator \cup {nextContext}
          /\ creator'[nextContext] = 0
          /\ \A x \in DOMAIN creator : creator'[x] = creator[x]
      BY <1>10 DEF HttpCreate, HttpRequest, Put, FrontTypeOK
    <3> QED
      BY <3>1, <3>2 DEF OrphanedInv, Contexts
  <2> QED
    BY <2>1 DEF OrphanedInv
<1>11. ASSUME Bystander PROVE OrphanedInv'
  BY <1>11 DEF Bystander, Tracking, OrphanedInv, Contexts, Creating, FrontTypeOK
<1> QED
  BY TrackerSteps, <1>1, <1>2, <1>3, <1>4, <1>5, <1>6, <1>7, <1>8, <1>9, <1>10, <1>11 DEF
     TrackerStep

-----------------------------------------------------------------------------
(* The events.                                                             *)

\* The log after an event was published.
Publishes(e) ==
    /\ e \in FrontEvents /\ Len(log) \in Nat /\ Len(log') = Len(log) + 1
    /\ DOMAIN log = 1 .. Len(log) /\ DOMAIN log' = 1 .. (Len(log) + 1)
    /\ \A n \in DOMAIN log : log'[n] = log[n]
    /\ log'[Len(log) + 1] = e

\* The events that no property is about.
Plain(e) ==
    /\ "session" \notin DOMAIN e
    /\ e.kind \notin {"ContextCreated", "TurnAppended", "ClientDisconnected"}

\* What each publishing step publishes.
LEMMA PublishFacts ==
    ASSUME FrontTypeOK, LogTypeOK, NEW c \in Clients
    PROVE  /\ Announce(c) => Publishes(Connected(sid[c]))
           /\ PublishCreated(c) => Publishes(Created(sid[c], ctx[c]))
           /\ \A more \in BOOLEAN :
                 PublishAppended(c, more) => Publishes(Appended(sid[c], ctx[c], turn[c]))
           /\ \A more \in BOOLEAN :
                 PublishMetadata(c, more) => Publishes(Described(ctx[c])) /\ Plain(Described(ctx[c]))
           /\ PublishLinked(c) => Publishes(Linked(ctx[c])) /\ Plain(Linked(ctx[c]))
           /\ AnswerError(c) => Publishes(Failed) /\ Plain(Failed)
           /\ Bye(c) => Publishes(Disconnected(sid[c], orphaned[c]))
<1>1. ASSUME NEW e \in FrontEvents, Publish(e) PROVE Publishes(e)
  BY <1>1, PublishLog DEF LogTypeOK, Publishes
<1>2. /\ Connected(sid[c]) \in FrontEvents /\ Created(sid[c], ctx[c]) \in FrontEvents
      /\ Appended(sid[c], ctx[c], turn[c]) \in FrontEvents
      /\ Described(ctx[c]) \in FrontEvents /\ Linked(ctx[c]) \in FrontEvents
      /\ Failed \in FrontEvents /\ Disconnected(sid[c], orphaned[c]) \in FrontEvents
  BY EventFields DEF FrontTypeOK
<1>3. Plain(Described(ctx[c])) /\ Plain(Linked(ctx[c])) /\ Plain(Failed)
  BY DEF Plain, Described, Linked, Failed
<1>4. Announce(c) => Publishes(Connected(sid[c]))
  BY <1>1, <1>2 DEF Announce
<1>5. PublishCreated(c) => Publishes(Created(sid[c], ctx[c]))
  BY <1>1, <1>2 DEF PublishCreated
<1>6. \A more \in BOOLEAN : PublishAppended(c, more) => Publishes(Appended(sid[c], ctx[c], turn[c]))
  BY <1>1, <1>2 DEF PublishAppended
<1>7. \A more \in BOOLEAN : PublishMetadata(c, more) => Publishes(Described(ctx[c]))
  BY <1>1, <1>2 DEF PublishMetadata
<1>8. PublishLinked(c) => Publishes(Linked(ctx[c]))
  BY <1>1, <1>2 DEF PublishLinked
<1>9. AnswerError(c) => Publishes(Failed)
  BY <1>1, <1>2 DEF AnswerError
<1>10. Bye(c) => Publishes(Disconnected(sid[c], orphaned[c]))
  BY <1>1, <1>2 DEF Bye
<1> QED
  BY <1>3, <1>4, <1>5, <1>6, <1>7, <1>8, <1>9, <1>10

\* The HTTP thread's publication logs the event at the head of its list.
LEMMA HttpPublishFacts ==
    ASSUME LogTypeOK, HttpPublish
    PROVE  Publishes(Head(http)) /\ DOMAIN http = 1 .. Len(http) /\ Head(http) = http[1] /\ 1 \in DOMAIN http
<1>1. Head(http) \in FrontEvents /\ Publish(Head(http))
  BY DEF HttpPublish, LogTypeOK
<1>2. Publishes(Head(http))
  BY <1>1, PublishLog DEF LogTypeOK, Publishes
<1> QED
  BY <1>2 DEF HttpPublish, LogTypeOK

\* The steps of the log.
LogStep ==
    \/ UNCHANGED log
    \/ \E c \in Clients : \/ Announce(c) \/ PublishCreated(c) \/ Bye(c)
                          \/ \E more \in BOOLEAN : PublishAppended(c, more)
    \/ HttpPublish
    \/ \E e \in FrontEvents : Publishes(e) /\ Plain(e)

\* Every step publishes one event of known kind or none.
LEMMA LogSteps ==
    ASSUME FrontTypeOK, LogTypeOK, [SessionsNext]_vars
    PROVE  LogStep
<1> USE ClientsAssumption DEF connVars, requestVars, trackerVars, storeVars, httpVars, busVars
<1>1. ASSUME NEW c \in Clients, Accept(c) PROVE LogStep
  BY <1>1 DEF Accept, LogStep
<1>2. ASSUME AcceptFails PROVE LogStep
  BY <1>2 DEF AcceptFails, LogStep
<1>3. ASSUME Spawn PROVE LogStep
  BY <1>3 DEF Spawn, LogStep
<1>4. ASSUME NEW c \in Clients, Start(c) PROVE LogStep
  BY <1>4 DEF Start, LogStep
<1>5. ASSUME NEW c \in Clients, HelloFrame(c) PROVE LogStep
  BY <1>5 DEF HelloFrame, ReadFrame, Register, Put, LogStep
<1>6. ASSUME NEW c \in Clients, Announce(c) PROVE LogStep
  BY <1>6 DEF LogStep
<1>7. ASSUME NEW c \in Clients, CreateFrame(c) PROVE LogStep
  BY <1>7 DEF CreateFrame, ReadFrame, Register, Put, LogStep
<1>8. ASSUME NEW c \in Clients, CreateLocked(c) PROVE LogStep
  BY <1>8 DEF CreateLocked, Goto, Put, LogStep
<1>9. ASSUME NEW c \in Clients, MapContext(c) PROVE LogStep
  BY <1>9 DEF MapContext, Goto, Put, LogStep
<1>10. ASSUME NEW c \in Clients, OwnContext(c) PROVE LogStep
  BY <1>10 DEF OwnContext, Goto, LogStep
<1>11. ASSUME NEW c \in Clients, PublishCreated(c) PROVE LogStep
  BY <1>11 DEF LogStep
<1>12. ASSUME NEW c \in Clients, NEW x \in NamedContexts, AppendFrame(c, x) PROVE LogStep
  BY <1>12 DEF AppendFrame, ReadFrame, Goto, LogStep
<1>13. ASSUME NEW c \in Clients, AppendLocked(c) PROVE LogStep
  BY <1>13 DEF AppendLocked, StoreAppends, Goto, LogStep
<1>14. ASSUME NEW c \in Clients, NEW more \in BOOLEAN, PublishAppended(c, more) PROVE LogStep
  BY <1>14 DEF LogStep
<1>15. ASSUME NEW c \in Clients, NEW more \in BOOLEAN, PublishMetadata(c, more) PROVE LogStep
  BY <1>15, PublishFacts DEF LogStep, Publishes
<1>16. ASSUME NEW c \in Clients, PublishLinked(c) PROVE LogStep
  BY <1>16, PublishFacts DEF LogStep, Publishes
<1>17. ASSUME NEW c \in Clients, NEW label \in {"reply", "error"}, OtherFrame(c, label) PROVE LogStep
  BY <1>17 DEF OtherFrame, ReadFrame, Goto, LogStep
<1>18. ASSUME NEW c \in Clients, AnswerError(c) PROVE LogStep
  BY <1>18, PublishFacts DEF LogStep, Publishes
<1>19. ASSUME NEW c \in Clients, Reply(c) PROVE LogStep
  BY <1>19 DEF Reply, Goto, LogStep
<1>20. ASSUME NEW c \in Clients, SocketFails(c) PROVE LogStep
  BY <1>20 DEF SocketFails, Fail, Put, Goto, LogStep
<1>21. ASSUME NEW c \in Clients, StoreRefuses(c) PROVE LogStep
  BY <1>21 DEF StoreRefuses, Fail, Put, Goto, LogStep
<1>22. ASSUME NEW c \in Clients, Close(c) PROVE LogStep
  BY <1>22 DEF Close, Goto, LogStep
<1>23. ASSUME NEW c \in Clients, UnregisterSession(c) PROVE LogStep
  BY <1>23 DEF UnregisterSession, Drop, Goto, LogStep
<1>24. ASSUME NEW c \in Clients, UnmapContexts(c) PROVE LogStep
  BY <1>24 DEF UnmapContexts, Drop, Goto, LogStep
<1>25. ASSUME NEW c \in Clients, Bye(c) PROVE LogStep
  BY <1>25 DEF LogStep
<1>26. ASSUME NEW c \in Clients, Exit(c) PROVE LogStep
  BY <1>26 DEF Exit, LogStep
<1>27. ASSUME HttpCreate PROVE LogStep
  BY <1>27 DEF HttpCreate, HttpRequest, Put, LogStep
<1>28. ASSUME NEW x \in NamedContexts, NEW n \in 1 .. 3, HttpAppend(x, n) PROVE LogStep
  BY <1>28 DEF HttpAppend, StoreAppends, HttpRequest, LogStep
<1>29. ASSUME HttpFails PROVE LogStep
  BY <1>29 DEF HttpFails, HttpRequest, LogStep
<1>30. ASSUME HttpPublish PROVE LogStep
  BY <1>30 DEF LogStep
<1>31. CASE UNCHANGED <<frontVars, log>>
  BY <1>31 DEF frontVars, LogStep
<1> QED
  BY StreamKeepsLog, <1>1, <1>2, <1>3, <1>4, <1>5, <1>6, <1>7, <1>8, <1>9, <1>10, <1>11, <1>12,
     <1>13, <1>14, <1>15, <1>16, <1>17, <1>18, <1>19, <1>20, <1>21, <1>22, <1>23, <1>24, <1>25,
     <1>26, <1>27, <1>28, <1>29, <1>30, <1>31
  DEF SessionsNext, HandlerStep, ClientStep, HttpStep, Contexts, vars, busVars

\* What history keeps: who created a context, how a session ended.
Grown ==
    /\ \A x \in Contexts : x \in Contexts' /\ creator'[x] = creator[x]
    /\ \A x \in Contexts' : x \notin Contexts => creator'[x] \notin DOMAIN ended
    /\ \A i \in DOMAIN ended : i \in DOMAIN ended' /\ ended'[i] = ended[i]
    /\ nextTurn' \in Nat /\ nextTurn <= nextTurn' /\ stray \subseteq stray'
    /\ UNCHANGED http \/ HttpStep


\* No step rewrites it.
LEMMA HistoryGrows ==
    ASSUME FrontTypeOK, IdsInv, [SessionsNext]_vars
    PROVE  Grown
<1> USE ClientsAssumption DEF connVars, requestVars, trackerVars, storeVars, httpVars, busVars
<1>1. ASSUME NEW c \in Clients, Accept(c) PROVE Grown
  BY <1>1 DEF Accept, Grown, Contexts, FrontTypeOK
<1>2. ASSUME AcceptFails PROVE Grown
  BY <1>2 DEF AcceptFails, Grown, Contexts, FrontTypeOK
<1>3. ASSUME Spawn PROVE Grown
  BY <1>3 DEF Spawn, Grown, Contexts, FrontTypeOK
<1>4. ASSUME NEW c \in Clients, Start(c) PROVE Grown
  BY <1>4 DEF Start, Grown, Contexts, FrontTypeOK
<1>5. ASSUME NEW c \in Clients, HelloFrame(c) PROVE Grown
  BY <1>5 DEF HelloFrame, ReadFrame, Register, Put, Grown, Contexts, FrontTypeOK
<1>6. ASSUME NEW c \in Clients, Announce(c) PROVE Grown
  BY <1>6 DEF Announce, Goto, Grown, Contexts, FrontTypeOK
<1>7. ASSUME NEW c \in Clients, CreateFrame(c) PROVE Grown
  BY <1>7 DEF CreateFrame, ReadFrame, Register, Put, Grown, Contexts, FrontTypeOK
<1>8. ASSUME NEW c \in Clients, CreateLocked(c) PROVE Grown
  <2>1. sid[c] \notin DOMAIN ended
    BY <1>8 DEF CreateLocked, IdsInv, InSession
  <2> QED
    BY <1>8, <2>1 DEF CreateLocked, Goto, Put, Grown, Contexts, FrontTypeOK
<1>9. ASSUME NEW c \in Clients, MapContext(c) PROVE Grown
  BY <1>9 DEF MapContext, Goto, Put, Grown, Contexts, FrontTypeOK
<1>10. ASSUME NEW c \in Clients, OwnContext(c) PROVE Grown
  BY <1>10 DEF OwnContext, Goto, Grown, Contexts, FrontTypeOK
<1>11. ASSUME NEW c \in Clients, PublishCreated(c) PROVE Grown
  BY <1>11 DEF PublishCreated, Goto, Grown, Contexts, FrontTypeOK
<1>12. ASSUME NEW c \in Clients, NEW x \in NamedContexts, AppendFrame(c, x) PROVE Grown
  BY <1>12 DEF AppendFrame, ReadFrame, Goto, Grown, Contexts, FrontTypeOK
<1>13. ASSUME NEW c \in Clients, AppendLocked(c) PROVE Grown
  BY <1>13 DEF AppendLocked, StoreAppends, Goto, Grown, Contexts, FrontTypeOK
<1>14. ASSUME NEW c \in Clients, NEW more \in BOOLEAN, PublishAppended(c, more) PROVE Grown
  BY <1>14 DEF PublishAppended, Goto, Grown, Contexts, FrontTypeOK
<1>15. ASSUME NEW c \in Clients, NEW more \in BOOLEAN, PublishMetadata(c, more) PROVE Grown
  BY <1>15 DEF PublishMetadata, Goto, Grown, Contexts, FrontTypeOK
<1>16. ASSUME NEW c \in Clients, PublishLinked(c) PROVE Grown
  BY <1>16 DEF PublishLinked, Goto, Grown, Contexts, FrontTypeOK
<1>17. ASSUME NEW c \in Clients, NEW label \in {"reply", "error"}, OtherFrame(c, label) PROVE Grown
  BY <1>17 DEF OtherFrame, ReadFrame, Goto, Grown, Contexts, FrontTypeOK
<1>18. ASSUME NEW c \in Clients, AnswerError(c) PROVE Grown
  BY <1>18 DEF AnswerError, Goto, Grown, Contexts, FrontTypeOK
<1>19. ASSUME NEW c \in Clients, Reply(c) PROVE Grown
  BY <1>19 DEF Reply, Goto, Grown, Contexts, FrontTypeOK
<1>20. ASSUME NEW c \in Clients, SocketFails(c) PROVE Grown
  <2>1. sid[c] \notin DOMAIN ended
    BY <1>20 DEF SocketFails, IdsInv, InSession
  <2> QED
    BY <1>20, <2>1 DEF SocketFails, Fail, Put, Goto, Grown, Contexts, FrontTypeOK
<1>21. ASSUME NEW c \in Clients, StoreRefuses(c) PROVE Grown
  <2>1. sid[c] \notin DOMAIN ended
    BY <1>21 DEF StoreRefuses, IdsInv, InSession
  <2> QED
    BY <1>21, <2>1 DEF StoreRefuses, Fail, Put, Goto, Grown, Contexts, FrontTypeOK
<1>22. ASSUME NEW c \in Clients, Close(c) PROVE Grown
  BY <1>22 DEF Close, Goto, Grown, Contexts, FrontTypeOK
<1>23. ASSUME NEW c \in Clients, UnregisterSession(c) PROVE Grown
  BY <1>23 DEF UnregisterSession, Drop, Goto, Grown, Contexts, FrontTypeOK
<1>24. ASSUME NEW c \in Clients, UnmapContexts(c) PROVE Grown
  BY <1>24 DEF UnmapContexts, Drop, Goto, Grown, Contexts, FrontTypeOK
<1>25. ASSUME NEW c \in Clients, Bye(c) PROVE Grown
  <2>1. sid[c] \notin DOMAIN ended
    BY <1>25 DEF Bye, IdsInv, InSession
  <2> QED
    BY <1>25, <2>1 DEF Bye, Put, Goto, Grown, Contexts, FrontTypeOK
<1>26. ASSUME NEW c \in Clients, Exit(c) PROVE Grown
  BY <1>26 DEF Exit, Grown, Contexts, FrontTypeOK
<1>27. ASSUME HttpCreate PROVE Grown
  <2>1. HttpStep
    BY <1>27 DEF HttpStep, Contexts
  <2> QED
    BY <1>27, <2>1 DEF HttpCreate, HttpRequest, Put, Grown, Contexts, FrontTypeOK
<1>28. ASSUME NEW x \in NamedContexts, NEW n \in 1 .. 3, HttpAppend(x, n) PROVE Grown
  <2>1. HttpStep
    BY <1>28 DEF HttpStep, Contexts
  <2> QED
    BY <1>28, <2>1 DEF HttpAppend, StoreAppends, HttpRequest, Grown, Contexts, FrontTypeOK
<1>29. ASSUME HttpFails PROVE Grown
  <2>1. HttpStep
    BY <1>29 DEF HttpStep, Contexts
  <2> QED
    BY <1>29, <2>1 DEF HttpFails, HttpRequest, Grown, Contexts, FrontTypeOK
<1>30. ASSUME HttpPublish PROVE Grown
  <2>1. HttpStep
    BY <1>30 DEF HttpStep, Contexts
  <2> QED
    BY <1>30, <2>1 DEF HttpPublish, HttpRequest, Grown, Contexts, FrontTypeOK
<1>31. CASE UNCHANGED <<frontVars, log>>
  BY <1>31 DEF frontVars, Grown, Contexts, FrontTypeOK
<1> QED
  BY StreamKeepsLog, <1>1, <1>2, <1>3, <1>4, <1>5, <1>6, <1>7, <1>8, <1>9, <1>10, <1>11, <1>12,
     <1>13, <1>14, <1>15, <1>16, <1>17, <1>18, <1>19, <1>20, <1>21, <1>22, <1>23, <1>24, <1>25,
     <1>26, <1>27, <1>28, <1>29, <1>30, <1>31
  DEF SessionsNext, HandlerStep, ClientStep, HttpStep, Contexts, vars, busVars

\* The log is only appended to, and what is announced stays announced.
LEMMA LogGrows ==
    ASSUME FrontTypeOK, LogTypeOK, LogStep
    PROVE  /\ \A n \in DOMAIN log : n \in DOMAIN log' /\ log'[n] = log[n]
           /\ \A x : Announced(x) => Announced(x)'
<1>1. \A n \in DOMAIN log : n \in DOMAIN log' /\ log'[n] = log[n]
  <2>1. CASE UNCHANGED log
    BY <2>1
  <2>2. ASSUME NEW e, Publishes(e) PROVE \A n \in DOMAIN log : n \in DOMAIN log' /\ log'[n] = log[n]
    BY <2>2 DEF Publishes
  <2>3. CASE \E e \in FrontEvents : Publishes(e) /\ Plain(e)
    BY <2>2, <2>3
  <2>4. CASE HttpPublish
    BY <2>2, <2>4, HttpPublishFacts
  <2>5. ASSUME NEW c \in Clients,
               Announce(c) \/ PublishCreated(c) \/ Bye(c) \/ \E more \in BOOLEAN : PublishAppended(c, more)
        PROVE  \A n \in DOMAIN log : n \in DOMAIN log' /\ log'[n] = log[n]
    BY <2>2, <2>5, PublishFacts
  <2> QED
    BY <2>1, <2>3, <2>4, <2>5 DEF LogStep
<1> QED
  BY <1>1 DEF Announced, Of

\* The steps of a request that appends.
Answering == {"describe", "link", "reply"}
RequestKept ==
    \A c \in Clients :
        /\ pc'[c] \in {"append", "appended"} =>
              pc'[c] = pc[c] /\ ctx'[c] = ctx[c] /\ turn'[c] = turn[c]
        /\ turn'[c] # 0 =>
              /\ turn'[c] = turn[c]
              /\ pc'[c] = pc[c] \/ (pc[c] \in Answering /\ pc'[c] \in Answering)
RequestStep ==
    \/ \E c \in Clients, x \in NamedContexts : AppendFrame(c, x)
    \/ \E c \in Clients : AppendLocked(c)
    \/ \E c \in Clients, more \in BOOLEAN : PublishAppended(c, more)
    \/ RequestKept

\* Every step answers one request or keeps them all.
LEMMA RequestSteps ==
    ASSUME FrontTypeOK, SlotInv, AnsweredInv, [SessionsNext]_vars
    PROVE  RequestStep
<1> USE ClientsAssumption DEF connVars, requestVars, trackerVars, storeVars, httpVars, busVars
<1>1. ASSUME NEW c \in Clients, Accept(c) PROVE RequestStep
  BY <1>1 DEF Accept, RequestStep, RequestKept, Answering, AnsweredInv, FrontTypeOK
<1>2. ASSUME AcceptFails PROVE RequestStep
  BY <1>2 DEF AcceptFails, RequestStep, RequestKept, Answering, AnsweredInv, FrontTypeOK
<1>3. ASSUME Spawn PROVE RequestStep
  BY <1>3 DEF Spawn, SlotInv, RequestStep, RequestKept, Answering, AnsweredInv, FrontTypeOK
<1>4. ASSUME NEW c \in Clients, Start(c) PROVE RequestStep
  BY <1>4 DEF Start, RequestStep, RequestKept, Answering, AnsweredInv, FrontTypeOK
<1>5. ASSUME NEW c \in Clients, HelloFrame(c) PROVE RequestStep
  BY <1>5 DEF HelloFrame, ReadFrame, Register, Put, RequestStep, RequestKept, Answering,
     AnsweredInv, FrontTypeOK
<1>6. ASSUME NEW c \in Clients, Announce(c) PROVE RequestStep
  BY <1>6 DEF Announce, Goto, RequestStep, RequestKept, Answering, AnsweredInv, FrontTypeOK
<1>7. ASSUME NEW c \in Clients, CreateFrame(c) PROVE RequestStep
  BY <1>7 DEF CreateFrame, ReadFrame, Register, Put, RequestStep, RequestKept, Answering,
     AnsweredInv, FrontTypeOK
<1>8. ASSUME NEW c \in Clients, CreateLocked(c) PROVE RequestStep
  BY <1>8 DEF CreateLocked, Goto, Put, RequestStep, RequestKept, Answering, AnsweredInv,
     FrontTypeOK
<1>9. ASSUME NEW c \in Clients, MapContext(c) PROVE RequestStep
  BY <1>9 DEF MapContext, Goto, Put, RequestStep, RequestKept, Answering, AnsweredInv,
     FrontTypeOK
<1>10. ASSUME NEW c \in Clients, OwnContext(c) PROVE RequestStep
  BY <1>10 DEF OwnContext, Goto, RequestStep, RequestKept, Answering, AnsweredInv, FrontTypeOK
<1>11. ASSUME NEW c \in Clients, PublishCreated(c) PROVE RequestStep
  BY <1>11 DEF PublishCreated, Goto, RequestStep, RequestKept, Answering, AnsweredInv,
     FrontTypeOK
<1>12. ASSUME NEW c \in Clients, NEW x \in NamedContexts, AppendFrame(c, x) PROVE RequestStep
  BY <1>12 DEF RequestStep
<1>13. ASSUME NEW c \in Clients, AppendLocked(c) PROVE RequestStep
  BY <1>13 DEF RequestStep
<1>14. ASSUME NEW c \in Clients, NEW more \in BOOLEAN, PublishAppended(c, more) PROVE RequestStep
  BY <1>14 DEF RequestStep
<1>15. ASSUME NEW c \in Clients, NEW more \in BOOLEAN, PublishMetadata(c, more) PROVE RequestStep
  BY <1>15 DEF PublishMetadata, Goto, RequestStep, RequestKept, Answering, AnsweredInv,
     FrontTypeOK
<1>16. ASSUME NEW c \in Clients, PublishLinked(c) PROVE RequestStep
  BY <1>16 DEF PublishLinked, Goto, RequestStep, RequestKept, Answering, AnsweredInv,
     FrontTypeOK
<1>17. ASSUME NEW c \in Clients, NEW label \in {"reply", "error"}, OtherFrame(c, label) PROVE RequestStep
  BY <1>17 DEF OtherFrame, ReadFrame, Goto, RequestStep, RequestKept, Answering, AnsweredInv,
     FrontTypeOK
<1>18. ASSUME NEW c \in Clients, AnswerError(c) PROVE RequestStep
  BY <1>18 DEF AnswerError, Goto, RequestStep, RequestKept, Answering, AnsweredInv, FrontTypeOK
<1>19. ASSUME NEW c \in Clients, Reply(c) PROVE RequestStep
  BY <1>19 DEF Reply, Goto, RequestStep, RequestKept, Answering, AnsweredInv, FrontTypeOK
<1>20. ASSUME NEW c \in Clients, SocketFails(c) PROVE RequestStep
  BY <1>20 DEF SocketFails, Fail, Put, Goto, RequestStep, RequestKept, Answering, AnsweredInv,
     FrontTypeOK
<1>21. ASSUME NEW c \in Clients, StoreRefuses(c) PROVE RequestStep
  BY <1>21 DEF StoreRefuses, Fail, Put, Goto, RequestStep, RequestKept, Answering, AnsweredInv,
     FrontTypeOK
<1>22. ASSUME NEW c \in Clients, Close(c) PROVE RequestStep
  BY <1>22 DEF Close, Goto, RequestStep, RequestKept, Answering, AnsweredInv, FrontTypeOK
<1>23. ASSUME NEW c \in Clients, UnregisterSession(c) PROVE RequestStep
  BY <1>23 DEF UnregisterSession, Drop, Goto, RequestStep, RequestKept, Answering, AnsweredInv,
     FrontTypeOK
<1>24. ASSUME NEW c \in Clients, UnmapContexts(c) PROVE RequestStep
  BY <1>24 DEF UnmapContexts, Drop, Goto, RequestStep, RequestKept, Answering, AnsweredInv,
     FrontTypeOK
<1>25. ASSUME NEW c \in Clients, Bye(c) PROVE RequestStep
  BY <1>25 DEF Bye, Put, Goto, RequestStep, RequestKept, Answering, AnsweredInv, FrontTypeOK
<1>26. ASSUME NEW c \in Clients, Exit(c) PROVE RequestStep
  BY <1>26 DEF Exit, RequestStep, RequestKept, Answering, AnsweredInv, FrontTypeOK
<1>27. ASSUME HttpCreate PROVE RequestStep
  BY <1>27 DEF HttpCreate, HttpRequest, Put, RequestStep, RequestKept, Answering, AnsweredInv,
     FrontTypeOK
<1>28. ASSUME NEW x \in NamedContexts, NEW n \in 1 .. 3, HttpAppend(x, n) PROVE RequestStep
  BY <1>28 DEF HttpAppend, StoreAppends, HttpRequest, RequestStep, RequestKept, Answering, AnsweredInv,
     FrontTypeOK
<1>29. ASSUME HttpFails PROVE RequestStep
  BY <1>29 DEF HttpFails, HttpRequest, RequestStep, RequestKept, Answering, AnsweredInv,
     FrontTypeOK
<1>30. ASSUME HttpPublish PROVE RequestStep
  BY <1>30 DEF HttpPublish, RequestStep, RequestKept, Answering, AnsweredInv, FrontTypeOK
<1>31. CASE UNCHANGED <<frontVars, log>>
  BY <1>31 DEF frontVars, RequestStep, RequestKept, Answering, AnsweredInv, FrontTypeOK
<1> QED
  BY StreamKeepsLog, <1>1, <1>2, <1>3, <1>4, <1>5, <1>6, <1>7, <1>8, <1>9, <1>10, <1>11, <1>12,
     <1>13, <1>14, <1>15, <1>16, <1>17, <1>18, <1>19, <1>20, <1>21, <1>22, <1>23, <1>24, <1>25,
     <1>26, <1>27, <1>28, <1>29, <1>30, <1>31
  DEF SessionsNext, HandlerStep, ClientStep, HttpStep, Contexts, vars, busVars

\* A request over HTTP finds every context announced that a session created,
\* because it takes the lock; a turn for any other is stray.
LEMMA HttpInvStep ==
    ASSUME FrontTypeOK, LogTypeOK, LockInv, IdsInv, HttpInv, AnnouncedInv, [SessionsNext]_vars
    PROVE  HttpInv'
<1> DEFINE Ok(e) == /\ e.kind \notin {"ClientConnected", "ClientDisconnected"}
                    /\ "session" \in DOMAIN e => e.session = 0
                    /\ e.kind = "TurnAppended" =>
                          \/ e.turn \in stray
                          \/ /\ e.context \in Contexts
                             /\ creator[e.context] # 0 => Announced(e.context)
<1>1. Grown /\ LogStep
  BY HistoryGrows, LogSteps
<1>2. ASSUME NEW e, Ok(e) PROVE Ok(e)'
  BY <1>1, <1>2, LogGrows DEF Grown
<1>3. \A k \in DOMAIN http : Ok(http[k])
  BY DEF HttpInv
<1>4. ASSUME \A k \in DOMAIN http' : Ok(http'[k]) PROVE HttpInv'
  BY <1>2, <1>4 DEF HttpInv
<1>5. CASE UNCHANGED http
  BY <1>3, <1>4, <1>5
<1>6. CASE HttpPublish
  <2>1. http \in Seq(FrontEvents) /\ http # <<>> /\ http' = Tail(http)
    BY <1>6 DEF HttpPublish, LogTypeOK
  <2>2. \A k \in DOMAIN http' : k + 1 \in DOMAIN http /\ http'[k] = http[k + 1]
    BY <2>1
  <2> QED
    BY <1>3, <1>4, <2>2
<1>7. CASE HttpCreate
  <2>1. Ok(Created(0, nextContext))
    BY DEF Created
  <2>2. http' = <<Created(0, nextContext)>>
    BY <1>7 DEF HttpCreate
  <2> QED
    BY <1>4, <2>1, <2>2
<1>8. CASE HttpFails
  <2>1. Ok(Failed)
    BY DEF Failed
  <2>2. http' = <<Failed>>
    BY <1>8 DEF HttpFails
  <2> QED
    BY <1>4, <2>1, <2>2
<1>9. ASSUME NEW x \in NamedContexts, NEW n \in 1 .. 3, HttpAppend(x, n) PROVE HttpInv'
  <2> DEFINE three == <<Appended(0, x, nextTurn), Described(x), Linked(x)>>
  <2>1. http' = SubSeq(three, 1, n)
    BY <1>9 DEF HttpAppend
  <2>2. \A k \in DOMAIN http' : k \in 1 .. 3 /\ http'[k] = three[k]
    BY <2>1
  <2>3. CASE x \in Contexts
    <3>1. creator[x] # 0 => Announced(x)
      <4>1. ~BeingCreated(x)
        BY <1>9, ClientsAssumption DEF HttpAppend, BeingCreated, LockInv, Holding, Creating
      <4> QED
        BY <2>3, <4>1 DEF AnnouncedInv
    <3>2. Ok(Appended(0, x, nextTurn)) /\ Ok(Described(x)) /\ Ok(Linked(x))
      BY <2>3, <3>1 DEF Appended, Described, Linked
    <3>3. \A k \in 1 .. 3 : Ok(three[k])
      BY <3>2
    <3> QED
      BY <1>4, <2>2, <3>3
  <2>4. CASE x \notin Contexts
    <3>1. nextTurn \in stray'
      BY <1>9, <2>4 DEF HttpAppend, StoreAppends, Contexts
    <3>2. \A k \in DOMAIN http' :
             /\ http'[k].kind \notin {"ClientConnected", "ClientDisconnected"}
             /\ "session" \in DOMAIN http'[k] => http'[k].session = 0
             /\ http'[k].kind = "TurnAppended" => http'[k].turn \in stray'
      BY <2>2, <3>1 DEF Appended, Described, Linked
    <3> QED
      BY <3>2 DEF HttpInv
  <2> QED
    BY <2>3, <2>4
<1> QED
  BY <1>1, <1>5, <1>6, <1>7, <1>8, <1>9 DEF Grown, HttpStep, Contexts

\* A created context is announced under the lock its creator took.
LEMMA AnnouncedStep ==
    ASSUME FrontTypeOK, LogTypeOK, SlotInv, LockInv, IdsInv, AnnouncedInv, AnsweredInv,
           [SessionsNext]_vars
    PROVE  AnnouncedInv'
<1>1. Grown /\ LogStep
  BY HistoryGrows, LogSteps
<1>2. \A x : Announced(x) => Announced(x)'
  BY <1>1, LogGrows
<1>3. ASSUME NEW c \in Clients, pc'[c] = "appended"
      PROVE  turn'[c] \in stray' \/ ctx'[c] \in Contexts'
  <2>0. pc[c] = "appended" /\ turn'[c] = turn[c] /\ ctx'[c] = ctx[c]
        => turn'[c] \in stray' \/ ctx'[c] \in Contexts'
    BY <1>1 DEF Grown, AnnouncedInv
  <2>1. ASSUME NEW d \in Clients, NEW x \in NamedContexts, AppendFrame(d, x)
        PROVE  pc[c] = "appended" /\ turn'[c] = turn[c] /\ ctx'[c] = ctx[c]
    BY <1>3, <2>1 DEF AppendFrame, Goto, FrontTypeOK
  <2>2. ASSUME NEW d \in Clients, AppendLocked(d)
        PROVE  turn'[c] \in stray' \/ ctx'[c] \in Contexts'
    <3>1. CASE c = d
      <4>1. turn'[c] = nextTurn /\ ctx'[c] = ctx[c] /\ UNCHANGED creator
        BY <2>2, <3>1 DEF AppendLocked, FrontTypeOK
      <4>2. ctx[c] \in DOMAIN creator \/ nextTurn \in stray'
        BY <2>2, <3>1 DEF AppendLocked, StoreAppends
      <4> QED
        BY <4>1, <4>2 DEF Contexts
    <3>2. CASE c # d
      BY <1>3, <2>0, <2>2, <3>2 DEF AppendLocked, Goto, FrontTypeOK
    <3> QED
      BY <3>1, <3>2
  <2>3. ASSUME NEW d \in Clients, NEW more \in BOOLEAN, PublishAppended(d, more)
        PROVE  pc[c] = "appended" /\ turn'[c] = turn[c] /\ ctx'[c] = ctx[c]
    BY <1>3, <2>3 DEF PublishAppended, Goto, FrontTypeOK, requestVars
  <2>4. CASE RequestKept
    BY <1>3, <2>0, <2>4 DEF RequestKept
  <2> QED
    BY <2>0, <2>1, <2>2, <2>3, <2>4, RequestSteps DEF RequestStep
<1>4. \A x \in Contexts' : creator'[x] # 0 => Announced(x)' \/ BeingCreated(x)'
  <2> USE DEF AnnouncedInv, Contexts
  <2>1. ASSUME UNCHANGED creator, \A x \in Contexts : BeingCreated(x) => BeingCreated(x)'
        PROVE  \A x \in Contexts' : creator'[x] # 0 => Announced(x)' \/ BeingCreated(x)'
    BY <1>2, <2>1
  <2>2. ASSUME NEW c \in Clients, HelloFrame(c) \/ CreateFrame(c)
        PROVE  UNCHANGED creator /\ \A x \in Contexts : BeingCreated(x) => BeingCreated(x)'
    BY <2>2 DEF HelloFrame, CreateFrame, ReadFrame, storeVars, requestVars, BeingCreated,
       Creating, FrontTypeOK
  <2>3. ASSUME NEW c \in Clients, MapContext(c) \/ OwnContext(c)
        PROVE  UNCHANGED creator /\ \A x \in Contexts : BeingCreated(x) => BeingCreated(x)'
    BY <2>3 DEF MapContext, OwnContext, Goto, storeVars, requestVars, BeingCreated, Creating,
       FrontTypeOK
  <2>4. ASSUME NEW c \in Clients, UnregisterSession(c) \/ UnmapContexts(c) \/ Bye(c)
        PROVE  UNCHANGED creator /\ \A x \in Contexts : BeingCreated(x) => BeingCreated(x)'
    BY <2>4 DEF UnregisterSession, UnmapContexts, Bye, Goto, storeVars, requestVars,
       BeingCreated, Creating, FrontTypeOK
  <2>5. CASE Bystander
    <3>1. UNCHANGED creator /\ \A x \in Contexts : BeingCreated(x) => BeingCreated(x)'
      BY <2>5 DEF Bystander, Tracking, BeingCreated
    <3> QED
      BY <2>1, <3>1
  <2>6. ASSUME NEW c \in Clients, CreateLocked(c), NEW x \in Contexts', creator'[x] # 0
        PROVE  Announced(x)' \/ BeingCreated(x)'
    <3>1. /\ pc'[c] = "map" /\ ctx'[c] = nextContext
          /\ DOMAIN creator' = DOMAIN creator \cup {nextContext}
          /\ x \in Contexts => creator'[x] = creator[x]
      BY <2>6, <1>1 DEF CreateLocked, Goto, Put, FrontTypeOK, Grown
    <3>2. CASE x = nextContext
      BY <3>1, <3>2 DEF BeingCreated, Creating
    <3>3. CASE x \in Contexts
      <4>1. ~BeingCreated(x)
        BY <2>6, ClientsAssumption DEF CreateLocked, BeingCreated, LockInv, Holding, Creating
      <4> QED
        BY <1>2, <2>6, <3>1, <3>3, <4>1
    <3> QED
      BY <3>1, <3>2, <3>3
  <2>7. ASSUME NEW c \in Clients, PublishCreated(c), NEW x \in Contexts', creator'[x] # 0
        PROVE  Announced(x)' \/ BeingCreated(x)'
    <3>1. Publishes(Created(sid[c], ctx[c]))
      BY <2>7, PublishFacts
    <3>2. x = ctx[c] => Announced(x)'
      BY <3>1 DEF Publishes, Announced, Of, Created
    <3>3. UNCHANGED <<creator, ctx>> /\ \A d \in Clients : d # c => pc'[d] = pc[d]
      BY <2>7 DEF PublishCreated, Goto, requestVars, FrontTypeOK
    <3>4. BeingCreated(x) => x = ctx[c] \/ BeingCreated(x)'
      BY <3>3 DEF BeingCreated
    <3> QED
      BY <1>2, <2>7, <3>2, <3>3, <3>4
  <2>8. ASSUME HttpCreate, NEW x \in Contexts', creator'[x] # 0
        PROVE  Announced(x)' \/ BeingCreated(x)'
    <3>1. x \in Contexts /\ creator'[x] = creator[x]
      BY <1>1, <2>8 DEF HttpCreate, Put, FrontTypeOK, Grown
    <3>2. BeingCreated(x) => BeingCreated(x)'
      BY <2>8 DEF HttpCreate, connVars, requestVars, BeingCreated
    <3> QED
      BY <1>2, <2>8, <3>1, <3>2
  <2> QED
    BY <2>1, <2>2, <2>3, <2>4, <2>5, <2>6, <2>7, <2>8, TrackerSteps DEF TrackerStep
<1> QED
  BY <1>3, <1>4 DEF AnnouncedInv

\* A turn is announced after its context, by whichever protocol it came.
LEMMA AppendedStep ==
    ASSUME FrontTypeOK, LogTypeOK, LockInv, IdsInv, HttpInv, AnnouncedInv, AppendedInv,
           [SessionsNext]_vars
    PROVE  AppendedInv'
<1>1. Grown /\ LogStep
  BY HistoryGrows, LogSteps
<1> DEFINE Good(n) == \/ log[n].turn \in stray
                      \/ /\ log[n].context \in Contexts
                         /\ creator[log[n].context] # 0 =>
                               \E m \in Of("ContextCreated") : m < n /\ log[m].context = log[n].context
<1>2. ASSUME NEW n \in Of("TurnAppended") PROVE Good(n)'
  <2>1. /\ n \in DOMAIN log' /\ log'[n] = log[n] /\ Good(n)
        /\ \A m \in DOMAIN log : m \in DOMAIN log' /\ log'[m] = log[m]
    BY <1>1, LogGrows DEF Of, AppendedInv
  <2>2. CASE log[n].turn \in stray
    BY <1>1, <2>1, <2>2 DEF Grown
  <2>3. CASE log[n].turn \notin stray
    <3>1. /\ log[n].context \in Contexts /\ log[n].context \in Contexts'
          /\ creator'[log[n].context] = creator[log[n].context]
      BY <1>1, <2>1, <2>3 DEF Grown
    <3> QED
      BY <2>1, <2>3, <3>1 DEF Of
  <2> QED
    BY <2>2, <2>3
<1>3. ASSUME NEW e, Publishes(e),
             e.kind = "TurnAppended" =>
                \/ e.turn \in stray
                \/ e.context \in Contexts /\ (creator[e.context] # 0 => Announced(e.context))
      PROVE  AppendedInv'
  <2>1. ASSUME NEW n \in Of("TurnAppended")' PROVE Good(n)'
    <3>1. CASE n \in DOMAIN log
      BY <1>2, <1>3, <2>1, <3>1 DEF Of, Publishes
    <3>2. CASE n = Len(log) + 1
      <4>0. n \in DOMAIN log' /\ log'[n] = e /\ e.kind = "TurnAppended"
        BY <1>3, <2>1, <3>2 DEF Of, Publishes
      <4>3. CASE e.turn \in stray
        BY <1>1, <4>0, <4>3 DEF Grown
      <4> SUFFICES ASSUME e.turn \notin stray PROVE Good(n)'
        BY <4>3
      <4>1. /\ n \in DOMAIN log' /\ log'[n] = e /\ e.kind = "TurnAppended"
            /\ e.context \in Contexts'
            /\ creator'[e.context] = creator[e.context]
        BY <1>1, <1>3, <4>0 DEF Grown
      <4>2. ASSUME creator[e.context] # 0
            PROVE  \E m \in Of("ContextCreated")' : m < n /\ log'[m].context = e.context
        BY <1>3, <3>2, <4>1, <4>2 DEF Of, Publishes, Announced
      <4> QED
        BY <4>1, <4>2
    <3> QED
      BY <1>3, <2>1, <3>1, <3>2 DEF Publishes, Of
  <2> QED
    BY <2>1 DEF AppendedInv
<1>4. CASE UNCHANGED log
  BY <1>2, <1>4 DEF AppendedInv, Of
<1>5. ASSUME NEW c \in Clients, Announce(c) \/ PublishCreated(c) \/ Bye(c) PROVE AppendedInv'
  BY <1>3, <1>5, PublishFacts DEF Connected, Created, Disconnected
<1>6. ASSUME NEW c \in Clients, NEW more \in BOOLEAN, PublishAppended(c, more) PROVE AppendedInv'
  <2>1. pc[c] = "appended" /\ (turn[c] \in stray \/ ctx[c] \in Contexts)
    BY <1>6 DEF PublishAppended, AnnouncedInv
  <2>2. ~BeingCreated(ctx[c])
    BY <2>1 DEF BeingCreated, LockInv, Holding, Creating
  <2>3. ctx[c] \in Contexts /\ creator[ctx[c]] # 0 => Announced(ctx[c])
    BY <2>2 DEF AnnouncedInv
  <2> QED
    BY <1>3, <1>6, <2>1, <2>3, PublishFacts DEF Appended
<1>7. CASE HttpPublish
  BY <1>3, <1>7, HttpPublishFacts DEF HttpInv
<1>8. ASSUME NEW e \in FrontEvents, Publishes(e), Plain(e) PROVE AppendedInv'
  BY <1>3, <1>8 DEF Plain
<1> QED
  BY <1>1, <1>4, <1>5, <1>6, <1>7, <1>8 DEF LogStep

\* Ids are given out and announced under the same lock.
LEMMA TurnsStep ==
    ASSUME FrontTypeOK, LogTypeOK, SlotInv, LockInv, IdsInv, HttpInv, TurnsInv, AnsweredInv,
           [SessionsNext]_vars
    PROVE  TurnsInv'
<1>1. Grown /\ LogStep /\ RequestStep
  BY HistoryGrows, LogSteps, RequestSteps
<1> DEFINE Numbered(n) == log[n].kind = "TurnAppended" /\ log[n].session # 0
<1>2. /\ \A n \in DOMAIN log : Numbered(n) => log[n].turn < nextTurn /\ log[n].turn \in Nat
      /\ \A m, n \in DOMAIN log : m < n /\ Numbered(m) /\ Numbered(n) => log[m].turn < log[n].turn
      /\ \A c \in Clients : pc[c] = "appended" =>
            turn[c] < nextTurn /\ \A n \in DOMAIN log : Numbered(n) => log[n].turn < turn[c]
  <2>1. \A n \in DOMAIN log : log[n].kind = "TurnAppended" => log[n].turn \in Nat
    <3>1. \A n \in DOMAIN log : log[n] \in FrontEvents
      BY DEF LogTypeOK
    <3>2. \A e \in FrontEvents : e.kind = "TurnAppended" => e.turn \in Nat
      BY DEF FrontEvents
    <3> QED
      BY <3>1, <3>2
  <2> QED
    BY <2>1 DEF TurnsInv, Of
<1>3. ASSUME /\ \A n \in DOMAIN log' : Numbered(n)' => log'[n].turn < nextTurn'
             /\ \A m, n \in DOMAIN log' : m < n /\ Numbered(m)' /\ Numbered(n)' => log'[m].turn < log'[n].turn
             /\ \A c \in Clients : pc'[c] = "appended" =>
                   turn'[c] < nextTurn' /\ \A n \in DOMAIN log' : Numbered(n)' => log'[n].turn < turn'[c]
      PROVE  TurnsInv'
  BY <1>3 DEF TurnsInv, Of
\* Nothing with a number is published.
<1>4. ASSUME \A n \in DOMAIN log' : Numbered(n)' => n \in DOMAIN log /\ log'[n] = log[n] /\ Numbered(n),
             RequestKept \/ \E c \in Clients, x \in NamedContexts : AppendFrame(c, x)
      PROVE  TurnsInv'
  <2>1. \A c \in Clients : pc'[c] = "appended" => pc[c] = "appended" /\ turn'[c] = turn[c]
    <3>1. CASE RequestKept
      BY <3>1 DEF RequestKept
    <3>2. ASSUME NEW d \in Clients, NEW x \in NamedContexts, AppendFrame(d, x)
          PROVE  \A c \in Clients : pc'[c] = "appended" => pc[c] = "appended" /\ turn'[c] = turn[c]
      BY <3>2 DEF AppendFrame, Goto, FrontTypeOK
    <3> QED
      BY <1>4, <3>1, <3>2
  <2>2. nextTurn \in Nat /\ nextTurn' \in Nat /\ nextTurn <= nextTurn'
    BY <1>1 DEF Grown, FrontTypeOK
  <2>3. \A c \in Clients : turn[c] \in Nat
    BY DEF FrontTypeOK
  <2> QED
    BY <1>2, <1>3, <1>4, <2>1, <2>2, <2>3
<1>5. ASSUME NEW c \in Clients, AppendLocked(c) PROVE TurnsInv'
  <2>1. /\ UNCHANGED log /\ nextTurn' = nextTurn + 1 /\ nextTurn \in Nat
        /\ turn'[c] = nextTurn /\ pc'[c] = "appended"
        /\ \A d \in Clients : d # c => pc'[d] = pc[d] /\ turn'[d] = turn[d]
        /\ \A d \in Clients : turn[d] \in Nat
    BY <1>5 DEF AppendLocked, StoreAppends, Goto, FrontTypeOK, busVars
  <2> QED
    BY <1>2, <1>3, <2>1
<1>6. ASSUME NEW c \in Clients, NEW more \in BOOLEAN, PublishAppended(c, more) PROVE TurnsInv'
  <2>1. Publishes(Appended(sid[c], ctx[c], turn[c]))
    BY <1>6, PublishFacts
  <2>2. /\ pc[c] = "appended" /\ pc'[c] # "appended" /\ UNCHANGED <<turn, nextTurn>>
        /\ \A d \in Clients : d # c => pc[d] # "appended" /\ pc'[d] = pc[d]
    BY <1>6 DEF PublishAppended, Goto, FrontTypeOK, requestVars, LockInv, Holding
  <2>3. /\ \A n \in DOMAIN log' : n \in DOMAIN log \/ n = Len(log) + 1
        /\ \A n \in DOMAIN log : log'[n] = log[n] /\ n < Len(log) + 1 /\ n \in Nat
        /\ log'[Len(log) + 1].turn = turn[c] /\ Len(log) \in Nat
    BY <2>1 DEF Publishes, Appended
  <2> QED
    BY <1>2, <1>3, <2>2, <2>3
<1>7. ASSUME NEW e, Publishes(e), e.kind = "TurnAppended" => e.session = 0
      PROVE  \A n \in DOMAIN log' : Numbered(n)' => n \in DOMAIN log /\ log'[n] = log[n] /\ Numbered(n)
  BY <1>7 DEF Publishes
<1>8. \/ \A n \in DOMAIN log' : Numbered(n)' => n \in DOMAIN log /\ log'[n] = log[n] /\ Numbered(n)
      \/ \E c \in Clients, more \in BOOLEAN : PublishAppended(c, more)
  <2>1. CASE UNCHANGED log
    BY <2>1
  <2>2. ASSUME NEW c \in Clients, Announce(c) \/ PublishCreated(c) \/ Bye(c)
        PROVE  \A n \in DOMAIN log' : Numbered(n)' => n \in DOMAIN log /\ log'[n] = log[n] /\ Numbered(n)
    BY <1>7, <2>2, PublishFacts DEF Connected, Created, Disconnected
  <2>3. CASE HttpPublish
    <3>1. Publishes(Head(http)) /\ (Head(http).kind = "TurnAppended" => "session" \in DOMAIN Head(http))
      <4>1. \A e \in FrontEvents : e.kind = "TurnAppended" => "session" \in DOMAIN e
        BY DEF FrontEvents
      <4> QED
        BY <2>3, <4>1, HttpPublishFacts DEF Publishes
    <3>2. Head(http).kind = "TurnAppended" => Head(http).session = 0
      BY <2>3, <3>1, HttpPublishFacts DEF HttpInv
    <3> QED
      BY <1>7, <3>1, <3>2
  <2>4. ASSUME NEW e \in FrontEvents, Publishes(e), Plain(e)
        PROVE  \A n \in DOMAIN log' : Numbered(n)' => n \in DOMAIN log /\ log'[n] = log[n] /\ Numbered(n)
    BY <1>7, <2>4 DEF Plain
  <2> QED
    BY <1>1, <2>1, <2>2, <2>3, <2>4 DEF LogStep
<1> QED
  BY <1>1, <1>4, <1>5, <1>6, <1>8 DEF RequestStep

\* The event comes before the answer.
LEMMA AnsweredStep ==
    ASSUME FrontTypeOK, LogTypeOK, SlotInv, AnsweredInv, [SessionsNext]_vars
    PROVE  AnsweredInv'
<1>1. LogStep /\ RequestStep
  BY LogSteps, RequestSteps
<1> DEFINE Told(t) == \E n \in Of("TurnAppended") : log[n].turn = t
<1>2. ASSUME NEW t, Told(t) PROVE \E n \in Of("TurnAppended")' : log'[n].turn = t
  <2>1. \A n \in DOMAIN log : n \in DOMAIN log' /\ log'[n] = log[n]
    BY <1>1, LogGrows
  <2> QED
    BY <1>2, <2>1 DEF Of
<1> SUFFICES ASSUME NEW c \in Clients, turn'[c] # 0
             PROVE  \/ pc'[c] = "appended"
                    \/ /\ pc'[c] \in Answering
                       /\ \E n \in Of("TurnAppended")' : log'[n].turn = turn'[c]
  BY DEF AnsweredInv, Answering
<1>3. turn[c] # 0 => pc[c] = "appended" \/ (pc[c] \in Answering /\ Told(turn[c]))
  BY DEF AnsweredInv, Answering
<1>4. CASE RequestKept
  <2>1. turn'[c] = turn[c] /\ (pc'[c] = pc[c] \/ (pc[c] \in Answering /\ pc'[c] \in Answering))
    BY <1>4 DEF RequestKept
  <2>2. pc[c] \in Answering => pc[c] # "appended"
    BY DEF Answering
  <2> QED
    BY <1>2, <1>3, <2>1, <2>2
<1>5. ASSUME NEW d \in Clients, NEW x \in NamedContexts, AppendFrame(d, x)
      PROVE  turn'[c] = turn[c] /\ pc'[c] = pc[c]
  <2>1. turn[d] = 0
    BY <1>5 DEF AppendFrame, ReadFrame, AnsweredInv
  <2> QED
    BY <1>5, <2>1 DEF AppendFrame, Goto, FrontTypeOK
<1>6. ASSUME NEW d \in Clients, AppendLocked(d)
      PROVE  (turn'[c] = turn[c] /\ pc'[c] = pc[c]) \/ pc'[c] = "appended"
  BY <1>6 DEF AppendLocked, StoreAppends, Goto, FrontTypeOK
<1>7. ASSUME NEW d \in Clients, NEW more \in BOOLEAN, PublishAppended(d, more)
      PROVE  \/ turn'[c] = turn[c] /\ pc'[c] = pc[c]
             \/ pc'[c] \in Answering /\ \E n \in Of("TurnAppended")' : log'[n].turn = turn'[c]
  <2>1. Publishes(Appended(sid[d], ctx[d], turn[d]))
    BY <1>7, PublishFacts
  <2>2. \E n \in Of("TurnAppended")' : log'[n].turn = turn[d]
    BY <2>1 DEF Publishes, Of, Appended
  <2>3. UNCHANGED turn /\ pc'[d] \in Answering /\ (c # d => pc'[c] = pc[c])
    BY <1>7 DEF PublishAppended, Goto, FrontTypeOK, requestVars, Answering
  <2> QED
    BY <2>2, <2>3
<1>8. ASSUME turn'[c] = turn[c], pc'[c] = pc[c]
      PROVE  \/ pc'[c] = "appended"
             \/ pc'[c] \in Answering /\ \E n \in Of("TurnAppended")' : log'[n].turn = turn'[c]
  BY <1>2, <1>3, <1>8
<1> QED
  BY <1>1, <1>4, <1>5, <1>6, <1>7, <1>8 DEF RequestStep

\* After its last event a session has no handler that could publish another, nor
\* create another context.
LEMMA GoneStep ==
    ASSUME FrontTypeOK, LogTypeOK, IdsInv, HttpInv, OrphanedInv, GoneInv, [SessionsNext]_vars
    PROVE  GoneInv'
<1>1. Grown /\ LogStep
  BY HistoryGrows, LogSteps
<1> DEFINE Owned(i)     == {x \in Contexts : creator[x] = i}
           OwnedNext(i) == {x \in Contexts' : creator'[x] = i}
<1>2. ASSUME NEW i \in DOMAIN ended PROVE OwnedNext(i) = Owned(i)
  BY <1>1, <1>2 DEF Grown
<1>3. /\ DOMAIN log = 1 .. Len(log) /\ Len(log) \in Nat
      /\ \A n \in Of("ClientDisconnected") :
            /\ log[n].session \in DOMAIN ended /\ ended[log[n].session] = "clean"
            /\ log[n].contexts = Owned(log[n].session)
            /\ \A m \in (n + 1) .. Len(log) :
                  "session" \in DOMAIN log[m] => log[m].session # log[n].session
  BY DEF GoneInv, LogTypeOK
<1>4. CASE UNCHANGED log
  <2>1. Of("ClientDisconnected")' = Of("ClientDisconnected")
    BY <1>4 DEF Of
  <2>2. ASSUME NEW n \in Of("ClientDisconnected")
        PROVE  /\ log[n].session \in DOMAIN ended' /\ ended'[log[n].session] = "clean"
               /\ log[n].contexts = OwnedNext(log[n].session)
    BY <1>1, <1>2, <1>3, <1>4, <2>2 DEF Grown
  <2> QED
    BY <1>3, <1>4, <2>1, <2>2 DEF GoneInv
\* Whatever is published is not about a session that has ended.
<1>5. ASSUME NEW e, Publishes(e),
             "session" \in DOMAIN e => e.session \notin DOMAIN ended,
             e.kind = "ClientDisconnected" =>
                /\ e.session \in DOMAIN ended' /\ ended'[e.session] = "clean"
                /\ e.contexts = OwnedNext(e.session)
      PROVE  GoneInv'
  <2>1. ASSUME NEW n \in Of("ClientDisconnected")'
        PROVE  /\ log'[n].session \in DOMAIN ended' /\ ended'[log'[n].session] = "clean"
               /\ log'[n].contexts = OwnedNext(log'[n].session)
               /\ \A m \in (n + 1) .. Len(log') :
                     "session" \in DOMAIN log'[m] => log'[m].session # log'[n].session
    <3>1. CASE n = Len(log) + 1
      BY <1>5, <2>1, <3>1 DEF Publishes, Of
    <3>2. CASE n \in DOMAIN log
      <4>1. n \in Of("ClientDisconnected") /\ log'[n] = log[n] /\ n \in Nat
        BY <1>5, <2>1, <3>2 DEF Publishes, Of
      <4>2. /\ log[n].session \in DOMAIN ended' /\ ended'[log[n].session] = "clean"
            /\ log[n].contexts = OwnedNext(log[n].session)
        BY <1>1, <1>2, <1>3, <4>1 DEF Grown
      <4>3. \A m \in (n + 1) .. Len(log') :
               "session" \in DOMAIN log'[m] => log'[m].session # log[n].session
        BY <1>3, <1>5, <4>1 DEF Publishes
      <4> QED
        BY <4>1, <4>2, <4>3
    <3> QED
      BY <1>5, <2>1, <3>1, <3>2 DEF Publishes, Of
  <2> QED
    BY <2>1 DEF GoneInv
<1>6. ASSUME NEW c \in Clients, Announce(c) \/ PublishCreated(c) \/ \E more \in BOOLEAN : PublishAppended(c, more)
      PROVE  GoneInv'
  <2>1. sid[c] \notin DOMAIN ended
    BY <1>6 DEF Announce, PublishCreated, PublishAppended, IdsInv, InSession
  <2> QED
    BY <1>5, <1>6, <2>1, PublishFacts DEF Connected, Created, Appended
<1>7. ASSUME NEW c \in Clients, Bye(c) PROVE GoneInv'
  <2>1. sid[c] \notin DOMAIN ended /\ orphaned[c] = Owned(sid[c])
    BY <1>7 DEF Bye, IdsInv, InSession, OrphanedInv
  <2>2. sid[c] \in DOMAIN ended' /\ ended'[sid[c]] = "clean" /\ UNCHANGED creator
    BY <1>7 DEF Bye, Put, storeVars
  <2>3. Owned(sid[c]) = OwnedNext(sid[c])
    BY <2>2 DEF Contexts
  <2> DEFINE e == Disconnected(sid[c], orphaned[c])
  <2>4. e.session = sid[c] /\ e.contexts = Owned(sid[c])
    BY <2>1 DEF Disconnected
  <2>5. Publishes(e)
    BY <1>7, PublishFacts
  <2> HIDE DEF e
  <2> QED
    BY <1>5, <2>1, <2>2, <2>3, <2>4, <2>5
<1>8. CASE HttpPublish
  <2>1. 0 \notin DOMAIN ended
    BY DEF FrontTypeOK
  <2> QED
    BY <1>5, <1>8, <2>1, HttpPublishFacts DEF HttpInv
<1>9. ASSUME NEW e \in FrontEvents, Publishes(e), Plain(e) PROVE GoneInv'
  BY <1>5, <1>9 DEF Plain
<1> QED
  BY <1>1, <1>4, <1>6, <1>7, <1>8, <1>9 DEF LogStep

-----------------------------------------------------------------------------
(* The theorems.                                                           *)

\* The server starts with no connection, an empty tracker and an empty log.
LEMMA SessionsInvInit == SessionsInit => SessionsInv
<1> SUFFICES ASSUME SessionsInit PROVE SessionsInv
  OBVIOUS
<1>1. /\ log = <<>> /\ http = <<>> /\ DOMAIN sessions = {} /\ DOMAIN contextSession = {}
      /\ DOMAIN ended = {} /\ nextSession = 1
      /\ \A c \in Clients : pc[c] = "none" /\ turn[c] = 0
      /\ \A x \in Contexts : creator[x] = 0
  BY DEF SessionsInit, BusInit, NoMap, Contexts
<1>2. FrontTypeOK /\ LogTypeOK
  BY <1>1, FrontTypeInit DEF LogTypeOK
<1>3. SlotInv /\ LockInv
  BY ClientsAssumption, <1>1 DEF SessionsInit, SlotInv, LockInv, Holding
<1>4. IdsInv /\ RegisteredInv
  BY <1>1 DEF IdsInv, LiveIds, InSession, RegisteredInv, Open, Creating
<1>5. CreatingInv /\ MappedInv /\ OwnedInv /\ TracedInv /\ OrphanedInv
  BY <1>1 DEF CreatingInv, Creating, MappedInv, OwnedInv, TracedInv, OrphanedInv
<1>6. HttpInv /\ AnnouncedInv /\ AppendedInv /\ TurnsInv /\ AnsweredInv /\ GoneInv
  BY <1>1 DEF HttpInv, AnnouncedInv, AppendedInv, TurnsInv, AnsweredInv, GoneInv, Of
<1> QED
  BY <1>2, <1>3, <1>4, <1>5, <1>6 DEF SessionsInv

\* Every step keeps the whole inductive invariant, part by part.
LEMMA SessionsInvStep == SessionsInv /\ [SessionsNext]_vars => SessionsInv'
<1> SUFFICES ASSUME SessionsInv, [SessionsNext]_vars PROVE SessionsInv'
  OBVIOUS
<1> USE DEF SessionsInv
<1>1. FrontTypeOK' /\ LogTypeOK' /\ SlotInv' /\ LockInv' /\ IdsInv' /\ RegisteredInv'
  BY FrontTypeStep, LogTypeStep, SlotStep, LockStep, IdsStep, RegisteredStep DEF IdsInv
<1>2. CreatingInv' /\ MappedInv' /\ OwnedInv' /\ TracedInv' /\ OrphanedInv'
  BY CreatingStep, MappedStep, OwnedStep, TracedStep, OrphanedStep
<1>3. HttpInv' /\ AnnouncedInv' /\ AppendedInv' /\ TurnsInv' /\ AnsweredInv' /\ GoneInv'
  BY HttpInvStep, AnnouncedStep, AppendedStep, TurnsStep, AnsweredStep, GoneStep
<1> QED
  BY <1>1, <1>2, <1>3

\* The inductive invariant holds in every reachable state of the front end.
LEMMA SessionsInvariant == SessionsSpec => []SessionsInv
  BY SessionsInvInit, SessionsInvStep, PTL DEF SessionsSpec

\* The two maps of the session tracker agree, whatever the interleaving of the
\* handlers of all connections, and only a connection that ended with an error
\* stays registered (SessionTracker::add_context, unregister).
THEOREM TrackerCorrect == SessionsSpec => []TrackerAgrees
<1>1. SessionsInv => TrackerAgrees
  <2> SUFFICES ASSUME SessionsInv PROVE TrackerAgrees
    OBVIOUS
  <2> USE DEF SessionsInv
  <2>1. ASSUME NEW x \in DOMAIN contextSession
        PROVE  \/ /\ contextSession[x] \in DOMAIN sessions
                  /\ x \in sessions[contextSession[x]]
               \/ \E c \in Clients : sid[c] = contextSession[x] /\ pc[c] \in {"own", "unmap"}
    <3>1. x \in Contexts /\ contextSession[x] = creator[x] /\ creator[x] # 0
      BY <2>1 DEF MappedInv
    <3>2. CASE creator[x] \in DOMAIN sessions
      <4>1. x \in sessions[creator[x]] \/ Pending(x)
        BY <3>1, <3>2 DEF OwnedInv
      <4>2. ASSUME Pending(x) PROVE \E c \in Clients : sid[c] = contextSession[x] /\ pc[c] = "own"
        BY <2>1, <3>1, <4>2 DEF Pending, CreatingInv, Creating
      <4> QED
        BY <3>1, <3>2, <4>1, <4>2
    <3>3. CASE creator[x] \notin DOMAIN sessions
      BY <2>1, <3>1, <3>3 DEF TracedInv, Forgotten, Forgetting
    <3> QED
      BY <3>2, <3>3
  <2>2. \A i \in DOMAIN sessions : \A x \in sessions[i] :
           x \in DOMAIN contextSession /\ contextSession[x] = i
    BY DEF MappedInv
  <2>3. \A i \in DOMAIN sessions :
           \/ \E c \in Clients : Running(c) /\ sid[c] = i
           \/ i \in DOMAIN ended /\ ended[i] # "clean"
    BY DEF RegisteredInv, IdsInv, InSession, Running, FrontTypeOK
  <2> QED
    BY <2>1, <2>2, <2>3 DEF TrackerAgrees
<1> QED
  BY <1>1, SessionsInvariant, PTL

\* Events tell of a context before they tell of its turns, of the turns in the
\* order of their ids, and before the append is acknowledged (handle_client
\* publishes both under the store's lock).  Only a turn that append_turn took for
\* an id before its context was created is announced ahead of the context.
THEOREM EventOrderCorrect == SessionsSpec => []TurnEventsOrdered
<1>1. SessionsInv => TurnEventsOrdered
  BY DEF SessionsInv, AppendedInv, TurnsInv, AnsweredInv, TurnEventsOrdered
<1> QED
  BY <1>1, SessionsInvariant, PTL

\* ClientDisconnected names all its session created, forgets it, and is its last
\* event (handle_client after its loop).
THEOREM DisconnectCorrect == SessionsSpec => []DisconnectComplete
<1>1. SessionsInv => DisconnectComplete
  <2> SUFFICES ASSUME SessionsInv, NEW n \in Of("ClientDisconnected"), NEW i, i = log[n].session
               PROVE  /\ log[n].contexts = {x \in Contexts : creator[x] = i}
                      /\ i \notin DOMAIN sessions
                      /\ \A x \in log[n].contexts : x \notin DOMAIN contextSession
                      /\ \A m \in (n + 1) .. Len(log) :
                            "session" \in DOMAIN log[m] => log[m].session # i
    BY DEF DisconnectComplete
  <2> USE DEF SessionsInv
  <2>1. /\ i \in DOMAIN ended /\ ended[i] = "clean"
        /\ log[n].contexts = {x \in Contexts : creator[x] = i}
        /\ \A m \in (n + 1) .. Len(log) : "session" \in DOMAIN log[m] => log[m].session # i
    BY DEF GoneInv
  <2>2. i \notin DOMAIN sessions
    BY <2>1 DEF RegisteredInv
  <2>3. ASSUME NEW x \in Contexts, creator[x] = i PROVE x \notin DOMAIN contextSession
    <3>1. i # 0
      BY <2>1 DEF FrontTypeOK
    <3> QED
      BY <2>1, <2>2, <2>3, <3>1 DEF TracedInv, Forgotten, Forgetting, IdsInv, InSession
  <2> QED
    BY <2>1, <2>2, <2>3
<1> QED
  BY <1>1, SessionsInvariant, PTL

-----------------------------------------------------------------------------
(* The front end uses the bus as EventBus allows it to be used, so what is *)
(* proved of the bus alone holds of the server.                            *)

Bus == INSTANCE EventBusProofs WITH Events <- FrontEvents

BusStep ==
    \/ UNCHANGED busVars
    \/ \E e \in FrontEvents : Publish(e) /\ UNCHANGED streamVars
    \/ \E s \in Subscribers : StreamNext(s)


\* No step of the front end touches the bus but through publish().
LEMMA BusSteps ==
    ASSUME FrontTypeOK, LogTypeOK, [SessionsNext]_vars
    PROVE  BusStep
<1> USE ClientsAssumption DEF connVars, requestVars, trackerVars, storeVars, httpVars, busVars
<1>1. ASSUME NEW c \in Clients, Accept(c) PROVE BusStep
  BY <1>1 DEF Accept, BusStep
<1>2. ASSUME AcceptFails PROVE BusStep
  BY <1>2 DEF AcceptFails, BusStep
<1>3. ASSUME Spawn PROVE BusStep
  BY <1>3 DEF Spawn, BusStep
<1>4. ASSUME NEW c \in Clients, Start(c) PROVE BusStep
  BY <1>4 DEF Start, BusStep
<1>5. ASSUME NEW c \in Clients, HelloFrame(c) PROVE BusStep
  BY <1>5 DEF HelloFrame, ReadFrame, Register, Put, BusStep
<1>6. ASSUME NEW c \in Clients, Announce(c) PROVE BusStep
  <2>1. Connected(sid[c]) \in FrontEvents
    BY EventFields DEF FrontTypeOK
  <2> QED
    BY <1>6, <2>1 DEF Announce, BusStep
<1>7. ASSUME NEW c \in Clients, CreateFrame(c) PROVE BusStep
  BY <1>7 DEF CreateFrame, ReadFrame, Register, Put, BusStep
<1>8. ASSUME NEW c \in Clients, CreateLocked(c) PROVE BusStep
  BY <1>8 DEF CreateLocked, Goto, Put, BusStep
<1>9. ASSUME NEW c \in Clients, MapContext(c) PROVE BusStep
  BY <1>9 DEF MapContext, Goto, Put, BusStep
<1>10. ASSUME NEW c \in Clients, OwnContext(c) PROVE BusStep
  BY <1>10 DEF OwnContext, Goto, BusStep
<1>11. ASSUME NEW c \in Clients, PublishCreated(c) PROVE BusStep
  <2>1. Created(sid[c], ctx[c]) \in FrontEvents
    BY EventFields DEF FrontTypeOK
  <2> QED
    BY <1>11, <2>1 DEF PublishCreated, BusStep
<1>12. ASSUME NEW c \in Clients, NEW x \in NamedContexts, AppendFrame(c, x) PROVE BusStep
  BY <1>12 DEF AppendFrame, ReadFrame, Goto, BusStep
<1>13. ASSUME NEW c \in Clients, AppendLocked(c) PROVE BusStep
  BY <1>13 DEF AppendLocked, StoreAppends, Goto, BusStep
<1>14. ASSUME NEW c \in Clients, NEW more \in BOOLEAN, PublishAppended(c, more) PROVE BusStep
  <2>1. Appended(sid[c], ctx[c], turn[c]) \in FrontEvents
    BY EventFields DEF FrontTypeOK
  <2> QED
    BY <1>14, <2>1 DEF PublishAppended, BusStep
<1>15. ASSUME NEW c \in Clients, NEW more \in BOOLEAN, PublishMetadata(c, more) PROVE BusStep
  <2>1. Described(ctx[c]) \in FrontEvents
    BY EventFields DEF FrontTypeOK
  <2> QED
    BY <1>15, <2>1 DEF PublishMetadata, BusStep
<1>16. ASSUME NEW c \in Clients, PublishLinked(c) PROVE BusStep
  <2>1. Linked(ctx[c]) \in FrontEvents
    BY EventFields DEF FrontTypeOK
  <2> QED
    BY <1>16, <2>1 DEF PublishLinked, BusStep
<1>17. ASSUME NEW c \in Clients, NEW label \in {"reply", "error"}, OtherFrame(c, label) PROVE BusStep
  BY <1>17 DEF OtherFrame, ReadFrame, Goto, BusStep
<1>18. ASSUME NEW c \in Clients, AnswerError(c) PROVE BusStep
  <2>1. Failed \in FrontEvents
    BY EventFields DEF FrontTypeOK
  <2> QED
    BY <1>18, <2>1 DEF AnswerError, BusStep
<1>19. ASSUME NEW c \in Clients, Reply(c) PROVE BusStep
  BY <1>19 DEF Reply, Goto, BusStep
<1>20. ASSUME NEW c \in Clients, SocketFails(c) PROVE BusStep
  BY <1>20 DEF SocketFails, Fail, Put, Goto, BusStep
<1>21. ASSUME NEW c \in Clients, StoreRefuses(c) PROVE BusStep
  BY <1>21 DEF StoreRefuses, Fail, Put, Goto, BusStep
<1>22. ASSUME NEW c \in Clients, Close(c) PROVE BusStep
  BY <1>22 DEF Close, Goto, BusStep
<1>23. ASSUME NEW c \in Clients, UnregisterSession(c) PROVE BusStep
  BY <1>23 DEF UnregisterSession, Drop, Goto, BusStep
<1>24. ASSUME NEW c \in Clients, UnmapContexts(c) PROVE BusStep
  BY <1>24 DEF UnmapContexts, Drop, Goto, BusStep
<1>25. ASSUME NEW c \in Clients, Bye(c) PROVE BusStep
  <2>1. Disconnected(sid[c], orphaned[c]) \in FrontEvents
    BY EventFields DEF FrontTypeOK
  <2> QED
    BY <1>25, <2>1 DEF Bye, BusStep
<1>26. ASSUME NEW c \in Clients, Exit(c) PROVE BusStep
  BY <1>26 DEF Exit, BusStep
<1>27. ASSUME HttpCreate PROVE BusStep
  BY <1>27 DEF HttpCreate, HttpRequest, Put, BusStep
<1>28. ASSUME NEW x \in NamedContexts, NEW n \in 1 .. 3, HttpAppend(x, n) PROVE BusStep
  BY <1>28 DEF HttpAppend, StoreAppends, HttpRequest, BusStep
<1>29. ASSUME HttpFails PROVE BusStep
  BY <1>29 DEF HttpFails, HttpRequest, BusStep
<1>30. ASSUME HttpPublish PROVE BusStep
  <2>1. Head(http) \in FrontEvents
    BY <1>30 DEF HttpPublish, LogTypeOK
  <2> QED
    BY <1>30, <2>1 DEF HttpPublish, BusStep
<1>31. CASE \E s \in Subscribers : StreamNext(s)
  BY <1>31 DEF BusStep
<1>32. CASE UNCHANGED vars
  BY <1>32 DEF vars, BusStep
<1> QED
  BY <1>1, <1>2, <1>3, <1>4, <1>5, <1>6, <1>7, <1>8, <1>9, <1>10, <1>11, <1>12, <1>13, <1>14,
     <1>15, <1>16, <1>17, <1>18, <1>19, <1>20, <1>21, <1>22, <1>23, <1>24, <1>25, <1>26, <1>27,
     <1>28, <1>29, <1>30, <1>31, <1>32
  DEF SessionsNext, HandlerStep, ClientStep, HttpStep, Contexts

\* The server is an implementation of the bus specification.
THEOREM FrontEndUsesBus == SessionsSpec => Bus!BusSpec
<1>1. SessionsInit => Bus!BusInit
  BY DEF SessionsInit, BusInit, Bus!BusInit
<1>2. SessionsInv /\ [SessionsNext]_vars => [Bus!BusNext]_(Bus!busVars)
  <2> SUFFICES ASSUME SessionsInv, [SessionsNext]_vars PROVE [Bus!BusNext]_(Bus!busVars)
    OBVIOUS
  <2>1. BusStep
    BY BusSteps DEF SessionsInv
  <2>2. ASSUME NEW e \in FrontEvents, Publish(e), UNCHANGED streamVars PROVE Bus!BusNext
    BY <2>2 DEF Publish, Receiving, streamVars, Bus!Publish, Bus!Receiving, Bus!streamVars,
       Bus!BusNext
  <2>3. ASSUME NEW s \in Subscribers, StreamNext(s) PROVE Bus!BusNext
    <3>1. Bus!StreamNext(s)
      BY <2>3 DEF StreamNext, StreamThread, Subscribe, StreamConnected, Take, Write, WriteFails,
                  ClientLeaves, Bus!StreamNext, Bus!StreamThread, Bus!Subscribe,
                  Bus!StreamConnected, Bus!Take, Bus!Write, Bus!WriteFails, Bus!ClientLeaves
    <3> QED
      BY <3>1 DEF Bus!BusNext
  <2>4. UNCHANGED busVars => UNCHANGED Bus!busVars
    BY DEF busVars, streamVars, Bus!busVars, Bus!streamVars
  <2> QED
    BY <2>1, <2>2, <2>3, <2>4 DEF BusStep
<1> QED
  BY <1>1, <1>2, SessionsInvariant, PTL DEF SessionsSpec, Bus!BusSpec

\* A client of the event stream is sent the server's events in order, without
\* repetition, and misses only those its full channel refused: BusOrderCorrect
\* and BusLossCorrect for the events of the whole front end.
THEOREM StreamsCorrect == SessionsSpec => [](DeliveredInOrder /\ NothingLost)
<1>1. Bus!DeliveredInOrder => DeliveredInOrder
  BY DEF Bus!DeliveredInOrder, DeliveredInOrder, Bus!Increasing, Increasing, Bus!InHand, InHand
<1>2. Bus!NothingLost => NothingLost
  BY DEF Bus!NothingLost, NothingLost, Bus!Receiving, Receiving, Bus!InHand, InHand,
         Bus!Range, Range
<1> QED
  BY <1>1, <1>2, FrontEndUsesBus, Bus!BusOrderCorrect, Bus!BusLossCorrect, BoundAssumption, PTL
=============================================================================

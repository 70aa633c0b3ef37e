----------------------------- MODULE QueriesProofs ----------------------------
(***************************************************************************)
(* Proofs about what is read from the store: the metadata of a context is  *)
(* that of its first turn, however the cache was filled, and the pages of  *)
(* a context cover its chain of turns.                                     *)
(***************************************************************************)
EXTENDS ContextMetadata, Paging, Induction, FiniteSetTheorems, SequenceTheorems, TLAPS

-----------------------------------------------------------------------------
(* The metadata of a context.                                              *)

\* The turns below n, each under an earlier one or at depth 0.
Forest(ts, n) ==
    /\ DOMAIN ts = 1 .. n
    /\ \A t \in 1 .. n : /\ ts[t].depth \in Nat /\ ts[t].parent \in 0 .. t - 1
                         /\ ts[t].depth # 0 => ts[t].parent # 0

\* get_first_turn over any forest.
First(ts) ==
    CHOOSE f : f = [t \in DOMAIN ts |-> IF ts[t].depth = 0 THEN t ELSE f[ts[t].parent]]

StoreShape(n) ==
    /\ n \in Nat /\ Forest(turns, n)
    /\ nextContext \in Nat \ {0}
    /\ \A c \in DOMAIN heads : c \in ContextIds /\ heads[c].turn \in 0 .. n
    /\ DOMAIN tame \subseteq DOMAIN heads
    /\ \A c \in DOMAIN tame : c < nextContext
    /\ DOMAIN cache \subseteq DOMAIN heads

\* The payload that get_context_metadata finds for a head.
FirstPayload(ts, t) == ts[First(ts)[t]].payload

TameContext(c) ==
    IF tame[c] = Unwritten THEN heads[c].turn = 0 /\ c \notin DOMAIN cache
    ELSE /\ heads[c].turn # 0 /\ FirstPayload(turns, heads[c].turn) = tame[c]
         /\ c \in DOMAIN cache /\ cache[c] = Extract(tame[c])
         /\ cache[c] # None => <<cache[c], c>> \in metaIndex

IndexEntry(e) == e[2] \in DOMAIN cache /\ cache[e[2]] = e[1] /\ e[2] \in allIds

MetadataInv ==
    /\ \E n \in Nat : StoreShape(n)
    /\ \A c \in DOMAIN tame : TameContext(c)
    /\ \A e \in metaIndex : IndexEntry(e)

LEMMA FirstIsFirstTurn == FirstTurn = First(turns)
BY DEF FirstTurn, First

\* The walk of get_first_turn ends, at a turn of depth 0.
LEMMA FirstDefined ==
    ASSUME NEW n \in Nat, NEW ts, Forest(ts, n)
    PROVE  \A t \in 1 .. n :
               First(ts)[t] = IF ts[t].depth = 0 THEN t ELSE First(ts)[ts[t].parent]
<1> DEFINE Def(f) == f = [t \in DOMAIN ts |-> IF ts[t].depth = 0 THEN t ELSE f[ts[t].parent]]
<1>1. PICK link : link = [t \in 1 .. n |-> ts[t].parent]
  OBVIOUS
<1>2. PICK step : step = [t \in 1 .. n |-> [v \in 0 .. n |-> IF ts[t].depth = 0 THEN t ELSE v]]
  OBVIOUS
<1>3. \A t \in 1 .. n : link[t] \in 0 .. t - 1
  BY <1>1 DEF Forest
<1>a. \A t \in 1 .. n : link[t] \in 0 .. n
  BY <1>3
<1>4. \A t \in 1 .. n : \A v \in 0 .. n : step[t][v] = IF ts[t].depth = 0 THEN t ELSE v
  BY <1>2
<1>5. \A t \in 1 .. n : \A v \in 0 .. n : step[t][v] \in 0 .. n
  BY <1>4
<1>6. PICK f \in [0 .. n -> 0 .. n] :
           f[0] = 0 /\ \A t \in 1 .. n : f[t] = step[t][f[link[t]]]
  <2>1. PICK S : S = 0 .. n
    OBVIOUS
  <2>2. Descends(link, n) /\ StepsIn(step, n, S) /\ 0 \in S
    BY <1>3, <1>5, <2>1 DEF Descends, StepsIn
  <2>3. \E h : IsWalk(h, n, S, 0, link, step)
    BY <2>2, WalkExists
  <2> QED
    BY <2>1, <2>3 DEF IsWalk
<1>7. PICK g : g = [t \in 1 .. n |-> f[t]]
  OBVIOUS
<1>8. \A t \in 1 .. n : g[t] = IF ts[t].depth = 0 THEN t ELSE g[ts[t].parent]
  <2> TAKE t \in 1 .. n
  <2>1. link[t] \in 0 .. n /\ link[t] = ts[t].parent
    <3>1. link[t] \in 0 .. n
      BY <1>a
    <3>2. link[t] = ts[t].parent
      BY <1>1
    <3> QED
      BY <3>1, <3>2
  <2>2. f[link[t]] \in 0 .. n
    BY <1>6, <2>1
  <2>3. g[t] = IF ts[t].depth = 0 THEN t ELSE f[ts[t].parent]
    BY <1>4, <1>6, <1>7, <2>1, <2>2
  <2>4. CASE ts[t].depth # 0
    <3>1. ts[t].parent \in 1 .. n
      BY <2>4 DEF Forest
    <3> QED
      BY <1>7, <2>3, <3>1
  <2> QED
    BY <2>3, <2>4
<1>9. Def(g)
  BY <1>7, <1>8 DEF Forest
<1>10. Def(CHOOSE h : Def(h))
  <2> HIDE DEF Def
  <2> QED
    BY <1>9, Zenon
<1>11. Def(First(ts))
  BY <1>10 DEF First
<1> QED
  BY <1>11 DEF Forest

\* It ends within the forest.
LEMMA FirstInForest ==
    ASSUME NEW n \in Nat, NEW ts, Forest(ts, n)
    PROVE  \A t \in 1 .. n : First(ts)[t] \in 1 .. n
<1> DEFINE S == {t \in 0 .. n : t # 0 => First(ts)[t] \in 1 .. n}
<1>1. ASSUME NEW t \in 0 .. n, \A m \in 0 .. t - 1 : m \in S
      PROVE  t \in S
  <2> SUFFICES ASSUME t \in 1 .. n
               PROVE  First(ts)[t] \in 1 .. n
    OBVIOUS
  <2>1. First(ts)[t] = IF ts[t].depth = 0 THEN t ELSE First(ts)[ts[t].parent]
    BY FirstDefined
  <2>2. CASE ts[t].depth # 0
    <3>1. ts[t].parent \in 0 .. t - 1 /\ ts[t].parent # 0
      BY <2>2 DEF Forest
    <3>2. First(ts)[ts[t].parent] \in 1 .. n
      BY <1>1, <3>1
    <3> QED
      BY <2>1, <2>2, <3>2
  <2> QED
    BY <2>1, <2>2
<1>2. \A t \in 0 .. n : t \in S
  <2> HIDE DEF S
  <2> QED
    BY <1>1, SetInduction
<1> QED
  BY <1>2

\* A turn more: the forest stays one, and the first turns of the others stay
\* what they were.
LEMMA ForestGrows ==
    ASSUME NEW n \in Nat, NEW ts, Forest(ts, n), NEW new, NEW us, us = Put(ts, n + 1, new),
           new.parent \in 0 .. n,
           new.depth = IF new.parent = 0 THEN 0 ELSE ts[new.parent].depth + 1
    PROVE  /\ Forest(us, n + 1)
           /\ \A t \in 1 .. n : us[t] = ts[t] /\ First(us)[t] = First(ts)[t]
           /\ us[n + 1] = new
           /\ First(us)[n + 1] = IF new.parent = 0 THEN n + 1 ELSE First(ts)[new.parent]
<1>1. DOMAIN us = 1 .. n + 1 /\ us[n + 1] = new /\ \A t \in 1 .. n : us[t] = ts[t]
  <2>1. DOMAIN ts = 1 .. n /\ (1 .. n) \cup {n + 1} = 1 .. n + 1
    BY DEF Forest
  <2>2. \A t \in 1 .. n : t # n + 1
    OBVIOUS
  <2>3. /\ DOMAIN us = DOMAIN ts \cup {n + 1} /\ us[n + 1] = new
        /\ \A t \in DOMAIN ts : t # n + 1 => us[t] = ts[t]
    BY DEF Put
  <2> QED
    BY <2>1, <2>2, <2>3
<1>2. new.depth \in Nat /\ (new.depth # 0 <=> new.parent # 0)
  <2>1. CASE new.parent # 0
    <3>1. ts[new.parent].depth \in Nat
      BY <2>1 DEF Forest
    <3> QED
      BY <2>1, <3>1
  <2> QED
    BY <2>1
<1>3. Forest(us, n + 1)
  <2> SUFFICES ASSUME NEW t \in 1 .. n + 1
               PROVE  /\ us[t].depth \in Nat /\ us[t].parent \in 0 .. t - 1
                      /\ us[t].depth # 0 => us[t].parent # 0
    BY <1>1 DEF Forest
  <2>1. CASE t = n + 1
    BY <1>1, <1>2, <2>1
  <2>2. CASE t # n + 1
    <3>1. t \in 1 .. n
      BY <2>2
    <3> QED
      BY <1>1, <3>1 DEF Forest
  <2> QED
    BY <2>1, <2>2
<1> DEFINE S == {t \in 0 .. n : t # 0 => First(us)[t] = First(ts)[t]}
<1>4. ASSUME NEW t \in 0 .. n, \A m \in 0 .. t - 1 : m \in S
      PROVE  t \in S
  <2> SUFFICES ASSUME t \in 1 .. n
               PROVE  First(us)[t] = First(ts)[t]
    OBVIOUS
  <2>1. First(ts)[t] = IF ts[t].depth = 0 THEN t ELSE First(ts)[ts[t].parent]
    BY FirstDefined
  <2>2. t \in 1 .. n + 1 /\ n + 1 \in Nat
    OBVIOUS
  <2>3. First(us)[t] = IF us[t].depth = 0 THEN t ELSE First(us)[us[t].parent]
    BY <1>3, <2>2, FirstDefined
  <2>4. us[t] = ts[t]
    BY <1>1
  <2>5. CASE ts[t].depth # 0
    <3>1. ts[t].parent \in 0 .. t - 1 /\ ts[t].parent # 0
      BY <2>5 DEF Forest
    <3>2. First(us)[ts[t].parent] = First(ts)[ts[t].parent]
      BY <1>4, <3>1
    <3> QED
      BY <2>1, <2>3, <2>4, <3>2
  <2> QED
    BY <2>1, <2>3, <2>4, <2>5
<1>5. \A t \in 0 .. n : t \in S
  <2> HIDE DEF S
  <2> QED
    BY <1>4, SetInduction
<1>6. \A t \in 1 .. n : First(us)[t] = First(ts)[t]
  BY <1>5
<1>7. First(us)[n + 1] = IF new.depth = 0 THEN n + 1 ELSE First(us)[new.parent]
  <2>1. n + 1 \in 1 .. n + 1 /\ n + 1 \in Nat
    OBVIOUS
  <2> QED
    BY <1>1, <1>3, <2>1, FirstDefined
<1>8. First(us)[n + 1] = IF new.parent = 0 THEN n + 1 ELSE First(ts)[new.parent]
  <2>1. new.parent # 0 => new.parent \in 1 .. n
    OBVIOUS
  <2> QED
    BY <1>2, <1>6, <1>7, <2>1
<1> QED
  BY <1>1, <1>3, <1>6, <1>8

\* A tame context that an operation leaves alone stays tame.
LEMMA TameKept ==
    ASSUME NEW n \in Nat, StoreShape(n), NEW c \in DOMAIN tame, TameContext(c),
           tame'[c] = tame[c], heads'[c] = heads[c],
           c \in DOMAIN cache' <=> c \in DOMAIN cache,
           c \in DOMAIN cache => cache'[c] = cache[c],
           metaIndex \subseteq metaIndex',
           \A t \in 1 .. n : FirstPayload(turns, t)' = FirstPayload(turns, t)
    PROVE  TameContext(c)'
<1>1. heads[c].turn \in 0 .. n
  BY DEF StoreShape
<1>2. CASE tame[c] = Unwritten
  BY <1>2 DEF TameContext
<1>3. CASE tame[c] # Unwritten
  <2>1. heads[c].turn \in 1 .. n
    BY <1>1, <1>3 DEF TameContext
  <2>2. PICK t \in 1 .. n : t = heads[c].turn
    BY <2>1
  <2>3. t = heads'[c].turn
    BY <2>2
  <2>4. FirstPayload(turns', t) = FirstPayload(turns, t)
    OBVIOUS
  <2>5. FirstPayload(turns', heads'[c].turn) = tame'[c]
    BY <1>3, <2>2, <2>3, <2>4 DEF TameContext
  <2> QED
    BY <1>3, <2>1, <2>5 DEF TameContext
<1> QED
  BY <1>2, <1>3

\* create_context and fork_context.
LEMMA CreateKeeps ==
    ASSUME MetadataInv, NEW base \in 0 .. MaxTurns, CreateContext(base)
    PROVE  MetadataInv'
<1>1. PICK n \in Nat : StoreShape(n)
  BY DEF MetadataInv
<1>2. PICK k \in Nat \ {0} : k = nextContext
  BY <1>1 DEF StoreShape
<1>3. /\ k <= MaxContexts /\ nextContext' = k + 1
      /\ DOMAIN heads' = DOMAIN heads \cup {k} /\ heads'[k].turn = base
      /\ \A c \in DOMAIN heads : c # k => heads'[c] = heads[c]
      /\ turns' = turns /\ cache' = cache /\ metaIndex' = metaIndex /\ allIds' = allIds
  BY <1>2 DEF CreateContext, Put
<1>4. base \in 0 .. n
  BY <1>1 DEF CreateContext, StoreShape, Forest
<1>5. \A c \in DOMAIN tame : c # k /\ c \in DOMAIN heads /\ c \in ContextIds
  BY <1>1, <1>2 DEF StoreShape, ContextIds
<1>6. /\ DOMAIN tame \subseteq DOMAIN tame' /\ \A c \in DOMAIN tame : tame'[c] = tame[c]
      /\ \A c \in DOMAIN tame' \ DOMAIN tame :
            c = k /\ base = 0 /\ tame'[c] = Unwritten /\ k \notin DOMAIN heads
  <2>1. CASE base = 0 /\ k \notin DOMAIN heads
    BY <1>2, <1>5, <2>1 DEF CreateContext, Put
  <2>2. CASE ~ (base = 0 /\ k \notin DOMAIN heads)
    BY <1>2, <2>2 DEF CreateContext
  <2> QED
    BY <2>1, <2>2
<1>7. StoreShape(n)'
  <2>1. DOMAIN tame' \subseteq DOMAIN heads'
    BY <1>3, <1>5, <1>6
  <2>2. \A c \in DOMAIN heads' : c \in ContextIds /\ heads'[c].turn \in 0 .. n
    <3>1. k \in ContextIds
      BY <1>3, MetadataBounds DEF ContextIds
    <3> QED
      BY <1>1, <1>3, <1>4, <3>1 DEF StoreShape
  <2>3. \A c \in DOMAIN tame' : c < nextContext'
    <3>1. \A c \in DOMAIN tame : c \in Nat /\ c < k
      BY <1>1, <1>2, <1>5 DEF StoreShape, ContextIds
    <3> QED
      BY <1>3, <1>6, <3>1
  <2>4. Forest(turns', n) /\ DOMAIN cache' \subseteq DOMAIN heads' /\ nextContext' \in Nat \ {0}
    BY <1>1, <1>3 DEF StoreShape
  <2> QED
    BY <2>1, <2>2, <2>3, <2>4 DEF StoreShape
<1>8. ASSUME NEW c \in DOMAIN tame'
      PROVE  TameContext(c)'
  <2>1. CASE c \in DOMAIN tame
    <3>1. TameContext(c)
      BY <2>1 DEF MetadataInv
    <3> QED
      BY <1>1, <1>3, <1>5, <1>6, <2>1, <3>1, TameKept
  <2>2. CASE c \notin DOMAIN tame
    <3>1. c = k /\ heads'[c].turn = 0 /\ tame'[c] = Unwritten /\ c \notin DOMAIN cache'
      BY <1>1, <1>3, <1>6, <2>2 DEF StoreShape
    <3> QED
      BY <3>1 DEF TameContext
  <2> QED
    BY <2>1, <2>2
<1>9. \A e \in metaIndex' : IndexEntry(e)'
  BY <1>3 DEF MetadataInv, IndexEntry
<1> QED
  BY <1>7, <1>8, <1>9 DEF MetadataInv

\* append_turn, at the head or below an explicit parent.
LEMMA AppendKeeps ==
    ASSUME MetadataInv, NEW context \in ContextIds, NEW parent \in 0 .. MaxTurns,
           NEW payload \in Payloads, AppendTurn(context, parent, payload)
    PROVE  MetadataInv'
<1>1. PICK n \in Nat : StoreShape(n)
  BY DEF MetadataInv
<1>2. Cardinality(DOMAIN turns) = n
  BY <1>1, FS_Interval DEF StoreShape, Forest
<1>3. PICK p : p = Parent(context, parent)
  OBVIOUS
<1>4. PICK new : /\ new = [parent |-> p, depth |-> IF p = 0 THEN 0 ELSE turns[p].depth + 1,
                           payload |-> payload]
  OBVIOUS
<1>5. /\ turns' = Put(turns, n + 1, new)
      /\ heads' = Put(heads, context, [turn |-> n + 1, depth |-> new.depth])
      /\ p # 0 => p \in DOMAIN turns
      /\ tame' = IF context \notin DOMAIN tame THEN tame
                 ELSE IF p # heads[context].turn THEN Drop(tame, context)
                 ELSE IF p = 0 THEN Put(tame, context, payload)
                 ELSE tame
  BY <1>2, <1>3, <1>4 DEF AppendTurn, NewTurn
<1>6. p \in 0 .. n
  <2>1. DOMAIN turns = 1 .. n
    BY <1>1 DEF StoreShape, Forest
  <2> QED
    BY <1>5, <2>1
<1>7. /\ Forest(turns', n + 1)
      /\ \A t \in 1 .. n : turns'[t] = turns[t] /\ First(turns')[t] = First(turns)[t]
      /\ turns'[n + 1] = new
      /\ First(turns')[n + 1] = IF p = 0 THEN n + 1 ELSE First(turns)[p]
  <2>1. new.parent \in 0 .. n /\ new.parent = p
    BY <1>4, <1>6
  <2>2. new.depth = IF new.parent = 0 THEN 0 ELSE turns[new.parent].depth + 1
    BY <1>4
  <2>3. PICK us : us = turns'
    OBVIOUS
  <2>4. Forest(turns, n)
    BY <1>1 DEF StoreShape
  <2>5. /\ Forest(us, n + 1)
        /\ \A t \in 1 .. n : us[t] = turns[t] /\ First(us)[t] = First(turns)[t]
        /\ us[n + 1] = new
        /\ First(us)[n + 1] = IF new.parent = 0 THEN n + 1 ELSE First(turns)[new.parent]
    BY <1>5, <2>1, <2>2, <2>3, <2>4, ForestGrows
  <2> QED
    BY <2>1, <2>3, <2>5
<1>8. /\ \A t \in 1 .. n : FirstPayload(turns', t) = FirstPayload(turns, t)
      /\ p = 0 => FirstPayload(turns', n + 1) = payload
      /\ p # 0 => FirstPayload(turns', n + 1) = FirstPayload(turns, p)
  <2>1. \A t \in 1 .. n : First(turns)[t] \in 1 .. n
    BY <1>1, FirstInForest DEF StoreShape
  <2>2. new.payload = payload
    BY <1>4
  <2>3. p # 0 => p \in 1 .. n
    BY <1>6
  <2> QED
    BY <1>7, <2>1, <2>2, <2>3 DEF FirstPayload
<1>9. /\ DOMAIN heads' = DOMAIN heads \cup {context} /\ heads'[context].turn = n + 1
      /\ \A c \in DOMAIN heads : c # context => heads'[c] = heads[c]
  BY <1>5 DEF Put
<1>10. /\ DOMAIN tame' \subseteq DOMAIN tame
       /\ \A c \in DOMAIN tame' : c # context => tame'[c] = tame[c]
       /\ context \in DOMAIN tame' =>
             /\ p = heads[context].turn
             /\ tame'[context] = IF p = 0 THEN payload ELSE tame[context]
  <2>1. CASE context \notin DOMAIN tame
    BY <1>5, <2>1
  <2>2. CASE context \in DOMAIN tame /\ p # heads[context].turn
    <3>1. tame' = Drop(tame, context)
      BY <1>5, <2>2
    <3> QED
      BY <3>1 DEF Drop
  <2>3. CASE context \in DOMAIN tame /\ p = heads[context].turn
    <3>1. CASE p = 0
      <4>1. tame' = Put(tame, context, payload)
        BY <1>5, <2>3, <3>1
      <4> QED
        BY <2>3, <3>1, <4>1 DEF Put
    <3>2. CASE p # 0
      BY <1>5, <2>3, <3>2
    <3> QED
      BY <3>1, <3>2
  <2> QED
    BY <2>1, <2>2, <2>3
<1>11. /\ context \in DOMAIN cache =>
             cache' = cache /\ metaIndex' = metaIndex /\ allIds' = allIds
       /\ context \notin DOMAIN cache =>
             /\ DOMAIN cache' = DOMAIN cache \cup {context} /\ cache'[context] = Extract(payload)
             /\ \A c \in DOMAIN cache : cache'[c] = cache[c]
             /\ Extract(payload) # None =>
                   /\ metaIndex' = metaIndex \cup {<<Extract(payload), context>>}
                   /\ allIds' = allIds \cup {context}
             /\ Extract(payload) = None => metaIndex' = metaIndex /\ allIds' = allIds
  <2>1. CASE context \in DOMAIN cache
    BY <2>1 DEF AppendTurn
  <2>2. CASE context \notin DOMAIN cache
    <3>1. cache' = Put(cache, context, Extract(payload))
      BY <2>2 DEF AppendTurn
    <3>2. /\ DOMAIN cache' = DOMAIN cache \cup {context} /\ cache'[context] = Extract(payload)
          /\ \A c \in DOMAIN cache : cache'[c] = cache[c]
      BY <2>2, <3>1 DEF Put
    <3>3. /\ Extract(payload) # None =>
                /\ metaIndex' = metaIndex \cup {<<Extract(payload), context>>}
                /\ allIds' = allIds \cup {context}
          /\ Extract(payload) = None => metaIndex' = metaIndex /\ allIds' = allIds
      BY <2>2 DEF AppendTurn, AddContext
    <3> QED
      BY <2>2, <3>2, <3>3
  <2> QED
    BY <2>1, <2>2
<1>12. /\ metaIndex \subseteq metaIndex' /\ allIds \subseteq allIds'
       /\ DOMAIN cache' \subseteq DOMAIN cache \cup {context}
       /\ DOMAIN cache \subseteq DOMAIN cache'
       /\ \A c \in DOMAIN cache : cache'[c] = cache[c]
  BY <1>11
<1>13. StoreShape(n + 1)'
  <2>1. n + 1 \in Nat /\ Forest(turns', n + 1)
    BY <1>7
  <2>2. nextContext' = nextContext
    BY DEF AppendTurn
  <2>3. \A c \in DOMAIN heads' : c \in ContextIds /\ heads'[c].turn \in 0 .. n + 1
    BY <1>1, <1>9 DEF StoreShape
  <2>4. DOMAIN tame' \subseteq DOMAIN heads' /\ DOMAIN cache' \subseteq DOMAIN heads'
    BY <1>1, <1>9, <1>10, <1>12 DEF StoreShape
  <2> QED
    BY <1>1, <1>10, <2>1, <2>2, <2>3, <2>4 DEF StoreShape
<1>14. ASSUME NEW c \in DOMAIN tame'
       PROVE  TameContext(c)'
  <2>1. c \in DOMAIN tame /\ c \in DOMAIN heads /\ TameContext(c)
    BY <1>1, <1>10 DEF MetadataInv, StoreShape
  <2>2. CASE c # context
    BY <1>1, <1>8, <1>9, <1>10, <1>12, <2>1, <2>2, TameKept
  <2>3. CASE c = context /\ p = 0
    <3>1. tame[c] = Unwritten /\ c \notin DOMAIN cache
      BY <1>10, <2>1, <2>3 DEF TameContext
    <3>2. tame'[c] = payload /\ payload # Unwritten
      BY <1>10, <2>3, NoneIsNoMeta DEF Payloads
    <3>3. FirstPayload(turns', heads'[c].turn) = payload /\ heads'[c].turn # 0
      BY <1>8, <1>9, <2>3
    <3>4. /\ c \in DOMAIN cache' /\ cache'[c] = Extract(payload)
          /\ cache'[c] # None => <<cache'[c], c>> \in metaIndex'
      BY <1>11, <2>3, <3>1
    <3> QED
      BY <3>2, <3>3, <3>4 DEF TameContext
  <2>4. CASE c = context /\ p # 0
    <3>1. p = heads[c].turn /\ tame'[c] = tame[c] /\ tame[c] # Unwritten
      BY <1>10, <2>1, <2>4 DEF TameContext
    <3>2. FirstPayload(turns', heads'[c].turn) = tame[c] /\ heads'[c].turn # 0
      BY <1>8, <1>9, <2>1, <2>4, <3>1 DEF TameContext
    <3>3. /\ c \in DOMAIN cache /\ cache[c] = Extract(tame[c])
          /\ cache[c] # None => <<cache[c], c>> \in metaIndex
      BY <2>1, <3>1 DEF TameContext
    <3>4. /\ c \in DOMAIN cache' /\ cache'[c] = Extract(tame[c])
          /\ cache'[c] # None => <<cache'[c], c>> \in metaIndex'
      BY <1>12, <3>3
    <3> QED
      BY <3>1, <3>2, <3>4 DEF TameContext
  <2> QED
    BY <2>2, <2>3, <2>4
<1>15. ASSUME NEW e \in metaIndex'
       PROVE  IndexEntry(e)'
  <2>1. CASE e \in metaIndex
    BY <1>12, <2>1 DEF MetadataInv, IndexEntry
  <2>2. CASE e \notin metaIndex
    <3>1. context \notin DOMAIN cache /\ e = <<Extract(payload), context>>
      BY <1>11, <2>2
    <3>2. e[1] = Extract(payload) /\ e[2] = context
      BY <3>1
    <3>3. context \in DOMAIN cache' /\ cache'[context] = Extract(payload) /\ context \in allIds'
      BY <1>11, <2>2, <3>1
    <3> QED
      BY <3>2, <3>3 DEF IndexEntry
  <2> QED
    BY <2>1, <2>2
<1> QED
  BY <1>13, <1>14, <1>15 DEF MetadataInv

\* get_context_metadata.
LEMMA GetKeeps ==
    ASSUME MetadataInv, NEW context \in ContextIds, GetContextMetadata(context)
    PROVE  MetadataInv'
<1>1. PICK n \in Nat : StoreShape(n)
  BY DEF MetadataInv
<1>2. /\ context \in DOMAIN heads
      /\ turns' = turns /\ heads' = heads /\ nextContext' = nextContext
      /\ metaIndex' = metaIndex /\ allIds' = allIds
  BY DEF GetContextMetadata
<1>3. /\ DOMAIN cache \subseteq DOMAIN cache' /\ DOMAIN cache' \subseteq DOMAIN cache \cup {context}
      /\ \A c \in DOMAIN cache : cache'[c] = cache[c]
  <2>1. CASE context \in DOMAIN cache
    BY <2>1 DEF GetContextMetadata
  <2>2. CASE context \notin DOMAIN cache
    <3>1. PICK load : load = LoadMetadata(context)
      OBVIOUS
    <3>2. cache' = Put(cache, context, load)
      BY <2>2, <3>1 DEF GetContextMetadata
    <3> QED
      BY <2>2, <3>2 DEF Put
  <2> QED
    BY <2>1, <2>2
<1>4. /\ DOMAIN tame' \subseteq DOMAIN tame /\ \A c \in DOMAIN tame' : tame'[c] = tame[c]
      /\ heads[context].turn = 0 => context \notin DOMAIN tame'
  BY DEF GetContextMetadata, Drop
<1>5. StoreShape(n)'
  BY <1>1, <1>2, <1>3, <1>4 DEF StoreShape
<1>6. ASSUME NEW c \in DOMAIN tame'
      PROVE  TameContext(c)'
  <2>1. c \in DOMAIN tame /\ TameContext(c)
    BY <1>4 DEF MetadataInv
  <2>2. c = context => c \in DOMAIN cache
    BY <1>4, <2>1 DEF TameContext
  <2> QED
    BY <1>1, <1>2, <1>3, <1>4, <2>1, <2>2, TameKept
<1>7. \A e \in metaIndex' : IndexEntry(e)'
  BY <1>2, <1>3 DEF MetadataInv, IndexEntry
<1> QED
  BY <1>5, <1>6, <1>7 DEF MetadataInv

\* Store::open puts next_context_id above every context.
LEMMA NextContextAbove ==
    ASSUME NEW S \in SUBSET ContextIds
    PROVE  LET next == Max({1} \cup {c + 1 : c \in S})
           IN  next \in Nat \ {0} /\ \A c \in S : c < next
<1> DEFINE T == {1} \cup {c + 1 : c \in S}
<1>1. MaxContexts + 1 \in Nat /\ T \in SUBSET (0 .. MaxContexts + 1) /\ T # {}
  BY MetadataBounds DEF ContextIds
<1>2. PICK m \in T : \A k \in T : k <= m
  <2> HIDE DEF T
  <2> QED
    BY <1>1, GreatestNumber
<1>3. \A k \in T : k \in Nat
  BY <1>1
<1>4. m >= m /\ \A k \in T : m >= k
  BY <1>2, <1>3
<1>5. Max(T) \in T /\ \A k \in T : Max(T) >= k
  <2> HIDE DEF T
  <2> QED
    BY <1>2, <1>4 DEF Max
<1>6. 1 \in T /\ \A c \in S : c + 1 \in T /\ c \in Nat
  BY DEF ContextIds
<1>7. PICK next \in T : next = Max(T)
  BY <1>5
<1>8. next \in Nat /\ next >= 1 /\ \A c \in S : next >= c + 1
  BY <1>3, <1>5, <1>6, <1>7
<1>9. next \in Nat \ {0} /\ \A c \in S : c < next
  BY <1>6, <1>8
<1> QED
  BY <1>7, <1>9

\* Store::open.
LEMMA RestartKeeps ==
    ASSUME MetadataInv, Restart
    PROVE  MetadataInv'
<1>1. PICK n \in Nat : StoreShape(n)
  BY DEF MetadataInv
<1>2. /\ turns' = turns /\ heads' = heads
      /\ DOMAIN cache' = DOMAIN heads /\ \A c \in DOMAIN heads : cache'[c] = LoadMetadata(c)
      /\ allIds' = DOMAIN heads
      /\ metaIndex' = {<<LoadMetadata(c), c>> :
                          c \in {d \in DOMAIN heads : LoadMetadata(d) # None}}
  BY DEF Restart
<1>3. /\ DOMAIN tame' \subseteq DOMAIN tame
      /\ \A c \in DOMAIN tame' : tame'[c] = tame[c] /\ tame[c] # Unwritten
  BY DEF Restart
<1>4. nextContext' \in Nat \ {0} /\ \A c \in DOMAIN heads : c < nextContext'
  <2>1. DOMAIN heads \in SUBSET ContextIds
    BY <1>1 DEF StoreShape
  <2> QED
    BY <2>1, NextContextAbove DEF Restart
<1>5. StoreShape(n)'
  BY <1>1, <1>2, <1>3, <1>4 DEF StoreShape
<1>6. ASSUME NEW c \in DOMAIN tame'
      PROVE  TameContext(c)'
  <2>1. c \in DOMAIN tame /\ c \in DOMAIN heads /\ TameContext(c) /\ tame[c] # Unwritten
    BY <1>1, <1>3 DEF MetadataInv, StoreShape
  <2>2. heads[c].turn # 0 /\ FirstPayload(turns, heads[c].turn) = tame[c]
    BY <2>1 DEF TameContext
  <2>3. LoadMetadata(c) = Extract(tame[c])
    BY <2>2, FirstIsFirstTurn DEF LoadMetadata, FirstPayload
  <2>4. c \in DOMAIN cache' /\ cache'[c] = Extract(tame[c])
    BY <1>2, <2>1, <2>3
  <2>5. cache'[c] # None => <<cache'[c], c>> \in metaIndex'
    BY <1>2, <2>1, <2>3, <2>4
  <2>6. FirstPayload(turns, heads[c].turn)' = tame'[c] /\ heads'[c].turn # 0
    BY <1>2, <1>3, <2>2
  <2> QED
    BY <1>3, <2>4, <2>5, <2>6 DEF TameContext
<1>7. ASSUME NEW e \in metaIndex'
      PROVE  IndexEntry(e)'
  <2>1. PICK c \in DOMAIN heads : e = <<LoadMetadata(c), c>>
    BY <1>2
  <2>2. e[1] = LoadMetadata(c) /\ e[2] = c
    BY <2>1
  <2> QED
    BY <1>2, <2>2 DEF IndexEntry
<1> QED
  BY <1>5, <1>6, <1>7 DEF MetadataInv

LEMMA MetadataInitInv == MetadataInit => MetadataInv
<1> SUFFICES ASSUME MetadataInit
             PROVE  MetadataInv
  OBVIOUS
<1>1. /\ DOMAIN turns = {} /\ DOMAIN heads = {} /\ DOMAIN cache = {} /\ DOMAIN tame = {}
      /\ nextContext = 1 /\ metaIndex = {}
  BY DEF MetadataInit, NoMap
<1>2. StoreShape(0)
  BY <1>1 DEF StoreShape, Forest
<1> QED
  BY <1>1, <1>2 DEF MetadataInv

LEMMA MetadataNextInv == MetadataInv /\ [MetadataNext]_metadataVars => MetadataInv'
<1> SUFFICES ASSUME MetadataInv, [MetadataNext]_metadataVars
             PROVE  MetadataInv'
  OBVIOUS
<1>1. CASE \E base \in 0 .. MaxTurns : CreateContext(base)
  BY <1>1, CreateKeeps
<1>2. CASE \E context \in ContextIds, parent \in 0 .. MaxTurns, payload \in Payloads :
              AppendTurn(context, parent, payload)
  BY <1>2, AppendKeeps
<1>3. CASE \E context \in ContextIds : GetContextMetadata(context)
  BY <1>3, GetKeeps
<1>4. CASE Restart
  BY <1>4, RestartKeeps
<1>5. CASE UNCHANGED metadataVars
  BY <1>5 DEF metadataVars, MetadataInv, StoreShape, TameContext, IndexEntry
<1> QED
  BY <1>1, <1>2, <1>3, <1>4, <1>5 DEF MetadataNext

\* append_turn, get_context_metadata, load_context_metadata and build_indexes
\* agree: a context created empty under a fresh id and grown at its head is
\* cached and filed under the metadata of its first turn from the first append
\* on, whatever is read, forked and restarted, for any number of turns,
\* contexts, payloads and restarts; and the index never says of a context what
\* the cache does not.
THEOREM TameContextsAreFound == MetadataSpec => []TameContextsFound
<1>1. MetadataInv => TameContextsFound
  BY DEF MetadataInv, TameContext, IndexEntry, TameContextsFound
<1> QED
  BY <1>1, MetadataInitInv, MetadataNextInv, PTL DEF MetadataSpec

-----------------------------------------------------------------------------
(* The pages of a context.                                                 *)

\* The turns below n, each under an earlier one or under none.
DagShape(d, n) ==
    /\ DOMAIN d = 1 .. n
    /\ \A t \in 1 .. n : d[t].parent \in 0 .. t - 1

\* The chain of every turn of any such DAG.
Chains(d) ==
    CHOOSE f : f = [t \in DOMAIN d \union {0} |->
                        IF t = 0 THEN {} ELSE f[d[t].parent] \union {t}]

LEMMA ChainsAreAncestors == AncestorsOf = Chains(dag)
BY DEF AncestorsOf, Chains

LEMMA ChainsDefined ==
    ASSUME NEW n \in Nat, NEW d, DagShape(d, n)
    PROVE  /\ Chains(d)[0] = {}
           /\ \A t \in 1 .. n : Chains(d)[t] = Chains(d)[d[t].parent] \union {t}
<1> DEFINE Def(f) == f = [t \in DOMAIN d \union {0} |->
                              IF t = 0 THEN {} ELSE f[d[t].parent] \union {t}]
<1>1. PICK link : link = [t \in 1 .. n |-> d[t].parent]
  OBVIOUS
<1>2. PICK step : step = [t \in 1 .. n |-> [v \in SUBSET (1 .. n) |-> v \union {t}]]
  OBVIOUS
<1>3. \A t \in 1 .. n : link[t] = d[t].parent /\ link[t] \in 0 .. t - 1
  BY <1>1 DEF DagShape
<1>4. \A t \in 1 .. n : \A v \in SUBSET (1 .. n) : step[t][v] = v \union {t}
  BY <1>2
<1>5. PICK S : S = SUBSET (1 .. n)
  OBVIOUS
<1>6. Descends(link, n) /\ StepsIn(step, n, S) /\ {} \in S
  <2>2. \A t \in 1 .. n : \A v \in S : step[t][v] \in S
    <3> SUFFICES ASSUME NEW t \in 1 .. n, NEW v, v \in SUBSET (1 .. n)
                 PROVE  step[t][v] \in SUBSET (1 .. n)
      BY <1>5
    <3>1. step[t][v] = v \union {t}
      BY <1>4
    <3>2. v \union {t} \in SUBSET (1 .. n)
      OBVIOUS
    <3> QED
      BY <3>1, <3>2, Zenon
  <2>3. {} \in S
    BY <1>5
  <2> QED
    BY <1>3, <2>2, <2>3 DEF Descends, StepsIn
<1>7. PICK f : IsWalk(f, n, S, {}, link, step)
  BY <1>6, WalkExists
<1>8. /\ f \in [0 .. n -> SUBSET (1 .. n)] /\ f[0] = {}
      /\ \A t \in 1 .. n : f[t] = step[t][f[link[t]]]
  BY <1>5, <1>7 DEF IsWalk
<1>9. \A t \in 1 .. n : f[t] = f[d[t].parent] \union {t}
  <2> TAKE t \in 1 .. n
  <2>1. link[t] \in 0 .. n
    BY <1>3
  <2>2. f[link[t]] \in SUBSET (1 .. n)
    BY <1>8, <2>1
  <2> QED
    BY <1>3, <1>4, <1>8, <2>2
<1>10. DOMAIN d \union {0} = 0 .. n
  BY DEF DagShape
<1>11. Def(f)
  BY <1>8, <1>9, <1>10
<1>12. Def(CHOOSE g : Def(g))
  <2> HIDE DEF Def
  <2> QED
    BY <1>11, Zenon
<1>13. PICK g : g = Chains(d) /\ Def(g)
  BY <1>12 DEF Chains
<1>14. g = [t \in 0 .. n |-> IF t = 0 THEN {} ELSE g[d[t].parent] \union {t}]
  BY <1>10, <1>13
<1>15. \A t \in 0 .. n : g[t] = IF t = 0 THEN {} ELSE g[d[t].parent] \union {t}
  BY <1>14, Zenon
<1>16. 0 \in 0 .. n /\ \A t \in 1 .. n : t \in 0 .. n /\ t # 0
  OBVIOUS
<1>17. g[0] = {}
  BY <1>15, <1>16, Zenon
<1>18. \A t \in 1 .. n : g[t] = g[d[t].parent] \union {t}
  BY <1>15, <1>16, Zenon
<1> QED
  BY <1>13, <1>17, <1>18

\* A chain has no turn after the one it is of.
LEMMA ChainsBelow ==
    ASSUME NEW n \in Nat, NEW d, DagShape(d, n)
    PROVE  \A t \in 0 .. n : \A u \in Chains(d)[t] : u \in 1 .. t
<1> DEFINE S == {t \in 0 .. n : \A u \in Chains(d)[t] : u \in 1 .. t}
<1>1. ASSUME NEW t \in 0 .. n, \A m \in 0 .. t - 1 : m \in S
      PROVE  t \in S
  <2>1. CASE t = 0
    BY <2>1, ChainsDefined
  <2>2. CASE t # 0
    <3>1. t \in 1 .. n /\ d[t].parent \in 0 .. t - 1
      BY <2>2 DEF DagShape
    <3>2. Chains(d)[t] = Chains(d)[d[t].parent] \union {t}
      BY <3>1, ChainsDefined
    <3>3. \A u \in Chains(d)[d[t].parent] : u \in 1 .. d[t].parent
      BY <1>1, <3>1
    <3>4. \A u \in Chains(d)[d[t].parent] : u \in 1 .. t
      BY <3>1, <3>3
    <3> QED
      BY <3>1, <3>2, <3>4
  <2> QED
    BY <2>1, <2>2
<1>2. \A t \in 0 .. n : t \in S
  <2> HIDE DEF S
  <2> QED
    BY <1>1, SetInduction
<1> QED
  BY <1>2

\* A turn more leaves the chains of the others.
LEMMA DagGrows ==
    ASSUME NEW n \in Nat, NEW d, DagShape(d, n), NEW new, new.parent \in 0 .. n,
           NEW e, e = Extend(d, n + 1, new)
    PROVE  /\ DagShape(e, n + 1)
           /\ \A t \in 1 .. n : e[t] = d[t]
           /\ \A t \in 0 .. n : Chains(e)[t] = Chains(d)[t]
<1>1. DOMAIN e = 1 .. n + 1 /\ e[n + 1] = new /\ \A t \in 1 .. n : e[t] = d[t]
  <2>1. DOMAIN d = 1 .. n /\ (1 .. n) \cup {n + 1} = 1 .. n + 1
    BY DEF DagShape
  <2>2. \A t \in 1 .. n : t # n + 1
    OBVIOUS
  <2>3. /\ DOMAIN e = DOMAIN d \cup {n + 1} /\ e[n + 1] = new
        /\ \A t \in DOMAIN d : t # n + 1 => e[t] = d[t]
    BY DEF Extend
  <2> QED
    BY <2>1, <2>2, <2>3
<1>2. DagShape(e, n + 1)
  <2> SUFFICES ASSUME NEW t \in 1 .. n + 1
               PROVE  e[t].parent \in 0 .. t - 1
    BY <1>1 DEF DagShape
  <2>1. CASE t = n + 1
    BY <1>1, <2>1
  <2>2. CASE t # n + 1
    <3>1. t \in 1 .. n
      BY <2>2
    <3> QED
      BY <1>1, <3>1 DEF DagShape
  <2> QED
    BY <2>1, <2>2
<1> DEFINE S == {t \in 0 .. n : Chains(e)[t] = Chains(d)[t]}
<1>3. ASSUME NEW t \in 0 .. n, \A m \in 0 .. t - 1 : m \in S
      PROVE  t \in S
  <2>1. CASE t = 0
    BY <1>2, <2>1, ChainsDefined, n + 1 \in Nat
  <2>2. CASE t # 0
    <3>1. t \in 1 .. n /\ t \in 1 .. n + 1 /\ n + 1 \in Nat
      BY <2>2
    <3>2. Chains(d)[t] = Chains(d)[d[t].parent] \union {t}
      BY <3>1, ChainsDefined
    <3>3. Chains(e)[t] = Chains(e)[e[t].parent] \union {t}
      BY <1>2, <3>1, ChainsDefined
    <3>4. e[t].parent = d[t].parent /\ d[t].parent \in 0 .. t - 1
      BY <1>1, <3>1 DEF DagShape
    <3> QED
      BY <1>3, <3>2, <3>3, <3>4
  <2> QED
    BY <2>1, <2>2
<1>4. \A t \in 0 .. n : t \in S
  <2> HIDE DEF S
  <2> QED
    BY <1>3, SetInduction
<1> QED
  BY <1>1, <1>2, <1>4

-----------------------------------------------------------------------------
(* get_last and get_before.                                                *)

Step(w) == IF w.at = 0 THEN w ELSE [at |-> dag[w.at].parent, got |-> <<w.at>> \o w.got]

LEMMA WalkedDefined ==
    ASSUME NEW n \in Nat, DagShape(dag, n), NEW turn \in 0 .. n, NEW limit \in Nat
    PROVE  /\ Walked(turn, limit)[0] = [at |-> turn, got |-> <<>>]
           /\ \A r \in 1 .. limit : Walked(turn, limit)[r] = Step(Walked(turn, limit)[r - 1])
<1> DEFINE Def(f) ==
        f = [round \in 0 .. limit |->
                IF round = 0 THEN [at |-> turn, got |-> <<>>]
                ELSE LET w == f[round - 1] IN
                     IF w.at = 0 THEN w ELSE [at |-> dag[w.at].parent, got |-> <<w.at>> \o w.got]]
           S == [at : 0 .. n, got : Seq(1 .. n)]
           c == [at |-> turn, got |-> <<>>]
<1>1. PICK link : link = [r \in 1 .. limit |-> r - 1]
  OBVIOUS
<1>2. PICK step : step = [r \in 1 .. limit |-> [v \in S |-> Step(v)]]
  OBVIOUS
<1>3. \A v \in S : Step(v) \in S
  <2> TAKE v \in S
  <2>1. CASE v.at = 0
    BY <2>1 DEF Step
  <2>2. CASE v.at # 0
    <3>1. v.at \in 1 .. n /\ v.got \in Seq(1 .. n)
      BY <2>2
    <3>2. dag[v.at].parent \in 0 .. n
      BY <3>1 DEF DagShape
    <3>3. <<v.at>> \o v.got \in Seq(1 .. n)
      BY <3>1
    <3> QED
      BY <2>2, <3>2, <3>3 DEF Step
  <2> QED
    BY <2>1, <2>2
<1>4. \A r \in 1 .. limit : link[r] = r - 1 /\ link[r] \in 0 .. r - 1
  BY <1>1
<1>5. \A r \in 1 .. limit : \A v \in S : step[r][v] = Step(v)
  BY <1>2
<1>6. c \in S
  OBVIOUS
<1>7. PICK f : IsWalk(f, limit, S, c, link, step)
  <2> HIDE DEF S, c
  <2>1. Descends(link, limit) /\ StepsIn(step, limit, S)
    BY <1>3, <1>4, <1>5 DEF Descends, StepsIn
  <2> QED
    BY <1>6, <2>1, WalkExists
<1>8. f \in [0 .. limit -> S] /\ f[0] = c /\ \A r \in 1 .. limit : f[r] = Step(f[r - 1])
  <2> HIDE DEF S, c
  <2>1. \A r \in 1 .. limit : r - 1 \in 0 .. limit
    OBVIOUS
  <2> QED
    BY <1>4, <1>5, <1>7, <2>1 DEF IsWalk
<1>9. Def(f)
  <2>1. \A r \in 0 .. limit :
           f[r] = IF r = 0 THEN [at |-> turn, got |-> <<>>]
                  ELSE LET w == f[r - 1] IN
                       IF w.at = 0 THEN w
                       ELSE [at |-> dag[w.at].parent, got |-> <<w.at>> \o w.got]
    <3> TAKE r \in 0 .. limit
    <3>1. CASE r = 0
      BY <1>8, <3>1
    <3>2. CASE r # 0
      <4>1. f[r] = Step(f[r - 1])
        BY <1>8, <3>2
      <4> QED
        BY <3>2, <4>1 DEF Step
    <3> QED
      BY <3>1, <3>2
  <2>2. f = [r \in 0 .. limit |-> f[r]]
    BY <1>8
  <2> QED
    BY <2>1, <2>2
<1>10. Def(CHOOSE g : Def(g))
  <2> HIDE DEF Def
  <2> QED
    BY <1>9, Zenon
<1>11. PICK g : g = Walked(turn, limit) /\ Def(g)
  BY <1>10 DEF Walked
<1>12. g[0] = [at |-> turn, got |-> <<>>]
  BY <1>11
<1>13. ASSUME NEW r \in 1 .. limit
       PROVE  g[r] = Step(g[r - 1])
  <2>1. r \in 0 .. limit /\ r # 0
    OBVIOUS
  <2>2. PICK v : v = g[r - 1]
    OBVIOUS
  <2>3. g[r] = IF v.at = 0 THEN v ELSE [at |-> dag[v.at].parent, got |-> <<v.at>> \o v.got]
    BY <1>11, <2>1, <2>2
  <2> QED
    BY <2>2, <2>3 DEF Step
<1> QED
  BY <1>11, <1>12, <1>13

Ascends(s) == \A i, j \in DOMAIN s : i < j => s[i] < s[j]

\* Turns put before later ones.
LEMMA AscendingConcat ==
    ASSUME NEW n \in Nat, NEW s \in Seq(1 .. n), NEW t \in Seq(1 .. n), Ascends(s), Ascends(t),
           \A i \in DOMAIN s, j \in DOMAIN t : s[i] < t[j]
    PROVE  /\ s \o t \in Seq(1 .. n) /\ Ascends(s \o t)
           /\ Range(s \o t) = Range(s) \union Range(t)
           /\ s # <<>> => s \o t # <<>> /\ (s \o t)[1] = s[1]
<1>1. s \o t \in Seq(1 .. n)
  BY ConcatProperties
<1> DEFINE u == s \o t
<1>2. DOMAIN s = 1 .. Len(s) /\ DOMAIN t = 1 .. Len(t) /\ DOMAIN u = 1 .. Len(u)
  OBVIOUS
<1>3. /\ Len(s) \in Nat /\ Len(t) \in Nat /\ Len(u) = Len(s) + Len(t)
      /\ \A i \in 1 .. Len(s) : u[i] = s[i]
      /\ \A i \in 1 .. Len(u) : i > Len(s) => i - Len(s) \in 1 .. Len(t) /\ u[i] = t[i - Len(s)]
      /\ \A i \in 1 .. Len(t) : i + Len(s) \in 1 .. Len(u) /\ u[i + Len(s)] = t[i]
  OBVIOUS
<1> HIDE DEF u
<1>4. \A i \in DOMAIN s : s[i] \in Nat
  BY <1>2
<1>5. \A i \in DOMAIN t : t[i] \in Nat
  BY <1>2
<1>6. ASSUME NEW i \in DOMAIN u, NEW j \in DOMAIN u, i < j
      PROVE  u[i] < u[j]
  <2>1. i \in 1 .. Len(u) /\ j \in 1 .. Len(u)
    BY <1>2
  <2>0. i \in Nat /\ j \in Nat
    BY <1>3, <2>1
  <2>2. CASE j <= Len(s)
    <3>1. i \in 1 .. Len(s) /\ j \in 1 .. Len(s)
      BY <1>3, <1>6, <2>1, <2>2
    <3> QED
      BY <1>2, <1>3, <1>6, <3>1 DEF Ascends
  <2>3. CASE i <= Len(s) /\ j > Len(s)
    <3>1. i \in 1 .. Len(s)
      BY <1>3, <2>1, <2>3
    <3>2. u[i] = s[i] /\ j - Len(s) \in 1 .. Len(t) /\ u[j] = t[j - Len(s)]
      BY <1>3, <2>1, <2>3, <3>1
    <3> QED
      BY <1>2, <3>1, <3>2
  <2>4. CASE i > Len(s)
    <3>1. j > Len(s) /\ i - Len(s) < j - Len(s)
      BY <1>3, <1>6, <2>0, <2>4
    <3>2. i - Len(s) \in 1 .. Len(t) /\ u[i] = t[i - Len(s)]
      BY <1>3, <2>1, <2>4
    <3>3. j - Len(s) \in 1 .. Len(t) /\ u[j] = t[j - Len(s)]
      BY <1>3, <2>1, <3>1
    <3> QED
      BY <1>2, <3>1, <3>2, <3>3 DEF Ascends
  <2> QED
    BY <1>3, <2>0, <2>2, <2>3, <2>4
<1>7. Range(u) = Range(s) \union Range(t)
  <2>1. ASSUME NEW i \in DOMAIN u
        PROVE  u[i] \in Range(s) \union Range(t)
    <3>1. CASE i <= Len(s)
      <4>1. i \in DOMAIN s /\ u[i] = s[i]
        BY <1>2, <1>3, <3>1
      <4> QED
        BY <4>1 DEF Range
    <3>2. CASE i > Len(s)
      <4>1. i - Len(s) \in DOMAIN t /\ u[i] = t[i - Len(s)]
        BY <1>2, <1>3, <3>2
      <4> QED
        BY <4>1 DEF Range
    <3> QED
      BY <1>2, <1>3, <3>1, <3>2
  <2>2. \A i \in DOMAIN s : i \in DOMAIN u /\ u[i] = s[i]
    BY <1>2, <1>3
  <2>3. \A i \in DOMAIN t : i + Len(s) \in DOMAIN u /\ u[i + Len(s)] = t[i]
    BY <1>2, <1>3
  <2>4. Range(s) \subseteq Range(u)
    BY <2>2 DEF Range
  <2>5. Range(t) \subseteq Range(u)
    BY <2>3 DEF Range
  <2>6. Range(u) \subseteq Range(s) \union Range(t)
    <3>1. \A x \in Range(u) : \E i \in DOMAIN u : x = u[i]
      BY DEF Range
    <3> QED
      BY <2>1, <3>1
  <2> QED
    BY <2>4, <2>5, <2>6
<1>8. s # <<>> => u # <<>> /\ u[1] = s[1]
  BY <1>2, <1>3
<1> QED
  BY <1>1, <1>6, <1>7, <1>8 DEF Ascends, u

\* The turn a page ends above.
Below(got, turn) == IF got = <<>> THEN turn ELSE dag[got[1]].parent

\* What the loop has passed is the end of the chain; the rest is the chain of
\* the turn it has come to.
LoopInv(n, w, turn, r) ==
    /\ w.at \in 0 .. n /\ w.got \in Seq(1 .. n) /\ Ascends(w.got)
    /\ \A i \in DOMAIN w.got : w.at < w.got[i] /\ w.got[i] <= turn
    /\ Below(w.got, turn) = w.at
    /\ Range(w.got) \union Chains(dag)[w.at] = Chains(dag)[turn]
    /\ (r > 0 /\ w.got = <<>>) => turn = 0

LEMMA LoopStep ==
    ASSUME NEW n \in Nat, DagShape(dag, n), NEW turn \in 0 .. n, NEW r \in Nat,
           NEW w, LoopInv(n, w, turn, r)
    PROVE  LoopInv(n, Step(w), turn, r + 1)
<1>1. CASE w.at = 0
  <2>1. w.got = <<>> => turn = 0
    BY <1>1 DEF LoopInv, Below
  <2> QED
    BY <1>1, <2>1 DEF LoopInv, Step
<1>2. CASE w.at # 0
  <2>1. PICK x \in 1 .. n : x = w.at
    BY <1>2 DEF LoopInv
  <2>2. PICK p \in 0 .. x - 1 : p = dag[x].parent
    BY DEF DagShape
  <2>3. PICK s \in Seq(1 .. n) : s = w.got
    BY DEF LoopInv
  <2>4. PICK u : u = <<x>> \o s
    OBVIOUS
  <2>5. Step(w).at = p /\ Step(w).got = u
    BY <1>2, <2>1, <2>2, <2>3, <2>4 DEF Step
  <2>6. x <= turn
    <3>1. CASE s = <<>>
      BY <2>1, <2>3, <3>1 DEF LoopInv, Below
    <3>2. CASE s # <<>>
      <4>1. 1 \in DOMAIN s /\ s[1] \in 1 .. n
        BY <3>2
      <4>2. x < s[1] /\ s[1] <= turn
        BY <2>1, <2>3, <4>1 DEF LoopInv
      <4> QED
        BY <4>1, <4>2
    <3> QED
      BY <3>1, <3>2
  <2>7. /\ <<x>> \in Seq(1 .. n) /\ Ascends(<<x>>) /\ Range(<<x>>) = {x}
        /\ <<x>> # <<>> /\ <<x>>[1] = x
    BY DEF Ascends, Range
  <2>8. \A i \in DOMAIN <<x>>, j \in DOMAIN s : <<x>>[i] < s[j]
    BY <2>1, <2>3 DEF LoopInv
  <2>9. /\ u \in Seq(1 .. n) /\ Ascends(u) /\ Range(u) = {x} \union Range(s)
        /\ u # <<>> /\ u[1] = x
    <3>1. Ascends(s)
      BY <2>3 DEF LoopInv
    <3> QED
      BY <2>4, <2>7, <2>8, <3>1, AscendingConcat
  <2>10. ASSUME NEW i \in DOMAIN u
         PROVE  p < u[i] /\ u[i] <= turn
    <3>1. u[i] = x \/ \E j \in DOMAIN s : u[i] = s[j]
      BY <2>9 DEF Range
    <3>2. p < x /\ x \in Nat /\ p \in Nat
      OBVIOUS
    <3>3. \A j \in DOMAIN s : x < s[j] /\ s[j] <= turn /\ s[j] \in Nat
      BY <2>1, <2>3 DEF LoopInv
    <3> QED
      BY <2>6, <3>1, <3>2, <3>3
  <2>11. Range(u) \union Chains(dag)[p] = Chains(dag)[turn]
    <3>1. Chains(dag)[x] = Chains(dag)[p] \union {x}
      BY <2>2, ChainsDefined
    <3>2. Range(s) \union Chains(dag)[x] = Chains(dag)[turn]
      BY <2>1, <2>3 DEF LoopInv
    <3> QED
      BY <2>9, <3>1, <3>2
  <2>12. Below(u, turn) = p
    BY <2>2, <2>9 DEF Below
  <2> QED
    BY <2>5, <2>9, <2>10, <2>11, <2>12 DEF LoopInv
<1> QED
  BY <1>1, <1>2

\* get_last, and get_before after its first lookup.
LEMMA WalkBackFacts ==
    ASSUME NEW n \in Nat, DagShape(dag, n), NEW turn \in 0 .. n, NEW limit \in Nat
    PROVE  \E w : w.got = WalkBack(turn, limit) /\ LoopInv(n, w, turn, limit)
<1>1. PICK walk : walk = Walked(turn, limit)
  OBVIOUS
<1>2. walk[0] = [at |-> turn, got |-> <<>>] /\ \A r \in 1 .. limit : walk[r] = Step(walk[r - 1])
  BY <1>1, WalkedDefined
<1> DEFINE S == {r \in 0 .. limit : LoopInv(n, walk[r], turn, r)}
<1>3. ASSUME NEW r \in 0 .. limit, \A m \in 0 .. r - 1 : m \in S
      PROVE  r \in S
  <2>1. CASE r = 0
    <3>1. walk[0].at = turn /\ walk[0].got = <<>>
      BY <1>2
    <3>2. LoopInv(n, walk[0], turn, 0)
      BY <3>1 DEF LoopInv, Below, Ascends, Range
    <3> QED
      BY <2>1, <3>2
  <2>2. CASE r # 0
    <3>1. r - 1 \in Nat /\ r - 1 \in 0 .. r - 1 /\ r \in 1 .. limit /\ (r - 1) + 1 = r
      BY <2>2
    <3>2. LoopInv(n, walk[r - 1], turn, r - 1)
      BY <1>3, <3>1
    <3>3. LoopInv(n, Step(walk[r - 1]), turn, (r - 1) + 1)
      BY <3>1, <3>2, LoopStep
    <3>4. LoopInv(n, walk[r], turn, r)
      BY <1>2, <3>1, <3>3
    <3> QED
      BY <3>4
  <2> QED
    BY <2>1, <2>2
<1>4. \A r \in 0 .. limit : r \in S
  <2> HIDE DEF S
  <2> QED
    BY <1>3, SetInduction
<1>5. LoopInv(n, walk[limit], turn, limit)
  BY <1>4
<1>6. walk[limit].got = WalkBack(turn, limit)
  BY <1>1 DEF WalkBack
<1> QED
  BY <1>5, <1>6
-----------------------------------------------------------------------------
(* The reader's pages.                                                     *)

\* What a reader has is an end of the chain it wants, and the rest is the chain
\* of the turn that the next page begins at, wherever the head is by now.
PageFields == {"context", "limit", "view", "got", "want", "reset", "status", "before"}
PageShape(p, d, h, n) ==
    /\ DOMAIN p = PageFields
    /\ p.context \in DOMAIN h /\ p.limit \in Nat
    /\ p.got \in Seq(1 .. n) /\ Ascends(p.got)
    /\ \E at \in 0 .. n :
          /\ p.got # <<>> => at = d[p.got[1]].parent
          /\ p.want = Range(p.got) \union Chains(d)[at]
          /\ \A i \in DOMAIN p.got : at < p.got[i]
          /\ (p.status = "end" /\ p.limit > 0 /\ ~p.reset) => at = 0
    /\ p.status = "more" => /\ p.got # <<>> /\ p.before = p.got[1]
                            /\ ~p.reset => h[p.context].turn # 0
    /\ p.status = "error" <=> \E i \in DOMAIN p.got : ~Servable(d[p.got[i]], p.view)

HeadsShape(h, n) == \A c \in DOMAIN h : h[c].turn \in 0 .. n

PageInv ==
    \E n \in Nat :
        /\ DagShape(dag, n) /\ HeadsShape(head, n)
        /\ page # NoReader => PageShape(page, dag, head, n)

LEMMA PagingInitInv == PagingInit => PageInv
<1> SUFFICES ASSUME PagingInit
             PROVE  DagShape(dag, 0) /\ HeadsShape(head, 0) /\ page = NoReader
  BY DEF PageInv
<1>1. 1 .. 0 = {}
  OBVIOUS
<1> QED
  BY <1>1 DEF PagingInit, DagShape, HeadsShape

LEMMA PageGivesProperty == PageInv => PagesCoverChain
<1> SUFFICES ASSUME PageInv, page # NoReader
             PROVE  PagesCoverChain
  BY DEF PagesCoverChain
<1>1. PICK n \in Nat : DagShape(dag, n) /\ PageShape(page, dag, head, n)
  BY DEF PageInv
<1>2. PICK at \in 0 .. n :
          /\ page.want = Range(page.got) \union Chains(dag)[at]
          /\ \A i \in DOMAIN page.got : at < page.got[i]
          /\ (page.status = "end" /\ page.limit > 0 /\ ~page.reset) => at = 0
  BY <1>1 DEF PageShape
<1>3. \A u \in Chains(dag)[at] : u \in 1 .. at
  BY <1>1, ChainsBelow
<1>4. \A i \in DOMAIN page.got : page.got[i] \in Nat
  BY <1>1 DEF PageShape
<1>5. \A t \in page.want \ Range(page.got) : \A i \in DOMAIN page.got : t < page.got[i]
  BY <1>2, <1>3, <1>4
<1>6. (page.status = "end" /\ page.limit > 0 /\ ~page.reset) => Range(page.got) = page.want
  BY <1>1, <1>2, ChainsDefined
<1>7. page.status = "error" <=> ~Served(page.got, page.view)
  BY <1>1 DEF PageShape, Served
<1>8. Ascends(page.got)
  BY <1>1 DEF PageShape
<1> QED
  BY <1>2, <1>5, <1>6, <1>7, <1>8 DEF PagesCoverChain, Ascends

\* A page already read is what it was in a DAG with a turn more, with the head
\* of a context at a turn.
LEMMA PageKept ==
    ASSUME NEW n \in Nat, NEW d, DagShape(d, n), NEW new, new.parent \in 0 .. n,
           NEW e, e = Extend(d, n + 1, new), NEW h, NEW g, DOMAIN h \subseteq DOMAIN g,
           \A c \in DOMAIN h : g[c].turn = h[c].turn \/ g[c].turn = n + 1,
           NEW p, PageShape(p, d, h, n)
    PROVE  PageShape(p, e, g, n + 1)
<1>0. DagShape(d, n) /\ new.parent \in 0 .. n /\ e = Extend(d, n + 1, new)
  OBVIOUS
<1>1. /\ \A t \in 1 .. n : e[t] = d[t]
      /\ \A t \in 0 .. n : Chains(e)[t] = Chains(d)[t]
  BY ONLY n \in Nat, <1>0, DagGrows
<1>2. /\ DOMAIN p = PageFields
      /\ p.context \in DOMAIN h /\ p.limit \in Nat /\ p.got \in Seq(1 .. n) /\ Ascends(p.got)
      /\ p.status = "more" => p.got # <<>> /\ p.before = p.got[1] /\ (~p.reset => h[p.context].turn # 0)
      /\ p.status = "error" <=> \E i \in DOMAIN p.got : ~Servable(d[p.got[i]], p.view)
  BY DEF PageShape
<1>3. PICK at \in 0 .. n :
          /\ p.got # <<>> => at = d[p.got[1]].parent
          /\ p.want = Range(p.got) \union Chains(d)[at]
          /\ \A i \in DOMAIN p.got : at < p.got[i]
          /\ (p.status = "end" /\ p.limit > 0 /\ ~p.reset) => at = 0
  BY DEF PageShape
<1>4. \A i \in DOMAIN p.got : p.got[i] \in 1 .. n /\ e[p.got[i]] = d[p.got[i]]
  BY <1>1, <1>2
<1>5. p.got # <<>> => 1 \in DOMAIN p.got
  BY <1>2
<1>6. p.got \in Seq(1 .. n + 1)
  BY <1>2, <1>4
<1>7. at \in 0 .. n + 1 /\ (p.got # <<>> => at = e[p.got[1]].parent)
      /\ p.want = Range(p.got) \union Chains(e)[at]
  BY <1>1, <1>3, <1>4, <1>5
<1>8. p.status = "error" <=> \E i \in DOMAIN p.got : ~Servable(e[p.got[i]], p.view)
  BY <1>2, <1>4
<1>9. p.context \in DOMAIN g /\ (h[p.context].turn # 0 => g[p.context].turn # 0)
  BY <1>2
<1> QED
  BY <1>2, <1>3, <1>6, <1>7, <1>8, <1>9 DEF PageShape
LEMMA FirstPage ==
    ASSUME NEW n \in Nat, DagShape(dag, n), HeadsShape(head, n),
           NEW c \in DOMAIN head, NEW limit \in Limits, NEW view, ReadFirst(c, limit, view)
    PROVE  PageShape(page', dag, head, n)
<1>1. PICK turn \in 0 .. n : turn = head[c].turn
  BY DEF HeadsShape
<1>2. limit \in Nat
  BY PagingAssumption
<1>3. PICK w : w.got = WalkBack(turn, limit) /\ LoopInv(n, w, turn, limit)
  BY <1>2, WalkBackFacts
<1>4. PICK got, p : got = w.got /\ p = page'
  OBVIOUS
<1>5. got = GetLast(c, limit)
  BY <1>1, <1>3, <1>4 DEF GetLast
<1>6. p = [context |-> c, limit |-> limit, view |-> view, got |-> got, want |-> Chain(c),
           reset |-> FALSE, status |-> Status(got, view), before |-> Cursor(got)]
  BY <1>4, <1>5 DEF ReadFirst
<1>7. /\ DOMAIN p = PageFields
      /\ p.context = c /\ p.limit = limit /\ p.got = got /\ p.want = Chain(c)
      /\ p.view = view /\ p.reset = FALSE
      /\ p.status = IF ~Served(got, view) THEN "error" ELSE IF got = <<>> THEN "end" ELSE "more"
      /\ p.before = IF got = <<>> THEN 0 ELSE got[1]
  BY <1>6 DEF Status, Cursor, PageFields
<1>8. PICK at \in 0 .. n : at = w.at
  BY <1>3 DEF LoopInv
<1>9. /\ got \in Seq(1 .. n) /\ Ascends(got)
      /\ \A i \in DOMAIN got : at < got[i] /\ got[i] <= turn
      /\ got # <<>> => at = dag[got[1]].parent
      /\ got = <<>> => at = turn
      /\ Range(got) \union Chains(dag)[at] = Chains(dag)[turn]
      /\ (limit > 0 /\ got = <<>>) => turn = 0
  BY <1>3, <1>4, <1>8 DEF LoopInv, Below
<1>10. p.want = Chains(dag)[turn]
  BY <1>1, <1>7, ChainsAreAncestors DEF Chain
<1>11. p.status = "more" => got # <<>> /\ p.before = got[1] /\ turn # 0
  <2>1. ASSUME got # <<>>
        PROVE  turn # 0
    <3>1. 1 \in DOMAIN got /\ got[1] \in 1 .. n
      BY <1>9, <2>1
    <3> QED
      BY <1>9, <3>1
  <2> QED
    BY <1>7, <2>1
<1>12. p.status = "error" <=> \E i \in DOMAIN got : ~Servable(dag[got[i]], view)
  BY <1>7 DEF Served
<1>13. (p.status = "end" /\ p.limit > 0) => at = 0
  BY <1>7, <1>9
<1>14. PageShape(p, dag, head, n)
  BY <1>1, <1>2, <1>7, <1>9, <1>10, <1>11, <1>12, <1>13 DEF PageShape
<1> QED
  BY <1>4, <1>14

\* A next page of a context whose head is at a turn.
LEMMA PageOfHead ==
    ASSUME NEW n \in Nat, DagShape(dag, n), HeadsShape(head, n),
           PageShape(page, dag, head, n), ReadMore, head[page.context].turn # 0
    PROVE  PageShape(page', dag, head, n)
<1>0. DOMAIN page = PageFields
  BY DEF PageShape
<1>1. PICK old, limit, c, view : /\ old = page.got /\ limit = page.limit /\ c = page.context
                                /\ view = page.view
  OBVIOUS
<1>1a. limit \in Nat /\ c \in DOMAIN head
  BY <1>1 DEF PageShape
<1>2. page.status = "more"
  BY DEF ReadMore
<1>3. /\ old \in Seq(1 .. n) /\ Ascends(old) /\ old # <<>> /\ page.before = old[1]
      /\ head[c].turn # 0
  BY <1>1, <1>2 DEF PageShape
<1>4. PICK turn \in 0 .. n :
          /\ turn = dag[old[1]].parent
          /\ page.want = Range(old) \union Chains(dag)[turn]
          /\ \A i \in DOMAIN old : turn < old[i]
  BY <1>1, <1>3 DEF PageShape
<1>5. \A i \in DOMAIN old : Servable(dag[old[i]], view)
  BY <1>1, <1>2 DEF PageShape
<1>6. PICK w : w.got = WalkBack(turn, limit) /\ LoopInv(n, w, turn, limit)
  BY <1>1a, WalkBackFacts
<1>7. PICK got, all, p : got = w.got /\ all = got \o old /\ p = page'
  OBVIOUS
<1>8. 1 \in DOMAIN old /\ old[1] \in 1 .. n /\ old[1] # 0
  BY <1>3
<1>9. got = GetBefore(page.context, page.before, page.limit)
  BY <1>1, <1>3, <1>4, <1>6, <1>7, <1>8 DEF GetBefore
<1>10. p = [page EXCEPT !.got = got \o @, !.before = Cursor(got), !.status = Status(got, view)]
  BY <1>1, <1>7, <1>9 DEF ReadMore
<1>11. /\ DOMAIN p = DOMAIN page
       /\ p.context = c /\ p.limit = limit /\ p.got = all /\ p.want = page.want
       /\ p.view = view /\ p.reset = page.reset
       /\ p.status = IF ~Served(got, view) THEN "error" ELSE IF got = <<>> THEN "end" ELSE "more"
       /\ p.before = IF got = <<>> THEN 0 ELSE got[1]
  BY <1>0, <1>1, <1>7, <1>10 DEF Status, Cursor, PageFields
<1>12. PICK at \in 0 .. n : at = w.at
  BY <1>6 DEF LoopInv
<1>13. /\ got \in Seq(1 .. n) /\ Ascends(got)
       /\ \A i \in DOMAIN got : at < got[i] /\ got[i] <= turn
       /\ got # <<>> => at = dag[got[1]].parent
       /\ got = <<>> => at = turn
       /\ Range(got) \union Chains(dag)[at] = Chains(dag)[turn]
       /\ (limit > 0 /\ got = <<>>) => turn = 0
  BY <1>6, <1>7, <1>12 DEF LoopInv, Below
<1>14. \A i \in DOMAIN got : got[i] \in Nat
  BY <1>13
<1>15. \A i \in DOMAIN old : old[i] \in Nat
  BY <1>3
<1>16. \A i \in DOMAIN got, j \in DOMAIN old : got[i] < old[j]
  BY <1>4, <1>13, <1>14, <1>15
<1>17. /\ all \in Seq(1 .. n) /\ Ascends(all) /\ Range(all) = Range(got) \union Range(old)
       /\ got # <<>> => all # <<>> /\ all[1] = got[1]
  BY <1>3, <1>7, <1>13, <1>16, AscendingConcat
<1>18. got = <<>> => all = old
  BY <1>3, <1>7
<1>19. at = dag[all[1]].parent
  BY <1>4, <1>13, <1>17, <1>18
<1>20. p.want = Range(all) \union Chains(dag)[at]
  BY <1>4, <1>11, <1>13, <1>17
<1>21. \A x \in Range(all) : at < x
  <2>1. \A x \in Range(got) : at < x
    BY <1>13 DEF Range
  <2>2. \A x \in Range(old) : at < x
    <3>1. at <= turn
      <4>1. CASE got = <<>>
        BY <1>13, <4>1
      <4>2. CASE got # <<>>
        <5>1. 1 \in DOMAIN got
          BY <1>13, <4>2
        <5> QED
          BY <1>13, <1>14, <5>1
      <4> QED
        BY <4>1, <4>2
    <3>2. \A i \in DOMAIN old : at < old[i]
      BY <1>4, <1>15, <3>1
    <3> QED
      BY <3>2 DEF Range
  <2> QED
    BY <1>17, <2>1, <2>2
<1>22. \A i \in DOMAIN all : at < all[i]
  BY <1>21 DEF Range
<1>23. p.status = "error" <=> \E i \in DOMAIN all : ~Servable(dag[all[i]], view)
  <2>1. \A x \in Range(old) : Servable(dag[x], view)
    BY <1>5 DEF Range
  <2>2. (\E i \in DOMAIN got : ~Servable(dag[got[i]], view)) <=> \E x \in Range(got) : ~Servable(dag[x], view)
    BY DEF Range
  <2>3. (\E i \in DOMAIN all : ~Servable(dag[all[i]], view)) <=> \E x \in Range(all) : ~Servable(dag[x], view)
    BY DEF Range
  <2>4. p.status = "error" <=> \E i \in DOMAIN got : ~Servable(dag[got[i]], view)
    BY <1>11 DEF Served
  <2> QED
    BY <1>17, <2>1, <2>2, <2>3, <2>4
<1>24. p.status = "more" => all # <<>> /\ p.before = all[1]
  BY <1>11, <1>17
<1>25. (p.status = "end" /\ p.limit > 0) => at = 0
  BY <1>11, <1>13
<1>26. PageShape(p, dag, head, n)
  BY <1>0, <1>1a, <1>3, <1>11, <1>17, <1>19, <1>20, <1>22, <1>23, <1>24, <1>25 DEF PageShape
<1> QED
  BY <1>7, <1>26

\* One of a context whose head was overwritten: get_before gives an empty page.
LEMMA PageOfNothing ==
    ASSUME NEW n \in Nat, DagShape(dag, n), PageShape(page, dag, head, n), ReadMore,
           head[page.context].turn = 0
    PROVE  PageShape(page', dag, head, n)
<1>0. DOMAIN page = PageFields /\ page.limit \in Nat /\ page.got \in Seq(1 .. n)
  BY DEF PageShape
<1>1. page.status = "more" /\ page.reset
  BY DEF ReadMore, PageShape
<1>1a. PICK limit \in Nat : limit = page.limit
  BY <1>0
<1>2. PICK got, p : got = WalkBack(0, limit) /\ p = page'
  OBVIOUS
<1>3. got = <<>>
  <2>0. 0 \in 0 .. n
    OBVIOUS
  <2>1. PICK w : w.got = WalkBack(0, limit) /\ LoopInv(n, w, 0, limit)
    BY <2>0, WalkBackFacts
  <2>2. got \in Seq(1 .. n) /\ \A i \in DOMAIN got : got[i] <= 0
    BY <1>2, <2>1 DEF LoopInv
  <2>3. ASSUME got # <<>>
        PROVE  FALSE
    <3>1. 1 \in DOMAIN got /\ got[1] \in 1 .. n
      BY <2>2, <2>3
    <3> QED
      BY <2>2, <3>1
  <2> QED
    BY <2>3
<1>4. GetBefore(page.context, page.before, page.limit) = got
  BY <1>1a, <1>2 DEF GetBefore, GetLast
<1>5. p = [page EXCEPT !.got = got \o @, !.before = Cursor(got), !.status = Status(got, page.view)]
  BY <1>2, <1>4 DEF ReadMore
<1>6. Status(got, page.view) = "end" /\ got \o page.got = page.got
  BY <1>0, <1>3 DEF Status, Served
<1>7. /\ DOMAIN p = PageFields
      /\ p.context = page.context /\ p.limit = page.limit /\ p.view = page.view /\ p.got = page.got
      /\ p.want = page.want /\ p.reset = page.reset /\ p.status = "end"
  BY <1>0, <1>5, <1>6 DEF PageFields
<1>8. PageShape(p, dag, head, n)
  BY <1>1, <1>7 DEF PageShape
<1> QED
  BY <1>2, <1>8

LEMMA NextPage ==
    ASSUME NEW n \in Nat, DagShape(dag, n), HeadsShape(head, n),
           PageShape(page, dag, head, n), ReadMore
    PROVE  PageShape(page', dag, head, n)
BY PageOfHead, PageOfNothing

LEMMA PagingNextInv == PageInv /\ [PagingNext]_pagingVars => PageInv'
<1> SUFFICES ASSUME PageInv, [PagingNext]_pagingVars
             PROVE  PageInv'
  OBVIOUS
<1>0. PICK n \in Nat :
          /\ DagShape(dag, n) /\ HeadsShape(head, n)
          /\ page # NoReader => PageShape(page, dag, head, n)
  BY DEF PageInv
<1> DEFINE Kept(k) ==
              /\ DagShape(dag', k) /\ HeadsShape(head', k)
              /\ page' # NoReader => PageShape(page', dag', head', k)
<1>1. ASSUME NEW k \in Nat, Kept(k)
      PROVE  PageInv'
  BY <1>1 DEF PageInv, NoReader
<1> HIDE DEF Kept
<1>2. NextTurn = n + 1 /\ n + 1 \in Nat
  <2>1. Cardinality(1 .. n) = n
    BY FS_Interval
  <2> QED
    BY <1>0, <2>1 DEF NextTurn, DagShape
<1>3. DOMAIN dag = 1 .. n
  BY <1>0 DEF DagShape
<1>4. ASSUME NEW base \in DOMAIN dag \union {0}, CreateAt(base)
      PROVE  PageInv'
  <2>1. PICK new, h, p : new = nextPaged /\ h = head' /\ p = page'
    OBVIOUS
  <2>2. /\ h = Extend(head, new, [turn |-> base]) /\ dag' = dag
        /\ p = IF page # NoReader /\ page.context = new /\ base = 0
               THEN [page EXCEPT !.reset = TRUE] ELSE page
    BY <1>4, <2>1 DEF CreateAt
  <2>3. base \in 0 .. n
    BY <1>3
  <2>4. /\ DOMAIN h = DOMAIN head \cup {new} /\ h[new].turn = base
        /\ \A c \in DOMAIN head : c # new => h[c] = head[c]
    BY <2>2 DEF Extend
  <2>5. HeadsShape(h, n)
    BY <1>0, <2>3, <2>4 DEF HeadsShape
  <2>6. ASSUME p # NoReader
        PROVE  PageShape(p, dag, h, n)
    <3>1. page # NoReader /\ PageShape(page, dag, head, n)
      BY <1>0, <2>2, <2>6
    <3>2. page.context \in DOMAIN h /\ DOMAIN page = PageFields
      BY <2>4, <3>1 DEF PageShape
    <3>3. CASE page.context = new /\ base = 0
      <4>1. p = [page EXCEPT !.reset = TRUE]
        BY <2>2, <3>1, <3>3
      <4>2. /\ DOMAIN p = PageFields /\ p.context = page.context /\ p.limit = page.limit
            /\ p.view = page.view /\ p.got = page.got /\ p.want = page.want /\ p.reset = TRUE
            /\ p.status = page.status /\ p.before = page.before
        BY <3>2, <4>1 DEF PageFields
      <4> QED
        BY <3>1, <3>2, <4>2 DEF PageShape
    <3>4. CASE ~(page.context = new /\ base = 0)
      <4>1. p = page
        BY <2>2, <3>4
      <4>2. head[page.context].turn # 0 => h[page.context].turn # 0
        BY <2>4, <3>1, <3>4 DEF PageShape
      <4> QED
        BY <3>1, <3>2, <4>1, <4>2 DEF PageShape
    <3> QED
      BY <3>3, <3>4
  <2>7. Kept(n)
    BY <1>0, <2>1, <2>2, <2>5, <2>6 DEF Kept
  <2> QED
    BY <1>1, <2>7
<1>5. ASSUME NEW c \in 1 .. MaxPagedContexts, NEW parent \in DOMAIN dag \union {0}, NEW meta,
             AppendBelow(c, parent, meta)
      PROVE  PageInv'
  <2>1. PICK new : new = DagTurn(parent, meta)
    OBVIOUS
  <2>2. /\ dag' = Extend(dag, n + 1, new) /\ head' = Extend(head, c, [turn |-> n + 1])
        /\ page' = page
    BY <1>2, <1>5, <2>1 DEF AppendBelow
  <2>3. new.parent \in 0 .. n
    BY <1>3, <2>1 DEF DagTurn
  <2>4. PICK e, h : e = dag' /\ h = head'
    OBVIOUS
  <2>5. DagShape(e, n + 1)
    BY <1>0, <2>2, <2>3, <2>4, DagGrows
  <2>6. /\ DOMAIN h = DOMAIN head \cup {c} /\ h[c].turn = n + 1
        /\ \A x \in DOMAIN head : x # c => h[x] = head[x]
    BY <2>2, <2>4 DEF Extend
  <2>7. HeadsShape(h, n + 1)
    BY <1>0, <2>6 DEF HeadsShape
  <2>8. \A x \in DOMAIN head : h[x].turn = head[x].turn \/ h[x].turn = n + 1
    BY <2>6
  <2>9. ASSUME PageShape(page, dag, head, n)
        PROVE  PageShape(page, e, h, n + 1)
    <3>1. e = Extend(dag, n + 1, new) /\ DOMAIN head \subseteq DOMAIN h
      BY <2>2, <2>4, <2>6
    <3> QED
      BY <1>0, <2>3, <2>8, <2>9, <3>1, PageKept
  <2>10. Kept(n + 1)
    BY <1>0, <2>2, <2>4, <2>5, <2>7, <2>9 DEF Kept
  <2> QED
    BY <1>1, <1>2, <2>10
<1>6. ASSUME NEW parent \in DOMAIN dag \union {0}, AppendTorn(parent)
      PROVE  PageInv'
  <2>1. PICK new : new = DagTurn(parent, "lost")
    OBVIOUS
  <2>2. /\ dag' = Extend(dag, n + 1, new) /\ head' = head /\ page' = page
    BY <1>2, <1>6, <2>1 DEF AppendTorn
  <2>3. new.parent \in 0 .. n
    BY <1>3, <2>1 DEF DagTurn
  <2>4. PICK e : e = dag'
    OBVIOUS
  <2>5. DagShape(e, n + 1)
    BY <1>0, <2>2, <2>3, <2>4, DagGrows
  <2>6. HeadsShape(head, n + 1)
    BY <1>0 DEF HeadsShape
  <2>7. ASSUME PageShape(page, dag, head, n)
        PROVE  PageShape(page, e, head, n + 1)
    BY <1>0, <2>2, <2>3, <2>4, <2>7, PageKept
  <2>8. Kept(n + 1)
    BY <1>0, <2>2, <2>4, <2>5, <2>6, <2>7 DEF Kept
  <2> QED
    BY <1>1, <1>2, <2>8
<1>7. ASSUME NEW c \in DOMAIN head, NEW limit \in Limits, NEW view, ReadFirst(c, limit, view)
      PROVE  PageInv'
  <2>1. PageShape(page', dag, head, n)
    BY <1>0, <1>7, FirstPage
  <2>2. dag' = dag /\ head' = head
    BY <1>7 DEF ReadFirst
  <2>3. Kept(n)
    BY <1>0, <2>1, <2>2 DEF Kept
  <2> QED
    BY <1>1, <2>3
<1>8. ASSUME ReadMore
      PROVE  PageInv'
  <2>1. PageShape(page', dag, head, n)
    BY <1>0, <1>8, NextPage DEF ReadMore
  <2>2. dag' = dag /\ head' = head
    BY <1>8 DEF ReadMore
  <2>3. Kept(n)
    BY <1>0, <2>1, <2>2 DEF Kept
  <2> QED
    BY <1>1, <2>3
<1>9. CASE RestartBetween \/ UNCHANGED pagingVars
  <2>1. dag' = dag /\ head' = head /\ page' = page
    BY <1>9 DEF pagingVars, dagVars, RestartBetween
  <2>2. Kept(n)
    BY <1>0, <2>1 DEF Kept
  <2> QED
    BY <1>1, <2>2
<1> QED
  BY <1>4, <1>5, <1>6, <1>7, <1>8, <1>9 DEF PagingNext

\* A reader that goes back page by page has, whatever is appended, forked or
\* lost between the pages, an end of the context as it was at the first page,
\* each turn once and in order, and at the end all of it unless create_context
\* has overwritten the head in between (get_last, get_before,
\* next_before_turn_id).
THEOREM PagesCoverTheChain == PagingSpec => []PagesCoverChain
<1> QED
  BY PagingInitInv, PagingNextInv, PageGivesProperty, PTL DEF PagingSpec
===============================================================================

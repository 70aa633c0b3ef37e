-------------------------- MODULE ContextMetadata --------------------------
(***************************************************************************)
(* The metadata cache and the secondary indexes of the store (server/src/  *)
(* store.rs, server/src/cql/indexes.rs).  A context's metadata is taken    *)
(* from the payload of one of its turns: of the first append while the     *)
(* server runs, of the first turn of its chain when it is read or when the *)
(* server starts.                                                          *)
(*                                                                         *)
(* Appends hold the store's write lock and reads its read lock throughout, *)
(* so each is one step; the turns themselves are durable and atomic here   *)
(* (TurnStore).  All the indexes on metadata fields have the shape of      *)
(* metaIndex: a value and the contexts filed under it.                     *)
(***************************************************************************)
EXTENDS Integers, FiniteSets, FiniteSetsExt

CONSTANTS
    Metas,         \* payloads that carry metadata, each its own
    Plain,         \* payloads that carry none
    MaxTurns, MaxContexts, MaxRestarts   \* bounds

ASSUME MetadataBounds == MaxTurns \in Nat /\ MaxContexts \in Nat /\ MaxRestarts \in Nat
ASSUME MetasDisjoint  == Metas \cap Plain = {}

None == "none"
Unwritten == "unwritten"
ASSUME NoneIsNoMeta == None \notin Metas /\ Unwritten \notin Metas \cup Plain

VARIABLES
    turns,        \* the turn store: id -> turn
    heads,        \* context -> head turn and depth
    nextContext,  \* next_context_id
    cache,        \* context_metadata_cache: context -> metadata or None
    metaIndex,    \* the indexes on metadata: <<metadata, context>>
    depthIndex,   \* depth_btree: <<depth, context>>
    allIds,       \* all_context_ids
    restarts,     \* restarts so far
    tame          \* history: the payload of the first append (Unwritten before)
                  \* of each context created empty, only ever appended to at
                  \* its head, and neither read nor restarted while empty

metadataVars == <<turns, heads, nextContext, cache, metaIndex, depthIndex, allIds, restarts, tame>>

Payloads   == Metas \cup Plain
ContextIds == 1 .. MaxContexts

Put(map, key, val) ==
    [k \in DOMAIN map \cup {key} |-> IF k = key THEN val ELSE map[k]]

Drop(map, key) == [k \in DOMAIN map \ {key} |-> map[k]]

\* extract_context_metadata
Extract(payload) == IF payload \in Metas THEN payload ELSE None

\* get_first_turn: walk the parents to depth 0.
FirstTurn[t \in DOMAIN turns] ==
    IF turns[t].depth = 0 THEN t ELSE FirstTurn[turns[t].parent]

\* Mutant: the metadata is that of the latest turn.
LoadMetadataOfHead(context) ==
    IF heads[context].turn = 0 THEN None
    ELSE Extract(turns[heads[context].turn].payload)

\* load_context_metadata: None for a context without turns.
LoadMetadata(context) ==
    IF heads[context].turn = 0 THEN None
    ELSE Extract(turns[FirstTurn[heads[context].turn]].payload)

-----------------------------------------------------------------------------
(* Operations.                                                             *)

\* create_context and fork_context touch neither cache nor indexes, even when
\* an append with an explicit parent has already used the context's id.
CreateContext(base) ==
    LET context == nextContext IN
    /\ context <= MaxContexts
    /\ nextContext' = nextContext + 1
    /\ base # 0 => base \in DOMAIN turns
    /\ heads' = Put(heads, context,
                    [turn |-> base, depth |-> IF base = 0 THEN 0 ELSE turns[base].depth])
    /\ tame' = IF base = 0 /\ context \notin DOMAIN heads
               THEN Put(tame, context, Unwritten)
               ELSE tame
    /\ UNCHANGED <<turns, cache, metaIndex, depthIndex, allIds, restarts>>

\* The turn an append goes below, as in TurnStore: only the default looks the
\* context up.
Parent(context, parent) == IF parent # 0 THEN parent ELSE heads[context].turn

\* The turn of an append, and the context's new head.
NewTurn(context, parent, payload) ==
    LET p == Parent(context, parent)
        t == Cardinality(DOMAIN turns) + 1
        d == IF p = 0 THEN 0 ELSE turns[p].depth + 1
    IN /\ t <= MaxTurns
       /\ parent = 0 => context \in DOMAIN heads
       /\ p # 0 => p \in DOMAIN turns
       /\ turns' = Put(turns, t, [parent |-> p, depth |-> d, payload |-> payload])
       /\ heads' = Put(heads, context, [turn |-> t, depth |-> d])
       /\ tame' = IF context \notin DOMAIN tame THEN tame
                  ELSE IF p # heads[context].turn THEN Drop(tame, context)
                  ELSE IF p = 0 THEN Put(tame, context, payload)
                  ELSE tame

\* SecondaryIndexes::add_context
AddContext(context, meta, depth) ==
    /\ metaIndex' = metaIndex \cup {<<meta, context>>}
    /\ depthIndex' = depthIndex \cup {<<depth, context>>}
    /\ allIds' = allIds \cup {context}

\* append_turn: maybe_cache_metadata fills a vacant cache entry only, and only
\* freshly extracted metadata is indexed.
AppendTurn(context, parent, payload) ==
    /\ NewTurn(context, parent, payload)
    /\ IF context \in DOMAIN cache
       THEN UNCHANGED <<cache, metaIndex, depthIndex, allIds>>
       ELSE /\ cache' = Put(cache, context, Extract(payload))
            /\ IF Extract(payload) # None
               THEN AddContext(context, Extract(payload), heads'[context].depth)
               ELSE UNCHANGED <<metaIndex, depthIndex, allIds>>
    /\ UNCHANGED <<nextContext, restarts>>

\* get_context_metadata, from GET /v1/contexts and its relatives, after
\* get_head found the context: a miss loads and caches, but indexes nothing.
GetContextMetadata(context) ==
    /\ context \in DOMAIN heads
    /\ cache' = IF context \in DOMAIN cache THEN cache
                ELSE Put(cache, context, LoadMetadata(context))
    /\ tame' = IF heads[context].turn = 0 THEN Drop(tame, context) ELSE tame
    /\ UNCHANGED <<turns, heads, nextContext, metaIndex, depthIndex, allIds, restarts>>

\* Store::open, build_indexes: the cache is filled for every context, then
\* the indexes are built from the cache and the heads.
Restart ==
    /\ restarts < MaxRestarts
    /\ restarts' = restarts + 1
    /\ nextContext' = Max({1} \cup {c + 1 : c \in DOMAIN heads})
    /\ cache' = [c \in DOMAIN heads |-> LoadMetadata(c)]
    /\ metaIndex' = {<<LoadMetadata(c), c>> :
                        c \in {d \in DOMAIN heads : LoadMetadata(d) # None}}
    /\ depthIndex' = {<<heads[c].depth, c>> : c \in DOMAIN heads}
    /\ allIds' = DOMAIN heads
    /\ tame' = [c \in {d \in DOMAIN tame : tame[d] # Unwritten} |-> tame[c]]
    /\ UNCHANGED <<turns, heads>>

-----------------------------------------------------------------------------
NoMap == [k \in {} |-> 0]

MetadataInit ==
    /\ turns = NoMap /\ heads = NoMap /\ nextContext = 1 /\ cache = NoMap
    /\ metaIndex = {} /\ depthIndex = {} /\ allIds = {}
    /\ restarts = 0
    /\ tame = NoMap

MetadataNext ==
    \/ \E base \in 0 .. MaxTurns : CreateContext(base)
    \/ \E context \in ContextIds, parent \in 0 .. MaxTurns, payload \in Payloads :
          AppendTurn(context, parent, payload)
    \/ \E context \in ContextIds : GetContextMetadata(context)
    \/ Restart

MetadataSpec == MetadataInit /\ [][MetadataNext]_metadataVars

-----------------------------------------------------------------------------
(* Correctness.                                                            *)

\* A context that was created empty under a fresh id, grown at its head and
\* not looked at before its first append is filed under the metadata of its
\* first turn from that append on, whatever is read, forked or restarted later;
\* and no context, tame or not, is filed under metadata it does not report.
TameContextsFound ==
    /\ \A c \in DOMAIN tame :
          tame[c] # Unwritten =>
              /\ c \in DOMAIN cache /\ cache[c] = Extract(tame[c])
              /\ cache[c] # None => <<cache[c], c>> \in metaIndex
    /\ \A e \in metaIndex : e[2] \in DOMAIN cache /\ cache[e[2]] = e[1] /\ e[2] \in allIds
=============================================================================

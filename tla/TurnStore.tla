----------------------------- MODULE TurnStore -----------------------------
(***************************************************************************)
(* The turn store of the cxdb server (server/src/turn_store/mod.rs): an    *)
(* append-only DAG of turns with one mutable head pointer per context,     *)
(* kept in four files and mirrored in memory.                              *)
(*                                                                         *)
(* A file is the pair of what a scan from its start recovers ("valid", the *)
(* complete records before the first torn one, folded by key: the loaders  *)
(* insert each record into a map, so a later record for a key wins) and    *)
(* the number of bytes that follow it ("junk").  A record written behind   *)
(* junk bytes is misaligned for the loaders and is itself junk.            *)
(*                                                                         *)
(* turns.idx is written (step "idx") but only rebuild_index, which empties *)
(* it first, ever touches it again, so its content is not kept.            *)
(***************************************************************************)
EXTENDS Integers, FiniteSets

CONSTANTS
    Payloads,      \* what a caller stores in a turn: payload hash, declared
                   \* type and encoding, opaque to this store
    MaxTurns,      \* bound on turn ids
    MaxContexts,   \* bound on context ids
    MaxFaults,     \* bound on crashes and failed writes
    TornLens,      \* how many bytes of a record an interrupted write may leave
    WriteErrors,   \* may a write fail while the process keeps running?
    StrayAppends   \* may an append with an explicit parent name a context
                   \* that was never created?

\* Encoded sizes, in bytes (a meta record with the shortest type id).
FieldLen    == 8
TurnLen     == 80
MetaLen     == 28
HeadLen     == 36

ASSUME PayloadsNonEmpty == Payloads # {}
ASSUME BoundsAssumption == /\ MaxTurns \in Nat
                           /\ MaxContexts \in Nat
                           /\ MaxFaults \in Nat
ASSUME TornAssumption   == TornLens \subseteq 1 .. (MetaLen - 1)
ASSUME SwitchAssumption == WriteErrors \in BOOLEAN /\ StrayAppends \in BOOLEAN

VARIABLES
    turnsLog, turnsMeta, headsTbl,   \* the files
    turns, turnMeta, heads,          \* the maps in memory
    nextTurnId, nextContextId,       \* the id counters in memory
    op,                              \* the operation holding the write lock
    mode,                            \* "up", "down" or "failed" (open returned Err)
    faults,                          \* faults so far
    acked,                           \* history: turn records returned to callers
    ackedHead                        \* history: head of the last acknowledged
                                     \* operation on each context

files  == <<turnsLog, turnsMeta, headsTbl>>
memory == <<turns, turnMeta, heads, nextTurnId, nextContextId>>
vars   == <<files, memory, op, mode, faults, acked, ackedHead>>

TurnIds    == 1 .. MaxTurns
ContextIds == 1 .. MaxContexts

\* TurnRecord and ContextHead; the fields no operation of the store reads
\* back (codec, type_tag, flags, timestamps) are left out.
TurnRecord  == [id : TurnIds, parent : 0 .. MaxTurns, depth : Nat, payload : Payloads]
ContextHead == [turn : 0 .. MaxTurns, depth : Nat]

\* HashMap::insert
Insert(map, key, val) ==
    [k \in DOMAIN map \cup {key} |-> IF k = key THEN val ELSE map[k]]

EmptyMap  == [k \in {} |-> 0]
EmptyFile == [valid |-> EmptyMap, junk |-> 0]
MaxId(S)  == CHOOSE m \in S : \A n \in S : n <= m

NoOp == [kind |-> "none"]

-----------------------------------------------------------------------------
(* Writing to a file: seek to the end, write_all, sync_all. *)

\* The complete record is on disk.
Written(file, key, rec, len) ==
    IF file.junk = 0
    THEN [file EXCEPT !.valid = Insert(@, key, rec)]
    ELSE [file EXCEPT !.junk = @ + len]

\* What an interrupted or failed write may leave: nothing, a torn record, or
\* the complete record (whose sync was never confirmed).
Interrupted(file, key, rec, len) ==
    {file, Written(file, key, rec, len)}
        \cup {[file EXCEPT !.junk = @ + n] : n \in TornLens}

-----------------------------------------------------------------------------
(* Opening the store. *)

\* Mutant: load_turns stops at a torn record but leaves it in the file.
load_turns_keeps_tail(file) == file

\* load_turns: any bytes that are not a complete record are cut off.
load_turns(file) == [file EXCEPT !.junk = 0]

\* Mutant: load_heads never truncates.
load_heads_keeps_tail(file) == file

\* load_heads: the same, except that an end of file inside the first u64
\* field leaves the loop without set_len.
load_heads(file) == IF file.junk < FieldLen THEN file ELSE [file EXCEPT !.junk = 0]

\* load_meta: as load_heads for a torn record; the records have no checksum,
\* so a misaligned tail long enough for one is read as garbage: the scan may
\* cut it off or swallow it.
load_meta(file) ==
    IF file.junk < FieldLen THEN {file}
    ELSE IF file.junk < MetaLen THEN {[file EXCEPT !.junk = 0]}
    ELSE {file, [file EXCEPT !.junk = 0]}

\* Mutant: the counter restarts at the last id.
NextIdReused(ids) == IF ids = {} THEN 1 ELSE MaxId(ids)

\* update_counters
NextId(ids) == IF ids = {} THEN 1 ELSE MaxId(ids) + 1

\* TurnStore::open
Open ==
    /\ mode = "down"
    /\ turnsLog' = load_turns(turnsLog)
    /\ turnsMeta' \in load_meta(turnsMeta)
    /\ headsTbl' = load_heads(headsTbl)
    /\ turns' = turnsLog.valid
    /\ turnMeta' = turnsMeta.valid
    /\ heads' = headsTbl.valid
    /\ nextTurnId' = NextId(DOMAIN turnsLog.valid)
    /\ nextContextId' = NextId(DOMAIN headsTbl.valid)
    /\ mode' = "up"
    /\ UNCHANGED <<op, faults, acked, ackedHead>>

\* load_meta met bytes that are not UTF-8 in a misaligned tail: open returns
\* Err(Corrupt) and will do so again on every retry.
OpenFails ==
    /\ mode = "down"
    /\ turnsMeta.junk >= MetaLen
    /\ turnsLog' = load_turns(turnsLog)
    /\ mode' = "failed"
    /\ UNCHANGED <<turnsMeta, headsTbl, memory, op, faults, acked, ackedHead>>

-----------------------------------------------------------------------------
(* Requests, up to their first write.                                      *)

Idle == mode = "up" /\ op = NoOp

\* NotFound: unknown base turn; unknown parent turn; unknown context; or the
\* context's head turn is not among the turns.  Nothing has changed by then.
CreateRefused(base) ==
    /\ Idle
    /\ base # 0 /\ base \notin DOMAIN turns
    /\ UNCHANGED vars

AppendRefused(context, parent) ==
    /\ Idle
    /\ \/ parent # 0 /\ parent \notin DOMAIN turns
       \/ parent = 0 /\ context \notin DOMAIN heads
       \/ /\ parent = 0 /\ context \in DOMAIN heads
          /\ heads[context].turn # 0 /\ heads[context].turn \notin DOMAIN turns
    /\ UNCHANGED vars

\* create_context, fork_context
CreateBegin(base) ==
    /\ Idle
    /\ base # 0 => base \in DOMAIN turns
    /\ nextContextId <= MaxContexts
    /\ LET head == [turn  |-> base,
                    depth |-> IF base = 0 THEN 0 ELSE turns[base].depth]
       IN op' = [kind |-> "create", stage |-> "head",
                 context |-> nextContextId, head |-> head]
    /\ nextContextId' = nextContextId + 1
    /\ UNCHANGED <<files, turns, turnMeta, heads, nextTurnId, mode, faults,
                   acked, ackedHead>>

\* The parent an append resolves to: the explicit one, else the context's head.
ParentOf(context, parent) == IF parent # 0 THEN parent ELSE heads[context].turn

\* append_turn: an explicit parent is looked up among all turns, and then the
\* context is not looked up at all.
AppendBegin(context, parent, payload) ==
    /\ Idle
    /\ parent = 0 => context \in DOMAIN heads
    /\ StrayAppends \/ context \in DOMAIN heads
    /\ nextTurnId <= MaxTurns
    /\ LET p == ParentOf(context, parent)
       IN /\ p # 0 => p \in DOMAIN turns
          /\ op' = [kind |-> "append", stage |-> "log", context |-> context,
                    rec |-> [id |-> nextTurnId, parent |-> p,
                             depth |-> IF p = 0 THEN 0 ELSE turns[p].depth + 1,
                             payload |-> payload]]
    /\ nextTurnId' = nextTurnId + 1
    /\ UNCHANGED <<files, turns, turnMeta, heads, nextContextId, mode, faults,
                   acked, ackedHead>>

-----------------------------------------------------------------------------
(* The writes of an operation, in order.                                   *)

HeadOf(o) == IF o.kind = "create" THEN o.head
             ELSE [turn |-> o.rec.id, depth |-> o.rec.depth]

At(stage) == mode = "up" /\ op # NoOp /\ op.stage = stage

WriteLog ==
    /\ At("log")
    /\ turnsLog' = Written(turnsLog, op.rec.id, op.rec, TurnLen)
    /\ op' = [op EXCEPT !.stage = "idx"]
    /\ UNCHANGED <<turnsMeta, headsTbl, memory, mode, faults, acked, ackedHead>>

WriteIdx ==
    /\ At("idx")
    /\ op' = [op EXCEPT !.stage = "meta"]
    /\ UNCHANGED <<files, memory, mode, faults, acked, ackedHead>>

\* turns.meta, then the three in-memory inserts.
WriteMeta ==
    /\ At("meta")
    /\ turnsMeta' = Written(turnsMeta, op.rec.id, op.rec.payload, MetaLen)
    /\ turnMeta' = Insert(turnMeta, op.rec.id, op.rec.payload)
    /\ turns' = Insert(turns, op.rec.id, op.rec)
    /\ op' = [op EXCEPT !.stage = "head"]
    /\ UNCHANGED <<turnsLog, headsTbl, heads, nextTurnId, nextContextId, mode,
                   faults, acked, ackedHead>>

\* Mutant: the head moves in memory and is never written to heads.tbl.
WriteHeadInMemory ==
    /\ At("head")
    /\ heads' = Insert(heads, op.context, HeadOf(op))
    /\ op' = [op EXCEPT !.stage = "reply"]
    /\ UNCHANGED <<files, turns, turnMeta, nextTurnId, nextContextId, mode,
                   faults, acked, ackedHead>>

\* write_head, heads.insert
WriteHead ==
    /\ At("head")
    /\ headsTbl' = Written(headsTbl, op.context, HeadOf(op), HeadLen)
    /\ heads' = Insert(heads, op.context, HeadOf(op))
    /\ op' = [op EXCEPT !.stage = "reply"]
    /\ UNCHANGED <<turnsLog, turnsMeta, turns, turnMeta, nextTurnId,
                   nextContextId, mode, faults, acked, ackedHead>>

\* Ok(..) is returned and acknowledged.
Reply ==
    /\ At("reply")
    /\ acked' = IF op.kind = "append" THEN acked \cup {op.rec} ELSE acked
    /\ ackedHead' = Insert(ackedHead, op.context, HeadOf(op).turn)
    /\ op' = NoOp
    /\ UNCHANGED <<files, memory, mode, faults>>

-----------------------------------------------------------------------------
(* Faults.                                                                 *)

\* What the files may hold after the current write was cut short.
FilesInterrupted ==
    /\ turnsLog' \in (IF At("log")
                      THEN Interrupted(turnsLog, op.rec.id, op.rec, TurnLen)
                      ELSE {turnsLog})
    /\ turnsMeta' \in (IF At("meta")
                       THEN Interrupted(turnsMeta, op.rec.id, op.rec.payload, MetaLen)
                       ELSE {turnsMeta})
    /\ headsTbl' \in (IF At("head")
                      THEN Interrupted(headsTbl, op.context, HeadOf(op), HeadLen)
                      ELSE {headsTbl})

\* The process dies: memory is gone, an unconfirmed write is anyone's guess.
Crash ==
    /\ mode = "up"
    /\ faults < MaxFaults
    /\ FilesInterrupted
    /\ turns' = EmptyMap /\ turnMeta' = EmptyMap /\ heads' = EmptyMap
    /\ nextTurnId' = 1 /\ nextContextId' = 1
    /\ op' = NoOp
    /\ mode' = "down"
    /\ faults' = faults + 1
    /\ UNCHANGED <<acked, ackedHead>>

\* A write or sync returns Err: the `?` leaves at once, with the counters and
\* the maps as they are by then.
WriteFails ==
    /\ WriteErrors
    /\ mode = "up" /\ op # NoOp /\ op.stage # "reply"
    /\ faults < MaxFaults
    /\ FilesInterrupted
    /\ op' = NoOp
    /\ faults' = faults + 1
    /\ UNCHANGED <<memory, mode, acked, ackedHead>>

-----------------------------------------------------------------------------
Init ==
    /\ turnsLog = EmptyFile /\ turnsMeta = EmptyFile /\ headsTbl = EmptyFile
    /\ turns = EmptyMap /\ turnMeta = EmptyMap /\ heads = EmptyMap
    /\ nextTurnId = 1 /\ nextContextId = 1
    /\ op = NoOp
    /\ mode = "down"
    /\ faults = 0
    /\ acked = {}
    /\ ackedHead = EmptyMap

\* Requests name any id, known or not.
AnyTurnId == 0 .. (MaxTurns + 1)

Next ==
    \/ Open
    \/ OpenFails
    \/ \E base \in AnyTurnId : CreateBegin(base) \/ CreateRefused(base)
    \/ \E context \in ContextIds, parent \in AnyTurnId :
           \/ \E payload \in Payloads : AppendBegin(context, parent, payload)
           \/ AppendRefused(context, parent)
    \/ WriteLog \/ WriteIdx \/ WriteMeta \/ WriteHead \/ Reply
    \/ Crash
    \/ WriteFails

Spec == Init /\ [][Next]_vars

-----------------------------------------------------------------------------
(* Correctness.                                                            *)

IsMap(map, Keys, Vals) == /\ DOMAIN map \subseteq Keys
                          /\ map \in [DOMAIN map -> Vals]
IsFile(file, Keys, Vals) == /\ file = [valid |-> file.valid, junk |-> file.junk]
                            /\ IsMap(file.valid, Keys, Vals)
                            /\ file.junk \in Nat
OpType ==
    {NoOp}
    \cup [kind : {"create"}, stage : {"head", "reply"}, context : ContextIds,
          head : ContextHead]
    \cup [kind : {"append"}, stage : {"log", "idx", "meta", "head", "reply"},
          context : ContextIds, rec : TurnRecord]

\* The state has the shape of the TurnStore struct and of its files.
TypeOK ==
    /\ IsFile(turnsLog, TurnIds, TurnRecord)
    /\ IsFile(turnsMeta, TurnIds, Payloads)
    /\ IsFile(headsTbl, ContextIds, ContextHead)
    /\ IsMap(turns, TurnIds, TurnRecord)
    /\ IsMap(turnMeta, TurnIds, Payloads)
    /\ IsMap(heads, ContextIds, ContextHead)
    /\ nextTurnId \in 1 .. (MaxTurns + 1)
    /\ nextContextId \in 1 .. (MaxContexts + 1)
    /\ op \in OpType
    /\ mode \in {"up", "down", "failed"}
    /\ faults \in 0 .. MaxFaults
    /\ acked \subseteq TurnRecord
    /\ IsMap(ackedHead, ContextIds, 0 .. MaxTurns)

\* A set of turns is a forest grown from the root: the parent is an earlier
\* turn of the set, one level up, or 0 for a turn at depth 0.
IsDag(map) ==
    \A t \in DOMAIN map :
        /\ map[t].id = t
        /\ \/ map[t].parent = 0 /\ map[t].depth = 0
           \/ /\ map[t].parent \in DOMAIN map
              /\ map[t].parent < t
              /\ map[t].depth = map[map[t].parent].depth + 1

\* The turns in memory, and the turns a restart would recover from turns.log,
\* always form such a forest, whatever crashed, tore or failed before: the
\* parent walks of get_last, get_before and get_first_turn end and meet no
\* missing turn, and a depth is the number of ancestors.
DagInv == IsDag(turns) /\ IsDag(turnsLog.valid)

\* Every head in memory and in the recoverable heads.tbl names turn 0 at
\* depth 0 or a turn of the same store, with that turn's depth: a turn is
\* never visible through a head before its own record is durable.
HeadsResolveIn(hs, ts) ==
    \A c \in DOMAIN hs :
        \/ hs[c].turn = 0 /\ hs[c].depth = 0
        \/ hs[c].turn \in DOMAIN ts /\ hs[c].depth = ts[hs[c].turn].depth
HeadsResolve == /\ HeadsResolveIn(heads, turns)
                /\ HeadsResolveIn(headsTbl.valid, turnsLog.valid)

\* An acknowledged append survives every later crash and restart: its record,
\* unchanged, is in the store and so is its type metadata.  No id is therefore
\* ever handed out to two acknowledged appends.
AckedTurnsDurable ==
    mode = "up" => \A r \in acked : /\ r.id \in DOMAIN turns
                                    /\ turns[r.id] = r
                                    /\ r.id \in DOMAIN turnMeta

\* A context that was acknowledged survives, with a head no older than the
\* last acknowledged one (a later, unacknowledged operation may have moved it).
AckedHeadsDurable ==
    mode = "up" => \A c \in DOMAIN ackedHead : /\ c \in DOMAIN heads
                                               /\ heads[c].turn >= ackedHead[c]

-----------------------------------------------------------------------------
(* Refinement.                                                             *)

\* The faults the store is built for: the process may die at any point, and a
\* write cut short leaves at least the first field of its record.
CrashOnly == /\ ~ WriteErrors
             /\ ~ StrayAppends
             /\ \A n \in TornLens : n >= FieldLen

\* What clients can rely on: the served state while the store is up, what a
\* restart would recover while it is down.
dagOf  == IF mode = "up" THEN turns ELSE turnsLog.valid
headOf == IF mode = "up" THEN heads ELSE headsTbl.valid

Abstract == INSTANCE ContextDag WITH dag <- dagOf, head <- headOf

\* The store, crashes and restarts included, behaves like the abstract DAG:
\* nothing that was visible disappears or changes, ids only grow, a head only
\* moves forward and only to a turn that is there.
ImplementsContextDag == Abstract!DagSpec
=============================================================================

------------------------------ MODULE StoreProofs -----------------------------
(***************************************************************************)
(* Proofs about the turn store, for every value of the constants; about    *)
(* the blob store, for any set of blobs and any bounds; and about the      *)
(* store that is composed of them: its turns never outlive their payloads. *)
(* That argument needs the blob store's writes to be cut short by crashes  *)
(* only; the turn store's may fail in any way TurnStore models.            *)
(***************************************************************************)
EXTENDS Store, WellFoundedInduction, SequenceTheorems, TLAPS

-----------------------------------------------------------------------------
(* Lemmas on maps, files and ids.                                          *)

\* HashMap::insert keeps a map a map.
LEMMA InsertIsMap ==
    ASSUME NEW Keys, NEW Vals, NEW map, IsMap(map, Keys, Vals),
           NEW k \in Keys, NEW v \in Vals
    PROVE  IsMap(Insert(map, k, v), Keys, Vals)
BY DEF IsMap, Insert

\* The maps of a store that is not open.
LEMMA EmptyIsMap ==
    ASSUME NEW Keys, NEW Vals
    PROVE  IsMap(EmptyMap, Keys, Vals)
BY DEF IsMap, EmptyMap

\* A confirmed write and an interrupted one both leave a file.
LEMMA WrittenIsFile ==
    ASSUME NEW Keys, NEW Vals, NEW file, IsFile(file, Keys, Vals),
           NEW k \in Keys, NEW v \in Vals, NEW len \in Nat
    PROVE  IsFile(Written(file, k, v, len), Keys, Vals)
BY InsertIsMap DEF IsFile, Written

LEMMA InterruptedIsFile ==
    ASSUME NEW Keys, NEW Vals, NEW file, IsFile(file, Keys, Vals),
           NEW k \in Keys, NEW v \in Vals, NEW len \in Nat,
           NEW f \in Interrupted(file, k, v, len)
    PROVE  IsFile(f, Keys, Vals)
<1>1. CASE f = Written(file, k, v, len)
  BY <1>1, WrittenIsFile
<1>2. CASE f = file
  BY <1>2
<1>3. ASSUME NEW n \in TornLens, f = [file EXCEPT !.junk = @ + n]
      PROVE  IsFile(f, Keys, Vals)
  BY <1>3, TornAssumption DEF IsFile, MetaLen
<1> QED
  BY <1>1, <1>2, <1>3 DEF Interrupted

\* A bounded, nonempty set of ids has a largest element.
LEMMA MaxIdExists ==
    ASSUME NEW N \in Nat, NEW S \in SUBSET (1 .. N), S # {}
    PROVE  MaxId(S) \in S /\ \A n \in S : n <= MaxId(S)
<1> DEFINE R == OpToRel(<, Nat)
           T == {N - n : n \in S}
<1>1. T \subseteq Nat /\ T # {}
  <2>1. \A n \in S : n \in Nat /\ N - n \in Nat
    OBVIOUS
  <2> QED
    BY <2>1, Zenon
<1>2. PICK x \in T : \A y \in T : ~ (<<y, x>> \in R)
  <2> HIDE DEF R, T
  <2>1. IsWellFoundedOn(R, Nat)
    BY NatLessThanWellFounded DEF R
  <2> QED
    BY <1>1, <2>1, WFMin
<1>3. \A y \in T : ~ (y < x)
  BY <1>1, <1>2 DEF OpToRel
<1>4. PICK m \in S : x = N - m
  OBVIOUS
<1>5. \A n \in S : n <= m
  BY <1>3, <1>4
<1> QED
  BY <1>5 DEF MaxId

\* update_counters puts a counter above every id in use.
LEMMA NextIdAbove ==
    ASSUME NEW N \in Nat, NEW S \in SUBSET (1 .. N)
    PROVE  NextId(S) \in 1 .. (N + 1) /\ \A n \in S : n < NextId(S)
<1>1. CASE S = {}
  BY <1>1 DEF NextId
<1>2. CASE S # {}
  <2>1. MaxId(S) \in S /\ \A n \in S : n <= MaxId(S)
    BY <1>2, MaxIdExists
  <2>2. NextId(S) = MaxId(S) + 1
    BY <1>2, Zenon DEF NextId
  <2>3. PICK m : m = MaxId(S)
    OBVIOUS
  <2>4. m \in 1 .. N /\ \A n \in S : n \in 1 .. N /\ n <= m
    BY <2>1, <2>3
  <2>5. m + 1 \in 1 .. (N + 1) /\ \A n \in S : n < m + 1
    BY <2>4
  <2> QED
    BY <2>2, <2>3, <2>5, Zenon
<1> QED
  BY <1>1, <1>2

-----------------------------------------------------------------------------
(* Type correctness.                                                       *)

\* The operation that a file write belongs to.
LEMMA OpAtStage ==
    ASSUME op \in OpType, NEW stage, At(stage)
    PROVE  /\ stage \in {"log", "idx", "meta"} =>
                /\ op.kind = "append" /\ op.rec \in TurnRecord
                /\ op.context \in ContextIds
           /\ op.context \in ContextIds
           /\ HeadOf(op) \in ContextHead
           /\ op.kind \in {"create", "append"}
           /\ op.kind = "append" => op.rec \in TurnRecord
           /\ op.kind = "create" => op.head \in ContextHead
BY DEF OpType, NoOp, At, HeadOf, ContextHead, TurnRecord, TurnIds

\* Moving an operation to its next stage.
LEMMA OpAdvances ==
    ASSUME op \in OpType, NEW stage, At(stage),
           NEW next \in {"idx", "meta", "head", "reply"},
           op.kind = "create" => next \in {"head", "reply"}
    PROVE  [op EXCEPT !.stage = next] \in OpType
BY DEF OpType, NoOp, At

\* An interrupted operation leaves files.
LEMMA FilesInterruptedType ==
    ASSUME TypeOK, FilesInterrupted
    PROVE  /\ IsFile(turnsLog', TurnIds, TurnRecord)
           /\ IsFile(turnsMeta', TurnIds, Payloads)
           /\ IsFile(headsTbl', ContextIds, ContextHead)
<1> USE DEF TypeOK
<1>1. IsFile(turnsLog', TurnIds, TurnRecord)
  <2>1. CASE At("log")
    BY <2>1, OpAtStage, InterruptedIsFile DEF FilesInterrupted, TurnRecord, TurnLen
  <2> QED
    BY <2>1 DEF FilesInterrupted
<1>2. IsFile(turnsMeta', TurnIds, Payloads)
  <2>1. CASE At("meta")
    BY <2>1, OpAtStage, InterruptedIsFile DEF FilesInterrupted, TurnRecord, MetaLen
  <2> QED
    BY <2>1 DEF FilesInterrupted
<1>3. IsFile(headsTbl', ContextIds, ContextHead)
  <2>1. CASE At("head")
    BY <2>1, OpAtStage, InterruptedIsFile DEF FilesInterrupted, HeadLen
  <2> QED
    BY <2>1 DEF FilesInterrupted
<1> QED
  BY <1>1, <1>2, <1>3

\* Opening the store keeps files files.
LEMMA LoadedType ==
    ASSUME TypeOK
    PROVE  /\ IsFile(load_turns(turnsLog), TurnIds, TurnRecord)
           /\ \A f \in load_meta(turnsMeta) : IsFile(f, TurnIds, Payloads)
           /\ IsFile(load_heads(headsTbl), ContextIds, ContextHead)
BY DEF TypeOK, IsFile, load_turns, load_meta, load_heads

LEMMA TypeInit == Init => TypeOK
<1> SUFFICES ASSUME Init PROVE TypeOK
  OBVIOUS
<1>1. \A Keys, Vals : IsMap(EmptyMap, Keys, Vals) /\ IsFile(EmptyFile, Keys, Vals)
  BY EmptyIsMap DEF IsFile, EmptyFile
<1> QED
  BY <1>1, BoundsAssumption DEF Init, TypeOK, OpType

LEMMA TypeStep == TypeOK /\ [Next]_vars => TypeOK'
<1> SUFFICES ASSUME TypeOK, [Next]_vars PROVE TypeOK'
  OBVIOUS
<1> USE BoundsAssumption
<1>1. CASE Open
  <2>1. /\ NextId(DOMAIN turnsLog.valid) \in 1 .. (MaxTurns + 1)
        /\ NextId(DOMAIN headsTbl.valid) \in 1 .. (MaxContexts + 1)
    BY NextIdAbove DEF TypeOK, IsFile, IsMap, TurnIds, ContextIds
  <2> QED
    BY <1>1, <2>1, LoadedType DEF Open, TypeOK, IsFile
<1>2. CASE OpenFails
  BY <1>2, LoadedType DEF OpenFails, TypeOK, memory
<1>3. ASSUME NEW base \in AnyTurnId, CreateBegin(base) PROVE TypeOK'
  <2> DEFINE head == [turn |-> base, depth |-> IF base = 0 THEN 0 ELSE turns[base].depth]
  <2>1. head \in ContextHead
    BY <1>3 DEF CreateBegin, TypeOK, ContextHead, IsMap, TurnIds, TurnRecord
  <2>2. nextContextId \in ContextIds
    BY <1>3 DEF CreateBegin, TypeOK, ContextIds
  <2>3. op' \in OpType
    BY <1>3, <2>1, <2>2 DEF CreateBegin, OpType
  <2> QED
    BY <1>3, <2>2, <2>3 DEF CreateBegin, TypeOK, files, ContextIds
<1>4. ASSUME NEW context \in ContextIds, NEW parent \in AnyTurnId,
             NEW payload \in Payloads, AppendBegin(context, parent, payload)
      PROVE  TypeOK'
  <2> DEFINE p == ParentOf(context, parent)
             rec == [id |-> nextTurnId, parent |-> p,
                     depth |-> IF p = 0 THEN 0 ELSE turns[p].depth + 1,
                     payload |-> payload]
  <2>1. p = 0 \/ p \in DOMAIN turns
    BY <1>4 DEF AppendBegin
  <2>2. nextTurnId \in TurnIds
    BY <1>4 DEF AppendBegin, TypeOK, TurnIds
  <2>3. p \in 0 .. MaxTurns /\ (p # 0 => turns[p].depth \in Nat)
    <3> HIDE DEF p
    <3> QED
      BY <2>1 DEF TypeOK, IsMap, TurnIds, TurnRecord
  <2>4. rec \in TurnRecord
    <3> HIDE DEF p
    <3> QED
      BY <2>2, <2>3 DEF TurnRecord
  <2>5. op' = [kind |-> "append", stage |-> "log", context |-> context, rec |-> rec]
    BY <1>4 DEF AppendBegin
  <2>6. op' \in OpType
    <3> HIDE DEF rec
    <3> QED
      BY <2>4, <2>5 DEF OpType
  <2> QED
    BY <1>4, <2>2, <2>6 DEF AppendBegin, TypeOK, files, TurnIds
<1>5. CASE WriteLog
  <2>1. IsFile(turnsLog', TurnIds, TurnRecord)
    BY <1>5, OpAtStage, WrittenIsFile DEF WriteLog, TypeOK, TurnRecord, TurnLen
  <2>2. op' \in OpType
    BY <1>5, OpAtStage, OpAdvances DEF WriteLog, TypeOK
  <2> QED
    BY <1>5, <2>1, <2>2 DEF WriteLog, TypeOK, memory
<1>6. CASE WriteIdx
  <2>1. op' \in OpType
    BY <1>6, OpAtStage, OpAdvances DEF WriteIdx, TypeOK
  <2> QED
    BY <1>6, <2>1 DEF WriteIdx, TypeOK, memory, files
<1>7. CASE WriteMeta
  <2>1. op.rec \in TurnRecord /\ op.rec.id \in TurnIds /\ op.rec.payload \in Payloads
    BY <1>7, OpAtStage DEF WriteMeta, TypeOK, TurnRecord
  <2>2. IsFile(turnsMeta', TurnIds, Payloads)
    BY <1>7, <2>1, WrittenIsFile DEF WriteMeta, TypeOK, MetaLen
  <2>3. IsMap(turnMeta', TurnIds, Payloads) /\ IsMap(turns', TurnIds, TurnRecord)
    BY <1>7, <2>1, InsertIsMap DEF WriteMeta, TypeOK
  <2>4. op' \in OpType
    BY <1>7, OpAtStage, OpAdvances DEF WriteMeta, TypeOK
  <2> QED
    BY <1>7, <2>2, <2>3, <2>4 DEF WriteMeta, TypeOK
<1>8. CASE WriteHead
  <2>1. op.context \in ContextIds /\ HeadOf(op) \in ContextHead
    BY <1>8, OpAtStage DEF WriteHead, TypeOK
  <2>2. IsFile(headsTbl', ContextIds, ContextHead)
    BY <1>8, <2>1, WrittenIsFile DEF WriteHead, TypeOK, HeadLen
  <2>3. IsMap(heads', ContextIds, ContextHead)
    BY <1>8, <2>1, InsertIsMap DEF WriteHead, TypeOK
  <2>4. op' \in OpType
    BY <1>8, OpAtStage, OpAdvances DEF WriteHead, TypeOK
  <2> QED
    BY <1>8, <2>2, <2>3, <2>4 DEF WriteHead, TypeOK
<1>9. CASE Reply
  <2>1. op.context \in ContextIds /\ HeadOf(op).turn \in 0 .. MaxTurns
    BY <1>9, OpAtStage DEF Reply, TypeOK, ContextHead
  <2>2. acked' \subseteq TurnRecord
    BY <1>9, OpAtStage DEF Reply, TypeOK
  <2>3. IsMap(ackedHead', ContextIds, 0 .. MaxTurns)
    BY <1>9, <2>1, InsertIsMap DEF Reply, TypeOK
  <2>4. op' \in OpType
    BY <1>9 DEF Reply, OpType
  <2> QED
    BY <1>9, <2>2, <2>3, <2>4 DEF Reply, TypeOK, memory, files
<1>10. CASE Crash
  <2>1. op' \in OpType
    BY <1>10 DEF Crash, OpType
  <2> QED
    BY <1>10, <2>1, FilesInterruptedType, EmptyIsMap DEF Crash, TypeOK
<1>11. CASE WriteFails
  <2>1. op' \in OpType
    BY <1>11 DEF WriteFails, OpType
  <2> QED
    BY <1>11, <2>1, FilesInterruptedType DEF WriteFails, TypeOK, memory
<1>12. CASE UNCHANGED vars
  BY <1>12 DEF vars, files, memory, TypeOK
<1>13. ASSUME NEW base \in AnyTurnId, CreateRefused(base) PROVE TypeOK'
  BY <1>12, <1>13 DEF CreateRefused
<1>14. ASSUME NEW context \in ContextIds, NEW parent \in AnyTurnId,
              AppendRefused(context, parent)
       PROVE  TypeOK'
  BY <1>12, <1>14 DEF AppendRefused
<1> QED
  BY <1>1, <1>2, <1>3, <1>4, <1>5, <1>6, <1>7, <1>8, <1>9, <1>10, <1>11, <1>12,
     <1>13, <1>14 DEF Next

\* The store's maps, counters, files and in-flight operation keep their
\* shape through every operation, crash, failed write and restart.
THEOREM TypeCorrect == Spec => []TypeOK
BY TypeInit, TypeStep, PTL DEF Spec

-----------------------------------------------------------------------------
(* The DAG of turns, under every kind of fault.                            *)
(*                                                                         *)
(* DagInv is not inductive: the record being appended must extend the DAG  *)
(* both in memory and on disk, its id must be new in both, and what is in  *)
(* memory must be on disk unless the log has a torn record, behind which   *)
(* nothing counts.                                                         *)

Extends(rec, map) ==
    \/ rec.parent = 0 /\ rec.depth = 0
    \/ /\ rec.parent \in DOMAIN map
       /\ rec.parent < rec.id
       /\ rec.depth = map[rec.parent].depth + 1

Appending == op # NoOp /\ op.kind = "append" /\ op.stage \in {"log", "idx", "meta"}

IdsBelow(map, n) == \A t \in DOMAIN map : t < n
Includes(big, small) == \A t \in DOMAIN small : t \in DOMAIN big /\ big[t] = small[t]

DagIInv ==
    /\ TypeOK
    /\ DagInv
    /\ mode # "up" => turns = EmptyMap /\ op = NoOp
    /\ mode = "up" =>
        /\ IdsBelow(turns, nextTurnId) /\ IdsBelow(turnsLog.valid, nextTurnId)
        /\ turnsLog.junk = 0 => Includes(turnsLog.valid, turns)
        /\ Appending =>
            /\ op.rec.id < nextTurnId
            /\ IdsBelow(turns, op.rec.id)
            /\ Extends(op.rec, turns)
            /\ op.stage = "log" => IdsBelow(turnsLog.valid, op.rec.id)
            /\ op.stage # "log" /\ turnsLog.junk = 0 =>
                   op.rec.id \in DOMAIN turnsLog.valid
                   /\ turnsLog.valid[op.rec.id] = op.rec

LEMMA InsertKeepsDag ==
    ASSUME NEW map, NEW rec \in TurnRecord, IsMap(map, TurnIds, TurnRecord),
           IsDag(map), IdsBelow(map, rec.id), Extends(rec, map)
    PROVE  IsDag(Insert(map, rec.id, rec))
BY DEF IsDag, Insert, IdsBelow, Extends, IsMap, TurnRecord, TurnIds

\* Whatever becomes of the log record of an append, the log stays a DAG that
\* covers the turns in memory.
LEMMA LogWritten ==
    ASSUME DagIInv, At("log"),
           NEW f \in Interrupted(turnsLog, op.rec.id, op.rec, TurnLen)
    PROVE  /\ IsDag(f.valid)
           /\ IdsBelow(f.valid, nextTurnId)
           /\ f.junk = 0 => Includes(f.valid, turns)
<1> DEFINE rec == op.rec
           w == Written(turnsLog, rec.id, rec, TurnLen)
<1>1. /\ rec \in TurnRecord /\ rec.id \in TurnIds
      /\ mode = "up" /\ op # NoOp /\ op.kind = "append" /\ op.stage = "log"
  BY OpAtStage DEF DagIInv, TypeOK, At, TurnRecord
<1>2. Appending
  BY <1>1 DEF Appending
<1>3. /\ rec.id < nextTurnId /\ Extends(rec, turns) /\ IdsBelow(turns, rec.id)
      /\ IdsBelow(turnsLog.valid, rec.id) /\ IdsBelow(turnsLog.valid, nextTurnId)
      /\ turnsLog.junk = 0 => Includes(turnsLog.valid, turns)
      /\ IsDag(turnsLog.valid) /\ IsMap(turnsLog.valid, TurnIds, TurnRecord)
      /\ turnsLog = [valid |-> turnsLog.valid, junk |-> turnsLog.junk]
      /\ turnsLog.junk \in Nat
  BY <1>1, <1>2 DEF DagIInv, DagInv, TypeOK, IsFile
<1> HIDE DEF rec
<1>4. CASE f.valid = turnsLog.valid /\ (f.junk = 0 => turnsLog.junk = 0)
  BY <1>4, <1>3
<1>5. CASE f = w /\ turnsLog.junk = 0
  <2>1. f.valid = Insert(turnsLog.valid, rec.id, rec)
    BY <1>3, <1>5 DEF Written
  <2>2. Extends(rec, turnsLog.valid)
    BY <1>3, <1>5 DEF Extends, Includes
  <2>3. IsDag(f.valid)
    BY <1>1, <1>3, <2>1, <2>2, InsertKeepsDag
  <2>4. IdsBelow(f.valid, nextTurnId)
    BY <1>3, <2>1 DEF IdsBelow, Insert
  <2>5. Includes(f.valid, turns)
    <3>1. \A t \in DOMAIN turns : t \in Int /\ t < rec.id
      BY <1>3 DEF IdsBelow, DagIInv, TypeOK, IsMap, TurnIds
    <3>2. \A t \in DOMAIN turns : t # rec.id
      BY <3>1
    <3> QED
      BY <1>3, <1>5, <2>1, <3>2 DEF Includes, Insert
  <2> QED
    BY <2>3, <2>4, <2>5
<1>6. CASE f = w /\ turnsLog.junk # 0
  <2>1. f.valid = turnsLog.valid /\ f.junk = turnsLog.junk + TurnLen
    BY <1>3, <1>6 DEF Written
  <2> QED
    BY <1>3, <1>4, <2>1 DEF TurnLen
<1>7. ASSUME NEW n \in TornLens, f = [turnsLog EXCEPT !.junk = @ + n]
      PROVE  f.valid = turnsLog.valid /\ (f.junk = 0 => turnsLog.junk = 0)
  BY <1>3, <1>7, TornAssumption DEF MetaLen
<1> QED
  BY <1>4, <1>5, <1>6, <1>7 DEF Interrupted, rec

LEMMA DagInit == Init => DagIInv
<1> SUFFICES ASSUME Init PROVE DagIInv
  OBVIOUS
<1>1. DagInv
  BY DEF Init, DagInv, IsDag, EmptyFile, EmptyMap
<1> QED
  BY <1>1, TypeInit DEF Init, DagIInv

LEMMA DagStep == DagIInv /\ [Next]_vars => DagIInv'
<1> SUFFICES ASSUME DagIInv, [Next]_vars PROVE DagIInv'
  OBVIOUS
<1>0. TypeOK /\ TypeOK'
  BY TypeStep DEF DagIInv
<1> USE <1>0, BoundsAssumption
<1>1. CASE Open
  <2>1. IdsBelow(turnsLog.valid, nextTurnId')
    <3>1. DOMAIN turnsLog.valid \in SUBSET (1 .. MaxTurns)
      BY DEF TypeOK, IsFile, IsMap, TurnIds
    <3> QED
      BY <1>1, <3>1, NextIdAbove DEF Open, IdsBelow
  <2>2. turnsLog'.valid = turnsLog.valid
    BY <1>1 DEF Open, load_turns, TypeOK, IsFile
  <2>3. ~ Appending'
    BY <1>1 DEF Open, DagIInv, Appending
  <2> QED
    BY <1>1, <2>1, <2>2, <2>3 DEF Open, DagIInv, DagInv, Includes
<1>2. CASE OpenFails
  <2>1. turnsLog'.valid = turnsLog.valid
    BY <1>2 DEF OpenFails, load_turns, TypeOK, IsFile
  <2> QED
    BY <1>2, <2>1 DEF OpenFails, memory, DagIInv, DagInv
<1>3. ASSUME NEW base \in AnyTurnId, CreateBegin(base) PROVE DagIInv'
  <2>1. ~ Appending'
    BY <1>3 DEF CreateBegin, Appending
  <2> QED
    BY <1>3, <2>1 DEF CreateBegin, Idle, files, DagIInv, DagInv
<1>4. ASSUME NEW context \in ContextIds, NEW parent \in AnyTurnId,
             NEW payload \in Payloads, AppendBegin(context, parent, payload)
      PROVE  DagIInv'
  <2> DEFINE p == ParentOf(context, parent)
  <2>1. p = 0 \/ p \in DOMAIN turns
    BY <1>4 DEF AppendBegin
  <2>2. /\ op'.rec.id = nextTurnId /\ op'.rec.parent = p /\ op'.stage = "log"
        /\ op'.rec.depth = IF p = 0 THEN 0 ELSE turns[p].depth + 1
    BY <1>4 DEF AppendBegin
  <2>3. nextTurnId' = nextTurnId + 1 /\ mode = "up" /\ mode' = "up"
        /\ turns' = turns /\ turnsLog' = turnsLog
    BY <1>4 DEF AppendBegin, Idle, files
  <2>4. IdsBelow(turns, nextTurnId) /\ IdsBelow(turnsLog.valid, nextTurnId)
    BY <2>3 DEF DagIInv
  <2>5. Extends(op'.rec, turns)
    <3> HIDE DEF p
    <3> QED
      BY <2>1, <2>2, <2>4 DEF Extends, IdsBelow
  <2>6. IdsBelow(turns, nextTurnId') /\ IdsBelow(turnsLog.valid, nextTurnId')
    BY <2>3, <2>4 DEF IdsBelow, TypeOK, IsFile, IsMap, TurnIds
  <2>7. nextTurnId \in Nat
    BY DEF TypeOK
  <2> QED
    BY <2>2, <2>3, <2>4, <2>5, <2>6, <2>7 DEF DagIInv, DagInv
<1>5. CASE WriteLog
  <2>1. /\ IsDag(turnsLog'.valid) /\ IdsBelow(turnsLog'.valid, nextTurnId)
        /\ turnsLog'.junk = 0 => Includes(turnsLog'.valid, turns)
    BY <1>5, LogWritten DEF WriteLog, Interrupted
  <2>2. Appending /\ mode = "up" /\ op \in OpType /\ op.kind = "append"
    BY <1>5, OpAtStage DEF WriteLog, At, Appending, TypeOK
  <2>3. op'.rec = op.rec /\ op'.stage = "idx"
    BY <1>5, <2>2 DEF WriteLog, OpType, NoOp
  <2>4. turnsLog'.junk = 0 => op.rec.id \in DOMAIN turnsLog'.valid
                              /\ turnsLog'.valid[op.rec.id] = op.rec
    BY <1>5 DEF WriteLog, Written, Insert, TypeOK, IsFile, TurnLen
  <2> QED
    BY <1>5, <2>1, <2>2, <2>3, <2>4 DEF WriteLog, memory, DagIInv, DagInv
<1>6. CASE WriteIdx
  <2>1. Appending /\ mode = "up" /\ op \in OpType /\ op.kind = "append" /\ op.stage = "idx"
    BY <1>6, OpAtStage DEF WriteIdx, At, Appending, TypeOK
  <2>2. op'.rec = op.rec /\ op'.stage = "meta"
    BY <1>6, <2>1 DEF WriteIdx, OpType, NoOp
  <2> QED
    BY <1>6, <2>1, <2>2 DEF WriteIdx, memory, files, DagIInv, DagInv
<1>7. CASE WriteMeta
  <2>1. Appending /\ mode = "up" /\ op \in OpType /\ op.kind = "append"
        /\ op.stage = "meta" /\ op.rec \in TurnRecord
    BY <1>7, OpAtStage DEF WriteMeta, At, Appending, TypeOK
  <2>2. ~ Appending'
    BY <1>7, <2>1 DEF WriteMeta, Appending, OpType, NoOp
  <2>3. /\ IdsBelow(turns, op.rec.id) /\ Extends(op.rec, turns)
        /\ op.rec.id < nextTurnId /\ IsDag(turns) /\ IdsBelow(turns, nextTurnId)
        /\ turnsLog.junk = 0 => /\ Includes(turnsLog.valid, turns)
                                /\ op.rec.id \in DOMAIN turnsLog.valid
                                /\ turnsLog.valid[op.rec.id] = op.rec
    BY <2>1 DEF DagIInv, DagInv
  <2>4. IsDag(turns')
    BY <1>7, <2>1, <2>3, InsertKeepsDag DEF WriteMeta, TypeOK
  <2>5. IdsBelow(turns', nextTurnId)
    BY <1>7, <2>3 DEF WriteMeta, IdsBelow, Insert
  <2>6. turnsLog.junk = 0 => Includes(turnsLog.valid, turns')
    BY <1>7, <2>3 DEF WriteMeta, Includes, Insert
  <2> QED
    BY <1>7, <2>1, <2>2, <2>4, <2>5, <2>6 DEF WriteMeta, DagIInv, DagInv
<1>8. CASE WriteHead
  <2>1. ~ Appending' /\ mode = "up"
    BY <1>8 DEF WriteHead, Appending, At, TypeOK, OpType, NoOp
  <2> QED
    BY <1>8, <2>1 DEF WriteHead, DagIInv, DagInv
<1>9. CASE Reply
  <2>1. ~ Appending' /\ mode = "up"
    BY <1>9 DEF Reply, Appending, At
  <2> QED
    BY <1>9, <2>1 DEF Reply, memory, files, DagIInv, DagInv
<1>10. ASSUME FilesInterrupted, mode = "up"
       PROVE  /\ IsDag(turnsLog'.valid) /\ IdsBelow(turnsLog'.valid, nextTurnId)
              /\ turnsLog'.junk = 0 => Includes(turnsLog'.valid, turns)
  <2>1. CASE At("log")
    BY <1>10, <2>1, LogWritten DEF FilesInterrupted
  <2>2. CASE ~ At("log")
    BY <1>10, <2>2 DEF FilesInterrupted, DagIInv, DagInv
  <2> QED
    BY <2>1, <2>2
<1>11. CASE Crash
  <2>1. IsDag(turns')
    BY <1>11 DEF Crash, IsDag, EmptyMap
  <2> QED
    BY <1>10, <1>11, <2>1 DEF Crash, DagIInv, DagInv
<1>12. CASE WriteFails
  <2>1. ~ Appending'
    BY <1>12 DEF WriteFails, Appending
  <2> QED
    BY <1>10, <1>12, <2>1 DEF WriteFails, memory, DagIInv, DagInv
<1>13. CASE UNCHANGED vars
  <2>1. Appending' = Appending
    BY <1>13 DEF vars, Appending
  <2> QED
    BY <1>13, <2>1 DEF vars, files, memory, DagIInv, DagInv
<1>14. ASSUME NEW base \in AnyTurnId, CreateRefused(base) PROVE DagIInv'
  BY <1>13, <1>14 DEF CreateRefused
<1>15. ASSUME NEW context \in ContextIds, NEW parent \in AnyTurnId,
              AppendRefused(context, parent)
       PROVE  DagIInv'
  BY <1>13, <1>15 DEF AppendRefused
<1> QED
  BY <1>1, <1>2, <1>3, <1>4, <1>5, <1>6, <1>7, <1>8, <1>9, <1>11, <1>12,
     <1>13, <1>14, <1>15 DEF Next

\* Turns form a DAG rooted at 0, in memory and in what a restart recovers,
\* after any history of appends, forks, torn and failed writes, crashes and
\* restarts: no parent is missing or later, every depth is right.
THEOREM DagCorrect == Spec => []DagInv
<1>1. Spec => []DagIInv
  BY DagInit, DagStep, PTL DEF Spec
<1>2. DagIInv => DagInv
  BY DEF DagIInv
<1> QED
  BY <1>1, <1>2, PTL

-----------------------------------------------------------------------------
(* Durability: under the faults the store is built for (CrashOnly),        *)
(* acknowledged work survives and the store implements the abstract DAG of *)
(* contexts.  The inductive invariant.                                     *)

\* The operation in flight fits the state it started from.
LogAhead == op # NoOp /\ op.kind = "append" /\ op.stage \in {"idx", "meta"}

HeadFits(h, ts) ==
    \/ h.turn = 0 /\ h.depth = 0
    \/ h.turn \in DOMAIN ts /\ h.depth = ts[h.turn].depth

OpFits ==
    op # NoOp =>
        /\ op.kind = "create" /\ op.stage = "head" =>
               op.context \notin DOMAIN heads /\ op.context < nextContextId
        /\ op.kind = "append" => op.context \in DOMAIN heads
        /\ op.stage \in {"head", "reply"} => HeadFits(HeadOf(op), turns)
        /\ op.stage = "head" /\ op.kind = "append" =>
               \A c \in DOMAIN heads : heads[c].turn < op.rec.id
        /\ op.stage \in {"head", "reply"} /\ op.kind = "append" =>
               /\ op.rec.id \in DOMAIN turns /\ turns[op.rec.id] = op.rec
               /\ op.rec.id \in DOMAIN turnMeta
        /\ op.stage = "reply" =>
               /\ op.context \in DOMAIN heads
               /\ heads[op.context] = HeadOf(op)

\* While the store is up its memory mirrors its files, except that the log is
\* one record ahead between the log write and the in-memory insert.
Mirrors ==
    /\ turnsLog.junk = 0 /\ turnsMeta.junk = 0 /\ headsTbl.junk = 0
    /\ turnsLog.valid = IF LogAhead THEN Insert(turns, op.rec.id, op.rec) ELSE turns
    /\ turnsMeta.valid = turnMeta
    /\ headsTbl.valid = heads
    /\ \A c \in DOMAIN heads : c < nextContextId
    /\ DOMAIN turnMeta \subseteq DOMAIN turns

\* A crash leaves at most one torn record behind.
TornAtMostOnce(file) == file.junk = 0 \/ file.junk \in FieldLen .. (MetaLen - 1)

\* What was acknowledged is on disk.
AckedOnDisk ==
    /\ \A r \in acked : /\ r.id \in DOMAIN turnsLog.valid
                        /\ turnsLog.valid[r.id] = r
                        /\ r.id \in DOMAIN turnsMeta.valid
    /\ \A c \in DOMAIN ackedHead : /\ c \in DOMAIN headsTbl.valid
                                   /\ headsTbl.valid[c].turn >= ackedHead[c]

\* Metadata is written after the record it belongs to.
MetaHasTurn == DOMAIN turnsMeta.valid \subseteq DOMAIN turnsLog.valid

DurableIInv ==
    /\ DagIInv
    /\ MetaHasTurn
    /\ HeadsResolve
    /\ AckedOnDisk
    /\ mode \in {"up", "down"}
    /\ mode = "up" => Mirrors /\ OpFits
    /\ mode = "down" => /\ heads = EmptyMap
                        /\ TornAtMostOnce(turnsLog)
                        /\ TornAtMostOnce(turnsMeta)
                        /\ TornAtMostOnce(headsTbl)

-----------------------------------------------------------------------------
(* Lemmas.                                                                 *)

\* Heads still resolve when turns are added.
LEMMA ResolveInMore ==
    ASSUME NEW hs, NEW small, NEW big, HeadsResolveIn(hs, small), Includes(big, small)
    PROVE  HeadsResolveIn(hs, big)
BY DEF HeadsResolveIn, Includes

\* A new or moved head that fits keeps all heads resolving.
LEMMA ResolveInsert ==
    ASSUME NEW hs, NEW ts, HeadsResolveIn(hs, ts), NEW c, NEW h, HeadFits(h, ts)
    PROVE  HeadsResolveIn(Insert(hs, c, h), ts)
BY DEF HeadsResolveIn, HeadFits, Insert

LEMMA InsertIncludes ==
    ASSUME NEW map, NEW k, NEW v, k \notin DOMAIN map
    PROVE  Includes(Insert(map, k, v), map)
BY DEF Includes, Insert

\* Writing to a clean file.
LEMMA WrittenClean ==
    ASSUME NEW Keys, NEW Vals, NEW file, IsFile(file, Keys, Vals), file.junk = 0,
           NEW k, NEW v, NEW len
    PROVE  /\ Written(file, k, v, len).valid = Insert(file.valid, k, v)
           /\ Written(file, k, v, len).junk = 0
BY DEF Written, IsFile

\* An interrupted write to a clean file: all, or nothing but a torn record.
LEMMA InterruptedClean ==
    ASSUME CrashOnly,
           NEW Keys, NEW Vals, NEW file, IsFile(file, Keys, Vals), file.junk = 0,
           NEW k, NEW v, NEW len, NEW f \in Interrupted(file, k, v, len)
    PROVE  /\ f.valid \in {file.valid, Insert(file.valid, k, v)}
           /\ TornAtMostOnce(f)
<1>1. CASE f = Written(file, k, v, len)
  BY <1>1, WrittenClean DEF TornAtMostOnce
<1>2. CASE f = file
  BY <1>2 DEF TornAtMostOnce
<1>3. ASSUME NEW n \in TornLens, f = [file EXCEPT !.junk = @ + n]
      PROVE  f.valid = file.valid /\ TornAtMostOnce(f)
  BY <1>3, TornAssumption DEF IsFile, TornAtMostOnce, CrashOnly, MetaLen, FieldLen
<1> QED
  BY <1>1, <1>2, <1>3 DEF Interrupted

\* A store that is up, unfolded.
LEMMA UpFacts ==
    ASSUME DurableIInv, mode = "up"
    PROVE  /\ TypeOK /\ Mirrors /\ OpFits
           /\ HeadsResolveIn(heads, turns)
           /\ IdsBelow(turns, nextTurnId)
           /\ Includes(turnsLog.valid, turns)
BY DEF DurableIInv, DagIInv, HeadsResolve, Mirrors

\* The record in flight: new in memory until its metadata is written.
LEMMA AppendFacts ==
    ASSUME DurableIInv, mode = "up", Appending
    PROVE  /\ op.rec.id \notin DOMAIN turns
           /\ op.rec \in TurnRecord /\ op.context \in ContextIds
           /\ \A c \in DOMAIN heads : heads[c].turn < op.rec.id
           /\ op.stage = "log" => op.rec.id \notin DOMAIN turnsLog.valid
<1>1. op.rec \in TurnRecord /\ op.context \in ContextIds
  BY DEF DurableIInv, DagIInv, TypeOK, OpType, Appending, NoOp
<1>2. \A t \in DOMAIN turns : t \in Int /\ t < op.rec.id
  BY DEF DurableIInv, DagIInv, TypeOK, IdsBelow, IsMap, TurnIds
<1>3. op.rec.id \in Nat /\ op.rec.id > 0
  BY <1>1, BoundsAssumption DEF TurnRecord, TurnIds
<1>4. \A c \in DOMAIN heads : heads[c].turn = 0 \/ heads[c].turn \in DOMAIN turns
  BY DEF DurableIInv, HeadsResolve, HeadsResolveIn
<1>5. op.stage = "log" => \A t \in DOMAIN turnsLog.valid : t \in Int /\ t < op.rec.id
  BY DEF DurableIInv, DagIInv, TypeOK, IdsBelow, IsFile, IsMap, TurnIds
<1> QED
  BY <1>1, <1>2, <1>3, <1>4, <1>5

\* The head an operation writes resolves, and is no older than the last
\* acknowledged head of its context.
LEMMA HeadWritten ==
    ASSUME DurableIInv, At("head")
    PROVE  LET hs == Insert(heads, op.context, HeadOf(op))
           IN  /\ HeadsResolveIn(hs, turns)
               /\ turnsLog.valid = turns
               /\ \A c \in DOMAIN ackedHead : /\ c \in DOMAIN hs
                                              /\ hs[c].turn >= ackedHead[c]
<1> DEFINE hs == Insert(heads, op.context, HeadOf(op))
<1>1. mode = "up" /\ op # NoOp /\ op.stage = "head" /\ TypeOK /\ Mirrors /\ OpFits
      /\ HeadsResolveIn(heads, turns) /\ AckedOnDisk
  BY UpFacts DEF At, DurableIInv
<1>2. HeadsResolveIn(hs, turns)
  BY <1>1, ResolveInsert DEF OpFits
<1>3. turnsLog.valid = turns
  BY <1>1 DEF Mirrors, LogAhead
<1>4. ASSUME NEW c \in DOMAIN ackedHead
      PROVE  c \in DOMAIN hs /\ hs[c].turn >= ackedHead[c]
  <2>1. c \in DOMAIN heads /\ heads[c].turn >= ackedHead[c]
    BY <1>1, <1>4 DEF AckedOnDisk, Mirrors
  <2>2. heads[c].turn \in Nat /\ ackedHead[c] \in Nat
    BY <1>1, <2>1, <1>4, BoundsAssumption DEF TypeOK, IsMap, ContextHead
  <2>3. CASE c # op.context
    BY <2>1, <2>3 DEF Insert
  <2>4. CASE c = op.context
    <3>1. op.kind = "append" /\ op.rec \in TurnRecord
      BY <1>1, <2>1, <2>4 DEF OpFits, TypeOK, OpType, NoOp
    <3>2. HeadOf(op).turn = op.rec.id /\ op.rec.id \in Nat
      BY <3>1, BoundsAssumption DEF HeadOf, TurnRecord, TurnIds
    <3>3. heads[c].turn < op.rec.id
      BY <1>1, <2>1, <3>1 DEF OpFits
    <3>4. hs[c].turn = op.rec.id /\ c \in DOMAIN hs
      BY <2>4, <3>2 DEF Insert
    <3> QED
      BY <2>1, <2>2, <3>2, <3>3, <3>4
  <2> QED
    BY <2>3, <2>4
<1> QED
  BY <1>2, <1>3, <1>4

-----------------------------------------------------------------------------
(* Preservation.                                                           *)

LEMMA DurableInit == Init => DurableIInv
<1> SUFFICES ASSUME Init PROVE DurableIInv
  OBVIOUS
<1> QED
  BY DagInit DEF Init, DurableIInv, HeadsResolve, HeadsResolveIn, AckedOnDisk,
                 TornAtMostOnce, MetaHasTurn,
                 EmptyFile, EmptyMap

\* open: recovers exactly what is on disk.
LEMMA DurableOpen ==
    ASSUME DurableIInv, DagIInv', Open
    PROVE  DurableIInv'
<1>1. TypeOK /\ mode = "down" /\ op = NoOp /\ AckedOnDisk
      /\ HeadsResolveIn(headsTbl.valid, turnsLog.valid)
  BY DEF DurableIInv, DagIInv, Open, HeadsResolve
<1>2. turnsLog'.junk = 0 /\ turnsLog'.valid = turnsLog.valid
  BY <1>1 DEF Open, load_turns, TypeOK, IsFile
<1>3. turnsMeta'.junk = 0 /\ turnsMeta'.valid = turnsMeta.valid
  <2>1. turnsMeta.junk = 0 \/ turnsMeta.junk \in FieldLen .. (MetaLen - 1)
    BY <1>1 DEF DurableIInv, TornAtMostOnce
  <2>2. turnsMeta = [valid |-> turnsMeta.valid, junk |-> turnsMeta.junk]
    BY <1>1 DEF TypeOK, IsFile
  <2> QED
    BY <2>1, <2>2 DEF Open, load_meta, FieldLen, MetaLen
<1>4. headsTbl'.junk = 0 /\ headsTbl'.valid = headsTbl.valid
  <2>1. headsTbl.junk = 0 \/ headsTbl.junk \in FieldLen .. (MetaLen - 1)
    BY <1>1 DEF DurableIInv, TornAtMostOnce
  <2>2. headsTbl = [valid |-> headsTbl.valid, junk |-> headsTbl.junk]
    BY <1>1 DEF TypeOK, IsFile
  <2> QED
    BY <2>1, <2>2 DEF Open, load_heads, FieldLen, MetaLen
<1>5. \A c \in DOMAIN heads' : c < nextContextId'
  <2>1. DOMAIN headsTbl.valid \in SUBSET (1 .. MaxContexts)
    BY <1>1 DEF TypeOK, IsFile, IsMap, ContextIds
  <2> QED
    BY <2>1, NextIdAbove, BoundsAssumption DEF Open
<1>6. Mirrors' /\ OpFits'
  BY <1>1, <1>2, <1>3, <1>4, <1>5
     DEF Open, Mirrors, OpFits, LogAhead, MetaHasTurn, DurableIInv
<1>7. HeadsResolve' /\ AckedOnDisk' /\ MetaHasTurn'
  BY <1>1, <1>2, <1>3, <1>4 DEF Open, HeadsResolve, AckedOnDisk, MetaHasTurn, DurableIInv
<1> QED
  BY <1>6, <1>7 DEF Open, DurableIInv

\* create_context and append_turn up to their first write.
LEMMA DurableCreateBegin ==
    ASSUME DurableIInv, DagIInv', NEW base, CreateBegin(base)
    PROVE  DurableIInv'
<1>1. mode = "up" /\ op = NoOp /\ Mirrors /\ TypeOK /\ HeadsResolve /\ AckedOnDisk
  BY UpFacts DEF CreateBegin, Idle, DurableIInv
<1>2. /\ op'.kind = "create" /\ op'.stage = "head" /\ op'.context = nextContextId
      /\ HeadOf(op') = [turn  |-> base,
                        depth |-> IF base = 0 THEN 0 ELSE turns[base].depth]
  BY DEF CreateBegin, HeadOf
<1>3. nextContextId \notin DOMAIN heads /\ nextContextId < nextContextId'
      /\ \A c \in DOMAIN heads : c < nextContextId'
  BY <1>1 DEF CreateBegin, Mirrors, TypeOK, IsMap, ContextIds
<1>4. HeadFits(HeadOf(op'), turns)
  BY <1>2 DEF CreateBegin, HeadFits
<1>5. OpFits' /\ Mirrors'
  BY <1>1, <1>2, <1>3, <1>4 DEF CreateBegin, files, OpFits, Mirrors, LogAhead, HeadOf, HeadFits
<1> QED
  BY <1>1, <1>5 DEF CreateBegin, files, DurableIInv, HeadsResolve, AckedOnDisk, MetaHasTurn

LEMMA DurableAppendBegin ==
    ASSUME CrashOnly, DurableIInv, DagIInv', NEW context, NEW parent, NEW payload,
           AppendBegin(context, parent, payload)
    PROVE  DurableIInv'
<1>1. mode = "up" /\ op = NoOp /\ Mirrors /\ TypeOK /\ HeadsResolve /\ AckedOnDisk
  BY UpFacts DEF AppendBegin, Idle, DurableIInv
<1>2. op'.kind = "append" /\ op'.stage = "log" /\ op'.context = context
      /\ context \in DOMAIN heads
  BY DEF AppendBegin, CrashOnly
<1>3. OpFits' /\ Mirrors'
  BY <1>1, <1>2 DEF AppendBegin, files, OpFits, Mirrors, LogAhead
<1> QED
  BY <1>1, <1>3 DEF AppendBegin, files, DurableIInv, HeadsResolve, AckedOnDisk, MetaHasTurn

LEMMA DurableWriteLog ==
    ASSUME DurableIInv, DagIInv', WriteLog
    PROVE  DurableIInv'
<1>1. /\ mode = "up" /\ Mirrors /\ OpFits /\ TypeOK /\ HeadsResolve /\ AckedOnDisk
      /\ op # NoOp /\ op.kind = "append" /\ op.stage = "log" /\ ~ LogAhead
  <2>1. At("log") /\ mode = "up" /\ op # NoOp /\ op.stage = "log"
    BY DEF WriteLog, At
  <2>2. Mirrors /\ OpFits /\ TypeOK /\ HeadsResolve /\ AckedOnDisk
    BY <2>1, UpFacts DEF DurableIInv
  <2>3. op.kind = "append"
    BY <2>1, <2>2, OpAtStage DEF TypeOK
  <2> QED
    BY <2>1, <2>2, <2>3 DEF LogAhead
<1>2. op.rec.id \notin DOMAIN turns
  BY <1>1, AppendFacts DEF Appending
<1>3. turnsLog'.junk = 0 /\ turnsLog'.valid = Insert(turns, op.rec.id, op.rec)
  BY <1>1, WrittenClean DEF WriteLog, TypeOK, Mirrors
<1>4. op'.rec = op.rec /\ op'.stage = "idx" /\ op'.kind = "append"
      /\ op'.context = op.context /\ op' # NoOp
  BY <1>1 DEF WriteLog, TypeOK, OpType, NoOp
<1>5. Includes(turnsLog'.valid, turnsLog.valid)
  BY <1>1, <1>2, <1>3, InsertIncludes DEF Mirrors
<1>6. OpFits' /\ Mirrors'
  BY <1>1, <1>3, <1>4 DEF WriteLog, memory, OpFits, Mirrors, LogAhead
<1>7. HeadsResolve'
  BY <1>1, <1>5, ResolveInMore DEF WriteLog, memory, HeadsResolve
<1>8. AckedOnDisk' /\ MetaHasTurn'
  BY <1>1, <1>5 DEF WriteLog, AckedOnDisk, Includes, MetaHasTurn, DurableIInv
<1> QED
  BY <1>1, <1>6, <1>7, <1>8 DEF WriteLog, DurableIInv

LEMMA DurableWriteIdx ==
    ASSUME DurableIInv, DagIInv', WriteIdx
    PROVE  DurableIInv'
<1>1. /\ mode = "up" /\ Mirrors /\ OpFits /\ TypeOK /\ HeadsResolve /\ AckedOnDisk
      /\ op # NoOp /\ op.kind = "append" /\ op.stage = "idx" /\ LogAhead
  <2>1. At("idx") /\ mode = "up" /\ op # NoOp /\ op.stage = "idx"
    BY DEF WriteIdx, At
  <2>2. Mirrors /\ OpFits /\ TypeOK /\ HeadsResolve /\ AckedOnDisk
    BY <2>1, UpFacts DEF DurableIInv
  <2>3. op.kind = "append"
    BY <2>1, <2>2, OpAtStage DEF TypeOK
  <2> QED
    BY <2>1, <2>2, <2>3 DEF LogAhead
<1>2. op'.rec = op.rec /\ op'.stage = "meta" /\ op'.kind = "append"
      /\ op'.context = op.context /\ op' # NoOp
  BY <1>1 DEF WriteIdx, TypeOK, OpType, NoOp
<1>3. OpFits' /\ Mirrors'
  BY <1>1, <1>2 DEF WriteIdx, memory, files, OpFits, Mirrors, LogAhead
<1> QED
  BY <1>1, <1>3 DEF WriteIdx, memory, files, DurableIInv, HeadsResolve, AckedOnDisk, MetaHasTurn

LEMMA DurableWriteMeta ==
    ASSUME DurableIInv, DagIInv', WriteMeta
    PROVE  DurableIInv'
<1>1. /\ mode = "up" /\ Mirrors /\ OpFits /\ TypeOK /\ HeadsResolve /\ AckedOnDisk
      /\ op # NoOp /\ op.kind = "append" /\ op.stage = "meta" /\ LogAhead
  <2>1. At("meta") /\ mode = "up" /\ op # NoOp /\ op.stage = "meta"
    BY DEF WriteMeta, At
  <2>2. Mirrors /\ OpFits /\ TypeOK /\ HeadsResolve /\ AckedOnDisk
    BY <2>1, UpFacts DEF DurableIInv
  <2>3. op.kind = "append"
    BY <2>1, <2>2, OpAtStage DEF TypeOK
  <2> QED
    BY <2>1, <2>2, <2>3 DEF LogAhead
<1>2. op.rec.id \notin DOMAIN turns /\ \A c \in DOMAIN heads : heads[c].turn < op.rec.id
  BY <1>1, AppendFacts DEF Appending
<1>3. turnsMeta'.junk = 0 /\ turnsMeta'.valid = Insert(turnMeta, op.rec.id, op.rec.payload)
  BY <1>1, WrittenClean DEF WriteMeta, TypeOK, Mirrors
<1>4. op'.rec = op.rec /\ op'.stage = "head" /\ op'.kind = "append"
      /\ op'.context = op.context /\ op' # NoOp
  BY <1>1 DEF WriteMeta, TypeOK, OpType, NoOp
<1>5. /\ turns' = Insert(turns, op.rec.id, op.rec) /\ turnsLog' = turnsLog
      /\ turnMeta' = Insert(turnMeta, op.rec.id, op.rec.payload)
      /\ headsTbl' = headsTbl /\ heads' = heads /\ mode' = mode /\ acked' = acked
      /\ ackedHead' = ackedHead /\ nextContextId' = nextContextId
  BY DEF WriteMeta
<1>6. /\ op.rec.id \in DOMAIN turns' /\ turns'[op.rec.id] = op.rec
      /\ op.rec.id \in DOMAIN turnMeta'
  BY <1>5 DEF Insert
<1>7. HeadFits(HeadOf(op'), turns')
  BY <1>4, <1>6 DEF HeadOf, HeadFits
<1>8. OpFits'
  BY <1>1, <1>2, <1>4, <1>5, <1>6, <1>7 DEF OpFits, HeadOf, HeadFits
<1>9. Mirrors' /\ MetaHasTurn'
  <2>1. DOMAIN turnMeta' \subseteq DOMAIN turns'
    BY <1>1, <1>5 DEF Mirrors, Insert
  <2>2. Mirrors'
    BY <1>1, <1>3, <1>4, <1>5, <2>1 DEF Mirrors, LogAhead
  <2> QED
    BY <2>1, <2>2, <1>4 DEF Mirrors, LogAhead, MetaHasTurn
<1>10. HeadsResolve'
  BY <1>1, <1>2, <1>5, InsertIncludes, ResolveInMore DEF HeadsResolve
<1>11. AckedOnDisk'
  BY <1>1, <1>3, <1>5 DEF AckedOnDisk, Mirrors, Insert
<1> QED
  BY <1>1, <1>5, <1>8, <1>9, <1>10, <1>11 DEF DurableIInv

LEMMA DurableWriteHead ==
    ASSUME DurableIInv, DagIInv', WriteHead
    PROVE  DurableIInv'
<1> DEFINE hs == Insert(heads, op.context, HeadOf(op))
<1>1. /\ mode = "up" /\ Mirrors /\ OpFits /\ TypeOK /\ HeadsResolve /\ AckedOnDisk
      /\ op # NoOp /\ op.stage = "head" /\ ~ LogAhead
  BY UpFacts DEF WriteHead, At, DurableIInv, LogAhead
<1>2. /\ HeadsResolveIn(hs, turns) /\ turnsLog.valid = turns
      /\ \A c \in DOMAIN ackedHead : c \in DOMAIN hs /\ hs[c].turn >= ackedHead[c]
  BY HeadWritten DEF WriteHead
<1>3. headsTbl'.junk = 0 /\ headsTbl'.valid = hs /\ heads' = hs
  BY <1>1, WrittenClean DEF WriteHead, TypeOK, Mirrors
<1>4. /\ op'.stage = "reply" /\ op'.kind = op.kind /\ op'.context = op.context
      /\ op'.kind = "append" => op'.rec = op.rec
      /\ HeadOf(op') = HeadOf(op) /\ op' # NoOp
      /\ ~ LogAhead'
  BY <1>1 DEF WriteHead, TypeOK, OpType, NoOp, HeadOf, LogAhead
<1>5. \A c \in DOMAIN hs : c < nextContextId
  <2>1. op.kind \in {"create", "append"}
    BY <1>1 DEF TypeOK, OpType, NoOp
  <2>2. op.context < nextContextId
    BY <1>1, <2>1 DEF OpFits, Mirrors
  <2> QED
    BY <1>1, <2>2 DEF Mirrors, Insert
<1>6. op.context \in DOMAIN hs /\ hs[op.context] = HeadOf(op)
  BY DEF Insert
<1> HIDE DEF hs
<1>7. Mirrors'
  BY <1>1, <1>2, <1>3, <1>4, <1>5 DEF WriteHead, Mirrors
<1>8. OpFits'
  BY <1>1, <1>3, <1>4, <1>6 DEF WriteHead, OpFits, HeadFits
<1>9. HeadsResolve' /\ AckedOnDisk' /\ MetaHasTurn'
  BY <1>1, <1>2, <1>3 DEF WriteHead, HeadsResolve, AckedOnDisk, MetaHasTurn, DurableIInv
<1> QED
  BY <1>1, <1>7, <1>8, <1>9 DEF WriteHead, DurableIInv

LEMMA DurableReply ==
    ASSUME DurableIInv, DagIInv', Reply
    PROVE  DurableIInv'
<1>1. /\ mode = "up" /\ Mirrors /\ OpFits /\ TypeOK /\ HeadsResolve /\ AckedOnDisk
      /\ op # NoOp /\ op.stage = "reply" /\ ~ LogAhead
  BY UpFacts DEF Reply, At, DurableIInv, LogAhead
<1>2. Mirrors' /\ OpFits' /\ HeadsResolve'
  BY <1>1 DEF Reply, memory, files, Mirrors, OpFits, LogAhead, HeadsResolve
<1>3. ASSUME NEW r \in acked'
      PROVE  r.id \in DOMAIN turnsLog.valid /\ turnsLog.valid[r.id] = r
             /\ r.id \in DOMAIN turnsMeta.valid
  BY <1>1, <1>3 DEF Reply, AckedOnDisk, Mirrors, OpFits
<1>4. ASSUME NEW c \in DOMAIN ackedHead'
      PROVE  c \in DOMAIN headsTbl.valid /\ headsTbl.valid[c].turn >= ackedHead'[c]
  <2>1. CASE c = op.context
    <3>1. ackedHead'[c] = HeadOf(op).turn
      BY <2>1 DEF Reply, Insert
    <3>2. c \in DOMAIN heads /\ heads[c] = HeadOf(op) /\ headsTbl.valid = heads
      BY <1>1, <2>1 DEF OpFits, Mirrors
    <3>3. heads[c].turn \in Nat
      BY <1>1, <3>2, BoundsAssumption DEF TypeOK, IsMap, ContextHead
    <3> QED
      BY <3>1, <3>2, <3>3
  <2>2. CASE c # op.context
    BY <1>1, <1>4, <2>2 DEF Reply, Insert, AckedOnDisk
  <2> QED
    BY <2>1, <2>2
<1>5. AckedOnDisk' /\ MetaHasTurn'
  BY <1>3, <1>4 DEF Reply, files, AckedOnDisk, MetaHasTurn, DurableIInv
<1> QED
  BY <1>1, <1>2, <1>5 DEF Reply, DurableIInv

\* The process dies, in the middle of any write.
LEMMA DurableCrash ==
    ASSUME CrashOnly, DurableIInv, DagIInv', Crash
    PROVE  DurableIInv'
<1>1. /\ mode = "up" /\ Mirrors /\ OpFits /\ TypeOK /\ AckedOnDisk
      /\ HeadsResolveIn(headsTbl.valid, turnsLog.valid) /\ FilesInterrupted
  BY UpFacts DEF Crash, DurableIInv, HeadsResolve
<1>2. /\ turnsLog.junk = 0 /\ turnsMeta.junk = 0 /\ headsTbl.junk = 0
      /\ turnsMeta.valid = turnMeta /\ headsTbl.valid = heads
  BY <1>1 DEF Mirrors
<1>3. TornAtMostOnce(turnsLog') /\ Includes(turnsLog'.valid, turnsLog.valid)
  <2>1. CASE At("log")
    <3>1. op # NoOp /\ op.stage = "log" /\ op.kind = "append"
      BY <1>1, <2>1, OpAtStage DEF TypeOK, At
    <3>2. op.rec.id \notin DOMAIN turnsLog.valid
      BY <1>1, <3>1, AppendFacts DEF Appending
    <3>3. turnsLog' \in Interrupted(turnsLog, op.rec.id, op.rec, TurnLen)
      BY <1>1, <2>1 DEF FilesInterrupted
    <3>4. /\ turnsLog'.valid \in {turnsLog.valid, Insert(turnsLog.valid, op.rec.id, op.rec)}
          /\ TornAtMostOnce(turnsLog')
      BY <1>1, <1>2, <3>3, InterruptedClean DEF TypeOK
    <3> QED
      BY <3>2, <3>4, InsertIncludes DEF Includes
  <2>2. CASE ~ At("log")
    BY <1>1, <1>2, <2>2 DEF FilesInterrupted, Includes, TornAtMostOnce
  <2> QED
    BY <2>1, <2>2
<1>4. /\ TornAtMostOnce(turnsMeta')
      /\ DOMAIN turnsMeta.valid \subseteq DOMAIN turnsMeta'.valid
      /\ DOMAIN turnsMeta'.valid \subseteq DOMAIN turnsLog.valid
  <2>0. MetaHasTurn
    BY DEF DurableIInv
  <2>1. CASE At("meta")
    <3>1. turnsMeta' \in Interrupted(turnsMeta, op.rec.id, op.rec.payload, MetaLen)
      BY <1>1, <2>1 DEF FilesInterrupted
    <3>2. /\ turnsMeta'.valid \in {turnsMeta.valid, Insert(turnsMeta.valid, op.rec.id, op.rec.payload)}
          /\ TornAtMostOnce(turnsMeta')
      BY <1>1, <1>2, <3>1, InterruptedClean DEF TypeOK
    <3>3. op.rec.id \in DOMAIN turnsLog.valid
      <4>1. op # NoOp /\ op.kind = "append" /\ op.stage = "meta"
        BY <1>1, <2>1, OpAtStage DEF TypeOK, At
      <4>2. turnsLog.valid = Insert(turns, op.rec.id, op.rec)
        BY <1>1, <4>1 DEF Mirrors, LogAhead
      <4> QED
        BY <4>2 DEF Insert
    <3> QED
      BY <2>0, <3>2, <3>3 DEF Insert, MetaHasTurn
  <2>2. CASE ~ At("meta")
    BY <1>1, <1>2, <2>0, <2>2 DEF FilesInterrupted, TornAtMostOnce, MetaHasTurn
  <2> QED
    BY <2>1, <2>2
<1>5. /\ TornAtMostOnce(headsTbl')
      /\ HeadsResolveIn(headsTbl'.valid, turnsLog.valid)
      /\ \A c \in DOMAIN ackedHead : /\ c \in DOMAIN headsTbl'.valid
                                     /\ headsTbl'.valid[c].turn >= ackedHead[c]
  <2>1. CASE At("head")
    <3> DEFINE hs == Insert(heads, op.context, HeadOf(op))
    <3>1. headsTbl' \in Interrupted(headsTbl, op.context, HeadOf(op), HeadLen)
      BY <1>1, <2>1 DEF FilesInterrupted
    <3>2. headsTbl'.valid \in {heads, hs} /\ TornAtMostOnce(headsTbl')
      BY <1>1, <1>2, <3>1, InterruptedClean DEF TypeOK
    <3>3. /\ HeadsResolveIn(hs, turns) /\ turnsLog.valid = turns
          /\ \A c \in DOMAIN ackedHead : c \in DOMAIN hs /\ hs[c].turn >= ackedHead[c]
      BY <2>1, HeadWritten
    <3> HIDE DEF hs
    <3> QED
      BY <1>1, <1>2, <3>2, <3>3 DEF AckedOnDisk
  <2>2. CASE ~ At("head")
    BY <1>1, <1>2, <2>2 DEF FilesInterrupted, TornAtMostOnce, AckedOnDisk
  <2> QED
    BY <2>1, <2>2
<1>6. HeadsResolve'
  <2>1. HeadsResolveIn(headsTbl'.valid, turnsLog'.valid)
    BY <1>3, <1>5, ResolveInMore
  <2>2. HeadsResolveIn(heads', turns')
    BY DEF Crash, HeadsResolveIn, EmptyMap
  <2> QED
    BY <2>1, <2>2 DEF HeadsResolve
<1>7. AckedOnDisk' /\ MetaHasTurn'
  BY <1>1, <1>3, <1>4, <1>5 DEF Crash, AckedOnDisk, Includes, MetaHasTurn
<1> QED
  BY <1>3, <1>4, <1>5, <1>6, <1>7 DEF Crash, DurableIInv

LEMMA DurableStep == CrashOnly /\ DurableIInv /\ [Next]_vars => DurableIInv'
<1> SUFFICES ASSUME CrashOnly, DurableIInv, [Next]_vars PROVE DurableIInv'
  OBVIOUS
<1>0. DagIInv /\ DagIInv'
  BY DagStep DEF DurableIInv
<1>1. ASSUME NEW base \in AnyTurnId, CreateBegin(base) PROVE DurableIInv'
  BY <1>0, <1>1, DurableCreateBegin
<1>2. ASSUME NEW context \in ContextIds, NEW parent \in AnyTurnId,
             NEW payload \in Payloads, AppendBegin(context, parent, payload)
      PROVE  DurableIInv'
  BY <1>0, <1>2, DurableAppendBegin
<1>3. CASE UNCHANGED vars
  <2>1. Mirrors' = Mirrors /\ OpFits' = OpFits
    BY <1>3 DEF vars, files, memory, Mirrors, OpFits, LogAhead, HeadOf, HeadFits
  <2> QED
    BY <1>0, <1>3, <2>1 DEF vars, files, memory, DurableIInv, HeadsResolve, AckedOnDisk,
                             MetaHasTurn
<1>4. ASSUME NEW base \in AnyTurnId, CreateRefused(base) PROVE DurableIInv'
  BY <1>3, <1>4 DEF CreateRefused
<1>5. ASSUME NEW context \in ContextIds, NEW parent \in AnyTurnId,
             AppendRefused(context, parent)
      PROVE  DurableIInv'
  BY <1>3, <1>5 DEF AppendRefused
<1>6. ~ WriteFails
  BY DEF WriteFails, CrashOnly
<1>7. ~ OpenFails
  BY DEF OpenFails, DurableIInv, TornAtMostOnce, MetaLen, FieldLen
<1> QED
  BY <1>0, <1>1, <1>2, <1>3, <1>4, <1>5, <1>6, <1>7, DurableOpen, DurableWriteLog,
     DurableWriteIdx, DurableWriteMeta, DurableWriteHead, DurableReply, DurableCrash
     DEF Next

LEMMA DurableInvariant ==
    ASSUME CrashOnly
    PROVE  Spec => []DurableIInv
<1>1. DurableIInv /\ [Next]_vars => DurableIInv'
  BY DurableStep
<1> QED
  BY <1>1, DurableInit, PTL DEF Spec

-----------------------------------------------------------------------------
(* What it gives.                                                          *)

\* Acknowledged appends, their records and metadata, survive any number of
\* crashes at any point of any write, unchanged.
THEOREM AckedTurnsSurvive ==
    ASSUME CrashOnly
    PROVE  Spec => []AckedTurnsDurable
<1>1. DurableIInv => AckedTurnsDurable
  <2> SUFFICES ASSUME DurableIInv, mode = "up", NEW r \in acked
               PROVE  /\ r.id \in DOMAIN turns /\ turns[r.id] = r
                      /\ r.id \in DOMAIN turnMeta
    BY DEF AckedTurnsDurable
  <2>1. Mirrors /\ TypeOK /\ AckedOnDisk /\ OpFits
    BY UpFacts DEF DurableIInv
  <2>2. r.id \in DOMAIN turnsLog.valid /\ turnsLog.valid[r.id] = r /\ r.id \in DOMAIN turnMeta
    BY <2>1 DEF AckedOnDisk, Mirrors
  <2>3. CASE ~ LogAhead
    BY <2>1, <2>2, <2>3 DEF Mirrors
  <2>4. CASE LogAhead
    <3>1. op.rec.id \notin DOMAIN turns
      BY <2>4, AppendFacts DEF LogAhead, Appending
    <3>2. r.id # op.rec.id
      BY <2>1, <2>2, <3>1 DEF Mirrors
    <3> QED
      BY <2>1, <2>2, <2>4, <3>2 DEF Mirrors, Insert
  <2> QED
    BY <2>3, <2>4
<1> QED
  BY <1>1, DurableInvariant, PTL

\* An acknowledged context keeps a head at least as recent as the last
\* acknowledged one, through any number of crashes.
THEOREM AckedHeadsSurvive ==
    ASSUME CrashOnly
    PROVE  Spec => []AckedHeadsDurable
<1>1. DurableIInv => AckedHeadsDurable
  BY UpFacts DEF AckedHeadsDurable, DurableIInv, AckedOnDisk, Mirrors
<1> QED
  BY <1>1, DurableInvariant, PTL

\* A head, in memory or recovered, never names a turn that is not there.
THEOREM HeadsCorrect ==
    ASSUME CrashOnly
    PROVE  Spec => []HeadsResolve
<1>1. DurableIInv => HeadsResolve
  BY DEF DurableIInv
<1> QED
  BY <1>1, DurableInvariant, PTL

-----------------------------------------------------------------------------
(* Refinement of ContextDag.                                               *)

\* A record that is new and extends the DAG joins it.
LEMMA AddTurnStep ==
    ASSUME NEW rec \in TurnRecord, IdsBelow(dagOf, rec.id), Extends(rec, dagOf),
           dagOf' = Insert(dagOf, rec.id, rec), headOf' = headOf
    PROVE  Abstract!AddTurn
<1>1. rec.id \in DOMAIN dagOf' /\ dagOf'[rec.id] = rec
  BY DEF Insert
<1>2. dagOf' = Abstract!Extend(dagOf, rec.id, dagOf'[rec.id])
  BY <1>1 DEF Abstract!Extend, Insert
<1>3. rec.parent # 0 => rec.parent \in DOMAIN dagOf
  BY DEF Extends
<1> QED
  BY <1>1, <1>2, <1>3 DEF Abstract!AddTurn, IdsBelow

\* A head that fits either opens a context or moves an existing one forward.
LEMMA SetHeadStep ==
    ASSUME DurableIInv, At("head"),
           headOf' = Insert(heads, op.context, HeadOf(op)), dagOf' = dagOf
    PROVE  Abstract!NewContext \/ Abstract!MoveHead
<1> DEFINE c == op.context
<1>1. mode = "up" /\ op # NoOp /\ op.stage = "head" /\ OpFits /\ TypeOK
      /\ dagOf = turns /\ headOf = heads
  BY UpFacts DEF At, dagOf, headOf
<1>2. headOf' = Abstract!Extend(headOf, c, headOf'[c]) /\ headOf'[c] = HeadOf(op)
      /\ c \in DOMAIN headOf'
  BY <1>1 DEF Abstract!Extend, Insert
<1>3. HeadOf(op).turn = 0 \/ HeadOf(op).turn \in DOMAIN turns
  BY <1>1 DEF OpFits, HeadFits
<1>4. CASE op.kind = "create"
  <2>1. c \notin DOMAIN headOf
    BY <1>1, <1>4 DEF OpFits
  <2> QED
    BY <1>1, <1>2, <1>3, <2>1 DEF Abstract!NewContext
<1>5. CASE op.kind = "append"
  <2>1. c \in DOMAIN heads /\ heads[c].turn < op.rec.id /\ op.rec.id \in DOMAIN turns
    BY <1>1, <1>5 DEF OpFits
  <2>2. HeadOf(op).turn = op.rec.id
    BY <1>5 DEF HeadOf
  <2>3. heads[c].turn \in Int /\ op.rec.id \in Int
    BY <1>1, <2>1 DEF TypeOK, IsMap, ContextHead, TurnIds
  <2>4. headOf'[c].turn > headOf[c].turn
    BY <1>1, <1>2, <2>1, <2>2, <2>3
  <2> QED
    BY <1>1, <1>2, <2>1, <2>2, <2>4 DEF Abstract!MoveHead
<1> QED
  BY <1>1, <1>4, <1>5 DEF TypeOK, OpType, NoOp

LEMMA RefineWriteMeta ==
    ASSUME DurableIInv, WriteMeta
    PROVE  Abstract!AddTurn
<1>1. mode = "up" /\ Appending /\ mode' = "up"
  BY OpAtStage DEF WriteMeta, At, Appending, DurableIInv, DagIInv, TypeOK
<1>2. op.rec \in TurnRecord /\ IdsBelow(turns, op.rec.id) /\ Extends(op.rec, turns)
  BY <1>1, AppendFacts DEF DurableIInv, DagIInv
<1>3. dagOf = turns /\ dagOf' = Insert(turns, op.rec.id, op.rec) /\ headOf' = headOf
  BY <1>1 DEF WriteMeta, dagOf, headOf
<1> QED
  BY <1>2, <1>3, AddTurnStep

LEMMA RefineCrash ==
    ASSUME CrashOnly, DurableIInv, Crash
    PROVE  \/ Abstract!AddTurn \/ Abstract!NewContext \/ Abstract!MoveHead
           \/ dagOf' = dagOf /\ headOf' = headOf
<1>1. /\ mode = "up" /\ mode' = "down" /\ TypeOK /\ Mirrors /\ OpFits /\ FilesInterrupted
      /\ dagOf = turns /\ headOf = heads
      /\ dagOf' = turnsLog'.valid /\ headOf' = headsTbl'.valid
  BY UpFacts DEF Crash, dagOf, headOf
<1>2. turnsLog.junk = 0 /\ headsTbl.junk = 0 /\ headsTbl.valid = heads
  BY <1>1 DEF Mirrors
<1>3. CASE At("head")
  <2>1. turnsLog' = turnsLog /\ turnsLog.valid = turns
    BY <1>1, <1>3, HeadWritten DEF FilesInterrupted, At
  <2>2. headsTbl' \in Interrupted(headsTbl, op.context, HeadOf(op), HeadLen)
    BY <1>1, <1>3 DEF FilesInterrupted
  <2>3. headsTbl'.valid \in {heads, Insert(heads, op.context, HeadOf(op))}
    BY <1>1, <1>2, <2>2, InterruptedClean DEF TypeOK
  <2> QED
    BY <1>1, <1>3, <2>1, <2>3, SetHeadStep
<1>4. CASE ~ At("head") /\ ~ Appending
  <2>1. ~ At("log") /\ ~ LogAhead
    BY <1>1, <1>4, OpAtStage DEF At, Appending, LogAhead, TypeOK
  <2> QED
    BY <1>1, <1>2, <1>4, <2>1 DEF FilesInterrupted, Mirrors
<1>5. CASE Appending
  <2>1. op.rec \in TurnRecord /\ IdsBelow(turns, op.rec.id) /\ Extends(op.rec, turns)
    BY <1>1, <1>5, AppendFacts DEF DurableIInv, DagIInv
  <2>2. ~ At("head") /\ headOf' = headOf
    BY <1>1, <1>2, <1>5 DEF At, Appending, FilesInterrupted
  <2>3. dagOf' = dagOf \/ dagOf' = Insert(dagOf, op.rec.id, op.rec)
    <3>1. CASE At("log")
      <4>1. ~ LogAhead
        BY <3>1 DEF At, LogAhead
      <4>2. turnsLog' \in Interrupted(turnsLog, op.rec.id, op.rec, TurnLen)
        BY <1>1, <3>1 DEF FilesInterrupted
      <4> QED
        BY <1>1, <1>2, <4>1, <4>2, InterruptedClean DEF TypeOK, Mirrors
    <3>2. CASE ~ At("log")
      <4>1. LogAhead
        BY <1>1, <1>5, <3>2 DEF At, LogAhead, Appending
      <4> QED
        BY <1>1, <3>2, <4>1 DEF FilesInterrupted, Mirrors
    <3> QED
      BY <3>1, <3>2
  <2> QED
    BY <1>1, <2>1, <2>2, <2>3, AddTurnStep
<1> QED
  BY <1>3, <1>4, <1>5

\* Every step of the store is a step of the abstract DAG, or invisible.
LEMMA RefineStep ==
    ASSUME CrashOnly, DurableIInv, [Next]_vars
    PROVE  [Abstract!DagNext]_(Abstract!dagVars)
<1> DEFINE Stutter == dagOf' = dagOf /\ headOf' = headOf
<1>1. CASE Open
  <2>1. mode = "down" /\ mode' = "up" /\ turns' = turnsLog.valid /\ heads' = headsTbl.valid
    BY <1>1 DEF Open
  <2>2. Stutter
    BY <2>1 DEF dagOf, headOf
  <2> QED
    BY <2>2 DEF Abstract!dagVars
<1>2. CASE \/ \E base \in AnyTurnId : CreateBegin(base) \/ CreateRefused(base)
           \/ \E context \in ContextIds, parent \in AnyTurnId :
                 \/ \E payload \in Payloads : AppendBegin(context, parent, payload)
                 \/ AppendRefused(context, parent)
           \/ WriteLog \/ WriteIdx \/ Reply
           \/ UNCHANGED vars
  <2>1. \/ mode = "up" /\ mode' = "up" /\ turns' = turns /\ heads' = heads
        \/ UNCHANGED vars
    BY <1>2 DEF CreateBegin, CreateRefused, AppendBegin, AppendRefused, Idle, At,
                WriteLog, WriteIdx, Reply, memory
  <2>2. Stutter
    BY <2>1 DEF dagOf, headOf, vars, files, memory
  <2> QED
    BY <2>2 DEF Abstract!dagVars
<1>3. CASE WriteMeta
  BY <1>3, RefineWriteMeta DEF Abstract!DagNext
<1>4. CASE WriteHead
  <2>1. At("head") /\ headOf' = Insert(heads, op.context, HeadOf(op)) /\ dagOf' = dagOf
    BY <1>4 DEF WriteHead, At, headOf, dagOf
  <2> QED
    BY <2>1, SetHeadStep DEF Abstract!DagNext
<1>5. CASE Crash
  BY <1>5, RefineCrash DEF Abstract!DagNext, Abstract!dagVars
<1>6. ~ WriteFails /\ ~ OpenFails
  BY DEF WriteFails, OpenFails, CrashOnly, DurableIInv, TornAtMostOnce, MetaLen, FieldLen
<1> QED
  BY <1>1, <1>2, <1>3, <1>4, <1>5, <1>6 DEF Next

\* The turn store implements the abstract DAG of contexts: to its clients a
\* crash and a restart are invisible.
THEOREM Refinement ==
    ASSUME CrashOnly
    PROVE  Spec => ImplementsContextDag
<1>1. Init => Abstract!DagInit
  BY DEF Init, Abstract!DagInit, dagOf, headOf, EmptyFile, EmptyMap
<1>2. DurableIInv /\ [Next]_vars => [Abstract!DagNext]_(Abstract!dagVars)
  BY RefineStep
<1> QED
  BY <1>1, <1>2, DurableInvariant, PTL DEF Spec, ImplementsContextDag, Abstract!DagSpec

-----------------------------------------------------------------------------
(* The blob store: the inductive invariant.                                *)

\* The offset an unfinished put has taken: the end of the pack while the
\* record is to be written, an intact record of its hash from then on.
OffsetTaken ==
    /\ bop.stage = "pack" => "offset" \in DOMAIN bop /\ bop.offset = Len(blobsPack) + 1
    /\ bop.stage = "idx" => /\ "offset" \in DOMAIN bop
                            /\ bop.offset \in 1 .. Len(blobsPack)
                            /\ blobsPack[bop.offset] = PackRecord(bop.hash)

PackBound == bop.stage = "pack" => Len(blobsPack) < MaxPack

\* Where an index entry may lead: to an intact record of its hash, or, if an
\* error met its write, nowhere.
Sound(pack, cut, h, o) ==
    \/ o \in 1 .. Len(pack) /\ pack[o] = PackRecord(h)
    \/ o = Damaged /\ h \in cut

MapSound(pack, cut, map) == \A h \in DOMAIN map : Sound(pack, cut, h, map[h])

\* A stray piece of an entry stands for a record that is there; if its end is
\* missing, an error cut it, or a crash did and nothing was written behind it.
StrayBacked ==
    \A s \in blobsIdx.stray :
        /\ s.offset \in 1 .. Len(blobsPack)
        /\ blobsPack[s.offset] = PackRecord(s.hash)
        /\ s.len < LensEnd => \/ s.hash \in blobCut
                              \/ blobMode # "up" /\ s.at + EntryLen > blobsIdx.junk

\* No put is under way while the store is closed.
BlobClosed == blobMode # "up" => bop = NoBop

BlobInv == /\ BlobTypeOK /\ PackBound /\ OffsetTaken /\ StrayBacked /\ BlobClosed
           /\ MapSound(blobsPack, blobCut, index)
           /\ MapSound(blobsPack, blobCut, blobsIdx.valid)

PackType == Seq([hash : Hashes, whole : BOOLEAN])

\* A put in progress names a blob and, until it is done, an offset.
LEMMA BopAtStage ==
    ASSUME BlobTypeOK, bop # NoBop
    PROVE  /\ bop.hash \in Hashes
           /\ bop.stage \in {"pack", "idx", "done"}
           /\ bop.stage \in {"pack", "idx"} => bop.offset \in Nat \ {0}
BY DEF BlobTypeOK, NoBop

\* Advancing a put.
LEMMA BopAdvances ==
    ASSUME BlobTypeOK, bop.stage \in {"pack", "idx"},
           NEW next \in {"idx", "done"}
    PROVE  /\ [bop EXCEPT !.stage = next] \in
                [stage : {"pack", "idx", "done"}, hash : Hashes, offset : Nat \ {0}]
           /\ [bop EXCEPT !.stage = next].stage = next
           /\ [bop EXCEPT !.stage = next].hash = bop.hash
           /\ [bop EXCEPT !.stage = next].offset = bop.offset
           /\ "offset" \in DOMAIN [bop EXCEPT !.stage = next]
BY DEF BlobTypeOK, NoBop

\* HashMap::insert keeps the index an index.
LEMMA EnterIsIndex ==
    ASSUME NEW map, IsIndex(map), NEW h \in Hashes, NEW o \in Nat
    PROVE  IsIndex(Enter(map, h, o))
BY DEF IsIndex, Enter

\* A pack only grows: what could be read still can.
LEMMA PackGrows ==
    ASSUME blobsPack \in PackType, NEW r \in [hash : Hashes, whole : BOOLEAN],
           blobsPack' \in {blobsPack, Append(blobsPack, r)}
    PROVE  /\ blobsPack' \in PackType
           /\ Len(blobsPack) \in Nat
           /\ Len(blobsPack') \in {Len(blobsPack), Len(blobsPack) + 1}
           /\ \A i \in 1 .. Len(blobsPack) :
                 i \in 1 .. Len(blobsPack') /\ blobsPack'[i] = blobsPack[i]
           /\ blobsPack' = Append(blobsPack, r) =>
                 /\ Len(blobsPack') = Len(blobsPack) + 1
                 /\ blobsPack'[Len(blobsPack) + 1] = r
<1>1. CASE blobsPack' = blobsPack
  <2>1. blobsPack # Append(blobsPack, r) /\ Len(blobsPack) \in Nat
    BY AppendProperties DEF PackType
  <2> QED
    BY <1>1, <2>1
<1>2. CASE blobsPack' = Append(blobsPack, r)
  BY <1>2, AppendProperties DEF PackType
<1> QED
  BY <1>1, <1>2

\* Therefore every entry that was sound stays sound.
LEMMA SoundStays ==
    ASSUME blobsPack \in PackType, NEW r \in [hash : Hashes, whole : BOOLEAN],
           blobsPack' \in {blobsPack, Append(blobsPack, r)},
           NEW cut, NEW more, cut \subseteq more,
           NEW map, MapSound(blobsPack, cut, map)
    PROVE  MapSound(blobsPack', more, map)
<1>1. \A i \in 1 .. Len(blobsPack) : i \in 1 .. Len(blobsPack') /\ blobsPack'[i] = blobsPack[i]
  BY PackGrows
<1> QED
  BY <1>1 DEF MapSound, Sound

\* An entry added for a record that is there is sound.
LEMMA EnterSound ==
    ASSUME NEW map, NEW pack, NEW cut, MapSound(pack, cut, map),
           NEW k, NEW o \in 1 .. Len(pack), pack[o] = PackRecord(k)
    PROVE  MapSound(pack, cut, Enter(map, k, o))
BY DEF Enter, MapSound, Sound

\* What appending the first n bytes of an entry does to the index file.
LEMMA IdxAppends ==
    ASSUME BlobTypeOK, NEW hash \in Hashes, NEW offset \in Nat, NEW n \in 1 .. EntryLen,
           NEW file, file = IdxAppended(blobsIdx, hash, offset, n)
    PROVE  /\ file = [valid |-> file.valid, junk |-> file.junk, stray |-> file.stray]
           /\ file.junk \in Nat
           /\ \/ /\ n = EntryLen /\ blobsIdx.junk = 0
                 /\ file.valid = Enter(blobsIdx.valid, hash, offset)
                 /\ file.junk = 0 /\ file.stray = blobsIdx.stray
              \/ /\ n # EntryLen \/ blobsIdx.junk # 0
                 /\ file.valid = blobsIdx.valid
                 /\ file.junk = blobsIdx.junk + n
                 /\ file.stray = blobsIdx.stray \cup
                        {[at |-> blobsIdx.junk, hash |-> hash, offset |-> offset, len |-> n]}
<1>1. /\ blobsIdx = [valid |-> blobsIdx.valid, junk |-> blobsIdx.junk,
                     stray |-> blobsIdx.stray]
      /\ blobsIdx.junk \in Nat
  BY DEF BlobTypeOK
<1>2. n \in Nat
  BY DEF EntryLen
<1>3. CASE blobsIdx.junk = 0 /\ n = EntryLen
  <2>1. file = [valid |-> Enter(blobsIdx.valid, hash, offset), junk |-> blobsIdx.junk,
                stray |-> blobsIdx.stray]
    BY <1>1, <1>3 DEF IdxAppended
  <2> QED
    BY <1>1, <1>3, <2>1
<1>4. CASE ~ (blobsIdx.junk = 0 /\ n = EntryLen)
  <2>1. file = [valid |-> blobsIdx.valid, junk |-> blobsIdx.junk + n,
                stray |-> blobsIdx.stray \cup
                   {[at |-> blobsIdx.junk, hash |-> hash, offset |-> offset, len |-> n]}]
    BY <1>1, <1>4 DEF IdxAppended
  <2> QED
    BY <1>1, <1>2, <1>4, <2>1
<1> QED
  BY <1>3, <1>4

\* What load_index reads is sound: a piece that is read as an entry is not the
\* last of a crash.
LEMMA LoadSound ==
    ASSUME BlobInv
    PROVE  /\ MapSound(blobsPack, blobCut, load_index(blobsIdx).valid)
           /\ IsIndex(load_index(blobsIdx).valid)
           /\ DOMAIN blobsIdx.valid \subseteq DOMAIN load_index(blobsIdx).valid
<1> DEFINE map == load_index(blobsIdx).valid
<1>0. map = [h \in DOMAIN blobsIdx.valid \cup {s.hash : s \in LastEntries(blobsIdx)} |->
                IF \E s \in LastEntries(blobsIdx) : s.hash = h
                THEN EntryOffset(CHOOSE s \in LastEntries(blobsIdx) : s.hash = h)
                ELSE blobsIdx.valid[h]]
  BY DEF load_index
<1> HIDE DEF map
<1>1. ASSUME NEW s \in LastEntries(blobsIdx)
      PROVE  /\ Sound(blobsPack, blobCut, s.hash, EntryOffset(s))
             /\ EntryOffset(s) \in Nat /\ s.hash \in Hashes
  <2>1. s \in blobsIdx.stray /\ s.at + EntryLen <= blobsIdx.junk
    BY <1>1 DEF LastEntries, ReadAsEntries
  <2>2. /\ s.hash \in Hashes /\ s.at \in Nat /\ s.offset \in Nat /\ s.len \in Nat
        /\ blobsIdx.junk \in Nat
    BY <2>1 DEF BlobInv, BlobTypeOK
  <2>3. s.offset \in 1 .. Len(blobsPack) /\ blobsPack[s.offset] = PackRecord(s.hash)
    BY <2>1 DEF BlobInv, StrayBacked
  <2>4. s.len < LensEnd => s.hash \in blobCut
    BY <2>1, <2>2 DEF BlobInv, StrayBacked, EntryLen
  <2>5. CASE s.len >= LensEnd
    BY <2>2, <2>3, <2>5 DEF EntryOffset, Sound
  <2>6. CASE ~ (s.len >= LensEnd)
    <3>1. s.hash \in blobCut
      BY <2>2, <2>4, <2>6 DEF LensEnd
    <3> QED
      BY <2>2, <2>6, <3>1 DEF EntryOffset, Sound, Damaged
  <2> QED
    BY <2>5, <2>6
<1>2. ASSUME NEW h \in DOMAIN map
      PROVE  Sound(blobsPack, blobCut, h, map[h]) /\ map[h] \in Nat /\ h \in Hashes
  <2>1. CASE \E s \in LastEntries(blobsIdx) : s.hash = h
    <3>1. PICK s \in LastEntries(blobsIdx) : s.hash = h /\ map[h] = EntryOffset(s)
      <4>1. map[h] = EntryOffset(CHOOSE s \in LastEntries(blobsIdx) : s.hash = h)
        BY <1>0, <1>2, <2>1
      <4> QED
        BY <2>1, <4>1, Zenon
    <3> QED
      BY <1>1, <3>1
  <2>2. CASE ~ \E s \in LastEntries(blobsIdx) : s.hash = h
    <3>1. h \in DOMAIN blobsIdx.valid /\ map[h] = blobsIdx.valid[h]
      BY <1>0, <1>2, <2>2
    <3> QED
      BY <3>1 DEF BlobInv, MapSound, BlobTypeOK, IsIndex
  <2> QED
    BY <2>1, <2>2
<1>3. DOMAIN blobsIdx.valid \subseteq DOMAIN map
  BY <1>0
<1>4. map = [h \in DOMAIN map |-> map[h]]
  BY <1>0
<1>5. IsIndex(map)
  BY <1>2, <1>4 DEF IsIndex
<1>6. MapSound(blobsPack, blobCut, map)
  BY <1>2 DEF MapSound
<1> QED
  BY <1>3, <1>5, <1>6 DEF map

-----------------------------------------------------------------------------
\* The interrupted files of a crash or a failed write keep the invariant's
\* file part; only the piece they may add lacks its end.
LEMMA InterruptedFiles ==
    ASSUME BlobInv, BlobFilesInterrupted, blobMode = "up"
    PROVE  /\ blobsPack' \in PackType
           /\ Len(blobsPack') <= MaxPack
           /\ blobsIdx' = [valid |-> blobsIdx'.valid, junk |-> blobsIdx'.junk,
                           stray |-> blobsIdx'.stray]
           /\ IsIndex(blobsIdx'.valid)
           /\ blobsIdx'.junk \in Nat
           /\ MapSound(blobsPack', blobCut, blobsIdx'.valid)
           /\ MapSound(blobsPack', blobCut, index)
           /\ \A s \in blobsIdx'.stray :
                 /\ s.hash \in Hashes
                 /\ s.at \in Nat /\ s.offset \in Nat /\ s.len \in Nat
                 /\ s.offset \in 1 .. Len(blobsPack')
                 /\ blobsPack'[s.offset] = PackRecord(s.hash)
                 /\ s.len < LensEnd => \/ s.hash \in blobCut
                                       \/ /\ BlobAt("idx") /\ s.hash = bop.hash
                                          /\ s.at + EntryLen > blobsIdx'.junk
<1> USE DEF BlobInv
<1>0. blobsPack \in PackType
  BY DEF BlobTypeOK, PackType
<1>1. CASE BlobAt("pack")
  <2>1. bop.hash \in Hashes /\ bop # NoBop
    BY <1>1, BopAtStage DEF BlobAt, NoBop
  <2>2. PICK r \in [hash : Hashes, whole : BOOLEAN] :
           blobsPack' \in {blobsPack, Append(blobsPack, r)}
    <3>1. /\ PackRecord(bop.hash) \in [hash : Hashes, whole : BOOLEAN]
          /\ TornRecord(bop.hash) \in [hash : Hashes, whole : BOOLEAN]
      BY <2>1 DEF PackRecord, TornRecord
    <3>2. \/ blobsPack' \in {blobsPack, Append(blobsPack, PackRecord(bop.hash))}
          \/ blobsPack' \in {blobsPack, Append(blobsPack, TornRecord(bop.hash))}
      BY <1>1, Zenon DEF BlobFilesInterrupted, PackInterrupted
    <3> QED
      BY <3>1, <3>2, Zenon
  <2>3. blobsIdx' = blobsIdx
    BY <1>1 DEF BlobFilesInterrupted, BlobAt
  <2>4. MaxPack \in Nat /\ Len(blobsPack) < MaxPack
    BY <1>1, BlobBounds DEF PackBound, BlobAt
  <2>5. blobsPack' \in PackType /\ Len(blobsPack') <= MaxPack
    BY <1>0, <2>2, <2>4, PackGrows
  <2>6. MapSound(blobsPack', blobCut, index) /\ MapSound(blobsPack', blobCut, blobsIdx.valid)
    BY <1>0, <2>2, SoundStays
  <2>7. \A i \in 1 .. Len(blobsPack) :
           i \in 1 .. Len(blobsPack') /\ blobsPack'[i] = blobsPack[i]
    BY <1>0, <2>2, PackGrows
  <2>8. \A s \in blobsIdx.stray :
                 /\ s.hash \in Hashes
                 /\ s.at \in Nat /\ s.offset \in Nat /\ s.len \in Nat
                 /\ s.offset \in 1 .. Len(blobsPack')
                 /\ blobsPack'[s.offset] = PackRecord(s.hash)
                 /\ s.len < LensEnd => s.hash \in blobCut
    BY <2>7 DEF StrayBacked, BlobTypeOK
  <2> QED
    BY <2>3, <2>5, <2>6, <2>8 DEF BlobTypeOK
<1>2. CASE ~ BlobAt("pack")
  <2>1. blobsPack' = blobsPack
    BY <1>2 DEF BlobFilesInterrupted
  <2>2. blobsPack' \in PackType /\ Len(blobsPack') <= MaxPack
        /\ MapSound(blobsPack', blobCut, index)
    BY <1>0, <2>1 DEF BlobTypeOK
  <2>3. \A s \in blobsIdx.stray :
                 /\ s.hash \in Hashes
                 /\ s.at \in Nat /\ s.offset \in Nat /\ s.len \in Nat
                 /\ s.offset \in 1 .. Len(blobsPack')
                 /\ blobsPack'[s.offset] = PackRecord(s.hash)
                 /\ s.len < LensEnd => s.hash \in blobCut
    BY <2>1 DEF StrayBacked, BlobTypeOK
  <2>4. CASE blobsIdx' = blobsIdx
    BY <2>1, <2>2, <2>3, <2>4 DEF BlobTypeOK
  <2>5. ASSUME BlobAt("idx"), NEW n \in IdxTorn \cup {EntryLen},
               blobsIdx' = IdxAppended(blobsIdx, bop.hash, bop.offset, n)
        PROVE  /\ blobsIdx' = [valid |-> blobsIdx'.valid, junk |-> blobsIdx'.junk,
                               stray |-> blobsIdx'.stray]
               /\ IsIndex(blobsIdx'.valid)
               /\ blobsIdx'.junk \in Nat
               /\ MapSound(blobsPack', blobCut, blobsIdx'.valid)
               /\ \A s \in blobsIdx'.stray :
                 /\ s.hash \in Hashes
                 /\ s.at \in Nat /\ s.offset \in Nat /\ s.len \in Nat
                 /\ s.offset \in 1 .. Len(blobsPack')
                 /\ blobsPack'[s.offset] = PackRecord(s.hash)
                 /\ s.len < LensEnd => \/ s.hash \in blobCut
                                       \/ /\ BlobAt("idx") /\ s.hash = bop.hash
                                          /\ s.at + EntryLen > blobsIdx'.junk
    <3>1. /\ bop.hash \in Hashes /\ bop.offset \in 1 .. Len(blobsPack)
          /\ blobsPack[bop.offset] = PackRecord(bop.hash)
          /\ bop.offset \in Nat
      BY <2>5, BopAtStage DEF BlobAt, NoBop, OffsetTaken
    <3>2. n \in 1 .. EntryLen /\ blobsIdx.junk \in Nat
      BY <2>5, IdxTornRange DEF EntryLen, BlobTypeOK
    <3>3. PICK file : file = blobsIdx'
      OBVIOUS
    <3>4. file = IdxAppended(blobsIdx, bop.hash, bop.offset, n)
      BY <2>5, <3>3
    <3>5. /\ file = [valid |-> file.valid, junk |-> file.junk, stray |-> file.stray]
          /\ file.junk \in Nat
          /\ \/ /\ file.valid = Enter(blobsIdx.valid, bop.hash, bop.offset)
                /\ file.stray = blobsIdx.stray
             \/ /\ n # EntryLen \/ blobsIdx.junk # 0
                /\ file.valid = blobsIdx.valid
                /\ file.junk = blobsIdx.junk + n
                /\ file.stray = blobsIdx.stray \cup
                       {[at |-> blobsIdx.junk, hash |-> bop.hash, offset |-> bop.offset,
                         len |-> n]}
      BY <3>1, <3>2, <3>4, IdxAppends
    <3>6. IsIndex(file.valid) /\ MapSound(blobsPack', blobCut, file.valid)
      <4>1. MapSound(blobsPack, blobCut, Enter(blobsIdx.valid, bop.hash, bop.offset))
        BY <3>1, EnterSound
      <4>2. IsIndex(Enter(blobsIdx.valid, bop.hash, bop.offset)) /\ IsIndex(blobsIdx.valid)
        BY <3>1, EnterIsIndex DEF BlobTypeOK
      <4> QED
        BY <2>1, <3>5, <4>1, <4>2
    <3>7. ASSUME NEW s \in file.stray, s \notin blobsIdx.stray
          PROVE  /\ s.hash = bop.hash /\ s.offset = bop.offset
                 /\ s.at = blobsIdx.junk /\ s.len = n
                 /\ file.junk = blobsIdx.junk + n
      BY <3>5, <3>7
    <3>8. ASSUME NEW s \in file.stray, s \notin blobsIdx.stray, s.len < LensEnd
          PROVE  s.at + EntryLen > file.junk
      BY <3>2, <3>7, <3>8 DEF LensEnd, EntryLen
    <3>9. n \in Nat
      BY <3>2 DEF EntryLen
    <3>10. ASSUME NEW s \in file.stray
           PROVE /\ s.hash \in Hashes
                 /\ s.at \in Nat /\ s.offset \in Nat /\ s.len \in Nat
                 /\ s.offset \in 1 .. Len(blobsPack')
                 /\ blobsPack'[s.offset] = PackRecord(s.hash)
                 /\ s.len < LensEnd => \/ s.hash \in blobCut
                                       \/ s.hash = bop.hash /\ s.at + EntryLen > file.junk
      <4>1. CASE s \in blobsIdx.stray
        BY <2>3, <4>1
      <4>2. CASE s \notin blobsIdx.stray
        BY <2>1, <3>1, <3>2, <3>7, <3>8, <3>9, <3>10, <4>2
      <4> QED
        BY <4>1, <4>2
    <3> QED
      BY <2>5, <3>3, <3>5, <3>6, <3>10
  <2>6. \/ blobsIdx' = blobsIdx
        \/ BlobAt("idx") /\ \E n \in IdxTorn \cup {EntryLen} :
              blobsIdx' = IdxAppended(blobsIdx, bop.hash, bop.offset, n)
    BY DEF BlobFilesInterrupted, IdxInterrupted
  <2> QED
    BY <2>2, <2>4, <2>5, <2>6
<1> QED
  BY <1>1, <1>2

-----------------------------------------------------------------------------
\* Reading the index file into memory keeps the invariant.
LEMMA BlobLoads ==
    ASSUME BlobInv, bop' = bop, bop = NoBop,
           index' = load_index(blobsIdx).valid \/ index' = index,
           blobsIdx' = load_index(blobsIdx), blobMode' \in {"up", "failed"},
           UNCHANGED <<blobsPack, blobFaults, blobAcked, blobCut>>
    PROVE  BlobInv'
<1>1. PICK file : file = blobsIdx'
  OBVIOUS
<1>2. /\ file.junk = 0 /\ file.stray = {} /\ file.valid = load_index(blobsIdx).valid
      /\ file = [valid |-> file.valid, junk |-> file.junk, stray |-> file.stray]
  BY <1>1 DEF load_index
<1>3. IsIndex(file.valid) /\ MapSound(blobsPack, blobCut, file.valid)
  BY <1>2, LoadSound
<1>4. IsIndex(index') /\ MapSound(blobsPack, blobCut, index')
  BY <1>2, <1>3 DEF BlobInv, BlobTypeOK
<1>5. BlobTypeOK'
  BY <1>1, <1>2, <1>3, <1>4 DEF BlobInv, BlobTypeOK
<1>6. PackBound' /\ OffsetTaken' /\ StrayBacked' /\ BlobClosed'
  BY <1>1, <1>2 DEF PackBound, OffsetTaken, StrayBacked, NoBop, BlobClosed
<1> QED
  BY <1>1, <1>3, <1>4, <1>5, <1>6 DEF BlobInv

\* Every step of the blob store preserves the invariant.
LEMMA BlobInvStep ==
    ASSUME BlobInv, [BlobNext]_blobVars
    PROVE  BlobInv'
<1> USE DEF BlobInv
<1>0. blobsPack \in PackType /\ Len(blobsPack) \in Nat /\ MaxPack \in Nat
  BY BlobBounds DEF BlobTypeOK, PackType
<1>1. CASE BlobOpen
  <2>1. bop = NoBop
    BY <1>1 DEF BlobOpen, BlobClosed
  <2> QED
    BY <1>1, <2>1, BlobLoads DEF BlobOpen, BlobClosed
<1>2. CASE BlobOpenFails
  BY <1>2 DEF BlobOpenFails, BlobTypeOK, PackBound, OffsetTaken, StrayBacked, BlobClosed
<1>3. ASSUME NEW hash \in Hashes, PutBegin(hash)
      PROVE  BlobInv'
  <2>0. StrayBacked' /\ BlobClosed'
    BY <1>3 DEF PutBegin, StrayBacked, BlobClosed, BlobIdle
  <2>1. CASE hash \in DOMAIN index
    <3>1. bop' = [stage |-> "done", hash |-> hash]
      BY <1>3, <2>1 DEF PutBegin
    <3> QED
      BY <1>3, <2>0, <3>1 DEF PutBegin, BlobTypeOK, PackBound, OffsetTaken
  <2>2. CASE hash \notin DOMAIN index
    <3>1. /\ bop' = [stage |-> "pack", hash |-> hash, offset |-> Len(blobsPack) + 1]
          /\ Len(blobsPack) < MaxPack
      BY <1>3, <2>2 DEF PutBegin
    <3>2. BlobTypeOK'
      BY <1>0, <1>3, <3>1 DEF PutBegin, BlobTypeOK
    <3> QED
      BY <1>3, <2>0, <3>1, <3>2 DEF PutBegin, PackBound, OffsetTaken
  <2> QED
    BY <2>1, <2>2
<1>4. CASE PutPack
  <2>1. bop.hash \in Hashes /\ bop.offset = Len(blobsPack) + 1
    BY <1>4, BopAtStage DEF PutPack, BlobAt, NoBop, OffsetTaken
  <2> DEFINE r == PackRecord(bop.hash)
  <2>2. r \in [hash : Hashes, whole : BOOLEAN] /\ blobsPack' = Append(blobsPack, r)
    BY <1>4, <2>1 DEF PutPack, PackRecord
  <2>3. /\ blobsPack' \in PackType
        /\ Len(blobsPack') = Len(blobsPack) + 1
        /\ blobsPack'[Len(blobsPack) + 1] = r
        /\ \A i \in 1 .. Len(blobsPack) :
              i \in 1 .. Len(blobsPack') /\ blobsPack'[i] = blobsPack[i]
    BY <1>0, <2>2, PackGrows
  <2>4. /\ bop'.stage = "idx" /\ bop'.hash = bop.hash /\ bop'.offset = bop.offset
        /\ "offset" \in DOMAIN bop'
        /\ bop' \in [stage : {"pack", "idx", "done"}, hash : Hashes, offset : Nat \ {0}]
    BY <1>4, BopAdvances DEF PutPack, BlobAt
  <2>5. Len(blobsPack) < MaxPack
    BY <1>4 DEF PutPack, BlobAt, PackBound
  <2>6. BlobTypeOK'
    BY <1>0, <1>4, <2>3, <2>4, <2>5 DEF PutPack, BlobTypeOK, PackType
  <2>7. PackBound' /\ OffsetTaken' /\ BlobClosed'
    BY <1>0, <1>4, <2>1, <2>3, <2>4 DEF PackBound, OffsetTaken, BlobClosed, PutPack, BlobAt
  <2>8. StrayBacked'
    BY <1>4, <2>3 DEF PutPack, StrayBacked
  <2>9. MapSound(blobsPack', blobCut, index) /\ MapSound(blobsPack', blobCut, blobsIdx.valid)
    BY <1>0, <2>2, SoundStays
  <2> QED
    BY <1>4, <2>6, <2>7, <2>8, <2>9 DEF PutPack
<1>5. CASE PutIdx
  <2>0. blobMode = "up" /\ blobMode' = "up" /\ blobCut' = blobCut /\ blobsPack' = blobsPack
    BY <1>5 DEF PutIdx, BlobAt
  <2>1. BlobFilesInterrupted
    <3>1. blobsIdx' \in IdxInterrupted(bop.hash, bop.offset)
      BY <1>5, Zenon DEF PutIdx, IdxInterrupted, IdxWritten
    <3> QED
      BY <1>5, <3>1 DEF PutIdx, BlobFilesInterrupted, BlobAt
  <2>2. /\ bop'.stage = "done"
        /\ bop' \in [stage : {"pack", "idx", "done"}, hash : Hashes, offset : Nat \ {0}]
    BY <1>5, BopAdvances DEF PutIdx, BlobAt
  <2>3. /\ bop.hash \in Hashes /\ bop.offset \in Nat
        /\ bop.offset \in 1 .. Len(blobsPack)
        /\ blobsPack[bop.offset] = PackRecord(bop.hash)
    BY <1>5, BopAtStage DEF PutIdx, BlobAt, NoBop, OffsetTaken
  <2>4. IsIndex(index')
    BY <1>5, <2>3, EnterIsIndex DEF PutIdx, BlobTypeOK
  <2>5. BlobTypeOK'
    BY <1>5, <2>0, <2>1, <2>2, <2>4, InterruptedFiles DEF PutIdx, BlobTypeOK, PackType
  <2>6. PackBound' /\ OffsetTaken' /\ BlobClosed'
    BY <2>0, <2>2 DEF PackBound, OffsetTaken, BlobClosed
  <2>7. StrayBacked'
    <3>1. PICK file : file = blobsIdx'
      OBVIOUS
    <3>2. file = IdxAppended(blobsIdx, bop.hash, bop.offset, EntryLen)
      BY <1>5, <3>1 DEF PutIdx, IdxWritten
    <3>3. file.stray \subseteq blobsIdx.stray \cup
             {[at |-> blobsIdx.junk, hash |-> bop.hash, offset |-> bop.offset,
               len |-> EntryLen]}
      <4>1. EntryLen \in 1 .. EntryLen
        BY DEF EntryLen
      <4> QED
        BY <2>3, <3>2, <4>1, IdxAppends
    <3>4. ASSUME NEW s \in file.stray
          PROVE  /\ s.offset \in 1 .. Len(blobsPack) /\ blobsPack[s.offset] = PackRecord(s.hash)
                 /\ s.len < LensEnd => s.hash \in blobCut
      <4>1. CASE s \in blobsIdx.stray
        BY <2>0, <4>1 DEF StrayBacked
      <4>2. CASE s \notin blobsIdx.stray
        <5>1. s.len = EntryLen /\ s.hash = bop.hash /\ s.offset = bop.offset
          BY <3>3, <3>4, <4>2
        <5> QED
          BY <2>3, <5>1 DEF EntryLen, LensEnd
      <4> QED
        BY <4>1, <4>2
    <3> QED
      BY <2>0, <3>1, <3>4 DEF StrayBacked
  <2>8. MapSound(blobsPack, blobCut, index')
    BY <1>5, <2>3, EnterSound DEF PutIdx
  <2>9. MapSound(blobsPack', blobCut, blobsIdx'.valid)
    BY <2>0, <2>1, InterruptedFiles
  <2> QED
    BY <2>0, <2>5, <2>6, <2>7, <2>8, <2>9
<1>6. CASE PutDone
  <2>1. bop.hash \in Hashes
    BY <1>6, BopAtStage DEF PutDone, BlobAt, NoBop
  <2> QED
    BY <1>6, <2>1 DEF PutDone, NoBop, BlobTypeOK, PackBound, OffsetTaken, StrayBacked,
                      BlobClosed
<1>7. CASE BlobCrash
  <2>1. /\ BlobFilesInterrupted /\ bop' = NoBop /\ index' = NoEntries
        /\ blobMode = "up" /\ blobMode' = "down" /\ blobCut' = blobCut
    BY <1>7 DEF BlobCrash
  <2>2. IsIndex(NoEntries)
    BY DEF IsIndex, NoEntries
  <2>3. blobFaults' \in 0 .. MaxBlobFaults
    BY <1>7, BlobBounds DEF BlobCrash, BlobTypeOK
  <2>4. BlobTypeOK'
    BY <1>7, <2>1, <2>2, <2>3, InterruptedFiles DEF BlobCrash, BlobTypeOK, PackType
  <2>5. PackBound' /\ OffsetTaken' /\ BlobClosed'
    BY <2>1 DEF PackBound, OffsetTaken, NoBop, BlobClosed
  <2>6. StrayBacked'
    BY <2>1, InterruptedFiles DEF StrayBacked
  <2>7. MapSound(blobsPack', blobCut', blobsIdx'.valid)
    BY <2>1, InterruptedFiles
  <2>8. MapSound(blobsPack', blobCut', index')
    BY <2>1 DEF MapSound, NoEntries
  <2> QED
    BY <2>4, <2>5, <2>6, <2>7, <2>8
<1>8. CASE BlobWriteFails
  <2>1. /\ BlobFilesInterrupted /\ bop' = NoBop /\ index' = index
        /\ blobMode = "up" /\ blobMode' = "up"
    BY <1>8 DEF BlobWriteFails, BlobAt
  <2>2. blobFaults' \in 0 .. MaxBlobFaults
    BY <1>8, BlobBounds DEF BlobWriteFails, BlobTypeOK
  <2>3. /\ blobCut \subseteq blobCut' /\ blobCut' \subseteq Hashes
        /\ BlobAt("idx") => bop.hash \in blobCut'
    <3>1. bop.hash \in Hashes
      BY <1>8, BopAtStage DEF BlobWriteFails, BlobAt, NoBop
    <3> QED
      BY <1>8, <3>1 DEF BlobWriteFails, BlobTypeOK
  <2>4. BlobTypeOK'
    BY <1>8, <2>1, <2>2, <2>3, InterruptedFiles DEF BlobWriteFails, BlobTypeOK, PackType
  <2>5. PackBound' /\ OffsetTaken' /\ BlobClosed'
    BY <2>1 DEF PackBound, OffsetTaken, NoBop, BlobClosed
  <2>6. StrayBacked'
    BY <2>1, <2>3, InterruptedFiles DEF StrayBacked
  <2>7. MapSound(blobsPack', blobCut, blobsIdx'.valid) /\ MapSound(blobsPack', blobCut, index)
    BY <2>1, InterruptedFiles
  <2>8. MapSound(blobsPack', blobCut', blobsIdx'.valid) /\ MapSound(blobsPack', blobCut', index)
    BY <2>3, <2>7 DEF MapSound, Sound
  <2> QED
    BY <2>1, <2>4, <2>5, <2>6, <2>8
<1>9. CASE UNCHANGED blobVars
  BY <1>9 DEF blobVars, BlobTypeOK, PackBound, OffsetTaken, StrayBacked, BlobClosed
<1> QED
  BY <1>1, <1>2, <1>3, <1>4, <1>5, <1>6, <1>7, <1>8, <1>9 DEF BlobNext

\* The store starts in the invariant.
LEMMA BlobInvInit == BlobInit => BlobInv
BY BlobBounds DEF BlobInit, BlobInv, BlobTypeOK, IsIndex, NoEntries, NoBop, PackBound,
                  OffsetTaken, StrayBacked, MapSound, BlobClosed

\* Sound maps are backed.
LEMMA InvBacked ==
    ASSUME BlobInv
    PROVE  IndexBacked
BY LoadSound DEF IndexBacked, Backed, Readable, Refused, MapSound, Sound, BlobInv

\* BlobStore keeps the shape of its struct and files, whatever fails.
THEOREM BlobTypeCorrect == BlobSpec => []BlobTypeOK
<1>1. BlobInv => BlobTypeOK
  BY DEF BlobInv
<1> QED
  BY <1>1, BlobInvInit, BlobInvStep, PTL DEF BlobSpec

\* Every blob the index knows, in memory or as load_index would read it from
\* the file after any mixture of crashes and failed writes, has an intact
\* record of its hash in the pack, by put_if_absent's order of writes; the one
\* exception, a blob of whose own entry an error left the hash and not the
\* lengths, is refused by get.
THEOREM BlobIndexCorrect == BlobSpec => []IndexBacked
<1>1. BlobInv => IndexBacked
  BY InvBacked
<1> QED
  BY <1>1, BlobInvInit, BlobInvStep, PTL DEF BlobSpec

-----------------------------------------------------------------------------
(* Durability, when writes are only ever cut short by a crash.             *)

\* While the store is up the index on disk is exactly the one in memory, and
\* nothing acknowledged is missing from it.
BlobDurable ==
    /\ blobAcked \subseteq DOMAIN blobsIdx.valid
    /\ blobMode = "up" => index = blobsIdx.valid /\ blobsIdx.junk = 0
    /\ blobsIdx.junk < EntryLen
    /\ blobMode = "up" /\ bop.stage = "done" => bop.hash \in DOMAIN index
    /\ blobCut = {}

\* Fewer stray bytes than an entry has are only cut off.
LEMMA LoadExact ==
    ASSUME BlobInv, BlobDurable
    PROVE  load_index(blobsIdx).valid = blobsIdx.valid
<1>1. LastEntries(blobsIdx) = {}
  <2>1. ASSUME NEW s \in blobsIdx.stray
        PROVE  ~ (s.at + EntryLen <= blobsIdx.junk)
    BY DEF BlobDurable, BlobInv, BlobTypeOK, EntryLen
  <2> QED
    BY <2>1 DEF LastEntries, ReadAsEntries
<1>2. blobsIdx.valid = [h \in DOMAIN blobsIdx.valid |-> blobsIdx.valid[h]]
  BY DEF BlobInv, BlobTypeOK, IsIndex
<1>3. load_index(blobsIdx).valid = [h \in DOMAIN blobsIdx.valid |-> blobsIdx.valid[h]]
  BY <1>1 DEF load_index
<1> QED
  BY <1>2, <1>3

\* A step of a store whose writes do not fail keeps the disk in agreement.
LEMMA BlobDurableStep ==
    ASSUME BlobCrashOnly, BlobInv, BlobDurable, [BlobNext]_blobVars
    PROVE  BlobDurable'
<1> USE DEF BlobDurable
<1>1. CASE BlobOpen
  <2>1. /\ blobsIdx'.valid = blobsIdx.valid /\ index' = blobsIdx.valid
        /\ bop' = NoBop
    BY <1>1, LoadExact DEF BlobOpen, BlobInv, BlobClosed
  <2>2. blobsIdx'.junk = 0
    BY <1>1 DEF BlobOpen, load_index
  <2> QED
    BY <1>1, <2>1, <2>2 DEF BlobOpen, EntryLen, NoBop
<1>2. CASE BlobOpenFails
  BY <1>2 DEF BlobOpenFails
<1>3. ASSUME NEW hash \in Hashes, PutBegin(hash)
      PROVE  BlobDurable'
  BY <1>3 DEF PutBegin, BlobIdle
<1>4. CASE PutPack
  <2>1. bop'.stage = "idx"
    BY <1>4, BopAdvances DEF PutPack, BlobAt, BlobInv
  <2> QED
    BY <1>4, <2>1 DEF PutPack, BlobAt
<1>5. CASE PutIdx
  <2>1. bop'.stage = "done" /\ bop'.hash = bop.hash
    BY <1>5, BopAdvances DEF PutIdx, BlobAt, BlobInv
  <2>0. PICK file : file = blobsIdx'
    OBVIOUS
  <2>2. file.valid = Enter(blobsIdx.valid, bop.hash, bop.offset) /\ file.junk = 0
    <3>1. bop.hash \in Hashes /\ bop.offset \in Nat /\ BlobTypeOK
      BY <1>5, BopAtStage DEF PutIdx, BlobAt, NoBop, BlobInv
    <3>2. file = IdxAppended(blobsIdx, bop.hash, bop.offset, EntryLen) /\ blobsIdx.junk = 0
      BY <1>5, <2>0 DEF PutIdx, BlobAt, IdxWritten
    <3> QED
      BY <3>1, <3>2, IdxAppends DEF EntryLen
  <2>3. index' = blobsIdx'.valid /\ blobsIdx'.junk = 0
    BY <1>5, <2>0, <2>2 DEF PutIdx, BlobAt
  <2>4. DOMAIN blobsIdx'.valid = DOMAIN blobsIdx.valid \cup {bop.hash}
    BY <2>0, <2>2 DEF Enter
  <2> QED
    BY <1>5, <2>1, <2>3, <2>4 DEF PutIdx, BlobAt, EntryLen
<1>6. CASE PutDone
  BY <1>6 DEF PutDone, BlobAt, NoBop
<1>7. CASE BlobCrash
  <2>1. /\ blobMode' = "down" /\ blobAcked' = blobAcked /\ bop' = NoBop
        /\ BlobFilesInterrupted
    BY <1>7 DEF BlobCrash
  <2>2. DOMAIN blobsIdx.valid \subseteq DOMAIN blobsIdx'.valid /\ blobsIdx'.junk < EntryLen
    <3>1. CASE blobsIdx' = blobsIdx
      BY <3>1
    <3>2. ASSUME BlobAt("idx"), NEW n \in IdxTorn \cup {EntryLen},
                 blobsIdx' = IdxAppended(blobsIdx, bop.hash, bop.offset, n)
          PROVE  DOMAIN blobsIdx.valid \subseteq DOMAIN blobsIdx'.valid
                 /\ blobsIdx'.junk < EntryLen
      <4>1. PICK file : file = blobsIdx'
        OBVIOUS
      <4>2. /\ bop.hash \in Hashes /\ bop.offset \in Nat /\ BlobTypeOK
            /\ n \in 1 .. EntryLen /\ blobsIdx.junk = 0
        BY <3>2, BopAtStage, IdxTornRange DEF BlobAt, NoBop, BlobInv, EntryLen
      <4>3. file = IdxAppended(blobsIdx, bop.hash, bop.offset, n)
        BY <3>2, <4>1
      <4>4. \/ file.valid = Enter(blobsIdx.valid, bop.hash, bop.offset) /\ file.junk = 0
            \/ n # EntryLen /\ file.valid = blobsIdx.valid /\ file.junk = n
        BY <4>2, <4>3, IdxAppends DEF EntryLen
      <4> QED
        BY <4>1, <4>2, <4>4 DEF Enter, EntryLen
    <3> QED
      BY <1>7, <2>1, <3>1, <3>2 DEF BlobFilesInterrupted, IdxInterrupted
  <2> QED
    BY <1>7, <2>1, <2>2 DEF BlobCrash
<1>8. CASE BlobWriteFails
  BY <1>8 DEF BlobWriteFails, BlobCrashOnly
<1>9. CASE UNCHANGED blobVars
  BY <1>9 DEF blobVars
<1> QED
  BY <1>1, <1>2, <1>3, <1>4, <1>5, <1>6, <1>7, <1>8, <1>9 DEF BlobNext

\* A blob whose put returned Ok can be read after any number of crashes and
\* restarts, as long as writes are only cut short by crashes.
THEOREM AckedBlobsSurvive ==
    ASSUME BlobCrashOnly
    PROVE  BlobSpec => []AckedBlobsDurable
<1>1. BlobInit => BlobInv /\ BlobDurable
  BY BlobInvInit DEF BlobInit, BlobDurable, EntryLen, NoBop
<1>2. BlobInv /\ BlobDurable /\ [BlobNext]_blobVars => BlobInv' /\ BlobDurable'
  BY BlobInvStep, BlobDurableStep, BlobCrashOnly
<1>3. BlobInv /\ BlobDurable => AckedBlobsDurable
  BY DEF BlobInv, BlobDurable, AckedBlobsDurable, MapSound, Sound, Readable
<1> QED
  BY <1>1, <1>2, <1>3, PTL DEF BlobSpec

-----------------------------------------------------------------------------
(* A step of the store is a step of each part, or an open that gives up.   *)

TurnsGiveUp == /\ mode' = "failed"
               /\ UNCHANGED <<files, memory, op, faults, acked, ackedHead>>

BlobsGiveUp == /\ blobMode = "down"
               /\ blobMode' = "failed"
               /\ blobsIdx' = load_index(blobsIdx)
               /\ UNCHANGED <<blobsPack, index, bop, blobFaults, blobAcked, blobCut>>

LEMMA ProjectTurns ==
    ASSUME sreq \in ReqType, StoreNext
    PROVE  [Next]_vars \/ TurnsGiveUp
<1>1. CASE StoreOpen
  BY <1>1 DEF StoreOpen, Next
<1>2. CASE StoreOpenFails
  BY <1>2 DEF StoreOpenFails, Next, TurnsGiveUp
<1>3. CASE PayloadRejected
  BY <1>3 DEF PayloadRejected, storeVars
<1>4. ASSUME NEW context \in ContextIds, NEW parent \in AnyTurnId,
             NEW payload \in Payloads, AppendStart(context, parent, payload)
      PROVE  UNCHANGED vars
  BY <1>4 DEF AppendStart
<1>5. CASE AppendTurn \/ AppendTurnRefused
  <2>1. sreq.kind = "append" => /\ sreq.context \in ContextIds
                                /\ sreq.parent \in AnyTurnId
                                /\ sreq.payload \in Payloads
    BY DEF ReqType, NoReq
  <2> QED
    BY <1>5, <2>1, Zenon DEF AppendTurn, AppendTurnRefused, Next
<1>6. ASSUME NEW hash \in Hashes, PutBlob(hash)
      PROVE  UNCHANGED vars
  BY <1>6 DEF PutBlob
<1>7. CASE PutBlobReply \/ BlobStep
  BY <1>7 DEF PutBlobReply, BlobStep
<1>8. ASSUME NEW base \in AnyTurnId, CreateContext(base)
      PROVE  Next
  BY <1>8 DEF CreateContext, Next
<1>9. CASE TurnStep \/ StoreReply \/ StoreCrash
  BY <1>9 DEF TurnStep, StoreReply, StoreCrash, Next
<1>10. CASE StoreWriteFails
  BY <1>10 DEF StoreWriteFails, Next
<1> QED
  BY <1>1, <1>2, <1>3, <1>4, <1>5, <1>6, <1>7, <1>8, <1>9, <1>10 DEF StoreNext

LEMMA ProjectBlobs ==
    ASSUME mode = blobMode, StoreNext
    PROVE  [BlobNext]_blobVars \/ BlobsGiveUp
<1>1. CASE StoreOpen \/ StoreCrash
  BY <1>1 DEF StoreOpen, StoreCrash, BlobNext
<1>2. CASE StoreOpenFails
  <2>1. CASE BlobOpenFails
    BY <2>1 DEF BlobNext
  <2>2. CASE blobMode = "down" /\ blobsIdx' = load_index(blobsIdx)
             /\ blobMode' = "failed"
             /\ UNCHANGED <<blobsPack, index, bop, blobFaults, blobAcked, blobCut>>
    BY <2>2 DEF BlobsGiveUp
  <2> QED
    BY <1>2, <2>1, <2>2 DEF StoreOpenFails, OpenFails
<1>3. CASE PayloadRejected
  BY <1>3 DEF PayloadRejected, storeVars
<1>4. ASSUME NEW context \in ContextIds, NEW parent \in AnyTurnId,
             NEW payload \in Payloads, AppendStart(context, parent, payload)
      PROVE  BlobNext
  <2>1. payload \in Hashes
    BY PayloadsAreBlobs
  <2> QED
    BY <1>4, <2>1, Zenon DEF AppendStart, BlobNext
<1>5. CASE AppendTurn \/ AppendTurnRefused \/ PutBlobReply
  BY <1>5 DEF AppendTurn, AppendTurnRefused, PutBlobReply, BlobNext
<1>6. ASSUME NEW hash \in Hashes, PutBlob(hash)
      PROVE  BlobNext
  BY <1>6, Zenon DEF PutBlob, BlobNext
<1>7. CASE BlobStep
  BY <1>7 DEF BlobStep, BlobNext
<1>8. ASSUME NEW base \in AnyTurnId, CreateContext(base)
      PROVE  UNCHANGED blobVars
  BY <1>8 DEF CreateContext
<1>9. CASE TurnStep \/ StoreReply
  BY <1>9 DEF TurnStep, StoreReply
<1>10. CASE StoreWriteFails
  BY <1>10 DEF StoreWriteFails, BlobNext
<1> QED
  BY <1>1, <1>2, <1>3, <1>4, <1>5, <1>6, <1>7, <1>8, <1>9, <1>10 DEF StoreNext

\* Giving up an open keeps the invariants of the parts.
LEMMA GiveUpKeeps ==
    /\ TypeOK /\ TurnsGiveUp => TypeOK'
    /\ BlobInv /\ BlobsGiveUp => BlobInv'
    /\ BlobInv /\ BlobDurable /\ BlobsGiveUp => BlobDurable'
<1>1. TypeOK /\ TurnsGiveUp => TypeOK'
  BY DEF TypeOK, TurnsGiveUp, files, memory
<1>2. ASSUME BlobInv, BlobsGiveUp
      PROVE  BlobInv'
  <2>1. bop = NoBop
    BY <1>2 DEF BlobsGiveUp, BlobInv, BlobClosed
  <2> QED
    BY <1>2, <2>1, BlobLoads DEF BlobsGiveUp
<1>3. ASSUME BlobInv, BlobDurable, BlobsGiveUp
      PROVE  BlobDurable'
  <2>1. blobsIdx'.valid = blobsIdx.valid
    BY <1>3, LoadExact DEF BlobsGiveUp
  <2>2. blobsIdx'.junk = 0
    BY <1>3 DEF BlobsGiveUp, load_index
  <2> QED
    BY <1>3, <2>1, <2>2 DEF BlobDurable, BlobsGiveUp, EntryLen
<1> QED
  BY <1>1, <1>2, <1>3

-----------------------------------------------------------------------------
(* The inductive invariant.                                                *)

\* The put in progress is that of the request, and the turn being appended
\* has its payload in the index.
Pending ==
    /\ bop # NoBop /\ sreq.kind = "append" => bop.hash = sreq.payload
    /\ op # NoOp /\ op.kind = "append" => op.rec.payload \in DOMAIN index

\* Every turn, in memory and on disk, has its payload in the index of the
\* same side.
Indexed ==
    /\ mode = "up" => \A t \in DOMAIN turns : turns[t].payload \in DOMAIN index
    /\ \A t \in DOMAIN turnsLog.valid :
          turnsLog.valid[t].payload \in DOMAIN blobsIdx.valid

StoreInv ==
    /\ TypeOK /\ BlobInv /\ BlobDurable
    /\ sreq \in ReqType
    /\ mode = blobMode
    /\ mode # "up" => op = NoOp
    /\ Pending
    /\ Indexed

\* The parts' own invariants, and the request.
LEMMA PartsStep ==
    ASSUME BlobCrashOnly, StoreInv, [StoreNext]_storeVars
    PROVE  /\ TypeOK' /\ BlobInv' /\ BlobDurable'
           /\ sreq' \in ReqType
           /\ mode' = blobMode'
           /\ mode' # "up" => op' = NoOp
<1> USE DEF StoreInv
<1>1. CASE UNCHANGED storeVars
  <2>1. UNCHANGED vars /\ UNCHANGED blobVars /\ UNCHANGED sreq
    BY <1>1 DEF storeVars
  <2>2. TypeOK' /\ BlobInv' /\ BlobDurable'
    BY <2>1, TypeStep, BlobInvStep, BlobDurableStep
  <2> QED
    BY <2>1, <2>2 DEF vars, blobVars
<1>2. CASE StoreNext
  <2>1. TypeOK'
    BY <1>2, ProjectTurns, TypeStep, GiveUpKeeps
  <2>2. BlobInv' /\ BlobDurable'
    BY <1>2, ProjectBlobs, BlobInvStep, BlobDurableStep, GiveUpKeeps
  <2>3. sreq' \in ReqType
    BY <1>2 DEF StoreNext, StoreOpen, StoreOpenFails, PayloadRejected, AppendStart,
                AppendTurn, AppendTurnRefused, PutBlob, PutBlobReply, CreateContext,
                BlobStep, TurnStep, StoreReply, StoreCrash, StoreWriteFails, storeVars,
                ReqType, NoReq
  <2>4. mode' = blobMode' /\ (mode' # "up" => op' = NoOp)
    <3>1. CASE StoreOpen \/ StoreOpenFails \/ StoreCrash
      BY <1>2, <3>1 DEF StoreOpen, StoreOpenFails, StoreCrash, Open, OpenFails, Crash,
                        BlobOpen, BlobOpenFails, BlobCrash
    <3>2. CASE PayloadRejected
      BY <3>2 DEF PayloadRejected, storeVars, vars, blobVars
    <3>3. ASSUME NEW context \in ContextIds, NEW parent \in AnyTurnId,
                 NEW payload \in Payloads, AppendStart(context, parent, payload)
          PROVE  mode' = mode /\ op' = op /\ blobMode' = blobMode
      BY <3>3 DEF AppendStart, PutBegin, vars
    <3>4. CASE AppendTurn \/ AppendTurnRefused \/ PutBlobReply
      BY <3>4 DEF AppendTurn, AppendTurnRefused, PutBlobReply, PutDone, BlobAt,
                  AppendBegin, AppendRefused, Idle, vars
    <3>5. ASSUME NEW hash \in Hashes, PutBlob(hash)
          PROVE  mode' = mode /\ op' = op /\ blobMode' = blobMode
      BY <3>5 DEF PutBlob, PutBegin, vars
    <3>6. ASSUME NEW base \in AnyTurnId, CreateContext(base)
          PROVE  mode' = mode /\ mode = "up" /\ blobMode' = blobMode
      BY <3>6 DEF CreateContext, CreateBegin, CreateRefused, Idle, vars, blobVars
    <3>7. CASE BlobStep
      BY <3>7 DEF BlobStep, PutPack, PutIdx, vars
    <3>8. CASE TurnStep \/ StoreReply
      BY <3>8 DEF TurnStep, StoreReply, WriteLog, WriteIdx, WriteMeta, WriteHead, Reply,
                  At, blobVars
    <3>9. CASE StoreWriteFails
      BY <3>9 DEF StoreWriteFails, WriteFails, BlobWriteFails, vars, blobVars
    <3> QED
      BY <1>2, <3>1, <3>2, <3>3, <3>4, <3>5, <3>6, <3>7, <3>8, <3>9 DEF StoreNext
  <2> QED
    BY <2>1, <2>2, <2>3, <2>4
<1> QED
  BY <1>1, <1>2

\* The index on disk never loses a blob.
LEMMA IndexGrows ==
    ASSUME BlobCrashOnly, BlobInv, BlobDurable, [BlobNext]_blobVars \/ BlobsGiveUp
    PROVE  DOMAIN blobsIdx.valid \subseteq DOMAIN blobsIdx'.valid
<1>0. ASSUME NEW n, blobsIdx' = IdxAppended(blobsIdx, bop.hash, bop.offset, n)
      PROVE  DOMAIN blobsIdx.valid \subseteq DOMAIN blobsIdx'.valid
  <2>1. blobsIdx = [valid |-> blobsIdx.valid, junk |-> blobsIdx.junk,
                    stray |-> blobsIdx.stray]
    BY DEF BlobInv, BlobTypeOK
  <2> QED
    BY <1>0, <2>1 DEF IdxAppended, Enter
<1>1. CASE BlobOpen \/ BlobsGiveUp
  BY <1>1, LoadSound DEF BlobOpen, BlobsGiveUp
<1>2. CASE \/ BlobOpenFails \/ PutPack \/ PutDone \/ UNCHANGED blobVars
           \/ \E hash \in Hashes : PutBegin(hash)
  BY <1>2 DEF BlobOpenFails, PutBegin, PutPack, PutDone, blobVars
<1>3. CASE PutIdx
  BY <1>0, <1>3 DEF PutIdx, IdxWritten
<1>4. CASE BlobCrash
  BY <1>0, <1>4 DEF BlobCrash, BlobFilesInterrupted, IdxInterrupted
<1> QED
  BY <1>1, <1>2, <1>3, <1>4 DEF BlobNext, BlobWriteFails, BlobCrashOnly

\* A turn on disk was there before or is the one being written.
LEMMA LogGrowsByOp ==
    ASSUME TypeOK, [Next]_vars \/ TurnsGiveUp,
           NEW t \in DOMAIN turnsLog'.valid
    PROVE  \/ t \in DOMAIN turnsLog.valid /\ turnsLog'.valid[t] = turnsLog.valid[t]
           \/ At("log") /\ op.kind = "append" /\ turnsLog'.valid[t] = op.rec
<1>0. turnsLog = [valid |-> turnsLog.valid, junk |-> turnsLog.junk]
  BY DEF TypeOK, IsFile
<1>1. CASE turnsLog' = turnsLog
  BY <1>1
<1>2. CASE At("log") /\ turnsLog' \in Interrupted(turnsLog, op.rec.id, op.rec, TurnLen)
  <2>1. op.kind = "append"
    BY <1>2, OpAtStage DEF TypeOK
  <2>2. CASE turnsLog' = Written(turnsLog, op.rec.id, op.rec, TurnLen)
    BY <1>0, <1>2, <2>1, <2>2 DEF Written, Insert
  <2>3. ASSUME NEW n \in TornLens, turnsLog' = [turnsLog EXCEPT !.junk = @ + n]
        PROVE  turnsLog'.valid = turnsLog.valid
    BY <1>0, <2>3
  <2> QED
    BY <1>1, <1>2, <2>2, <2>3 DEF Interrupted
<1>3. CASE turnsLog' = load_turns(turnsLog)
  BY <1>0, <1>3 DEF load_turns
<1>4. CASE WriteLog
  <2>1. turnsLog' \in Interrupted(turnsLog, op.rec.id, op.rec, TurnLen)
    BY <1>4, Zenon DEF WriteLog, Interrupted
  <2> QED
    BY <1>2, <1>4, <2>1 DEF WriteLog
<1>5. CASE Crash \/ WriteFails
  BY <1>1, <1>2, <1>5 DEF Crash, WriteFails, FilesInterrupted
<1>6. CASE Open \/ OpenFails
  BY <1>3, <1>6 DEF Open, OpenFails
<1>7. CASE \/ \E base \in AnyTurnId : CreateBegin(base) \/ CreateRefused(base)
           \/ \E context \in ContextIds, parent \in AnyTurnId :
                 \/ \E payload \in Payloads : AppendBegin(context, parent, payload)
                 \/ AppendRefused(context, parent)
           \/ WriteIdx \/ WriteMeta \/ WriteHead \/ Reply \/ TurnsGiveUp
           \/ UNCHANGED vars
  BY <1>1, <1>7 DEF CreateBegin, CreateRefused, AppendBegin, AppendRefused, WriteIdx,
                    WriteMeta, WriteHead, Reply, TurnsGiveUp, vars, files
<1> QED
  BY <1>4, <1>5, <1>6, <1>7 DEF Next

\* A turn served was served before, was loaded from disk, or is the one being
\* appended.
LEMMA TurnsGrowByOp ==
    ASSUME TypeOK, [Next]_vars \/ TurnsGiveUp, mode' = "up",
           NEW t \in DOMAIN turns'
    PROVE  \/ mode = "up" /\ t \in DOMAIN turns /\ turns'[t] = turns[t]
           \/ t \in DOMAIN turnsLog.valid /\ turns'[t] = turnsLog.valid[t]
           \/ At("meta") /\ op.kind = "append" /\ turns'[t] = op.rec
<1>1. CASE Open
  BY <1>1 DEF Open
<1>2. CASE WriteMeta
  <2>1. At("meta") /\ op.kind = "append" /\ mode = "up"
    BY <1>2, OpAtStage DEF TypeOK, WriteMeta, At
  <2>2. turns' = Insert(turns, op.rec.id, op.rec)
    BY <1>2 DEF WriteMeta
  <2> QED
    BY <2>1, <2>2 DEF Insert
<1>3. CASE OpenFails \/ Crash \/ TurnsGiveUp
  BY <1>3 DEF OpenFails, Crash, TurnsGiveUp
<1>4. CASE \/ \E base \in AnyTurnId : CreateBegin(base) \/ CreateRefused(base)
           \/ \E context \in ContextIds, parent \in AnyTurnId :
                 \/ \E payload \in Payloads : AppendBegin(context, parent, payload)
                 \/ AppendRefused(context, parent)
           \/ WriteLog \/ WriteIdx \/ WriteHead \/ Reply \/ WriteFails
           \/ UNCHANGED vars
  BY <1>4 DEF CreateBegin, CreateRefused, AppendBegin, AppendRefused, WriteIdx, Idle, At,
              WriteLog, WriteHead, Reply, WriteFails, vars, memory
<1> QED
  BY <1>1, <1>2, <1>3, <1>4 DEF Next

\* What a step of the store does to the two requests in progress.
LEMMA PendingStep ==
    ASSUME BlobCrashOnly, StoreInv, [StoreNext]_storeVars
    PROVE  Pending'
<1> USE DEF StoreInv
<1>0. /\ mode' = blobMode' /\ (mode' # "up" => op' = NoOp)
      /\ BlobDurable' /\ BlobInv' /\ TypeOK' /\ sreq' \in ReqType
  BY PartsStep
<1>1. DOMAIN blobsIdx.valid \subseteq DOMAIN blobsIdx'.valid
  <2>1. [BlobNext]_blobVars \/ BlobsGiveUp
    BY ProjectBlobs DEF storeVars
  <2> QED
    BY <2>1, IndexGrows
<1>2. mode = "up" /\ mode' = "up" => DOMAIN index \subseteq DOMAIN index'
  BY <1>0, <1>1 DEF BlobDurable
<1>3. op' # NoOp /\ op'.kind = "append" => op'.rec.payload \in DOMAIN index'
  <2> SUFFICES ASSUME op' # NoOp, op'.kind = "append"
               PROVE  op'.rec.payload \in DOMAIN index'
    OBVIOUS
  <2>0. mode' = "up"
    BY <1>0
  <2>1. CASE op # NoOp /\ op.kind = "append" /\ op'.rec = op.rec
    <3>1. mode = "up"
      BY <2>1
    <3> QED
      BY <1>2, <2>0, <2>1, <3>1 DEF Pending
  <2>2. CASE AppendTurn
    <3>1. bop.stage = "done" /\ bop # NoBop /\ index' = index /\ blobMode = "up"
      BY <2>2 DEF AppendTurn, PutDone, BlobAt, NoBop
    <3>2. sreq.payload \in DOMAIN index
      BY <2>2, <3>1 DEF AppendTurn, Pending, BlobDurable
    <3>3. op'.rec.payload = sreq.payload
      BY <2>2 DEF AppendTurn, AppendBegin
    <3> QED
      BY <3>1, <3>2, <3>3
  <2>3. CASE TurnStep
    <3>1. PICK stage : At(stage)
      BY <2>3 DEF TurnStep, WriteLog, WriteIdx, WriteMeta, WriteHead
    <3>2. PICK next \in {"idx", "meta", "head", "reply"} : op' = [op EXCEPT !.stage = next]
      BY <2>3 DEF TurnStep, WriteLog, WriteIdx, WriteMeta, WriteHead
    <3>3. op # NoOp /\ op'.kind = op.kind
      BY <3>1, <3>2 DEF At, NoOp, TypeOK, OpType
    <3>4. op'.rec = op.rec
      BY <3>2, <3>3 DEF NoOp, TypeOK, OpType
    <3> QED
      BY <2>1, <3>3, <3>4
  <2>4. ASSUME NEW base \in AnyTurnId, CreateContext(base)
        PROVE  FALSE
    BY <2>4 DEF CreateContext, StoreIdle, Idle, CreateBegin, CreateRefused, vars, NoOp
  <2>5. CASE op' = NoOp
    BY <2>5
  <2>6. CASE op' = op
    BY <2>1, <2>6
  <2>7. CASE StoreNext
    <3>1. CASE StoreOpen \/ StoreOpenFails \/ AppendTurnRefused \/ PayloadRejected
               \/ PutBlobReply \/ BlobStep
      BY <2>6, <3>1 DEF StoreOpen, StoreOpenFails, AppendTurnRefused, PayloadRejected,
                        PutBlobReply, BlobStep, Open, OpenFails, AppendRefused,
                        storeVars, vars
    <3>2. CASE StoreReply \/ StoreCrash \/ StoreWriteFails
      BY <2>5, <2>6, <3>2 DEF StoreReply, StoreCrash, StoreWriteFails, Reply, Crash,
                              WriteFails, vars
    <3>3. CASE \/ \E context \in ContextIds, parent \in AnyTurnId, payload \in Payloads :
                      AppendStart(context, parent, payload)
               \/ \E hash \in Hashes : PutBlob(hash)
      BY <2>6, <3>3 DEF AppendStart, PutBlob, vars
    <3> QED
      BY <2>2, <2>3, <2>4, <2>7, <3>1, <3>2, <3>3 DEF StoreNext
  <2>8. CASE UNCHANGED storeVars
    BY <2>6, <2>8 DEF storeVars, vars
  <2> QED
    BY <2>7, <2>8
<1>4. bop' # NoBop /\ sreq'.kind = "append" => bop'.hash = sreq'.payload
  <2>1. CASE bop' = NoBop \/ sreq' = NoReq
    BY <2>1 DEF NoReq
  <2>2. CASE bop' = bop /\ sreq' = sreq
    BY <2>2 DEF Pending
  <2>3. ASSUME NEW context \in ContextIds, NEW parent \in AnyTurnId,
               NEW payload \in Payloads, AppendStart(context, parent, payload)
        PROVE  bop'.hash = sreq'.payload
    BY <2>3 DEF AppendStart, PutBegin
  <2>4. ASSUME NEW hash \in Hashes, PutBlob(hash)
        PROVE  sreq'.kind = "put"
    BY <2>4 DEF PutBlob
  <2>5. CASE BlobStep
    <3>1. bop'.hash = bop.hash /\ bop # NoBop /\ sreq' = sreq
      BY <2>5, BopAdvances DEF BlobStep, PutPack, PutIdx, BlobAt, BlobInv, NoBop
    <3> QED
      BY <3>1 DEF Pending
  <2>6. ASSUME NEW base \in AnyTurnId, CreateContext(base)
        PROVE  bop' = bop /\ sreq' = sreq
    BY <2>6 DEF CreateContext, blobVars
  <2>7. CASE StoreOpen \/ StoreOpenFails \/ PayloadRejected \/ TurnStep
    BY <2>2, <2>7 DEF StoreOpen, StoreOpenFails, BlobOpen, BlobOpenFails, PayloadRejected,
                      TurnStep, storeVars, blobVars
  <2>8. CASE \/ AppendTurn \/ AppendTurnRefused \/ PutBlobReply \/ StoreReply
             \/ StoreCrash \/ StoreWriteFails
    BY <2>1, <2>8 DEF AppendTurn, AppendTurnRefused, PutBlobReply, PutDone, StoreReply,
                      StoreCrash, StoreWriteFails
  <2>9. CASE UNCHANGED storeVars
    BY <2>2, <2>9 DEF storeVars, blobVars
  <2> QED
    BY <2>2, <2>3, <2>4, <2>5, <2>6, <2>7, <2>8, <2>9 DEF StoreNext
<1> QED
  BY <1>3, <1>4 DEF Pending

\* Every turn keeps its payload in the index of its side.
LEMMA IndexedStep ==
    ASSUME BlobCrashOnly, StoreInv, [StoreNext]_storeVars
    PROVE  Indexed'
<1> USE DEF StoreInv
<1>0. mode' = blobMode' /\ BlobDurable'
  BY PartsStep
<1>1. /\ [Next]_vars \/ TurnsGiveUp
      /\ [BlobNext]_blobVars \/ BlobsGiveUp
  BY ProjectTurns, ProjectBlobs DEF storeVars
<1>2. DOMAIN blobsIdx.valid \subseteq DOMAIN blobsIdx'.valid
  BY <1>1, IndexGrows
<1>3. mode = "up" => index = blobsIdx.valid
  BY DEF BlobDurable
<1>4. mode' = "up" => index' = blobsIdx'.valid
  BY <1>0 DEF BlobDurable
<1>5. \A stage : At(stage) /\ op.kind = "append" => op.rec.payload \in DOMAIN blobsIdx.valid
  BY <1>3 DEF At, Pending
<1>6. ASSUME NEW t \in DOMAIN turnsLog'.valid
      PROVE  turnsLog'.valid[t].payload \in DOMAIN blobsIdx'.valid
  <2>1. \/ t \in DOMAIN turnsLog.valid /\ turnsLog'.valid[t] = turnsLog.valid[t]
        \/ At("log") /\ op.kind = "append" /\ turnsLog'.valid[t] = op.rec
    BY <1>1, <1>6, LogGrowsByOp
  <2> QED
    BY <1>2, <1>5, <2>1 DEF Indexed
<1>7. ASSUME mode' = "up", NEW t \in DOMAIN turns'
      PROVE  turns'[t].payload \in DOMAIN index'
  <2>1. \/ mode = "up" /\ t \in DOMAIN turns /\ turns'[t] = turns[t]
        \/ t \in DOMAIN turnsLog.valid /\ turns'[t] = turnsLog.valid[t]
        \/ At("meta") /\ op.kind = "append" /\ turns'[t] = op.rec
    BY <1>1, <1>7, TurnsGrowByOp
  <2> QED
    BY <1>2, <1>3, <1>4, <1>5, <1>7, <2>1 DEF Indexed
<1> QED
  BY <1>6, <1>7 DEF Indexed

-----------------------------------------------------------------------------
\* The invariant holds of every behaviour whose blob writes are only cut
\* short by crashes.
LEMMA StoreInvariant ==
    ASSUME BlobCrashOnly
    PROVE  StoreSpec => []StoreInv
<1>1. StoreInit => StoreInv
  <2> SUFFICES ASSUME StoreInit PROVE StoreInv
    OBVIOUS
  <2>1. TypeOK /\ BlobInv
    BY TypeInit, BlobInvInit DEF StoreInit
  <2>2. BlobDurable
    BY DEF StoreInit, BlobInit, BlobDurable, EntryLen, NoBop
  <2>3. sreq \in ReqType /\ Pending /\ Indexed /\ op = NoOp /\ mode = blobMode
    BY DEF StoreInit, Init, BlobInit, ReqType, NoReq, Pending, Indexed, EmptyFile, EmptyMap
  <2> QED
    BY <2>1, <2>2, <2>3 DEF StoreInv
<1>2. StoreInv /\ [StoreNext]_storeVars => StoreInv'
  <2> SUFFICES ASSUME StoreInv, [StoreNext]_storeVars PROVE StoreInv'
    OBVIOUS
  <2>1. /\ TypeOK' /\ BlobInv' /\ BlobDurable' /\ sreq' \in ReqType
        /\ mode' = blobMode' /\ (mode' # "up" => op' = NoOp)
    BY BlobCrashOnly, PartsStep
  <2>2. Pending' /\ Indexed'
    BY BlobCrashOnly, PendingStep, IndexedStep
  <2> QED
    BY <2>1, <2>2 DEF StoreInv
<1> QED
  BY <1>1, <1>2, PTL DEF StoreSpec

\* Both stores keep their shape, and are open or closed together.
THEOREM StoreTypeCorrect ==
    ASSUME BlobCrashOnly
    PROVE  StoreSpec => []StoreTypeOK
<1>1. StoreInv => StoreTypeOK
  BY DEF StoreInv, StoreTypeOK, BlobInv
<1> QED
  BY <1>1, StoreInvariant, BlobCrashOnly, PTL

\* No turn is ever durable before its payload: append_turn's order of the two
\* stores, and put_if_absent's order of the two files, make it so for every
\* crash and for every failed write of the turn store.
THEOREM PayloadsSurvive ==
    ASSUME BlobCrashOnly
    PROVE  StoreSpec => [](PayloadsDurable /\ PayloadsServed)
<1>1. StoreInv => PayloadsDurable /\ PayloadsServed
  BY DEF StoreInv, Indexed, PayloadsDurable, PayloadsServed, BlobInv, BlobDurable, MapSound,
         Sound, Readable
<1> QED
  BY <1>1, StoreInvariant, BlobCrashOnly, PTL
===============================================================================

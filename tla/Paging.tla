------------------------------- MODULE Paging -------------------------------
(***************************************************************************)
(* Reading a context page by page, from its head to its first turn         *)
(* (get_last and get_before of turn_store/mod.rs and store.rs, GET         *)
(* .../turns of http/mod.rs), over the DAG of turns that the turn store is *)
(* shown to implement.  A page is read under the store's lock; appends,    *)
(* forks and crashes come between the pages.  Unlike in ContextDag a head  *)
(* may also be overwritten: an append below an explicit parent takes any   *)
(* context id, and create_context may come to the same id later.           *)
(*                                                                         *)
(* A turn's meta is "lost" when its metadata cannot be read, "typed" when  *)
(* the registry has its type and the payload projects, and else "untyped". *)
(* (A type registered between two pages only lets a page pass that would   *)
(* have failed.)                                                           *)
(***************************************************************************)
EXTENDS ContextDag, SequencesExt, FiniteSetsExt

CONSTANTS
    MaxPagedTurns, MaxPagedContexts,    \* bounds
    Limits                              \* page sizes asked for

ASSUME PagingAssumption == MaxPagedTurns \in Nat /\ MaxPagedContexts \in Nat /\ Limits \subseteq Nat

VARIABLES
    nextPaged,      \* next_context_id
    page            \* a client reading pages

pagingVars == <<dagVars, nextPaged, page>>

NoReader == [context |-> 0]

PagingInit ==
    dag = [t \in {} |-> 0] /\ head = [c \in {} |-> 0] /\ nextPaged = 1 /\ page = NoReader

DagTurn(parent, meta) ==
    [parent |-> parent, depth |-> IF parent = 0 THEN 0 ELSE dag[parent].depth + 1, meta |-> meta]
NextTurn == Cardinality(DOMAIN dag) + 1

\* create_context and fork_context: whatever head the id has is overwritten.
\* (reset is history: it happened to the context being read, with no base.)
CreateAt(base) ==
    /\ nextPaged <= MaxPagedContexts
    /\ base # 0 => base \in DOMAIN dag
    /\ head' = Extend(head, nextPaged, [turn |-> base])
    /\ nextPaged' = nextPaged + 1
    /\ page' = IF page # NoReader /\ page.context = nextPaged /\ base = 0
               THEN [page EXCEPT !.reset = TRUE] ELSE page
    /\ UNCHANGED dag

\* append_turn, at the head or below an explicit parent, which needs no context:
\* the turn and the head.
AppendBelow(c, parent, meta) ==
    /\ NextTurn <= MaxPagedTurns
    /\ \/ parent \in DOMAIN dag
       \/ c \in DOMAIN head /\ parent = head[c].turn
    /\ dag' = Extend(dag, NextTurn, DagTurn(parent, meta))
    /\ head' = Extend(head, c, [turn |-> NextTurn])
    /\ UNCHANGED <<nextPaged, page>>

\* update_counters, when the store is opened.
NextAfterOpen == IF DOMAIN head = {} THEN 1 ELSE Max(DOMAIN head) + 1

\* A crash between turns.log and turns.meta: the turn is there, without its
\* metadata, and no head is at it.
AppendTorn(parent) ==
    /\ NextTurn <= MaxPagedTurns
    /\ parent \in DOMAIN dag \union {0}
    /\ dag' = Extend(dag, NextTurn, DagTurn(parent, "lost"))
    /\ nextPaged' = NextAfterOpen
    /\ UNCHANGED <<head, page>>

\* The server stops and starts between two requests.
RestartBetween ==
    /\ nextPaged' = NextAfterOpen
    /\ UNCHANGED <<dag, head, page>>

-----------------------------------------------------------------------------
(* Reads.                                                                  *)

\* The loop of get_last and get_before, as it is after so many rounds: the turn
\* it has come to and, as results.reverse() leaves them, those it has passed.
Walked(turn, limit) ==
    LET walk[round \in 0 .. limit] ==
            IF round = 0 THEN [at |-> turn, got |-> <<>>]
            ELSE LET w == walk[round - 1] IN
                 IF w.at = 0 THEN w ELSE [at |-> dag[w.at].parent, got |-> <<w.at>> \o w.got]
    IN  walk
WalkBack(turn, limit) == Walked(turn, limit)[limit].got

GetLast(c, limit) == WalkBack(head[c].turn, limit)

\* Mutant of GetBefore: the turn itself comes again.
GetBeforeInclusive(c, before, limit) ==
    IF before = 0 \/ head[c].turn = 0 THEN GetLast(c, limit) ELSE WalkBack(before, limit)
GetBefore(c, before, limit) ==
    IF before = 0 \/ head[c].turn = 0 THEN GetLast(c, limit)
    ELSE WalkBack(dag[before].parent, limit)

\* Store::get_last and get_before look up the metadata of every turn; the typed
\* view needs a descriptor and a payload that projects, and one turn fails the
\* page.
Servable(turn, view) == turn.meta # "lost" /\ (view = "typed" => turn.meta = "typed")
Served(turns, view) == \A i \in DOMAIN turns : Servable(dag[turns[i]], view)
Status(got, view) == IF ~Served(got, view) THEN "error" ELSE IF got = <<>> THEN "end" ELSE "more"
Cursor(got) == IF got = <<>> THEN 0 ELSE got[1]

\* What a reader should see: the turns of the context at its first page.
AncestorsOf[t \in DOMAIN dag \union {0}] ==
    IF t = 0 THEN {} ELSE AncestorsOf[dag[t].parent] \union {t}
Chain(c) == AncestorsOf[head[c].turn]

\* GET .../turns?limit=&view=, and then with before_turn_id =
\* next_before_turn_id, the first turn of the page before, until there is none.
ReadFirst(c, limit, view) ==
    LET got == GetLast(c, limit) IN
    /\ page = NoReader
    /\ page' = [context |-> c, limit |-> limit, view |-> view, got |-> got, want |-> Chain(c),
                reset |-> FALSE, status |-> Status(got, view), before |-> Cursor(got)]
    /\ UNCHANGED <<dag, head, nextPaged>>
ReadMore ==
    LET got == GetBefore(page.context, page.before, page.limit) IN
    /\ page # NoReader /\ page.status = "more"
    /\ page' = [page EXCEPT !.got = got \o @, !.before = Cursor(got), !.status = Status(got, page.view)]
    /\ UNCHANGED <<dag, head, nextPaged>>

PagingNext ==
    \/ \E base \in DOMAIN dag \union {0} : CreateAt(base)
    \/ \E c \in 1 .. MaxPagedContexts, parent \in DOMAIN dag \union {0}, meta \in {"typed", "untyped"} :
          AppendBelow(c, parent, meta)
    \/ \E parent \in DOMAIN dag \union {0} : AppendTorn(parent)
    \/ RestartBetween
    \/ \E c \in DOMAIN head, limit \in Limits, view \in {"typed", "raw"} : ReadFirst(c, limit, view)
    \/ ReadMore

PagingSpec == PagingInit /\ [][PagingNext]_pagingVars

-----------------------------------------------------------------------------
(* Properties.                                                             *)

\* get_last, get_before and next_before_turn_id: whatever is appended, forked
\* or lost between the pages, and wherever the head moves, what a reader has is
\* the end of the context as it was at the first page, every turn once and in
\* order; and when it comes to the end, with pages of at least one turn, all of
\* it, unless the context was an append's own (a head without create_context)
\* and a create_context has since given its id to an empty context.  A read fails
\* exactly when one of its turns has lost its metadata or, in the typed view,
\* has no descriptor that shows it.
PagesCoverChain ==
    page # NoReader =>
        /\ \A i, j \in DOMAIN page.got : i < j => page.got[i] < page.got[j]
        /\ Range(page.got) \subseteq page.want
        /\ \A t \in page.want \ Range(page.got) : \A i \in DOMAIN page.got : t < page.got[i]
        /\ (page.status = "end" /\ page.limit > 0 /\ ~page.reset) => Range(page.got) = page.want
        /\ page.status = "error" <=> ~Served(page.got, page.view)
=============================================================================

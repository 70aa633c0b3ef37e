----------------------------- MODULE CqlSearch -----------------------------
(***************************************************************************)
(* The secondary indexes and the query executor (server/src/cql/           *)
(* indexes.rs, executor.rs) and the search built on them (store.rs,        *)
(* search_contexts).  Module ContextMetadata has when a context is added   *)
(* to the indexes; here is what they hold, when it goes out of date, and   *)
(* what a query returns.                                                   *)
(*                                                                         *)
(* A string is a sequence of characters ordered as numbers; 1 is the upper *)
(* case of 2.  Numbers of queries are f64 in the code and halves here: n   *)
(* stands for n / 2.  MaxU32 and MaxU64 stand for u32::MAX and u64::MAX.   *)
(* Arithmetic wraps, as in a build without overflow checks.                *)
(***************************************************************************)
EXTENDS Integers, SequencesExt, FiniteSetsExt, TLC

CONSTANTS
    StringFields,   \* tag, title, user, service and host
    CiFields,       \* those with an index of lower-case values: all but host
    SearchMetas,          \* metadata a context may carry
    Depths,         \* depths of a context's head
    Queries,        \* expressions
    SearchContexts, \* context ids
    LiveSets,       \* sets of contexts with a live session
    Now,            \* the clock, in ms
    RelativeDates,  \* strings "-<amount><unit>" and their ms before now
    AbsoluteDates,  \* strings that chrono reads and their ms, negative before 1970
    MaxU32, MaxU64,
    MaxGrown,       \* bound: later appends
    Limit           \* SearchRequest.limit

ASSUME SearchAssumption == CiFields \subseteq StringFields /\ Limit \in Nat /\ MaxU32 <= MaxU64

VARIABLES
    index,      \* SecondaryIndexes
    added,      \* the contexts: metadata, the times of the first and of the last
                \* append, the depth of the head; history: whether it has grown
                \* since it was indexed, and whether its time was taken anew
    answer      \* the last search: the query, the live contexts, the result

searchVars == <<index, added, answer>>

-----------------------------------------------------------------------------
(* Strings.                                                                *)

LowerChar(c) == IF c = 1 THEN 2 ELSE c
Lower(s) == [i \in DOMAIN s |-> LowerChar(s[i])]

\* The order of Rust's str: of the first difference, then of the length.
Less(s, t) ==
    \/ s # t /\ IsPrefix(s, t)
    \/ \E i \in DOMAIN s \intersect DOMAIN t :
           s[i] < t[i] /\ \A j \in 1 .. i - 1 : s[j] = t[j]

-----------------------------------------------------------------------------
(* Indexes.                                                                *)

NoIndex == [
    exact  |-> [f \in StringFields |-> {}],
    lower  |-> [f \in CiFields |-> {}],
    sorted |-> [f \in StringFields |-> <<>>],
    lowerSorted |-> [f \in CiFields |-> <<>>],
    label  |-> {}, trace |-> {}, parent |-> {}, root |-> {},
    created |-> {}, depth |-> {}, all |-> {}]

\* Mutant of SortIndex: new entries stay at the end.
SortIndexNot(entries) == entries
\* sort_indexes
SortIndex(entries) == SortSeq(entries, LAMBDA a, b : Less(a[1], b[1]))

Filed(entries, values, c) == entries \union {<<v, c>> : v \in values}
Pushed(entries, values, c) == SortIndex(entries \o SetToSeq({<<v, c>> : v \in values}))
Lowered(values) == {Lower(v) : v \in values}

\* index_metadata, then sort_indexes.  An optional field is a set of at most
\* one value.
IndexMetadata(ix, c, m) ==
    [ix EXCEPT
        !.exact  = [f \in StringFields |-> Filed(ix.exact[f], m[f], c)],
        !.lower  = [f \in CiFields |-> Filed(ix.lower[f], Lowered(m[f]), c)],
        !.sorted = [f \in StringFields |-> Pushed(ix.sorted[f], m[f], c)],
        !.lowerSorted = [f \in CiFields |-> Pushed(ix.lowerSorted[f], Lowered(m[f]), c)],
        !.label  = Filed(@, m.label, c), !.trace  = Filed(@, m.trace, c),
        !.parent = Filed(@, m.parent, c), !.root   = Filed(@, m.root, c)]

\* add_context.
AddToIndex(ix, c, m, created, depth) ==
    [IndexMetadata(ix, c, m) EXCEPT
        !.created = @ \union {<<created, c>>},
        !.depth = @ \union {<<depth, c>>},
        !.all = @ \union {c}]

Exact(entries, v) == {e[2] : e \in {x \in entries : x[1] = v}}

\* prefix_search: from the first entry not below the prefix, as long as it is
\* one.
PrefixSearch(entries, prefix) ==
    LET below == Cardinality({i \in DOMAIN entries : Less(entries[i][1], prefix)})
        ends  == {i \in below + 1 .. Len(entries) : ~IsPrefix(prefix, entries[i][1])}
        last  == IF ends = {} THEN Len(entries) ELSE Min(ends) - 1
    IN  {entries[i][2] : i \in below + 1 .. last}

\* The ranges of the B-trees.
Ranged(entries, op, n) ==
    {e[2] : e \in {x \in entries : CASE op = "gt" -> x[1] > n [] op = "gte" -> x[1] >= n
                                     [] op = "lt" -> x[1] < n [] op = "lte" -> x[1] <= n
                                     [] OTHER -> x[1] = n}}

-----------------------------------------------------------------------------
(* Executor.                                                               *)

QueryError == [ok |-> FALSE]
Found(set) == [ok |-> TRUE, ids |-> set]
Others(set) == Found(index.all \ set)

StringValue(v) == [kind |-> "string", str |-> v]
NumberValue(n) == [kind |-> "number", num |-> n]
DateValue(s, relative) == [kind |-> "date", str |-> s, relative |-> relative]
ListValue(vs) == [kind |-> "list", items |-> vs]

TrueWord == <<9>>

\* Value::as_string: a date is a string too.
IsString(v) == v.kind \in {"string", "date"}
AsString(v) == v.str
\* as_u64: the cast saturates and cuts the fraction; as u32 wraps.
AsU64(n) == IF n < 0 THEN 0 ELSE Min({n \div 2, MaxU64})
AsU32(n) == AsU64(n) % (MaxU32 + 1)

\* execute_string_field, execute_label and execute_trace_id: entries is the
\* index a string is looked up in, ops are the operators of the field.
ByString(op, v, ops, entries) ==
    CASE op \notin ops -> QueryError
      [] op = "in" -> IF v.kind # "list" THEN QueryError
                      ELSE Found(UNION {Exact(entries, AsString(s)) : s \in {x \in v.items : IsString(x)}})
      [] op \in {"eq", "neq"} -> IF ~IsString(v) THEN QueryError
                                 ELSE IF op = "eq" THEN Found(Exact(entries, AsString(v)))
                                 ELSE Others(Exact(entries, AsString(v)))
      [] OTHER -> QueryError

\* A field without an index of lower-case values is searched as it is.
ByPattern(f, op, v) ==
    LET s == AsString(v)
        ci == op \in {"eq_ci", "starts_ci"} /\ f \in CiFields
    IN  CASE ~IsString(v) -> QueryError
          [] IsString(v) /\ op = "eq_ci" ->
                Found(IF ci THEN Exact(index.lower[f], Lower(s)) ELSE Exact(index.exact[f], s))
          [] OTHER ->
                Found(IF ci THEN PrefixSearch(index.lowerSorted[f], Lower(s))
                      ELSE PrefixSearch(index.sorted[f], s))

\* execute_parent and execute_root, and execute_id with itself as the index.
ByNumber(op, v, entries) ==
    CASE op \in {"eq", "neq"} ->
            IF v.kind # "number" THEN QueryError
            ELSE IF op = "eq" THEN Found(Exact(entries, AsU64(v.num))) ELSE Others(Exact(entries, AsU64(v.num)))
      [] op = "in" ->
            IF v.kind # "list" THEN QueryError
            ELSE Found(UNION {Exact(entries, AsU64(n.num)) : n \in {x \in v.items : x.kind = "number"}})
      [] OTHER -> QueryError

ById(op, v) == ByNumber(op, v, {<<c, c>> : c \in index.all})

\* execute_is_live: only "=", and every word but true is false.
ByLive(op, v, live) ==
    IF v.kind # "string" \/ op # "eq" THEN QueryError
    ELSE IF v.str = TrueWord THEN Found(live) ELSE Others(live)

\* execute_created and execute_depth.
ByRange(entries, op, n) ==
    CASE op = "neq" -> Others(Ranged(entries, "eq", n))
      [] op \in {"eq", "gt", "gte", "lt", "lte"} -> Found(Ranged(entries, op, n))
      [] OTHER -> QueryError

\* A time as u64: one before 1970 wraps.
Wrapped(ms) == ms % (MaxU64 + 1)
NoDate == -1

\* parse_relative_date and parse_absolute_date.
ParseRelative(s) == IF s \in DOMAIN RelativeDates THEN Wrapped(Now - RelativeDates[s]) ELSE NoDate
ParseAbsolute(s) == IF s \in DOMAIN AbsoluteDates THEN Wrapped(AbsoluteDates[s]) ELSE NoDate

\* parse_date_value.
DateOf(v) ==
    CASE v.kind = "number" -> AsU64(v.num)
      [] v.kind = "date" -> IF v.relative THEN ParseRelative(v.str) ELSE ParseAbsolute(v.str)
      [] v.kind = "string" -> IF ParseRelative(v.str) # NoDate THEN ParseRelative(v.str)
                              ELSE ParseAbsolute(v.str)
      [] OTHER -> NoDate

ExecuteComparison(f, op, v, live) ==
    CASE f \in StringFields /\ op \in {"eq_ci", "starts", "starts_ci"} -> ByPattern(f, op, v)
      [] f \in StringFields /\ op \notin {"eq_ci", "starts", "starts_ci"} ->
            ByString(op, v, {"eq", "neq", "in"}, index.exact[f])
      [] f = "label" -> ByString(op, v, {"eq", "neq", "in"}, index.label)
      [] f = "trace" -> ByString(op, v, {"eq", "neq"}, index.trace)
      [] f = "id" -> ById(op, v)
      [] f = "parent" -> ByNumber(op, v, index.parent)
      [] f = "root" -> ByNumber(op, v, index.root)
      [] f = "created" -> IF DateOf(v) = NoDate THEN QueryError
                          ELSE ByRange(index.created, op, DateOf(v))
      [] f = "depth" -> IF v.kind # "number" THEN QueryError
                        ELSE ByRange(index.depth, op, AsU32(v.num))
      [] f = "is_live" -> ByLive(op, v, live)

RECURSIVE Execute(_, _)
Execute(ast, live) ==
    IF ast.type = "cmp" THEN ExecuteComparison(ast.field, ast.op, ast.value, live)
    ELSE IF ast.type = "not"
    THEN LET inner == Execute(ast.inner, live) IN
         IF inner.ok THEN Others(inner.ids) ELSE QueryError
    ELSE LET left == Execute(ast.left, live) right == Execute(ast.right, live) IN
         IF ~left.ok \/ ~right.ok THEN QueryError
         ELSE Found(IF ast.type = "and" THEN left.ids \intersect right.ids
                                        ELSE left.ids \union right.ids)

-----------------------------------------------------------------------------
(* Relatives.                                                              *)

\* child_context_ids.
ChildIds(c) == SetToSortSeq(Exact(index.parent, c), LAMBDA a, b : a > b)

\* The loop of descendant_context_ids: breadth first, and the limit is looked
\* at behind each context.
RECURSIVE Descend(_, _, _)
Descend(todo, visited, limit) ==
    IF todo = <<>> THEN visited
    ELSE LET c == Head(todo)
             more == SelectSeq(ChildIds(c), LAMBDA d : d \notin visited \union {c})
         IN  IF c \in visited THEN Descend(Tail(todo), visited, limit)
             ELSE IF Cardinality(visited) + 1 >= limit THEN visited \union {c}
             ELSE Descend(Tail(todo) \o more, visited \union {c}, limit)
DescendantIds(c, limit) == Descend(ChildIds(c), {}, limit)

-----------------------------------------------------------------------------
(* The store.                                                              *)

SearchInit == index = NoIndex /\ added = [c \in {} |-> c] /\ answer = <<>>

\* append_turn, the first one of a context, with metadata: the turn's time and
\* depth go into the index (depth is above 0 for a fork).
Add(c, m, depth) ==
    /\ answer = <<>> /\ c \notin DOMAIN added
    /\ index' = AddToIndex(index, c, m, Now - 2 * c, depth)
    /\ added' = (c :> [meta |-> m, created |-> Now - 2 * c, last |-> Now - 2 * c, depth |-> depth,
                      grown |-> FALSE, retimed |-> FALSE]) @@ added
    /\ UNCHANGED answer

\* append_turn, a later one: the head moves, its time is that of the turn, and
\* the index is left as it is, because the metadata is cached already.
Grow(c) ==
    /\ answer = <<>> /\ c \in DOMAIN added
    /\ MapThenSumSet(LAMBDA d : added[d].last - added[d].created, DOMAIN added) < MaxGrown
    /\ added' = [added EXCEPT ![c].depth = @ + 1, ![c].last = @ + 1, ![c].grown = TRUE]
    /\ UNCHANGED <<index, answer>>

\* Store::open, build_from_cache: everything is indexed again, with the depth
\* and the time of the heads.
RECURSIVE Rebuilt(_, _)
Rebuilt(ix, todo) ==
    IF todo = {} THEN ix
    ELSE LET c == CHOOSE x \in todo : TRUE
         IN  Rebuilt(AddToIndex(ix, c, added[c].meta, added[c].last, added[c].depth), todo \ {c})
Reopen ==
    /\ answer = <<>> /\ \E c \in DOMAIN added : added[c].grown
    /\ index' = Rebuilt(NoIndex, DOMAIN added)
    /\ added' = [c \in DOMAIN added |->
                    [added[c] EXCEPT !.grown = FALSE, !.retimed = added[c].last # added[c].created]]
    /\ UNCHANGED answer

\* search_contexts: the newest first, and only so many of them.
Newest(set) == SetToSortSeq(set, LAMBDA a, b : a > b)
Search(q, live) ==
    LET result == Execute(q, live) IN
    /\ answer = <<>>
    /\ answer' = [query |-> q, live |-> live, ok |-> result.ok,
                  found |-> IF result.ok THEN result.ids ELSE {},
                  ids |-> IF result.ok THEN SubSeq(Newest(result.ids), 1,
                                                   Min({Limit, Cardinality(result.ids)})) ELSE <<>>,
                  total |-> IF result.ok THEN Cardinality(result.ids) ELSE 0]
    /\ UNCHANGED <<index, added>>

SearchNext ==
    \/ \E c \in SearchContexts, m \in SearchMetas, d \in Depths : Add(c, m, d)
    \/ \E c \in SearchContexts : Grow(c)
    \/ Reopen
    \/ \E q \in Queries, live \in LiveSets : Search(q, live)

-----------------------------------------------------------------------------
(* Properties.                                                             *)

\* The time a value of a query stands for, in halves of a ms.
TimeOf(v) ==
    CASE v.kind = "number" -> v.num
      [] v.kind # "number" /\ v.str \in DOMAIN RelativeDates -> 2 * (Now - RelativeDates[v.str])
      [] OTHER -> 2 * AbsoluteDates[v.str]

\* What the tables in cql/mod.rs say of one context: created is its creation (its
\* first append), depth that of its head.
Holds(c, f, op, v, live) ==
    LET num == CASE f = "id" -> c [] f = "created" -> added[c].created
                 [] f = "depth" -> added[c].depth [] OTHER -> 0
        than == IF f = "created" THEN TimeOf(v) ELSE v.num
        one(x) == CASE f \in {"id", "created", "depth"} -> x.kind = "number" /\ 2 * num = x.num
                    [] f \in {"parent", "root"} -> x.kind = "number" /\
                            \E p \in added[c].meta[f] : 2 * p = x.num
                    [] f = "is_live" -> (x.str = TrueWord) = (c \in live)
                    [] OTHER -> IsString(x) /\ AsString(x) \in added[c].meta[f]
    IN  CASE op = "eq" -> IF f = "created" THEN 2 * num = than ELSE one(v)
          [] op = "neq" -> ~(IF f = "created" THEN 2 * num = than ELSE one(v))
          [] op = "in" -> \E x \in v.items : one(x)
          [] op = "eq_ci" -> \E x \in added[c].meta[f] : Lower(x) = Lower(AsString(v))
          [] op = "starts" -> \E x \in added[c].meta[f] : IsPrefix(AsString(v), x)
          [] op = "starts_ci" ->
                \E x \in added[c].meta[f] : IsPrefix(Lower(AsString(v)), Lower(x))
          [] op = "gt" -> 2 * num > than [] op = "gte" -> 2 * num >= than
          [] op = "lt" -> 2 * num < than [] op = "lte" -> 2 * num <= than

RECURSIVE Matches(_, _, _)
Matches(c, ast, live) ==
    CASE ast.type = "cmp" -> Holds(c, ast.field, ast.op, ast.value, live)
      [] ast.type = "not" -> ~Matches(c, ast.inner, live)
      [] ast.type = "and" -> Matches(c, ast.left, live) /\ Matches(c, ast.right, live)
      [] ast.type = "or" -> Matches(c, ast.left, live) \/ Matches(c, ast.right, live)

\* Where the code leaves the tables, whatever the contexts: a negative number or
\* a fraction is cut to a u64, a depth to a u32, a time before 1970 wraps, and
\* host is compared with its case.
PlainNumber(f, v) ==
    v.kind = "number" => v.num >= 0 /\ v.num % 2 = 0 /\ v.num \div 2 <= IF f = "depth" THEN MaxU32 ELSE MaxU64
RECURSIVE AsDocumented(_)
AsDocumented(ast) ==
    CASE ast.type = "cmp" ->
            /\ ast.op \in {"eq_ci", "starts_ci"} => ast.field \in CiFields
            /\ IF ast.value.kind = "list" THEN \A v \in ast.value.items : PlainNumber(ast.field, v)
               ELSE PlainNumber(ast.field, ast.value)
            /\ ast.field = "created" => TimeOf(ast.value) >= 0
      [] ast.type = "not" -> AsDocumented(ast.inner)
      [] OTHER -> AsDocumented(ast.left) /\ AsDocumented(ast.right)

\* Where it leaves them for some contexts: depth is not that of the head once a
\* context has grown, until the server is restarted, and from then on created is
\* the time of the last append before.
RECURSIVE Compares(_, _)
Compares(ast, f) ==
    CASE ast.type = "cmp" -> ast.field = f
      [] ast.type = "not" -> Compares(ast.inner, f)
      [] OTHER -> Compares(ast.left, f) \/ Compares(ast.right, f)
OutOfDate(ast) ==
    {c \in DOMAIN added : \/ added[c].grown /\ Compares(ast, "depth")
                          \/ added[c].retimed /\ Compares(ast, "created")}

\* The contexts that lead to c by their parents, in so many steps.
RECURSIVE Below(_, _)
Below(c, steps) ==
    LET children == {d \in DOMAIN added : c \in added[d].meta.parent}
    IN  IF steps = 0 THEN {} ELSE children \union UNION {Below(d, steps - 1) : d \in children}

\* descendant_context_ids: the contexts whose chain of parents leads to c, all
\* of them without a limit and as many as it says with one, even where the
\* parents that clients claim go round in a circle.  (A search leaves the
\* indexes alone.)
DescendantsExact ==
    answer = <<>> => \A c \in SearchContexts, limit \in 1 .. Cardinality(SearchContexts) + 1 :
        LET found == DescendantIds(c, limit)
            all == Below(c, Cardinality(SearchContexts))
        IN  found \subseteq all /\ Cardinality(found) = Min({limit, Cardinality(all)})

\* search_contexts, execute and the indexes: in whatever order contexts were
\* added, grew and were indexed again, a query finds exactly the contexts it
\* describes, the newest ones first and their number in full, when every live
\* context is indexed and the query is none of the exceptions above; a context
\* the index is out of date about may be missing or there.  The same of
\* descendants.
SearchExact ==
    DescendantsExact /\ ((answer # <<>> /\ answer.ok /\ AsDocumented(answer.query) /\ answer.live \subseteq index.all) =>
        LET matching == {c \in DOMAIN added : Matches(c, answer.query, answer.live)} IN
        /\ SymDiff(answer.found, matching) \subseteq OutOfDate(answer.query)
        /\ answer.total = Cardinality(answer.found)
        /\ ToSet(answer.ids) \subseteq answer.found
        /\ Len(answer.ids) = Min({Limit, Cardinality(answer.found)})
        /\ \A c \in answer.found \ ToSet(answer.ids), d \in ToSet(answer.ids) : c < d)
============================================================================

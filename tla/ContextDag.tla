----------------------------- MODULE ContextDag -----------------------------
(***************************************************************************)
(* What the turn store promises: a DAG of turns that only grows, and one   *)
(* head per context that only moves to later turns of the DAG.  Crashes    *)
(* and restarts are invisible at this level.                               *)
(***************************************************************************)
EXTENDS Integers

VARIABLES dag,    \* turn id -> turn record
          head    \* context id -> head

dagVars == <<dag, head>>

Extend(map, key, val) ==
    [k \in DOMAIN map \cup {key} |-> IF k = key THEN val ELSE map[k]]

DagInit == DOMAIN dag = {} /\ DOMAIN head = {}

\* A turn joins the DAG below an existing turn, under an id above all others.
AddTurn ==
    /\ \E t \in DOMAIN dag' :
         /\ \A u \in DOMAIN dag : u < t
         /\ dag' = Extend(dag, t, dag'[t])
         /\ dag'[t].parent # 0 => dag'[t].parent \in DOMAIN dag
    /\ UNCHANGED head

\* A context appears, at the root or at an existing turn.
NewContext ==
    /\ \E c \in DOMAIN head' :
         /\ c \notin DOMAIN head
         /\ head' = Extend(head, c, head'[c])
         /\ head'[c].turn # 0 => head'[c].turn \in DOMAIN dag
    /\ UNCHANGED dag

\* A context's head moves forward.
MoveHead ==
    /\ \E c \in DOMAIN head :
         /\ c \in DOMAIN head'
         /\ head' = Extend(head, c, head'[c])
         /\ head'[c].turn \in DOMAIN dag
         /\ head'[c].turn > head[c].turn
    /\ UNCHANGED dag

DagNext == AddTurn \/ NewContext \/ MoveHead

DagSpec == DagInit /\ [][DagNext]_dagVars
=============================================================================

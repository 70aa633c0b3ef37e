----------------------------- MODULE MCSessions -----------------------------
(* The server's front end on small instances. *)
EXTENDS Sessions

CONSTANTS
    MaxContexts, MaxTurns,
    MaxRequests         \* bound: frames and HTTP requests together

\* The events a run can publish.
SessionEvents ==
    LET Ids == 0 .. MaxSessions
        Xs  == 1 .. MaxContexts
    IN {Connected(i) : i \in Ids}
       \cup {Disconnected(i, xs) : i \in Ids, xs \in SUBSET Xs}
       \cup {Created(i, x) : i \in Ids, x \in Xs}
       \cup {Appended(i, x, t) : i \in Ids, x \in Xs, t \in 1 .. MaxTurns}
       \cup {Described(x) : x \in Xs} \cup {Linked(x) : x \in Xs}
       \cup {Failed}

\* At most MaxRequests requests, over either protocol; the fairness is about
\* the steps that follow a request, which the bound leaves alone.
BoundedNext == SessionsNext /\ frames' + httpRequests' <= MaxRequests
MCSpec      == SessionsInit /\ [][BoundedNext]_vars /\ SessionsFairness /\ StreamFairness
=============================================================================

----------------------------- MODULE MCClients -----------------------------
(***************************************************************************)
(* The clients of the binary protocol: the reconnecting client with two    *)
(* callers, one close() and a few faults, and one exchange on the wire.    *)
(* They share no state, so a behaviour is one of one of them.              *)
(***************************************************************************)
EXTENDS Reconnect, Wire, TLC

CONSTANTS r1, r2
VARIABLE part

TwoCalls == {r1, r2}
Contexts == r1 :> "background" @@ r2 :> "deadline"

\* Calls with and without each optional field, one that is too large for a
\* frame, one that is compressed, tags on both sides of what a u16 holds.
Ones(n) == [i \in 1 .. n |-> 1]
AppendCall(payload, type, key, root) ==
    [type |-> MsgAppendTurn, context_id |-> 2, parent |-> 5, type_id |-> type, type_version |-> 1,
     encoding |-> 0, compression |-> 0, payload |-> payload, key |-> key, fs_root |-> root]
SmallCalls ==
    {AppendCall(p, t, k, r) : p \in {<<>>, <<3>>, <<1, 2>>}, t \in {<<>>, <<2, 1>>},
                              k \in {<<>>, <<3, 3>>}, r \in {<<>>, <<0, 1>>}}
    \union {AppendCall(Ones(60), <<>>, <<>>, <<>>),
            [AppendCall(<<1>>, <<>>, <<>>, <<>>) EXCEPT !.compression = 1, !.encoding = 2]}
    \union {[type |-> MsgHello, tag |-> Ones(n)] : n \in {0, 1, 15, 16, 19}}
    \union {[type |-> t, id |-> i] : t \in {MsgCtxCreate, MsgCtxFork, MsgGetHead}, i \in {0, 255}}
    \union {[type |-> MsgGetLast, context_id |-> 1, limit |-> l, include |-> b] : l \in {0, 2}, b \in BOOLEAN}
    \union {[type |-> MsgAttachFs, turn_id |-> 9, root |-> <<1, 0>>]}
    \union {[type |-> MsgPutBlob, data |-> d] : d \in {<<>>, <<3, 1>>}}
SmallHeads == {[context_id |-> 3, turn_id |-> 0, depth |-> 0], [context_id |-> 255, turn_id |-> 17, depth |-> 63]}
SmallAcks == {[context_id |-> 1, turn_id |-> 4, depth |-> d, hash |-> <<2, 3>>] : d \in {1, 2}}
StoredTurn(i, payload, type) ==
    [turn_id |-> i, parent |-> i - 1, depth |-> i, type_id |-> type, type_version |-> 1, encoding |-> 1,
     compression |-> 0, uncompressed_len |-> Len(payload), hash |-> Blake3(payload), payload |-> payload]
SmallRecords == {<<>>, <<StoredTurn(1, <<2>>, <<1>>)>>,
                 <<StoredTurn(1, <<>>, <<>>), StoredTurn(2, <<3, 3>>, <<2, 2>>)>>}
SmallErrors == {[code |-> 4, detail |-> <<>>], [code |-> 22, detail |-> <<1, 2, 3>>]}

vars == <<reconnectVars, wireVars, part>>
Init == ReconnectInit /\ WireInit /\ part \in {"reconnect", "wire"}
Next ==
    /\ UNCHANGED part
    /\ \/ part = "reconnect" /\ ReconnectNext /\ UNCHANGED wireVars
       \/ part = "wire" /\ WireNext /\ UNCHANGED reconnectVars
Spec == Init /\ [][Next]_vars /\ (part = "reconnect" => ReconnectFairness)
=============================================================================

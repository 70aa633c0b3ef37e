-------------------------------- MODULE Wire --------------------------------
(***************************************************************************)
(* The messages of the binary protocol: what the Rust client writes and    *)
(* reads (clients/rust/src/{client,context,turn,fs,protocol}.rs) and what  *)
(* the server reads and writes (server/src/protocol/mod.rs, main.rs).  The *)
(* Rust client has no method for GET_BLOB, so it is left out.              *)
(* Modules Client and Reconnect have the connection's behaviour; here is   *)
(* one exchange on it.                                                     *)
(*                                                                         *)
(* A byte is a digit below Base and the integer types have two, four and   *)
(* five of them; a value that does not fit loses its high digits, as with  *)
(* the casts of the code.                                                  *)
(***************************************************************************)
EXTENDS Integers, SequencesExt, FiniteSets

CONSTANTS
    Base,           \* values of a byte
    MaxFrame,       \* MAX_FRAME_SIZE
    WireCalls,      \* calls of the client
    Heads, Acks, Records, WireErrors    \* what the server has to answer

VARIABLES
    asked,      \* the call under way
    frame,      \* the frame the client wrote
    heard,      \* what the server made of it
    reply,      \* the frame the server wrote, and what it meant
    result      \* what the call returned

wireVars == <<asked, frame, heard, reply, result>>

Absent == [missing |-> TRUE]
MsgHello == 1
MsgCtxCreate == 2
MsgCtxFork == 3
MsgGetHead == 4
MsgAppendTurn == 5
MsgGetLast == 6
MsgAttachFs == 10
MsgPutBlob == 11
MsgError == Base * Base - 1
MsgTypes == {MsgHello, MsgCtxCreate, MsgCtxFork, MsgGetHead, MsgAppendTurn, MsgGetLast, MsgAttachFs,
             MsgPutBlob}

-----------------------------------------------------------------------------
(* Fields.                                                                 *)

Width(type) == CASE type = "u8" -> 1 [] type \in {"u16", "bytes16", "hash"} -> 2
                 [] type \in {"u32", "bytes32"} -> 4 [] type = "u64" -> 5

Bytes == 0 .. Base - 1

\* n without its lowest digits; nothing is left of a number that fits them.
Shifted(n, digits) ==
    LET high[i \in 0 .. Width("u64")] == IF i = 0 THEN n ELSE high[i - 1] \div Base
    IN  high[digits]

\* write_u16, write_u32, write_u64 of LittleEndian, and back.
Digits(n, width) == [i \in 1 .. width |-> Shifted(n, i - 1) % Base]
Number(bytes) ==
    LET sum[i \in 0 .. Len(bytes)] ==
            IF i = 0 THEN 0 ELSE bytes[Len(bytes) + 1 - i] + Base * sum[i - 1]
    IN  sum[Len(bytes)]

\* blake3, which nothing here needs to be one-way.
Blake3(bytes) ==
    LET sum[i \in 0 .. Len(bytes)] == IF i = 0 THEN Len(bytes) ELSE sum[i - 1] + bytes[i]
    IN  Digits(sum[Len(bytes)], Width("hash"))

\* A field is a name and a type: a number, a hash, or bytes after their length.
F(name, type) == [name |-> name, type |-> type]
IsBytes(type) == type \in {"bytes16", "bytes32"}

WriteField(field, value) ==
    CASE field.type = "hash" -> value
      [] IsBytes(field.type) -> Digits(Len(value), Width(field.type)) \o value
      [] OTHER -> Digits(value, Width(field.type))
Encode(layout, values) ==
    LET out[n \in 0 .. Len(layout)] ==
            IF n = 0 THEN <<>> ELSE out[n - 1] \o WriteField(layout[n], values[layout[n].name])
    IN  out[Len(layout)]

\* A cursor over bytes: reading past the end fails the whole parse.
Cursor(bytes) == [ok |-> TRUE, rest |-> bytes, values |-> [name \in {} |-> 0]]
Failed == [ok |-> FALSE]
Bind(values, name, v) == [n \in DOMAIN values \union {name} |-> IF n = name THEN v ELSE values[n]]
ReadField(cursor, field) ==
    LET width  == Width(field.type)
        number == Number(SubSeq(cursor.rest, 1, width))
        size   == IF IsBytes(field.type) THEN width + number ELSE width
        value  == IF field.type = "hash" THEN SubSeq(cursor.rest, 1, width)
                  ELSE IF IsBytes(field.type) THEN SubSeq(cursor.rest, width + 1, size) ELSE number
    IN  IF ~cursor.ok THEN Failed
        ELSE IF Len(cursor.rest) < width THEN Failed
        ELSE IF Len(cursor.rest) < size THEN Failed
        ELSE [ok |-> TRUE, rest |-> SubSeq(cursor.rest, size + 1, Len(cursor.rest)),
              values |-> Bind(cursor.values, field.name, value)]
Parse(layout, bytes) ==
    LET at[n \in 0 .. Len(layout)] == IF n = 0 THEN Cursor(bytes) ELSE ReadField(at[n - 1], layout[n])
    IN  at[Len(layout)]

\* write_frame and read_frame, the same on both sides.
Header == <<F("len", "u32"), F("msg_type", "u16"), F("flags", "u16"), F("req_id", "u64")>>
FrameBytes(type, flags, payload) ==
    Encode(Header, [len |-> Len(payload), msg_type |-> type, flags |-> flags, req_id |-> 1]) \o payload
FrameOf(bytes) ==
    LET header == Parse(Header, bytes)
    IN  IF ~header.ok THEN Failed
        ELSE [ok |-> header.values.len <= MaxFrame /\ header.values.len <= Len(header.rest),
              header |-> header.values, payload |-> SubSeq(header.rest, 1, header.values.len)]

-----------------------------------------------------------------------------
(* Requests, as the client writes them.                                    *)

\* append_turn, and append_turn_with_fs with a root behind the key.
AppendLayout == <<F("context_id", "u64"), F("parent", "u64"), F("type_id", "bytes32"),
                  F("type_version", "u32"), F("encoding", "u32"), F("compression", "u32"),
                  F("uncompressed_len", "u32"), F("hash", "hash"), F("payload", "bytes32"),
                  F("key", "bytes32")>>
AppendFields(withRoot) == IF withRoot THEN Append(AppendLayout, F("fs_root", "hash")) ELSE AppendLayout
HasRoot(c) == c.type = MsgAppendTurn /\ c.fs_root # <<>>
AppendPayload(c) ==
    Encode(AppendFields(HasRoot(c)),
        [context_id |-> c.context_id, parent |-> c.parent, type_id |-> c.type_id,
         type_version |-> c.type_version, encoding |-> IF c.encoding = 0 THEN 1 ELSE c.encoding,
         compression |-> c.compression, uncompressed_len |-> Len(c.payload),
         hash |-> Blake3(c.payload), payload |-> c.payload, key |-> c.key, fs_root |-> c.fs_root])

HelloPayload(c) == Encode(<<F("version", "u16"), F("tag", "bytes16"), F("meta", "u32")>>,
                          [version |-> 1, tag |-> c.tag, meta |-> 0])
GetLastPayload(c) == Encode(<<F("context_id", "u64"), F("limit", "u32"), F("include", "u32")>>,
                            [context_id |-> c.context_id, limit |-> IF c.limit = 0 THEN 10 ELSE c.limit,
                             include |-> IF c.include THEN 1 ELSE 0])
PutBlobPayload(c) == Encode(<<F("hash", "hash"), F("data", "bytes32")>>,
                            [hash |-> Blake3(c.data), data |-> c.data])
AttachFsPayload(c) == Encode(<<F("turn_id", "u64"), F("root", "hash")>>, c)
IdPayload(c) == Encode(<<F("id", "u64")>>, c)

Request(c) ==
    CASE c.type = MsgHello -> HelloPayload(c)
      [] c.type \in {MsgCtxCreate, MsgCtxFork, MsgGetHead} -> IdPayload(c)
      [] c.type = MsgAppendTurn -> AppendPayload(c)
      [] c.type = MsgGetLast -> GetLastPayload(c)
      [] c.type = MsgAttachFs -> AttachFsPayload(c)
      [] c.type = MsgPutBlob -> PutBlobPayload(c)

-----------------------------------------------------------------------------
(* Requests, as the server reads them.                                     *)

ParseId(payload) == Parse(<<F("id", "u64")>>, payload)
ParseGetLast(payload) == Parse(<<F("context_id", "u64"), F("limit", "u32"), F("include", "u32")>>, payload)
ParseAttachFs(payload) ==
    IF Len(payload) < Width("u64") + Width("hash") THEN Failed
    ELSE Parse(<<F("turn_id", "u64"), F("root", "hash")>>, payload)
ParsePutBlob(payload) ==
    IF Len(payload) < Width("hash") + Width("u32") THEN Failed
    ELSE Parse(<<F("hash", "hash"), F("data", "bytes32")>>, payload)

\* Mutant of ParseAppendTurn: the idempotency key is not read before the root.
ParseAppendTurnNoKey(payload, flags) ==
    LET fields == SubSeq(AppendLayout, 1, Len(AppendLayout) - 1)
    IN  Parse(IF flags % 2 = 1 THEN Append(fields, F("fs_root", "hash")) ELSE fields, payload)
\* parse_append_turn: flag bit 0 says that a snapshot's root follows.
ParseAppendTurn(payload, flags) ==
    Parse(AppendFields(flags % 2 = 1), payload)

\* parse_hello: an empty payload is an old client's; the tag and the length of
\* the metadata after it must be there.
ParseHello(payload) ==
    LET parsed == Parse(<<F("version", "u16"), F("tag", "bytes16"), F("meta", "bytes32")>>, payload)
    IN  IF payload = <<>> THEN [ok |-> TRUE, values |-> [version |-> 0, tag |-> <<>>, meta |-> <<>>]]
        ELSE parsed

\* The match on msg_type; nothing is parsed of a message of an unknown type.
ParseRequest(type, flags, payload) ==
    CASE type = MsgHello -> ParseHello(payload)
      [] type \in {MsgCtxCreate, MsgCtxFork, MsgGetHead} -> ParseId(payload)
      [] type = MsgAppendTurn -> ParseAppendTurn(payload, flags)
      [] type = MsgGetLast -> ParseGetLast(payload)
      [] type = MsgAttachFs -> ParseAttachFs(payload)
      [] type = MsgPutBlob -> ParsePutBlob(payload)
      [] OTHER -> [ok |-> TRUE, values |-> Absent]

\* The checks of append_turn in store.rs and of PUT_BLOB; zstd halves a payload.
Raw(req) == IF req.compression = 1 THEN req.payload \o req.payload ELSE req.payload
Accepted(type, req) ==
    CASE type = MsgAppendTurn -> /\ req.compression \in {0, 1}
                                 /\ Len(Raw(req)) = req.uncompressed_len
                                 /\ Blake3(Raw(req)) = req.hash
      [] type = MsgPutBlob -> Blake3(req.data) = req.hash
      [] OTHER -> type \in MsgTypes

\* The errors that become the arm's value and are answered with an ERROR frame,
\* and the ones that a ? returns from handle_client: the thread ends and the
\* connection with it.
Refusable(type, req) == \/ type = MsgGetHead \/ type \notin MsgTypes
                        \/ type = MsgPutBlob /\ ~Accepted(type, req)
Breakable(type, req) == \/ type \in {MsgCtxCreate, MsgCtxFork, MsgAppendTurn, MsgAttachFs, MsgGetLast}
                        \/ type = MsgPutBlob /\ Accepted(type, req)

-----------------------------------------------------------------------------
(* Answers, as the server writes and the client reads them.                *)

HeadLayout == <<F("context_id", "u64"), F("turn_id", "u64"), F("depth", "u32")>>
AckLayout == Append(HeadLayout, F("hash", "hash"))
RecordLayout == <<F("turn_id", "u64"), F("parent", "u64"), F("depth", "u32"), F("type_id", "bytes32"),
                  F("type_version", "u32"), F("encoding", "u32"), F("compression", "u32"),
                  F("uncompressed_len", "u32"), F("hash", "hash")>>
PayloadField == F("payload", "bytes32")

\* GET_LAST in main.rs: a payload follows its record only if it was asked for.
EncodeRecord(record, include) ==
    Encode(IF include THEN Append(RecordLayout, PayloadField) ELSE RecordLayout, record)
EncodeRecords(records, include) ==
    LET out[n \in 0 .. Len(records)] ==
            IF n = 0 THEN Digits(Len(records), Width("u32"))
            ELSE out[n - 1] \o EncodeRecord(records[n], include)
    IN  out[Len(records)]

\* parse_turn_records.
ReadRecord(cursor) ==
    LET one == Parse(Append(RecordLayout, PayloadField), cursor.rest)
    IN  IF ~cursor.ok THEN Failed
        ELSE IF ~one.ok THEN Failed
        ELSE [ok |-> TRUE, rest |-> one.rest, values |-> Append(cursor.values, one.values)]
ReadRecords(bytes, count) ==
    LET at[n \in 0 .. count] ==
            IF n = 0 THEN [ok |-> TRUE, rest |-> bytes, values |-> <<>>] ELSE ReadRecord(at[n - 1])
    IN  at[count]
ParseRecords(bytes) ==
    LET count == Parse(<<F("count", "u32")>>, bytes)
    IN  IF ~count.ok THEN Failed ELSE ReadRecords(count.rest, count.values.count)

ReplyTo(type, req, head, ack, records) ==
    CASE type = MsgHello -> [payload |-> Encode(<<F("session", "u64"), F("version", "u16")>>,
                                                [session |-> head.context_id, version |-> 1]),
                             means |-> [session |-> head.context_id]]
      [] type \in {MsgCtxCreate, MsgCtxFork, MsgGetHead} -> [payload |-> Encode(HeadLayout, head), means |-> head]
      [] type = MsgAppendTurn -> [payload |-> Encode(AckLayout, ack), means |-> ack]
      [] type = MsgAttachFs -> [payload |-> Encode(<<F("turn_id", "u64"), F("root", "hash")>>, req),
                                means |-> [turn_id |-> req.turn_id, root |-> req.root]]
      [] type = MsgPutBlob -> [payload |-> Encode(<<F("hash", "hash"), F("new", "u8")>>,
                                                  [hash |-> req.hash, new |-> ack.depth % 2]),
                               means |-> [hash |-> req.hash, new |-> ack.depth % 2]]
      [] type = MsgGetLast -> [payload |-> EncodeRecords(records, req.include # 0), means |-> records]

ErrorLayout == <<F("code", "u32"), F("detail", "bytes32")>>
EncodeError(e) == Encode(ErrorLayout, e)

\* parse_server_error: a detail that is not all there is left out.
ParseServerError(payload) ==
    LET parsed == Parse(ErrorLayout, payload)
        code == Parse(<<F("code", "u32"), F("len", "u32")>>, payload)
    IN  IF ~code.ok THEN [code |-> 0, detail |-> <<>>]
        ELSE IF ~parsed.ok THEN [code |-> code.values.code, detail |-> <<>>] ELSE parsed.values

ParseAnswer(type, payload) ==
    CASE type = MsgHello -> Parse(<<F("session", "u64")>>, payload)
      [] type \in {MsgCtxCreate, MsgCtxFork, MsgGetHead} -> Parse(HeadLayout, payload)
      [] type = MsgAppendTurn -> Parse(AckLayout, payload)
      [] type = MsgAttachFs -> Parse(<<F("turn_id", "u64"), F("root", "hash")>>, payload)
      [] type = MsgPutBlob -> Parse(<<F("hash", "hash"), F("new", "u8")>>, payload)
      [] type = MsgGetLast -> ParseRecords(payload)

-----------------------------------------------------------------------------
(* An exchange.                                                            *)

\* What the variables of the code can hold: numbers fit their types, hashes have
\* their length, and a vector may be longer than the length written before it.
IsValue(type, v) ==
    CASE type = "hash" -> v \in Seq(Bytes) /\ Len(v) = Width("hash")
      [] IsBytes(type) -> v \in Seq(Bytes)
      [] OTHER -> v \in Nat /\ Shifted(v, Width(type)) = 0
Names(layout) == {layout[i].name : i \in 1 .. Len(layout)}
Typed(layout, values) == \A i \in 1 .. Len(layout) : IsValue(layout[i].type, values[layout[i].name])
IsRecordOf(layout, values) ==
    values = [name \in Names(layout) |-> values[name]] /\ Typed(layout, values)
CallOK(c) ==
    CASE c.type = MsgHello -> IsValue("bytes16", c.tag)
      [] c.type \in {MsgCtxCreate, MsgCtxFork, MsgGetHead} -> IsValue("u64", c.id)
      [] c.type = MsgAppendTurn ->
            /\ \A name \in {"context_id", "parent"} : IsValue("u64", c[name])
            /\ \A name \in {"type_version", "encoding", "compression"} : IsValue("u32", c[name])
            /\ \A name \in {"type_id", "payload", "key"} : IsValue("bytes32", c[name])
            /\ c.fs_root = <<>> \/ IsValue("hash", c.fs_root)
      [] c.type = MsgGetLast -> IsValue("u64", c.context_id) /\ IsValue("u32", c.limit) /\ c.include \in BOOLEAN
      [] c.type = MsgAttachFs -> IsValue("u64", c.turn_id) /\ IsValue("hash", c.root)
      [] c.type = MsgPutBlob -> IsValue("bytes32", c.data)

ASSUME WireAssumption ==
    /\ Base \in Nat /\ Base >= 4 /\ MaxFrame \in Nat
    /\ \A c \in WireCalls : c # Absent /\ c.type \in MsgTypes /\ CallOK(c)
    /\ \A h \in Heads : IsRecordOf(HeadLayout, h)
    /\ \A a \in Acks : IsRecordOf(AckLayout, a)
    /\ \A rs \in Records : /\ rs \in Seq({rs[i] : i \in 1 .. Len(rs)})
                            /\ \A i \in 1 .. Len(rs) : IsRecordOf(Append(RecordLayout, PayloadField), rs[i])
    /\ \A e \in WireErrors : IsRecordOf(ErrorLayout, e)

WireInit == asked = Absent /\ frame = Absent /\ heard = Absent /\ reply = Absent /\ result = Absent

\* A method of the client, up to write_frame.
ClientCalls(c) ==
    /\ asked = Absent
    /\ asked' = c
    /\ frame' = FrameBytes(c.type, IF HasRoot(c) THEN 1 ELSE 0, Request(c))
    /\ UNCHANGED <<heard, reply, result>>

\* handle_client: a frame it cannot read or parse ends the connection.
ServerHears ==
    LET got == FrameOf(frame)
        req == ParseRequest(got.header.msg_type, got.header.flags, got.payload)
    IN  /\ frame # Absent /\ heard = Absent
        /\ heard' = IF got.ok /\ req.ok THEN [type |-> got.header.msg_type, req |-> req.values]
                    ELSE [type |-> 0]
        /\ result' = IF heard'.type = 0 THEN [ok |-> FALSE, why |-> "connection"] ELSE result
        /\ UNCHANGED <<asked, frame, reply>>

ServerAnswers(head, ack, records) ==
    /\ heard # Absent /\ heard.type # 0 /\ reply = Absent /\ result = Absent
    /\ Accepted(heard.type, heard.req)
    /\ LET a == ReplyTo(heard.type, heard.req, head, ack, records)
       IN  reply' = [frame |-> FrameBytes(heard.type, 0, a.payload), means |-> a.means]
    /\ UNCHANGED <<asked, frame, heard, result>>

\* The store refuses: there is no such context, the hash is another.
ServerRefuses(error) ==
    /\ heard # Absent /\ heard.type # 0 /\ reply = Absent /\ result = Absent
    /\ Refusable(heard.type, heard.req)
    /\ reply' = [frame |-> FrameBytes(MsgError, 0, EncodeError(error)), means |-> error]
    /\ UNCHANGED <<asked, frame, heard, result>>

\* Another operation of the store fails: no answer is written, and the client
\* reads the end of the connection.
ServerBreaks ==
    /\ heard # Absent /\ heard.type # 0 /\ reply = Absent /\ result = Absent
    /\ Breakable(heard.type, heard.req)
    /\ result' = [ok |-> FALSE, why |-> "connection"]
    /\ UNCHANGED <<asked, frame, heard, reply>>

\* The rest of the method: send_request's error frame, then its own parser.
ClientHears ==
    LET got == FrameOf(reply.frame)
        parsed == ParseAnswer(asked.type, got.payload)
    IN  /\ reply # Absent /\ result = Absent
        /\ result' = CASE ~got.ok -> [ok |-> FALSE, why |-> "frame"]
                       [] got.ok /\ got.header.msg_type = MsgError ->
                              [ok |-> FALSE, why |-> "server", error |-> ParseServerError(got.payload)]
                       [] OTHER -> IF parsed.ok THEN [ok |-> TRUE, values |-> parsed.values]
                                   ELSE [ok |-> FALSE, why |-> "answer"]
        /\ UNCHANGED <<asked, frame, heard, reply>>

WireNext ==
    \/ \E c \in WireCalls : ClientCalls(c)
    \/ ServerHears
    \/ \E h \in Heads, a \in Acks, r \in Records : ServerAnswers(h, a, r)
    \/ \E e \in WireErrors : ServerRefuses(e)
    \/ ServerBreaks
    \/ ClientHears

WireSpec == WireInit /\ [][WireNext]_wireVars

-----------------------------------------------------------------------------
(* Properties.                                                             *)

\* What a call says, in the server's words.
Meant(c) ==
    CASE c.type = MsgHello -> [version |-> 1, tag |-> c.tag, meta |-> <<>>]
      [] c.type \in {MsgCtxCreate, MsgCtxFork, MsgGetHead} -> [id |-> c.id]
      [] c.type = MsgGetLast -> [context_id |-> c.context_id, limit |-> IF c.limit = 0 THEN 10 ELSE c.limit,
                                 include |-> IF c.include THEN 1 ELSE 0]
      [] c.type = MsgAttachFs -> [turn_id |-> c.turn_id, root |-> c.root]
      [] c.type = MsgPutBlob -> [hash |-> Blake3(c.data), data |-> c.data]
      [] OTHER -> [name \in {"context_id", "parent", "type_id", "type_version", "payload", "key"}
                       \union (IF HasRoot(c) THEN {"fs_root"} ELSE {}) |-> c[name]]
Sized(bytes) == Shifted(Len(bytes), Width("u32")) = 0
Fits(c) == Sized(Request(c)) /\ (c.type = MsgHello => Shifted(Len(c.tag), Width("u16")) = 0)

\* Turns without their payloads, which parse_turn_records cannot read.
MetadataOnly == asked.type = MsgGetLast /\ ~asked.include /\ reply.means # <<>>

\* The two sides agree on the bytes.  A request whose length fits a u32 and whose
\* tag fits a u16 is refused for its size only, and otherwise the server acts on
\* exactly what the caller said, for every message, optional field and empty
\* string; it takes no proper beginning of a request for a request, except that
\* nothing at all is the HELLO of an old client.  What a call returns is what the
\* server answered, and an answer above the limit is refused; an error comes back
\* with its code and detail from GET_HEAD and for a blob of another hash, while
\* every other failure is a connection that ends, never a result.  Left out are
\* turns that were asked for without payloads, which the client misreads.
FramesUnderstood ==
    /\ (heard # Absent /\ Fits(asked)) =>
           IF heard.type = 0 THEN Len(Request(asked)) > MaxFrame
           ELSE /\ heard.type = asked.type
                /\ \A name \in DOMAIN Meant(asked) : heard.req[name] = Meant(asked)[name]
                /\ DOMAIN Meant(asked) = DOMAIN heard.req \/ asked.type = MsgAppendTurn
                /\ asked.type = MsgAppendTurn => (HasRoot(asked) <=> "fs_root" \in DOMAIN heard.req)
    /\ (asked # Absent /\ heard = Absent /\ Fits(asked)) =>
           \A n \in 0 .. Len(Request(asked)) - 1 :
               ParseRequest(asked.type, IF HasRoot(asked) THEN 1 ELSE 0, SubSeq(Request(asked), 1, n)).ok
                   => n = 0 /\ asked.type = MsgHello
    /\ (result # Absent /\ reply # Absent /\ ~MetadataOnly /\ Sized(Request(asked)) /\ Sized(reply.frame)) =>
           \/ result.ok /\ result.values = reply.means
           \/ /\ ~result.ok /\ result.why = "server" /\ result.error = reply.means
              /\ asked.type \in {MsgGetHead, MsgPutBlob}
           \/ ~result.ok /\ result.why = "frame" /\ Len(reply.frame) - Len(FrameBytes(0, 0, <<>>)) > MaxFrame
    /\ (result # Absent /\ reply = Absent) => ~result.ok /\ result.why = "connection"
=============================================================================

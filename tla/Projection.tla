----------------------------- MODULE Projection -----------------------------
(***************************************************************************)
(* JSON in and JSON out: POST .../append turns a JSON object into tagged   *)
(* msgpack by the descriptor of its type (encode_http_payload of           *)
(* server/src/http/mod.rs), GET .../turns turns the payload back into JSON *)
(* (server/src/projection/mod.rs).                                         *)
(*                                                                         *)
(* A value is a record with one field named for its kind.  Strings are     *)
(* opaque: Numerals has those that parse as numbers, Base64 and Hex those  *)
(* that decode to bytes, Utf8 the bytes of others.  Numbers that are no    *)
(* integers are left out.                                                  *)
(***************************************************************************)
EXTENDS Integers, SequencesExt, FiniteSetsExt, Functions

CONSTANTS
    Types,          \* Registry.types: a descriptor for every type and version
    Enums,          \* Registry.enums
    EnumOrders,     \* orders its hash maps may be iterated in: of each enum's numbers
    Numerals, Base64, Hex, Utf8,
    Padded,         \* the numerals that to_string never writes: "09", "+9"
    MaxI64,         \* i64::MAX; u64::MAX is above every number here
    Posted,         \* JSON objects sent
    Options         \* RenderOptions asked for

VARIABLES
    enumOrder,  \* the order of this process
    stored,     \* the turn: declared type, version and payload
    shown       \* the last answer: the options, the type it was read as, the data

jsonVars == <<enumOrder, stored, shown>>

ASSUME ProjectionAssumption ==
    MaxI64 \in Nat /\ Padded \subseteq DOMAIN Numerals /\ \A o \in EnumOrders : DOMAIN o = DOMAIN Enums

Nothing == [nothing |-> TRUE]
Null == [null |-> TRUE]             \* JSON null and msgpack nil
Bool(b) == [bool |-> b]
Num(n) == [num |-> n]               \* a JSON number and a msgpack integer
Str(s) == [str |-> s]
Bin(bytes) == [bin |-> bytes]       \* msgpack only
Arr(items) == [arr |-> items]
Obj(fields) == [obj |-> fields]     \* JSON: a function from names
Map(pairs) == [map |-> pairs]       \* msgpack: a sequence of pairs
Is(kind, v) == kind \in DOMAIN v

ToNumeral(n) == CHOOSE s \in DOMAIN Numerals \ Padded : Numerals[s] = n
ToBase64(b) == CHOOSE s \in DOMAIN Base64 : Base64[s] = b
ToHex(b) == CHOOSE s \in DOMAIN Hex : Hex[s] = b

\* get_type_version and get_latest_type_version.
Known(type, version) == type \in DOMAIN Types /\ version \in DOMAIN Types[type]
LatestVersion(type) == Max(DOMAIN Types[type])
LatestType(type) == Types[type][LatestVersion(type)]

U64Types == {"u64", "i64", "int64"}
Unsigned == {"u64", "u32"}
Signed == {"int64", "int32"}
Ints == {"u32", "int32"}
Times == {"unix_ms"}
NoItems == [none |-> TRUE]

-----------------------------------------------------------------------------
(* Encoding.  Bad is a value that is refused.                              *)

Bad == [bad |-> TRUE]

\* The integer of a number or of a numeral.
IntegerOf(v) ==
    IF Is("num", v) THEN v ELSE IF Is("str", v) /\ v.str \in DOMAIN Numerals THEN Num(Numerals[v.str]) ELSE Bad
\* parse_json_u64_opt and parse_json_i64_opt.
JsonU64(v) == IF IntegerOf(v) # Bad /\ IntegerOf(v).num >= 0 THEN IntegerOf(v) ELSE Bad
JsonI64(v) == IF IntegerOf(v) # Bad /\ IntegerOf(v).num \in -MaxI64 - 1 .. MaxI64 THEN IntegerOf(v) ELSE Bad

\* parse_bytes_value: a string is base64, or else hex, or else taken as it is;
\* an array has bytes; an object says which of the two it is.
HasText(o, key) == key \in DOMAIN o /\ Is("str", o[key])
Decoded(code, s) == IF s \in DOMAIN code THEN Bin(code[s]) ELSE Bad
AsBytes(v) ==
    CASE Is("str", v) -> IF v.str \in DOMAIN Base64 THEN Bin(Base64[v.str])
                         ELSE IF v.str \in DOMAIN Hex THEN Bin(Hex[v.str]) ELSE Bin(Utf8[v.str])
      [] Is("arr", v) -> IF \A i \in DOMAIN v.arr : JsonU64(v.arr[i]) # Bad /\ JsonU64(v.arr[i]).num <= 255
                         THEN Bin([i \in DOMAIN v.arr |-> JsonU64(v.arr[i]).num]) ELSE Bad
      [] Is("obj", v) -> IF HasText(v.obj, "base64") THEN Decoded(Base64, v.obj["base64"].str)
                         ELSE IF HasText(v.obj, "hex") THEN Decoded(Hex, v.obj["hex"].str) ELSE Bad
      [] OTHER -> Bad

\* A key that is a number becomes a tag.
KeyValue(key) == IF key \in DOMAIN Numerals /\ Numerals[key] >= 0 THEN Num(Numerals[key]) ELSE Str(key)

\* json_to_msgpack_value.
RECURSIVE JsonToMsgpack(_)
JsonToMsgpack(v) ==
    IF Is("arr", v) THEN Arr([i \in DOMAIN v.arr |-> JsonToMsgpack(v.arr[i])])
    ELSE IF Is("obj", v)
    THEN LET keys == SetToSeq(DOMAIN v.obj)
         IN  Map([i \in DOMAIN keys |-> <<KeyValue(keys[i]), JsonToMsgpack(v.obj[keys[i]])>>])
    ELSE v

\* encode_value_for_type.
EncodeForType(v, type) ==
    CASE type = "string" -> IF Is("str", v) THEN v ELSE Bad
      [] type = "bool" -> IF Is("bool", v) THEN v ELSE Bad
      [] type \in Unsigned -> JsonU64(v)
      [] type \in Signed \union Times -> JsonI64(v)
      [] type = "bytes" -> AsBytes(v)
      [] OTHER -> JsonToMsgpack(v)

AllGood(items) == IF \E i \in DOMAIN items : items[i] = Bad THEN Bad ELSE Arr(items)

\* Mutant of Unknowns: fields that the descriptor does not name are dropped.
UnknownsDropped(o, desc) == <<>>
\* The fields that the descriptor does not name.
Unknowns(o, desc) ==
    LET names == SetToSeq(DOMAIN o \ {desc[t].name : t \in DOMAIN desc})
    IN  [i \in DOMAIN names |-> <<KeyValue(names[i]), JsonToMsgpack(o[names[i]])>>]

RECURSIVE EncodeObject(_, _)
RECURSIVE EncodeField(_, _)

\* encode_ref_value.
EncodeRef(v, type) ==
    IF ~Is("obj", v) \/ type \notin DOMAIN Types THEN Bad ELSE EncodeObject(v.obj, LatestType(type))

\* encode_field_value: the first number that the hash map gives with the label,
\* if it is one.
EncodeField(v, field) ==
    LET labelled == SelectSeq(enumOrder[field.enum], LAMBDA n : Is("str", v) /\ Enums[field.enum][n] = v.str)
    IN  CASE v = Null -> Null
          [] v # Null /\ field.enum # "" /\ JsonU64(v) # Bad -> JsonU64(v)
          [] v # Null /\ field.enum # "" /\ JsonU64(v) = Bad /\ Is("str", v) ->
                IF labelled = <<>> THEN Bad ELSE JsonU64(Str(labelled[1]))
          [] OTHER ->
                CASE field.type = "array" ->
                        IF ~Is("arr", v) THEN Bad
                        ELSE AllGood([i \in DOMAIN v.arr |->
                                IF Is("simple", field.items) THEN EncodeForType(v.arr[i], field.items.simple)
                                ELSE IF Is("ref", field.items) THEN EncodeRef(v.arr[i], field.items.ref)
                                ELSE JsonToMsgpack(v.arr[i])])
                  [] field.type = "ref" -> IF field.ref # "" THEN EncodeRef(v, field.ref) ELSE JsonToMsgpack(v)
                  [] OTHER -> EncodeForType(v, field.type)

\* encode_object_with_descriptor: the fields by ascending tag, then the rest.
EncodeObject(o, desc) ==
    LET tags == SetToSortSeq({t \in DOMAIN desc : desc[t].name \in DOMAIN o}, LAMBDA a, b : a < b)
        known == [i \in DOMAIN tags |-> <<Num(tags[i]), EncodeField(o[desc[tags[i]].name], desc[tags[i]])>>]
    IN  IF \/ \E t \in DOMAIN desc : desc[t].name \notin DOMAIN o /\ ~desc[t].optional
           \/ \E i \in DOMAIN known : known[i][2] = Bad
        THEN Bad ELSE Map(known \o Unknowns(o, desc))

\* encode_http_payload.
EncodeHttpPayload(json, type, version) ==
    IF Known(type, version) /\ Is("obj", json) THEN EncodeObject(json.obj, Types[type][version])
    ELSE JsonToMsgpack(json)

-----------------------------------------------------------------------------
(* Projection.                                                             *)

\* key_to_tag; -1 is no tag.
KeyToTag(key) ==
    IF Is("num", key) /\ key.num >= 0 THEN key.num
    ELSE IF Is("str", key) /\ key.str \in DOMAIN Numerals THEN Numerals[key.str] ELSE -1

\* normalize_tags of a map: of two pairs with one tag the later counts.
NormalizeTags(pairs) ==
    LET tags == {KeyToTag(pairs[i][1]) : i \in DOMAIN pairs} \ {-1, -2}
    IN  [t \in tags |-> pairs[Max({i \in DOMAIN pairs : KeyToTag(pairs[i][1]) = t})][2]]

RenderU64Raw(n, opt) == IF opt.u64 = "string" THEN Str(ToNumeral(n)) ELSE Num(n)
RenderU64(v, opt) == IF Is("num", v) /\ v.num >= 0 THEN RenderU64Raw(v.num, opt) ELSE Null
\* value_to_i64: nothing above i64::MAX.
IsI64(v) == Is("num", v) /\ v.num <= MaxI64
RenderInt(v) == IF IsI64(v) THEN v ELSE Null
RenderBytes(v, opt) ==
    CASE ~Is("bin", v) -> Null
      [] Is("bin", v) /\ opt.bytes = "len_only" -> Num(Len(v.bin))
      [] Is("bin", v) /\ opt.bytes = "hex" -> Str(ToHex(v.bin))
      [] OTHER -> Str(ToBase64(v.bin))
\* An ISO date is another text for the number.
RenderTime(v, opt) == IF ~IsI64(v) THEN Null ELSE IF opt.time = "unix_ms" THEN v ELSE [iso |-> v.num]

\* render_value: a key that is neither a string nor a number is empty.
KeyText(key) == IF Is("str", key) THEN key.str ELSE IF key.num >= 0 THEN ToNumeral(key.num) ELSE ""
RECURSIVE RenderValue(_, _)
RenderValue(v, opt) ==
    CASE Is("num", v) -> IF v.num >= 0 THEN RenderU64Raw(v.num, opt) ELSE v
      [] Is("bin", v) -> RenderBytes(v, opt)
      [] Is("arr", v) -> Arr([i \in DOMAIN v.arr |-> RenderValue(v.arr[i], opt)])
      [] Is("map", v) ->
            LET At(key) == Max({i \in DOMAIN v.map : KeyText(v.map[i][1]) = key})
            IN  Obj([key \in {KeyText(v.map[i][1]) : i \in DOMAIN v.map} |-> RenderValue(v.map[At(key)][2], opt)])
      [] OTHER -> v

\* The tags the descriptor does not name, under their numerals.
UnknownTags(tags, desc, opt) ==
    LET rest == DOMAIN tags \ DOMAIN desc
    IN  [s \in {ToNumeral(t) : t \in rest} |-> RenderValue(tags[Numerals[s]], opt)]

RECURSIVE RenderField(_, _, _)

\* The tags it does, under its names.
FieldsOf(tags, desc, opt) ==
    LET there == DOMAIN tags \intersect DOMAIN desc
        TagOf(name) == CHOOSE t \in there : desc[t].name = name
    IN  [name \in {desc[t].name : t \in there} |-> RenderField(tags[TagOf(name)], desc[TagOf(name)], opt)]

\* render_type_ref: the latest version of the type, whichever wrote the value.
RenderRef(v, type, opt) ==
    IF type \notin DOMAIN Types \/ ~Is("map", v) THEN RenderValue(v, opt)
    ELSE LET tags == NormalizeTags(v.map)
             rest == UnknownTags(tags, LatestType(type), opt)
             data == FieldsOf(tags, LatestType(type), opt)
         IN  Obj(IF opt.unknown /\ rest # <<>>
                 THEN [n \in DOMAIN data \union {"_unknown"} |-> IF n = "_unknown" THEN Obj(rest) ELSE data[n]]
                 ELSE data)

\* render_array.
RenderArray(v, field, opt) ==
    IF ~Is("arr", v) THEN Null
    ELSE Arr([i \in DOMAIN v.arr |->
            IF Is("simple", field.items)
            THEN RenderField(v.arr[i], [field EXCEPT !.type = field.items.simple, !.enum = "", !.ref = "",
                                                     !.items = NoItems], opt)
            ELSE IF Is("ref", field.items) THEN RenderRef(v.arr[i], field.items.ref, opt)
            ELSE RenderValue(v.arr[i], opt)])

RenderEnum(n, label, opt) ==
    CASE opt.enum = "label" -> label
      [] opt.enum = "number" -> n
      [] opt.enum = "both" -> Obj([f \in {"label", "value"} |-> IF f = "label" THEN label ELSE n])

\* The last part of render_field_value.
RenderPlain(v, field, opt) ==
    CASE field.type \in U64Types -> RenderU64(v, opt)
      [] field.type \in Ints -> RenderInt(v)
      [] field.type = "string" -> IF Is("str", v) THEN v ELSE Null
      [] field.type = "bool" -> IF Is("bool", v) THEN v ELSE Null
      [] field.type = "bytes" -> RenderBytes(v, opt)
      [] field.type = "array" -> RenderArray(v, field, opt)
      [] field.type \in Times -> RenderTime(v, opt)
      [] OTHER -> RenderValue(v, opt)

\* render_field_value.
RenderField(v, field, opt) ==
    LET labelled == field.enum \in DOMAIN Enums /\ Is("num", v) /\ v.num >= 0
                    /\ ToNumeral(v.num) \in DOMAIN Enums[field.enum]
    IN  IF labelled THEN RenderEnum(v, Str(Enums[field.enum][ToNumeral(v.num)]), opt)
        ELSE IF field.ref # "" /\ field.type \in {"ref", "map"} THEN RenderRef(v, field.ref, opt)
        ELSE RenderPlain(v, field, opt)

\* project_msgpack; a payload that is no map is refused.
Project(payload, desc, opt) ==
    IF ~Is("map", payload) THEN Bad
    ELSE LET tags == NormalizeTags(payload.map)
         IN  [data |-> FieldsOf(tags, desc, opt),
              unknown |-> IF opt.unknown THEN UnknownTags(tags, desc, opt) ELSE <<>>]

-----------------------------------------------------------------------------
(* The two requests.                                                       *)

JsonInit == enumOrder \in EnumOrders /\ stored = Nothing /\ shown = Nothing

Post(json, type, version) ==
    LET payload == EncodeHttpPayload(json, type, version) IN
    /\ stored = Nothing
    /\ payload # Bad
    /\ stored' = [type |-> type, version |-> version, payload |-> payload, json |-> json]
    /\ UNCHANGED <<enumOrder, shown>>

\* GET .../turns, view=typed: type_hint_mode picks the descriptor.
ReadTurn(mode, opt, asType, asVersion) ==
    LET type == IF mode = "explicit" THEN asType ELSE stored.type
        version == CASE mode = "explicit" -> asVersion
                     [] mode = "latest" -> LatestVersion(stored.type)
                     [] OTHER -> stored.version
        result == Project(stored.payload, Types[type][version], opt)
    IN  /\ stored # Nothing /\ shown = Nothing
        /\ mode = "latest" => stored.type \in DOMAIN Types
        /\ Known(type, version)
        /\ result # Bad
        /\ shown' = [opt |-> opt, type |-> type, version |-> version, result |-> result]
        /\ UNCHANGED <<enumOrder, stored>>

JsonNext ==
    \/ \E json \in Posted, type \in DOMAIN Types, version \in 1 .. 2 : Post(json, type, version)
    \/ \E mode \in {"inherit", "latest"}, opt \in Options : ReadTurn(mode, opt, "", 0)
    \/ \E opt \in Options, type \in DOMAIN Types, version \in 1 .. 2 :
          ReadTurn("explicit", opt, type, version)

-----------------------------------------------------------------------------
(* Properties.                                                             *)

Both(data, unknown) == [n \in DOMAIN data \union DOMAIN unknown |-> IF n \in DOMAIN data THEN data[n] ELSE unknown[n]]
Lossless == [u64 |-> "number", bytes |-> "base64", enum |-> "label", time |-> "unix_ms", unknown |-> TRUE]

\* What the code does not bring back:
\* - a key that is no number and no field, one that is the number of a field's
\*   tag, and one that is not written as to_string would ("09" comes back as "9");
\* - a negative int64 or i64, an i64 that is a string, an unsigned number above
\*   i64::MAX in a field of 32 bits, and a number its enum has no label for in a
\*   field of another type: each comes back as null;
\* - a number of an enum whose label is itself a numeral or that of two numbers;
\* - the fields of a map with a ref, and in a ref the fields no descriptor names,
\*   which come back under "_unknown";
\* - two fields of one name.
RECURSIVE PlainKeys(_)
PlainKeys(v) ==
    IF Is("arr", v) THEN \A i \in DOMAIN v.arr : PlainKeys(v.arr[i])
    ELSE Is("obj", v) => DOMAIN v.obj \intersect Padded = {} /\ \A key \in DOMAIN v.obj : PlainKeys(v.obj[key])

InRange(v, type) ==
    LET n == IntegerOf(v) IN
    /\ type = "i64" => Is("num", v)
    /\ n # Bad => /\ type \in U64Types => n.num >= 0
                  /\ type \in Ints \union Times => n.num <= MaxI64

TellsNumber(v, enum, type) ==
    /\ \A n \in DOMAIN Enums[enum] :
           (v = Str(Enums[enum][n]) \/ IntegerOf(v) = IntegerOf(Str(n))) =>
               /\ Enums[enum][n] \notin DOMAIN Numerals
               /\ \A m \in DOMAIN Enums[enum] : Enums[enum][m] = Enums[enum][n] => m = n
    /\ (JsonU64(v) # Bad /\ type \in {"string", "bool", "bytes", "array"}) =>
           ToNumeral(JsonU64(v).num) \in DOMAIN Enums[enum]

NamesOf(desc) == {desc[t].name : t \in DOMAIN desc}

RECURSIVE Faithful(_, _)
FaithfulRef(v, type) ==
    Is("obj", v) => /\ type \in DOMAIN Types /\ DOMAIN v.obj \subseteq NamesOf(LatestType(type))
                    /\ Faithful(v.obj, LatestType(type))
FaithfulValue(v, field) ==
    /\ field.enum # "" => TellsNumber(v, field.enum, field.type)
    /\ field.type \notin {"bytes", "array"} => InRange(v, field.type)
    /\ Is("obj", v) => \/ field.type = "bytes"
                       \/ field.type = "ref" /\ field.ref # "" /\ FaithfulRef(v, field.ref)
    /\ (Is("arr", v) /\ field.type # "bytes") => \A i \in DOMAIN v.arr :
           /\ Is("simple", field.items) => InRange(v.arr[i], field.items.simple)
           /\ Is("ref", field.items) => FaithfulRef(v.arr[i], field.items.ref)
Faithful(o, desc) ==
    /\ \A t, u \in DOMAIN desc : desc[t].name = desc[u].name => t = u
    /\ \A key \in DOMAIN o \ NamesOf(desc) :
           key \in DOMAIN Numerals /\ Numerals[key] >= 0 /\ Numerals[key] \notin DOMAIN desc
    /\ \A t \in DOMAIN desc : desc[t].name \in DOMAIN o =>
           o[desc[t].name] = Null \/ FaithfulValue(o[desc[t].name], desc[t])

\* encode_http_payload and project_msgpack undo each other: what GET shows of a
\* posted object (numbers, labels, base64, unknown fields included) names the
\* fields that were posted and, posted again, is the same payload, so that a
\* client may read, change and write.  The exceptions are those of Faithful.
RepostStable ==
    (shown # Nothing /\ shown.opt = Lossless /\ shown.type = stored.type /\ shown.version = stored.version
        /\ Is("obj", stored.json) /\ PlainKeys(stored.json)
        /\ Faithful(stored.json.obj, Types[stored.type][stored.version])) =>
            LET again == Both(shown.result.data, shown.result.unknown)
            IN  /\ DOMAIN again = DOMAIN stored.json.obj
                /\ LET first == stored.payload.map
                       second == EncodeHttpPayload(Obj(again), stored.type, stored.version)
                   IN  second # Bad /\ ToSet(second.map) = ToSet(first)
=============================================================================

----------------------------- MODULE MCQueries -----------------------------
(***************************************************************************)
(* Reading: the metadata cache, the query language, the search, the pages  *)
(* of a context and the JSON of a turn.  They share no state, so a         *)
(* behaviour is one of one of them.                                        *)
(***************************************************************************)
EXTENDS ContextMetadata, CqlParser, CqlSearch, Paging, Projection

VARIABLE part

\* Queries, in pieces of a few tokens.
StringToken(text) == Text("string", text)
EqualTo(token) == <<Text("ident", <<"t">>), Tok("eq"), token>>
SmallChunks == {
    EqualTo(StringToken(<<"a", "\"", "\\">>)), EqualTo(StringToken(<<"-", "1", "d">>)),
    <<Text("ident", <<"i", "d">>), Tok("in"), Tok("lparen"), Text("number", <<"-", "1", ".", "0">>)>>,
    <<Tok("and")>>, <<Tok("or")>>, <<Tok("not")>>, <<Tok("lparen")>>, <<Tok("rparen")>>,
    <<Tok("comma"), Text("ident", <<"T", "r">>)>>, <<Text("ident", <<"a">>), Tok("starts_ci")>>}

\* Tags that differ in case and length, a context that is its own parent.
Meta(tag, host, labels, parent) ==
    [tag |-> tag, host |-> host, label |-> labels, trace |-> host, parent |-> parent, root |-> parent]
SmallMetas == {Meta({<<1, 3>>}, {}, {<<2>>}, {1}), Meta({<<2, 3>>}, {<<2>>}, {<<2>>, <<3>>}, {2}),
               Meta({}, {<<1, 2>>}, {<<3>>}, {})}

\* Every operator with values it takes and values it refuses.
Cmp(f, op, v) == [type |-> "cmp", field |-> f, op |-> op, value |-> v]
Strings == {StringValue(<<>>), StringValue(<<1>>), StringValue(<<2>>), StringValue(<<2, 3>>), DateValue(<<8>>, TRUE)}
\* -6, -20 (before 1970), an absolute date and one before 1970.
SmallRelative == <<8>> :> 6 @@ <<8, 8>> :> 20
SmallAbsolute == <<7>> :> 16 @@ <<7, 7>> :> -3
Dates == {DateValue(<<8>>, TRUE), DateValue(<<8, 8>>, TRUE), DateValue(<<7>>, FALSE), DateValue(<<7>>, TRUE),
          StringValue(<<8>>), StringValue(<<7>>), StringValue(<<7, 7>>), NumberValue(28), NumberValue(300)}
Numbers == {NumberValue(n) : n \in {-2, 0, 2, 3, 4, 10}}
SmallComparisons ==
    {Cmp(f, op, v) : f \in {"tag", "host"}, v \in Strings \cup {NumberValue(2)},
                     op \in {"eq", "neq", "eq_ci", "starts", "starts_ci", "gt"}}
    \cup {Cmp(f, "in", ListValue({StringValue(<<2>>), StringValue(<<1, 3>>), NumberValue(2)})) :
              f \in {"tag", "label", "trace", "id", "parent"}}
    \cup {Cmp(f, op, StringValue(<<2>>)) : f \in {"label", "trace", "created", "depth", "id"},
                                           op \in {"eq", "neq", "lt"}}
    \cup {Cmp(f, op, v) : f \in {"id", "parent", "root"}, op \in {"eq", "neq", "gt"},
                          v \in {NumberValue(n) : n \in {-2, 2, 3}}}
    \cup {Cmp("depth", op, v) : op \in {"eq", "neq", "gt", "gte", "lt", "lte"}, v \in Numbers}
    \cup {Cmp("created", op, v) : op \in {"eq", "neq", "gt", "lte"}, v \in Dates}
    \cup {Cmp("is_live", op, StringValue(v)) : op \in {"eq", "neq"}, v \in {TrueWord, <<2>>}}
Some == {Cmp("tag", "starts_ci", StringValue(<<2>>)), Cmp("label", "neq", StringValue(<<2>>)),
         Cmp("is_live", "eq", StringValue(TrueWord)), Cmp("depth", "gt", NumberValue(0))}
Pairs == {[type |-> t, left |-> a, right |-> b] : t \in {"and", "or"}, a \in Some, b \in Some}
SmallQueries == SmallComparisons \cup Pairs \cup {[type |-> "not", inner |-> q] : q \in Pairs \cup Some}

\* A type of two versions, with an enum, a reference, a map and arrays.
Fld(name, type) ==
    [name |-> name, type |-> type, enum |-> "", ref |-> "", items |-> NoItems, optional |-> TRUE]
TypeT1 == 1 :> [Fld("a", "u64") EXCEPT !.optional = FALSE] @@ 2 :> [Fld("k", "u32") EXCEPT !.enum = "e"]
          @@ 4 :> [Fld("r", "ref") EXCEPT !.ref = "U"]
TypeT2 == 1 :> [Fld("a", "u64") EXCEPT !.optional = FALSE] @@ 3 :> Fld("n", "int64")
          @@ 4 :> [Fld("r", "map") EXCEPT !.ref = "U"] @@ 5 :> [Fld("l", "array") EXCEPT !.items = [ref |-> "U"]]
TypeU  == 1 :> Fld("b", "bytes") @@ 2 :> Fld("s", "string")
          @@ 3 :> [Fld("l", "array") EXCEPT !.items = [simple |-> "unix_ms"]] @@ 4 :> Fld("t", "bool")
          @@ 5 :> [Fld("e", "string") EXCEPT !.enum = "e"] @@ 6 :> Fld("i", "i64")
\* Two fields of one name.
TypeD  == 1 :> [Fld("k", "u32") EXCEPT !.enum = "e"] @@ 2 :> Fld("k", "u32")
SmallTypes == "T" :> (1 :> TypeT1 @@ 2 :> TypeT2) @@ "U" :> (1 :> TypeU) @@ "D" :> (1 :> TypeD)
\* A label that is a numeral, one of two numbers, a key that is padded and one
\* that is no number.
SmallEnums == "e" :> ("1" :> "one" @@ "2" :> "3" @@ "4" :> "four" @@ "5" :> "four" @@ "09" :> "nine" @@ "x" :> "ex")
              @@ "" :> [n \in {} |-> n]
SmallOrders == {"e" :> o @@ "" :> <<>> : o \in {<<"1", "2", "4", "5", "09", "x">>, <<"x", "5", "4", "09", "2", "1">>}}
SmallNumerals == "0" :> 0 @@ "1" :> 1 @@ "2" :> 2 @@ "3" :> 3 @@ "4" :> 4 @@ "5" :> 5 @@ "6" :> 6 @@ "9" :> 9
                 @@ "09" :> 9 @@ "-1" :> -1 @@ "97" :> 97 @@ "256" :> 256 @@ "301" :> 301
SmallBase64 == "YQ==" :> <<97>> @@ "YWE=" :> <<97, 97>> @@ "eCE=" :> <<120, 33>> @@ "" :> <<>>
SmallHex == "61" :> <<97>> @@ "6161" :> <<97, 97>> @@ "7821" :> <<120, 33>> @@ "" :> <<>>
SmallUtf8 == "x!" :> <<120, 33>>

\* Objects with and without each field, with values of other types, and with
\* fields no descriptor names.
Bytes == {Str("YQ=="), Str("x!"), Str("61"), Arr(<<Num(97), Str("97")>>), Arr(<<Num(256)>>), Num(1),
          Obj("base64" :> Str("x!")), Obj("base64" :> Str("YQ==")), Obj("base64" :> Null @@ "hex" :> Str("61"))}
OfU == {"b" :> Str("YQ==") @@ "s" :> Str("1"), "l" :> Arr(<<Num(-1), Str("3")>>) @@ "9" :> Num(1),
        "s" :> Null @@ "t" :> Bool(TRUE), "b" :> Str("x!"), "zz" :> Num(1)}
OnlyU == {"b" :> v : v \in Bytes} \union {"i" :> v : v \in {Num(1), Num(-1), Num(301), Str("1")}}
         \union {"l" :> Arr(<<Num(301)>>), "k" :> Num(1), "k" :> Str("one"), "e" :> Num(1), "e" :> Num(3)}
Extra == {<<>>, "9" :> Arr(<<Num(1), Str("one")>>), "9" :> Obj("1" :> Num(2)), "1" :> Num(5),
          "09" :> Num(301), "09" :> Num(1) @@ "9" :> Num(2), "n" :> Num(-1), "n" :> Str("4"), "n" :> Num(301)}
As == {"a" :> Num(301), "a" :> Str("2"), <<>>}
Ks == {"a" :> Num(1) @@ "k" :> v : v \in {Num(1), Num(2), Num(3), Num(4), Num(9), Num(301), Str("one"), Str("3"),
                                         Str("four"), Str("nine"), Str("ex"), Str("no")}}
Rs == {<<>>} \union {"r" :> Obj(u) : u \in OfU}
      \union {"l" :> Arr(<<Obj(u), Obj("s" :> Str("1"))>>) :
                  u \in {"b" :> Str("x!"), "s" :> Null @@ "t" :> Bool(TRUE)}}
SmallPosted == {Obj(a @@ k @@ r) : a \in As, k \in {<<>>, "k" :> Str("one")}, r \in Rs}
               \union {Obj("a" :> Num(1) @@ r @@ x) : r \in Rs, x \in Extra}
               \union {Obj(u) : u \in OfU \union OnlyU \union Ks}
Opt(u64, bytes, enum, time, unknown) ==
    [u64 |-> u64, bytes |-> bytes, enum |-> enum, time |-> time, unknown |-> unknown]
SmallOptions == {Lossless, Opt("string", "len_only", "both", "iso", FALSE),
                 Opt("number", "hex", "number", "iso", TRUE)}

queryVars == <<typingVars, searchVars>>
readVars == <<pagingVars, jsonVars>>
vars == <<metadataVars, queryVars, readVars, part>>
Init ==
    /\ MetadataInit /\ TypingInit /\ SearchInit /\ PagingInit /\ JsonInit
    /\ part \in {"metadata", "parse", "search", "pages", "json"}
    /\ part # "json" => enumOrder = CHOOSE o \in EnumOrders : TRUE
Next ==
    /\ UNCHANGED part
    /\ \/ part = "metadata" /\ MetadataNext /\ UNCHANGED <<queryVars, readVars>>
       \/ part = "parse" /\ TypingNext /\ UNCHANGED <<metadataVars, searchVars, readVars>>
       \/ part = "search" /\ SearchNext /\ UNCHANGED <<metadataVars, typingVars, readVars>>
       \/ part = "pages" /\ PagingNext /\ UNCHANGED <<metadataVars, queryVars, jsonVars>>
       \/ part = "json" /\ JsonNext /\ UNCHANGED <<metadataVars, queryVars, pagingVars>>
Spec == Init /\ [][Next]_vars
============================================================================

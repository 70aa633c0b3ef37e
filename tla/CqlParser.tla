----------------------------- MODULE CqlParser -----------------------------
(***************************************************************************)
(* The lexer and the recursive descent parser of the query language        *)
(* (server/src/cql/parser.rs, ast.rs).                                     *)
(*                                                                         *)
(* A query is a sequence of characters, each a string of length one.  The  *)
(* lexer returns [ok, tokens]; a token is [type] or [type, text].  A       *)
(* parsing function takes the tokens that are left and returns             *)
(* [ok, ast, rest].  Messages and positions are left out.                  *)
(***************************************************************************)
EXTENDS Integers, SequencesExt, FiniteSetsExt

-----------------------------------------------------------------------------
(* Lexer.                                                                  *)

Spaces   == {" ", "\t", "\n"}
Quotes   == {"\"", "'"}
Digits   == {"0", "1"}
UpperOf  == [ch \in {"a", "d", "i", "n", "o", "r", "t"} |->
                CASE ch = "a" -> "A" [] ch = "d" -> "D" [] ch = "i" -> "I" [] ch = "n" -> "N"
                  [] ch = "o" -> "O" [] ch = "r" -> "R" [] ch = "t" -> "T"]
Letters  == DOMAIN UpperOf \union Range(UpperOf)
WordChars == Letters \union Digits \union {"_"}

Tok(type) == [type |-> type]
Text(type, text) == [type |-> type, text |-> text]
LexError == [ok |-> FALSE]
Lexed(token, rest) == [ok |-> TRUE, token |-> token, rest |-> rest]

First(s) == IF s = <<>> THEN "" ELSE Head(s)
After(s, n) == SubSeq(s, n + 1, Len(s))

\* How many characters from the start of s are in the set.
Span(s, set) ==
    CHOOSE n \in 0 .. Len(s) :
        /\ \A i \in 1 .. n : s[i] \in set
        /\ n < Len(s) => s[n + 1] \notin set

\* to_uppercase and to_lowercase.
ToUpper(word) == [i \in DOMAIN word |-> IF word[i] \in DOMAIN UpperOf THEN UpperOf[word[i]] ELSE word[i]]
ToLower(word) ==
    [i \in DOMAIN word |-> IF word[i] \in Range(UpperOf) THEN CHOOSE ch \in DOMAIN UpperOf : UpperOf[ch] = word[i]
                           ELSE word[i]]

\* The keywords, in any case; every other word is an identifier, as written.
Keyword(word) ==
    LET upper == ToUpper(word) IN
    CASE upper = <<"A", "N", "D">> -> Tok("and")
      [] upper = <<"O", "R">>      -> Tok("or")
      [] upper = <<"N", "O", "T">> -> Tok("not")
      [] upper = <<"I", "N">>      -> Tok("in")
      [] OTHER                     -> Text("ident", word)

Escaped(ch) == CASE ch = "n" -> "\n" [] ch = "t" -> "\t" [] ch = "r" -> "\r" [] OTHER -> ch

\* Mutant of ReadString: a backslash does not protect the quote after it.
RECURSIVE ReadStringNoEscape(_, _, _)
ReadStringNoEscape(quote, value, s) ==
    CASE s = <<>>        -> LexError
      [] First(s) = quote -> Lexed(Text("string", value), Tail(s))
      [] OTHER           -> ReadStringNoEscape(quote, Append(value, Head(s)), Tail(s))

\* read_string, behind the opening quote.
RECURSIVE ReadString(_, _, _)
ReadString(quote, value, s) ==
    CASE s = <<>>         -> LexError
      [] First(s) = quote -> Lexed(Text("string", value), Tail(s))
      [] First(s) = "\\"  -> IF Len(s) = 1 THEN LexError
                             ELSE ReadString(quote, Append(value, Escaped(s[2])), After(s, 2))
      [] OTHER            -> ReadString(quote, Append(value, Head(s)), Tail(s))

\* read_number: a sign, digits, and a point with digits.
ReadNumber(s) ==
    LET sign == IF First(s) = "-" THEN 1 ELSE 0
        int  == sign + Span(After(s, sign), Digits)
        dec  == IF First(After(s, int)) = "." THEN int + 1 + Span(After(s, int + 1), Digits)
                ELSE int
    IN  Lexed(Text("number", SubSeq(s, 1, dec)), After(s, dec))

ReadIdentifier(s) ==
    LET n == Span(s, WordChars) IN Lexed(Keyword(SubSeq(s, 1, n)), After(s, n))

\* The operators, the longer ones first.
Operators == <<
    <<<<"^", "~", "=">>, "starts_ci">>, <<<<"^", "=">>, "starts">>, <<<<"!", "=">>, "neq">>,
    <<<<"~", "=">>, "eq_ci">>, <<<<">", "=">>, "gte">>, <<<<"<", "=">>, "lte">>,
    <<<<">">>, "gt">>, <<<<"<">>, "lt">>, <<<<"=">>, "eq">>,
    <<<<"(">>, "lparen">>, <<<<")">>, "rparen">>, <<<<",">>, "comma">> >>

ReadOperator(s) ==
    LET fits == {i \in DOMAIN Operators : IsPrefix(Operators[i][1], s)} IN
    IF fits = {} THEN LexError
    ELSE LET i == CHOOSE k \in fits : \A l \in fits : k <= l
         IN  Lexed(Tok(Operators[i][2]), After(s, Len(Operators[i][1])))

\* next_token on what is left behind white space.
NextToken(s) ==
    CASE First(s) \in Quotes -> ReadString(First(s), <<>>, Tail(s))
      [] First(s) \in Digits -> ReadNumber(s)
      [] First(s) = "-" /\ Len(s) > 1 /\ s[2] \in Digits -> ReadNumber(s)
      [] First(s) \in Letters \union {"_"} -> ReadIdentifier(s)
      [] OTHER -> ReadOperator(s)

RECURSIVE Tokens(_, _)
Tokens(sofar, s) ==
    LET left == After(s, Span(s, Spaces))
        next == NextToken(left)
    IN  CASE left = <<>> -> [ok |-> TRUE, tokens |-> sofar]
          [] left # <<>> /\ ~next.ok -> LexError
          [] OTHER -> Tokens(Append(sofar, next.token), next.rest)
Tokenize(s) == Tokens(<<>>, s)

-----------------------------------------------------------------------------
(* Parser.                                                                 *)

Fields == {<<"t">>, <<"i", "d">>}     \* FieldName::from_str knows these
Bools  == {<<"t", "r">>}              \* an unquoted true or false

ParseError == [ok |-> FALSE]
Parsed(ast, rest) == [ok |-> TRUE, ast |-> ast, rest |-> rest]
Type(tokens) == IF tokens = <<>> THEN "eof" ELSE Head(tokens).type

Comparisons == {"eq", "neq", "starts", "eq_ci", "starts_ci", "gt", "gte", "lt", "lte"}

\* A sign, digits and a unit.
IsRelativeDate(text) ==
    /\ Len(text) >= 3 /\ Head(text) = "-" /\ Last(text) \in {"h", "d", "m"}
    /\ \A i \in 2 .. Len(text) - 1 : text[i] \in Digits

\* parse_value: a string, which may be a relative date, a number, or the words
\* true and false in any case, which become strings.
ParseValue(tokens) ==
    CASE Type(tokens) = "string" /\ IsRelativeDate(Head(tokens).text) ->
            Parsed(Text("date", Head(tokens).text), Tail(tokens))
      [] Type(tokens) = "string" /\ ~IsRelativeDate(Head(tokens).text) -> Parsed(Head(tokens), Tail(tokens))
      [] Type(tokens) = "number" -> Parsed(Head(tokens), Tail(tokens))
      [] Type(tokens) = "ident" /\ ToLower(Head(tokens).text) \in Bools ->
            Parsed(Text("string", ToLower(Head(tokens).text)), Tail(tokens))
      [] OTHER -> ParseError

\* parse_list: at least one value, between parentheses.
RECURSIVE ParseValues(_, _)
ParseValues(values, tokens) ==
    LET v == ParseValue(tokens) IN
    CASE ~v.ok -> ParseError
      [] v.ok /\ Type(v.rest) = "comma" -> ParseValues(Append(values, v.ast), Tail(v.rest))
      [] v.ok /\ Type(v.rest) = "rparen" -> Parsed(Append(values, v.ast), Tail(v.rest))
      [] OTHER -> ParseError

ParseList(tokens) ==
    IF Type(tokens) = "lparen" THEN ParseValues(<<>>, Tail(tokens)) ELSE ParseError

Compare(field, op, value) ==
    IF value.ok
    THEN Parsed([type |-> "cmp", field |-> field, op |-> op, value |-> value.ast], value.rest)
    ELSE ParseError

ParseComparison(tokens) ==
    IF Type(tokens) = "ident" /\ Head(tokens).text \in Fields
    THEN LET op == Type(Tail(tokens)) rest == After(tokens, 2) IN
         CASE op \in Comparisons -> Compare(Head(tokens).text, op, ParseValue(rest))
           [] op = "in" -> Compare(Head(tokens).text, op, ParseList(rest))
           [] OTHER -> ParseError
    ELSE ParseError

Node(type, left, right) == [type |-> type, left |-> left, right |-> right]

RECURSIVE ParseChain(_, _, _)
RECURSIVE ParsePrimary(_)

\* parse_unary_expr: one NOT at most.
ParseUnary(tokens) ==
    IF Type(tokens) = "not"
    THEN LET inner == ParsePrimary(Tail(tokens)) IN
         IF inner.ok THEN Parsed([type |-> "not", inner |-> inner.ast], inner.rest) ELSE ParseError
    ELSE ParsePrimary(tokens)

\* The operands of one level, the more tightly binding first.
Operand(level, tokens) ==
    IF level = "or" THEN ParseChain("and", <<>>, tokens) ELSE ParseUnary(tokens)

\* Mutant of Joined: the operators associate to the right.
JoinedRight(level, left, right) ==
    IF left # <<>> /\ left[1].type = level
    THEN Node(level, left[1].left, Node(level, left[1].right, right))
    ELSE IF left = <<>> THEN right ELSE Node(level, left[1], right)
Joined(level, left, right) == IF left = <<>> THEN right ELSE Node(level, left[1], right)

\* parse_or_expr and parse_and_expr: left is what was parsed of the level.
ParseChain(level, left, tokens) ==
    LET next == Operand(level, tokens) IN
    IF ~next.ok THEN ParseError
    ELSE LET ast == Joined(level, left, next.ast) IN
         IF Type(next.rest) = level THEN ParseChain(level, <<ast>>, Tail(next.rest))
                                    ELSE Parsed(ast, next.rest)

ParsePrimary(tokens) ==
    IF Type(tokens) = "lparen"
    THEN LET e == ParseChain("or", <<>>, Tail(tokens)) IN
         IF e.ok /\ Type(e.rest) = "rparen" THEN Parsed(e.ast, Tail(e.rest)) ELSE ParseError
    ELSE ParseComparison(tokens)

\* Parser::parse: a whole expression and nothing behind it.
Parse(tokens) ==
    LET e == ParseChain("or", <<>>, tokens) IN
    IF tokens # <<>> /\ e.ok /\ e.rest = <<>> THEN e ELSE ParseError

-----------------------------------------------------------------------------
(* Typing a query: any sequence of chunks, sentences of the language among *)
(* them.                                                                   *)

CONSTANTS Chunks, MaxChunks, MaxLexed    \* pieces of queries, and bounds
VARIABLES typed, chunksTyped

TypeChunk(chunk) ==
    /\ chunksTyped < MaxChunks
    /\ typed' = typed \o chunk /\ chunksTyped' = chunksTyped + 1

TypingInit == typed = <<>> /\ chunksTyped = 0
TypingNext == \E chunk \in Chunks : TypeChunk(chunk)
typingVars == <<typed, chunksTyped>>

-----------------------------------------------------------------------------
(* Properties.                                                             *)

\* How a client writes a token down: a string is quoted, its quotes and
\* backslashes escaped, a keyword in small and large letters.
Spelled(token) ==
    CASE token.type = "string" ->
           <<"\"">> \o FlattenSeq([i \in DOMAIN token.text |->
                IF token.text[i] \in Quotes \union {"\\"} THEN <<"\\", token.text[i]>>
                ELSE <<token.text[i]>>]) \o <<"\"">>
      [] token.type \in {"number", "ident"} -> token.text
      [] token.type = "and" -> <<"a", "N", "d">>
      [] token.type = "or" -> <<"O", "R">>
      [] token.type = "not" -> <<"N", "o", "t">>
      [] token.type = "in" -> <<"i", "n">>
      [] OTHER -> (CHOOSE o \in ToSet(Operators) : o[2] = token.type)[1]

\* Tokenizing what a client wrote gives back its tokens: no quote or backslash
\* of a value ends the string early or changes the tokens behind it.
LexerInverse ==
    Len(typed) <= MaxLexed =>
        Tokenize(FlattenSeq([i \in DOMAIN typed |-> Append(Spelled(typed[i]), " ")]))
            = [ok |-> TRUE, tokens |-> typed]

\* The grammar at the top of parser.rs, read from the outside in: an expression
\* is split at its last operator of the lowest level outside parentheses.
Depth(s, i) ==
    Cardinality({j \in 1 .. i : s[j].type = "lparen"})
        - Cardinality({j \in 1 .. i - 1 : s[j].type = "rparen"})
Tops(s, level) == {i \in DOMAIN s : s[i].type = level /\ Depth(s, i) = 0}
NoTree == [type |-> "none"]

RECURSIVE Tree(_, _)
Tree(s, level) ==
    LET tops == Tops(s, level)
        at   == CHOOSE i \in tops : \A j \in tops : j <= i
        left == Tree(SubSeq(s, 1, at - 1), level)
        right(inner) == Tree(After(s, at), inner)
        inner == CASE level = "or" -> "and" [] level = "and" -> "unary" [] OTHER -> "primary"
    IN  CASE level \in {"or", "and"} /\ tops = {} -> Tree(s, inner)
          [] level \in {"or", "and"} /\ tops # {} ->
                IF NoTree \in {left, right(inner)} THEN NoTree ELSE Node(level, left, right(inner))
          [] level = "unary" /\ Type(s) = "not" ->
                LET t == Tree(Tail(s), "primary") IN
                IF t = NoTree THEN NoTree ELSE [type |-> "not", inner |-> t]
          [] level = "unary" /\ Type(s) # "not" -> Tree(s, "primary")
          [] level = "primary" /\ Type(s) = "lparen" /\ s[Len(s)].type = "rparen" ->
                Tree(SubSeq(s, 2, Len(s) - 1), "or")
          [] OTHER ->
                LET c == ParseComparison(s) IN
                IF c.ok /\ c.rest = <<>> THEN c.ast ELSE NoTree

\* Parser::parse accepts exactly the sentences of the documented grammar, and
\* gives each the tree the grammar gives it: NOT before AND before OR, operators
\* of one level from left to right.
ParserFollowsGrammar ==
    LET e == Parse(typed) IN
    IF e.ok THEN Tree(typed, "or") = e.ast ELSE Tree(typed, "or") = NoTree
============================================================================

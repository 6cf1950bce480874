-------------------------------- MODULE Json --------------------------------
(***************************************************************************)
(* json and mjson (ml_json.c): one writer and one reader, with functions   *)
(* or without.  A text is a sequence of tokens; a string is a sequence of   *)
(* code points, and its escapes are tokens of its own.  Strings, keys and   *)
(* bodies have no closing bracket without its opening one: behind a syntax  *)
(* error the reader would stop in the middle of them.                      *)
(***************************************************************************)
EXTENDS Integers, SequencesExt

CONSTANTS
  Half,    \* 2^63: an unsigned number from here on is written as a negative one
  MaxDigits, \* MAX_NUMBER_DIGITS: a number of so many characters is not read
  Atoms,   \* the values that lists and dicts are built from
  KeysUsed,\* the keys of the dicts
  MaxSize  \* a value is built from at most this many atoms

VARIABLES
  value,   \* the value that is written
  written, \* its size
  functions\* TRUE: mjson, FALSE: json

vars == <<value, written, functions>>

Null == [ty |-> "null"]
Error == [ty |-> "error"]
Aborted == [ty |-> "aborted"]                   \* abort() ended the process
Str(points) == [ty |-> "string", s |-> points]
Signed(n) == [ty |-> "int", n |-> n]
Unsigned(n) == [ty |-> "uint", n |-> n]
Bool(b) == [ty |-> "bool", b |-> b]
List(items) == [ty |-> "list", items |-> items]
Dict(map) == [ty |-> "dict", map |-> map]       \* map: keys to values
Word(word) == [ty |-> "word", word |-> word]    \* the string that is this identifier

\* A name is a sequence of pieces; extra: it has contextuals or a return type.
Fn(params, body, extra) ==
  [ty |-> "function", params |-> params, body |-> body, extra |-> extra]
Param(name, default) == [name |-> name, default |-> default]

------------------------------- \* writing
\* ascii_to_unicode: \uXXXX, which has five digits for what lies above 0xFFFF.
Simple == 32 .. 126 \ {34, 92}
Digit(d) == IF d < 10 THEN 48 + d ELSE 55 + d
EscapeBytes(c) ==
  IF c \in Simple THEN << <<"char", c>> >>
  ELSE IF c < 128 THEN << <<"escape", c>> >>
  ELSE << <<"u", 192 + c \div 64>>, <<"u", 128 + (c % 64)>> >>
Escape(c) ==
  CASE c \in Simple -> << <<"char", c>> >>
    [] c \in {8, 9, 10, 12, 13, 34, 92} -> << <<"escape", c>> >>
    [] c < 65536 -> << <<"u", c>> >>
    [] OTHER -> << <<"u", c \div 16>>, <<"char", Digit(c % 16)>> >>
WriteString(s) == <<"str", FlattenSeq([i \in DOMAIN s |-> Escape(s[i])])>>

\* A key is what as_c_string_repr made of it: \x of every byte that cannot be printed, but
\* no escape of a backslash.
KeyChar(c) == CASE c \in {7, 9, 10, 11, 12, 13, 34} -> <<"escape", c>>
                [] c \in 32 .. 126 \ {34} -> <<"char", c>>
                [] OTHER -> <<"x", c>>
WriteKey(k) ==
  CASE k.ty = "string" -> <<"str", [i \in DOMAIN k.s |-> KeyChar(k.s[i])]>>
    [] k.ty = "bool" -> <<"word", IF k.b THEN "true" ELSE "false">>
    [] k.ty = "int" -> <<"num", k.n>>

\* malloc_sprintf appends to args what is printed, and args is printed too; a default
\* follows its name without a =.
WriteParams(params) ==
  FoldLeft(LAMBDA args, i :
             LET more == args \o args \o params[i].name \o params[i].default
             IN IF i = Len(params) THEN more ELSE more \o more \o <<",">>,
           <<>>, [i \in DOMAIN params |-> i])

Separated(parts) ==
  FlattenSeq([i \in DOMAIN parts |-> (IF i = 1 THEN <<>> ELSE << <<",">> >>) \o parts[i]])

RECURSIVE Write(_, _)
Write(v, fns) ==
  CASE v.ty = "bool" -> << <<"word", IF v.b THEN "true" ELSE "false">> >>
    [] v.ty \in {"int", "uint"} -> << <<"num", IF v.n >= Half THEN v.n - 2 * Half ELSE v.n>> >>
    [] v.ty = "string" -> << WriteString(v.s) >>
    [] v.ty = "list" ->
         << <<"[">> >> \o Separated([i \in DOMAIN v.items |-> Write(v.items[i], fns)]) \o << <<"]">> >>
    [] v.ty = "dict" ->
         LET keys == SetToSeq(DOMAIN v.map)
             entry(k) == << WriteKey(k), <<":">> >> \o Write(v.map[k], fns)
         IN << <<"{">> >> \o Separated([i \in DOMAIN keys |-> entry(keys[i])]) \o << <<"}">> >>
    [] v.ty = "function" /\ fns -> << <<"word", "fn">>, <<"(", WriteParams(v.params)>>, <<"body", v.body>> >>
    [] OTHER -> << <<"word", "null">> >>

------------------------------- \* reading
\* parse_string: \u takes four digits; behind a backslash that no writer escaped stands
\* one of these or the character itself, as behind \b.
Behind(c) == CASE c = 97 -> 7 [] c = 102 -> 12 [] c = 110 -> 10 [] c = 114 -> 13
               [] c = 116 -> 9 [] c = 118 -> 11 [] OTHER -> c
ReadString(tokens) ==
  LET Read(got, token) ==
        CASE got.slash -> [s |-> Append(got.s, Behind(token[2])), slash |-> FALSE]
          [] ~got.slash /\ token = <<"char", 92>> -> [got EXCEPT !.slash = TRUE]
          [] ~got.slash /\ token = <<"escape", 8>> -> [got EXCEPT !.s = Append(@, 98)]
          [] OTHER -> [got EXCEPT !.s = Append(@, token[2])]
  IN Str(FoldLeft(Read, [s |-> <<>>, slash |-> FALSE], tokens).s)

\* parse_number, in the range of a long: the text of a number has a sign and digits.
TooLong(n) == IF n < 0 THEN -n >= 10 ^ (MaxDigits - 2) ELSE n >= 10 ^ (MaxDigits - 1)
ReadNumber(n) == IF TooLong(n) THEN Aborted ELSE Signed(n)

Peek(t, p) == IF p \in DOMAIN t THEN t[p][1] ELSE "eof"
End(t) == Len(t) + 1
Got(v, p) == [v |-> v, p |-> p]

\* Where the skip after a bad list stops: behind the bracket that closes it. Every bracket
\* counts, in strings and bodies too. If there is none it runs past the end of the text.
Beyond(t) == End(t) + 1
Brackets(t, p, q, kind, code) ==
  LET Of(x) == CASE x[1] = kind -> 1
                 [] x[1] = "str" -> Len(SelectSeq(x[2], LAMBDA y : y = <<"char", code>>))
                 [] x[1] = "body" -> Len(SelectSeq(x[2], LAMBDA y : y = code))
                 [] OTHER -> 0
  IN FoldLeft(LAMBDA sum, x : sum + Of(x), 0, SubSeq(t, p, q))
Opened(t, p, q) == Brackets(t, p, q, "[", 91)
Closed(t, p, q) == Brackets(t, p, q, "]", 93)
SkipListTooFar(t, p) ==
  LET ends == {q \in p .. Len(t) : Closed(t, p, q) > Opened(t, p, q) + 1}
  IN IF ends = {} THEN Beyond(t) ELSE Min(ends) + 1
SkipList(t, p) ==
  LET ends == {q \in p .. Len(t) : Closed(t, p, q) > Opened(t, p, q)}
  IN IF ends = {} THEN Beyond(t) ELSE Min(ends) + 1

WordValue(word) == IF word \in {"true", "false"} THEN Bool(word = "true") ELSE Null

\* parse_param_list between its parentheses, where an identifier goes on to the next comma.
ReadParams(args) ==
  LET Read(names, x) ==
        IF x = "," THEN Append(names, <<>>) ELSE [names EXCEPT ![Len(names)] = Append(@, x)]
      names == FoldLeft(Read, << <<>> >>, args)
  IN IF args = <<>> THEN <<>> ELSE [i \in DOMAIN names |-> Param(names[i], <<>>)]

\* Both the parameters and the body may be missing; where the body is, a separator follows
\* in these texts, and skip_parse_statement takes nothing.
ParseFn(t, p) ==
  LET listed == Peek(t, p + 1) = "("
      q == IF listed THEN p + 2 ELSE p + 1
      params == IF listed THEN ReadParams(t[p + 1][2]) ELSE <<>>
  IN IF Peek(t, q) = "body" THEN Got(Fn(params, t[q][2], FALSE), q + 1)
     ELSE Got(Fn(params, <<>>, FALSE), q)

RECURSIVE ParseExpr(_, _, _), ParseItems(_, _, _, _), ParseEntries(_, _, _, _)
\* What starts no expression is null, and the position stays.
ParseExpr(t, p, fns) ==
  CASE Peek(t, p) = "num" -> Got(ReadNumber(t[p][2]), p + 1)
    [] Peek(t, p) = "str" -> Got(ReadString(t[p][2]), p + 1)
    [] Peek(t, p) = "[" ->
         IF Peek(t, p + 1) = "]" THEN Got(List(<<>>), p + 2) ELSE ParseItems(t, p + 1, <<>>, fns)
    [] Peek(t, p) = "{" -> ParseEntries(t, p + 1, <<>>, fns)
    [] Peek(t, p) = "word" ->
         IF fns /\ t[p][2] = "fn" THEN ParseFn(t, p) ELSE Got(WordValue(t[p][2]), p + 1)
    [] OTHER -> Got(Null, p)

ParseItems(t, p, items, fns) ==
  LET a == ParseExpr(t, p, fns)
      more == Append(items, a.v)
  IN CASE a.v \in {Error, Aborted} -> a
       [] a.v \notin {Error, Aborted} /\ Peek(t, a.p) = "," -> ParseItems(t, a.p + 1, more, fns)
       [] a.v \notin {Error, Aborted} /\ Peek(t, a.p) = "]" -> Got(List(more), a.p + 1)
       [] OTHER -> Got(Error, SkipList(t, a.p))

\* A key is a string or an identifier; anything else ends the dict. An entry may follow
\* without a comma; an error is stored like any value.
ParseEntries(t, p, map, fns) ==
  LET isKey == Peek(t, p) \in {"str", "word"}
      key == IF Peek(t, p) = "str" THEN ReadString(t[p][2]) ELSE Word(t[p][2])
      a == ParseExpr(t, p + 2, fns)
      after == IF Peek(t, a.p) = "," THEN a.p + 1 ELSE a.p
      set == [k \in DOMAIN map \cup {key} |-> IF k = key THEN a.v ELSE map[k]]
  IN CASE ~isKey -> Got(Dict(map), IF p < End(t) THEN p + 1 ELSE p)
       [] isKey /\ Peek(t, p + 1) # ":" -> Got(Error, p + 1)
       [] isKey /\ Peek(t, p + 1) = ":" /\ a.v = Aborted -> a
       [] OTHER -> ParseEntries(t, after, set, fns)

------------------------------- \* the values that are written
Init == value \in Atoms /\ written = 1 /\ functions \in BOOLEAN

Extend(a) ==
  \/ value' = List(<<value, a>>)
  \/ value.ty = "list" /\ value' = [value EXCEPT !.items = Append(@, a)]
Enter(k, a) ==
  \/ \E other \in KeysUsed \ {k} :
       value' = Dict([x \in {k, other} |-> IF x = k THEN value ELSE a])
  \/ /\ value.ty = "dict" /\ k \notin DOMAIN value.map
     /\ value' = Dict([x \in DOMAIN value.map \cup {k} |-> IF x = k THEN a ELSE value.map[x]])
Wrap == value' \in {List(<<value>>), List(<<>>), Dict(<<>>)}

Next ==
  /\ written < MaxSize /\ written' = written + 1
  /\ UNCHANGED functions
  /\ Wrap \/ \E a \in Atoms : Extend(a) \/ \E k \in KeysUsed : Enter(k, a)

Spec == Init /\ [][Next]_vars
-----------------------------------------------------------------------------
\* What the text says of a value: its numbers as signed ones, a function as null in json.
RECURSIVE Plain(_)
Plain(v) ==
  CASE v.ty = "uint" -> Signed(v.n)
    [] v.ty = "list" -> List([i \in DOMAIN v.items |-> Plain(v.items[i])])
    [] v.ty = "dict" -> Dict([k \in DOMAIN v.map |-> Plain(v.map[k])])
    [] v.ty = "function" -> IF functions THEN v ELSE Null
    [] OTHER -> v

\* What is read back. Not so a number whose text has MaxDigits characters (mila.c:4015),
\* among them those of unsigned numbers from Half on; \b; a character above 0xFFFF; a key
\* that is no string or has a backslash; in mjson more than one parameter, a default,
\* contextuals and a return type.
RECURSIVE Sayable(_)
Sayable(v) ==
  CASE v.ty \in {"int", "uint"} -> v.n < Half /\ ~TooLong(v.n)
    [] v.ty = "string" -> \A i \in DOMAIN v.s : v.s[i] < 65536 /\ v.s[i] # 8
    [] v.ty = "list" -> \A i \in DOMAIN v.items : Sayable(v.items[i])
    [] v.ty = "dict" ->
         \A k \in DOMAIN v.map :
           k.ty = "string" /\ (\A i \in DOMAIN k.s : k.s[i] # 92) /\ Sayable(v.map[k])
    [] v.ty = "function" ->
         functions => /\ Len(v.params) <= 1 /\ ~v.extra
                      /\ \A i \in DOMAIN v.params : v.params[i].default = <<>>
    [] OTHER -> TRUE

\* What is written is read back whole, whatever is nested in what (ml_json.c), of the
\* values that the writer says and the reader takes (Sayable).
ReadsBack ==
  LET t == Write(value, functions)
  IN Sayable(value) => ParseExpr(t, 1, functions) = Got(Plain(value), End(t))

\* A text that lacks one token is read to an end inside of it, unless that token closes
\* a list or a dict, or a bracket stands open in a string, a key or a body: then the reader
\* may run past the end of the text (ml_json.c), as with ["x", 1 "["].
BadTextEnds ==
  LET t == Write(value, functions)
      Even(i) == t[i][1] \in {"str", "body"} => Opened(t, i, i) = Closed(t, i, i)
  IN (\A i \in DOMAIN t : Even(i)) =>
       \A i \in DOMAIN t : t[i][1] \notin {"]", "}"} =>
         ParseExpr(RemoveAt(t, i), 1, functions).p <= Len(t)
=============================================================================

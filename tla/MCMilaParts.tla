---------------------------- MODULE MCMilaParts ----------------------------
(* MilaParts for TLC: the programs, values, texts and files of the instance. *)
EXTENDS MilaParts, TLC

CONSTANTS N1, N2, k1, k2, k3, k4

(* Control flow: one statement around another, in a loop and before one.     *)
act == Simple("act")

\* What stands in a block: one statement, or a jump and what it jumps over.
Bodies == {<<act>>} \cup {<<Simple(j), act>> : j \in {"break", "continue", "skip2", "return"} \cup {"call"}}

Ifs(b) ==
  { IfChain(<<Clause(TRUE, b)>>, FALSE),
    IfChain(<<Clause(TRUE, b), Clause(TRUE, <<act>>)>>, TRUE),
    IfChain(<<Clause(FALSE, <<act>>), Clause(TRUE, b), Clause(FALSE, <<act>>)>>, TRUE),
    IfChain(<<Clause(TRUE, <<act>>), Clause(Len(b) > 1, b)>>, FALSE) }
Inner(b) ==
  Ifs(b) \cup { Loop(k, b) : k \in {"while", "foreach", "catch", "catch_const", "{"} }

\* A jump out of an if without braces.
Short == { IfChain(<<Clause(FALSE, <<Simple(j)>>)>>, FALSE) : j \in {"break", "continue", "return"} }

fun == <<Loop("{", <<IfChain(<<Clause(TRUE, <<Simple("return")>>)>>, FALSE), act>>)>>

MainPrograms ==
  { <<Loop(k, <<s, act>>)>> : k \in {"while", "foreach"},
                s \in UNION {Inner(b) \cup {Loop("catch_bare", b)} : b \in Bodies} \cup Short }
    \cup { <<Loop(k, <<s>>), act>> : k \in {"catch", "{"},
             s \in UNION {Inner(b) : b \in {<<act>>, <<Simple("return"), act>>}} }

MCPrograms == { Program([main |-> m, fun |-> fun]) : m \in MainPrograms }

(* Expressions: an operator of most levels, and operands that hold together  *)
(* differently: a number, a variable, a call that fails, -1 and x[1].        *)
MCOps == {"&&", "||", "==", "-", "*"}
MCOperands == {<<"n">>, <<"x">>, <<"e">>, <<"-", <<"n">>, <<"x">>>>, <<"at", <<"x">>, <<"n">>>>}

(* Operators: integers of three bits, and values of every other type.        *)
Str(chars) == [ty |-> "string", s |-> chars]
Object(id, overloads) == [ty |-> "dict", id |-> id, over |-> overloads]
MCGiven ==
  { Signed(n) : n \in -4 .. 3 } \cup { Unsigned(n) : n \in 0 .. 7 }
    \cup { [ty |-> "float", n |-> n, d |-> d] : n \in {-1, 3}, d \in {1, 2} }
    \cup { [ty |-> "list", items |-> items] : items \in
             { <<>>, <<Signed(1)>>, <<Signed(1), Signed(2)>>, <<Signed(1), Unsigned(1)>>,
               <<Signed(-1), Signed(3)>>, <<Str(<<>>)>> } }
    \cup { [ty |-> "bool", n |-> n] : n \in {0, 1} } \cup { [ty |-> t] : t \in {"null", "none"} }
    \cup { Str(<<>>), Str(<<"a">>) }
    \cup { Object("plus", {<<"+", TRUE>>, <<"<=", TRUE>>}), Object("bare", {}) }

(* Wildcards: patterns of each kind of group, over a and b.                  *)
a == 97
b == 98
MCPatternChars == {a, b, Star, Query, Dash, Backslash, Bracket, Unbracket, Brace, Unbrace}
MCBeginnings == {<<>>, <<Star>>, <<Bracket, a, Dash>>, <<Brace, a>>, <<Brace, a, Dash, b>>}
MCSubjectChars == {a, b}

(* Lists: a script may append the number 2, which is also what marks the end *)
(* of an iteration over one item.                                            *)
MCMarker(n) == IF n = 2 THEN N2 ELSE <<n>>

(* Dicts: three keys meet in one chain, and two of them after the resize;    *)
(* with the other seed two other keys.                                       *)
MCHash(seed, k) ==
  IF seed = 1 THEN CASE k = k1 -> 0 [] k = k2 -> 2 [] k = k3 -> 4 [] k = k4 -> 1
  ELSE CASE k = k1 -> 1 [] k = k2 -> 3 [] k = k3 -> 0 [] k = k4 -> 5

(* JSON: a value of every type, with the characters that are escaped and the *)
(* brackets that are counted; integers of eight bits, of which those with    *)
(* three characters are not read.                                            *)
Function(given, extra) ==
  [ty |-> "function", params |-> given, body |-> <<91, 93>>, extra |-> extra]
Parameter(name, default) == [name |-> <<name>>, default |-> default]
MCAtoms == { [ty |-> "null"], Signed(-1), Signed(100), Unsigned(255),
             Str(<<97, 34, 10, 233>>), Str(<<128512, 8>>), Str(<<91>>),
             Function(<<Parameter("a", <<>>)>>, FALSE),
             Function(<<Parameter("a", <<>>), Parameter("b", <<"1">>)>>, TRUE) }
MCKeysUsed == { Str(<<34, 233, 128512, 8>>), Str(<<92, 110>>), Signed(1), [ty |-> "bool", b |-> TRUE] }

(* Modules: a name that means two files, one in each directory, and files    *)
(* that cannot be opened.                                                    *)
In(dir, file) == <<"/", "w", "/", dir, "/", file>>
MCHome == <<"/", "h">>
MCGetenv == <<"V">> :> <<"a">>
MCCwd == <<"/", "w">>
MCExtra == <<"~", "/", "l">>
MCFiles == { In("a", "m"), In("b", "m"), In("a", "s"), In("b", "u"), In("b", "s"),
             <<"/", "w", "/", "p">>, <<"/", "h", "/", "l", "/", "s">> }
MCUnreadable == { In("b", "u"), In("b", "s") }
MCMains == { <<"p">>, <<"a", "\\", "m">>, In("b", "m") }
MCNames == { <<"m">>, <<"u">>, <<"$", "{", "V", "}", "/", "m">>, <<"b", "/", "/", "m">> }
MCSetupName == <<"s">>

(* Strings: placeholders, a quote, a backslash and the braces of a !{ }.     *)
n == 110
MCFragments == { <<Dollar, Brace, n, Unbrace>>, <<Dollar, Brace, n, Bang, Unbrace>>,
                 <<Bang, Brace>>, <<Brace>>, <<Unbrace>>, <<Quote>>, <<Backslash>>, <<Dollar>> }
MCName == <<n>>
MCRepr == <<Quote, 118, Quote>>
MCPlain == <<118>>

(* Numbers: integers of four bits. The text of one grows by a digit of either *)
(* base, the characters that are a mark or a sign, and the suffix.           *)
MCLiteralChars == Digits \cup {a, Point, 120, SmallU, Minus, Plus}

(* Calls: what the caller may see under the names of the parameters.         *)
MCParamNames == <<"a", "b", "c">>
MCOuters == {<<>>, "b" :> "var", ("c" :> "const") @@ ("b" :> "var"), "c" :> "var"}
=============================================================================

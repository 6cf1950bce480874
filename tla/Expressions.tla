---------------------------- MODULE Expressions ----------------------------
(***************************************************************************)
(* How MiLa reads expressions (mila.c): eval_expr_prec climbs precedences  *)
(* and evaluates as it reads; skip_parse_expr_prec is other code that only *)
(* moves the position, for the conditions, bodies and clauses that are not *)
(* run.  An expression grows from its parts, is written down with as few   *)
(* parentheses as the language needs, and is read back by both.            *)
(* A value is the tree of what was evaluated.                              *)
(***************************************************************************)
EXTENDS Integers, SequencesExt

CONSTANTS
  Ops,       \* the binary operators in use, keys of precedence_of
  Operands,  \* the trees an expression is combined with
  MaxGrow,   \* an expression is combined at most this often
  Writing    \* {}: as the code needs it; {"not_binds"}: as if ! took one operand

VARIABLES expr, grown

vars == <<expr, grown>>

precedence_of(op) ==
  CASE op = "&&" -> 1 [] op = "||" -> 2 [] op = "??" -> 3 [] op \in {"==", "!="} -> 4
    [] op \in {"<<", ">>"} -> 5 [] op \in {"<=", ">=", "<", ">"} -> 6
    [] op \in {"+", "-"} -> 7 [] op \in {"%", "*", "/"} -> 8 [] op = "=>" -> 9

\* Leaves: a literal, an identifier, a call that gives an error.
N == <<"n">>
X == <<"x">>
E == <<"e">>
Err == <<"error">>

Peek(t, p) == IF p \in 1 .. Len(t) THEN t[p] ELSE "eof"
Got(v, p) == [v |-> v, p |-> p]
Failed(p) == Got(Err, p)

---------------------------------------------------------------------------
(* eval_expr_prec and eval_primary: the value and the position after it.   *)

RECURSIVE Prec(_, _, _), Climb(_, _, _, _), Primary(_, _), Args(_, _, _, _),
          Subscripts(_, _, _), Method(_, _, _)

PrecGoesOn(t, p, min) == LET l == Primary(t, p) IN Climb(t, l.p, l.v, min)

\* An error of the left operand is returned at once, where it happened.
Prec(t, p, min) ==
  LET l == Primary(t, p) IN IF l.v = Err THEN l ELSE Climb(t, l.p, l.v, min)

ClimbRight(t, p, lhs, min) ==
  IF Peek(t, p) = ":" THEN Method(t, p, lhs)
  ELSE IF Peek(t, p) \in Ops /\ precedence_of(Peek(t, p)) >= min
  THEN LET r == Prec(t, p + 1, precedence_of(Peek(t, p)))
       IN Climb(t, r.p, <<Peek(t, p), lhs, r.v>>, min)
  ELSE Got(lhs, p)

\* A right operand is handed to binary_op, an error like a value. A method call ends
\* the whole expression.
Climb(t, p, lhs, min) ==
  IF Peek(t, p) = ":" THEN Method(t, p, lhs)
  ELSE IF Peek(t, p) \in Ops /\ precedence_of(Peek(t, p)) >= min
  THEN LET r == Prec(t, p + 1, precedence_of(Peek(t, p)) + 1)
       IN Climb(t, r.p, <<Peek(t, p), lhs, r.v>>, min)
  ELSE Got(lhs, p)

\* Arguments or elements from p on, up to close; v collects them.
Args(t, p, v, close) ==
  IF Peek(t, p) = close /\ Len(v) = 2 THEN Got(v, p + 1)
  ELSE LET a == Prec(t, p, 1) IN
       CASE a.v = Err -> a
         [] a.v # Err /\ Peek(t, a.p) = "," -> Args(t, a.p + 1, Append(v, a.v), close)
         [] a.v # Err /\ Peek(t, a.p) = close -> Got(Append(v, a.v), a.p + 1)
         [] OTHER -> Failed(a.p)

\* o:m(args) and o:m(args):m(args), of a value that is an object.
Method(t, p, lhs) ==
  IF Peek(t, p + 1) # "m" \/ Peek(t, p + 2) # "(" THEN Failed(p + 2)
  ELSE LET r == Args(t, p + 3, <<"method", lhs>>, ")")
       IN IF r.v # Err /\ Peek(t, r.p) = ":" THEN Method(t, r.p, r.v) ELSE r

\* parse_subscript: an error in the index is an index like another.
Subscripts(t, p, v) ==
  IF Peek(t, p) # "[" THEN Got(v, p)
  ELSE LET i == Prec(t, p + 1, 1)
       IN Subscripts(t, IF Peek(t, i.p) = "]" THEN i.p + 1 ELSE i.p, <<"at", v, i.v>>)

Primary(t, p) ==
  CASE Peek(t, p) = "n" -> Got(N, p + 1)
    [] Peek(t, p) = "e" -> Failed(p + 1)
    [] Peek(t, p) = "?" -> LET a == Prec(t, p + 1, 1) IN Got(<<"?", a.v>>, a.p)
    [] Peek(t, p) = "!" -> LET a == Prec(t, p + 1, 1)
                           IN IF a.v = Err THEN a ELSE Got(<<"!", a.v>>, a.p)
    [] Peek(t, p) = "[" -> Args(t, p + 1, <<"[", N>>, "]")
    [] Peek(t, p) = "(" ->
         LET a == Prec(t, p + 1, 1)
             q == IF Peek(t, a.p) = ")" THEN a.p + 1 ELSE a.p
         IN CASE a.v = Err -> a
              [] a.v # Err /\ Peek(t, q) = "(" -> Args(t, q + 1, <<"call", a.v>>, ")")
              [] OTHER -> Subscripts(t, q, a.v)
    \* eval_block takes its closing brace, and eval_primary one more if it stands there.
    [] Peek(t, p) = "{" ->
         LET a == Prec(t, p + 1, 1)
             q == IF Peek(t, a.p) = "}" THEN a.p + 1 ELSE a.p
         IN CASE a.v = Err -> a
              [] OTHER -> Got(<<"{", a.v>>, IF Peek(t, q) = "}" THEN q + 1 ELSE q)
    \* A function literal: the text up to the brace that closes its body.
    [] Peek(t, p) = "fn" ->
         LET Open(q) == Len(SelectSeq(SubSeq(t, p + 1, q), LAMBDA x : x = "{"))
             Close(q) == Len(SelectSeq(SubSeq(t, p + 1, q), LAMBDA x : x = "}"))
             end == Min({q \in p + 1 .. Len(t) : Open(q) = Close(q)})
         IN Got(<<"fn", SubSeq(t, p + 2, end - 1)>>, end + 1)
    [] Peek(t, p) = "x" /\ Peek(t, p + 1) = "(" -> Args(t, p + 2, <<"call", X>>, ")")
    [] Peek(t, p) = "x" /\ Peek(t, p + 1) # "(" -> Subscripts(t, p + 1, X)
    [] OTHER -> Got(<<"null">>, p)

---------------------------------------------------------------------------
(* skip_parse_expr_prec and skip_primary: the position after, 0 if it is   *)
(* no expression.                                                          *)

RECURSIVE SkipPrec(_, _, _), SkipClimb(_, _, _), SkipPrimary(_, _), SkipArgs(_, _, _),
          SkipSubscripts(_, _), SkipMethod(_, _)

SkipPrec(t, p, min) == LET q == SkipPrimary(t, p) IN IF q = 0 THEN 0 ELSE SkipClimb(t, q, min)

SkipClimb(t, p, min) ==
  CASE Peek(t, p) = ":" -> SkipMethod(t, p)
    [] Peek(t, p) \in Ops /\ precedence_of(Peek(t, p)) >= min ->
         LET q == SkipPrec(t, p + 1, precedence_of(Peek(t, p)) + 1)
         IN IF q = 0 THEN 0 ELSE SkipClimb(t, q, min)
    [] OTHER -> p

SkipArgs(t, p, close) ==
  LET q == SkipPrec(t, p, 1) IN
  CASE q = 0 -> 0
    [] q # 0 /\ Peek(t, q) = "," -> SkipArgs(t, q + 1, close)
    [] q # 0 /\ Peek(t, q) = close -> q + 1
    [] OTHER -> 0

SkipList(t, p, close) == IF Peek(t, p) = close THEN p + 1 ELSE SkipArgs(t, p, close)

SkipMethod(t, p) ==
  IF Peek(t, p + 1) # "m" \/ Peek(t, p + 2) # "(" THEN 0
  ELSE LET q == SkipList(t, p + 3, ")")
       IN IF q # 0 /\ Peek(t, q) = ":" THEN SkipMethod(t, q) ELSE q

SkipSubscript(t, p) ==
  IF Peek(t, p) # "[" THEN p
  ELSE LET q == SkipPrec(t, p + 1, 1) IN IF q # 0 /\ Peek(t, q) = "]" THEN q + 1 ELSE 0

SkipSubscripts(t, p) ==
  IF Peek(t, p) # "[" THEN p
  ELSE LET q == SkipPrec(t, p + 1, 1)
       IN IF q # 0 /\ Peek(t, q) = "]" THEN SkipSubscripts(t, q + 1) ELSE 0

\* skip_parse_block over a block of one expression.
SkipBraces(t, p) ==
  LET q == SkipPrec(t, p + 1, 1)
  IN IF Peek(t, p) = "{" /\ q # 0 /\ Peek(t, q) = "}" THEN q + 1 ELSE 0

SkipPrimary(t, p) ==
  CASE Peek(t, p) \in {"n", "e"} -> p + 1
    [] Peek(t, p) \in {"?", "!"} -> SkipPrec(t, p + 1, 1)
    [] Peek(t, p) = "[" -> SkipList(t, p + 1, "]")
    [] Peek(t, p) = "(" ->
         LET q == SkipPrec(t, p + 1, 1)
         IN CASE q = 0 \/ Peek(t, q) # ")" -> 0
              [] q # 0 /\ Peek(t, q) = ")" /\ Peek(t, q + 1) = "(" -> SkipList(t, q + 2, ")")
              [] OTHER -> SkipSubscripts(t, q + 1)
    [] Peek(t, p) = "{" -> SkipBraces(t, p)
    [] Peek(t, p) = "fn" -> SkipBraces(t, p + 1)
    [] Peek(t, p) = "x" /\ Peek(t, p + 1) = "(" -> SkipList(t, p + 2, ")")
    [] Peek(t, p) = "x" /\ Peek(t, p + 1) # "(" -> SkipSubscripts(t, p + 1)
    [] Peek(t, p) = "eof" -> p
    [] OTHER -> 0

---------------------------------------------------------------------------
(* Writing a tree down.                                                    *)

RECURSIVE Write(_), Listed(_)

\* How tightly a tree holds together: a prefix takes the whole rest of the text, and
\* nothing is read after a method call.
Level(v) ==
  CASE v[1] \in Ops -> precedence_of(v[1])
    [] v[1] \in {"?", "method", "{"} -> 0
    [] v[1] = "!" -> IF "not_binds" \in Writing THEN 10 ELSE 0
    [] OTHER -> 10

Within(v, need) == IF Level(v) < need THEN <<"(">> \o Write(v) \o <<")">> ELSE Write(v)

Listed(vs) ==
  FlattenSeq([i \in 1 .. Len(vs) |-> (IF i = 1 THEN <<>> ELSE <<",">>) \o Write(vs[i])])
Rest(v) == Listed(SubSeq(v, 3, Len(v)))
Called(v) == IF v = X THEN <<"x">> ELSE <<"(">> \o Write(v) \o <<")">>

Write(v) ==
  CASE v[1] \in Ops -> Within(v[2], Level(v)) \o <<v[1]>> \o Within(v[3], Level(v) + 1)
    [] v[1] \in {"?", "!"} -> <<v[1]>> \o (IF v[2][1] = "{" \/ "not_binds" \in Writing
                                           THEN Within(v[2], 10) ELSE Write(v[2]))
    [] v[1] = "[" -> <<"[">> \o Rest(v) \o <<"]">>
    [] v[1] = "call" -> Called(v[2]) \o <<"(">> \o Rest(v) \o <<")">>
    [] v[1] = "method" -> (IF v[2][1] = "method" THEN Write(v[2]) ELSE Within(v[2], 10))
                            \o <<":", "m", "(">> \o Rest(v) \o <<")">>
    [] v[1] = "at" -> (IF v[2][1] = "at" THEN Write(v[2]) ELSE Called(v[2]))
                        \o <<"[">> \o Write(v[3]) \o <<"]">>
    [] v[1] = "{" -> <<"{">> \o Within(v[2], 1) \o <<"}">>
    [] v[1] = "fn" -> <<"fn", "{">> \o v[2] \o <<"}">>
    [] OTHER -> v

Text == Write(expr)

---------------------------------------------------------------------------
Init == expr \in Operands /\ grown = 0

Becomes(v) == grown < MaxGrow /\ grown' = grown + 1 /\ expr' = v

Binary == \E op \in Ops, v \in Operands : Becomes(<<op, expr, v>>) \/ Becomes(<<op, v, expr>>)
Prefix == \E op \in {"!", "?"} : Becomes(<<op, expr>>)
List == Becomes(<<"[", N>>) \/ \E v \in Operands : Becomes(<<"[", N, expr, v>>)
Call == \/ Becomes(<<"call", expr>>)
        \/ \E v \in Operands : Becomes(<<"call", X, v, expr>>) \/ Becomes(<<"call", expr, v>>)
CallMethod == \E v \in Operands : Becomes(<<"method", expr, v>>) \/ Becomes(<<"method", v, expr>>)
Subscript == \E v \in Operands : Becomes(<<"at", expr, v>>) \/ Becomes(<<"at", X, expr>>)
Block == Becomes(<<"{", expr>>)
Lambda == Becomes(<<"fn", Text>>)

Next == Binary \/ Prefix \/ List \/ Call \/ CallMethod \/ Subscript \/ Block \/ Lambda

Spec == Init /\ [][Next]_vars

---------------------------------------------------------------------------
(* Properties.                                                             *)

RECURSIVE Fails(_), Sound(_)

\* No call in v fails.
Sound(v) == v # E /\ (v[1] = "fn" \/ \A i \in 2 .. Len(v) : Sound(v[i]))

\* What is evaluated as the first operand, an element or an argument fails.
Fails(v) ==
  CASE v = E -> TRUE
    [] v[1] \in Ops \cup {"!", "{"} -> Fails(v[2])
    [] v[1] \in {"[", "call", "method"} -> \E i \in 2 .. Len(v) : Fails(v[i])
    [] v[1] = "at" -> Fails(v[2])
    [] OTHER -> FALSE

\* The parser gives back the tree that was written down: operators are grouped by
\* precedence, to the left among equals, and all of the text is read.  Writing = {}
\* writes what ! applies to as its whole rest, as eval_primary reads it (5130), though
\* docs/Basics.md:161 gives ! the highest precedence; {"not_binds"} writes as that says.
ReadsBack ==
  LET r == Prec(Text, 1, 1) IN Sound(expr) => r.v = expr /\ r.p = Len(Text) + 1

\* The other parser ends where an evaluation ends, so that what follows a condition or
\* a clause that is not run is read from the right place.
SkipAgrees == SkipPrec(Text, 1, 1) = Len(Text) + 1

\* An error is the result of the expression wherever it is not a right operand, an
\* index or a weak reference, however deep it happened.
ErrorsSurface == Fails(expr) => Prec(Text, 1, 1).v = Err
=============================================================================

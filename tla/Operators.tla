----------------------------- MODULE Operators -----------------------------
(***************************************************************************)
(* The binary operators of MiLa on values (mila.c, binary_op), applied one  *)
(* after another to an accumulator.  Integers have Width bits and wrap.    *)
(* A float is a fraction [n, d] with d > 0; d = 0 is an infinity or NaN.   *)
(* The items of a list are no lists: binary_op_items is binary_op for them. *)
(***************************************************************************)
EXTENDS Integers, SequencesExt

CONSTANTS
  Width,    \* bits of an integer
  Start,    \* the values the accumulator starts from
  Given,    \* the right operands
  MaxFloat, \* a float is used again if its fraction has no larger terms
  MaxText   \* a string is used again if it is no longer

VARIABLES acc

operator_vars == <<acc>>

\* The powers of two, up to the number of values of an integer.
TwoTo[k \in 0 .. Width] == IF k = 0 THEN 1 ELSE 2 * TwoTo[k - 1]
Mod == TwoTo[Width]
Half == TwoTo[Width - 1]
Wrap(n) == ((n + Half) % Mod) - Half
Abs(n) == IF n < 0 THEN -n ELSE n
\* C division and remainder go towards zero.
Sign(n) == IF n < 0 THEN -1 ELSE IF n = 0 THEN 0 ELSE 1
Rem(a, b) == Sign(a) * (Abs(a) % Abs(b))

vnull == [ty |-> "null"]
vnone == [ty |-> "none"]
vbool(b) == [ty |-> "bool", n |-> IF b THEN 1 ELSE 0]
vint(n) == [ty |-> "int", n |-> Wrap(n)]
vuint(n) == [ty |-> "uint", n |-> n % Mod]
vfloat(n, d) == [ty |-> "float", n |-> IF d < 0 THEN -n ELSE n, d |-> Abs(d)]
vstring(s) == [ty |-> "string", s |-> s]
List(items) == [ty |-> "list", items |-> items]
Dict(id, over) == [ty |-> "dict", id |-> id, over |-> over]  \* over: its overloads
Error == [ty |-> "error"]
crashed == [ty |-> "crash"]               \* the process is killed by SIGFPE
Called(id, op) == [ty |-> "called", id |-> id, op |-> op]    \* what an overload gave

\* Values as these make them; the constants hold no infinity.
IsItem(v) ==
  /\ v.ty = "int" => v = [ty |-> "int", n |-> v.n] /\ v.n \in -Half .. Half - 1
  /\ v.ty = "uint" => v = [ty |-> "uint", n |-> v.n] /\ v.n \in 0 .. Mod - 1
  /\ v.ty = "float" => v.n \in Int /\ v.d \in Nat
IsValue(v) ==
  IF v.ty # "list" THEN IsItem(v)
  ELSE /\ v.items \in Seq(Range(v.items))
       /\ \A item \in Range(v.items) : item.ty # "list" /\ IsItem(item) /\ (item.ty = "float" => item.d > 0)

ASSUME OperatorConstants ==
  /\ Width \in Nat \ {0}
  /\ \A v \in Start \cup Given : IsValue(v) /\ (v.ty = "float" => v.d > 0)

Numeric == {"int", "uint", "float"}
Blank == {"none", "null"}
Orders == {"<", ">", "<=", ">="}

\* An object whose :to_bool is overloaded decides itself; the others are true.
is_truthy(v) ==
  CASE v.ty \in {"int", "uint", "float", "bool"} -> v.n # 0
    [] v.ty = "string" -> v.s # <<>>
    [] v.ty = "dict" -> <<"to_bool", TRUE>> \notin v.over
    [] v.ty \in Blank -> FALSE
    [] OTHER -> TRUE

Compare(op, lt, eq) ==
  CASE op = "<" -> lt [] op = ">" -> ~lt /\ ~eq [] op = "<=" -> lt \/ eq
    [] op = ">=" -> ~lt [] op = "==" -> eq [] op = "!=" -> ~eq

to_uint(v) == IF v.ty = "float" THEN (Sign(v.n) * (Abs(v.n) \div v.d)) % Mod
              ELSE v.n % Mod

\* One of the two is unsigned: both are read as unsigned.
OnUInts(op, a, b) ==
  CASE op = "+" -> vuint(a + b) [] op = "-" -> vuint(a - b) [] op = "*" -> vuint(a * b)
    [] op = "/" -> IF b = 0 THEN crashed ELSE vuint(a \div b)
    [] op = "%" -> IF b = 0 THEN crashed ELSE vuint(a % b)
    [] op = "<<" -> vuint(a * TwoTo[b % Width]) [] op = ">>" -> vuint(a \div TwoTo[b % Width])
    [] op \in Orders \cup {"==", "!="} -> vbool(Compare(op, a < b, a = b))
    [] OTHER -> vnull

OnIntsUnwrapped(op, a, b) ==
  CASE op = "+" -> [ty |-> "int", n |-> IF a + b >= Half THEN Half - 1 ELSE Wrap(a + b)]
    [] op = "-" -> vint(a - b)
    [] op = "%" -> IF b = 0 THEN crashed ELSE vint(a % Abs(b))
    [] OTHER -> vnull

OnInts(op, a, b) ==
  CASE op = "+" -> vint(a + b) [] op = "-" -> vint(a - b) [] op = "*" -> vint(a * b)
    [] op = "/" -> vfloat(a, b)
    [] op = "%" -> IF b = 0 \/ (a = -Half /\ b = -1) THEN crashed ELSE vint(Rem(a, b))
    [] op = "<<" -> vint(a * TwoTo[b % Width]) [] op = ">>" -> vint(a \div TwoTo[b % Width])
    [] op \in Orders \cup {"==", "!="} -> vbool(Compare(op, a < b, a = b))
    [] OTHER -> vnull

to_double(v) == IF v.ty = "float" THEN v ELSE vfloat(v.n, 1)
\* Of finite floats; the model stops at an infinity.
OnFloats(op, a, b) ==
  CASE op = "+" -> vfloat(a.n * b.d + b.n * a.d, a.d * b.d)
    [] op = "-" -> vfloat(a.n * b.d - b.n * a.d, a.d * b.d)
    [] op = "*" -> vfloat(a.n * b.n, a.d * b.d)
    [] op = "/" -> vfloat(a.n * b.d, a.d * b.n)
    [] op \in Orders \cup {"==", "!="} -> vbool(Compare(op, a.n * b.d < b.n * a.d, a.n * b.d = b.n * a.d))
    [] OTHER -> vnull

OnNumbersByLeft(op, a, b) ==
  CASE a.ty = "uint" -> OnUInts(op, a.n, to_uint(b))
    [] a.ty = "float" -> OnFloats(op, a, to_double(b))
    [] OTHER -> OnInts(op, a.n, b.n)

OnNumbers(op, a, b) ==
  CASE "uint" \in {a.ty, b.ty} -> OnUInts(op, to_uint(a), to_uint(b))
    [] "uint" \notin {a.ty, b.ty} /\ "float" \in {a.ty, b.ty} -> OnFloats(op, to_double(a), to_double(b))
    [] OTHER -> OnInts(op, a.n, b.n)

\* The overload an operator looks for: < and <= share one, > and >= too.
Overload(op, right) ==
  LET key == CASE op = "<" -> "<=" [] op = ">" -> ">=" [] OTHER -> op
  IN <<key, right>>
Overloadable == Orders \cup {"+", "-", "*", "/", "%", "==", "!=", "<<", ">>"}

binary_op_objects(right, a, op) ==
  IF op \in Overloadable /\ Overload(op, right) \in a.over THEN Called(a.id, op) ELSE vnull

\* Texts of other values: as_c_string.
Displayed(v) == CASE v.ty = "string" -> v.s
              [] v.ty \in Numeric \cup {"bool"} -> <<"number">>
              [] OTHER -> <<v.ty>>

\* Lists differ when their lengths do; <, >, <= and >= then go by the first items that
\* differ, and every item must be a number.
ListOrder(a, b) ==
  LET differ == {i \in DOMAIN a : to_double(a[i]).n * to_double(b[i]).d
                                    # to_double(b[i]).n * to_double(a[i]).d}
      Lt(x, y) == OnFloats("<", to_double(x), to_double(y)).n = 1
  IN CASE Len(a) # Len(b) -> IF Len(a) < Len(b) THEN -1 ELSE 1
       [] Len(a) = Len(b) /\ differ = {} -> 0
       [] OTHER -> IF Lt(a[Min(differ)], b[Min(differ)]) THEN -1 ELSE 1

\* The same object; values of other kinds are not stored twice in the model.
Same(a, b) == a.ty = b.ty /\ a.ty = "dict" /\ a.id = b.id

OnOthers(op, a, b) ==
  CASE op = "==" -> vbool(IF a.ty = "string" /\ b.ty = "string" THEN a.s = b.s ELSE Same(a, b))
    [] op = "!=" -> vbool(~(IF a.ty = "string" /\ b.ty = "string" THEN a.s = b.s ELSE Same(a, b)))
    [] op = "+" /\ "string" \in {a.ty, b.ty} -> vstring(Displayed(a) \o Displayed(b))
    [] OTHER -> IF a.ty = "dict" THEN binary_op_objects(TRUE, a, op)
                ELSE IF b.ty = "dict" THEN binary_op_objects(FALSE, b, op) ELSE vnull

Logical == {"??", "||", "&&"}

\* Of two values that are not both lists.
binary_op_items(a, op, b) ==
  LET blank == a.ty \in Blank /\ b.ty \in Blank
  IN CASE blank -> IF op \in {"==", "!="} THEN vbool((a.ty = b.ty) = (op = "==")) ELSE vnull
       [] ~blank /\ op = "??" -> IF is_truthy(a) THEN a ELSE b
       [] ~blank /\ op = "||" -> vbool(is_truthy(a) \/ is_truthy(b))
       [] ~blank /\ op = "&&" -> vbool(is_truthy(a) /\ is_truthy(b))
       [] op \notin Logical /\ a.ty \in Numeric /\ b.ty \in Numeric -> OnNumbers(op, a, b)
       [] OTHER -> OnOthers(op, a, b)

\* == asks the items; != first asks the lengths, which come first in the arrays the
\* lists are copied to, and is false as soon as they are equal.
OnLists(op, a, b) ==
  LET Equal(i) == is_truthy(binary_op_items(a[i], "==", b[i]))
  IN CASE op = "==" -> vbool(Len(a) = Len(b) /\ \A i \in DOMAIN a : Equal(i))
       [] op = "!=" -> vbool(Len(a) # Len(b))
       [] op \in Orders -> IF Len(a) = Len(b) /\ \E i \in DOMAIN a : {a[i].ty, b[i].ty} \ Numeric # {}
                           THEN Error
                           ELSE vbool(Compare(op, ListOrder(a, b) = -1, ListOrder(a, b) = 0))
       [] OTHER -> vnull

binary_op(a, op, b) ==
  IF a.ty = "list" /\ b.ty = "list" /\ op \notin Logical
  THEN OnLists(op, a.items, b.items) ELSE binary_op_items(a, op, b)

AllOps == {"+", "-", "*", "/", "%", "==", "!=", "<<", ">>"} \cup Logical \cup Orders

---------------------------------------------------------------------------
OperatorInit == acc \in Start

\* What may be an operand again, within the bounds of the model.
Usable(v) ==
  CASE v.ty = "float" -> v.d \in 1 .. MaxFloat /\ Abs(v.n) <= MaxFloat
    [] v.ty = "string" -> Len(v.s) <= MaxText
    [] v.ty \in {"crash", "error", "called"} -> FALSE
    [] OTHER -> TRUE

Apply == \E op \in AllOps, v \in Given : Usable(acc) /\ acc' = binary_op(acc, op, v)

OperatorNext == Apply
OperatorSpec == OperatorInit /\ [][OperatorNext]_operator_vars

---------------------------------------------------------------------------
(* Properties.                                                             *)

Holds(v) == v = vbool(TRUE)
OneOf(p, q, r) == (p /\ ~q /\ ~r) \/ (~p /\ q /\ ~r) \/ (~p /\ ~q /\ r)
NumberList(v) == v.ty = "list" /\ \A i \in DOMAIN v.items : v.items[i].ty \in {"int", "float"}
Comparable(a, b) == (a.ty \in Numeric /\ b.ty \in Numeric) \/ (NumberList(a) /\ NumberList(b))

\* Of two numbers of any types, or two lists of signed numbers, exactly one of <, == and
\* > holds, <= and >= are their unions, and each is the mirror of the other way. (In
\* lists an unsigned item is equal as an unsigned number but ordered as a float.)
OrderIsTotal ==
  \A v \in {w \in Given : Usable(acc) /\ Comparable(acc, w)} :
    LET Is(op) == Holds(binary_op(acc, op, v))
        Back(op) == Holds(binary_op(v, op, acc))
    IN /\ OneOf(Is("<"), Is("=="), Is(">"))
       /\ Is("<=") = (Is("<") \/ Is("=="))
       /\ Is(">=") = (Is(">") \/ Is("=="))
       /\ Is("<") = Back(">") /\ Is("==") = Back("==")

\* Integers that overflow wrap, so that what was added can be taken away again, and the
\* remainder is the one of C: smaller than the divisor, of the sign of the dividend.
ArithmeticWraps ==
  \A v \in {w \in Given : acc.ty \in {"int", "uint"} /\ w.ty = acc.ty} :
    /\ binary_op(binary_op(acc, "+", v), "-", v) = acc
    /\ binary_op(binary_op(acc, "-", v), "+", v) = acc
    /\ LET r == binary_op(acc, "%", v)
       IN r # crashed => /\ Abs(r.n) < Abs(v.n)
                         /\ r.n = 0 \/ Sign(r.n) = Sign(acc.n)
                         /\ \E q \in -Mod .. Mod : acc.n = q * v.n + r.n

\* != is the opposite of ==.
NotEqualIsNot ==
  \A v \in {w \in Given : Usable(acc)} :
    Holds(binary_op(acc, "!=", v)) = ~Holds(binary_op(acc, "==", v))

\* The same, but for lists.
NotEqualIsNotExceptLists == acc.ty # "list" => NotEqualIsNot

\* Integers wrap round at their width, so that what was added can be taken away again, and
\* != is the negation of ==, except for lists (binary_op in mila.c).
OperatorsInvert == ArithmeticWraps /\ NotEqualIsNotExceptLists
=============================================================================

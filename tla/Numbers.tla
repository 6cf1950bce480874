------------------------------- MODULE Numbers -------------------------------
(***************************************************************************)
(* Number literals (mila.c): how the interpreter reads them, how it skips  *)
(* them, and how it prints the numbers it has.  A text is a sequence of    *)
(* characters, which are their codes; a position after its end reads 0.    *)
(* A number is printed, and then its text grows.                           *)
(***************************************************************************)
EXTENDS Integers, SequencesExt, FiniteSetsExt

CONSTANTS
  MaxLong,         \* LONG_MAX, 2^63 - 1 in the code
  MaxNumberDigits, \* MAX_NUMBER_DIGITS, 19 in the code
  MaxLiteral,      \* bound of a text that grows,
  LiteralChars     \* and what it grows by

\* A C string has no 0 in it.
ASSUME NumberConstants ==
  /\ MaxLong \in Nat /\ MaxNumberDigits \in Nat
  /\ LiteralChars \subseteq Nat \ {0}

VARIABLES
  number,  \* what was printed; Unprinted when the text has grown since
  literal

number_vars == <<number, literal>>

Digits == 48 .. 57
HexDigits == Digits \cup 65 .. 70 \cup 97 .. 102
Plus == 43  Minus == 45  Point == 46
SmallU == 117
LetterU == {85, SmallU}
LetterX == {88, 120}
DigitValue(c) ==
  IF c \in Digits THEN c - 48 ELSE IF c \in 65 .. 70 THEN c - 55 ELSE c - 87

\* vint, vuint and vfloat.  A float is what atof reads: the digits before and behind
\* the point; exponents are left out.
Signed(n) == [ty |-> "int", n |-> n]
Unsigned(n) == [ty |-> "uint", n |-> n]
Float(sign, whole, part) == [ty |-> "float", n |-> <<sign, whole, part>>]
Unprinted == [ty |-> "none", n |-> 0]
NoValue == [ty |-> "NULL", n |-> 0]   \* a C NULL, which no caller expects
Aborted == [ty |-> "abort", n |-> 0]  \* the process aborts
BadPart == [ty |-> "error", n |-> 0]

src_peek(t, p) == IF p \in DOMAIN t THEN t[p] ELSE 0
Got(v, p) == [v |-> v, p |-> p]

\* Behind the characters of cs that stand from p on.
Span(t, p, cs) == Max({e \in p .. Len(t) + 1 : \A i \in p .. e - 1 : t[i] \in cs})

---------------------------------------------------------------------------
(* The C library.                                                          *)

Worth(run, base) ==
  LET Sum[i \in 0 .. Len(run)] ==
        IF i = 0 THEN 0 ELSE Sum[i - 1] * base + DigitValue(run[i])
  IN Sum[Len(run)]

DigitsFrom(t, p, digits) == SubSeq(t, p, Span(t, p, digits) - 1)
BehindSign(t) == IF src_peek(t, 1) \in {Minus, Plus} THEN 2 ELSE 1
SignOf(t) == IF src_peek(t, 1) = Minus THEN -1 ELSE 1
Saturated(n) ==
  IF n > MaxLong THEN MaxLong ELSE IF n < -MaxLong - 1 THEN -MaxLong - 1 ELSE n

\* strtol saturates; base 16 takes an 0x that a digit follows.
strtol(t, base) ==
  LET p == BehindSign(t)
      prefixed == /\ base = 16 /\ src_peek(t, p) = 48 /\ src_peek(t, p + 1) \in LetterX
                  /\ src_peek(t, p + 2) \in HexDigits
      first == IF prefixed THEN p + 2 ELSE p
      run == DigitsFrom(t, first, IF base = 16 THEN HexDigits ELSE Digits)
  IN Got(Saturated(SignOf(t) * Worth(run, base)), IF run = <<>> THEN 1 ELSE first + Len(run))

atof(t) ==
  LET whole == DigitsFrom(t, BehindSign(t), Digits)
      point == BehindSign(t) + Len(whole)
      part == IF src_peek(t, point) = Point THEN DigitsFrom(t, point + 1, Digits) ELSE <<>>
  IN Float(SignOf(t), whole, part)

\* printf, %lu
MaxULong == 2 * MaxLong + 1
Decimal[n \in 0 .. MaxULong] ==
  IF n < 10 THEN <<48 + n>> ELSE Append(Decimal[n \div 10], 48 + (n % 10))

---------------------------------------------------------------------------
\* eval_primary and skip_primary: a digit, or a sign and a digit.
StartsNumber(t, p) ==
  \/ src_peek(t, p) \in Digits
  \/ src_peek(t, p) \in {Minus, Plus} /\ src_peek(t, p + 1) \in Digits

NumberMarks == {Point} \cup LetterX
NumberChars == HexDigits \cup NumberMarks

\* Where the literal ends: one point or one x is part of it, and all hexadecimal digits.
LiteralEnd(t, p) ==
  Max({e \in p .. Span(t, p, NumberChars) :
         \A i, j \in p .. e - 1 : {t[i], t[j]} \subseteq NumberMarks => i = j})

Unmarked(t, p) == IF src_peek(t, p) = Minus THEN p + 1 ELSE p
HasChar(t, p, end, cs) == \E i \in p .. end - 1 : t[i] \in cs

\* A - is part of the literal, a + is not read; digits of the wrong base are read and
\* not counted; a suffix u takes the sign away.
parse_number(t, p) ==
  LET mark == LiteralEnd(t, Unmarked(t, p))
      unsigned == src_peek(t, mark) \in LetterU
      end == IF unsigned THEN mark + 1 ELSE mark
      body == SubSeq(t, p, end - 1)
      i == strtol(body, IF HasChar(t, p, mark, LetterX) THEN 16 ELSE 10).v
  IN CASE end = p -> Got(NoValue, p)
       [] end # p /\ end - p >= MaxNumberDigits -> Got(Aborted, end)
       [] end # p /\ end - p < MaxNumberDigits /\ HasChar(t, p, mark, {Point}) -> Got(atof(body), end)
       [] OTHER -> Got(IF unsigned THEN Unsigned(IF i > 0 THEN i ELSE -i) ELSE Signed(i), end)

\* The other parser takes any number of points and x.
skip_digits(t, p) ==
  Span(t, IF src_peek(t, p) \in {Minus, Plus} THEN p + 1 ELSE p, NumberChars)
skip_number(t, p) ==
  LET end == skip_digits(t, p)
  IN IF src_peek(t, end) \in LetterU THEN end + 1 ELSE end

\* %ld and %luu.
as_c_string(v) ==
  IF v.ty = "uint" THEN Append(Decimal[v.n], SmallU)
  ELSE IF v.n < 0 THEN <<Minus>> \o Decimal[-v.n] ELSE Decimal[v.n]

\* Natives of the object cast.
native_cast_int(t) ==
  LET r == strtol(t, 10) IN IF src_peek(t, r.p) = 0 THEN Signed(r.v) ELSE BadPart
native_cast_int_to_uint(v) == Unsigned(v.n % (MaxULong + 1))
native_cast_uint_to_int(v) == Signed(IF v.n > MaxLong THEN v.n - MaxULong - 1 ELSE v.n)

---------------------------------------------------------------------------
Printable == {Signed(n) : n \in -MaxLong - 1 .. MaxLong} \cup {Unsigned(n) : n \in 0 .. MaxULong}

NumberInit == number \in Printable /\ literal = as_c_string(number)
Grow == /\ Len(literal) < MaxLiteral
        /\ \E c \in LiteralChars : literal' = Append(literal, c)
        /\ number' = Unprinted
NumberSpec == NumberInit /\ [][Grow]_number_vars

---------------------------------------------------------------------------
(* Properties.                                                             *)

\* A number that is printed is read back as itself, unless its text is so long that it
\* aborts the interpreter (parse_number, as_c_string in mila.c), and cast.int reads each
\* signed one. An unsigned number above LONG_MAX is longer than that in the code.
PrintedReadsBack ==
  number # Unprinted =>
    /\ Len(literal) < MaxNumberDigits /\ (number.ty = "uint" => number.n <= MaxLong) =>
         parse_number(literal, 1) = Got(number, Len(literal) + 1)
    /\ number.ty = "int" => /\ native_cast_int(literal) = number
                            /\ native_cast_uint_to_int(native_cast_int_to_uint(number)) = number

\* A literal that is skipped ends where it ends when it is read, if it has no + and not
\* two of the characters . and x (parse_number and skip_primary in mila.c); and cast.int
\* gives the number that it means, or an error.
LiteralsEndAlike ==
  LET marks == {i \in DOMAIN literal : literal[i] \in NumberMarks}
      read == parse_number(literal, 1)
  IN StartsNumber(literal, 1) /\ literal[1] # Plus =>
       /\ Cardinality(marks) <= 1 => skip_number(literal, 1) = read.p
       /\ native_cast_int(literal).ty = "int" /\ read.v # Aborted =>
            native_cast_int(literal) = read.v

\* A number that is printed is read back as itself, and a literal that is skipped ends
\* where it ends when it is read (parse_number and skip_primary in mila.c).
NumbersReadBack == PrintedReadsBack /\ LiteralsEndAlike
=============================================================================

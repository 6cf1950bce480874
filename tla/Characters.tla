------------------------------ MODULE Characters ------------------------------
(***************************************************************************)
(* The characters that mean something in patterns and in strings, by their *)
(* codes, and the positions of a text.  A text is a sequence of characters *)
(* without the NUL, which is read at the positions after its end.          *)
(***************************************************************************)
EXTENDS Integers, Sequences

Bang == 33  Quote == 34  Dollar == 36  Star == 42  Dash == 45  Query == 63
\* [ \ ] and { }
Bracket == 91  Backslash == 92  Unbracket == 93  Brace == 123  Unbrace == 125

CharAt(t, p) == IF p \in 1 .. Len(t) THEN t[p] ELSE 0
EndOf(t) == Len(t) + 1

\* Behind the character at p, which may be an escaped one.
NextChar(t, p) == IF t[p] = Backslash /\ p < Len(t) THEN p + 2 ELSE p + 1
=============================================================================

-------------------------------- MODULE Texts --------------------------------
(***************************************************************************)
(* What the natives of the str object make of strings (ml_primitives.c,    *)
(* mila.c): parts of them, searches, replacement, split and join, and the  *)
(* substitution of ${name} in code.  A string grows by a fragment at a     *)
(* time.  What the code does in a loop over a string is a function of the  *)
(* position where the loop stands.                                         *)
(***************************************************************************)
EXTENDS Characters, SequencesExt, FiniteSetsExt

CONSTANTS
  Fragments,       \* what a string grows by
  MaxGrow,         \* bound: how many fragments it has
  Name,            \* the name that is substituted
  Repr, PlainForm, \* what ${Name} and ${Name!} become
  Spare            \* a character that no fragment has

\* A C string has no 0 in it.
ASSUME TextConstants ==
  /\ Spare \in Nat \ {0} /\ Fragments \subseteq Seq(Nat \ {0, Spare})
  /\ Name \in Seq(Nat \ {0}) /\ Repr \in Seq(Nat \ {0}) /\ PlainForm \in Seq(Nat \ {0})

VARIABLES source, source_size

string_vars == <<source, source_size>>

NoPlace == 0    \* the C NULL of a position
NotFound == -1  \* what a script is told

\* strncmp at p
StandsAt(n, t, p) == \A i \in DOMAIN n : CharAt(t, p + i - 1) = n[i]

---------------------------------------------------------------------------
(* Parts and searches.  Indexes count from 0, as the script's do.          *)

vstring_slice(t, start, len) ==
  IF start > Len(t) THEN "error"
  ELSE SubSeq(t, start + 1, start + (IF start + len > Len(t) THEN Len(t) - start ELSE len))

\* str.slice without a length.
native_str_slice(t, start) == vstring_slice(t, start, Len(SubSeq(t, start + 1, Len(t))))

vstring_index(t, i) == IF i >= Len(t) THEN <<>> ELSE <<t[i + 1]>>

\* The first n from p on.
PlacesFrom(t, n, p) == {q \in p .. EndOf(t) : StandsAt(n, t, q)}
strstr(t, n, p) == IF PlacesFrom(t, n, p) = {} THEN NoPlace ELSE Min(PlacesFrom(t, n, p))

native_str_find(n, t) == IF strstr(t, n, 1) = NoPlace THEN NotFound ELSE strstr(t, n, 1) - 1
native_str_contains(n, t) == strstr(t, n, 1) # NoPlace
native_str_startsw(t, n) == StandsAt(n, t, 1)
\* Of a suffix that is not longer than the string.
native_str_endsw(t, n) == SubSeq(t, EndOf(t) - Len(n), Len(t)) = n

vstring_replace(t, n, r) ==
  LET From[p \in 1 .. EndOf(t)] ==
        LET m == strstr(t, n, p)
        IN IF m = NoPlace THEN SubSeq(t, p, Len(t))
           ELSE SubSeq(t, p, m - 1) \o r \o From[m + Len(n)]
  IN IF n = <<>> THEN t ELSE From[1]

\* strtok_r: the longest runs without any of the characters of delims.
TokenEnd(t, delims, p) == Min({e \in p .. EndOf(t) : e = EndOf(t) \/ t[e] \in Range(delims)})
native_str_split(t, delims) ==
  LET From[p \in 1 .. EndOf(t)] ==
        IF p = EndOf(t) THEN <<>>
        ELSE IF t[p] \in Range(delims) THEN From[p + 1]
        ELSE <<SubSeq(t, p, TokenEnd(t, delims, p) - 1)>> \o From[TokenEnd(t, delims, p)]
  IN From[1]

\* A string whose pointer is NULL, which is no text and crashes who reads it: no other
\* string has a 0 in it.
NoText == <<0>>
native_str_join(delim, parts) ==
  IF parts = <<>> THEN NoText
  ELSE FlattenSeq([i \in DOMAIN parts |-> IF i < Len(parts) THEN parts[i] \o delim ELSE parts[i]])

---------------------------------------------------------------------------
(* substitute_text: literals and !{ } are copied as they stand.            *)

\* Behind the next quote, and behind the one that ends the literal with the character at p.
AfterQuote(t, p) ==
  LET quotes == {q \in p .. Len(t) : t[q] = Quote}
  IN IF quotes = {} THEN EndOf(t) ELSE Min(quotes) + 1
AfterLiteral(t, p) ==
  LET From[q \in 1 .. EndOf(t)] ==
        IF q = EndOf(t) THEN q ELSE IF t[q] = Quote THEN q + 1 ELSE From[NextChar(t, q)]
  IN From[p]

\* Behind the } that closes the { before p.
AfterBraces(t, p) ==
  LET From[q \in 1 .. EndOf(t)] ==
        [depth \in Nat \ {0} |->
           IF q = EndOf(t) THEN q
           ELSE IF t[q] = Unbrace /\ depth = 1 THEN q + 1
           ELSE From[q + 1][CASE t[q] = Brace -> depth + 1
                              [] t[q] = Unbrace -> depth - 1
                              [] OTHER -> depth]]
  IN From[p][1]

OpenBlock == <<Bang, Brace>>
Hole == <<Dollar, Brace>> \o Name \o <<Unbrace>>
PlainHole == <<Dollar, Brace>> \o Name \o <<Bang, Unbrace>>

\* One turn of the loop at p: where it goes on, and what it writes.
AfterTurn(t, p) ==
  CASE t[p] = Quote -> AfterLiteral(t, p + 1)
    [] StandsAt(OpenBlock, t, p) -> AfterBraces(t, p + Len(OpenBlock))
    [] StandsAt(Hole, t, p) -> p + Len(Hole)
    [] StandsAt(PlainHole, t, p) -> p + Len(PlainHole)
    [] OTHER -> p + 1
Written(t, p) ==
  CASE StandsAt(Hole, t, p) -> Repr
    [] StandsAt(PlainHole, t, p) -> PlainForm
    [] OTHER -> SubSeq(t, p, AfterTurn(t, p) - 1)

substitute_text(t) ==
  LET From[p \in 1 .. EndOf(t)] ==
        IF p = EndOf(t) THEN <<>> ELSE Written(t, p) \o From[AfterTurn(t, p)]
  IN From[1]

---------------------------------------------------------------------------
StringInit == source = <<>> /\ source_size = 0
StringNext == /\ source_size < MaxGrow
              /\ \E f \in Fragments : source' = source \o f
              /\ source_size' = source_size + 1
StringSpec == StringInit /\ [][StringNext]_string_vars

---------------------------------------------------------------------------
(* Properties.                                                             *)

\* The state in which the character behind the one at p is met, if that one is met in
\* state m: in code ("out"), in a literal, behind a backslash in one, in so many braces,
\* or in a placeholder of which so many characters are left.
AfterChar(m, t, p) ==
  LET go(state, n) == <<state, n>>
      is(state, c) == m[1] = state /\ t[p] = c
      opens(what) == m[1] = "out" /\ StandsAt(what, t, p)
  IN CASE is("out", Quote) -> go("lit", 0)
       \* The { of !{ is counted when it is met.
       [] opens(OpenBlock) -> go("in", 0)
       [] opens(Hole) -> go("hole", Len(Hole) - 1)
       [] opens(PlainHole) -> go("hole", Len(PlainHole) - 1)
       [] is("lit", Backslash) /\ p < Len(t) -> go("esc", 0)
       [] is("lit", Quote) -> go("out", 0)
       [] m[1] = "esc" -> go("lit", 0)
       [] is("in", Brace) -> go("in", m[2] + 1)
       [] is("in", Unbrace) -> IF m[2] > 1 THEN go("in", m[2] - 1) ELSE go("out", 0)
       [] m[1] = "hole" -> IF m[2] > 1 THEN go("hole", m[2] - 1) ELSE go("out", 0)
       [] OTHER -> m

\* The states after the characters of t, from none on.
StatesOf(t) ==
  LET After[p \in 0 .. Len(t)] ==
        IF p = 0 THEN <<"out", 0>> ELSE AfterChar(After[p - 1], t, p)
  IN After

\* What the character at p, met in state m, becomes.
Becomes(t, p, m) ==
  CASE m[1] = "out" /\ StandsAt(Hole, t, p) -> Repr
    [] m[1] = "out" /\ StandsAt(PlainHole, t, p) -> PlainForm
    [] m[1] = "hole" -> <<>>
    [] OTHER -> <<t[p]>>

\* Substitution replaces the placeholders that stand in code and no other
\* character: none in a string literal, escaped quotes or not, and none in a !{ }
\* whose braces are not all closed (substitute_text).
SubstitutesInCodeOnly ==
  LET states == StatesOf(source) IN
  substitute_text(source) =
    FlattenSeq([p \in DOMAIN source |-> Becomes(source, p, states[p - 1])])

\* str.split undoes str.join of one part or more, none of them empty; what it loses of a
\* string are the delimiters that stand together or at an end.  A string of delimiters has
\* no part, and what str.join makes of none cannot be split.
SplitUndoesJoin ==
  \A d \in Range(source) :
    LET parts == native_str_split(source, <<d>>) IN
    /\ parts # <<>> => native_str_split(native_str_join(<<d>>, parts), <<d>>) = parts
    /\ FlattenSeq(parts) =
         FlattenSeq([p \in DOMAIN source |-> IF source[p] = d THEN <<>> ELSE <<source[p]>>])

PlaceAgrees(t, n) ==
  LET i == native_str_find(n, t)
      other == vstring_replace(t, n, <<Spare>>)
  IN /\ native_str_contains(n, t)
     /\ vstring_slice(t, i, Len(n)) = n
     /\ native_str_startsw(t, n) <=> i = 0
     /\ native_str_endsw(t, n) <=> StandsAt(Reverse(n), Reverse(t), 1)
     /\ vstring_slice(t, 0, i) \o n \o native_str_slice(t, i + Len(n)) = t
     /\ vstring_index(t, i) = <<n[1]>>
     /\ vstring_replace(other, <<Spare>>, n) = t
     /\ ~native_str_contains(n, other)

\* Searches, parts and replacement speak of the same places of a string, whatever part
\* of it is looked for.
PlacesAgree ==
  \A i \in DOMAIN source : \A j \in i .. Len(source) : PlaceAgrees(source, SubSeq(source, i, j))

\* What scripts are told of a string, cut or put together from it or substituted in it,
\* is what the string holds (the string natives and substitute_text).
TextsKeepTheirMeaning == SubstitutesInCodeOnly /\ SplitUndoesJoin /\ PlacesAgree
=============================================================================

------------------------------ MODULE Wildcards ------------------------------
(***************************************************************************)
(* The wildcard patterns of MiLa (mila.c): ? one character, * any, [set]   *)
(* one of a set, {set} one or more of a set, \ the next character itself.  *)
(* match is the operator =>; find_match and its greedy form, and the two   *)
(* replacements, are builtins.  Characters are their codes; a position     *)
(* after the end reads 0.  NoMatch is the C NULL of a position.  What the  *)
(* code does by recursion is a function of the position in the pattern.    *)
(***************************************************************************)
EXTENDS Characters, SequencesExt, FiniteSetsExt

CONSTANTS
  Beginnings,                 \* how a pattern begins,
  PatternChars, MaxWritten,   \* and what it goes on with
  SubjectChars, MaxSubject    \* the strings it is matched with

\* A C string has no 0 in it.
ASSUME WildcardConstants ==
  /\ PatternChars \subseteq Nat \ {0} /\ SubjectChars \subseteq Nat \ {0}
  /\ Beginnings \subseteq Seq(Nat \ {0})

VARIABLES pattern, written, subject

wildcard_vars == <<pattern, written, subject>>

NoMatch == 0

\* The first unescaped c from p on, or NoMatch.
find_close(t, p, c) ==
  LET From[i \in 1 .. EndOf(t)] ==
        IF i = EndOf(t) THEN NoMatch ELSE IF t[i] = c THEN i ELSE From[NextChar(t, i)]
  IN From[p]

\* The characters, lo-hi or one, at p in a set that ends before end.
SetItem(t, p, end) ==
  IF t[p] = Backslash /\ p + 1 < end THEN [char |-> t[p + 1], next |-> p + 2]
  ELSE [char |-> t[p], next |-> p + 1]
SetRange(t, p, end) ==
  LET lo == SetItem(t, p, end)
      ranges == lo.next + 1 < end /\ t[lo.next] = Dash
      hi == IF ranges THEN SetItem(t, lo.next + 1, end) ELSE lo
  IN [chars |-> lo.char .. hi.char, next |-> hi.next]

\* Is c in the set t[p .. end - 1].
set_match(t, p, end, c) ==
  LET From[i \in 1 .. end] ==
        IF i = end THEN FALSE
        ELSE c \in SetRange(t, i, end).chars \/ From[SetRange(t, i, end).next]
  IN From[p]

---------------------------------------------------------------------------
(* One piece at the head of a pattern: how many characters it takes, and   *)
(* where the rest of the pattern starts.                                   *)

ClosedBy(t, p) == find_close(t, p + 1, IF t[p] = Bracket THEN Unbracket ELSE Unbrace)
IsRun(t, p) == t[p] = Brace /\ ClosedBy(t, p) # NoMatch
IsSet(t, p) == t[p] = Bracket /\ ClosedBy(t, p) # NoMatch
InSet(t, p, c) == c # 0 /\ set_match(t, p + 1, ClosedBy(t, p), c)
Repeats(t, p) == t[p] = Star \/ IsRun(t, p)

\* The pieces that take exactly one character; NoMatch, or the rest of the pattern.
One(t, p, c) ==
  CASE t[p] = Backslash -> IF p < Len(t) /\ c = t[p + 1] THEN p + 2 ELSE NoMatch
    [] t[p] = Query -> IF c # 0 THEN p + 1 ELSE NoMatch
    [] IsSet(t, p) -> IF InSet(t, p, c) THEN ClosedBy(t, p) + 1 ELSE NoMatch
    [] t[p] \notin {Backslash, Query} /\ ~IsSet(t, p) -> IF c = t[p] THEN p + 1 ELSE NoMatch

\* Where a * or a {set} may stop in s when it starts at q.
RunEnd(t, p, s, q) == Max({e \in q .. EndOf(s) : \A i \in q .. e - 1 : InSet(t, p, s[i])})
RunStopsOrNone(t, p, s, q) == IF t[p] = Star THEN q .. EndOf(s) ELSE q .. RunEnd(t, p, s, q)
RunStops(t, p, s, q) == IF t[p] = Star THEN q .. EndOf(s) ELSE q + 1 .. RunEnd(t, p, s, q)
AfterRun(t, p) == IF t[p] = Star THEN p + 1 ELSE ClosedBy(t, p) + 1

---------------------------------------------------------------------------
\* The whole of s.
do_match(t, s) ==
  LET Matches[p \in 1 .. EndOf(t)] ==
        [q \in 1 .. EndOf(s) |->
           IF p = EndOf(t) THEN q = EndOf(s)
           ELSE IF Repeats(t, p) THEN \E e \in RunStops(t, p, s, q) : Matches[AfterRun(t, p)][e]
           ELSE LET r == One(t, p, CharAt(s, q)) IN r # NoMatch /\ Matches[r][q + 1]]
  IN Matches[1][1]

\* Of the stops of a * or {set} that work, the last if greedy, else the first.
Preferred(stops, greedy) == IF greedy THEN Max(stops) ELSE Min(stops)

\* The positions after a match, by the position where it starts.
MatchEnds(t, s, greedy) ==
  LET Ends[p \in 1 .. EndOf(t)] ==
        [q \in 1 .. EndOf(s) |->
           IF p = EndOf(t) THEN q
           ELSE IF Repeats(t, p) THEN
             LET good == {e \in RunStops(t, p, s, q) : Ends[AfterRun(t, p)][e] # NoMatch}
             IN IF good = {} THEN NoMatch ELSE Ends[AfterRun(t, p)][Preferred(good, greedy)]
           ELSE LET r == One(t, p, CharAt(s, q))
                IN IF r = NoMatch THEN NoMatch ELSE Ends[r][q + 1]]
  IN Ends[1]

match_end(t, s) == MatchEnds(t, s, FALSE)
greedy_match_first(t, s) == MatchEnds(t, s, FALSE)
greedy_match_end(t, s) == MatchEnds(t, s, TRUE)

\* The leftmost match from q on, as [start, end]; start is NoMatch if there is none.
Leftmost(ends, s, q) ==
  LET starts == {b \in q .. EndOf(s) : ends[b] # NoMatch}
  IN IF starts = {} THEN [start |-> NoMatch, end |-> NoMatch]
     ELSE [start |-> Min(starts), end |-> ends[Min(starts)]]

find_match(t, s) == Leftmost(match_end(t, s), s, 1)
find_match_greedy(t, s) == Leftmost(greedy_match_end(t, s), s, 1)

\* The \ directly before i, from from on.
SlashesBefore(t, from, i) == i - Min({k \in from .. i : \A m \in k .. i - 1 : t[m] = Backslash})

\* $ in a replacement stands for what was matched, unless an odd number of backslashes
\* is before it; those stay.
replace_dollar(matched, rep) ==
  FlattenSeq([i \in 1 .. Len(rep) |->
    IF rep[i] = Dollar /\ SlashesBefore(rep, 1, i) % 2 = 0 THEN matched ELSE <<rep[i]>>])

\* One turn of a replacement at q: m is the match that find_match found, by what it is
\* replaced; after an empty match the next character is copied.
CopiedNoChar(s, m) == <<>>
CopiedChar(s, m) == IF m.end = m.start /\ m.end <= Len(s) THEN <<s[m.end]>> ELSE <<>>
Replaced(s, rep, dollars, m, q) ==
  SubSeq(s, q, m.start - 1)
    \o (IF dollars THEN replace_dollar(SubSeq(s, m.start, m.end - 1), rep) ELSE rep)
    \o CopiedChar(s, m)
Cursor(s, m) == IF m.end = m.start /\ m.end <= Len(s) THEN m.end + 1 ELSE m.end

\* Both replacements: up to count matches (-1: all), each replaced by rep. dollars is
\* replace_match.
Replace(t, s, rep, dollars, count) ==
  LET ends == IF dollars THEN greedy_match_end(t, s) ELSE match_end(t, s)
      From[q \in 1 .. EndOf(s)] ==
        [left \in Int |->
           LET m == Leftmost(ends, s, q)
               turn == Replaced(s, rep, dollars, m, q)
           IN IF left = 0 \/ left < -1 \/ m.start = NoMatch THEN SubSeq(s, q, Len(s))
              ELSE IF Cursor(s, m) = EndOf(s) THEN turn
              ELSE turn \o From[Cursor(s, m)][IF left = -1 THEN -1 ELSE left - 1]]
  IN From[1][count]

mapped_replace_match(t, s, rep, count) == Replace(t, s, rep, FALSE, count)
replace_match(t, s, rep, count) == Replace(t, s, rep, TRUE, count)

---------------------------------------------------------------------------
WildcardInit == pattern \in Beginnings /\ written = 0 /\ subject = <<>>

WritePattern ==
  /\ subject = <<>> /\ written < MaxWritten
  /\ written' = written + 1
  /\ \E c \in PatternChars : pattern' = Append(pattern, c)
  /\ UNCHANGED subject
WriteSubject ==
  /\ Len(subject) < MaxSubject
  /\ \E c \in SubjectChars : subject' = Append(subject, c)
  /\ UNCHANGED <<pattern, written>>

WildcardNext == WritePattern \/ WriteSubject

WildcardSpec == WildcardInit /\ [][WildcardNext]_wildcard_vars

---------------------------------------------------------------------------
(* What a pattern means: the pieces it consists of, each with the          *)
(* characters it takes, whether it takes one or a run of at least least,   *)
(* and where the next one starts.                                          *)

Piece(takes, run, least, next) == [takes |-> takes, run |-> run, least |-> least, next |-> next]
AnyChars == SubjectChars \cup PatternChars

\* The characters of a set: an escaped one stands behind its backslash.
Members(t, from, end) ==
  LET Place(i) == IF t[i] = Backslash /\ i + 1 < end THEN i + 1 ELSE i
      Of[i \in 1 .. end] ==
        IF i = end THEN {}
        ELSE LET lo == Place(i) IN
             IF lo + 2 < end /\ t[lo + 1] = Dash
             THEN (t[lo] .. t[Place(lo + 2)]) \cup Of[Place(lo + 2) + 1]
             ELSE {t[lo]} \cup Of[lo + 1]
  IN Of[from]

\* A character behind an odd number of backslashes does not close a set.
Closing(t, from, c) == {i \in from .. Len(t) : t[i] = c /\ SlashesBefore(t, from, i) % 2 = 0}

SetAt(t, p, c, run) ==
  IF Closing(t, p + 1, c) = {} THEN Piece({t[p]}, FALSE, 1, p + 1)
  ELSE LET end == Min(Closing(t, p + 1, c)) IN Piece(Members(t, p + 1, end), run, 1, end + 1)

PieceAt(t, p) ==
  CASE t[p] = Backslash -> IF p < Len(t) THEN Piece({t[p + 1]}, FALSE, 1, p + 2)
                           ELSE Piece({}, FALSE, 1, p + 1)
    [] t[p] = Query -> Piece(AnyChars, FALSE, 1, p + 1)
    [] t[p] = Star -> Piece(AnyChars, TRUE, 0, p + 1)
    [] t[p] = Bracket -> SetAt(t, p, Unbracket, FALSE)
    [] t[p] = Brace -> SetAt(t, p, Unbrace, TRUE)
    [] t[p] \notin {Backslash, Query, Star, Bracket, Brace} -> Piece({t[p]}, FALSE, 1, p + 1)

\* Where the characters that a piece takes from q on may end.
Takes(piece, s, q) ==
  {e \in q .. EndOf(s) :
     /\ IF piece.run THEN e >= q + piece.least ELSE e = q + 1
     /\ \A i \in q .. e - 1 : s[i] \in piece.takes}

\* Where the words may end that the pieces from p on denote, if they begin at q.
WordEnds(t, s) ==
  LET Ends[p \in 1 .. EndOf(t)] ==
        [q \in 1 .. EndOf(s) |->
           IF p = EndOf(t) THEN {q}
           ELSE UNION {Ends[PieceAt(t, p).next][e] : e \in Takes(PieceAt(t, p), s, q)}]
  IN Ends[1]

---------------------------------------------------------------------------
(* Properties.                                                             *)

\* The matcher, which goes back where a * or a {set} took too much, finds the words that
\* the pattern means, however many of them compete for the characters (do_match in mila.c).
MatchMeans == do_match(pattern, subject) = (EndOf(subject) \in WordEnds(pattern, subject)[1])

\* Both searches find a match where the pattern has one and nowhere else, at the leftmost
\* place, and the greedy one finds the longest there (find_match and "find leftmost longest
\* substring" in mila.c).
LeftmostLongest ==
  LET fits == WordEnds(pattern, subject)
      starts == {b \in 1 .. EndOf(subject) : fits[b] # {}}
      first == IF starts = {} THEN NoMatch ELSE Min(starts)
      lazy == find_match(pattern, subject)
      greedy == find_match_greedy(pattern, subject)
  IN /\ lazy.start = first /\ greedy.start = first
     /\ first # NoMatch => lazy.end \in fits[first] /\ greedy.end = Max(fits[first])

\* Replacing every match by itself changes nothing: no character is lost or doubled
\* around empty matches and at the end (replace_match in mila.c).
ReplaceKeepsTheRest == replace_match(pattern, subject, <<Dollar>>, -1) = subject
=============================================================================

------------------------------ MODULE TextLine ------------------------------
(***************************************************************************)
(* What the line editor promises the person who types: a line with a       *)
(* cursor in it, a history to go through, and a draft that is not lost on  *)
(* the way through it.                                                     *)
(***************************************************************************)
EXTENDS Integers, SequencesExt, FiniteSetsExt

CONSTANTS Chars, Space, MaxLine, MaxEntries

VARIABLES
  left, right, \* the line before and behind the cursor
  draft,       \* the line that was being typed when the history was entered
  place,       \* the entry that is shown; Len(history): the draft
  history

vars == <<left, right, draft, place, history>>

Line == left \o right
Bottom == place = Len(history)
\* While the bottom is shown, the draft is what is shown.
KeepDraft == draft' = (IF Bottom THEN left' \o right' ELSE draft)
Edit == KeepDraft /\ UNCHANGED <<place, history>>

Fresh(h) == /\ left' = <<>> /\ right' = <<>> /\ draft' = <<>>
            /\ history' = h /\ place' = Len(h)

Init == left = <<>> /\ right = <<>> /\ draft = <<>> /\ place = 0 /\ history = <<>>

Type(c) ==
  /\ Len(Line) < MaxLine
  /\ left' = Append(left, c) /\ UNCHANGED right /\ Edit

\* The places in a line where a word starts, or ends: counted in characters before.
Starts(s) == {p \in 0 .. Len(s) - 1 : s[p + 1] # Space /\ (p = 0 \/ s[p] = Space)}
Ends(s) == {p \in 1 .. Len(s) : s[p] # Space /\ (p = Len(s) \/ s[p + 1] = Space)}
WordLeft == Max(Starts(left) \cup {0})
WordRight == Len(left) + Min(Ends(right) \cup {Len(right)})

MoveTo(p) ==
  /\ p \in 0 .. Len(Line)
  /\ left' = SubSeq(Line, 1, p) /\ right' = SubSeq(Line, p + 1, Len(Line)) /\ Edit
Move == \E p \in {0, Len(left) - 1, Len(left) + 1, Len(Line), WordLeft, WordRight} : MoveTo(p)

CutLeft(p) == p >= 0 /\ left' = SubSeq(left, 1, p) /\ UNCHANGED right /\ Edit
CutRight(n) == n <= Len(right) /\ right' = SubSeq(right, n + 1, Len(right)) /\ UNCHANGED left /\ Edit
\* A character or a word on the left, a character or all on the right, or the line.
Cut ==
  \/ \E p \in {Len(left) - 1, WordLeft} : CutLeft(p)
  \/ \E n \in {1, Len(right)} : CutRight(n)
  \/ left' = <<>> /\ right' = <<>> /\ Edit

Recall(p) ==
  /\ p \in 0 .. Len(history) /\ p # place
  /\ place' = p
  /\ left' = IF p = Len(history) THEN draft ELSE history[p + 1]
  /\ right' = <<>>
  /\ UNCHANGED <<draft, history>>

Latest(h) == SubSeq(h, Max({1, Len(h) - MaxEntries + 1}), Len(h))
Keep(line) == IF line = <<>> THEN history ELSE Latest(Append(history, line))

\* The line that stands there is entered, or one that was not typed here; or it is
\* given up. Either way the next line starts empty.
Enter == Fresh(Keep(Line))
EnterUnseen == \E line \in BoundedSeq(Chars, MaxLine) : Fresh(Keep(line))
GiveUp == Fresh(history)

Next ==
  \/ \E c \in Chars : Type(c)
  \/ Move \/ Cut \/ (\E d \in {-1, 1} : Recall(place + d))
  \/ Enter \/ EnterUnseen \/ GiveUp

Spec == Init /\ [][Next]_vars
=============================================================================

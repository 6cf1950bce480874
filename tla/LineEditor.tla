----------------------------- MODULE LineEditor -----------------------------
(***************************************************************************)
(* The line editor of the prompt (blr.c).  The terminal gives bytes; a key *)
(* is one byte, or an escape sequence.  The buffer has a fixed size and    *)
(* keeps what was in it behind the NUL that ends the line.                 *)
(***************************************************************************)
EXTENDS Integers, SequencesExt, FiniteSetsExt

CONSTANTS
  Chars,      \* the printable bytes that are typed, Space among them
  Space,
  MaxLine,    \* BLR_MAX_LINE
  MaxEntries  \* max_entries of the history

NUL == "NUL"
\* blr_history_init refuses a history of no entries.
ASSUME LineConstants ==
  MaxLine \in Nat /\ MaxEntries \in Nat \ {0} /\ Space \in Chars /\ NUL \notin Chars

VARIABLES
  buf, len, pos,  \* LineBuf: places from 0
  saved,          \* the live line, kept when the history is entered
  hist,           \* BlrHistory.entries
  hist_pos

line_vars == <<buf, len, pos, saved, hist, hist_pos>>

Empty == [i \in 0 .. MaxLine |-> NUL]
Text(b, n) == [i \in 1 .. n |-> b[i - 1]]
\* The string in a buffer: up to its first NUL.
CString(b) == Text(b, Min({i \in 0 .. MaxLine : b[i] = NUL}))
\* memmove of n bytes.
Moved(b, to, start, n) ==
  [i \in 0 .. MaxLine |-> IF i \in to .. to + n - 1 THEN b[start + i - to] ELSE b[i]]

LineIs(b, n, p) == buf' = b /\ len' = n /\ pos' = p

lb_init == LineIs(Empty, 0, 0)

lb_insert(c) ==
  IF len >= MaxLine THEN LineIs(buf, len, pos)
  ELSE LineIs([Moved(buf, pos + 1, pos, len - pos + 1) EXCEPT ![pos] = c], len + 1, pos + 1)

lb_backspace_short ==
  IF pos = 0 THEN LineIs(buf, len, pos)
  ELSE LineIs(Moved(buf, pos - 1, pos, len - pos), len - 1, pos - 1)

lb_backspace ==
  IF pos = 0 THEN LineIs(buf, len, pos)
  ELSE LineIs(Moved(buf, pos - 1, pos, len - pos + 1), len - 1, pos - 1)

lb_delete ==
  IF pos >= len THEN LineIs(buf, len, pos)
  ELSE LineIs(Moved(buf, pos, pos + 1, len - pos), len - 1, pos)

lb_kill_eol == LineIs([buf EXCEPT ![pos] = NUL], pos, pos)
lb_kill_line == LineIs([buf EXCEPT ![0] = NUL], 0, 0)

\* The loops over spaces and then over the rest, to the left and to the right.
BackOver(p, is(_)) == Max({q \in 0 .. p : q = 0 \/ (q # 0 /\ ~is(buf[q - 1]))})
OnOver(p, is(_)) == Min({q \in p .. len : q = len \/ ~is(buf[q])})
IsSpace(c) == c = Space
NoSpace(c) == c # Space
WordStart == BackOver(BackOver(pos, IsSpace), NoSpace)
WordEnd == OnOver(OnOver(pos, IsSpace), NoSpace)

lb_kill_word ==
  LET p == WordStart IN LineIs(Moved(buf, p, pos, len - pos + 1), len - (pos - p), p)
lb_word_left == LineIs(buf, len, WordStart)
lb_word_right == LineIs(buf, len, WordEnd)

Wrote(b, s) == [i \in 0 .. MaxLine |-> IF i < Len(s) THEN s[i + 1] ELSE IF i = Len(s) THEN NUL ELSE b[i]]
lb_set(s) == LineIs(Wrote(buf, s), Len(s), Len(s))

\* blr_nav_history
blr_nav_history_unsaved(dir) ==
  LET to == Max({0, Min({Len(hist), hist_pos + dir})}) IN
  IF Len(hist) = 0 \/ to = hist_pos THEN LineIs(buf, len, pos) /\ UNCHANGED <<saved, hist_pos>>
  ELSE /\ saved' = Wrote(saved, Text(buf, len))
       /\ hist_pos' = to
       /\ lb_set(IF to = Len(hist) THEN CString(saved') ELSE hist[to + 1])

blr_nav_history(dir) ==
  LET to == Max({0, Min({Len(hist), hist_pos + dir})}) IN
  IF Len(hist) = 0 \/ to = hist_pos THEN LineIs(buf, len, pos) /\ UNCHANGED <<saved, hist_pos>>
  ELSE /\ saved' = IF hist_pos = Len(hist) THEN Wrote(saved, Text(buf, len)) ELSE saved
       /\ hist_pos' = to
       /\ lb_set(IF to = Len(hist) THEN CString(saved) ELSE hist[to + 1])

\* posix_next_key: an escape sequence is ESC [ or ESC O and a letter, ESC [ digit ~,
\* ESC [ 1 ; m letter, or ESC letter; what is none of these is read to where it goes
\* wrong and ignored. The byte behind the ; may be any.
Arrows == [A |-> "up", B |-> "down", C |-> "right", D |-> "left", H |-> "home", F |-> "end"]
ControlKeys == [ctrl_A |-> "home", ctrl_B |-> "left", ctrl_C |-> "quit", ctrl_D |-> "eof",
             ctrl_E |-> "end", ctrl_F |-> "right", ctrl_H |-> "backspace", ctrl_J |-> "enter",
             ctrl_K |-> "kill_eol", ctrl_M |-> "enter", ctrl_N |-> "down", ctrl_P |-> "up",
             ctrl_U |-> "kill_line", ctrl_W |-> "kill_word", DEL |-> "backspace",
             closed |-> "closed"]
Tildes == [d \in {"1", "3", "4", "7", "8"} |->
             CASE d \in {"1", "7"} -> "home" [] d = "3" -> "delete" [] d \in {"4", "8"} -> "end"]
Words == [C |-> "word_right", D |-> "word_left"]
Lookup(table, b) == IF b \in DOMAIN table THEN table[b] ELSE "ignore"

InSequence == {"[", "O", "b", "f", "~", ";", "closed", "A", "B", "C", "D", "H", "F"} \cup DOMAIN Tildes
Waiting == {<<"ESC">>, <<"ESC", "[">>, <<"ESC", "O">>, <<"ESC", "[", "1", ";">>}
             \cup {<<"ESC", "[", d>> : d \in DOMAIN Tildes}
             \cup {<<"ESC", "[", "1", ";", m>> : m \in {";", "closed"}}
Keys == {<<b>> : b \in DOMAIN ControlKeys \cup Chars}
          \cup {k \in {Append(w, b) : w \in Waiting, b \in InSequence} :
                   k \notin Waiting /\ Len(k) # 5}
KeyOf(k) ==
  CASE Len(k) = 1 -> IF k[1] \in Chars THEN "char" ELSE Lookup(ControlKeys, k[1])
    [] Len(k) = 2 -> IF k[2] = "b" THEN "word_left" ELSE IF k[2] = "f" THEN "word_right" ELSE "ignore"
    [] Len(k) = 3 -> Lookup(Arrows, k[3])
    [] Len(k) = 4 -> IF k[4] = "~" THEN Tildes[k[3]] ELSE "ignore"
    [] Len(k) = 6 -> Lookup(Words, k[6])

\* blr_edit_loop: what a key does to the line.
Edit(key, c) ==
  CASE key = "char" -> lb_insert(c)
    [] key = "backspace" -> lb_backspace
    [] key = "delete" \/ (key = "eof" /\ len > 0) -> lb_delete
    [] key = "left" -> LineIs(buf, len, Max({0, pos - 1}))
    [] key = "right" -> LineIs(buf, len, Min({len, pos + 1}))
    [] key = "word_left" -> lb_word_left
    [] key = "word_right" -> lb_word_right
    [] key = "home" -> LineIs(buf, len, 0)
    [] key = "end" -> LineIs(buf, len, len)
    [] key = "kill_eol" -> lb_kill_eol
    [] key = "kill_line" -> lb_kill_line
    [] key = "kill_word" -> lb_kill_word
    [] key = "ignore" -> LineIs(buf, len, pos)

blr_history_add(h, line) ==
  IF line = <<>> THEN h ELSE Append(IF Len(h) = MaxEntries THEN Tail(h) ELSE h, line)

\* blr_rec_read returns: the next call starts from nothing but the history.
NewRead(h) ==
  /\ lb_init /\ saved' = Empty /\ hist' = h /\ hist_pos' = Len(h)

\* blr_history_save and, in the next process, blr_history_load: a file of lines.
Reloaded(h) ==
  LET load[i \in 0 .. Len(h)] == IF i = 0 THEN <<>> ELSE blr_history_add(load[i - 1], h[i])
  IN load[Len(h)]

LineInit ==
  /\ buf = Empty /\ len = 0 /\ pos = 0 /\ saved = Empty
  /\ hist = <<>> /\ hist_pos = 0

\* The keys that the bytes can mean, each with the byte it inserts.
Pressed == {<<KeyOf(k), IF KeyOf(k) = "char" THEN k[1] ELSE NUL>> : k \in Keys}

Press(key, c) ==
  \/ /\ key \in {"up", "down"}
     /\ blr_nav_history(IF key = "up" THEN -1 ELSE 1)
     /\ UNCHANGED hist
  \/ key = "enter" /\ NewRead(blr_history_add(hist, CString(buf)))
  \/ (key \in {"quit", "closed"} \/ (key = "eof" /\ len = 0)) /\ NewRead(hist)
  \/ /\ key \notin {"up", "down", "enter", "quit", "closed"}
     /\ key = "eof" => len > 0
     /\ Edit(key, c)
     /\ UNCHANGED <<saved, hist, hist_pos>>

\* Without a terminal, fgets reads a line.
ReadPlain(line) == len = 0 /\ NewRead(blr_history_add(hist, line))
Restart == len = 0 /\ NewRead(Reloaded(hist))


LineNext ==
  \/ \E p \in Pressed : Press(p[1], p[2])
  \/ \E line \in BoundedSeq(Chars, MaxLine) : ReadPlain(line)
  \/ Restart

LineSpec == LineInit /\ [][LineNext]_line_vars
-----------------------------------------------------------------------------
\* The line always ends with its NUL: what is entered, saved or moved relies on it (blr.c).
Terminated ==
  /\ pos \in 0 .. len /\ len \in 0 .. MaxLine
  /\ CString(buf) = Text(buf, len)

Shown == Text(buf, len)
Draft == IF hist_pos = Len(hist) THEN Shown ELSE CString(saved)
Typing == INSTANCE TextLine WITH
  left <- SubSeq(Shown, 1, pos), right <- SubSeq(Shown, pos + 1, len),
  draft <- Draft, place <- hist_pos, history <- hist

\* Whatever keys are pressed, the buffer is the line that they describe, the history is
\* the last lines entered, and the line that was being typed comes back at its end (blr.c).
ImplementsTextLine == Typing!Spec
=============================================================================

----------------------------- MODULE TextProofs -----------------------------
(***************************************************************************)
(* Text, for every size and every character.  The line editor does what    *)
(* TextLine promises: the buffer ends with its NUL, and what is behind     *)
(* that NUL never comes back.  The wildcard matcher finds what a pattern   *)
(* means, the searches find the leftmost and the longest match, and        *)
(* replacing loses nothing.  Numbers that are printed are read back, and   *)
(* the two number parsers stop at the same place.  Substitution replaces   *)
(* what stands in code and nothing else, split undoes join, and the        *)
(* natives of str speak of the same places of a string.                    *)
(***************************************************************************)
EXTENDS LineEditor, Wildcards, Numbers, Texts, ListLemmas

-----------------------------------------------------------------------------
(* Buffers and the lines they hold.                                         *)

Buffers == [0 .. MaxLine -> Chars \cup {NUL}]
Lines == {s \in Seq(Chars) : Len(s) =< MaxLine}

\* The buffer b holds a line of n characters.
Holds(b, n) ==
  /\ b \in Buffers /\ n \in 0 .. MaxLine
  /\ b[n] = NUL /\ \A i \in 0 .. n - 1 : b[i] # NUL

\* What stands behind the cursor p in a line of n characters.
After(b, p, n) == [i \in 1 .. n - p |-> b[p + i - 1]]

LEMMA Held ==
  ASSUME NEW b, NEW n, Holds(b, n)
  PROVE  /\ CString(b) = Text(b, n)
         /\ Text(b, n) \in Lines /\ Len(Text(b, n)) = n
         /\ \A i \in 0 .. n - 1 : b[i] \in Chars
<1> USE LineConstants
<1>1. \A i \in 0 .. n - 1 : b[i] \in Chars
  BY DEF Holds, Buffers
<1>2. Text(b, n) \in [1 .. n -> Chars] /\ n \in Nat /\ n =< MaxLine
  BY <1>1 DEF Text, Holds
<1> DEFINE Ends == {i \in 0 .. MaxLine : b[i] = NUL}
<1>3. Min(Ends) = n
  <2>1. Ends \in SUBSET Nat /\ n \in Ends
    BY DEF Holds
  <2>2. Min(Ends) \in Ends /\ \A y \in Ends : Min(Ends) =< y
    BY <2>1, MinIsIn
  <2>3. ~(Min(Ends) < n)
    BY <2>1, <2>2 DEF Holds
  <2> QED BY <2>1, <2>2, <2>3
<1>4. CString(b) = Text(b, n)
  BY <1>3 DEF CString
<1>5. Text(b, n) \in Seq(Chars) /\ Len(Text(b, n)) = n
  BY <1>2
<1> QED BY <1>1, <1>2, <1>4, <1>5 DEF Lines

\* The line falls in what is before the cursor and what is behind it.
LEMMA Halves ==
  ASSUME NEW b, NEW n, Holds(b, n), NEW p \in 0 .. n
  PROVE  /\ SubSeq(Text(b, n), 1, p) = Text(b, p)
         /\ SubSeq(Text(b, n), p + 1, n) = After(b, p, n)
         /\ Text(b, p) \in Seq(Chars) /\ Len(Text(b, p)) = p
         /\ After(b, p, n) \in Seq(Chars) /\ Len(After(b, p, n)) = n - p
         /\ Text(b, p) \o After(b, p, n) = Text(b, n)
<1> USE LineConstants
<1> DEFINE t == Text(b, n)
<1>1. /\ t \in Seq(Chars) /\ Len(t) = n /\ n \in Nat
      /\ \A i \in 0 .. n - 1 : b[i] \in Chars
  BY Held DEF Lines, Holds
<1>2. \A i \in 1 .. n : t[i] = b[i - 1]
  BY DEF Text
<1>3. Text(b, p) \in Seq(Chars) /\ Len(Text(b, p)) = p /\ \A i \in 1 .. p : Text(b, p)[i] = b[i - 1]
  <2>1. Text(b, p) \in [1 .. p -> Chars]
    BY <1>1 DEF Text
  <2> QED BY <2>1 DEF Text
<1>4. /\ After(b, p, n) \in Seq(Chars) /\ Len(After(b, p, n)) = n - p
      /\ \A i \in 1 .. n - p : After(b, p, n)[i] = b[p + i - 1]
  <2>1. After(b, p, n) \in [1 .. n - p -> Chars]
    BY <1>1 DEF After
  <2> QED BY <1>1, <2>1 DEF After
<1> HIDE DEF t
<1>5. SubSeq(t, 1, p) = Text(b, p)
  <2>1. /\ SubSeq(t, 1, p) \in Seq(Chars) /\ Len(SubSeq(t, 1, p)) = p
        /\ \A i \in 1 .. p : SubSeq(t, 1, p)[i] = t[i]
    <3>1. \A i \in 1 .. p : t[i] \in Chars /\ 1 + i - 1 = i
      BY <1>1
    <3>2. p - 1 + 1 = p /\ (1 =< p \/ p = 0)
      BY <1>1
    <3> QED BY <1>1, <3>1, <3>2, SubSeqProperties
  <2>2. \A i \in 1 .. p : t[i] = b[i - 1]
    BY <1>1, <1>2
  <2> QED BY <1>3, <2>1, <2>2, SeqEqual
<1>6. SubSeq(t, p + 1, n) = After(b, p, n)
  <2>1. /\ SubSeq(t, p + 1, n) \in Seq(Chars) /\ Len(SubSeq(t, p + 1, n)) = n - p
        /\ \A i \in 1 .. n - p : SubSeq(t, p + 1, n)[i] = t[p + i]
    <3>1. \A i \in p + 1 .. n : t[i] \in Chars
      BY <1>1
    <3>2. n - (p + 1) + 1 = n - p /\ (p + 1 =< n \/ n - p = 0)
      BY <1>1
    <3>3. \A i \in 1 .. n - p : p + 1 + i - 1 = p + i
      BY <1>1
    <3> DEFINE a == p + 1
               u == SubSeq(t, a, n)
    <3>4. a \in Int /\ n \in Int /\ (\A i \in a .. n : t[i] \in Chars) /\ n - a + 1 = n - p /\ (a =< n \/ n - p = 0)
      BY <1>1, <3>1, <3>2
    <3>5. \A i \in 1 .. n - p : a + i - 1 = p + i
      BY <3>3
    <3> HIDE DEF a
    <3>6. /\ u \in Seq(Chars) /\ Len(u) = IF a =< n THEN n - a + 1 ELSE 0
          /\ \A i \in 1 .. n - a + 1 : u[i] = t[a + i - 1]
      BY <3>4, SubSeqProperties
    <3> HIDE DEF u
    <3>7. u \in Seq(Chars) /\ Len(u) = n - p /\ \A i \in 1 .. n - p : u[i] = t[p + i]
      BY <3>4, <3>5, <3>6
    <3> QED BY <3>7 DEF u, a
  <2>2. \A i \in 1 .. n - p : t[p + i] = b[p + i - 1]
    BY <1>1, <1>2
  <2> QED BY <1>4, <2>1, <2>2, SeqEqual
<1>7. Text(b, p) \o After(b, p, n) = t
  <2> DEFINE u == Text(b, p)
             v == After(b, p, n)
  <2>1. u \in Seq(Chars) /\ Len(u) = p /\ v \in Seq(Chars) /\ Len(v) = n - p
    BY <1>3, <1>4
  <2>2. /\ \A i \in 1 .. p : u[i] = t[i]
        /\ \A i \in 1 .. n - p : v[i] = t[p + i]
    <3>1. \A i \in 1 .. p : i \in 1 .. n
      BY <1>1
    <3>2. \A i \in 1 .. n - p : p + i \in 1 .. n
      BY <1>1
    <3>3. \A i \in 1 .. p : u[i] = t[i]
      BY <1>2, <1>3, <3>1
    <3>4. \A i \in 1 .. n - p : v[i] = t[p + i]
      BY <1>2, <1>4, <3>2
    <3> QED BY <3>3, <3>4
  <2> HIDE DEF u, v
  <2>3. /\ u \o v \in Seq(Chars) /\ Len(u \o v) = n
        /\ \A i \in 1 .. n : (u \o v)[i] = IF i =< p THEN u[i] ELSE v[i - p]
    <3>1. p + (n - p) = n
      BY <1>1
    <3>2. /\ u \o v \in Seq(Chars) /\ Len(u \o v) = p + (n - p)
          /\ \A i \in 1 .. p + (n - p) : (u \o v)[i] = IF i =< p THEN u[i] ELSE v[i - p]
      BY <2>1, ConcatProperties
    <3> QED BY <3>1, <3>2
  <2>4. ASSUME NEW i \in 1 .. n PROVE (u \o v)[i] = t[i]
    <3>1. CASE i =< p
      <4>1. (u \o v)[i] = u[i]
        BY <2>3, <3>1
      <4>2. i \in 1 .. p
        BY <1>1, <3>1
      <4> QED BY <2>2, <4>1, <4>2
    <3>2. CASE ~(i =< p)
      <4>1. i - p \in 1 .. n - p /\ p + (i - p) = i
        BY <1>1, <3>2
      <4> QED BY <2>2, <2>3, <3>2, <4>1
    <3> QED BY <3>1, <3>2
  <2>5. u \o v = t
    BY <1>1, <2>3, <2>4, SeqEqual
  <2> QED BY <2>5 DEF u, v
<1> QED BY <1>3, <1>4, <1>5, <1>6, <1>7 DEF t

-----------------------------------------------------------------------------
(* What the operations on a buffer do to its line.                          *)

LEMMA Inserted ==
  ASSUME NEW b, NEW n, Holds(b, n), n < MaxLine, NEW p \in 0 .. n, NEW c \in Chars,
         NEW d, d = [Moved(b, p + 1, p, n - p + 1) EXCEPT ![p] = c]
  PROVE  /\ Holds(d, n + 1)
         /\ Text(d, p + 1) = Append(Text(b, p), c)
         /\ After(d, p + 1, n + 1) = After(b, p, n)
<1> USE LineConstants
<1>1. n \in Nat /\ n + 1 \in 0 .. MaxLine /\ n - p + 1 \in Nat
  BY DEF Holds
<1>2. /\ DOMAIN d = 0 .. MaxLine
      /\ \A i \in 0 .. MaxLine :
           d[i] = IF i = p THEN c
                  ELSE IF i \in p + 1 .. n + 1 THEN b[i - 1] ELSE b[i]
  <2>1. p + 1 + (n - p + 1) - 1 = n + 1 /\ \A i \in 0 .. MaxLine : p + i - (p + 1) = i - 1
    BY <1>1
  <2> QED BY <1>1, <2>1 DEF Moved
<1>3. Holds(d, n + 1)
  <2>1. ASSUME NEW i \in 0 .. MaxLine PROVE d[i] \in Chars \cup {NUL}
    <3>1. i \in p + 1 .. n + 1 => i - 1 \in 0 .. MaxLine
      BY <1>1
    <3> QED BY <1>2, <3>1 DEF Holds, Buffers
  <2>2. d \in Buffers
    <3>1. d = [i \in 0 .. MaxLine |-> d[i]]
      BY DEF Moved
    <3> QED BY <2>1, <3>1 DEF Buffers
  <2>3. d[n + 1] = NUL
    BY <1>1, <1>2 DEF Holds
  <2>4. ASSUME NEW i \in 0 .. n PROVE d[i] # NUL
    <3>1. CASE i < p
      BY <1>1, <1>2, <3>1 DEF Holds
    <3>2. CASE i = p
      BY <1>1, <1>2, <3>2
    <3>3. CASE i > p
      <4>1. i - 1 \in 0 .. n - 1 /\ i \in p + 1 .. n + 1 /\ i \in 0 .. MaxLine
        BY <1>1, <3>3
      <4> QED BY <1>2, <3>3, <4>1 DEF Holds
    <3> QED BY <1>1, <3>1, <3>2, <3>3
  <2> QED BY <1>1, <2>2, <2>3, <2>4 DEF Holds
<1>4. /\ Text(b, p) \in Seq(Chars) /\ Len(Text(b, p)) = p
      /\ Text(d, p + 1) \in Seq(Chars) /\ Len(Text(d, p + 1)) = p + 1
  BY <1>1, <1>3, Halves
<1>5. Text(d, p + 1) = Append(Text(b, p), c)
  <2>1. ASSUME NEW i \in 1 .. p PROVE Text(d, p + 1)[i] = Text(b, p)[i]
    BY <1>1, <1>2 DEF Text
  <2>2. Text(d, p + 1)[p + 1] = c
    BY <1>1, <1>2 DEF Text
  <2>3. /\ Append(Text(b, p), c) \in Seq(Chars) /\ Len(Append(Text(b, p), c)) = p + 1
        /\ \A i \in 1 .. p : Append(Text(b, p), c)[i] = Text(b, p)[i]
        /\ Append(Text(b, p), c)[p + 1] = c
    BY <1>4, AppendProperties
  <2>4. \A i \in 1 .. p + 1 : i \in 1 .. p \/ i = p + 1
    OBVIOUS
  <2> QED BY <1>4, <2>1, <2>2, <2>3, <2>4, SeqEqual
<1> DEFINE q == p + 1
           m == n + 1
<1>6. After(d, q, m) = After(b, p, n)
  <2>1. m - q = n - p
    BY <1>1
  <2>2. \A i \in 1 .. n - p : d[q + i - 1] = b[p + i - 1]
    BY <1>1, <1>2
  <2> HIDE DEF q, m
  <2> QED BY <2>1, <2>2 DEF After
<1> QED BY <1>3, <1>5, <1>6

\* The characters from q to p are cut out.
LEMMA CutOut ==
  ASSUME NEW b, NEW n, Holds(b, n), NEW p \in 0 .. n, NEW q \in 0 .. p,
         NEW d, d = Moved(b, q, p, n - p + 1)
  PROVE  /\ Holds(d, n - (p - q))
         /\ Text(d, q) = Text(b, q)
         /\ After(d, q, n - (p - q)) = After(b, p, n)
<1> USE LineConstants
<1> DEFINE m == n - (p - q)
<1>1. n \in Nat /\ n =< MaxLine /\ m \in 0 .. MaxLine /\ q =< m
  BY DEF Holds
<1>2. /\ DOMAIN d = 0 .. MaxLine
      /\ \A i \in 0 .. MaxLine : d[i] = IF i \in q .. m THEN b[p + i - q] ELSE b[i]
  <2>1. q + (n - p + 1) - 1 = m
    BY <1>1
  <2> QED BY <2>1 DEF Moved
<1>3. m = n - (p - q)
  OBVIOUS
<1> HIDE DEF m
<1>4. Holds(d, m)
  <2>1. ASSUME NEW i \in 0 .. MaxLine PROVE d[i] \in Chars \cup {NUL}
    <3>1. i \in q .. m => p + i - q \in 0 .. MaxLine
      BY <1>1, <1>3
    <3> QED BY <1>2, <3>1 DEF Holds, Buffers
  <2>2. d \in Buffers
    <3>1. d = [i \in 0 .. MaxLine |-> d[i]]
      BY DEF Moved
    <3> QED BY <2>1, <3>1 DEF Buffers
  <2>3. d[m] = NUL
    <3>1. p + m - q = n /\ m \in q .. m
      BY <1>1, <1>3
    <3> QED BY <1>1, <1>2, <3>1 DEF Holds
  <2>4. ASSUME NEW i \in 0 .. m - 1 PROVE d[i] # NUL
    <3>1. CASE i < q
      <4>1. i \in 0 .. n - 1 /\ i \in 0 .. MaxLine /\ i \notin q .. m
        BY <1>1, <1>3, <3>1
      <4>2. b[i] # NUL
        BY <4>1 DEF Holds
      <4> QED BY <1>2, <4>1, <4>2
    <3>2. CASE i >= q
      <4>1. p + i - q \in 0 .. n - 1 /\ i \in q .. m /\ i \in 0 .. MaxLine
        BY <1>1, <1>3, <3>2
      <4> QED BY <1>2, <3>2, <4>1 DEF Holds
    <3> QED BY <1>1, <3>1, <3>2
  <2> QED BY <1>1, <2>2, <2>3, <2>4 DEF Holds
<1>5. Text(d, q) = Text(b, q)
  <2>1. \A i \in 1 .. q : d[i - 1] = b[i - 1]
    BY <1>1, <1>2
  <2> QED BY <2>1 DEF Text
<1>6. After(d, q, m) = After(b, p, n)
  <2>1. m - q = n - p
    BY <1>1, <1>3
  <2>2. \A i \in 1 .. n - p : d[q + i - 1] = b[p + i - 1]
    <3>1. ASSUME NEW i \in 1 .. n - p
          PROVE  q + i - 1 \in q .. m /\ q + i - 1 \in 0 .. MaxLine /\ p + (q + i - 1) - q = p + i - 1
      BY <1>1, <1>3
    <3> QED BY <1>2, <3>1
  <2> QED BY <2>1, <2>2 DEF After
<1> QED BY <1>4, <1>5, <1>6 DEF m

LEMMA CutOff ==
  ASSUME NEW b, NEW n, Holds(b, n), NEW p \in 0 .. n, NEW d, d = [b EXCEPT ![p] = NUL]
  PROVE  Holds(d, p) /\ Text(d, p) = Text(b, p) /\ After(d, p, p) = <<>>
<1> USE LineConstants
<1>1. /\ p \in 0 .. MaxLine /\ n \in Nat
      /\ \A i \in 0 .. MaxLine : d[i] = IF i = p THEN NUL ELSE b[i]
      /\ d \in Buffers
  BY DEF Holds, Buffers
<1>2. Holds(d, p)
  <2>1. \A i \in 0 .. p - 1 : i \in 0 .. MaxLine /\ i # p /\ i \in 0 .. n - 1
    BY <1>1
  <2> QED BY <1>1, <2>1 DEF Holds
<1>3. Text(d, p) = Text(b, p)
  <2>1. \A i \in 1 .. p : d[i - 1] = b[i - 1]
    BY <1>1
  <2> QED BY <2>1 DEF Text
<1>4. After(d, p, p) = <<>>
  <2>1. After(d, p, p) \in Seq({}) /\ Len(After(d, p, p)) = 0
    BY DEF After
  <2> QED BY <2>1
<1> QED BY <1>2, <1>3, <1>4

LEMMA WroteHolds ==
  ASSUME NEW b \in Buffers, NEW s \in Lines
  PROVE  Holds(Wrote(b, s), Len(s)) /\ Text(Wrote(b, s), Len(s)) = s
<1> USE LineConstants
<1> DEFINE d == Wrote(b, s)
           n == Len(s)
<1>1. n \in 0 .. MaxLine /\ s \in Seq(Chars)
  BY DEF Lines
<1>2. /\ DOMAIN d = 0 .. MaxLine
      /\ \A i \in 0 .. MaxLine : d[i] = IF i < n THEN s[i + 1] ELSE IF i = n THEN NUL ELSE b[i]
  BY DEF Wrote
<1>3. \A i \in 0 .. MaxLine : d[i] \in Chars \cup {NUL}
  <2>1. \A i \in 0 .. MaxLine : i < n => s[i + 1] \in Chars
    BY <1>1
  <2> QED BY <1>2, <2>1 DEF Buffers
<1>4. d \in Buffers
  <2>1. d = [i \in 0 .. MaxLine |-> d[i]]
    BY DEF Wrote
  <2> HIDE DEF d
  <2> QED BY <1>3, <2>1 DEF Buffers
<1> HIDE DEF d
<1>5. Holds(d, n)
  BY <1>1, <1>2, <1>3, <1>4 DEF Holds
<1>6. Text(d, n) = s
  <2>1. \A i \in 1 .. n : d[i - 1] = s[i]
    BY <1>1, <1>2
  <2> QED BY <1>1, <2>1 DEF Text
<1> QED BY <1>5, <1>6 DEF d

-----------------------------------------------------------------------------
(* Words.                                                                   *)

\* A line of n characters with the cursor at p: where the word on the left starts, and
\* where the one on the right ends.
LEMMA WordOnLeft ==
  ASSUME Holds(buf, len), pos \in 0 .. len
  PROVE  WordStart \in 0 .. pos /\ WordStart = Max(Typing!Starts(Text(buf, pos)) \cup {0})
<1> USE LineConstants
<1> DEFINE Q == {y \in 0 .. pos : y = 0 \/ (y # 0 /\ buf[y - 1] # Space)}
           q == BackOver(pos, IsSpace)
           R == {y \in 0 .. q : y = 0 \/ (y # 0 /\ buf[y - 1] = Space)}
           r == WordStart
<1>1. pos \in Nat /\ len \in Nat
  BY DEF Holds
<1>2. q \in Q /\ \A y \in Q : q >= y
  <2>1. q = Max(Q)
    BY DEF BackOver, IsSpace
  <2>2. Q \in SUBSET (0 .. pos) /\ 0 \in Q
    BY <1>1
  <2> HIDE DEF Q, q
  <2> QED BY <1>1, <2>1, <2>2, MaxIsIn
<1>3. r \in R /\ \A y \in R : r >= y
  <2>1. r = Max({y \in 0 .. q : y = 0 \/ (y # 0 /\ ~(buf[y - 1] # Space))})
    BY DEF WordStart, BackOver, NoSpace
  <2>2. R = {y \in 0 .. q : y = 0 \/ (y # 0 /\ ~(buf[y - 1] # Space))}
    OBVIOUS
  <2>3. R \in SUBSET (0 .. q) /\ 0 \in R /\ q \in Nat
    BY <1>1, <1>2
  <2> HIDE DEF R, q, r
  <2> QED BY <2>1, <2>2, <2>3, MaxIsIn
<1> HIDE DEF q, r
<1> DEFINE S == Typing!Starts(Text(buf, pos)) \cup {0}
<1>4. S = {s \in 0 .. pos - 1 : buf[s] # Space /\ (s = 0 \/ buf[s - 1] = Space)} \cup {0}
  <2>1. Len(Text(buf, pos)) = pos
    BY Halves
  <2>2. \A s \in 0 .. pos - 1 :
          Text(buf, pos)[s + 1] = buf[s] /\ (s # 0 => Text(buf, pos)[s] = buf[s - 1])
    BY <1>1 DEF Text
  <2> QED BY <2>1, <2>2 DEF Typing!Starts
<1>5. r \in S
  <2>1. CASE r = 0
    BY <1>4, <2>1
  <2>2. CASE r # 0
    <3>1. r \in 0 .. q /\ buf[r - 1] = Space /\ q \in 0 .. pos
      BY <1>2, <1>3, <2>2
    <3>2. q # 0 /\ buf[q - 1] # Space /\ r # q
      BY <1>1, <1>2, <2>2, <3>1
    <3> DEFINE k == r + 1
    <3>3. k \in 0 .. q /\ k # 0 /\ k - 1 = r /\ ~(r >= k)
      BY <1>1, <3>1, <3>2
    <3> HIDE DEF k
    <3>4. buf[r] # Space
      <4>1. k \notin R
        BY <1>3, <3>3
      <4> QED BY <3>3, <4>1
    <3>5. r \in 0 .. pos - 1
      BY <1>1, <3>1, <3>2
    <3> QED BY <1>4, <3>1, <3>4, <3>5
  <2> QED BY <2>1, <2>2
<1>6. ASSUME NEW s \in S PROVE r >= s
  <2>1. r \in Nat
    BY <1>1, <1>2, <1>3
  <2>2. CASE s = 0
    BY <2>1, <2>2
  <2>3. CASE s # 0
    <3>1. s \in 0 .. pos - 1 /\ buf[s] # Space /\ buf[s - 1] = Space
      BY <1>4, <2>3
    <3>2. s + 1 \in Q
      <4>1. s + 1 \in 0 .. pos /\ s + 1 # 0 /\ s + 1 - 1 = s
        BY <1>1, <3>1
      <4> QED BY <3>1, <4>1
    <3>3. q >= s + 1
      BY <1>2, <3>2
    <3>4. s \in R
      BY <1>1, <1>2, <2>3, <3>1, <3>3
    <3> QED BY <1>3, <3>4
  <2> QED BY <2>2, <2>3
<1>7. S \in SUBSET (0 .. pos) /\ S # {}
  BY <1>1, <1>4
<1> HIDE DEF S
<1>8. Max(S) \in S /\ \A y \in S : Max(S) >= y
  BY <1>1, <1>7, MaxIsIn
<1>9. r = Max(S)
  <2>1. r \in 0 .. pos /\ Max(S) \in 0 .. pos
    BY <1>5, <1>7, <1>8
  <2>2. r >= Max(S) /\ Max(S) >= r
    BY <1>5, <1>6, <1>8
  <2> QED BY <1>1, <2>1, <2>2
<1>10. r \in 0 .. pos
  BY <1>1, <1>5, <1>7
<1> QED BY <1>9, <1>10 DEF S, r

LEMMA WordOnRight ==
  ASSUME Holds(buf, len), pos \in 0 .. len
  PROVE  /\ WordEnd \in pos .. len
         /\ WordEnd = pos + Min(Typing!Ends(After(buf, pos, len)) \cup {Len(After(buf, pos, len))})
<1> USE LineConstants
<1> DEFINE Q == {y \in pos .. len : y = len \/ buf[y] # Space}
           q == OnOver(pos, IsSpace)
           R == {y \in q .. len : y = len \/ buf[y] = Space}
           r == WordEnd
           a == After(buf, pos, len)
           n == len - pos
<1>1. pos \in Nat /\ len \in Nat /\ n \in Nat
  BY DEF Holds
<1>2. q \in Q /\ \A y \in Q : q =< y
  <2>1. q = Min(Q)
    BY DEF OnOver, IsSpace
  <2>2. Q \in SUBSET Nat /\ len \in Q
    BY <1>1
  <2> HIDE DEF Q, q
  <2> QED BY <2>1, <2>2, MinIsIn
<1>3. r \in R /\ \A y \in R : r =< y
  <2>1. r = Min({y \in q .. len : y = len \/ ~(buf[y] # Space)})
    BY DEF WordEnd, OnOver, NoSpace
  <2>2. R = {y \in q .. len : y = len \/ ~(buf[y] # Space)}
    OBVIOUS
  <2>3. R \in SUBSET Nat /\ len \in R
    BY <1>1, <1>2
  <2> HIDE DEF R, q, r
  <2> QED BY <2>1, <2>2, <2>3, MinIsIn
<1> HIDE DEF q, r
<1> DEFINE S == Typing!Ends(a) \cup {Len(a)}
<1>4. /\ \A s \in S : s \in 0 .. n
      /\ \A s \in 1 .. n : s \in S <=> s = n \/ (buf[pos + s - 1] # Space /\ buf[pos + s] = Space)
      /\ n \in S
      /\ 0 \in S => n = 0
  <2>1. Len(a) = n
    BY Halves
  <2>2. \A s \in 1 .. n : a[s] = buf[pos + s - 1]
    BY <1>1 DEF After
  <2>3. \A s \in 1 .. n : s # n => a[s + 1] = buf[pos + s]
    <3>1. \A s \in 1 .. n : s # n => s + 1 \in 1 .. n /\ pos + (s + 1) - 1 = pos + s
      BY <1>1
    <3> QED BY <2>2, <3>1
  <2> HIDE DEF a, n
  <2>4. Typing!Ends(a) = {s \in 1 .. n : buf[pos + s - 1] # Space /\ (s = n \/ buf[pos + s] = Space)}
    BY <2>1, <2>2, <2>3 DEF Typing!Ends
  <2> QED BY <1>1, <2>1, <2>4
<1>5. /\ q \in pos .. len /\ (q = len \/ buf[q] # Space)
      /\ r \in q .. len /\ (r = len \/ buf[r] = Space)
  BY <1>2, <1>3
<1> DEFINE e == r - pos
<1>6. e \in 0 .. n /\ pos + e = r
  BY <1>1, <1>5
<1>7. e \in S
  <2>1. CASE e = n
    BY <1>4, <2>1
  <2>2. CASE e # n
    <3>1. r # len /\ buf[r] = Space
      BY <1>1, <1>5, <2>2
    <3>2. q # r /\ r - 1 \in q .. len /\ r - 1 # len
      BY <1>1, <1>5, <3>1
    <3>3. r - 1 \notin R
      BY <1>1, <1>3, <1>5, <3>2
    <3>4. buf[r - 1] # Space
      BY <3>2, <3>3
    <3>5. e \in 1 .. n /\ pos + e - 1 = r - 1
      BY <1>1, <1>5, <1>6, <3>2
    <3> QED BY <1>4, <1>6, <3>1, <3>4, <3>5
  <2> QED BY <2>1, <2>2
<1>8. ASSUME NEW s \in S PROVE e =< s
  <2>1. s \in 0 .. n
    BY <1>4
  <2>2. CASE s = n
    BY <1>1, <1>6, <2>2
  <2>3. CASE s # n
    <3>1. s \in 1 .. n /\ buf[pos + s - 1] # Space /\ buf[pos + s] = Space
      BY <1>1, <1>4, <2>1, <2>3
    <3>2. pos + s - 1 \in Q /\ pos + s \in 0 .. len
      BY <1>1, <2>1, <2>3, <3>1
    <3>3. q =< pos + s - 1
      BY <1>2, <3>2
    <3>4. pos + s \in R
      BY <1>1, <1>5, <3>1, <3>2, <3>3
    <3>5. r =< pos + s
      BY <1>3, <3>4
    <3> QED BY <1>1, <1>6, <2>1, <3>5
  <2> QED BY <2>2, <2>3
<1>9. S \in SUBSET Nat /\ S # {}
  <2>1. \A s \in S : s \in Nat
    BY <1>1, <1>4
  <2> HIDE DEF S
  <2> QED BY <1>4, <2>1
<1> HIDE DEF S, e, a, n
<1>10. Min(S) \in S /\ \A y \in S : Min(S) =< y
  BY <1>9, MinIsIn
<1>11. e = Min(S)
  <2>1. e =< Min(S) /\ Min(S) =< e /\ e \in Nat /\ Min(S) \in Nat
    BY <1>1, <1>6, <1>7, <1>8, <1>9, <1>10
  <2> QED BY <2>1
<1> QED BY <1>1, <1>5, <1>6, <1>11 DEF S, e, a, r

-----------------------------------------------------------------------------
(* Keys.                                                                    *)

EditKeys == {"char", "backspace", "delete", "eof", "left", "right", "word_left", "word_right",
             "home", "end", "kill_eol", "kill_line", "kill_word", "ignore"}
EndKeys == {"enter", "quit", "closed"}
HistoryKeys == {"up", "down"}

LEMMA Looked ==
  ASSUME NEW x
  PROVE  /\ Lookup(Arrows, x) \in EditKeys \cup HistoryKeys
         /\ Lookup(Words, x) \in EditKeys
         /\ Lookup(ControlKeys, x) \in EditKeys \cup HistoryKeys \cup EndKeys
<1>1. Lookup(Arrows, x) \in EditKeys \cup HistoryKeys
  BY DEF Lookup, Arrows, EditKeys, HistoryKeys
<1>2. Lookup(Words, x) \in EditKeys
  BY DEF Lookup, Words, EditKeys
<1>3. Lookup(ControlKeys, x) \in EditKeys \cup HistoryKeys \cup EndKeys
  BY DEF Lookup, ControlKeys, EditKeys, HistoryKeys, EndKeys
<1> QED BY <1>1, <1>2, <1>3

LEMMA OneLong ==
  ASSUME NEW a
  PROVE  IsList(<<a>>) /\ Len(<<a>>) = 1
<1>1. <<a>> \in Seq({a})
  OBVIOUS
<1> QED BY <1>1, IsListOver

LEMMA TwoLong ==
  ASSUME NEW a, NEW b
  PROVE  IsList(<<a, b>>) /\ Len(<<a, b>>) = 2
<1>1. <<a, b>> \in Seq({a, b})
  OBVIOUS
<1> QED BY <1>1, IsListOver

LEMMA ThreeLong ==
  ASSUME NEW a, NEW b, NEW c
  PROVE  IsList(<<a, b, c>>) /\ Len(<<a, b, c>>) = 3 /\ <<a, b, c>>[3] = c
<1>1. <<a, b, c>> \in Seq({a, b, c})
  OBVIOUS
<1> QED BY <1>1, IsListOver

LEMMA FourLong ==
  ASSUME NEW a, NEW b, NEW c, NEW d
  PROVE  IsList(<<a, b, c, d>>) /\ Len(<<a, b, c, d>>) = 4
<1>1. <<a, b, c, d>> \in Seq({a, b, c, d})
  OBVIOUS
<1> QED BY <1>1, IsListOver

LEMMA FiveLong ==
  ASSUME NEW a, NEW b, NEW c, NEW d, NEW e
  PROVE  IsList(<<a, b, c, d, e>>) /\ Len(<<a, b, c, d, e>>) = 5
<1>1. <<a, b, c, d, e>> \in Seq({a, b, c, d, e})
  OBVIOUS
<1> QED BY <1>1, IsListOver

LEMMA KeysKnown ==
  ASSUME NEW k \in Keys
  PROVE  /\ KeyOf(k) \in EditKeys \cup HistoryKeys \cup EndKeys
         /\ KeyOf(k) = "char" => k[1] \in Chars
<1>1. CASE k \in {<<b>> : b \in DOMAIN ControlKeys \cup Chars}
  <2>1. PICK b : k = <<b>>
    BY <1>1
  <2>2. Len(k) = 1 /\ k[1] = b
    BY <2>1
  <2>3. CASE b \in Chars
    BY <2>2, <2>3 DEF KeyOf, EditKeys
  <2>4. CASE b \notin Chars
    <3>1. KeyOf(k) = Lookup(ControlKeys, b)
      BY <2>2, <2>4 DEF KeyOf
    <3>2. Lookup(ControlKeys, b) # "char"
      BY DEF Lookup, ControlKeys
    <3> QED BY <3>1, <3>2, Looked
  <2> QED BY <2>3, <2>4
<1>2. CASE k \notin {<<b>> : b \in DOMAIN ControlKeys \cup Chars}
  <2>1. PICK w \in Waiting, b \in InSequence : k = Append(w, b)
    BY <1>2 DEF Keys
  <2>2. k \notin Waiting /\ Len(k) # 5
    BY <1>2 DEF Keys
  <2> DEFINE n == Len(w)
  <2>3. IsList(w) /\ n \in 1 .. 5 /\ (n = 3 => w[3] \in DOMAIN Tildes)
    <3>1. CASE w = <<"ESC">>
      BY <3>1, OneLong
    <3>2. CASE w \in {<<"ESC", "[">>, <<"ESC", "O">>}
      BY <3>2, TwoLong
    <3>3. CASE w = <<"ESC", "[", "1", ";">>
      <4>1. IsList(w) /\ n = 4
        BY <3>3, FourLong
      <4> HIDE DEF n
      <4> QED BY <4>1
    <3>4. CASE w \in {<<"ESC", "[", d>> : d \in DOMAIN Tildes}
      BY <3>4, ThreeLong
    <3>5. CASE w \in {<<"ESC", "[", "1", ";", m>> : m \in {";", "closed"}}
      <4>1. IsList(w) /\ n = 5
        BY <3>5, FiveLong
      <4> HIDE DEF n
      <4> QED BY <4>1
    <3> QED BY <3>1, <3>2, <3>3, <3>4, <3>5 DEF Waiting
  <2>4. /\ Len(k) = n + 1
        /\ \A i \in 1 .. n : k[i] = w[i]
    BY <2>1, <2>3, ListAppend
  <2> HIDE DEF n
  <2>5. CASE Len(k) = 2
    <3>1. KeyOf(k) \in {"word_left", "word_right", "ignore"}
      BY <2>5 DEF KeyOf
    <3> QED BY <3>1 DEF EditKeys
  <2>6. CASE Len(k) = 3
    <3>1. KeyOf(k) = Lookup(Arrows, k[3])
      BY <2>6 DEF KeyOf
    <3>2. Lookup(Arrows, k[3]) # "char"
      BY DEF Lookup, Arrows
    <3> QED BY <3>1, <3>2, Looked
  <2>7. CASE Len(k) = 4
    <3>0. n = 3
      <4>1. 4 = n + 1
        BY <2>4, <2>7
      <4> QED BY <2>3, <4>1
    <3>1. k[3] \in DOMAIN Tildes
      BY <2>3, <2>4, <3>0
    <3>2. KeyOf(k) = (IF k[4] = "~" THEN Tildes[k[3]] ELSE "ignore")
      BY <2>7 DEF KeyOf
    <3>3. Tildes[k[3]] \in {"home", "delete", "end"}
      BY <3>1 DEF Tildes
    <3> QED BY <3>2, <3>3 DEF EditKeys
  <2>8. CASE Len(k) = 6
    <3>1. KeyOf(k) = Lookup(Words, k[6])
      BY <2>8 DEF KeyOf
    <3>2. Lookup(Words, k[6]) # "char"
      BY DEF Lookup, Words
    <3> QED BY <3>1, <3>2, Looked
  <2>9. Len(k) \in {2, 3, 4, 6}
    BY <2>2, <2>3, <2>4
  <2> QED BY <2>5, <2>6, <2>7, <2>8, <2>9
<1> QED BY <1>1, <1>2

-----------------------------------------------------------------------------
(* The history.                                                             *)

Histories == {h \in Seq(Lines \ {<<>>}) : Len(h) =< MaxEntries}

\* The oldest line makes place for the new one.
LEMMA Added ==
  ASSUME NEW h \in Histories, NEW line \in Lines, line # <<>>
  PROVE  /\ blr_history_add(h, line) \in Histories
         /\ blr_history_add(h, line) = Typing!Latest(Append(h, line))
<1> USE LineConstants
<1> DEFINE S == Lines \ {<<>>}
           g == Append(h, line)
           j == Len(g) - MaxEntries + 1
           m == Max({1, j})
<1>1. h \in Seq(S) /\ Len(h) \in Nat /\ Len(h) =< MaxEntries /\ line \in S
  BY DEF Histories
<1> HIDE DEF S
<1>2. g \in Seq(S) /\ Len(g) = Len(h) + 1
  BY <1>1
<1>3. m = IF 1 >= j THEN 1 ELSE j
  <2>1. j \in Int
    BY <1>1, <1>2
  <2> HIDE DEF j
  <2>2. Max({1, j}) = IF 1 >= j THEN 1 ELSE j
    BY <2>1 DEF Max
  <2> QED BY <2>2
<1>4. Typing!Latest(g) = SubSeq(g, m, Len(g))
  <2> HIDE DEF g
  <2> QED BY DEF Typing!Latest, Typing!Max, Max
<1>5. CASE Len(h) < MaxEntries
  <2>1. m = 1
    BY <1>1, <1>2, <1>3, <1>5
  <2>2. SubSeq(g, 1, Len(g)) = g
    BY <1>2, SubSeqFull
  <2>3. blr_history_add(h, line) = g
    BY <1>5 DEF blr_history_add
  <2>4. g \in Histories
    BY <1>1, <1>2, <1>5 DEF Histories, S
  <2> QED BY <1>4, <2>1, <2>2, <2>3, <2>4
<1>6. CASE Len(h) = MaxEntries
  <2>1. m = 2 /\ h # <<>> /\ g # <<>>
    BY <1>1, <1>2, <1>3, <1>6
  <2>2. blr_history_add(h, line) = Append(Tail(h), line)
    BY <1>6 DEF blr_history_add
  <2>3. Tail(g) = Append(Tail(h), line)
    BY <1>1, <2>1, HeadTailAppend
  <2>4. Tail(g) = SubSeq(g, 2, Len(g))
    BY <1>2, <2>1, TailIsSubSeq
  <2>5. Tail(g) \in Seq(S) /\ Len(Tail(g)) = Len(g) - 1
    BY <1>2, <2>1
  <2>6. Tail(g) \in Histories
    BY <1>1, <1>2, <1>6, <2>5 DEF Histories, S
  <2> QED BY <1>4, <2>1, <2>2, <2>3, <2>4, <2>6
<1> QED BY <1>1, <1>5, <1>6

\* What is written to the file and read again line by line is the same history.
LEMMA ReloadedSame == ASSUME NEW h \in Histories PROVE Reloaded(h) = h
<1> USE LineConstants
<1> DEFINE n == Len(h)
           S == Lines \ {<<>>}
           Loads(f) == f = [i \in 0 .. n |-> IF i = 0 THEN <<>> ELSE blr_history_add(f[i - 1], h[i])]
           some == CHOOSE f : Loads(f)
           part == [i \in 0 .. n |-> SubSeq(h, 1, i)]
<1>1. h \in Seq(S) /\ n \in Nat /\ n =< MaxEntries
  BY DEF Histories
<1>2. Reloaded(h) = some[n]
  BY DEF Reloaded
<1>3. ASSUME NEW i \in 1 .. n
      PROVE  blr_history_add(SubSeq(h, 1, i - 1), h[i]) = SubSeq(h, 1, i)
  <2> DEFINE s == SubSeq(h, 1, i - 1)
  <2>1. h[i] \in S /\ h[i] # <<>>
    BY <1>1
  <2>2. s \in Seq(S) /\ Len(s) = i - 1
    <3>1. \A j \in 1 .. i - 1 : h[j] \in S
      BY <1>1
    <3>2. i - 1 \in Int /\ i - 1 - 1 + 1 = i - 1 /\ (1 =< i - 1 \/ i - 1 = 0)
      BY <1>1
    <3> QED BY <3>1, <3>2, SubSeqProperties
  <2>3. SubSeq(h, 1, i) = s \o <<h[i]>>
    BY <1>1, SubSeqRecursiveSecond
  <2>4. Append(s, h[i]) = s \o <<h[i]>>
    BY <2>1, <2>2, AppendIsConcat
  <2>5. Len(s) # MaxEntries
    BY <1>1, <2>2
  <2> HIDE DEF s
  <2>6. blr_history_add(s, h[i]) = Append(s, h[i])
    BY <2>1, <2>5 DEF blr_history_add
  <2> QED BY <2>3, <2>4, <2>6 DEF s
<1>4. Loads(part)
  <2>1. SubSeq(h, 1, 0) = <<>>
    BY SubSeqEmpty
  <2>2. ASSUME NEW i \in 1 .. n PROVE part[i] = blr_history_add(part[i - 1], h[i])
    <3>1. i \in 0 .. n /\ i - 1 \in 0 .. n
      BY <1>1
    <3>2. part[i] = SubSeq(h, 1, i) /\ part[i - 1] = SubSeq(h, 1, i - 1)
      BY <3>1
    <3> QED BY <1>3, <3>2
  <2>3. part[0] = <<>>
    BY <1>1, <2>1
  <2>4. part = [i \in 0 .. n |-> part[i]]
    OBVIOUS
  <2> HIDE DEF part
  <2>5. \A i \in 0 .. n : part[i] = IF i = 0 THEN <<>> ELSE blr_history_add(part[i - 1], h[i])
    BY <1>1, <2>2, <2>3
  <2> QED BY <2>4, <2>5
<1>5. Loads(some)
  <2> HIDE DEF part, Loads
  <2> QED BY <1>4
<1>6. \A i \in 0 .. n : some[i] = part[i]
  <2> DEFINE Bad == {i \in 0 .. n : some[i] # part[i]}
             k == Min(Bad)
  <2> SUFFICES ASSUME Bad # {} PROVE FALSE
    OBVIOUS
  <2>1. Bad \in SUBSET Nat
    BY <1>1
  <2>2. k \in Bad /\ \A i \in Bad : k =< i
    <3> HIDE DEF Bad
    <3> QED BY <2>1, MinIsIn
  <2> HIDE DEF k, some, part
  <2>3. k \in 0 .. n /\ some[k] # part[k]
    BY <2>2
  <2>4. k # 0
    <3>1. some[0] = <<>> /\ part[0] = <<>>
      BY <1>1, <1>4, <1>5
    <3> QED BY <2>3, <3>1
  <2>5. k - 1 \in 0 .. n /\ k - 1 \notin Bad
    BY <1>1, <2>2, <2>3, <2>4
  <2>6. some[k - 1] = part[k - 1]
    BY <2>5
  <2>7. /\ some[k] = blr_history_add(some[k - 1], h[k])
        /\ part[k] = blr_history_add(part[k - 1], h[k])
    BY <1>4, <1>5, <2>3, <2>4
  <2> QED BY <2>3, <2>6, <2>7
<1>7. part[n] = h
  BY <1>1, SubSeqFull
<1>8. some[n] = part[n]
  <2> HIDE DEF some, part
  <2> QED BY <1>1, <1>6
<1> QED BY <1>2, <1>7, <1>8

-----------------------------------------------------------------------------
(* The inductive invariant, and what each key does to the line.             *)

LineInv ==
  /\ Holds(buf, len) /\ pos \in 0 .. len
  /\ \E n \in 0 .. MaxLine : Holds(saved, n)
  /\ hist \in Histories /\ hist_pos \in 0 .. Len(hist)

\* A step that the line keeps its promise in.
Kept == LineInv' /\ [Typing!Next]_Typing!vars

LEMMA Seen ==
  ASSUME NEW b, NEW n, Holds(b, n), NEW p \in 0 .. n
  PROVE  /\ SubSeq(Text(b, n), 1, p) = Text(b, p)
         /\ SubSeq(Text(b, n), p + 1, n) = After(b, p, n)
         /\ Text(b, n) = Text(b, p) \o After(b, p, n)
         /\ n \in Nat /\ p \in Nat /\ Len(Text(b, p)) = p /\ Len(After(b, p, n)) = n - p
         /\ Text(b, p) \in Seq(Chars) /\ After(b, p, n) \in Seq(Chars)
<1>1. n \in Nat /\ p \in Nat
  BY LineConstants DEF Holds
<1>2. /\ SubSeq(Text(b, n), 1, p) = Text(b, p)
      /\ SubSeq(Text(b, n), p + 1, n) = After(b, p, n)
      /\ Text(b, p) \in Seq(Chars) /\ Len(Text(b, p)) = p
      /\ After(b, p, n) \in Seq(Chars) /\ Len(After(b, p, n)) = n - p
      /\ Text(b, p) \o After(b, p, n) = Text(b, n)
  BY Halves
<1> QED BY <1>1, <1>2

LEMMA Now ==
  ASSUME LineInv
  PROVE  /\ Holds(buf, len) /\ len \in Nat /\ pos \in Nat /\ pos \in 0 .. len /\ len =< MaxLine
         /\ SubSeq(Shown, 1, pos) = Text(buf, pos)
         /\ SubSeq(Shown, pos + 1, len) = After(buf, pos, len)
         /\ Shown = Text(buf, pos) \o After(buf, pos, len)
         /\ Len(Text(buf, pos)) = pos /\ Len(After(buf, pos, len)) = len - pos
         /\ Len(Shown) = len
<1>1. Holds(buf, len) /\ pos \in 0 .. len
  BY DEF LineInv
<1>2. Len(Shown) = len /\ len =< MaxLine
  BY <1>1, Held, LineConstants DEF Shown, Holds
<1>3. /\ SubSeq(Text(buf, len), 1, pos) = Text(buf, pos)
      /\ SubSeq(Text(buf, len), pos + 1, len) = After(buf, pos, len)
      /\ Text(buf, len) = Text(buf, pos) \o After(buf, pos, len)
      /\ len \in Nat /\ pos \in Nat
      /\ Len(Text(buf, pos)) = pos /\ Len(After(buf, pos, len)) = len - pos
  BY <1>1, Seen
<1> QED BY <1>1, <1>2, <1>3 DEF Shown

LEMMA Then ==
  ASSUME Holds(buf', len'), pos' \in 0 .. len'
  PROVE  /\ SubSeq(Shown', 1, pos') = Text(buf', pos')
         /\ SubSeq(Shown', pos' + 1, len') = After(buf', pos', len')
         /\ Shown' = Text(buf', pos') \o After(buf', pos', len')
<1>1. /\ SubSeq(Text(buf', len'), 1, pos') = Text(buf', pos')
      /\ SubSeq(Text(buf', len'), pos' + 1, len') = After(buf', pos', len')
      /\ Text(buf', len') = Text(buf', pos') \o After(buf', pos', len')
  BY Seen, ZenonT(30)
<1> QED BY <1>1 DEF Shown

\* An edit keeps the history, and the draft when something else is shown.
LEMMA Edited ==
  ASSUME LineInv, Holds(buf', len'), pos' \in 0 .. len', UNCHANGED <<saved, hist, hist_pos>>
  PROVE  LineInv' /\ Typing!Edit
<1>1. LineInv'
  BY DEF LineInv
<1>2. Shown' = SubSeq(Shown', 1, pos') \o SubSeq(Shown', pos' + 1, len')
  BY Then
<1>3. Draft' = (IF hist_pos = Len(hist) THEN Shown' ELSE Draft)
  BY DEF Draft
<1> QED BY <1>1, <1>2, <1>3 DEF Typing!Edit, Typing!KeepDraft, Typing!Bottom

LEMMA Stutters ==
  ASSUME LineInv, UNCHANGED <<buf, len, pos, saved, hist, hist_pos>>
  PROVE  Kept
BY DEF Kept, LineInv, Typing!vars, Draft, Shown

LEMMA TypesStep ==
  ASSUME LineInv, NEW c \in Chars, lb_insert(c), UNCHANGED <<saved, hist, hist_pos>>
  PROVE  Kept
<1> USE LineConstants
<1>1. Holds(buf, len) /\ pos \in 0 .. len
  BY DEF LineInv
<1>2. CASE len >= MaxLine
  BY <1>2, Stutters DEF lb_insert, LineIs
<1>3. CASE ~(len >= MaxLine)
  <2>1. len < MaxLine
    BY <1>1, <1>3 DEF Holds
  <2>2. /\ buf' = [Moved(buf, pos + 1, pos, len - pos + 1) EXCEPT ![pos] = c]
        /\ len' = len + 1 /\ pos' = pos + 1
    BY <1>3 DEF lb_insert, LineIs
  <2>3. /\ Holds(buf', len')
        /\ Text(buf', pos') = Append(Text(buf, pos), c)
        /\ After(buf', pos', len') = After(buf, pos, len)
    BY <1>1, <2>1, <2>2, Inserted
  <2>4. pos' \in 0 .. len'
    BY <1>1, <2>2, Seen
  <2>5. LineInv' /\ Typing!Edit
    BY <2>3, <2>4, Edited
  <2>6. Len(SubSeq(Shown, 1, pos) \o SubSeq(Shown, pos + 1, len)) < MaxLine
    BY <1>1, <2>1, Now
  <2>7. /\ SubSeq(Shown', 1, pos') = Append(SubSeq(Shown, 1, pos), c)
        /\ SubSeq(Shown', pos' + 1, len') = SubSeq(Shown, pos + 1, len)
    BY <2>3, <2>4, Now, Then
  <2>8. Typing!Type(c)
    BY <2>5, <2>6, <2>7 DEF Typing!Type, Typing!Line
  <2> QED BY <2>5, <2>8 DEF Kept, Typing!Next
<1> QED BY <1>2, <1>3

\* The characters from q to the cursor are cut.
LEMMA CutsLeft ==
  ASSUME LineInv, NEW q \in 0 .. pos, q = pos - 1 \/ q = WordStart,
         LineIs(Moved(buf, q, pos, len - pos + 1), len - (pos - q), q),
         UNCHANGED <<saved, hist, hist_pos>>
  PROVE  Kept
<1> USE LineConstants
<1>1. Holds(buf, len) /\ pos \in 0 .. len
  BY DEF LineInv
<1>2. buf' = Moved(buf, q, pos, len - pos + 1) /\ len' = len - (pos - q) /\ pos' = q
  BY DEF LineIs
<1>3. /\ Holds(buf', len')
      /\ Text(buf', pos') = Text(buf, q)
      /\ After(buf', pos', len') = After(buf, pos, len)
  BY <1>1, <1>2, CutOut
<1>4. pos' \in 0 .. len' /\ q \in 0 .. len /\ pos \in Nat
  <2>1. len \in Nat /\ pos \in Nat /\ pos =< len
    BY Now
  <2>2. q \in Nat /\ q =< pos
    BY <2>1
  <2>3. len - (pos - q) \in Nat /\ q =< len - (pos - q) /\ q =< len
    BY <2>1, <2>2
  <2> QED BY <1>2, <2>1, <2>2, <2>3
<1>5. LineInv' /\ Typing!Edit
  BY <1>3, <1>4, Edited
<1>6. SubSeq(Text(buf, pos), 1, q) = Text(buf, q)
  <2>1. \A i \in 1 .. q : Text(buf, pos)[i] = buf[i - 1]
    BY <1>4 DEF Text
  <2>2. Text(buf, pos) \in Seq(Chars) /\ Len(Text(buf, pos)) = pos
    BY <1>1, Seen
  <2>3. /\ SubSeq(Text(buf, pos), 1, q) \in Seq(Chars) /\ Len(SubSeq(Text(buf, pos), 1, q)) = q
        /\ \A i \in 1 .. q : SubSeq(Text(buf, pos), 1, q)[i] = Text(buf, pos)[i]
    <3>1. \A i \in 1 .. q : Text(buf, pos)[i] \in Chars /\ 1 + i - 1 = i
      BY <1>4, <2>2
    <3>2. q \in Int /\ q - 1 + 1 = q /\ (1 =< q \/ q = 0)
      BY <1>4
    <3> QED BY <3>1, <3>2, SubSeqProperties
  <2>4. /\ Text(buf, q) \in Seq(Chars) /\ Len(Text(buf, q)) = q
        /\ \A i \in 1 .. q : Text(buf, q)[i] = buf[i - 1]
    <3>1. Text(buf, q) \in Seq(Chars) /\ Len(Text(buf, q)) = q
      BY <1>1, <1>4, Seen
    <3> QED BY <3>1 DEF Text
  <2> QED BY <2>1, <2>3, <2>4, SeqEqual
<1>7. /\ SubSeq(Shown', 1, pos') = SubSeq(SubSeq(Shown, 1, pos), 1, q)
      /\ SubSeq(Shown', pos' + 1, len') = SubSeq(Shown, pos + 1, len)
  BY <1>3, <1>4, <1>6, Now, Then
<1>8. q = Len(SubSeq(Shown, 1, pos)) - 1 \/ q = Typing!WordLeft
  <2>1. SubSeq(Shown, 1, pos) = Text(buf, pos) /\ Len(Text(buf, pos)) = pos
    BY <1>1, Seen DEF Shown
  <2>2. Typing!WordLeft = WordStart
    BY <1>1, <2>1, WordOnLeft DEF Typing!WordLeft, Typing!Max, Max
  <2> QED BY <2>1, <2>2
<1>9. Typing!CutLeft(q)
  <2>1. q >= 0
    BY <1>4
  <2> QED BY <1>5, <1>7, <2>1 DEF Typing!CutLeft
<1> QED BY <1>5, <1>8, <1>9 DEF Kept, Typing!Next, Typing!Cut

LEMMA DeletesStep ==
  ASSUME LineInv, lb_delete, UNCHANGED <<saved, hist, hist_pos>>
  PROVE  Kept
<1> USE LineConstants
<1>1. Holds(buf, len) /\ pos \in 0 .. len /\ len \in Nat /\ pos \in Nat
  BY Seen DEF LineInv
<1>2. CASE pos >= len
  BY <1>2, Stutters DEF lb_delete, LineIs
<1>3. CASE ~(pos >= len)
  <2> DEFINE p == pos + 1
  <2>1. /\ buf' = Moved(buf, pos, p, len - pos) /\ len' = len - 1 /\ pos' = pos
    BY <1>3 DEF lb_delete, LineIs
  <2>2. p \in 0 .. len /\ pos \in 0 .. p /\ len - pos = len - p + 1 /\ len - (p - pos) = len - 1
    BY <1>1, <1>3
  <2> HIDE DEF p
  <2>3. buf' = Moved(buf, pos, p, len - p + 1) /\ len' = len - (p - pos)
    BY <2>1, <2>2
  <2>4. /\ Holds(buf', len')
        /\ Text(buf', pos') = Text(buf, pos)
        /\ After(buf', pos', len') = After(buf, p, len)
    <3> DEFINE d == buf'
    <3> HIDE DEF d
    <3>1. d = Moved(buf, pos, p, len - p + 1)
      BY <2>3 DEF d
    <3>2. /\ Holds(d, len - (p - pos)) /\ Text(d, pos) = Text(buf, pos)
          /\ After(d, pos, len - (p - pos)) = After(buf, p, len)
      BY <1>1, <2>2, <3>1, CutOut
    <3> QED BY <2>1, <2>3, <3>2 DEF d
  <2>5. pos' \in 0 .. len'
    BY <1>1, <1>3, <2>1
  <2>6. LineInv' /\ Typing!Edit
    BY <2>4, <2>5, Edited
  <2> DEFINE right == After(buf, pos, len)
             n == len - pos
  <2>7. right \in Seq(Chars) /\ Len(right) = n /\ n \in Nat \ {0}
    BY <1>1, <1>3, Now, Seen
  <2>8. SubSeq(right, 2, n) = After(buf, p, len)
    <3>1. /\ SubSeq(right, 2, n) \in Seq(Chars) /\ Len(SubSeq(right, 2, n)) = n - 1
          /\ \A i \in 1 .. n - 1 : SubSeq(right, 2, n)[i] = right[i + 1]
      <4> HIDE DEF right, n
      <4>1. \A i \in 2 .. n : right[i] \in Chars
        BY <2>7
      <4>2. \A i \in 1 .. n - 1 : 2 + i - 1 = i + 1
        BY <2>7
      <4>3. n - 2 + 1 = n - 1 /\ (2 =< n \/ n - 1 = 0)
        BY <2>7
      <4> QED BY <2>7, <4>1, <4>2, <4>3, SubSeqProperties
    <3>2. /\ After(buf, p, len) \in Seq(Chars) /\ Len(After(buf, p, len)) = n - 1
      <4>1. len - p = n - 1
        BY <1>1, <2>2
      <4> QED BY <1>1, <2>2, <4>1, Halves
    <3>3. ASSUME NEW i \in 1 .. n - 1 PROVE right[i + 1] = After(buf, p, len)[i]
      <4>1. i + 1 \in 1 .. n /\ i \in 1 .. len - p /\ pos + (i + 1) - 1 = pos + i /\ p + i - 1 = pos + i
        BY <1>1, <2>2 DEF p
      <4> QED BY <4>1 DEF After
    <3> HIDE DEF right, n
    <3> QED BY <3>1, <3>2, <3>3, SeqEqual
  <2>9. /\ SubSeq(Shown', 1, pos') = SubSeq(Shown, 1, pos)
        /\ SubSeq(Shown, pos + 1, len) = right
        /\ SubSeq(Shown', pos' + 1, len') = SubSeq(right, 2, n)
    <3> HIDE DEF n
    <3> QED BY <2>1, <2>4, <2>5, <2>8, Now, Then
  <2>10. Typing!CutRight(1)
    <3> HIDE DEF right, n
    <3>1. 1 + 1 = 2 /\ 1 =< n
      BY <2>7
    <3> QED BY <2>6, <2>7, <2>9, <3>1 DEF Typing!CutRight
  <2> QED BY <2>6, <2>10 DEF Kept, Typing!Next, Typing!Cut
<1> QED BY <1>2, <1>3

LEMMA KillsEnd ==
  ASSUME LineInv, lb_kill_eol, UNCHANGED <<saved, hist, hist_pos>>
  PROVE  Kept
<1>1. Holds(buf, len) /\ pos \in 0 .. len /\ pos \in Nat
  BY Now
<1>2. buf' = [buf EXCEPT ![pos] = NUL] /\ len' = pos /\ pos' = pos
  BY DEF lb_kill_eol, LineIs
<1>3. /\ Holds(buf', len')
      /\ Text(buf', pos') = Text(buf, pos)
      /\ After(buf', pos', len') = <<>>
  BY <1>1, <1>2, CutOff
<1>4. pos' \in 0 .. len'
  BY <1>1, <1>2
<1>5. LineInv' /\ Typing!Edit
  BY <1>3, <1>4, Edited
<1> DEFINE right == After(buf, pos, len)
           n == Len(right)
<1>6. right \in Seq(Chars) /\ n \in Nat
  BY <1>1, Halves
<1>7. SubSeq(right, n + 1, n) = <<>>
  <2> HIDE DEF right
  <2>1. Len(SubSeq(right, n + 1, n)) = 0 /\ SubSeq(right, n + 1, n) \in Seq(Chars)
    BY <1>6
  <2> HIDE DEF n
  <2> QED BY <2>1
<1>8. /\ SubSeq(Shown', 1, pos') = SubSeq(Shown, 1, pos)
      /\ SubSeq(Shown, pos + 1, len) = right
      /\ SubSeq(Shown', pos' + 1, len') = <<>>
  BY <1>3, <1>4, Now, Then
<1>9. Typing!CutRight(n)
  <2> DEFINE r == SubSeq(Shown, pos + 1, len)
  <2>1. n = Len(r) /\ SubSeq(r, n + 1, n) = <<>>
    BY <1>7, <1>8
  <2>2. n =< n
    BY <1>6
  <2> HIDE DEF n
  <2>3. SubSeq(Shown', pos' + 1, len') = SubSeq(r, n + 1, Len(r)) /\ n =< Len(r)
    <3> HIDE DEF r
    <3> QED BY <1>8, <2>1, <2>2
  <2> QED BY <1>5, <1>8, <2>3 DEF Typing!CutRight
<1> QED BY <1>5, <1>8, <1>9 DEF Kept, Typing!Next, Typing!Cut

LEMMA KillsLine ==
  ASSUME LineInv, lb_kill_line, UNCHANGED <<saved, hist, hist_pos>>
  PROVE  Kept
<1>1. Holds(buf, len) /\ 0 \in 0 .. len
  BY Now
<1>2. buf' = [buf EXCEPT ![0] = NUL] /\ len' = 0 /\ pos' = 0
  BY DEF lb_kill_line, LineIs
<1>3. /\ Holds(buf', len')
      /\ Text(buf', pos') = Text(buf, 0)
      /\ After(buf', pos', len') = <<>>
  BY <1>1, <1>2, CutOff
<1>4. pos' \in 0 .. len'
  BY <1>2
<1>5. LineInv' /\ Typing!Edit
  BY <1>3, <1>4, Edited
<1>6. Text(buf, 0) = <<>>
  <2>1. Text(buf, 0) \in Seq(Chars) /\ Len(Text(buf, 0)) = 0
    BY <1>1, Seen
  <2> QED BY <2>1
<1>7. SubSeq(Shown', 1, pos') = <<>> /\ SubSeq(Shown', pos' + 1, len') = <<>>
  BY <1>3, <1>4, <1>6, Then
<1> QED BY <1>5, <1>7 DEF Kept, Typing!Next, Typing!Cut

LEMMA Moves ==
  ASSUME LineInv, NEW p \in 0 .. len, LineIs(buf, len, p), UNCHANGED <<saved, hist, hist_pos>>,
         p \in {0, pos - 1, pos + 1, len, WordStart, WordEnd}
  PROVE  Kept
<1>1. Holds(buf, len) /\ pos \in 0 .. len /\ Len(Shown) = len
  BY Now
<1>2. buf' = buf /\ len' = len /\ pos' = p
  BY DEF LineIs
<1>3. Holds(buf', len') /\ pos' \in 0 .. len'
  BY <1>1, <1>2
<1>4. LineInv' /\ Typing!Edit
  BY <1>3, Edited
<1> DEFINE left == SubSeq(Shown, 1, pos)
           right == SubSeq(Shown, pos + 1, len)
<1>5. left \o right = Shown
  BY Now
<1>6. /\ SubSeq(Shown', 1, pos') = SubSeq(Shown, 1, p)
      /\ SubSeq(Shown', pos' + 1, len') = SubSeq(Shown, p + 1, len)
  BY <1>2 DEF Shown
<1>7. Typing!MoveTo(p)
  <2>1. SubSeq(Shown', 1, pos') = SubSeq(left \o right, 1, p)
    BY <1>5, <1>6
  <2>2. SubSeq(Shown', pos' + 1, len') = SubSeq(left \o right, p + 1, Len(left \o right))
    BY <1>1, <1>5, <1>6
  <2>3. p \in 0 .. Len(left \o right)
    BY <1>1, <1>5
  <2> QED BY <1>4, <2>1, <2>2, <2>3 DEF Typing!MoveTo, Typing!Line
<1>8. Len(left) = pos /\ Len(left \o right) = len
  BY <1>1, <1>5, Now
<1>9. Typing!WordLeft = WordStart
  <2>1. left = Text(buf, pos)
    BY Now
  <2> QED BY <1>1, <2>1, WordOnLeft DEF Typing!WordLeft, Typing!Max, Max
<1>10. Typing!WordRight = WordEnd
  <2>1. right = After(buf, pos, len)
    BY Now
  <2> HIDE DEF left, right
  <2>2. WordEnd = pos + Min(Typing!Ends(right) \cup {Len(right)})
    BY <1>1, <2>1, WordOnRight
  <2> QED BY <1>8, <2>2 DEF Typing!WordRight, Typing!Min, Min, left, right
<1>11. Typing!Move
  BY <1>7, <1>8, <1>9, <1>10 DEF Typing!Move, Typing!Line
<1> QED BY <1>4, <1>11 DEF Kept, Typing!Next

LEMMA EditStep ==
  ASSUME LineInv, NEW key \in EditKeys, NEW c, key = "char" => c \in Chars,
         key = "eof" => len > 0, Edit(key, c), UNCHANGED <<saved, hist, hist_pos>>
  PROVE  Kept
<1>1. Holds(buf, len) /\ len \in Nat /\ pos \in Nat /\ pos =< len /\ pos \in 0 .. len
  BY Now
<1>2. CASE key = "char"
  BY <1>2, TypesStep DEF Edit
<1>3. CASE key = "backspace"
  <2>1. lb_backspace
    BY <1>3 DEF Edit
  <2>2. CASE pos = 0
    BY <2>1, <2>2, Stutters DEF lb_backspace, LineIs
  <2>3. CASE pos # 0
    <3> DEFINE q == pos - 1
    <3>1. q \in 0 .. pos /\ pos - q = 1
      BY <1>1, <2>3
    <3>2. LineIs(Moved(buf, q, pos, len - pos + 1), len - (pos - q), q)
      BY <2>1, <2>3, <3>1 DEF lb_backspace
    <3> QED BY <3>1, <3>2, CutsLeft
  <2> QED BY <2>2, <2>3
<1>4. CASE key = "delete" \/ key = "eof"
  <2>1. lb_delete
    BY <1>4 DEF Edit
  <2> QED BY <2>1, DeletesStep
<1>5. CASE key = "left"
  <2> DEFINE p == pos - 1
             q == Max({0, p})
  <2>1. LineIs(buf, len, q)
    BY <1>5 DEF Edit
  <2>2. q = IF 0 >= p THEN 0 ELSE p
    <3>1. p \in Int
      BY <1>1
    <3> HIDE DEF p
    <3> QED BY <3>1, LessOfTwo
  <2>3. q \in 0 .. len /\ q \in {0, pos - 1}
    <3> HIDE DEF q
    <3> QED BY <1>1, <2>2
  <2> HIDE DEF q
  <2> QED BY <2>1, <2>3, Moves
<1>6. CASE key = "right"
  <2> DEFINE p == pos + 1
             q == Min({len, p})
  <2>1. LineIs(buf, len, q)
    BY <1>6 DEF Edit
  <2>2. q = IF len =< p THEN len ELSE p
    <3>1. p \in Int
      BY <1>1
    <3> HIDE DEF p
    <3> QED BY <1>1, <3>1, LessOfTwo
  <2>3. q \in 0 .. len /\ q \in {len, pos + 1}
    <3> HIDE DEF q
    <3> QED BY <1>1, <2>2
  <2> HIDE DEF q
  <2> QED BY <2>1, <2>3, Moves
<1>7. CASE key = "word_left"
  <2>1. LineIs(buf, len, WordStart)
    BY <1>7 DEF Edit, lb_word_left
  <2>2. WordStart \in 0 .. len
    <3>1. WordStart \in 0 .. pos
      BY <1>1, WordOnLeft
    <3> HIDE DEF WordStart
    <3> QED BY <1>1, <3>1
  <2> QED BY <2>1, <2>2, Moves
<1>8. CASE key = "word_right"
  <2>1. LineIs(buf, len, WordEnd)
    BY <1>8 DEF Edit, lb_word_right
  <2>2. WordEnd \in 0 .. len
    <3>1. WordEnd \in pos .. len
      BY <1>1, WordOnRight
    <3> HIDE DEF WordEnd
    <3> QED BY <1>1, <3>1
  <2> QED BY <2>1, <2>2, Moves
<1>9. CASE key = "home"
  <2>1. LineIs(buf, len, 0)
    BY <1>9 DEF Edit
  <2>2. 0 \in 0 .. len
    BY <1>1
  <2> QED BY <2>1, <2>2, Moves
<1>10. CASE key = "end"
  <2>1. LineIs(buf, len, len)
    BY <1>10 DEF Edit
  <2>2. len \in 0 .. len
    BY <1>1
  <2> QED BY <2>1, <2>2, Moves
<1>11. CASE key = "kill_eol"
  BY <1>11, KillsEnd DEF Edit
<1>12. CASE key = "kill_line"
  BY <1>12, KillsLine DEF Edit
<1>13. CASE key = "kill_word"
  <2>1. WordStart \in 0 .. pos
    BY <1>1, WordOnLeft
  <2>2. LineIs(Moved(buf, WordStart, pos, len - pos + 1), len - (pos - WordStart), WordStart)
    BY <1>13 DEF Edit, lb_kill_word
  <2> QED BY <2>1, <2>2, CutsLeft
<1>14. CASE key = "ignore"
  BY <1>14, Stutters DEF Edit, LineIs
<1> QED BY <1>2, <1>3, <1>4, <1>5, <1>6, <1>7, <1>8, <1>9, <1>10, <1>11, <1>12, <1>13, <1>14
        DEF EditKeys

-----------------------------------------------------------------------------
(* Through the history, and from one line to the next.                      *)

LEMMA NavStep ==
  ASSUME LineInv, NEW dir \in {-1, 1}, blr_nav_history(dir), UNCHANGED hist
  PROVE  Kept
<1> DEFINE n == Len(hist)
           at == hist_pos + dir
           low == Min({n, at})
           to == Max({0, low})
<1>1. /\ n \in Nat /\ hist_pos \in 0 .. n /\ at \in Int /\ hist \in Seq(Lines \ {<<>>})
      /\ hist \in Histories
  BY DEF LineInv, Histories
<1>2. low = IF n =< at THEN n ELSE at
  <2> HIDE DEF n, at
  <2> QED BY <1>1, LessOfTwo
<1>3. to = IF 0 >= low THEN 0 ELSE low
  <2>1. low \in Int
    <3> HIDE DEF n, at, low
    <3> QED BY <1>1, <1>2
  <2> HIDE DEF low
  <2> QED BY <2>1, LessOfTwo
<1>4. CASE n = 0 \/ to = hist_pos
  BY <1>4, Stutters DEF blr_nav_history, LineIs
<1>5. CASE ~(n = 0 \/ to = hist_pos)
  <2>1. /\ saved' = IF hist_pos = n THEN Wrote(saved, Text(buf, len)) ELSE saved
        /\ hist_pos' = to
        /\ lb_set(IF to = n THEN CString(saved) ELSE hist[to + 1])
    BY <1>5 DEF blr_nav_history
  <2>2. to = at /\ to \in 0 .. n /\ to # hist_pos
    <3> HIDE DEF n, low, to
    <3> QED BY <1>1, <1>2, <1>3, <1>5
  <2>3. Holds(buf, len) /\ Text(buf, len) \in Lines /\ CString(buf) = Text(buf, len) /\ buf \in Buffers
    BY Held DEF LineInv, Holds
  <2>4. PICK m \in 0 .. MaxLine : Holds(saved, m)
    BY DEF LineInv
  <2>5. saved \in Buffers /\ CString(saved) \in Lines
    BY <2>4, Held DEF Holds
  <2>6. /\ \E k \in 0 .. MaxLine : Holds(saved', k)
        /\ CString(saved') = Draft
    <3>1. CASE hist_pos = n
      <4> DEFINE t == Text(buf, len)
                 w == Wrote(saved, t)
      <4>1. saved' = w /\ Draft = t
        BY <2>1, <3>1 DEF Draft, Shown
      <4>2. Holds(w, Len(t)) /\ Text(w, Len(t)) = t
        <5> HIDE DEF t
        <5> QED BY <2>3, <2>5, WroteHolds DEF t
      <4>3. CString(w) = t
        <5> HIDE DEF t, w
        <5> QED BY <4>2, Held
      <4>4. Len(t) \in 0 .. MaxLine
        <5> HIDE DEF t, w
        <5> QED BY <4>2 DEF Holds
      <4> QED BY <4>1, <4>2, <4>3, <4>4
    <3>2. CASE hist_pos # n
      BY <2>1, <2>4, <3>2 DEF Draft
    <3> QED BY <3>1, <3>2
  <2> DEFINE s == IF to = n THEN CString(saved) ELSE hist[to + 1]
  <2>7. s \in Lines /\ Len(s) \in Nat
    <3>1. to # n => hist[to + 1] \in Lines
      <4> HIDE DEF n, to
      <4>1. to # n => to + 1 \in 1 .. n
        BY <1>1, <2>2
      <4> QED BY <1>1, <4>1 DEF n
    <3>2. s \in Lines
      <4> HIDE DEF n, to
      <4> QED BY <2>5, <3>1
    <3> HIDE DEF s
    <3> QED BY <3>2 DEF Lines
  <2>8. buf' = Wrote(buf, s) /\ len' = Len(s) /\ pos' = Len(s)
    BY <2>1 DEF lb_set, LineIs
  <2> HIDE DEF s
  <2>9. Holds(buf', len') /\ Text(buf', len') = s /\ pos' \in 0 .. len' /\ pos' = len'
    <3>1. Holds(Wrote(buf, s), Len(s)) /\ Text(Wrote(buf, s), Len(s)) = s
      BY <2>3, <2>7, WroteHolds
    <3> QED BY <2>7, <2>8, <3>1
  <2>10. LineInv'
    BY <1>1, <2>1, <2>2, <2>6, <2>9 DEF LineInv
  <2>11. SubSeq(Shown', 1, pos') = s /\ SubSeq(Shown', pos' + 1, len') = <<>> /\ Shown' = s
    <3>1. After(buf', len', len') = <<>>
      <4>1. len' - len' = 0
        BY <2>7, <2>8
      <4>2. After(buf', len', len') \in Seq({}) /\ Len(After(buf', len', len')) = 0
        BY <4>1 DEF After
      <4> QED BY <4>2
    <3>2. /\ SubSeq(Shown', 1, pos') = Text(buf', pos')
          /\ SubSeq(Shown', pos' + 1, len') = After(buf', pos', len')
      BY <2>9, Then
    <3> QED BY <2>9, <3>1, <3>2 DEF Shown
  <2>12. s = (IF at = n THEN Draft ELSE hist[at + 1])
    <3>1. at = n => hist_pos # n
      <4> HIDE DEF n
      <4> QED BY <1>1, <2>2
    <3>2. at = n => Draft = CString(saved)
      BY <3>1 DEF Draft
    <3> HIDE DEF n, at, to
    <3> QED BY <2>2, <3>2 DEF s
  <2>13. Draft' = Draft
    <3>1. CASE to = n
      <4>1. Draft' = s
        BY <2>1, <2>11, <3>1 DEF Draft
      <4> HIDE DEF to, n, at
      <4> QED BY <2>2, <2>12, <3>1, <4>1
    <3>2. CASE to # n
      <4>1. Draft' = CString(saved')
        BY <2>1, <3>2 DEF Draft
      <4> QED BY <2>6, <4>1
    <3> QED BY <3>1, <3>2
  <2>14. Typing!Recall(hist_pos + dir)
    <3>1. hist_pos' = hist_pos + dir /\ hist_pos + dir \in 0 .. Len(hist) /\ hist_pos + dir # hist_pos
      <4> HIDE DEF to
      <4> QED BY <2>1, <2>2
    <3> QED BY <2>11, <2>12, <2>13, <3>1 DEF Typing!Recall
  <2> QED BY <2>10, <2>14 DEF Kept, Typing!Next
<1> QED BY <1>4, <1>5

\* The next line starts empty.
LEMMA EmptyLine == Holds(Empty, 0) /\ CString(Empty) = <<>> /\ Text(Empty, 0) = <<>>
<1>1. Holds(Empty, 0)
  BY LineConstants DEF Holds, Empty, Buffers
<1>2. CString(Empty) = Text(Empty, 0) /\ Text(Empty, 0) \in Lines /\ Len(Text(Empty, 0)) = 0
  BY <1>1, Held
<1>3. Text(Empty, 0) = <<>>
  BY <1>2 DEF Lines
<1> QED BY <1>1, <1>2, <1>3

LEMMA StartsAgain ==
  ASSUME NEW h \in Histories, NewRead(h)
  PROVE  LineInv' /\ Typing!Fresh(h)
<1>1. /\ buf' = Empty /\ len' = 0 /\ pos' = 0 /\ saved' = Empty /\ hist' = h /\ hist_pos' = Len(h)
  BY DEF NewRead, lb_init, LineIs
<1>2. Holds(buf', len') /\ pos' \in 0 .. len' /\ Text(buf', len') = <<>>
  BY <1>1, EmptyLine
<1>3. LineInv'
  <2>1. 0 \in 0 .. MaxLine /\ Holds(saved', 0)
    BY <1>1, EmptyLine, LineConstants
  <2>2. Len(h) \in 0 .. Len(h)
    BY DEF Histories
  <2> QED BY <1>1, <1>2, <2>1, <2>2 DEF LineInv
<1>4. Shown' = <<>> /\ Draft' = <<>>
  BY <1>1, <1>2 DEF Shown, Draft
<1>5. SubSeq(Shown', 1, pos') = <<>> /\ SubSeq(Shown', pos' + 1, len') = <<>>
  <2>1. /\ SubSeq(Shown', 1, pos') = Text(buf', 0)
        /\ SubSeq(Shown', pos' + 1, len') = After(buf', 0, 0)
    BY <1>1, <1>2, Then
  <2>2. Text(buf', 0) = <<>>
    BY <1>1, EmptyLine
  <2>3. After(buf', 0, 0) = <<>>
    <3>1. After(buf', 0, 0) \in Seq({}) /\ Len(After(buf', 0, 0)) = 0
      BY DEF After
    <3> QED BY <3>1
  <2> QED BY <2>1, <2>2, <2>3
<1> QED BY <1>1, <1>3, <1>4, <1>5 DEF Typing!Fresh

\* A line that is read is kept, unless nothing is in it.
LEMMA Reads ==
  ASSUME LineInv, NEW line \in Lines, NewRead(blr_history_add(hist, line))
  PROVE  LineInv' /\ Typing!Fresh(Typing!Keep(line))
<1>1. hist \in Histories
  BY DEF LineInv
<1>2. blr_history_add(hist, line) \in Histories /\ blr_history_add(hist, line) = Typing!Keep(line)
  <2>1. CASE line = <<>>
    BY <1>1, <2>1 DEF blr_history_add, Typing!Keep
  <2>2. CASE line # <<>>
    BY <1>1, <2>2, Added DEF Typing!Keep
  <2> QED BY <2>1, <2>2
<1> QED BY <1>2, StartsAgain

LEMMA LineStep ==
  ASSUME LineInv, [LineNext]_line_vars
  PROVE  Kept
<1>1. ASSUME NEW k \in Keys, Press(KeyOf(k), IF KeyOf(k) = "char" THEN k[1] ELSE NUL) PROVE Kept
  <2> DEFINE key == KeyOf(k)
             c == IF key = "char" THEN k[1] ELSE NUL
  <2>1. key \in EditKeys \cup HistoryKeys \cup EndKeys /\ (key = "char" => c \in Chars) /\ Press(key, c)
    BY <1>1, KeysKnown
  <2> HIDE DEF key, c
  <2>2. CASE key \in HistoryKeys
    <3>1. blr_nav_history(IF key = "up" THEN -1 ELSE 1) /\ UNCHANGED hist
      BY <2>1, <2>2 DEF Press, HistoryKeys
    <3> DEFINE dir == IF key = "up" THEN -1 ELSE 1
    <3>2. dir \in {-1, 1} /\ blr_nav_history(dir)
      BY <3>1
    <3> HIDE DEF dir
    <3> QED BY <3>1, <3>2, NavStep
  <2>3. CASE key = "enter"
    <3>1. NewRead(blr_history_add(hist, CString(buf)))
      BY <2>1, <2>3 DEF Press
    <3>2. CString(buf) = Shown /\ Shown \in Lines
      BY Held DEF LineInv, Shown
    <3>3. LineInv' /\ Typing!Fresh(Typing!Keep(Shown))
      BY <3>1, <3>2, Reads
    <3>4. Shown = Typing!Line
      BY Now DEF Typing!Line
    <3> QED BY <3>3, <3>4 DEF Kept, Typing!Next, Typing!Enter
  <2>4. CASE key \in {"quit", "closed"} \/ (key = "eof" /\ len = 0)
    <3>1. NewRead(hist)
      <4>1. ~(len > 0) \/ key # "eof"
        BY <2>4, Now
      <4> QED BY <2>1, <2>4, <4>1 DEF Press
    <3>2. LineInv' /\ Typing!Fresh(hist)
      BY <3>1, StartsAgain DEF LineInv
    <3> QED BY <3>2 DEF Kept, Typing!Next, Typing!GiveUp
  <2>5. CASE key \in EditKeys /\ ~(key = "eof" /\ len = 0)
    <3>1. /\ Edit(key, c) /\ UNCHANGED <<saved, hist, hist_pos>>
          /\ key = "eof" => len > 0
      BY <2>1, <2>5 DEF Press, EditKeys
    <3> QED BY <2>1, <2>5, <3>1, EditStep
  <2> QED BY <2>1, <2>2, <2>3, <2>4, <2>5 DEF EndKeys
<1>2. ASSUME NEW line \in BoundedSeq(Chars, MaxLine), ReadPlain(line) PROVE Kept
  <2>1. PICK m \in 0 .. MaxLine : line \in [1 .. m -> Chars]
    BY DEF BoundedSeq, SeqOf
  <2>2. line \in Lines
    <3>1. line \in Seq(Chars) /\ Len(line) = m /\ m =< MaxLine
      BY <2>1, LineConstants
    <3> QED BY <3>1 DEF Lines
  <2>3. LineInv' /\ Typing!Fresh(Typing!Keep(line))
    BY <1>2, <2>2, Reads DEF ReadPlain
  <2>4. line \in Typing!BoundedSeq(Chars, MaxLine)
    BY <2>1 DEF Typing!BoundedSeq, Typing!SeqOf
  <2> QED BY <2>3, <2>4 DEF Kept, Typing!Next, Typing!EnterUnseen
<1>3. ASSUME Restart PROVE Kept
  <2>1. NewRead(hist) /\ hist \in Histories
    BY <1>3, ReloadedSame DEF Restart, LineInv
  <2>2. LineInv' /\ Typing!Fresh(hist)
    BY <2>1, StartsAgain
  <2> QED BY <2>2 DEF Kept, Typing!Next, Typing!GiveUp
<1>4. CASE UNCHANGED line_vars
  BY <1>4, Stutters DEF line_vars
<1>5. ASSUME NEW p \in Pressed, Press(p[1], p[2]) PROVE Kept
  <2>1. PICK k \in Keys : p = <<KeyOf(k), IF KeyOf(k) = "char" THEN k[1] ELSE NUL>>
    BY DEF Pressed
  <2>2. p[1] = KeyOf(k) /\ p[2] = IF KeyOf(k) = "char" THEN k[1] ELSE NUL
    BY <2>1
  <2> QED BY <1>1, <1>5, <2>2
<1> QED BY <1>2, <1>3, <1>4, <1>5 DEF LineNext

LEMMA Starts ==
  ASSUME LineInit
  PROVE  LineInv /\ Typing!Init
<1>1. hist \in Histories /\ Len(hist) = 0
  BY LineConstants DEF LineInit, Histories
<1>2. LineInv
  <2>1. 0 \in 0 .. MaxLine /\ 0 \in 0 .. 0 /\ Holds(saved, 0)
    BY EmptyLine, LineConstants DEF LineInit
  <2> QED BY <1>1, <2>1, EmptyLine DEF LineInit, LineInv
<1>3. Shown = <<>> /\ Draft = <<>>
  BY <1>1, EmptyLine DEF LineInit, Shown, Draft
<1>4. SubSeq(Shown, 1, pos) = <<>> /\ SubSeq(Shown, pos + 1, len) = <<>>
  <2>1. /\ SubSeq(Shown, 1, pos) = Shown
        /\ SubSeq(Shown, pos + 1, len) = After(buf, pos, len)
    BY <1>2, Now DEF LineInit, Shown
  <2>2. After(buf, pos, len) = <<>>
    <3>1. After(buf, 0, 0) \in Seq({}) /\ Len(After(buf, 0, 0)) = 0
      BY DEF After
    <3> QED BY <3>1 DEF LineInit
  <2> QED BY <1>3, <2>1, <2>2
<1> QED BY <1>2, <1>3, <1>4 DEF LineInit, Typing!Init

\* In every state the buffer ends with its NUL at the length of the line, and the cursor is
\* in the line: what lb_insert, lb_delete and the history move and copy stays in the array.
THEOREM EndsWithNul == LineSpec => []Terminated
<1>1. LineInit => LineInv
  BY Starts
<1>2. LineInv /\ [LineNext]_line_vars => LineInv'
  BY LineStep DEF Kept
<1>3. LineInv => Terminated
  BY Now, Held DEF LineInv, Terminated, Holds
<1> QED BY <1>1, <1>2, <1>3, PTL DEF LineSpec

\* Whatever keys are pressed, in whatever order, the editor is TextLine: the buffers, their
\* NULs and the moved bytes show the person who types nothing but a line and its history.
THEOREM EditorImplementsTextLine == LineSpec => ImplementsTextLine
<1>1. LineInit => LineInv /\ Typing!Init
  BY Starts
<1>2. LineInv /\ [LineNext]_line_vars => LineInv' /\ [Typing!Next]_Typing!vars
  BY LineStep DEF Kept
<1> QED BY <1>1, <1>2, PTL DEF LineSpec, ImplementsTextLine, Typing!Spec
-----------------------------------------------------------------------------
(* Wildcards: characters, sets and where they are closed.                     *)

Chars0 == Nat \ {0}
Texts0 == Seq(Chars0)

LEMMA TextIs ==
  ASSUME NEW t \in Texts0
  PROVE  /\ Len(t) \in Nat /\ EndOf(t) \in Nat \ {0} /\ EndOf(t) = Len(t) + 1
         /\ DOMAIN t = 1 .. Len(t) /\ \A i \in 1 .. Len(t) : t[i] \in Nat \ {0}
BY DEF Texts0, Chars0, EndOf

LEMMA NextCharIs ==
  ASSUME NEW t \in Texts0, NEW p \in 1 .. Len(t)
  PROVE  NextChar(t, p) \in p + 1 .. EndOf(t)
BY TextIs DEF NextChar

Closers == {Unbracket, Unbrace}

LEMMA FindCloseIs ==
  ASSUME NEW t \in Texts0, NEW c
  PROVE  \A p \in 1 .. EndOf(t) :
           /\ find_close(t, p, c) \in Nat
           /\ find_close(t, p, c) =
                (IF p = EndOf(t) THEN NoMatch ELSE IF t[p] = c THEN p
                 ELSE find_close(t, NextChar(t, p), c))
<1> DEFINE n == EndOf(t)
           Body(h, i) == IF i = n THEN NoMatch ELSE IF t[i] = c THEN i ELSE h[NextChar(t, i)]
           Rec(h) == h = [i \in 1 .. n |-> Body(h, i)]
           G == [f \in [1 .. n -> Nat] |-> [i \in 1 .. n |-> Body(f, i)]]
           F == CHOOSE h : Rec(h)
<1>1. n \in Nat \ {0} /\ n = Len(t) + 1
  BY TextIs
<1>2. \A i \in 1 .. n : i # n => NextChar(t, i) \in i + 1 .. n /\ NextChar(t, i) \in 1 .. n
  <2> TAKE i \in 1 .. n
  <2>1. i # n => i \in 1 .. Len(t)
    BY <1>1
  <2> QED BY <1>1, <2>1, NextCharIs
<1>3. \A p : find_close(t, p, c) = F[p]
  BY DEF find_close
<1> HIDE DEF n
<1>4. \A f \in [1 .. n -> Nat], i \in 1 .. n : Body(f, i) \in Nat
  BY <1>2 DEF NoMatch
<1>5. \A f, g \in [1 .. n -> Nat], i \in 1 .. n : (\A k \in i + 1 .. n : f[k] = g[k]) => Body(f, i) = Body(g, i)
  BY <1>2
<1>6. G \in [[1 .. n -> Nat] -> [1 .. n -> Nat]]
  <2> HIDE DEF Body
  <2> QED BY <1>4
<1>7. FromLater(G, n, Nat)
  <2> HIDE DEF Body
  <2> QED BY <1>5 DEF FromLater
<1>8. PICK f \in [1 .. n -> Nat] : G[f] = f
  <2> HIDE DEF G
  <2>1. Nat # {}
    OBVIOUS
  <2> HIDE DEF Body, Rec
  <2>2. n \in Nat
    BY <1>1
  <2>3. Turns(G, n, Nat)
    BY <1>6, <1>7, <2>1, <2>2 DEF Turns
  <2> QED BY <2>3, Descends
<1>9. Rec(f)
  <2> HIDE DEF Body
  <2> QED BY <1>8
<1>10. Rec(F)
  <2> HIDE DEF Rec
  <2> QED BY <1>9
<1> HIDE DEF F
<1>11. \A i \in 1 .. n : F[i] = Body(F, i)
  <2> HIDE DEF Body
  <2> QED BY <1>10
<1> DEFINE Bad == {i \in 1 .. n : F[i] \notin Nat}
<1>12. Bad = {}
  <2>1. Bad \in SUBSET (1 .. n)
    OBVIOUS
  <2>2. ASSUME NEW i \in 1 .. n, \A k \in i + 1 .. n : k \notin Bad PROVE i \notin Bad
    <3>1. \A k \in i + 1 .. n : k \in 1 .. n
      OBVIOUS
    <3> QED BY <1>2, <1>11, <2>2, <3>1 DEF NoMatch
  <2> HIDE DEF Bad
  <2> QED BY <1>1, <2>1, <2>2, NoLast
<1> QED BY <1>3, <1>11, <1>12 DEF n

LEMMA SetItemIs ==
  ASSUME NEW t \in Texts0, NEW end \in 1 .. EndOf(t), NEW p \in 1 .. end - 1
  PROVE  /\ SetItem(t, p, end).next \in p + 1 .. end
         /\ SetItem(t, p, end).char \in Nat
         /\ SetItem(t, p, end).char = t[SetItem(t, p, end).next - 1]
         /\ SetItem(t, p, end).next = IF t[p] = Backslash /\ p + 1 < end THEN p + 2 ELSE p + 1
BY TextIs DEF SetItem

LEMMA SetRangeIs ==
  ASSUME NEW t \in Texts0, NEW end \in 1 .. EndOf(t), NEW p \in 1 .. end - 1
  PROVE  /\ SetRange(t, p, end).next \in p + 1 .. end
         /\ SetRange(t, p, end).chars \in SUBSET Nat
<1> DEFINE lo == SetItem(t, p, end)
           ranges == lo.next + 1 < end /\ t[lo.next] = Dash
           up == SetItem(t, lo.next + 1, end)
<1>1. lo.next \in p + 1 .. end /\ lo.char \in Nat /\ EndOf(t) \in Nat
  BY SetItemIs, TextIs
<1>2. ranges => up.next \in lo.next + 2 .. end /\ up.char \in Nat
  <2> SUFFICES ASSUME ranges PROVE up.next \in lo.next + 2 .. end /\ up.char \in Nat
    OBVIOUS
  <2>1. lo.next + 1 \in 1 .. end - 1
    BY <1>1
  <2> HIDE DEF lo
  <2> QED BY <1>1, <2>1, SetItemIs
<1>3. SetRange(t, p, end) = [chars |-> lo.char .. (IF ranges THEN up ELSE lo).char,
                             next |-> (IF ranges THEN up ELSE lo).next]
  BY DEF SetRange
<1> HIDE DEF lo, up
<1> QED BY <1>1, <1>2, <1>3

LEMMA SetMatchIs ==
  ASSUME NEW t \in Texts0, NEW end \in 1 .. EndOf(t), NEW c
  PROVE  \A p \in 1 .. end :
           /\ set_match(t, p, end, c) \in BOOLEAN
           /\ set_match(t, p, end, c) =
                (IF p = end THEN FALSE
                 ELSE c \in SetRange(t, p, end).chars \/ set_match(t, SetRange(t, p, end).next, end, c))
<1> DEFINE Body(h, i) ==
             IF i = end THEN FALSE
             ELSE c \in SetRange(t, i, end).chars \/ h[SetRange(t, i, end).next]
           Rec(h) == h = [i \in 1 .. end |-> Body(h, i)]
           G == [f \in [1 .. end -> BOOLEAN] |-> [i \in 1 .. end |-> Body(f, i)]]
           F == CHOOSE h : Rec(h)
<1>1. end \in Nat \ {0}
  BY TextIs
<1>2. \A i \in 1 .. end : i # end => SetRange(t, i, end).next \in i + 1 .. end /\ SetRange(t, i, end).next \in 1 .. end
  <2> TAKE i \in 1 .. end
  <2>1. i # end => i \in 1 .. end - 1
    BY <1>1
  <2>2. i # end => SetRange(t, i, end).next \in i + 1 .. end
    BY <2>1, SetRangeIs
  <2> QED BY <1>1, <2>2
<1>3. \A p : set_match(t, p, end, c) = F[p]
  BY DEF set_match
<1>4. \A f \in [1 .. end -> BOOLEAN], i \in 1 .. end : Body(f, i) \in BOOLEAN
  BY <1>2
<1>5. \A f, g \in [1 .. end -> BOOLEAN], i \in 1 .. end : (\A k \in i + 1 .. end : f[k] = g[k]) => Body(f, i) = Body(g, i)
  BY <1>2
<1>6. G \in [[1 .. end -> BOOLEAN] -> [1 .. end -> BOOLEAN]]
  <2> HIDE DEF Body
  <2> QED BY <1>4
<1>7. FromLater(G, end, BOOLEAN)
  <2> HIDE DEF Body
  <2> QED BY <1>5 DEF FromLater
<1>8. PICK f \in [1 .. end -> BOOLEAN] : G[f] = f
  <2> HIDE DEF G
  <2>1. BOOLEAN # {} /\ end \in Nat
    BY <1>1
  <2>3. Turns(G, end, BOOLEAN)
    BY <1>6, <1>7, <2>1 DEF Turns
  <2> QED BY <2>3, Descends
<1>9. Rec(f)
  <2> HIDE DEF Body
  <2> QED BY <1>8
<1>10. Rec(F)
  <2> HIDE DEF Rec
  <2> QED BY <1>9
<1> HIDE DEF F
<1>11. \A i \in 1 .. end : F[i] = Body(F, i)
  <2> HIDE DEF Body
  <2> QED BY <1>10
<1> DEFINE Bad == {i \in 1 .. end : F[i] \notin BOOLEAN}
<1>12. Bad = {}
  <2>1. Bad \in SUBSET (1 .. end)
    OBVIOUS
  <2>2. ASSUME NEW i \in 1 .. end, \A k \in i + 1 .. end : k \notin Bad PROVE i \notin Bad
    <3>1. \A k \in i + 1 .. end : k \in 1 .. end
      OBVIOUS
    <3> QED BY <1>2, <1>11, <2>2, <3>1
  <2> HIDE DEF Bad
  <2> QED BY <1>1, <2>1, <2>2, NoLast
<1> QED BY <1>3, <1>11, <1>12

\* Where the character at i of a set stands, which may be escaped (Place of Members).
Stands(t, i, end) == IF t[i] = Backslash /\ i + 1 < end THEN i + 1 ELSE i

LEMMA MembersIs ==
  ASSUME NEW t \in Texts0, NEW end \in 1 .. EndOf(t)
  PROVE  \A p \in 1 .. end :
           /\ Members(t, p, end) \in SUBSET Nat
           /\ Members(t, p, end) =
                (IF p = end THEN {}
                 ELSE LET lo == Stands(t, p, end) IN
                      IF lo + 2 < end /\ t[lo + 1] = Dash
                      THEN (t[lo] .. t[Stands(t, lo + 2, end)]) \cup Members(t, Stands(t, lo + 2, end) + 1, end)
                      ELSE {t[lo]} \cup Members(t, lo + 1, end))
<1> DEFINE Lo(i) == Stands(t, i, end)
           Hi(i) == Stands(t, Lo(i) + 2, end)
           Ranges(i) == Lo(i) + 2 < end /\ t[Lo(i) + 1] = Dash
           Body(h, i) == IF i = end THEN {}
                         ELSE IF Ranges(i) THEN (t[Lo(i)] .. t[Hi(i)]) \cup h[Hi(i) + 1]
                         ELSE {t[Lo(i)]} \cup h[Lo(i) + 1]
           Rec(h) == h = [i \in 1 .. end |-> Body(h, i)]
           Sets == SUBSET Nat
           G == [f \in [1 .. end -> Sets] |-> [i \in 1 .. end |-> Body(f, i)]]
           F == CHOOSE h : Rec(h)
<1>1. end \in Nat \ {0} /\ end - 1 =< Len(t) /\ Len(t) \in Nat /\ \A i \in 1 .. Len(t) : t[i] \in Nat
  BY TextIs
<1>2. ASSUME NEW i \in 1 .. end, i # end
      PROVE  /\ Lo(i) \in i .. end - 1 /\ t[Lo(i)] \in Nat
             /\ Ranges(i) => /\ Hi(i) + 1 \in i + 1 .. end /\ Hi(i) + 1 \in 1 .. end
                             /\ t[Lo(i)] .. t[Hi(i)] \in Sets
             /\ Lo(i) + 1 \in i + 1 .. end /\ Lo(i) + 1 \in 1 .. end
  BY <1>1, <1>2 DEF Stands
<1>3. \A p : Members(t, p, end) = F[p]
  BY DEF Members, Stands
<1> HIDE DEF Lo, Hi, Ranges
<1>4. \A f \in [1 .. end -> Sets], i \in 1 .. end : Body(f, i) \in Sets
  BY <1>2
<1>5. \A f, g \in [1 .. end -> Sets], i \in 1 .. end : (\A k \in i + 1 .. end : f[k] = g[k]) => Body(f, i) = Body(g, i)
  BY <1>2
<1> HIDE DEF Sets
<1>6. G \in [[1 .. end -> Sets] -> [1 .. end -> Sets]]
  <2> HIDE DEF Body
  <2> QED BY <1>4
<1>7. FromLater(G, end, Sets)
  <2> HIDE DEF Body
  <2> QED BY <1>5 DEF FromLater
<1>8. PICK f \in [1 .. end -> Sets] : G[f] = f
  <2> HIDE DEF G
  <2>1. Sets # {} /\ end \in Nat
    BY <1>1 DEF Sets
  <2>3. Turns(G, end, Sets)
    BY <1>6, <1>7, <2>1 DEF Turns
  <2> QED BY <2>3, Descends
<1>9. Rec(f)
  <2> HIDE DEF Body
  <2> QED BY <1>8
<1>10. Rec(F)
  <2> HIDE DEF Rec
  <2> QED BY <1>9
<1> HIDE DEF F
<1>11. \A i \in 1 .. end : F[i] = Body(F, i)
  <2> HIDE DEF Body
  <2> QED BY <1>10
<1> DEFINE Bad == {i \in 1 .. end : F[i] \notin Sets}
<1>12. Bad = {}
  <2>1. Bad \in SUBSET (1 .. end)
    OBVIOUS
  <2>2. ASSUME NEW i \in 1 .. end, \A k \in i + 1 .. end : k \notin Bad PROVE i \notin Bad
    <3>1. \A k \in i + 1 .. end : k \in 1 .. end /\ F[k] \in Sets
      BY <2>2
    <3>2. Body(F, i) \in Sets
      BY <1>2, <3>1 DEF Sets
    <3> HIDE DEF Body
    <3> QED BY <1>11, <3>2
  <2> HIDE DEF Bad
  <2> QED BY <1>1, <2>1, <2>2, NoLast
<1>13. \A i \in 1 .. end : Members(t, i, end) \in Sets /\ Members(t, i, end) = Body(F, i)
  <2> HIDE DEF Body
  <2> QED BY <1>3, <1>11, <1>12
<1> QED BY <1>3, <1>13 DEF Sets, Lo, Hi, Ranges

\* The reader of sets finds what is in them.
LEMMA SetsAgree ==
  ASSUME NEW t \in Texts0, NEW end \in 1 .. EndOf(t), NEW c
  PROVE  \A p \in 1 .. end : set_match(t, p, end, c) <=> c \in Members(t, p, end)
<1> DEFINE Bad == {p \in 1 .. end : ~(set_match(t, p, end, c) <=> c \in Members(t, p, end))}
<1>1. end \in Nat \ {0} /\ end - 1 =< Len(t) /\ Len(t) \in Nat /\ \A i \in 1 .. Len(t) : t[i] \in Nat
  BY TextIs
<1>2. ASSUME NEW p \in 1 .. end, \A k \in p + 1 .. end : k \notin Bad PROVE p \notin Bad
  <2> DEFINE range == SetRange(t, p, end)
             lo == Stands(t, p, end)
             hi == Stands(t, lo + 2, end)
             ranges == lo + 2 < end /\ t[lo + 1] = Dash
  <2>1. CASE p = end
    <3>1. set_match(t, p, end, c) = FALSE /\ Members(t, p, end) = {}
      BY <2>1, SetMatchIs, MembersIs
    <3> QED BY <3>1
  <2>2. CASE p # end
    <3>1. p \in 1 .. end - 1
      BY <1>1, <2>2
    <3>2. SetItem(t, p, end) = [char |-> t[lo], next |-> lo + 1] /\ lo \in p .. end - 1
      BY <1>1, <3>1 DEF SetItem, Stands
    <3>3. ranges => /\ SetItem(t, lo + 2, end) = [char |-> t[hi], next |-> hi + 1]
                    /\ hi \in lo + 2 .. end - 1
      <4> HIDE DEF lo
      <4>1. lo + 2 + 1 = lo + 3 /\ lo + 2 \in Int
        BY <3>2
      <4> QED BY <1>1, <3>2, <4>1 DEF SetItem, Stands
    <3>4. range = IF ranges THEN [chars |-> t[lo] .. t[hi], next |-> hi + 1]
                  ELSE [chars |-> t[lo] .. t[lo], next |-> lo + 1]
      <4> DEFINE one == SetItem(t, p, end)
                 up == SetItem(t, one.next + 1, end)
                 R == one.next + 1 < end /\ t[one.next] = Dash
      <4>1. range = [chars |-> one.char .. (IF R THEN up ELSE one).char,
                     next |-> (IF R THEN up ELSE one).next]
        BY DEF SetRange
      <4>2. one.char = t[lo] /\ one.next = lo + 1
        <5> HIDE DEF lo
        <5> QED BY <3>2
      <4>3. one.next + 1 = lo + 2
        <5> HIDE DEF lo, one
        <5> QED BY <3>2, <4>2
      <4>4. R = ranges
        <5> HIDE DEF lo, one
        <5> QED BY <4>2, <4>3
      <4>5. up = SetItem(t, lo + 2, end)
        <5> HIDE DEF lo, one
        <5> QED BY <4>3
      <4>6. ranges => up.char = t[hi] /\ up.next = hi + 1
        <5> HIDE DEF lo, one, up, hi, ranges
        <5> QED BY <3>3, <4>5
      <4> HIDE DEF lo, hi, ranges, one, up, range, R
      <4> QED BY <4>1, <4>2, <4>4, <4>6
    <3>5. t[lo] .. t[lo] = {t[lo]}
      <4> HIDE DEF lo
      <4> QED BY <1>1, <3>2
    <3> DEFINE next == IF ranges THEN hi + 1 ELSE lo + 1
    <3>6. Members(t, p, end) = range.chars \cup Members(t, next, end)
      <4>1. Members(t, p, end) =
              IF ranges THEN (t[lo] .. t[hi]) \cup Members(t, hi + 1, end)
              ELSE {t[lo]} \cup Members(t, lo + 1, end)
        BY <2>2, MembersIs
      <4> HIDE DEF lo, hi, ranges
      <4> QED BY <3>4, <3>5, <4>1
    <3>7. set_match(t, p, end, c) = (c \in range.chars \/ set_match(t, next, end, c))
      <4>1. set_match(t, p, end, c) = (c \in range.chars \/ set_match(t, range.next, end, c))
        BY <2>2, SetMatchIs
      <4>2. range.next = next
        <5> HIDE DEF lo, hi, ranges
        <5> QED BY <3>4
      <4> QED BY <4>1, <4>2
    <3>8. next \in p + 1 .. end
      <4> HIDE DEF lo, hi
      <4> QED BY <1>1, <3>2, <3>3
    <3> HIDE DEF next, lo, hi
    <3>9. next \in 1 .. end /\ next \notin Bad
      BY <1>1, <1>2, <3>8
    <3>10. set_match(t, next, end, c) <=> c \in Members(t, next, end)
      BY <3>9
    <3> QED BY <3>6, <3>7, <3>10
  <2> QED BY <2>1, <2>2
<1>3. Bad = {}
  <2>1. Bad \in SUBSET (1 .. end)
    OBVIOUS
  <2> HIDE DEF Bad
  <2> QED BY <1>1, <1>2, <2>1, NoLast
<1> QED BY <1>3

-----------------------------------------------------------------------------
(* Backslashes before a character, and where a set is closed.                *)

AllSlashes(t, k, i) == \A m \in k .. i - 1 : t[m] = Backslash
StartsSlashes(t, from, i, r) ==
  r \in from .. i /\ AllSlashes(t, r, i) /\ (r = from \/ t[r - 1] # Backslash)

LEMMA SlashRun ==
  ASSUME NEW t, NEW from \in Nat \ {0}, NEW i \in Nat, from =< i
  PROVE  /\ \E r \in from .. i : StartsSlashes(t, from, i, r) /\ SlashesBefore(t, from, i) = i - r
         /\ \A r \in from .. i : StartsSlashes(t, from, i, r) => SlashesBefore(t, from, i) = i - r
<1> DEFINE S == {k \in from .. i : \A m \in k .. i - 1 : t[m] = Backslash}
           r == Min(S)
<1>1. S \in SUBSET Nat /\ i \in S
  OBVIOUS
<1>2. r \in S /\ \A k \in S : r =< k
  <2> HIDE DEF S
  <2> QED BY <1>1, MinIsIn
<1>3. SlashesBefore(t, from, i) = i - r
  BY DEF SlashesBefore
<1> HIDE DEF r
<1>4. StartsSlashes(t, from, i, r)
  <2>1. r \in from .. i /\ AllSlashes(t, r, i)
    BY <1>2 DEF AllSlashes
  <2>2. ASSUME r # from, t[r - 1] = Backslash PROVE FALSE
    <3>1. r - 1 \in from .. i
      BY <2>1, <2>2
    <3>2. \A m \in r - 1 .. i - 1 : t[m] = Backslash
      <4> TAKE m \in r - 1 .. i - 1
      <4>1. m = r - 1 \/ m \in r .. i - 1
        BY <2>1
      <4> QED BY <2>1, <2>2, <4>1 DEF AllSlashes
    <3>3. r - 1 \in S
      BY <3>1, <3>2
    <3> HIDE DEF S
    <3> QED BY <1>2, <2>1, <3>3
  <2> QED BY <2>1, <2>2 DEF StartsSlashes
<1>5. ASSUME NEW u \in from .. i, StartsSlashes(t, from, i, u) PROVE u = r
  <2>1. u \in S
    BY <1>5 DEF StartsSlashes, AllSlashes
  <2>2. r =< u /\ r \in from .. i
    BY <1>2, <2>1
  <2>3. r < u => t[u - 1] = Backslash
    <3> SUFFICES ASSUME r < u PROVE t[u - 1] = Backslash
      OBVIOUS
    <3>1. u - 1 \in r .. i - 1
      BY <2>2
    <3> QED BY <1>2, <3>1
  <2>4. r < u => FALSE
    BY <1>5, <2>2, <2>3 DEF StartsSlashes
  <2> QED BY <2>2, <2>4
<1> QED BY <1>2, <1>3, <1>4, <1>5

\* The number of backslashes before i does not depend on what is before another character.
LEMMA SlashesFromNext ==
  ASSUME NEW t, NEW p \in Nat \ {0}, NEW i \in Nat, p + 1 =< i, t[p] # Backslash
  PROVE  SlashesBefore(t, p, i) = SlashesBefore(t, p + 1, i)
<1>1. PICK r \in p + 1 .. i : StartsSlashes(t, p + 1, i, r) /\ SlashesBefore(t, p + 1, i) = i - r
  <2>1. p + 1 \in Nat \ {0}
    OBVIOUS
  <2> QED BY <2>1, SlashRun
<1>2. r \in p .. i /\ StartsSlashes(t, p, i, r)
  <2>1. r = p + 1 => r - 1 = p
    OBVIOUS
  <2> QED BY <1>1, <2>1 DEF StartsSlashes
<1> QED BY <1>1, <1>2, SlashRun

\* An escaped character does not change whether it is odd.
LEMMA SlashesFromEscaped ==
  ASSUME NEW t, NEW p \in Nat \ {0}, NEW i \in Nat, p + 2 =< i, t[p] = Backslash
  PROVE  SlashesBefore(t, p, i) % 2 = SlashesBefore(t, p + 2, i) % 2
<1>1. PICK r \in p + 2 .. i : StartsSlashes(t, p + 2, i, r) /\ SlashesBefore(t, p + 2, i) = i - r
  <2>1. p + 2 \in Nat \ {0}
    OBVIOUS
  <2> QED BY <2>1, SlashRun
<1>2. CASE r = p + 2 /\ t[p + 1] = Backslash
  <2>1. p \in p .. i /\ StartsSlashes(t, p, i, p)
    <3>1. \A m \in p .. i - 1 : t[m] = Backslash
      <4> TAKE m \in p .. i - 1
      <4>1. m = p \/ m = p + 1 \/ m \in p + 2 .. i - 1
        OBVIOUS
      <4> QED BY <1>1, <1>2, <4>1 DEF StartsSlashes, AllSlashes
    <3> QED BY <3>1 DEF StartsSlashes, AllSlashes
  <2>2. SlashesBefore(t, p, i) = i - p
    BY <2>1, SlashRun
  <2>3. i - p = i - (p + 2) + 2 /\ i - (p + 2) \in Nat
    OBVIOUS
  <2> QED BY <1>1, <1>2, <2>2, <2>3
<1>3. CASE ~(r = p + 2 /\ t[p + 1] = Backslash)
  <2>1. r \in p .. i /\ StartsSlashes(t, p, i, r)
    <3>1. r = p + 2 => r - 1 = p + 1
      OBVIOUS
    <3> QED BY <1>1, <1>3, <3>1 DEF StartsSlashes
  <2> QED BY <1>1, <2>1, SlashRun
<1> QED BY <1>2, <1>3

\* Where a set is closed: the first c that is not escaped.
LEMMA ClosingIs ==
  ASSUME NEW t \in Texts0, NEW c, c # Backslash
  PROVE  \A p \in 1 .. EndOf(t) :
           find_close(t, p, c) = IF Closing(t, p, c) = {} THEN NoMatch ELSE Min(Closing(t, p, c))
<1> DEFINE n == EndOf(t)
           First(p) == IF Closing(t, p, c) = {} THEN NoMatch ELSE Min(Closing(t, p, c))
           Bad == {p \in 1 .. n : find_close(t, p, c) # First(p)}
<1>1. n \in Nat \ {0} /\ n = Len(t) + 1 /\ Len(t) \in Nat
  BY TextIs
<1>2. ASSUME NEW p \in 1 .. n, \A k \in p + 1 .. n : k \notin Bad PROVE p \notin Bad
  <2>1. CASE p = n
    <3>1. Closing(t, p, c) = {}
      BY <1>1, <2>1 DEF Closing
    <3>2. find_close(t, p, c) = NoMatch
      BY <2>1, FindCloseIs
    <3> QED BY <3>1, <3>2
  <2>2. CASE p # n /\ t[p] = c
    <3>1. p \in 1 .. Len(t)
      BY <1>1, <2>2
    <3>2. SlashesBefore(t, p, p) = 0
      <4>1. StartsSlashes(t, p, p, p)
        BY DEF StartsSlashes, AllSlashes
      <4>2. p \in Nat \ {0} /\ p \in p .. p
        OBVIOUS
      <4>3. SlashesBefore(t, p, p) = p - p
        BY <4>1, <4>2, SlashRun
      <4> QED BY <4>3
    <3>3. p \in Closing(t, p, c) /\ Closing(t, p, c) \in SUBSET Nat /\ \A k \in Closing(t, p, c) : p =< k
      BY <1>1, <2>2, <3>1, <3>2 DEF Closing
    <3>4. Min(Closing(t, p, c)) = p
      <4>1. Min(Closing(t, p, c)) \in Closing(t, p, c) /\ Min(Closing(t, p, c)) =< p
        BY <3>3, MinIsIn
      <4>2. p =< Min(Closing(t, p, c)) /\ Min(Closing(t, p, c)) \in Nat
        BY <3>3, <4>1
      <4> QED BY <4>1, <4>2
    <3>5. find_close(t, p, c) = p
      BY <2>2, FindCloseIs
    <3> QED BY <3>3, <3>4, <3>5
  <2>3. CASE p # n /\ t[p] # c
    <3>1. p \in 1 .. Len(t) /\ p + 1 \in 1 .. n
      BY <1>1, <2>3
    <3> DEFINE next == NextChar(t, p)
    <3>2. next \in p + 1 .. n /\ next \in 1 .. n
      BY <1>1, <3>1, NextCharIs
    <3>3. Closing(t, p, c) = Closing(t, next, c)
      <4>1. CASE t[p] = Backslash /\ p < Len(t)
        <5>1. next = p + 2
          BY <4>1 DEF NextChar
        <5>2. SlashesBefore(t, p, p + 1) = 1
          <6>1. StartsSlashes(t, p, p + 1, p)
            BY <4>1 DEF StartsSlashes, AllSlashes
          <6>2. p \in Nat \ {0} /\ p + 1 \in Nat /\ p =< p + 1 /\ p \in p .. p + 1
            OBVIOUS
          <6>3. SlashesBefore(t, p, p + 1) = p + 1 - p
            BY <6>1, <6>2, SlashRun
          <6> QED BY <6>3
        <5>3. p + 1 \notin Closing(t, p, c) /\ p \notin Closing(t, p, c)
          BY <2>3, <5>2 DEF Closing
        <5>4. \A i \in p + 2 .. Len(t) : SlashesBefore(t, p, i) % 2 = SlashesBefore(t, p + 2, i) % 2
          <6> TAKE i \in p + 2 .. Len(t)
          <6>1. p \in Nat \ {0} /\ i \in Nat /\ p + 2 =< i
            OBVIOUS
          <6> QED BY <4>1, <6>1, SlashesFromEscaped
        <5>5. \A i : i \in p .. Len(t) <=> i = p \/ i = p + 1 \/ i \in p + 2 .. Len(t)
          BY <1>1, <4>1
        <5> HIDE DEF next
        <5> QED BY <5>1, <5>3, <5>4, <5>5 DEF Closing
      <4>2. CASE ~(t[p] = Backslash /\ p < Len(t))
        <5>1. next = p + 1
          BY <4>2 DEF NextChar
        <5>2. \A i \in p + 1 .. Len(t) : SlashesBefore(t, p, i) = SlashesBefore(t, p + 1, i)
          <6> TAKE i \in p + 1 .. Len(t)
          <6>1. p \in Nat \ {0} /\ i \in Nat /\ p + 1 =< i /\ t[p] # Backslash
            BY <1>1, <3>1, <4>2
          <6> QED BY <6>1, SlashesFromNext
        <5>3. p \notin Closing(t, p, c)
          BY <2>3 DEF Closing
        <5>4. \A i : i \in p .. Len(t) <=> i = p \/ i \in p + 1 .. Len(t)
          BY <1>1, <3>1
        <5> HIDE DEF next
        <5> QED BY <5>1, <5>2, <5>3, <5>4 DEF Closing
      <4> QED BY <4>1, <4>2
    <3>4. find_close(t, p, c) = find_close(t, next, c)
      BY <2>3, FindCloseIs
    <3> HIDE DEF next, First
    <3>5. find_close(t, next, c) = First(next)
      BY <1>2, <3>2
    <3>6. First(p) = First(next)
      BY <3>3 DEF First
    <3> QED BY <3>4, <3>5, <3>6
  <2> QED BY <2>1, <2>2, <2>3
<1>3. Bad = {}
  <2>1. Bad \in SUBSET (1 .. n)
    OBVIOUS
  <2> HIDE DEF Bad, n
  <2> QED BY <1>1, <1>2, <2>1, NoLast
<1> QED BY <1>3

-----------------------------------------------------------------------------
(* A piece of a pattern, as the matcher reads it and as it is meant.          *)

Subjects == Seq(SubjectChars)

LEMMA SubjectIs ==
  ASSUME NEW s \in Subjects
  PROVE  /\ Len(s) \in Nat /\ EndOf(s) \in Nat \ {0} /\ EndOf(s) = Len(s) + 1
         /\ DOMAIN s = 1 .. Len(s) /\ \A i \in 1 .. Len(s) : s[i] \in SubjectChars
BY DEF Subjects, EndOf

LEMMA ClosedFacts ==
  ASSUME NEW t \in Texts0, NEW p \in 1 .. Len(t), NEW c, c = IF t[p] = Bracket THEN Unbracket ELSE Unbrace
  PROVE  LET closing == Closing(t, p + 1, c)
         IN /\ ClosedBy(t, p) = IF closing = {} THEN NoMatch ELSE Min(closing)
            /\ closing # {} => Min(closing) \in p + 1 .. Len(t)
            /\ ClosedBy(t, p) # NoMatch <=> closing # {}
<1> DEFINE closing == Closing(t, p + 1, c)
<1>1. p + 1 \in 1 .. EndOf(t) /\ Len(t) \in Nat
  BY TextIs
<1>2. c # Backslash
  BY DEF Backslash, Unbracket, Unbrace
<1>3. find_close(t, p + 1, c) = IF closing = {} THEN NoMatch ELSE Min(closing)
  BY <1>1, <1>2, ClosingIs
<1>4. closing \in SUBSET Nat /\ closing \in SUBSET (p + 1 .. Len(t))
  BY <1>1 DEF Closing
<1> HIDE DEF closing
<1>5. closing # {} => Min(closing) \in p + 1 .. Len(t)
  <2> SUFFICES ASSUME closing # {} PROVE Min(closing) \in p + 1 .. Len(t)
    OBVIOUS
  <2>1. Min(closing) \in closing
    BY <1>4, MinIsIn
  <2> QED BY <1>4, <2>1
<1>6. ClosedBy(t, p) = find_close(t, p + 1, c)
  BY DEF ClosedBy
<1>7. closing # {} => Min(closing) # NoMatch
  BY <1>1, <1>5 DEF NoMatch
<1> QED BY <1>3, <1>5, <1>6, <1>7 DEF closing

\* What a closed set takes.
LEMMA SetIs ==
  ASSUME NEW t \in Texts0, NEW p \in 1 .. Len(t), NEW c, c = IF t[p] = Bracket THEN Unbracket ELSE Unbrace,
         NEW run \in BOOLEAN, NEW x \in Nat \ {0}
  PROVE  LET piece == SetAt(t, p, c, run)
         IN IF ClosedBy(t, p) = NoMatch
            THEN piece = Piece({t[p]}, FALSE, 1, p + 1)
            ELSE /\ piece.run = run /\ piece.least = 1 /\ piece.next = ClosedBy(t, p) + 1
                 /\ piece.next \in p + 1 .. EndOf(t)
                 /\ InSet(t, p, x) <=> x \in piece.takes
<1> DEFINE closing == Closing(t, p + 1, c)
           end == Min(closing)
<1>1. /\ ClosedBy(t, p) = IF closing = {} THEN NoMatch ELSE end
      /\ closing # {} => end \in p + 1 .. Len(t)
      /\ ClosedBy(t, p) # NoMatch <=> closing # {}
  BY ClosedFacts
<1>2. SetAt(t, p, c, run) = IF closing = {} THEN Piece({t[p]}, FALSE, 1, p + 1)
                            ELSE Piece(Members(t, p + 1, end), run, 1, end + 1)
  BY DEF SetAt
<1> HIDE DEF closing, end
<1>3. CASE closing = {}
  BY <1>1, <1>2, <1>3
<1>4. CASE closing # {}
  <2>1. end \in 1 .. EndOf(t) /\ p + 1 \in 1 .. end /\ end + 1 \in p + 1 .. EndOf(t)
    BY <1>1, <1>4, TextIs
  <2>2. set_match(t, p + 1, end, x) <=> x \in Members(t, p + 1, end)
    BY <2>1, SetsAgree
  <2>3. InSet(t, p, x) <=> x \in Members(t, p + 1, end)
    BY <1>1, <1>4, <2>2 DEF InSet
  <2> QED BY <1>1, <1>2, <1>4, <2>1, <2>3 DEF Piece
<1> QED BY <1>3, <1>4

LEMMA PieceIs ==
  ASSUME NEW t \in Texts0, NEW p \in 1 .. Len(t), NEW x \in Nat \ {0}
  PROVE  LET piece == PieceAt(t, p)
         IN /\ piece.next \in p + 1 .. EndOf(t)
            /\ piece.run <=> Repeats(t, p)
            /\ piece.run \in BOOLEAN
            /\ Repeats(t, p) => AfterRun(t, p) = piece.next
            /\ t[p] = Star => piece.least = 0 /\ piece.takes = AnyChars
            /\ t[p] # Star => piece.least = 1
            /\ Repeats(t, p) /\ t[p] # Star => (InSet(t, p, x) <=> x \in piece.takes)
            /\ ~Repeats(t, p) => /\ One(t, p, 0) = NoMatch
                                 /\ x \in AnyChars => One(t, p, x) = IF x \in piece.takes THEN piece.next ELSE NoMatch
<1> DEFINE piece == PieceAt(t, p)
<1>1. /\ Len(t) \in Nat /\ EndOf(t) = Len(t) + 1 /\ p \in Nat \ {0} /\ x \in Nat \ {0}
      /\ t[p] \in Nat \ {0} /\ (p < Len(t) => t[p + 1] \in Nat \ {0})
  BY TextIs
<1>2. /\ Backslash = 92 /\ Query = 63 /\ Star = 42 /\ Bracket = 91 /\ Brace = 123 /\ NoMatch = 0
  BY DEF Backslash, Query, Star, Bracket, Brace, NoMatch
<1>3. p + 1 \in p + 1 .. EndOf(t) /\ (p < Len(t) => p + 2 \in p + 1 .. EndOf(t))
  BY <1>1
<1>4. CASE t[p] = Backslash
  <2>1. ~Repeats(t, p) /\ t[p] # Star /\ p + 2 # NoMatch
    BY <1>1, <1>2, <1>4 DEF Repeats, IsRun
  <2>2. CASE p < Len(t)
    <3>1. piece = Piece({t[p + 1]}, FALSE, 1, p + 2)
      BY <1>2, <1>4, <2>2 DEF PieceAt
    <3>2. \A c : One(t, p, c) = IF c = t[p + 1] THEN p + 2 ELSE NoMatch
      BY <1>2, <1>4, <2>2 DEF One, IsSet
    <3>3. 0 # t[p + 1]
      BY <1>1, <2>2
    <3> HIDE DEF piece
    <3> QED BY <1>3, <2>1, <2>2, <3>1, <3>2, <3>3 DEF Piece, piece
  <2>3. CASE ~(p < Len(t))
    <3>1. piece = Piece({}, FALSE, 1, p + 1)
      BY <1>2, <1>4, <2>3 DEF PieceAt
    <3>2. \A c : One(t, p, c) = NoMatch
      BY <1>2, <1>4, <2>3 DEF One, IsSet
    <3> HIDE DEF piece
    <3> QED BY <1>3, <2>1, <3>1, <3>2 DEF Piece, piece
  <2> QED BY <2>2, <2>3
<1>5. CASE t[p] = Query
  <2>1. ~Repeats(t, p) /\ t[p] # Star /\ p + 1 # NoMatch
    BY <1>1, <1>2, <1>5 DEF Repeats, IsRun
  <2>2. piece = Piece(AnyChars, FALSE, 1, p + 1)
    BY <1>2, <1>5 DEF PieceAt
  <2>3. \A c : One(t, p, c) = IF c # 0 THEN p + 1 ELSE NoMatch
    BY <1>2, <1>5 DEF One, IsSet
  <2> QED BY <1>1, <2>1, <2>2, <2>3 DEF Piece
<1>6. CASE t[p] = Star
  <2>1. Repeats(t, p) /\ AfterRun(t, p) = p + 1
    BY <1>6 DEF Repeats, AfterRun
  <2>2. piece = Piece(AnyChars, TRUE, 0, p + 1)
    BY <1>2, <1>6 DEF PieceAt
  <2> HIDE DEF piece
  <2> QED BY <1>3, <1>6, <2>1, <2>2 DEF Piece, piece
<1>7. CASE t[p] = Bracket
  <2>1. ~Repeats(t, p) /\ t[p] # Star
    BY <1>2, <1>7 DEF Repeats, IsRun
  <2>2. piece = SetAt(t, p, Unbracket, FALSE)
    BY <1>2, <1>7 DEF PieceAt
  <2>3. IF ClosedBy(t, p) = NoMatch
        THEN piece = Piece({t[p]}, FALSE, 1, p + 1)
        ELSE /\ piece.run = FALSE /\ piece.least = 1 /\ piece.next = ClosedBy(t, p) + 1
             /\ piece.next \in p + 1 .. EndOf(t)
             /\ InSet(t, p, x) <=> x \in piece.takes
    BY <1>1, <1>7, <2>2, SetIs
  <2>4. CASE ClosedBy(t, p) = NoMatch
    <3>1. \A c : One(t, p, c) = IF c = t[p] THEN p + 1 ELSE NoMatch
      BY <1>2, <1>7, <2>4 DEF One, IsSet
    <3>2. 0 # t[p]
      BY <1>1
    <3>3. piece = Piece({t[p]}, FALSE, 1, p + 1) /\ ~Repeats(t, p)
      BY <2>1, <2>3, <2>4
    <3> HIDE DEF piece
    <3>4. piece.takes = {t[p]} /\ piece.run = FALSE /\ piece.least = 1 /\ piece.next = p + 1
      BY <3>3 DEF Piece
    <3> QED BY <1>3, <2>1, <3>1, <3>2, <3>3, <3>4 DEF piece
  <2>5. CASE ClosedBy(t, p) # NoMatch
    <3>1. \A c : One(t, p, c) = IF InSet(t, p, c) THEN ClosedBy(t, p) + 1 ELSE NoMatch
      BY <1>2, <1>7, <2>5 DEF One, IsSet
    <3>2. ~InSet(t, p, 0)
      BY DEF InSet
    <3> HIDE DEF piece
    <3> QED BY <2>1, <2>3, <2>5, <3>1, <3>2 DEF piece
  <2> QED BY <2>4, <2>5
<1>8. CASE t[p] = Brace
  <2>1. t[p] # Star /\ (Repeats(t, p) <=> ClosedBy(t, p) # NoMatch) /\ ~IsSet(t, p)
    BY <1>2, <1>8 DEF Repeats, IsRun, IsSet
  <2>2. piece = SetAt(t, p, Unbrace, TRUE)
    BY <1>2, <1>8 DEF PieceAt
  <2>3. IF ClosedBy(t, p) = NoMatch
        THEN piece = Piece({t[p]}, FALSE, 1, p + 1)
        ELSE /\ piece.run = TRUE /\ piece.least = 1 /\ piece.next = ClosedBy(t, p) + 1
             /\ piece.next \in p + 1 .. EndOf(t)
             /\ InSet(t, p, x) <=> x \in piece.takes
    <3>1. Unbrace = IF t[p] = Bracket THEN Unbracket ELSE Unbrace
      BY <1>2, <1>8
    <3>2. TRUE \in BOOLEAN /\ x \in Nat \ {0}
      BY <1>1
    <3> HIDE DEF piece
    <3> QED BY <2>2, <3>1, <3>2, SetIs
  <2>4. CASE ClosedBy(t, p) = NoMatch
    <3>1. \A c : One(t, p, c) = IF c = t[p] THEN p + 1 ELSE NoMatch
      BY <1>2, <1>8, <2>1 DEF One
    <3>2. 0 # t[p]
      BY <1>1
    <3>3. piece = Piece({t[p]}, FALSE, 1, p + 1) /\ ~Repeats(t, p)
      BY <2>1, <2>3, <2>4
    <3> HIDE DEF piece
    <3>4. piece.takes = {t[p]} /\ piece.run = FALSE /\ piece.least = 1 /\ piece.next = p + 1
      BY <3>3 DEF Piece
    <3> QED BY <1>3, <2>1, <3>1, <3>2, <3>3, <3>4 DEF piece
  <2>5. CASE ClosedBy(t, p) # NoMatch
    <3>1. AfterRun(t, p) = ClosedBy(t, p) + 1
      BY <2>1 DEF AfterRun
    <3> HIDE DEF piece
    <3> QED BY <2>1, <2>3, <2>5, <3>1 DEF piece
  <2> QED BY <2>4, <2>5
<1>9. CASE t[p] \notin {Backslash, Query, Star, Bracket, Brace}
  <2>1. ~Repeats(t, p) /\ t[p] # Star /\ ~IsSet(t, p)
    BY <1>9 DEF Repeats, IsRun, IsSet
  <2>2. piece = Piece({t[p]}, FALSE, 1, p + 1)
    BY <1>9 DEF PieceAt
  <2>3. \A c : One(t, p, c) = IF c = t[p] THEN p + 1 ELSE NoMatch
    BY <1>9, <2>1 DEF One
  <2>4. 0 # t[p]
    BY <1>1
  <2> HIDE DEF piece
  <2> QED BY <1>3, <2>1, <2>2, <2>3, <2>4 DEF Piece, piece
<1> QED BY <1>4, <1>5, <1>6, <1>7, <1>8, <1>9

LEMMA AnyCharsAre ==
  AnyChars \in SUBSET (Nat \ {0}) /\ SubjectChars \in SUBSET (Nat \ {0})
BY WildcardConstants DEF AnyChars

\* How far the characters of a {set} go.
LEMMA RunEndIs ==
  ASSUME NEW t, NEW p, NEW s \in Subjects, NEW q \in 1 .. EndOf(s)
  PROVE  /\ RunEnd(t, p, s, q) \in q .. EndOf(s)
         /\ \A e \in q .. EndOf(s) :
              e =< RunEnd(t, p, s, q) <=> \A i \in q .. e - 1 : InSet(t, p, s[i])
<1> DEFINE In(i) == InSet(t, p, s[i])
           S == {e \in q .. EndOf(s) : \A i \in q .. e - 1 : In(i)}
           m == Max(S)
<1>1. EndOf(s) \in Nat /\ q \in Nat /\ q =< EndOf(s)
  BY SubjectIs
<1>2. RunEnd(t, p, s, q) = m
  BY DEF RunEnd
<1> HIDE DEF In
<1>3. q \in S /\ S \in SUBSET (0 .. EndOf(s))
  BY <1>1
<1>4. m \in S /\ \A e \in S : m >= e
  <2> HIDE DEF S
  <2> QED BY <1>1, <1>3, MaxIsIn
<1> HIDE DEF m
<1>5. \A e \in q .. EndOf(s) : e =< m => \A i \in q .. e - 1 : In(i)
  BY <1>4, <1>1
<1>6. \A e \in q .. EndOf(s) : (\A i \in q .. e - 1 : In(i)) => e =< m
  BY <1>4, <1>1
<1> QED BY <1>2, <1>4, <1>5, <1>6 DEF In

\* A * or a {set} of the matcher stops where its piece may.
LEMMA StopsAre ==
  ASSUME NEW t \in Texts0, NEW p \in 1 .. Len(t), NEW s \in Subjects, NEW q \in 1 .. EndOf(s),
         Repeats(t, p)
  PROVE  /\ RunStops(t, p, s, q) = Takes(PieceAt(t, p), s, q)
         /\ RunStops(t, p, s, q) \in SUBSET (q .. EndOf(s))
<1> DEFINE piece == PieceAt(t, p)
           n == EndOf(s)
<1>1. n \in Nat /\ q \in Nat \ {0} /\ q =< n /\ n = Len(s) + 1
  BY SubjectIs
<1>2. ASSUME NEW i \in 1 .. Len(s) PROVE s[i] \in SubjectChars /\ s[i] \in AnyChars /\ s[i] \in Nat \ {0}
  BY SubjectIs, AnyCharsAre DEF AnyChars
<1>3. /\ piece.run
      /\ t[p] = Star => piece.least = 0 /\ piece.takes = AnyChars
      /\ t[p] # Star => piece.least = 1
  <2>1. 1 \in Nat \ {0}
    OBVIOUS
  <2> QED BY <2>1, PieceIs
<1>4. t[p] # Star => \A i \in 1 .. Len(s) : InSet(t, p, s[i]) <=> s[i] \in piece.takes
  BY <1>2, PieceIs
<1>5. Takes(piece, s, q) = {e \in q .. n : e >= q + piece.least /\ \A i \in q .. e - 1 : s[i] \in piece.takes}
  <2> HIDE DEF piece
  <2> QED BY <1>3 DEF Takes
<1> HIDE DEF piece
<1>6. \A e \in q .. n : \A i \in q .. e - 1 : i \in 1 .. Len(s)
  BY <1>1
<1>7. CASE t[p] = Star
  <2>1. RunStops(t, p, s, q) = q .. n
    BY <1>7 DEF RunStops
  <2>2. \A e \in q .. n : e >= q + piece.least /\ \A i \in q .. e - 1 : s[i] \in piece.takes
    BY <1>1, <1>2, <1>3, <1>6, <1>7
  <2> QED BY <1>5, <2>1, <2>2 DEF piece
<1>8. CASE t[p] # Star
  <2> DEFINE r == RunEnd(t, p, s, q)
  <2>1. r \in q .. n /\ \A e \in q .. n : e =< r <=> \A i \in q .. e - 1 : InSet(t, p, s[i])
    BY RunEndIs
  <2>2. RunStops(t, p, s, q) = q + 1 .. r
    BY <1>8 DEF RunStops
  <2> HIDE DEF r, n
  <2>3. q + 1 .. r = {e \in q .. n : e >= q + 1 /\ e =< r}
    BY <1>1, <2>1
  <2>4. \A e \in q .. n : e =< r <=> \A i \in q .. e - 1 : s[i] \in piece.takes
    BY <1>4, <1>6, <1>8, <2>1
  <2>5. piece.least = 1
    BY <1>3, <1>8
  <2>6. Takes(piece, s, q) = {e \in q .. n : e >= q + 1 /\ e =< r}
    BY <1>5, <2>4, <2>5 DEF n
  <2> QED BY <2>2, <2>3, <2>6 DEF piece, n
<1> QED BY <1>7, <1>8

\* One character is taken as its piece takes it.
LEMMA OneIs ==
  ASSUME NEW t \in Texts0, NEW p \in 1 .. Len(t), NEW s \in Subjects, NEW q \in 1 .. EndOf(s),
         ~Repeats(t, p)
  PROVE  LET r == One(t, p, CharAt(s, q))
         IN /\ r # NoMatch => /\ r = PieceAt(t, p).next /\ q + 1 \in q + 1 .. EndOf(s)
                              /\ Takes(PieceAt(t, p), s, q) = {q + 1}
            /\ r = NoMatch => Takes(PieceAt(t, p), s, q) = {}
<1> DEFINE piece == PieceAt(t, p)
           r == One(t, p, CharAt(s, q))
<1>1. EndOf(s) \in Nat /\ q \in Nat \ {0} /\ q =< EndOf(s) /\ EndOf(s) = Len(s) + 1
  BY SubjectIs
<1>2. piece.run = FALSE /\ piece.next # NoMatch /\ One(t, p, 0) = NoMatch
  <2>1. 1 \in Nat \ {0}
    OBVIOUS
  <2>2. piece.next \in p + 1 .. EndOf(t) /\ piece.run = FALSE /\ One(t, p, 0) = NoMatch
    BY <2>1, PieceIs
  <2> QED BY <2>2, TextIs DEF NoMatch
<1>3. Takes(piece, s, q) = {e \in q .. EndOf(s) : e = q + 1 /\ \A i \in q .. e - 1 : s[i] \in piece.takes}
  <2> HIDE DEF piece
  <2> QED BY <1>2 DEF Takes
<1>4. CASE q = EndOf(s)
  <2>1. CharAt(s, q) = 0
    BY <1>1, <1>4 DEF CharAt
  <2>2. Takes(piece, s, q) = {}
    <3> HIDE DEF piece
    <3> QED BY <1>1, <1>3, <1>4
  <2> QED BY <1>2, <2>1, <2>2
<1>5. CASE q # EndOf(s)
  <2>1. q \in 1 .. Len(s) /\ CharAt(s, q) = s[q] /\ q + 1 \in q + 1 .. EndOf(s)
    BY <1>1, <1>5 DEF CharAt
  <2>2. s[q] \in Nat \ {0} /\ s[q] \in AnyChars
    BY <2>1, SubjectIs, AnyCharsAre DEF AnyChars
  <2>3. r = IF s[q] \in piece.takes THEN piece.next ELSE NoMatch
    BY <2>1, <2>2, PieceIs
  <2>4. Takes(piece, s, q) = IF s[q] \in piece.takes THEN {q + 1} ELSE {}
    <3> HIDE DEF piece
    <3>1. q + 1 \in q .. EndOf(s) /\ \A i \in q .. q + 1 - 1 : i = q
      BY <1>1, <2>1
    <3>2. q \in q .. q + 1 - 1
      BY <1>1
    <3> QED BY <1>3, <3>1, <3>2
  <2> HIDE DEF r, piece
  <2> QED BY <1>2, <2>1, <2>3, <2>4 DEF r, piece
<1> QED BY <1>4, <1>5

-----------------------------------------------------------------------------
(* The functions on positions that the matcher, the searches and their        *)
(* meaning are values of.                                                     *)

IsWords(W, t, s) ==
  /\ W \in [1 .. EndOf(t) -> [1 .. EndOf(s) -> SUBSET (1 .. EndOf(s))]]
  /\ \A p \in 1 .. EndOf(t), q \in 1 .. EndOf(s) :
       W[p][q] = IF p = EndOf(t) THEN {q}
                 ELSE UNION {W[PieceAt(t, p).next][e] : e \in Takes(PieceAt(t, p), s, q)}

LEMMA WordsAre ==
  ASSUME NEW t \in Texts0, NEW s \in Subjects
  PROVE  \E W : IsWords(W, t, s) /\ W[1] = WordEnds(t, s)
<1> DEFINE n == EndOf(t)
           m == EndOf(s)
           Next(p) == PieceAt(t, p).next
           Stops(p, q) == Takes(PieceAt(t, p), s, q)
           At(h, p, q) == IF p = n THEN {q} ELSE UNION {h[Next(p)][e] : e \in Stops(p, q)}
           Body(h, p) == [q \in 1 .. m |-> At(h, p, q)]
           Rec(h) == h = [p \in 1 .. n |-> Body(h, p)]
           V == [1 .. m -> SUBSET (1 .. m)]
           G == [f \in [1 .. n -> V] |-> [p \in 1 .. n |-> Body(f, p)]]
           F == CHOOSE h : Rec(h)
<1>1. n \in Nat \ {0} /\ n = Len(t) + 1 /\ m \in Nat \ {0}
  BY TextIs, SubjectIs
<1>2. \A p \in 1 .. n : p # n => Next(p) \in p + 1 .. n /\ Next(p) \in 1 .. n
  <2> TAKE p \in 1 .. n
  <2>1. p # n => p \in 1 .. Len(t)
    BY <1>1
  <2>2. p # n => Next(p) \in p + 1 .. n
    <3>1. 1 \in Nat \ {0}
      OBVIOUS
    <3> QED BY <2>1, <3>1, PieceIs
  <2> QED BY <1>1, <2>2
<1>3. \A p, q : Stops(p, q) \in SUBSET (q .. m)
  BY DEF Takes
<1>4. WordEnds(t, s) = F[1]
  BY DEF WordEnds
<1> HIDE DEF n, m, Next, Stops
<1>5. \A f \in [1 .. n -> V], p \in 1 .. n : Body(f, p) \in V
  <2> TAKE f \in [1 .. n -> V], p \in 1 .. n
  <2>1. ASSUME NEW q \in 1 .. m, p # n PROVE UNION {f[Next(p)][e] : e \in Stops(p, q)} \in SUBSET (1 .. m)
    <3>1. \A e \in Stops(p, q) : e \in 1 .. m
      BY <1>1, <1>3
    <3>2. f[Next(p)] \in [1 .. m -> SUBSET (1 .. m)]
      BY <1>2, <2>1
    <3> QED BY <3>1, <3>2
  <2>2. \A q \in 1 .. m : At(f, p, q) \in SUBSET (1 .. m)
    BY <2>1
  <2> HIDE DEF At
  <2> QED BY <2>2
<1>6. \A f, g \in [1 .. n -> V], p \in 1 .. n : (\A k \in p + 1 .. n : f[k] = g[k]) => Body(f, p) = Body(g, p)
  <2> TAKE f, g \in [1 .. n -> V], p \in 1 .. n
  <2> HAVE \A k \in p + 1 .. n : f[k] = g[k]
  <2>1. p # n => f[Next(p)] = g[Next(p)]
    BY <1>2
  <2>2. \A q \in 1 .. m : At(f, p, q) = At(g, p, q)
    BY <2>1
  <2> HIDE DEF At
  <2> QED BY <2>2
<1>7. G \in [[1 .. n -> V] -> [1 .. n -> V]]
  <2> HIDE DEF Body, V
  <2> QED BY <1>5
<1>8. FromLater(G, n, V)
  <2> HIDE DEF Body, V
  <2> QED BY <1>6 DEF FromLater
<1>9. PICK f \in [1 .. n -> V] : G[f] = f
  <2> HIDE DEF G
  <2>1. V # {} /\ n \in Nat
    <3>1. [q \in 1 .. m |-> {}] \in V
      OBVIOUS
    <3> QED BY <1>1, <3>1
  <2> HIDE DEF V
  <2>3. Turns(G, n, V)
    BY <1>7, <1>8, <2>1 DEF Turns
  <2> QED BY <2>3, Descends
<1>10. Rec(f)
  <2> HIDE DEF Body, V
  <2> QED BY <1>9
<1>11. Rec(F)
  <2> HIDE DEF Rec
  <2> QED BY <1>10
<1> HIDE DEF F
<1>12. \A p \in 1 .. n : F[p] = Body(F, p)
  <2> HIDE DEF Body
  <2> QED BY <1>11
<1> DEFINE Bad == {p \in 1 .. n : F[p] \notin V}
<1>13. Bad = {}
  <2>1. Bad \in SUBSET (1 .. n)
    OBVIOUS
  <2>2. ASSUME NEW p \in 1 .. n, \A k \in p + 1 .. n : k \notin Bad PROVE p \notin Bad
    <3>1. \A k \in p + 1 .. n : k \in 1 .. n /\ F[k] \in V
      BY <2>2
    <3> DEFINE h == [k \in 1 .. n |-> IF k \in p + 1 .. n THEN F[k] ELSE [q \in 1 .. m |-> {}]]
    <3>2. h \in [1 .. n -> V]
      BY <3>1
    <3>3. Body(h, p) = Body(F, p)
      <4>1. p # n => h[Next(p)] = F[Next(p)]
        BY <1>2
      <4> HIDE DEF h
      <4>2. \A q \in 1 .. m : At(h, p, q) = At(F, p, q)
        BY <4>1
      <4> HIDE DEF At
      <4> QED BY <4>2
    <3> HIDE DEF h, Body, V
    <3>4. Body(h, p) \in V
      BY <1>5, <3>2
    <3> QED BY <1>12, <3>3, <3>4
  <2> HIDE DEF Bad
  <2> QED BY <1>1, <2>1, <2>2, NoLast
<1>14. F \in [1 .. n -> V]
  <2>1. F = [p \in 1 .. n |-> F[p]]
    <3> HIDE DEF Body
    <3> QED BY <1>11
  <2> HIDE DEF V
  <2> QED BY <1>13, <2>1
<1>15. \A p \in 1 .. n, q \in 1 .. m : F[p][q] = At(F, p, q)
  <2> HIDE DEF At
  <2> QED BY <1>12
<1>16. IsWords(F, t, s)
  BY <1>14, <1>15 DEF IsWords, n, m, Next, Stops
<1> QED BY <1>4, <1>16

\* What the matcher does with the piece at p from q on: it goes on behind it where the
\* piece may end.
LEMMA PieceStep ==
  ASSUME NEW t \in Texts0, NEW s \in Subjects, NEW p \in 1 .. Len(t), NEW q \in 1 .. EndOf(s)
  PROVE  /\ PieceAt(t, p).next \in p + 1 .. EndOf(t)
         /\ PieceAt(t, p).next \in 1 .. EndOf(t)
         /\ Takes(PieceAt(t, p), s, q) \in SUBSET (q .. EndOf(s))
         /\ Takes(PieceAt(t, p), s, q) \in SUBSET (1 .. EndOf(s))
         /\ Repeats(t, p) => /\ AfterRun(t, p) = PieceAt(t, p).next
                             /\ RunStops(t, p, s, q) = Takes(PieceAt(t, p), s, q)
<1>1. 1 \in Nat \ {0}
  OBVIOUS
<1>2. /\ PieceAt(t, p).next \in p + 1 .. EndOf(t)
      /\ Repeats(t, p) => AfterRun(t, p) = PieceAt(t, p).next
  BY <1>1, PieceIs
<1>3. Takes(PieceAt(t, p), s, q) \in SUBSET (q .. EndOf(s))
  BY DEF Takes
<1>4. p \in Nat \ {0} /\ q \in Nat \ {0} /\ EndOf(s) \in Nat /\ EndOf(t) \in Nat
  BY TextIs, SubjectIs
<1>5. PieceAt(t, p).next \in 1 .. EndOf(t)
  BY <1>2, <1>4
<1>6. Takes(PieceAt(t, p), s, q) \in SUBSET (1 .. EndOf(s))
  BY <1>3, <1>4
<1> QED BY <1>2, <1>3, <1>5, <1>6, StopsAre

IsMatches(M, t, s) ==
  /\ M \in [1 .. EndOf(t) -> [1 .. EndOf(s) -> BOOLEAN]]
  /\ \A p \in 1 .. EndOf(t), q \in 1 .. EndOf(s) :
       M[p][q] = IF p = EndOf(t) THEN q = EndOf(s)
                 ELSE \E e \in Takes(PieceAt(t, p), s, q) : M[PieceAt(t, p).next][e]

LEMMA MatchesAre ==
  ASSUME NEW t \in Texts0, NEW s \in Subjects
  PROVE  \E M : IsMatches(M, t, s) /\ M[1][1] = do_match(t, s)
<1> DEFINE n == EndOf(t)
           m == EndOf(s)
           Next(p) == PieceAt(t, p).next
           Stops(p, q) == Takes(PieceAt(t, p), s, q)
           At(h, p, q) ==
             IF p = EndOf(t) THEN q = EndOf(s)
             ELSE IF Repeats(t, p) THEN \E e \in RunStops(t, p, s, q) : h[AfterRun(t, p)][e]
             ELSE LET r == One(t, p, CharAt(s, q)) IN r # NoMatch /\ h[r][q + 1]
           Body(h, p) == [q \in 1 .. m |-> At(h, p, q)]
           Rec(h) == h = [p \in 1 .. n |-> Body(h, p)]
           V == [1 .. m -> BOOLEAN]
           G == [f \in [1 .. n -> V] |-> [p \in 1 .. n |-> Body(f, p)]]
           F == CHOOSE h : Rec(h)
<1>1. n \in Nat \ {0} /\ n = Len(t) + 1 /\ m \in Nat \ {0}
  BY TextIs, SubjectIs
<1>2. \A p \in 1 .. n : p # n => p \in 1 .. Len(t) /\ Next(p) \in p + 1 .. n /\ Next(p) \in 1 .. n
  <2> TAKE p \in 1 .. n
  <2>1. p # n => p \in 1 .. Len(t)
    BY <1>1
  <2>2. 1 \in 1 .. m
    BY <1>1
  <2> QED BY <2>1, <2>2, PieceStep
<1>3. \A p \in 1 .. n, q \in 1 .. m : p # n => Stops(p, q) \in SUBSET (1 .. m)
  BY <1>2, PieceStep
<1>4. do_match(t, s) = F[1][1]
  BY DEF do_match
<1>5. ASSUME NEW h, NEW p \in 1 .. n, NEW q \in 1 .. m, h[Next(p)] \in V \/ p = n
      PROVE  At(h, p, q) = IF p = n THEN q = m ELSE \E e \in Stops(p, q) : h[Next(p)][e]
  <2>1. CASE p = n
    BY <2>1
  <2>2. CASE p # n /\ Repeats(t, p)
    <3>1. AfterRun(t, p) = Next(p) /\ RunStops(t, p, s, q) = Stops(p, q)
      BY <1>2, <2>2, PieceStep
    <3> HIDE DEF Next, Stops
    <3> QED BY <2>2, <3>1
  <2>3. CASE p # n /\ ~Repeats(t, p)
    <3> DEFINE r == One(t, p, CharAt(s, q))
    <3>1. /\ r # NoMatch => r = Next(p) /\ q + 1 \in q + 1 .. m /\ Stops(p, q) = {q + 1}
          /\ r = NoMatch => Stops(p, q) = {}
      BY <1>2, <2>3, OneIs
    <3>2. At(h, p, q) = (r # NoMatch /\ h[r][q + 1])
      BY <2>3
    <3>3. r # NoMatch => h[Next(p)][q + 1] \in BOOLEAN
      <4>1. r # NoMatch => q + 1 \in 1 .. m
        <5> HIDE DEF r, Next, Stops
        <5> QED BY <1>1, <3>1
      <4> HIDE DEF r, Next
      <4> QED BY <1>5, <2>3, <4>1
    <3> HIDE DEF Next, Stops, r, At
    <3> QED BY <2>3, <3>1, <3>2, <3>3
  <2> QED BY <2>1, <2>2, <2>3
<1> HIDE DEF n, m, Next, Stops, At
<1>6. \A f \in [1 .. n -> V], p \in 1 .. n : Body(f, p) \in V
  <2> TAKE f \in [1 .. n -> V], p \in 1 .. n
  <2>1. f[Next(p)] \in V \/ p = n
    BY <1>2
  <2>2. \A q \in 1 .. m : At(f, p, q) \in BOOLEAN
    <3> TAKE q \in 1 .. m
    <3>1. (IF p = n THEN q = m ELSE \E e \in Stops(p, q) : f[Next(p)][e]) \in BOOLEAN
      OBVIOUS
    <3> QED BY <1>5, <2>1, <3>1
  <2> QED BY <2>2
<1>7. \A f, g \in [1 .. n -> V], p \in 1 .. n : (\A k \in p + 1 .. n : f[k] = g[k]) => Body(f, p) = Body(g, p)
  <2> TAKE f, g \in [1 .. n -> V], p \in 1 .. n
  <2> HAVE \A k \in p + 1 .. n : f[k] = g[k]
  <2>1. p # n => f[Next(p)] = g[Next(p)] /\ f[Next(p)] \in V /\ g[Next(p)] \in V
    BY <1>2
  <2>2. \A q \in 1 .. m : At(f, p, q) = At(g, p, q)
    <3> TAKE q \in 1 .. m
    <3>1. At(f, p, q) = IF p = n THEN q = m ELSE \E e \in Stops(p, q) : f[Next(p)][e]
      BY <1>5, <2>1
    <3>2. At(g, p, q) = IF p = n THEN q = m ELSE \E e \in Stops(p, q) : g[Next(p)][e]
      BY <1>5, <2>1
    <3>3. CASE p = n
      BY <3>1, <3>2, <3>3
    <3>4. CASE p # n
      <4> DEFINE u == f[Next(p)]
      <4>1. g[Next(p)] = u
        BY <2>1, <3>4
      <4> HIDE DEF u
      <4>2. At(f, p, q) = \E e \in Stops(p, q) : u[e]
        BY <3>1, <3>4 DEF u
      <4>3. At(g, p, q) = \E e \in Stops(p, q) : u[e]
        BY <3>2, <3>4, <4>1
      <4> QED BY <4>2, <4>3
    <3> QED BY <3>3, <3>4
  <2> QED BY <2>2
<1>8. G \in [[1 .. n -> V] -> [1 .. n -> V]]
  <2> HIDE DEF Body, V
  <2> QED BY <1>6
<1>9. FromLater(G, n, V)
  <2> HIDE DEF Body, V
  <2> QED BY <1>7 DEF FromLater
<1>10. PICK f \in [1 .. n -> V] : G[f] = f
  <2> HIDE DEF G
  <2>1. V # {} /\ n \in Nat
    <3>1. [q \in 1 .. m |-> TRUE] \in V
      OBVIOUS
    <3> QED BY <1>1, <3>1
  <2> HIDE DEF V
  <2>3. Turns(G, n, V)
    BY <1>8, <1>9, <2>1 DEF Turns
  <2> QED BY <2>3, Descends
<1>11. Rec(f)
  <2> HIDE DEF Body, V
  <2> QED BY <1>10
<1>12. Rec(F)
  <2> HIDE DEF Rec
  <2> QED BY <1>11
<1> HIDE DEF F
<1>13. F = [p \in 1 .. n |-> Body(F, p)]
  <2> HIDE DEF Body
  <2> QED BY <1>12
<1> DEFINE Bad == {p \in 1 .. n : F[p] \notin V}
<1>14. Bad = {}
  <2>1. Bad \in SUBSET (1 .. n)
    OBVIOUS
  <2>2. ASSUME NEW p \in 1 .. n, \A k \in p + 1 .. n : k \notin Bad PROVE p \notin Bad
    <3>1. \A k \in p + 1 .. n : k \in 1 .. n /\ F[k] \in V
      BY <2>2
    <3>2. F[Next(p)] \in V \/ p = n
      BY <1>2, <3>1
    <3>3. \A q \in 1 .. m : At(F, p, q) \in BOOLEAN
      <4> TAKE q \in 1 .. m
      <4>1. (IF p = n THEN q = m ELSE \E e \in Stops(p, q) : F[Next(p)][e]) \in BOOLEAN
        OBVIOUS
      <4> QED BY <1>5, <3>2, <4>1
    <3>4. Body(F, p) \in V
      BY <3>3
    <3> HIDE DEF Body, V
    <3> QED BY <1>13, <3>4
  <2> HIDE DEF Bad
  <2> QED BY <1>1, <2>1, <2>2, NoLast
<1>15. F \in [1 .. n -> V]
  <2>1. F = [p \in 1 .. n |-> F[p]]
    <3> HIDE DEF Body
    <3> QED BY <1>13
  <2> HIDE DEF V
  <2> QED BY <1>14, <2>1
<1>16. \A p \in 1 .. n, q \in 1 .. m :
         F[p][q] = IF p = n THEN q = m ELSE \E e \in Stops(p, q) : F[Next(p)][e]
  <2> TAKE p \in 1 .. n, q \in 1 .. m
  <2>1. F[p] = Body(F, p)
    <3> HIDE DEF Body
    <3> QED BY <1>13
  <2>2. F[p][q] = At(F, p, q)
    BY <2>1
  <2>3. F[Next(p)] \in V \/ p = n
    BY <1>2, <1>15
  <2> QED BY <1>5, <2>2, <2>3
<1>17. IsMatches(F, t, s)
  BY <1>15, <1>16 DEF IsMatches, n, m, Next, Stops
<1> QED BY <1>4, <1>17

IsEnds(E, t, s, greedy) ==
  /\ E \in [1 .. EndOf(t) -> [1 .. EndOf(s) -> 0 .. EndOf(s)]]
  /\ \A p \in 1 .. EndOf(t), q \in 1 .. EndOf(s) :
       E[p][q] =
         IF p = EndOf(t) THEN q
         ELSE LET good == {e \in Takes(PieceAt(t, p), s, q) : E[PieceAt(t, p).next][e] # NoMatch}
              IN IF good = {} THEN NoMatch ELSE E[PieceAt(t, p).next][Preferred(good, greedy)]

LEMMA PreferredIsIn ==
  ASSUME NEW m \in Nat, NEW good \in SUBSET (1 .. m), good # {}, NEW greedy \in BOOLEAN
  PROVE  Preferred(good, greedy) \in good
<1>1. good \in SUBSET (0 .. m) /\ good \in SUBSET Nat
  OBVIOUS
<1>2. Max(good) \in good /\ Min(good) \in good
  BY <1>1, MaxIsIn, MinIsIn
<1> QED BY <1>2 DEF Preferred

LEMMA EndsAre ==
  ASSUME NEW t \in Texts0, NEW s \in Subjects, NEW greedy \in BOOLEAN
  PROVE  \E E : IsEnds(E, t, s, greedy) /\ E[1] = MatchEnds(t, s, greedy)
<1> DEFINE n == EndOf(t)
           m == EndOf(s)
           Next(p) == PieceAt(t, p).next
           Stops(p, q) == Takes(PieceAt(t, p), s, q)
           Pick(u, S) == LET good == {e \in S : u[e] # NoMatch}
                         IN IF good = {} THEN NoMatch ELSE u[Preferred(good, greedy)]
           At(h, p, q) ==
             IF p = EndOf(t) THEN q
             ELSE IF Repeats(t, p) THEN
               LET good == {e \in RunStops(t, p, s, q) : h[AfterRun(t, p)][e] # NoMatch}
               IN IF good = {} THEN NoMatch ELSE h[AfterRun(t, p)][Preferred(good, greedy)]
             ELSE LET r == One(t, p, CharAt(s, q)) IN IF r = NoMatch THEN NoMatch ELSE h[r][q + 1]
           Body(h, p) == [q \in 1 .. m |-> At(h, p, q)]
           Rec(h) == h = [p \in 1 .. n |-> Body(h, p)]
           V == [1 .. m -> 0 .. m]
           G == [f \in [1 .. n -> V] |-> [p \in 1 .. n |-> Body(f, p)]]
           F == CHOOSE h : Rec(h)
<1>1. n \in Nat \ {0} /\ n = Len(t) + 1 /\ m \in Nat \ {0}
  BY TextIs, SubjectIs
<1>2. \A p \in 1 .. n : p # n => p \in 1 .. Len(t) /\ Next(p) \in p + 1 .. n /\ Next(p) \in 1 .. n
  <2> TAKE p \in 1 .. n
  <2>1. p # n => p \in 1 .. Len(t)
    BY <1>1
  <2>2. 1 \in 1 .. m
    BY <1>1
  <2> QED BY <2>1, <2>2, PieceStep
<1>3. \A p \in 1 .. n, q \in 1 .. m : p # n => Stops(p, q) \in SUBSET (1 .. m)
  BY <1>2, PieceStep
<1>4. MatchEnds(t, s, greedy) = F[1]
  BY DEF MatchEnds
<1>5. ASSUME NEW u, NEW S \in SUBSET (1 .. m), u \in V PROVE Pick(u, S) \in 0 .. m
  <2> DEFINE good == {e \in S : u[e] # NoMatch}
  <2>1. good # {} => Preferred(good, greedy) \in good
    <3>1. good \in SUBSET (1 .. m) /\ m \in Nat
      BY <1>1
    <3> HIDE DEF good
    <3> QED BY <3>1, PreferredIsIn
  <2>2. good # {} => u[Preferred(good, greedy)] \in 0 .. m
    <3> SUFFICES ASSUME good # {} PROVE u[Preferred(good, greedy)] \in 0 .. m
      OBVIOUS
    <3>1. Preferred(good, greedy) \in 1 .. m
      BY <2>1
    <3> HIDE DEF good
    <3> QED BY <1>5, <3>1
  <2>3. Pick(u, S) = IF good = {} THEN NoMatch ELSE u[Preferred(good, greedy)]
    OBVIOUS
  <2> HIDE DEF good, Pick
  <2> QED BY <1>1, <2>2, <2>3 DEF NoMatch
<1>6. ASSUME NEW h, NEW p \in 1 .. n, NEW q \in 1 .. m
      PROVE  At(h, p, q) = IF p = n THEN q ELSE Pick(h[Next(p)], Stops(p, q))
  <2>1. CASE p = n
    BY <2>1
  <2>2. CASE p # n /\ Repeats(t, p)
    <3>1. AfterRun(t, p) = Next(p) /\ RunStops(t, p, s, q) = Stops(p, q)
      BY <1>2, <2>2, PieceStep
    <3> HIDE DEF Next, Stops
    <3> QED BY <2>2, <3>1
  <2>3. CASE p # n /\ ~Repeats(t, p)
    <3> DEFINE r == One(t, p, CharAt(s, q))
    <3>1. /\ r # NoMatch => r = Next(p) /\ q + 1 \in q + 1 .. m /\ Stops(p, q) = {q + 1}
          /\ r = NoMatch => Stops(p, q) = {}
      BY <1>2, <2>3, OneIs
    <3>2. At(h, p, q) = IF r = NoMatch THEN NoMatch ELSE h[r][q + 1]
      BY <2>3
    <3> HIDE DEF Next, Stops, r, At
    <3>3. CASE r = NoMatch
      BY <2>3, <3>1, <3>2, <3>3
    <3>4. CASE r # NoMatch
      <4> DEFINE u == h[Next(p)]
                 good == {e \in Stops(p, q) : u[e] # NoMatch}
      <4>1. At(h, p, q) = u[q + 1]
        BY <3>1, <3>2, <3>4
      <4> HIDE DEF u
      <4>2. good = IF u[q + 1] = NoMatch THEN {} ELSE {q + 1}
        BY <3>1, <3>4
      <4>3. good # {} => Preferred(good, greedy) \in good
        <5>1. good \in SUBSET (1 .. m) /\ m \in Nat
          <6>1. q + 1 \in 1 .. m
            BY <1>1, <3>1, <3>4
          <6> HIDE DEF good
          <6> QED BY <1>1, <4>2, <6>1
        <5> HIDE DEF good
        <5> QED BY <5>1, PreferredIsIn
      <4>4. Pick(u, Stops(p, q)) = IF good = {} THEN NoMatch ELSE u[Preferred(good, greedy)]
        OBVIOUS
      <4> HIDE DEF good, Pick
      <4>5. Pick(u, Stops(p, q)) = u[q + 1]
        BY <4>2, <4>3, <4>4
      <4> QED BY <2>3, <4>1, <4>5 DEF u
    <3> QED BY <3>3, <3>4
  <2> QED BY <2>1, <2>2, <2>3
<1> HIDE DEF n, m, Next, Stops, At, Pick
<1>7. \A f \in [1 .. n -> V], p \in 1 .. n : Body(f, p) \in V
  <2> TAKE f \in [1 .. n -> V], p \in 1 .. n
  <2>1. \A q \in 1 .. m : At(f, p, q) \in 0 .. m
    <3> TAKE q \in 1 .. m
    <3>1. CASE p = n
      BY <1>6, <3>1
    <3>2. CASE p # n
      <4>1. f[Next(p)] \in V /\ Stops(p, q) \in SUBSET (1 .. m)
        BY <1>2, <1>3, <3>2
      <4> HIDE DEF V
      <4>2. Pick(f[Next(p)], Stops(p, q)) \in 0 .. m
        BY <1>5, <4>1
      <4> QED BY <1>6, <3>2, <4>2
    <3> QED BY <3>1, <3>2
  <2> QED BY <2>1
<1>8. \A f, g \in [1 .. n -> V], p \in 1 .. n : (\A k \in p + 1 .. n : f[k] = g[k]) => Body(f, p) = Body(g, p)
  <2> TAKE f, g \in [1 .. n -> V], p \in 1 .. n
  <2> HAVE \A k \in p + 1 .. n : f[k] = g[k]
  <2>1. p # n => f[Next(p)] = g[Next(p)]
    BY <1>2
  <2>2. \A q \in 1 .. m : At(f, p, q) = At(g, p, q)
    <3> TAKE q \in 1 .. m
    <3>1. At(f, p, q) = IF p = n THEN q ELSE Pick(f[Next(p)], Stops(p, q))
      BY <1>6
    <3>2. At(g, p, q) = IF p = n THEN q ELSE Pick(g[Next(p)], Stops(p, q))
      BY <1>6
    <3> QED BY <2>1, <3>1, <3>2
  <2> QED BY <2>2
<1>9. G \in [[1 .. n -> V] -> [1 .. n -> V]]
  <2> HIDE DEF Body, V
  <2> QED BY <1>7
<1>10. FromLater(G, n, V)
  <2> HIDE DEF Body, V
  <2> QED BY <1>8 DEF FromLater
<1>11. PICK f \in [1 .. n -> V] : G[f] = f
  <2> HIDE DEF G
  <2>1. V # {} /\ n \in Nat
    <3>1. [q \in 1 .. m |-> 0] \in V
      BY <1>1
    <3> QED BY <1>1, <3>1
  <2> HIDE DEF V
  <2>3. Turns(G, n, V)
    BY <1>9, <1>10, <2>1 DEF Turns
  <2> QED BY <2>3, Descends
<1>12. Rec(f)
  <2> HIDE DEF Body, V
  <2> QED BY <1>11
<1>13. Rec(F)
  <2> HIDE DEF Rec
  <2> QED BY <1>12
<1> HIDE DEF F
<1>14. F = [p \in 1 .. n |-> Body(F, p)]
  <2> HIDE DEF Body
  <2> QED BY <1>13
<1>15. \A p \in 1 .. n, q \in 1 .. m :
         F[p][q] = IF p = n THEN q ELSE Pick(F[Next(p)], Stops(p, q))
  <2> TAKE p \in 1 .. n, q \in 1 .. m
  <2>1. F[p] = Body(F, p)
    <3> HIDE DEF Body
    <3> QED BY <1>14
  <2>2. F[p][q] = At(F, p, q)
    BY <2>1
  <2> QED BY <1>6, <2>2
<1> DEFINE Bad == {p \in 1 .. n : F[p] \notin V}
<1>16. Bad = {}
  <2>1. Bad \in SUBSET (1 .. n)
    OBVIOUS
  <2>2. ASSUME NEW p \in 1 .. n, \A k \in p + 1 .. n : k \notin Bad PROVE p \notin Bad
    <3>1. \A k \in p + 1 .. n : k \in 1 .. n /\ F[k] \in V
      BY <2>2
    <3>2. \A q \in 1 .. m : At(F, p, q) \in 0 .. m
      <4> TAKE q \in 1 .. m
      <4>1. CASE p = n
        BY <1>6, <4>1
      <4>2. CASE p # n
        <5>1. F[Next(p)] \in V /\ Stops(p, q) \in SUBSET (1 .. m)
          BY <1>2, <1>3, <3>1, <4>2
        <5> HIDE DEF V
        <5>2. Pick(F[Next(p)], Stops(p, q)) \in 0 .. m
          BY <1>5, <5>1
        <5> QED BY <1>6, <4>2, <5>2
      <4> QED BY <4>1, <4>2
    <3>3. Body(F, p) \in V
      BY <3>2
    <3> HIDE DEF Body, V
    <3> QED BY <1>14, <3>3
  <2> HIDE DEF Bad
  <2> QED BY <1>1, <2>1, <2>2, NoLast
<1>17. F \in [1 .. n -> V]
  <2>1. F = [p \in 1 .. n |-> F[p]]
    <3> HIDE DEF Body
    <3> QED BY <1>14
  <2> HIDE DEF V
  <2> QED BY <1>16, <2>1
<1>18. IsEnds(F, t, s, greedy)
  BY <1>15, <1>17 DEF IsEnds, n, m, Next, Stops, Pick
<1> QED BY <1>4, <1>18

-----------------------------------------------------------------------------
(* The matcher and the searches against the meaning of the pattern.           *)

LEMMA MatcherFinds ==
  ASSUME NEW t \in Texts0, NEW s \in Subjects, NEW W, IsWords(W, t, s), NEW M, IsMatches(M, t, s)
  PROVE  \A p \in 1 .. EndOf(t) : \A q \in 1 .. EndOf(s) : M[p][q] <=> EndOf(s) \in W[p][q]
<1> DEFINE n == EndOf(t)
           m == EndOf(s)
           Agree(p) == \A q \in 1 .. m : M[p][q] <=> m \in W[p][q]
           Bad == {p \in 1 .. n : ~Agree(p)}
<1>1. n \in Nat /\ n = Len(t) + 1 /\ m \in Nat
  BY TextIs, SubjectIs
<1>2. ASSUME NEW p \in 1 .. n, \A k \in p + 1 .. n : k \notin Bad PROVE Agree(p)
  <2> TAKE q \in 1 .. m
  <2> DEFINE next == PieceAt(t, p).next
             stops == Takes(PieceAt(t, p), s, q)
  <2>1. M[p][q] = IF p = n THEN q = m ELSE \E e \in stops : M[next][e]
    BY DEF IsMatches
  <2>2. W[p][q] = IF p = n THEN {q} ELSE UNION {W[next][e] : e \in stops}
    BY DEF IsWords
  <2>3. CASE p = n
    BY <2>1, <2>2, <2>3
  <2>4. CASE p # n
    <3>1. p \in 1 .. Len(t)
      BY <1>1, <2>4
    <3>2. next \in p + 1 .. n /\ next \in 1 .. n /\ stops \in SUBSET (1 .. m)
      BY <3>1, PieceStep
    <3>3. Agree(next)
      <4> HIDE DEF Agree, next
      <4> QED BY <1>2, <3>2
    <3> HIDE DEF next, stops, m, n
    <3>4. \A e \in stops : M[next][e] <=> m \in W[next][e]
      BY <3>2, <3>3
    <3> QED BY <2>1, <2>2, <2>4, <3>4
  <2> QED BY <2>3, <2>4
<1>3. Bad = {}
  <2>1. Bad \in SUBSET (1 .. n)
    OBVIOUS
  <2>2. ASSUME NEW p \in 1 .. n, \A k \in p + 1 .. n : k \notin Bad PROVE p \notin Bad
    <3>1. Agree(p)
      BY <1>2, <2>2
    <3> HIDE DEF Agree
    <3> QED BY <3>1
  <2> HIDE DEF Bad
  <2> QED BY <1>1, <2>1, <2>2, NoLast
<1> QED BY <1>3

\* What both searches find is a word of the pattern, and they find one if there is one.
LEMMA EndsAreWords ==
  ASSUME NEW t \in Texts0, NEW s \in Subjects, NEW greedy \in BOOLEAN,
         NEW W, IsWords(W, t, s), NEW E, IsEnds(E, t, s, greedy)
  PROVE  \A p \in 1 .. EndOf(t) : \A q \in 1 .. EndOf(s) :
           /\ E[p][q] = NoMatch <=> W[p][q] = {}
           /\ E[p][q] # NoMatch => E[p][q] \in W[p][q]
<1> DEFINE n == EndOf(t)
           m == EndOf(s)
           Fits(p, q) == (E[p][q] = NoMatch <=> W[p][q] = {}) /\ (E[p][q] # NoMatch => E[p][q] \in W[p][q])
           Bad == {p \in 1 .. n : ~ \A q \in 1 .. m : Fits(p, q)}
<1>1. n \in Nat /\ n = Len(t) + 1 /\ m \in Nat
  BY TextIs, SubjectIs
<1>2. ASSUME NEW p \in 1 .. n, \A k \in p + 1 .. n : k \notin Bad, NEW q \in 1 .. m PROVE Fits(p, q)
  <2> DEFINE next == PieceAt(t, p).next
             stops == Takes(PieceAt(t, p), s, q)
             good == {e \in stops : E[next][e] # NoMatch}
             best == Preferred(good, greedy)
  <2>1. E[p][q] = IF p = n THEN q ELSE IF good = {} THEN NoMatch ELSE E[next][best]
    BY DEF IsEnds
  <2>2. W[p][q] = IF p = n THEN {q} ELSE UNION {W[next][e] : e \in stops}
    BY DEF IsWords
  <2>3. CASE p = n
    <3>1. q # NoMatch
      BY DEF NoMatch
    <3> HIDE DEF next, stops, good, best, n
    <3> QED BY <2>1, <2>2, <2>3, <3>1
  <2>4. CASE p # n
    <3>1. p \in 1 .. Len(t)
      BY <1>1, <2>4
    <3>2. next \in p + 1 .. n /\ next \in 1 .. n /\ stops \in SUBSET (1 .. m)
      BY <3>1, PieceStep
    <3>3. \A e \in 1 .. m : Fits(next, e)
      <4> HIDE DEF Fits, next
      <4> QED BY <1>2, <3>2
    <3>4. good # {} => best \in good
      <4>1. good \in SUBSET (1 .. m)
        BY <3>2
      <4> HIDE DEF good
      <4> QED BY <1>1, <4>1, PreferredIsIn
    <3> HIDE DEF next, stops, m, n, best
    <3>5. CASE good = {}
      <4>1. \A e \in stops : W[next][e] = {}
        BY <3>2, <3>3, <3>5
      <4>2. W[p][q] = {}
        BY <2>2, <2>4, <4>1
      <4>3. E[p][q] = NoMatch
        BY <2>1, <2>4, <3>5
      <4> QED BY <4>2, <4>3
    <3>6. CASE good # {}
      <4>1. best \in stops /\ E[next][best] # NoMatch
        BY <3>4, <3>6
      <4>2. E[next][best] \in W[next][best]
        BY <3>2, <3>3, <4>1
      <4>3. E[next][best] \in W[p][q]
        BY <2>2, <2>4, <4>1, <4>2
      <4>4. E[p][q] = E[next][best]
        BY <2>1, <2>4, <3>6
      <4> HIDE DEF good
      <4> QED BY <4>1, <4>3, <4>4
    <3> QED BY <3>5, <3>6
  <2> QED BY <2>3, <2>4
<1>3. Bad = {}
  <2>1. Bad \in SUBSET (1 .. n)
    OBVIOUS
  <2>2. ASSUME NEW p \in 1 .. n, \A k \in p + 1 .. n : k \notin Bad PROVE p \notin Bad
    <3>1. \A q \in 1 .. m : Fits(p, q)
      BY <1>2, <2>2
    <3> HIDE DEF Fits
    <3> QED BY <3>1
  <2> HIDE DEF Bad
  <2> QED BY <1>1, <2>1, <2>2, NoLast
<1> QED BY <1>3

LEMMA WordsBehind ==
  ASSUME NEW t \in Texts0, NEW s \in Subjects, NEW W, IsWords(W, t, s)
  PROVE  \A p \in 1 .. EndOf(t) : \A q \in 1 .. EndOf(s) : W[p][q] \in SUBSET (q .. EndOf(s))
<1> DEFINE n == EndOf(t)
           m == EndOf(s)
           Behind(p) == \A q \in 1 .. m : W[p][q] \in SUBSET (q .. m)
           Bad == {p \in 1 .. n : ~Behind(p)}
<1>1. n \in Nat /\ n = Len(t) + 1 /\ m \in Nat
  BY TextIs, SubjectIs
<1>2. ASSUME NEW p \in 1 .. n, \A k \in p + 1 .. n : k \notin Bad PROVE Behind(p)
  <2> TAKE q \in 1 .. m
  <2> DEFINE next == PieceAt(t, p).next
             stops == Takes(PieceAt(t, p), s, q)
  <2>1. W[p][q] = IF p = n THEN {q} ELSE UNION {W[next][e] : e \in stops}
    BY DEF IsWords
  <2>2. CASE p = n
    <3> HIDE DEF next, stops, n, m
    <3> QED BY <1>1, <2>1, <2>2
  <2>3. CASE p # n
    <3>1. p \in 1 .. Len(t)
      BY <1>1, <2>3
    <3>2. next \in p + 1 .. n /\ next \in 1 .. n /\ stops \in SUBSET (q .. m)
      BY <3>1, PieceStep
    <3>3. Behind(next)
      <4> HIDE DEF Behind, next
      <4> QED BY <1>2, <3>2
    <3> HIDE DEF next, stops, m, n
    <3>4. ASSUME NEW e \in stops PROVE W[next][e] \in SUBSET (q .. m)
      <4>1. e \in 1 .. m /\ q =< e
        BY <1>1, <3>2
      <4>2. W[next][e] \in SUBSET (e .. m)
        BY <3>3, <4>1
      <4> QED BY <1>1, <4>1, <4>2
    <3> QED BY <2>1, <2>3, <3>4
  <2> QED BY <2>2, <2>3
<1>3. Bad = {}
  <2>1. Bad \in SUBSET (1 .. n)
    OBVIOUS
  <2>2. ASSUME NEW p \in 1 .. n, \A k \in p + 1 .. n : k \notin Bad PROVE p \notin Bad
    <3>1. Behind(p)
      BY <1>2, <2>2
    <3> HIDE DEF Behind
    <3> QED BY <3>1
  <2> HIDE DEF Bad
  <2> QED BY <1>1, <2>1, <2>2, NoLast
<1> QED BY <1>3

\* A piece that begins further on may end where it ended, or ends further on.
LEMMA StopsLater ==
  ASSUME NEW t \in Texts0, NEW s \in Subjects, NEW p \in 1 .. Len(t),
         NEW q1 \in 1 .. EndOf(s), NEW q2 \in 1 .. EndOf(s), q1 < q2,
         NEW b1 \in Takes(PieceAt(t, p), s, q1), NEW b2 \in Takes(PieceAt(t, p), s, q2)
  PROVE  b1 \in Takes(PieceAt(t, p), s, q2) \/ b1 < b2
<1> DEFINE piece == PieceAt(t, p)
           m == EndOf(s)
<1>1. m \in Nat
  BY SubjectIs
<1>2. piece.run \in BOOLEAN /\ (piece.run => piece.least \in {0, 1})
  <2>1. 1 \in Nat \ {0}
    OBVIOUS
  <2>2. /\ piece.run \in BOOLEAN
        /\ t[p] = Star => piece.least = 0
        /\ t[p] # Star => piece.least = 1
    BY <2>1, PieceIs
  <2> HIDE DEF piece
  <2> QED BY <2>2
<1> HIDE DEF piece
<1>3. /\ b1 \in q1 .. m /\ (IF piece.run THEN b1 >= q1 + piece.least ELSE b1 = q1 + 1)
      /\ \A i \in q1 .. b1 - 1 : s[i] \in piece.takes
  BY DEF Takes, piece
<1>4. b2 \in q2 .. m /\ (IF piece.run THEN b2 >= q2 + piece.least ELSE b2 = q2 + 1)
  BY DEF Takes, piece
<1>5. CASE ~piece.run
  BY <1>1, <1>3, <1>4, <1>5
<1>6. CASE piece.run /\ b1 >= q2 + piece.least
  <2>1. b1 \in q2 .. m
    BY <1>1, <1>2, <1>3, <1>6
  <2>2. \A i \in q2 .. b1 - 1 : i \in q1 .. b1 - 1
    BY <1>1, <1>3
  <2>3. b1 \in Takes(piece, s, q2)
    BY <1>3, <1>6, <2>1, <2>2 DEF Takes
  <2> QED BY <2>3 DEF piece
<1>7. CASE piece.run /\ ~(b1 >= q2 + piece.least)
  BY <1>1, <1>2, <1>3, <1>4, <1>7
<1> QED BY <1>5, <1>6, <1>7

\* From further on no word of the pattern ends before the longest one from here: so a run
\* may be taken as long as possible and the rest still gets as far as it can.
LEMMA LongerLater ==
  ASSUME NEW t \in Texts0, NEW s \in Subjects, NEW W, IsWords(W, t, s)
  PROVE  \A p \in 1 .. EndOf(t) : \A q1, q2 \in 1 .. EndOf(s) :
           q1 < q2 /\ W[p][q2] # {} => \A x \in W[p][q1] : \E y \in W[p][q2] : x =< y
<1> DEFINE n == EndOf(t)
           m == EndOf(s)
           Grows(p) == \A q1, q2 \in 1 .. m :
                         q1 < q2 /\ W[p][q2] # {} => \A x \in W[p][q1] : \E y \in W[p][q2] : x =< y
           Bad == {p \in 1 .. n : ~Grows(p)}
<1>1. n \in Nat /\ n = Len(t) + 1 /\ m \in Nat
  BY TextIs, SubjectIs
<1>2. ASSUME NEW p \in 1 .. n, \A k \in p + 1 .. n : k \notin Bad,
             NEW q1 \in 1 .. m, NEW q2 \in 1 .. m, q1 < q2, W[p][q2] # {}, NEW x \in W[p][q1]
      PROVE  \E y \in W[p][q2] : x =< y
  <2> DEFINE next == PieceAt(t, p).next
             Stops(q) == Takes(PieceAt(t, p), s, q)
  <2>1. \A q \in 1 .. m : W[p][q] = IF p = n THEN {q} ELSE UNION {W[next][e] : e \in Stops(q)}
    BY DEF IsWords
  <2>2. CASE p = n
    <3>1. x = q1 /\ q2 \in W[p][q2]
      BY <2>1, <2>2
    <3> QED BY <1>2, <3>1
  <2>3. CASE p # n
    <3>1. p \in 1 .. Len(t)
      BY <1>1, <2>3
    <3>2. next \in p + 1 .. n /\ next \in 1 .. n /\ \A q \in 1 .. m : Stops(q) \in SUBSET (1 .. m)
      BY <1>2, <3>1, PieceStep
    <3>3. Grows(next)
      <4> HIDE DEF Grows, next
      <4> QED BY <1>2, <3>2
    <3> HIDE DEF next, m, n
    <3>4. PICK b1 \in Stops(q1) : x \in W[next][b1]
      <4> HIDE DEF Stops
      <4> QED BY <2>1, <2>3
    <3>5. PICK b2 \in Stops(q2) : W[next][b2] # {}
      <4> HIDE DEF Stops
      <4> QED BY <1>2, <2>1, <2>3
    <3>6. b1 \in Stops(q2) \/ b1 < b2
      BY <1>2, <3>1, StopsLater DEF m
    <3>7. \E b \in Stops(q2) : \E y \in W[next][b] : x =< y
      <4> HIDE DEF Stops
      <4>1. b1 \in 1 .. m /\ b2 \in 1 .. m
        BY <3>2
      <4>2. CASE b1 < b2
        <5>1. \E y \in W[next][b2] : x =< y
          BY <3>3, <3>4, <3>5, <4>1, <4>2
        <5> QED BY <5>1
      <4>3. CASE b1 \in Stops(q2)
        <5>1. x =< x
          <6>1. x \in Nat
            <7>1. W[next][b1] \in SUBSET (b1 .. m)
              BY <3>2, <4>1, WordsBehind DEF n, m
            <7> QED BY <3>4, <4>1, <7>1
          <6> QED BY <6>1
        <5> QED BY <3>4, <4>3, <5>1
      <4> QED BY <3>6, <4>2, <4>3
    <3> HIDE DEF Stops
    <3> QED BY <2>1, <2>3, <3>7
  <2> QED BY <2>2, <2>3
<1>3. Bad = {}
  <2>1. Bad \in SUBSET (1 .. n)
    OBVIOUS
  <2>2. ASSUME NEW p \in 1 .. n, \A k \in p + 1 .. n : k \notin Bad PROVE p \notin Bad
    <3>1. Grows(p)
      BY <1>2, <2>2
    <3> HIDE DEF Grows
    <3> QED BY <3>1
  <2> HIDE DEF Bad
  <2> QED BY <1>1, <2>1, <2>2, NoLast
<1> QED BY <1>3

\* The greedy search does not miss a longer word.
LEMMA GreedyIsLongest ==
  ASSUME NEW t \in Texts0, NEW s \in Subjects, NEW W, IsWords(W, t, s), NEW E, IsEnds(E, t, s, TRUE)
  PROVE  \A p \in 1 .. EndOf(t) : \A q \in 1 .. EndOf(s) : \A x \in W[p][q] : x =< E[p][q]
<1> DEFINE n == EndOf(t)
           m == EndOf(s)
           Longest(p) == \A q \in 1 .. m : \A x \in W[p][q] : x =< E[p][q]
           Bad == {p \in 1 .. n : ~Longest(p)}
<1>1. n \in Nat /\ n = Len(t) + 1 /\ m \in Nat
  BY TextIs, SubjectIs
<1>2. \A p \in 1 .. n : \A q \in 1 .. m : /\ E[p][q] = NoMatch <=> W[p][q] = {}
                                          /\ E[p][q] # NoMatch => E[p][q] \in W[p][q]
  <2>1. PICK greedy \in BOOLEAN : greedy
    OBVIOUS
  <2>2. IsEnds(E, t, s, greedy)
    BY <2>1
  <2> QED BY <2>2, EndsAreWords
<1>3. \A p \in 1 .. n : \A q \in 1 .. m : W[p][q] \in SUBSET (1 .. m) /\ E[p][q] \in Nat
  BY <1>1 DEF IsWords, IsEnds
<1>4. ASSUME NEW p \in 1 .. n, \A k \in p + 1 .. n : k \notin Bad, NEW q \in 1 .. m, NEW x \in W[p][q]
      PROVE  x =< E[p][q]
  <2> DEFINE next == PieceAt(t, p).next
             stops == Takes(PieceAt(t, p), s, q)
             good == {e \in stops : E[next][e] # NoMatch}
             best == Preferred(good, TRUE)
  <2>1. E[p][q] = IF p = n THEN q ELSE IF good = {} THEN NoMatch ELSE E[next][best]
    BY DEF IsEnds
  <2>2. W[p][q] = IF p = n THEN {q} ELSE UNION {W[next][e] : e \in stops}
    BY DEF IsWords
  <2>3. CASE p = n
    <3>1. x = q /\ E[p][q] = q
      <4> HIDE DEF next, stops, good, best, n
      <4> QED BY <1>4, <2>1, <2>2, <2>3
    <3> QED BY <3>1
  <2>4. CASE p # n
    <3>1. p \in 1 .. Len(t)
      BY <1>1, <2>4
    <3>2. next \in p + 1 .. n /\ next \in 1 .. n /\ stops \in SUBSET (1 .. m)
      BY <3>1, PieceStep
    <3>3. Longest(next)
      <4> HIDE DEF Longest, next
      <4> QED BY <1>4, <3>2
    <3>4. good # {} => best \in good /\ \A e \in good : best >= e
      <4>1. good \in SUBSET (0 .. m)
        BY <3>2
      <4>2. best = Max(good)
        BY DEF Preferred
      <4> HIDE DEF good
      <4> QED BY <1>1, <4>1, <4>2, MaxIsIn
    <3> HIDE DEF next, stops, m, n, best
    <3>5. PICK b \in stops : x \in W[next][b]
      BY <1>4, <2>2, <2>4
    <3>6. b \in 1 .. m /\ x \in Nat /\ b \in good
      BY <1>2, <1>3, <3>2, <3>5
    <3>7. best \in stops /\ best \in 1 .. m /\ E[next][best] # NoMatch /\ best >= b
      BY <3>2, <3>4, <3>6
    <3>8. E[p][q] = E[next][best] /\ E[next][best] \in Nat
      BY <1>3, <2>1, <2>4, <3>2, <3>6, <3>7
    <3> HIDE DEF good
    <3>9. \E y \in W[next][best] : x =< y /\ y \in Nat
      <4>1. CASE b = best
        BY <3>5, <3>6, <4>1
      <4>2. CASE b # best
        <5>1. b < best
          BY <3>6, <3>7, <4>2
        <5>2. W[next][best] # {}
          BY <1>2, <3>2, <3>7
        <5>3. \E y \in W[next][best] : x =< y
          BY <3>2, <3>5, <3>6, <3>7, <5>1, <5>2, LongerLater DEF n, m
        <5> QED BY <1>3, <3>2, <3>7, <5>3
      <4> QED BY <4>1, <4>2
    <3>10. PICK y \in W[next][best] : x =< y /\ y \in Nat
      BY <3>9
    <3>11. y =< E[next][best]
      BY <3>3, <3>7, <3>10
    <3> QED BY <3>6, <3>8, <3>10, <3>11
  <2> QED BY <2>3, <2>4
<1>5. Bad = {}
  <2>1. Bad \in SUBSET (1 .. n)
    OBVIOUS
  <2>2. ASSUME NEW p \in 1 .. n, \A k \in p + 1 .. n : k \notin Bad PROVE p \notin Bad
    <3>1. Longest(p)
      BY <1>4, <2>2
    <3> HIDE DEF Longest
    <3> QED BY <3>1
  <2> HIDE DEF Bad
  <2> QED BY <1>1, <2>1, <2>2, NoLast
<1> QED BY <1>5

\* Where the ends of a search lie, and which of them are none.
LEMMA SearchEnds ==
  ASSUME NEW t \in Texts0, NEW s \in Subjects, NEW greedy \in BOOLEAN, NEW ends, ends = MatchEnds(t, s, greedy)
  PROVE  /\ ends \in [1 .. EndOf(s) -> 0 .. EndOf(s)]
         /\ \A b \in 1 .. EndOf(s) :
              /\ ends[b] = NoMatch <=> WordEnds(t, s)[b] = {}
              /\ ends[b] # NoMatch => /\ ends[b] \in WordEnds(t, s)[b]
                                      /\ ends[b] \in b .. EndOf(s)
              /\ WordEnds(t, s)[b] \in SUBSET (b .. EndOf(s))
              /\ greedy => \A x \in WordEnds(t, s)[b] : x =< ends[b]
<1>1. PICK W : IsWords(W, t, s) /\ W[1] = WordEnds(t, s)
  BY WordsAre
<1>2. PICK E : IsEnds(E, t, s, greedy) /\ E[1] = MatchEnds(t, s, greedy)
  BY EndsAre
<1>3. 1 \in 1 .. EndOf(t)
  BY TextIs
<1>4. E[1] \in [1 .. EndOf(s) -> 0 .. EndOf(s)]
  BY <1>2, <1>3 DEF IsEnds
<1>5. \A b \in 1 .. EndOf(s) :
        /\ E[1][b] = NoMatch <=> W[1][b] = {}
        /\ E[1][b] # NoMatch => E[1][b] \in W[1][b]
  BY <1>1, <1>2, <1>3, EndsAreWords
<1>6. \A b \in 1 .. EndOf(s) : W[1][b] \in SUBSET (b .. EndOf(s))
  BY <1>1, <1>3, WordsBehind
<1>7. greedy => \A b \in 1 .. EndOf(s) : \A x \in W[1][b] : x =< E[1][b]
  <2> SUFFICES ASSUME greedy PROVE \A b \in 1 .. EndOf(s) : \A x \in W[1][b] : x =< E[1][b]
    OBVIOUS
  <2>1. IsEnds(E, t, s, TRUE)
    BY <1>2
  <2> QED BY <1>1, <1>3, <2>1, GreedyIsLongest
<1> QED BY <1>1, <1>2, <1>4, <1>5, <1>6, <1>7

\* The leftmost match is where the first word begins.
LEMMA LeftmostIs ==
  ASSUME NEW s \in Subjects, NEW ends \in [1 .. EndOf(s) -> 0 .. EndOf(s)], NEW q \in 1 .. EndOf(s)
  PROVE  LET m == Leftmost(ends, s, q)
             starts == {b \in q .. EndOf(s) : ends[b] # NoMatch}
         IN IF starts = {} THEN m = [start |-> NoMatch, end |-> NoMatch]
            ELSE /\ m.start = Min(starts) /\ m.end = ends[m.start]
                 /\ m.start \in q .. EndOf(s) /\ m.start # NoMatch /\ ends[m.start] # NoMatch
<1> DEFINE starts == {b \in q .. EndOf(s) : ends[b] # NoMatch}
           first == Min(starts)
<1>1. starts \in SUBSET Nat
  BY SubjectIs
<1>2. Leftmost(ends, s, q) = IF starts = {} THEN [start |-> NoMatch, end |-> NoMatch]
                             ELSE [start |-> first, end |-> ends[first]]
  BY DEF Leftmost
<1>3. starts # {} => first \in starts
  <2> HIDE DEF starts
  <2> QED BY <1>1, MinIsIn
<1>4. \A b \in starts : b \in q .. EndOf(s) /\ b # NoMatch /\ ends[b] # NoMatch
  BY SubjectIs DEF NoMatch
<1> HIDE DEF starts, first
<1>5. starts # {} => first \in q .. EndOf(s) /\ first # NoMatch /\ ends[first] # NoMatch
  BY <1>3, <1>4
<1> QED BY <1>2, <1>5 DEF starts, first

LEMMA LongestIs ==
  ASSUME NEW t \in Texts0, NEW s \in Subjects
  PROVE  LET fits == WordEnds(t, s)
             starts == {b \in 1 .. EndOf(s) : fits[b] # {}}
             first == IF starts = {} THEN NoMatch ELSE Min(starts)
             lazy == find_match(t, s)
             greedy == find_match_greedy(t, s)
         IN /\ lazy.start = first /\ greedy.start = first
            /\ first # NoMatch => lazy.end \in fits[first] /\ greedy.end = Max(fits[first])
<1> DEFINE fits == WordEnds(t, s)
           starts == {b \in 1 .. EndOf(s) : fits[b] # {}}
           first == IF starts = {} THEN NoMatch ELSE Min(starts)
           lazy == find_match(t, s)
           greedy == find_match_greedy(t, s)
           n == EndOf(s)
<1>1. n \in Nat /\ 1 \in 1 .. n
  BY SubjectIs
<1> DEFINE u == MatchEnds(t, s, FALSE)
           v == MatchEnds(t, s, TRUE)
<1>2. /\ u \in [1 .. n -> 0 .. n]
      /\ \A b \in 1 .. n : (u[b] = NoMatch <=> fits[b] = {}) /\ (u[b] # NoMatch => u[b] \in fits[b])
  <2>1. PICK any \in BOOLEAN : any = FALSE
    OBVIOUS
  <2>2. u = MatchEnds(t, s, any)
    BY <2>1
  <2> HIDE DEF u
  <2> QED BY <2>2, SearchEnds
<1>3. /\ v \in [1 .. n -> 0 .. n]
      /\ \A b \in 1 .. n : /\ v[b] = NoMatch <=> fits[b] = {}
                           /\ v[b] # NoMatch => v[b] \in fits[b]
                           /\ fits[b] \in SUBSET (b .. n)
                           /\ \A x \in fits[b] : x =< v[b]
  <2>1. PICK any \in BOOLEAN : any = TRUE
    OBVIOUS
  <2>2. v = MatchEnds(t, s, any)
    BY <2>1
  <2> HIDE DEF v
  <2>3. /\ v \in [1 .. n -> 0 .. n]
        /\ \A b \in 1 .. n : /\ v[b] = NoMatch <=> fits[b] = {}
                             /\ v[b] # NoMatch => v[b] \in fits[b]
                             /\ fits[b] \in SUBSET (b .. n)
                             /\ any => \A x \in fits[b] : x =< v[b]
    BY <2>2, SearchEnds
  <2> QED BY <2>1, <2>3
<1>4. lazy = Leftmost(u, s, 1) /\ greedy = Leftmost(v, s, 1)
  BY DEF find_match, find_match_greedy, match_end, greedy_match_end
<1> HIDE DEF u, v, fits
<1>5. {b \in 1 .. n : u[b] # NoMatch} = starts /\ {b \in 1 .. n : v[b] # NoMatch} = starts
  BY <1>2, <1>3
<1>6. IF starts = {} THEN lazy = [start |-> NoMatch, end |-> NoMatch]
      ELSE /\ lazy.start = Min(starts) /\ lazy.end = u[lazy.start]
           /\ lazy.start \in 1 .. n /\ lazy.start # NoMatch /\ u[lazy.start] # NoMatch
  <2> DEFINE some == {b \in 1 .. n : u[b] # NoMatch}
  <2>1. LET m == Leftmost(u, s, 1)
        IN IF some = {} THEN m = [start |-> NoMatch, end |-> NoMatch]
           ELSE /\ m.start = Min(some) /\ m.end = u[m.start]
                /\ m.start \in 1 .. n /\ m.start # NoMatch /\ u[m.start] # NoMatch
    <3>1. u \in [1 .. EndOf(s) -> 0 .. EndOf(s)] /\ 1 \in 1 .. EndOf(s)
      BY <1>1, <1>2
    <3> QED BY <3>1, LeftmostIs
  <2>2. some = starts
    BY <1>5
  <2> HIDE DEF some, starts, lazy
  <2> QED BY <1>4, <2>1, <2>2
<1>7. IF starts = {} THEN greedy = [start |-> NoMatch, end |-> NoMatch]
      ELSE /\ greedy.start = Min(starts) /\ greedy.end = v[greedy.start]
           /\ greedy.start \in 1 .. n /\ greedy.start # NoMatch /\ v[greedy.start] # NoMatch
  <2> DEFINE some == {b \in 1 .. n : v[b] # NoMatch}
  <2>1. LET m == Leftmost(v, s, 1)
        IN IF some = {} THEN m = [start |-> NoMatch, end |-> NoMatch]
           ELSE /\ m.start = Min(some) /\ m.end = v[m.start]
                /\ m.start \in 1 .. n /\ m.start # NoMatch /\ v[m.start] # NoMatch
    <3>1. v \in [1 .. EndOf(s) -> 0 .. EndOf(s)] /\ 1 \in 1 .. EndOf(s)
      BY <1>1, <1>3
    <3> QED BY <3>1, LeftmostIs
  <2>2. some = starts
    BY <1>5
  <2> HIDE DEF some, starts, greedy
  <2> QED BY <1>4, <2>1, <2>2
<1> HIDE DEF starts, lazy, greedy
<1>8. CASE starts = {}
  <2>1. first = NoMatch
    BY <1>8
  <2> HIDE DEF first
  <2> QED BY <1>6, <1>7, <1>8, <2>1 DEF fits, starts, first, lazy, greedy
<1>9. CASE starts # {}
  <2>1. first = Min(starts) /\ lazy.start = first /\ greedy.start = first
    BY <1>6, <1>7, <1>9
  <2> HIDE DEF first
  <2>2. lazy.end = u[first] /\ u[first] # NoMatch /\ greedy.end = v[first] /\ v[first] # NoMatch /\ first \in 1 .. n
    BY <1>6, <1>7, <1>9, <2>1
  <2>3. lazy.end \in fits[first]
    BY <1>2, <2>2
  <2>4. greedy.end = Max(fits[first])
    <3> DEFINE S == fits[first]
               top == v[first]
    <3>1. top \in S /\ S \in SUBSET (first .. n) /\ \A x \in S : x =< top
      BY <1>3, <2>2
    <3>2. S \in SUBSET (0 .. n)
      BY <1>1, <2>2, <3>1
    <3> HIDE DEF S, top
    <3>3. Max(S) \in S /\ \A x \in S : Max(S) >= x
      BY <1>1, <3>1, <3>2, MaxIsIn
    <3>4. top =< Max(S) /\ Max(S) =< top /\ top \in Nat /\ Max(S) \in Nat
      <4>1. \A x \in S : x \in Nat
        BY <3>2
      <4>2. top \in Nat /\ Max(S) \in Nat
        BY <3>1, <3>3, <4>1
      <4>3. top =< Max(S) /\ Max(S) >= top
        BY <3>1, <3>3, <4>2
      <4> QED BY <3>1, <3>3, <4>2
    <3>5. top = Max(S)
      BY <3>4
    <3> QED BY <2>2, <3>5 DEF S, top
  <2> QED BY <2>1, <2>3, <2>4 DEF fits, starts, first, lazy, greedy
<1> QED BY <1>8, <1>9

-----------------------------------------------------------------------------
(* Replacing.                                                                 *)

LEMMA DollarIsFound == ASSUME NEW found PROVE replace_dollar(found, <<Dollar>>) = found
<1> DEFINE rep == <<Dollar>>
<1>1. Len(rep) = 1 /\ rep[1] = Dollar
  OBVIOUS
<1> HIDE DEF rep
<1>2. SlashesBefore(rep, 1, 1) = 0
  <2>1. StartsSlashes(rep, 1, 1, 1)
    BY DEF StartsSlashes, AllSlashes
  <2>2. 1 \in Nat \ {0} /\ 1 \in Nat /\ 1 =< 1 /\ 1 \in 1 .. 1 /\ 1 - 1 = 0
    OBVIOUS
  <2> QED BY <2>1, <2>2, SlashRun
<1> DEFINE seqs == [i \in 1 .. Len(rep) |->
                     IF rep[i] = Dollar /\ SlashesBefore(rep, 1, i) % 2 = 0 THEN found ELSE <<rep[i]>>]
<1>3. seqs = <<found>>
  <2>1. \A i \in 1 .. 1 : i = 1
    OBVIOUS
  <2>2. 0 % 2 = 0
    OBVIOUS
  <2>3. seqs = [i \in 1 .. 1 |-> found]
    BY <1>1, <1>2, <2>1, <2>2
  <2> QED BY <2>3
<1>4. replace_dollar(found, rep) = FlattenSeq(seqs)
  BY DEF replace_dollar
<1> HIDE DEF seqs
<1> QED BY <1>3, <1>4, FlattenOne DEF rep

\* One turn that replaces a match by itself copies what is before the cursor.
LEMMA TurnKeeps ==
  ASSUME NEW s \in Subjects, NEW q \in 1 .. EndOf(s), NEW m,
         m.start \in q .. EndOf(s), m.end \in m.start .. EndOf(s)
  PROVE  /\ Replaced(s, <<Dollar>>, TRUE, m, q) = SubSeq(s, q, Cursor(s, m) - 1)
         /\ Cursor(s, m) \in q .. EndOf(s)
         /\ Cursor(s, m) # EndOf(s) => Cursor(s, m) \in q + 1 .. EndOf(s)
<1> DEFINE a == m.start
           b == m.end
           c == Cursor(s, m)
<1>1. /\ s \in Seq(SubjectChars) /\ Len(s) \in Nat /\ EndOf(s) = Len(s) + 1
      /\ q \in Nat \ {0} /\ a \in q .. Len(s) + 1 /\ b \in a .. Len(s) + 1
  BY SubjectIs DEF Subjects
<1>2. c = IF b = a /\ b <= Len(s) THEN b + 1 ELSE b
  BY DEF Cursor
<1>3. CopiedChar(s, m) = IF b = a /\ b <= Len(s) THEN <<s[b]>> ELSE <<>>
  BY DEF CopiedChar
<1>4. Replaced(s, <<Dollar>>, TRUE, m, q) = SubSeq(s, q, a - 1) \o SubSeq(s, a, b - 1) \o CopiedChar(s, m)
  BY DollarIsFound DEF Replaced
<1> HIDE DEF a, b, c
<1>5. SubSeq(s, q, a - 1) \o SubSeq(s, a, b - 1) = SubSeq(s, q, b - 1)
  <2>1. q \in 1 .. Len(s) + 1 /\ a - 1 \in q - 1 .. Len(s) /\ b - 1 \in a - 1 .. Len(s) /\ a - 1 + 1 = a
    BY <1>1
  <2>2. SubSeq(s, q, a - 1) \o SubSeq(s, a - 1 + 1, b - 1) = SubSeq(s, q, b - 1)
    BY <1>1, <2>1, PartsJoin
  <2> QED BY <2>1, <2>2
<1>6. SubSeq(s, q, b - 1) \o CopiedChar(s, m) = SubSeq(s, q, c - 1)
  <2>1. q \in 1 .. Len(s) + 1 /\ b - 1 \in q - 1 .. Len(s) /\ b - 1 + 1 = b
    BY <1>1
  <2>2. CASE b = a /\ b <= Len(s)
    <3>1. b \in b - 1 .. Len(s) /\ b \in 1 .. Len(s) + 1 /\ b \in Int /\ c - 1 = b
      BY <1>1, <1>2, <2>2
    <3>2. SubSeq(s, b, b) = <<s[b]>>
      <4>1. b - b + 1 = 1 /\ b + 1 - 1 = b
        BY <3>1
      <4>2. /\ SubSeq(s, b, b) \in Seq(SubjectChars)
            /\ Len(SubSeq(s, b, b)) = b - b + 1
            /\ \A i \in 1 .. b - b + 1 : SubSeq(s, b, b)[i] = s[b + i - 1]
        BY <1>1, <3>1, PartIs
      <4> DEFINE u == SubSeq(s, b, b)
      <4> HIDE DEF u
      <4>3. u \in Seq(SubjectChars) /\ Len(u) = 1 /\ u[1] = s[b]
        BY <4>1, <4>2 DEF u
      <4>4. u = <<s[b]>>
        BY <4>3
      <4> QED BY <4>4 DEF u
    <3>3. SubSeq(s, q, b - 1) \o SubSeq(s, b - 1 + 1, b) = SubSeq(s, q, b)
      BY <1>1, <2>1, <3>1, PartsJoin
    <3> QED BY <1>3, <2>1, <2>2, <3>1, <3>2, <3>3
  <2>3. CASE ~(b = a /\ b <= Len(s))
    <3>1. SubSeq(s, q, b - 1) \in Seq(SubjectChars)
      BY <1>1, <2>1, PartIs
    <3>2. CopiedChar(s, m) = <<>> /\ c = b
      BY <1>2, <1>3, <2>3
    <3>3. SubSeq(s, q, b - 1) \o <<>> = SubSeq(s, q, b - 1)
      BY <3>1, ConcatEmptySeq
    <3> QED BY <3>2, <3>3
  <2> QED BY <2>2, <2>3
<1>7. Replaced(s, <<Dollar>>, TRUE, m, q) = SubSeq(s, q, c - 1)
  BY <1>4, <1>5, <1>6
<1>8. c \in q .. EndOf(s) /\ (c # EndOf(s) => c \in q + 1 .. EndOf(s))
  BY <1>1, <1>2
<1> QED BY <1>7, <1>8 DEF c

\* Replacing matches by themselves, however many, changes nothing.
LEMMA ReplacingKeeps ==
  ASSUME NEW t \in Texts0, NEW s \in Subjects, NEW count \in Int
  PROVE  replace_match(t, s, <<Dollar>>, count) = s
<1> DEFINE n == EndOf(s)
           ends == greedy_match_end(t, s)
           M(q) == Leftmost(ends, s, q)
           Turn(q) == Replaced(s, <<Dollar>>, TRUE, M(q), q)
           At(h, q, left) ==
             IF left = 0 \/ left < -1 \/ M(q).start = NoMatch THEN SubSeq(s, q, Len(s))
             ELSE IF Cursor(s, M(q)) = n THEN Turn(q)
             ELSE Turn(q) \o h[Cursor(s, M(q))][IF left = -1 THEN -1 ELSE left - 1]
           Rec(h) == h = [q \in 1 .. n |-> [left \in Int |-> At(h, q, left)]]
           F == CHOOSE h : Rec(h)
           Rest(q) == SubSeq(s, q, Len(s))
           f == [q \in 1 .. n |-> [left \in Int |-> Rest(q)]]
<1>1. n \in Nat \ {0} /\ n = Len(s) + 1 /\ Len(s) \in Nat /\ s \in Seq(SubjectChars)
  BY SubjectIs DEF Subjects
<1>2. replace_match(t, s, <<Dollar>>, count) = F[1][count]
  BY DEF replace_match, Replace
<1>3. /\ ends \in [1 .. n -> 0 .. n]
      /\ \A b \in 1 .. n : ends[b] # NoMatch => ends[b] \in b .. n
  <2>1. PICK any \in BOOLEAN : any = TRUE
    OBVIOUS
  <2>2. ends = MatchEnds(t, s, any)
    BY <2>1 DEF greedy_match_end
  <2> HIDE DEF ends
  <2> QED BY <2>2, SearchEnds
<1> HIDE DEF ends
<1>4. ASSUME NEW q \in 1 .. n, M(q).start # NoMatch
      PROVE  /\ Turn(q) = SubSeq(s, q, Cursor(s, M(q)) - 1)
             /\ Cursor(s, M(q)) \in q .. n
             /\ Cursor(s, M(q)) # n => Cursor(s, M(q)) \in q + 1 .. n
  <2> DEFINE m == M(q)
             starts == {b \in q .. n : ends[b] # NoMatch}
  <2>1. IF starts = {} THEN m = [start |-> NoMatch, end |-> NoMatch]
        ELSE /\ m.start = Min(starts) /\ m.end = ends[m.start]
             /\ m.start \in q .. n /\ m.start # NoMatch /\ ends[m.start] # NoMatch
    BY <1>3, LeftmostIs
  <2>2. starts # {}
    <3> HIDE DEF starts, m
    <3>1. starts = {} => m.start = NoMatch
      BY <2>1
    <3> QED BY <1>4, <3>1 DEF m
  <2> HIDE DEF m, starts
  <2>3. m.start \in q .. n /\ m.end \in m.start .. n
    <3>1. m.start \in q .. n /\ m.end = ends[m.start] /\ ends[m.start] # NoMatch
      BY <2>1, <2>2
    <3>2. m.start \in 1 .. n
      BY <1>1, <3>1
    <3> QED BY <1>3, <3>1, <3>2
  <2>4. /\ Replaced(s, <<Dollar>>, TRUE, m, q) = SubSeq(s, q, Cursor(s, m) - 1)
        /\ Cursor(s, m) \in q .. n
        /\ Cursor(s, m) # n => Cursor(s, m) \in q + 1 .. n
    BY <2>3, TurnKeeps
  <2> QED BY <2>4 DEF m
<1>5. ASSUME NEW q \in 1 .. n, NEW c \in q .. n PROVE SubSeq(s, q, c - 1) \o Rest(c) = Rest(q)
  <2>1. q \in 1 .. Len(s) + 1 /\ c - 1 \in q - 1 .. Len(s) /\ Len(s) \in c - 1 .. Len(s) /\ c - 1 + 1 = c
    BY <1>1
  <2>2. SubSeq(s, q, c - 1) \o SubSeq(s, c - 1 + 1, Len(s)) = SubSeq(s, q, Len(s))
    BY <1>1, <2>1, PartsJoin
  <2> QED BY <2>1, <2>2
<1> DEFINE Copied(h, q) == \A k \in q + 1 .. n : \A left \in Int : h[k][left] = Rest(k)
<1>6. ASSUME NEW h, NEW q \in 1 .. n, Copied(h, q), NEW left \in Int PROVE At(h, q, left) = Rest(q)
  <2> DEFINE c == Cursor(s, M(q))
             next == IF left = -1 THEN -1 ELSE left - 1
  <2>1. CASE left = 0 \/ left < -1 \/ M(q).start = NoMatch
    BY <2>1
  <2>2. CASE ~(left = 0 \/ left < -1 \/ M(q).start = NoMatch)
    <3>1. /\ Turn(q) = SubSeq(s, q, c - 1) /\ c \in q .. n
          /\ c # n => c \in q + 1 .. n
      <4>1. M(q).start # NoMatch
        BY <2>2
      <4> HIDE DEF M, Turn
      <4> QED BY <1>4, <4>1
    <3>2. At(h, q, left) = IF c = n THEN Turn(q) ELSE Turn(q) \o h[c][next]
      BY <2>2
    <3>3. next \in Int
      OBVIOUS
    <3> HIDE DEF c, next, M, Turn, At
    <3>4. CASE c = n
      <4>1. c - 1 = Len(s)
        BY <1>1, <3>4
      <4> QED BY <3>1, <3>2, <3>4, <4>1
    <3>5. CASE c # n
      <4>1. h[c][next] = Rest(c)
        BY <1>6, <3>1, <3>3, <3>5
      <4>2. SubSeq(s, q, c - 1) \o Rest(c) = Rest(q)
        BY <1>5, <3>1
      <4> HIDE DEF Rest
      <4> QED BY <3>1, <3>2, <3>5, <4>1, <4>2
    <3> QED BY <3>4, <3>5
  <2> QED BY <2>1, <2>2
<1> HIDE DEF M, Turn, At, Rest
<1>7. Rec(f)
  <2>1. \A q \in 1 .. n : \A left \in Int : At(f, q, left) = Rest(q)
    <3> TAKE q \in 1 .. n
    <3> TAKE left \in Int
    <3>1. Copied(f, q)
      <4>1. \A k \in q + 1 .. n : k \in 1 .. n
        BY <1>1
      <4> QED BY <4>1
    <3> HIDE DEF Copied, f
    <3> QED BY <1>6, <3>1
  <2> QED BY <2>1
<1>8. Rec(F)
  <2> HIDE DEF Rec
  <2> QED BY <1>7
<1> HIDE DEF F
<1>9. \A q \in 1 .. n : \A left \in Int : F[q][left] = At(F, q, left)
  <2> TAKE q \in 1 .. n
  <2>1. F[q] = [left \in Int |-> At(F, q, left)]
    <3> HIDE DEF f, Rest
    <3> QED BY <1>8
  <2> QED BY <2>1
<1> DEFINE Bad == {q \in 1 .. n : \E left \in Int : F[q][left] # Rest(q)}
<1>10. Bad = {}
  <2>1. Bad \in SUBSET (1 .. n)
    OBVIOUS
  <2>2. ASSUME NEW q \in 1 .. n, \A k \in q + 1 .. n : k \notin Bad PROVE q \notin Bad
    <3>1. Copied(F, q)
      <4>1. \A k \in q + 1 .. n : k \in 1 .. n
        BY <1>1
      <4> QED BY <2>2, <4>1
    <3>2. \A left \in Int : F[q][left] = Rest(q)
      <4> HIDE DEF Copied
      <4> QED BY <1>6, <1>9, <3>1
    <3> QED BY <3>2
  <2> HIDE DEF Bad
  <2> QED BY <1>1, <2>1, <2>2, NoLast
<1>11. F[1][count] = Rest(1)
  <2>1. 1 \in 1 .. n
    BY <1>1
  <2> QED BY <1>10, <2>1
<1>12. Rest(1) = s
  <2> DEFINE u == SubSeq(s, 1, Len(s))
  <2>1. 1 \in 1 .. Len(s) + 1 /\ Len(s) \in 1 - 1 .. Len(s) /\ Len(s) - 1 + 1 = Len(s) /\ \A i \in 1 .. Len(s) : 1 + i - 1 = i
    BY <1>1
  <2>2. /\ u \in Seq(SubjectChars) /\ Len(u) = Len(s) - 1 + 1
        /\ \A i \in 1 .. Len(s) - 1 + 1 : u[i] = s[1 + i - 1]
    BY <1>1, <2>1, PartIs
  <2> HIDE DEF u
  <2>3. u = s
    BY <1>1, <2>1, <2>2, SeqEqual
  <2> QED BY <2>3 DEF u, Rest
<1> QED BY <1>2, <1>11, <1>12

-----------------------------------------------------------------------------
(* The theorems.                                                              *)

WildcardType == pattern \in Texts0 /\ subject \in Subjects

LEMMA WildcardTyped == WildcardSpec => []WildcardType
<1>1. WildcardInit => WildcardType
  BY WildcardConstants DEF WildcardInit, WildcardType, Texts0, Chars0, Subjects
<1>2. WildcardType /\ [WildcardNext]_wildcard_vars => WildcardType'
  <2> SUFFICES ASSUME WildcardType, [WildcardNext]_wildcard_vars PROVE WildcardType'
    OBVIOUS
  <2>1. CASE WritePattern
    <3>1. PICK c \in PatternChars : pattern' = Append(pattern, c)
      BY <2>1 DEF WritePattern
    <3>2. pattern' \in Texts0
      BY <3>1, WildcardConstants DEF WildcardType, Texts0, Chars0
    <3> QED BY <2>1, <3>2 DEF WritePattern, WildcardType
  <2>2. CASE WriteSubject
    BY <2>2 DEF WriteSubject, WildcardType, Subjects
  <2>3. CASE UNCHANGED wildcard_vars
    BY <2>3 DEF wildcard_vars, WildcardType
  <2> QED BY <2>1, <2>2, <2>3 DEF WildcardNext
<1> QED BY <1>1, <1>2, PTL DEF WildcardSpec

\* For every pattern and string, the backtracking matcher says yes exactly when the string
\* is one of the words that the pieces of the pattern denote (do_match in mila.c).
THEOREM MatcherFindsItsWords == WildcardSpec => []MatchMeans
<1>1. WildcardType => MatchMeans
  <2> SUFFICES ASSUME WildcardType PROVE MatchMeans
    OBVIOUS
  <2>1. pattern \in Texts0 /\ subject \in Subjects
    BY DEF WildcardType
  <2>2. PICK W : IsWords(W, pattern, subject) /\ W[1] = WordEnds(pattern, subject)
    BY <2>1, WordsAre
  <2>3. PICK M : IsMatches(M, pattern, subject) /\ M[1][1] = do_match(pattern, subject)
    BY <2>1, MatchesAre
  <2>4. 1 \in 1 .. EndOf(pattern) /\ 1 \in 1 .. EndOf(subject)
    BY <2>1, TextIs, SubjectIs
  <2>5. M[1][1] <=> EndOf(subject) \in W[1][1]
    BY <2>1, <2>2, <2>3, <2>4, MatcherFinds
  <2>6. M[1][1] \in BOOLEAN
    BY <2>3, <2>4 DEF IsMatches
  <2> QED BY <2>2, <2>3, <2>5, <2>6 DEF MatchMeans
<1> QED BY <1>1, WildcardTyped, PTL

\* For every pattern and string, both searches find a match where there is one and nowhere
\* else, at the leftmost place, and the greedy one the longest there, though it decides for
\* each * and {set} alone (match_end, greedy_match_end and their callers in mila.c).
THEOREM SearchesAreLeftmostLongest == WildcardSpec => []LeftmostLongest
<1>1. WildcardType => LeftmostLongest
  <2> SUFFICES ASSUME WildcardType PROVE LeftmostLongest
    OBVIOUS
  <2>1. pattern \in Texts0 /\ subject \in Subjects
    BY DEF WildcardType
  <2> QED BY <2>1, LongestIs DEF LeftmostLongest
<1> QED BY <1>1, WildcardTyped, PTL

\* For every pattern and string, replacing every match by itself returns the string: the
\* cursor never passes a character that is not copied and copies none twice, around empty
\* matches and at the end too (replace_match in mila.c).
THEOREM ReplacementKeepsTheRest == WildcardSpec => []ReplaceKeepsTheRest
<1>1. WildcardType => ReplaceKeepsTheRest
  <2> SUFFICES ASSUME WildcardType PROVE ReplaceKeepsTheRest
    OBVIOUS
  <2>1. pattern \in Texts0 /\ subject \in Subjects /\ -1 \in Int
    BY DEF WildcardType
  <2> QED BY <2>1, ReplacingKeeps DEF ReplaceKeepsTheRest
<1> QED BY <1>1, WildcardTyped, PTL

-----------------------------------------------------------------------------
(* Number literals.                                                         *)

CStrings == Seq(Nat \ {0})

\* The characters of cs that stand from p on end at Span, and only there.
LEMMA SpanEnds ==
  ASSUME NEW t \in CStrings, NEW p \in 1 .. Len(t) + 1, NEW cs
  PROVE  /\ Span(t, p, cs) \in p .. Len(t) + 1
         /\ \A i \in p .. Span(t, p, cs) - 1 : t[i] \in cs
         /\ \A e \in p .. Len(t) + 1 :
              (\A i \in p .. e - 1 : t[i] \in cs) => e =< Span(t, p, cs)
<1> DEFINE S == {e \in p .. Len(t) + 1 : \A i \in p .. e - 1 : t[i] \in cs}
<1>1. Len(t) + 1 \in Nat /\ S \in SUBSET (0 .. Len(t) + 1) /\ p \in S
  BY DEF CStrings
<1>2. Span(t, p, cs) = Max(S)
  BY DEF Span
<1> HIDE DEF S
<1>3. Max(S) \in S /\ \A e \in S : Max(S) >= e
  BY <1>1, MaxIsIn
<1>4. Max(S) \in p .. Len(t) + 1 /\ \A i \in p .. Max(S) - 1 : t[i] \in cs
  BY <1>3 DEF S
<1>5. \A e \in p .. Len(t) + 1 : (\A i \in p .. e - 1 : t[i] \in cs) => e =< Max(S)
  <2> TAKE e \in p .. Len(t) + 1
  <2> HAVE \A i \in p .. e - 1 : t[i] \in cs
  <2>1. e \in S
    BY DEF S
  <2> QED BY <1>3, <1>4, <2>1, <1>1
<1> QED BY <1>2, <1>4, <1>5

LEMMA SpanIs ==
  ASSUME NEW t \in CStrings, NEW p \in 1 .. Len(t) + 1, NEW cs, NEW e \in p .. Len(t) + 1,
         \A i \in p .. e - 1 : t[i] \in cs, e \in DOMAIN t => t[e] \notin cs
  PROVE  Span(t, p, cs) = e
<1>1. Len(t) \in Nat /\ DOMAIN t = 1 .. Len(t)
  BY DEF CStrings
<1> DEFINE s == Span(t, p, cs)
<1>2. s \in p .. Len(t) + 1 /\ (\A i \in p .. s - 1 : t[i] \in cs) /\ e =< s
  BY SpanEnds
<1> HIDE DEF s
<1>3. ASSUME e < s PROVE FALSE
  <2>1. e \in p .. s - 1 /\ e \in DOMAIN t
    BY <1>1, <1>2, <1>3
  <2> QED BY <1>2, <2>1
<1> QED BY <1>2, <1>3 DEF s

\* A text with one mark at most is read to where it is skipped.
LEMMA OneMarkReadsAll ==
  ASSUME NEW t \in CStrings, NEW p \in 1 .. Len(t) + 1,
         \A i, j \in 1 .. Len(t) : t[i] \in NumberMarks /\ t[j] \in NumberMarks => i = j
  PROVE  LiteralEnd(t, p) = Span(t, p, NumberChars)
<1> DEFINE s == Span(t, p, NumberChars)
           S == {e \in p .. s : \A i, j \in p .. e - 1 : t[i] \in NumberMarks /\ t[j] \in NumberMarks => i = j}
<1>1. s \in p .. Len(t) + 1 /\ Len(t) \in Nat
  BY SpanEnds DEF CStrings
<1>2. LiteralEnd(t, p) = Max(S)
  BY DEF LiteralEnd
<1> HIDE DEF s
<1>3. s \in Nat /\ S \in SUBSET (0 .. s)
  BY <1>1
<1>4. s \in S
  BY <1>1
<1> HIDE DEF S
<1>5. Max(S) \in S /\ Max(S) >= s
  BY <1>3, <1>4, MaxIsIn
<1>6. Max(S) \in 0 .. s
  BY <1>3, <1>5
<1>7. Max(S) = s
  BY <1>3, <1>5, <1>6
<1> QED BY <1>2, <1>7 DEF s

\* What a run of digits is worth, one digit after another.
SumOf(run, base) ==
  CHOOSE f : f = [i \in 0 .. Len(run) |->
                   IF i = 0 THEN 0 ELSE f[i - 1] * base + DigitValue(run[i])]

LEMMA Sums ==
  ASSUME NEW run \in CStrings, NEW base \in Nat
  PROVE  /\ Worth(run, base) = SumOf(run, base)[Len(run)]
         /\ SumOf(run, base) \in [0 .. Len(run) -> Int]
         /\ SumOf(run, base)[0] = 0
         /\ \A i \in 1 .. Len(run) :
              SumOf(run, base)[i] = SumOf(run, base)[i - 1] * base + DigitValue(run[i])
<1> DEFINE N == Len(run)
           Rec(f) == f = [i \in 0 .. N |->
                           IF i = 0 THEN 0 ELSE f[i - 1] * base + DigitValue(run[i])]
           F == [n \in 1 .. N |-> [x \in Int |-> x * base + DigitValue(run[n])]]
<1>1. N \in Nat /\ \A n \in 1 .. N : DigitValue(run[n]) \in Int
  BY DEF CStrings, DigitValue
<1>2. Worth(run, base) = SumOf(run, base)[N]
  BY DEF Worth, SumOf
<1>3. F \in [1 .. N -> [Int -> Int]]
  <2>1. \A n \in 1 .. N : \A x \in Int : x * base + DigitValue(run[n]) \in Int
    BY <1>1
  <2> QED BY <2>1
<1>4. PICK f : Loop(f, Int, N, 0, F)
  <2> DEFINE X == Int
             zero == 0
  <2>1. N \in Nat /\ zero \in X /\ F \in [1 .. N -> [X -> X]]
    BY <1>1, <1>3
  <2>2. \E f : Loop(f, X, N, zero, F)
    <3> HIDE DEF F, N, X, zero
    <3> QED BY <2>1, Loops
  <2> QED BY <2>2
<1>5. f \in [0 .. N -> Int] /\ f[0] = 0
  BY <1>4 DEF Loop
<1>6. ASSUME NEW n \in 1 .. N PROVE f[n] = f[n - 1] * base + DigitValue(run[n])
  <2>1. f[n] = F[n][f[n - 1]]
    <3> HIDE DEF F
    <3> QED BY <1>4 DEF Loop
  <2>2. f[n - 1] \in Int
    <3>1. n - 1 \in 0 .. N
      BY <1>1
    <3> QED BY <1>5, <3>1
  <2> QED BY <2>1, <2>2
<1>7. Rec(f)
  <2>1. \A i \in 0 .. N : f[i] = IF i = 0 THEN 0 ELSE f[i - 1] * base + DigitValue(run[i])
    BY <1>5, <1>6, <1>1
  <2> QED BY <1>5, <2>1
<1>8. SumOf(run, base) = CHOOSE g : Rec(g)
  BY DEF SumOf
<1> DEFINE s == SumOf(run, base)
<1>9. Rec(s)
  <2> HIDE DEF Rec
  <2> QED BY <1>7, <1>8
<1> HIDE DEF s
<1>10. DOMAIN s = 0 .. N
       /\ \A i \in 0 .. N : s[i] = IF i = 0 THEN 0 ELSE s[i - 1] * base + DigitValue(run[i])
  BY <1>9
<1>11. s[0] = 0 /\ \A i \in 1 .. N : s[i] = s[i - 1] * base + DigitValue(run[i])
  BY <1>10, <1>1
<1> DEFINE Bad == {i \in 0 .. N : s[i] \notin Int}
<1>12. Bad = {}
  <2>1. Bad \in SUBSET (0 .. N) /\ 0 \notin Bad
    BY <1>11
  <2>2. ASSUME NEW i \in 1 .. N, i - 1 \notin Bad PROVE i \notin Bad
    <3>1. s[i - 1] \in Int
      BY <2>2, <1>1
    <3> QED BY <3>1, <1>11, <1>1
  <2> HIDE DEF Bad, N
  <2> QED BY <1>1, <2>1, <2>2, NoFirst
<1>13. s \in [0 .. N -> Int]
  <2>1. s = [i \in 0 .. N |-> s[i]]
    BY <1>9
  <2> QED BY <1>12, <2>1
<1> QED BY <1>2, <1>11, <1>13 DEF s

\* One more digit.
LEMMA WorthOfMore ==
  ASSUME NEW run \in CStrings, NEW base \in Nat, NEW c \in Nat \ {0}
  PROVE  /\ Worth(run, base) \in Int
         /\ Worth(Append(run, c), base) = Worth(run, base) * base + DigitValue(c)
<1> DEFINE N == Len(run)
           more == Append(run, c)
           s == SumOf(run, base)
           m == SumOf(more, base)
<1>1. N \in Nat /\ more \in CStrings /\ Len(more) = N + 1 /\ more[N + 1] = c
      /\ \A i \in 1 .. N : more[i] = run[i]
  BY DEF CStrings
<1> HIDE DEF more
<1>2. /\ Worth(run, base) = s[N] /\ s \in [0 .. N -> Int] /\ s[0] = 0
      /\ \A i \in 1 .. N : s[i] = s[i - 1] * base + DigitValue(run[i])
  BY Sums
<1>3. /\ Worth(more, base) = m[N + 1] /\ m[0] = 0
      /\ \A i \in 1 .. N + 1 : m[i] = m[i - 1] * base + DigitValue(more[i])
  BY <1>1, Sums
<1> HIDE DEF s, m, N
<1> DEFINE Bad == {i \in 0 .. N : m[i] # s[i]}
<1>4. Bad = {}
  <2>1. Bad \in SUBSET (0 .. N) /\ 0 \notin Bad
    BY <1>2, <1>3
  <2>2. ASSUME NEW i \in 1 .. N, i - 1 \notin Bad PROVE i \notin Bad
    <3>1. m[i - 1] = s[i - 1] /\ i \in 1 .. N + 1 /\ more[i] = run[i]
      BY <1>1, <2>2
    <3> QED BY <3>1, <1>2, <1>3
  <2> HIDE DEF Bad
  <2> QED BY <1>1, <2>1, <2>2, NoFirst
<1>5. m[N] = s[N] /\ s[N] \in Int
  BY <1>1, <1>2, <1>4
<1>6. N + 1 \in 1 .. N + 1 /\ (N + 1) - 1 = N
  BY <1>1
<1>7. m[N + 1] = m[N] * base + DigitValue(c)
  BY <1>1, <1>3, <1>6
<1> QED BY <1>2, <1>3, <1>5, <1>7 DEF more

LEMMA WorthOfNone == ASSUME NEW base \in Nat PROVE Worth(<<>>, base) = 0
<1>1. <<>> \in CStrings /\ Len(<<>>) = 0
  BY DEF CStrings
<1> QED BY <1>1, Sums

\* The function that prints a number exists.
LEMMA Decimals ==
  \A n \in 0 .. MaxULong :
    /\ Decimal[n] \in CStrings
    /\ Decimal[n] = IF n < 10 THEN <<48 + n>> ELSE Append(Decimal[n \div 10], 48 + (n % 10))
<1> DEFINE N == MaxULong + 1
           Rec(f) == f = [n \in 0 .. MaxULong |->
                           IF n < 10 THEN <<48 + n>> ELSE Append(f[n \div 10], 48 + (n % 10))]
           G == [h \in [1 .. N -> CStrings] |-> [p \in 1 .. N |->
                  IF N - p < 10 THEN <<48 + (N - p)>>
                  ELSE Append(h[N - ((N - p) \div 10)], 48 + ((N - p) % 10))]]
<1>1. MaxULong \in Nat /\ N \in Nat
  BY NumberConstants DEF MaxULong
<1>2. ASSUME NEW n \in Nat, n >= 10 PROVE n \div 10 \in 0 .. n - 1 /\ n % 10 \in 0 .. 9
  BY <1>2
<1>3. ASSUME NEW p \in 1 .. N
      PROVE  /\ N - p \in 0 .. MaxULong
             /\ N - p >= 10 => N - ((N - p) \div 10) \in p + 1 .. N
  <2>1. N - p \in Nat /\ N - p \in 0 .. MaxULong
    BY <1>1
  <2> DEFINE k == N - p
  <2>2. k >= 10 => k \div 10 \in 0 .. k - 1
    <3> HIDE DEF k, N
    <3> QED BY <2>1, <1>2 DEF k
  <2>3. k >= 10 => N - (k \div 10) \in p + 1 .. N
    BY <2>2, <1>1
  <2> QED BY <2>1, <2>3
<1>4. G \in [[1 .. N -> CStrings] -> [1 .. N -> CStrings]]
  <2>1. ASSUME NEW h \in [1 .. N -> CStrings], NEW p \in 1 .. N
        PROVE  (IF N - p < 10 THEN <<48 + (N - p)>>
                ELSE Append(h[N - ((N - p) \div 10)], 48 + ((N - p) % 10))) \in CStrings
    <3> DEFINE k == N - p
    <3>1. k \in Nat
      BY <1>1
    <3>2. CASE k < 10
      BY <3>1, <3>2 DEF CStrings
    <3>3. CASE k >= 10
      <4>1. N - (k \div 10) \in 1 .. N
        BY <1>1, <1>3, <3>3
      <4>2. h[N - (k \div 10)] \in CStrings
        BY <4>1
      <4>3. 48 + (k % 10) \in Nat \ {0}
        <5> HIDE DEF k
        <5> QED BY <1>2, <3>1, <3>3
      <4> HIDE DEF k, N
      <4>4. Append(h[N - (k \div 10)], 48 + (k % 10)) \in CStrings
        BY <4>2, <4>3 DEF CStrings
      <4> QED BY <4>4, <3>3, <3>1 DEF k
    <3> QED BY <3>1, <3>2, <3>3
  <2> QED BY <2>1
<1>5. FromLater(G, N, CStrings)
  <2> SUFFICES ASSUME NEW f \in [1 .. N -> CStrings], NEW g \in [1 .. N -> CStrings], NEW p \in 1 .. N,
                      \A k \in p + 1 .. N : f[k] = g[k]
               PROVE  G[f][p] = G[g][p]
    BY DEF FromLater
  <2>1. N - p >= 10 => f[N - ((N - p) \div 10)] = g[N - ((N - p) \div 10)]
    BY <1>3
  <2> QED BY <2>1, <1>1
<1>6. PICK h \in [1 .. N -> CStrings] : G[h] = h
  <2>1. CStrings # {}
    <3>1. <<>> \in CStrings
      BY DEF CStrings
    <3> QED BY <3>1
  <2>2. N \in Nat
    BY <1>1
  <2> HIDE DEF G, N
  <2>3. Turns(G, N, CStrings)
    BY <1>4, <1>5, <2>1, <2>2 DEF Turns
  <2> QED BY <2>3, Descends
<1> DEFINE f == [n \in 0 .. MaxULong |-> h[N - n]]
<1>7. ASSUME NEW n \in 0 .. MaxULong
      PROVE  /\ f[n] \in CStrings
             /\ f[n] = IF n < 10 THEN <<48 + n>> ELSE Append(f[n \div 10], 48 + (n % 10))
  <2>1. N - n \in 1 .. N /\ N - (N - n) = n
    BY <1>1
  <2>2. G[h][N - n] = IF n < 10 THEN <<48 + n>> ELSE Append(h[N - (n \div 10)], 48 + (n % 10))
    BY <2>1
  <2>3. n >= 10 => n \div 10 \in 0 .. MaxULong
    <3>1. n \in Nat
      OBVIOUS
    <3>2. n >= 10 => n \div 10 \in 0 .. n - 1
      BY <1>2, <3>1
    <3> QED BY <1>1, <3>2
  <2>4. n >= 10 => f[n \div 10] = h[N - (n \div 10)]
    BY <2>3
  <2>5. f[n] = h[N - n] /\ h[N - n] \in CStrings
    BY <2>1
  <2> HIDE DEF f, G, N
  <2> QED BY <1>6, <2>2, <2>4, <2>5
<1>8. Rec(f)
  <2>1. \A n \in 0 .. MaxULong :
          f[n] = IF n < 10 THEN <<48 + n>> ELSE Append(f[n \div 10], 48 + (n % 10))
    <3> HIDE DEF f
    <3> QED BY <1>7
  <2> DEFINE g == [n \in 0 .. MaxULong |->
                    IF n < 10 THEN <<48 + n>> ELSE Append(f[n \div 10], 48 + (n % 10))]
  <2>2. DOMAIN f = 0 .. MaxULong /\ f = [n \in 0 .. MaxULong |-> f[n]]
    OBVIOUS
  <2> HIDE DEF f
  <2> QED BY <2>1, <2>2
<1>9. Decimal = CHOOSE g : Rec(g)
  BY DEF Decimal
<1>10. Rec(Decimal)
  <2> HIDE DEF Rec, f
  <2> QED BY <1>8, <1>9
<1>11. \A n \in 0 .. MaxULong :
         Decimal[n] = IF n < 10 THEN <<48 + n>> ELSE Append(Decimal[n \div 10], 48 + (n % 10))
  BY <1>10
<1> HIDE DEF N, Rec, f
<1> DEFINE Bad == {p \in 1 .. N : Decimal[N - p] \notin CStrings}
<1>12. Bad = {}
  <2>1. ASSUME NEW p \in 1 .. N, \A k \in p + 1 .. N : k \notin Bad PROVE p \notin Bad
    <3> DEFINE n == N - p
    <3>1. n \in 0 .. MaxULong
      BY <1>3
    <3>2. CASE n < 10
      <4>1. Decimal[n] = <<48 + n>>
        <5> HIDE DEF n
        <5> QED BY <1>11, <3>1, <3>2
      <4>2. 48 + n \in Nat \ {0}
        BY <3>1
      <4> HIDE DEF n
      <4>3. Decimal[n] \in CStrings
        BY <4>1, <4>2 DEF CStrings
      <4> QED BY <4>3 DEF n, Bad
    <3>3. CASE n >= 10
      <4> DEFINE q == N - (n \div 10)
      <4>1. q \in p + 1 .. N /\ q \in 1 .. N
        BY <1>3, <3>3
      <4>2. N - q = n \div 10
        BY <1>1, <1>2, <3>1, <3>3
      <4>3. Decimal[n \div 10] \in CStrings
        <5> HIDE DEF n, q
        <5> QED BY <4>1, <4>2, <2>1
      <4>4. 48 + (n % 10) \in Nat \ {0}
        <5> HIDE DEF n
        <5> QED BY <1>2, <3>1, <3>3
      <4>5. Decimal[n] = Append(Decimal[n \div 10], 48 + (n % 10))
        <5> HIDE DEF n
        <5>1. ~(n < 10)
          BY <3>1, <3>3
        <5> QED BY <1>11, <3>1, <5>1
      <4> HIDE DEF n
      <4>6. Decimal[n] \in CStrings
        BY <4>3, <4>4, <4>5 DEF CStrings
      <4> QED BY <4>6 DEF n, Bad
    <3> QED BY <3>1, <3>2, <3>3
  <2> HIDE DEF Bad
  <2>2. Bad \in SUBSET (1 .. N)
    BY DEF Bad
  <2> QED BY <1>1, <2>1, <2>2, NoLast
<1>13. ASSUME NEW n \in 0 .. MaxULong PROVE Decimal[n] \in CStrings
  <2>1. N - n \in 1 .. N /\ N - (N - n) = n
    BY <1>1 DEF N
  <2> QED BY <1>12, <2>1
<1> QED BY <1>11, <1>13

\* What is printed of a number is its decimal digits.
LEMMA DecimalDigits ==
  \A n \in 0 .. MaxULong :
    /\ Decimal[n] \in CStrings /\ Len(Decimal[n]) > 0
    /\ \A i \in 1 .. Len(Decimal[n]) : Decimal[n][i] \in Digits
    /\ Worth(Decimal[n], 10) = n
<1> DEFINE Good(n) == /\ Decimal[n] \in CStrings /\ Len(Decimal[n]) > 0
                      /\ \A i \in 1 .. Len(Decimal[n]) : Decimal[n][i] \in Digits
                      /\ Worth(Decimal[n], 10) = n
           N == MaxULong + 1
           Bad == {p \in 1 .. N : ~Good(N - p)}
<1>1. MaxULong \in Nat /\ N \in Nat
  BY NumberConstants DEF MaxULong
<1>2. ASSUME NEW n \in Nat, n >= 10
      PROVE  n \div 10 \in 0 .. n - 1 /\ n % 10 \in 0 .. 9 /\ n = (n \div 10) * 10 + (n % 10)
  BY <1>2
<1>3. ASSUME NEW n \in 0 .. MaxULong, n < 10 PROVE Good(n)
  <2> DEFINE c == 48 + n
  <2>1. Decimal[n] = <<c>>
    BY <1>3, Decimals
  <2>2. c \in Nat \ {0} /\ c \in Digits /\ DigitValue(c) = n
    BY <1>3 DEF Digits, DigitValue
  <2> HIDE DEF c
  <2>3. <<>> \in CStrings /\ Append(<<>>, c) = <<c>>
    BY DEF CStrings
  <2>4. Worth(<<c>>, 10) = 0 * 10 + n
    BY <2>2, <2>3, WorthOfMore, WorthOfNone
  <2>5. <<c>> \in CStrings /\ Len(<<c>>) = 1 /\ <<c>>[1] = c
    BY <2>2 DEF CStrings
  <2>6. 0 * 10 + n = n
    OBVIOUS
  <2> QED BY <2>1, <2>2, <2>4, <2>5, <2>6
<1>4. ASSUME NEW n \in 0 .. MaxULong, n >= 10, Good(n \div 10) PROVE Good(n)
  <2> DEFINE c == 48 + (n % 10)
             s == Decimal[n \div 10]
  <2>1. ~(n < 10) /\ n \div 10 \in 0 .. n - 1 /\ n % 10 \in 0 .. 9 /\ n = (n \div 10) * 10 + (n % 10)
    BY <1>2, <1>4
  <2>2. Decimal[n] = Append(s, c)
    BY <2>1, Decimals
  <2>3. c \in Nat \ {0} /\ c \in Digits /\ DigitValue(c) = n % 10
    BY <2>1 DEF Digits, DigitValue
  <2>4. s \in CStrings /\ (\A i \in 1 .. Len(s) : s[i] \in Digits) /\ Worth(s, 10) = n \div 10
    BY <1>4
  <2> HIDE DEF s, c
  <2>5. Worth(Append(s, c), 10) = (n \div 10) * 10 + (n % 10)
    <3>1. 10 \in Nat
      OBVIOUS
    <3>2. Worth(Append(s, c), 10) = Worth(s, 10) * 10 + DigitValue(c)
      BY <2>3, <2>4, <3>1, WorthOfMore
    <3> QED BY <2>3, <2>4, <3>2
  <2>6. /\ Append(s, c) \in CStrings /\ Len(Append(s, c)) > 0
        /\ \A i \in 1 .. Len(Append(s, c)) : Append(s, c)[i] \in Digits
    BY <2>3, <2>4 DEF CStrings
  <2> QED BY <2>1, <2>2, <2>5, <2>6
<1> HIDE DEF Good
<1>5. Bad = {}
  <2>1. ASSUME NEW p \in 1 .. N, \A k \in p + 1 .. N : k \notin Bad PROVE p \notin Bad
    <3> DEFINE n == N - p
               q == N - (n \div 10)
    <3>1. n \in 0 .. MaxULong
      BY <1>1
    <3>2. CASE n < 10
      BY <1>3, <3>1, <3>2
    <3>3. CASE n >= 10
      <4>1. n \div 10 \in 0 .. n - 1
        <5> HIDE DEF n
        <5> QED BY <1>2, <3>1, <3>3
      <4>2. q \in p + 1 .. N /\ q \in 1 .. N /\ N - q = n \div 10
        BY <4>1, <1>1
      <4>3. Good(n \div 10)
        <5> HIDE DEF n, q
        <5> QED BY <4>2, <2>1
      <4>4. Good(n)
        <5> HIDE DEF n, q
        <5> QED BY <1>4, <3>1, <3>3, <4>3
      <4> QED BY <4>4
    <3> QED BY <3>1, <3>2, <3>3
  <2>2. Bad \in SUBSET (1 .. N)
    OBVIOUS
  <2> HIDE DEF Bad, N
  <2> QED BY <1>1, <2>1, <2>2, NoLast
<1>6. ASSUME NEW n \in 0 .. MaxULong PROVE Good(n)
  <2>1. N - n \in 1 .. N /\ N - (N - n) = n
    BY <1>1
  <2> QED BY <1>5, <2>1
<1> QED BY <1>6 DEF Good

\* strtol reads the digits behind the sign.
LEMMA StrtolReads ==
  ASSUME NEW t \in CStrings, NEW e \in BehindSign(t) + 1 .. Len(t) + 1,
         \A i \in BehindSign(t) .. e - 1 : t[i] \in Digits, e \in DOMAIN t => t[e] \notin Digits
  PROVE  strtol(t, 10) = Got(Saturated(SignOf(t) * Worth(SubSeq(t, BehindSign(t), e - 1), 10)), e)
<1> DEFINE p == BehindSign(t)
           run == SubSeq(t, p, e - 1)
<1>1. Len(t) \in Nat /\ p \in 1 .. Len(t) + 1 /\ e \in p .. Len(t) + 1 /\ p < e
  BY DEF CStrings, BehindSign
<1>2. Span(t, p, Digits) = e
  BY <1>1, SpanIs
<1>3. DigitsFrom(t, p, Digits) = run
  BY <1>2 DEF DigitsFrom
<1>4. Len(run) = e - p /\ run # <<>>
  <2>1. p \in 1 .. Len(t) + 1 /\ e - 1 \in p - 1 .. Len(t)
    BY <1>1
  <2>2. Len(run) = e - 1 - p + 1
    BY <2>1, PartIs DEF CStrings
  <2> HIDE DEF run
  <2>3. Len(run) = e - p /\ Len(run) # 0
    BY <1>1, <2>2
  <2>4. run = <<>> => Len(run) = 0
    OBVIOUS
  <2> QED BY <2>3, <2>4
<1>5. p + (e - p) = e
  BY <1>1
<1> HIDE DEF run
<1>6. strtol(t, 10) = Got(Saturated(SignOf(t) * Worth(run, 10)), IF run = <<>> THEN 1 ELSE p + Len(run))
  BY <1>3 DEF strtol
<1> QED BY <1>4, <1>5, <1>6 DEF run

\* If strtol ends where the text does, there is nothing else in the text.
LEMMA StrtolReadsAll ==
  ASSUME NEW t \in CStrings, t # <<>>, src_peek(t, strtol(t, 10).p) = 0
  PROVE  BehindSign(t) \in 1 .. Len(t) /\ \A i \in BehindSign(t) .. Len(t) : t[i] \in Digits
<1> DEFINE p == BehindSign(t)
           e == Span(t, p, Digits)
           run == SubSeq(t, p, e - 1)
<1>1. Len(t) \in Nat /\ Len(t) > 0 /\ DOMAIN t = 1 .. Len(t) /\ p \in 1 .. Len(t) + 1
      /\ \A i \in DOMAIN t : t[i] # 0
  BY DEF CStrings, BehindSign
<1>2. e \in p .. Len(t) + 1 /\ \A i \in p .. e - 1 : t[i] \in Digits
  BY <1>1, SpanEnds
<1> HIDE DEF e, p
<1>3. Len(run) = e - p /\ (run = <<>> <=> e = p)
  BY <1>1, <1>2 DEF CStrings
<1> HIDE DEF run
<1>4. strtol(t, 10).p = IF run = <<>> THEN 1 ELSE p + Len(run)
  <2>1. DigitsFrom(t, p, Digits) = run
    BY DEF DigitsFrom, run, e
  <2> QED BY <2>1 DEF strtol, Got, p
<1>5. e # p
  <2>1. SUFFICES ASSUME e = p PROVE FALSE
    OBVIOUS
  <2>2. src_peek(t, 1) = 0
    BY <2>1, <1>3, <1>4
  <2> QED BY <2>2, <1>1 DEF src_peek
<1>6. strtol(t, 10).p = e
  BY <1>1, <1>2, <1>3, <1>4, <1>5
<1>7. e = Len(t) + 1
  BY <1>6, <1>1, <1>2 DEF src_peek
<1> QED BY <1>1, <1>2, <1>5, <1>7 DEF p

\* Where the scan starts.
LEMMA ScanStarts ==
  ASSUME NEW t \in CStrings, t # <<>>
  PROVE  /\ Unmarked(t, 1) \in 1 .. Len(t) + 1
         /\ t[1] # Plus => Unmarked(t, 1) = BehindSign(t)
         /\ t[1] # Plus => Unmarked(t, 1) = IF src_peek(t, 1) \in {Minus, Plus} THEN 2 ELSE 1
<1>1. Len(t) \in Nat /\ Len(t) > 0 /\ DOMAIN t = 1 .. Len(t)
  BY DEF CStrings
<1> QED BY <1>1 DEF Unmarked, BehindSign, src_peek, Minus, Plus

\* The digits p to q of t are followed by nothing or by a u.
Counted(t, p, q) ==
  /\ \A i \in p .. q : t[i] \in Digits
  /\ q # Len(t) => t[Len(t)] \in LetterU

\* A literal of digits, signed or not, is read to its end.
LEMMA ParsesDigits ==
  ASSUME NEW t \in CStrings, t # <<>>, NEW p \in Nat, p = Unmarked(t, 1),
         NEW q \in Nat, p =< q, q =< Len(t), q >= Len(t) - 1, Counted(t, p, q)
  PROVE  LET i == strtol(t, 10).v
             value == IF q < Len(t) THEN Unsigned(IF i > 0 THEN i ELSE -i) ELSE Signed(i)
         IN parse_number(t, 1) = Got(IF Len(t) >= MaxNumberDigits THEN Aborted ELSE value, Len(t) + 1)
<1> DEFINE mark == LiteralEnd(t, p)
<1>1. Len(t) \in Nat /\ Len(t) > 0 /\ p \in 1 .. Len(t) + 1
  BY ScanStarts DEF CStrings
<1>2. \A k \in Nat : k \in DOMAIN t <=> 1 =< k /\ k =< Len(t)
  BY DEF CStrings
<1>3. q + 1 \in p .. Len(t) + 1
  BY <1>1
<1>4. q # Len(t) => q + 1 = Len(t) /\ t[q + 1] \in LetterU
  <2>1. q # Len(t) => q + 1 = Len(t)
    BY <1>1
  <2> QED BY <2>1 DEF Counted
<1>5. Span(t, p, NumberChars) = q + 1
  <2>1. \A i \in p .. (q + 1) - 1 : t[i] \in NumberChars
    <3>1. (q + 1) - 1 = q
      OBVIOUS
    <3> QED BY <3>1 DEF NumberChars, HexDigits, Counted
  <2>2. q + 1 \in DOMAIN t => t[q + 1] \notin NumberChars
    <3>1. q + 1 \in DOMAIN t => q # Len(t)
      <4>1. q + 1 \in Nat
        OBVIOUS
      <4>2. q + 1 \in DOMAIN t => q + 1 =< Len(t)
        BY <1>2, <4>1
      <4> QED BY <4>2, <1>1
    <3>2. \A c \in LetterU : c \notin NumberChars
      BY DEF NumberChars, HexDigits, Digits, NumberMarks, LetterU, SmallU, Point, LetterX
    <3> QED BY <1>4, <3>1, <3>2
  <2> QED BY <1>1, <1>3, <2>1, <2>2, SpanIs
<1>6. \A i \in 1 .. Len(t) : t[i] \notin NumberMarks
  <2> TAKE i \in 1 .. Len(t)
  <2>1. i < p => i = 1 /\ t[1] = Minus
    BY <1>1, <1>2 DEF Unmarked, src_peek
  <2>2. i >= p /\ i =< q => t[i] \in Digits
    BY <1>1 DEF Counted
  <2>3. i > q => t[i] \in LetterU
    <3>1. i > q => q # Len(t) /\ i = q + 1
      BY <1>1
    <3> QED BY <1>4, <3>1
  <2>4. \A c \in NumberMarks : c # Minus /\ c \notin LetterU /\ c \notin Digits
    BY DEF NumberMarks, LetterU, SmallU, Point, LetterX, Minus, Digits
  <2>5. i < p \/ (i >= p /\ i =< q) \/ i > q
    BY <1>1
  <2> QED BY <2>1, <2>2, <2>3, <2>4, <2>5
<1>7. mark = q + 1
  BY <1>1, <1>5, <1>6, OneMarkReadsAll
<1> HIDE DEF mark
<1>8. ~HasChar(t, 1, mark, LetterX) /\ ~HasChar(t, 1, mark, {Point})
  <2>1. \A i \in 1 .. mark - 1 : i \in 1 .. Len(t)
    BY <1>1, <1>7
  <2> QED BY <1>6, <2>1 DEF HasChar, NumberMarks
<1> DEFINE unsigned == src_peek(t, mark) \in LetterU
           end == IF unsigned THEN mark + 1 ELSE mark
           i == strtol(t, 10).v
<1>9. end = Len(t) + 1 /\ (unsigned <=> q < Len(t))
  <2>1. CASE q = Len(t)
    <3>1. mark = Len(t) + 1 /\ mark \notin DOMAIN t
      BY <1>1, <1>7, <1>2, <2>1
    <3>2. ~unsigned
      BY <3>1 DEF src_peek, LetterU, SmallU
    <3> QED BY <2>1, <3>1, <3>2, <1>1
  <2>2. CASE q # Len(t)
    <3>1. mark = Len(t) /\ t[mark] \in LetterU /\ q < Len(t)
      BY <1>1, <1>7, <1>4, <2>2
    <3>2. Len(t) \in DOMAIN t
      BY <1>1, <1>2
    <3>3. unsigned
      BY <3>1, <3>2 DEF src_peek
    <3> QED BY <3>1, <3>3, <1>1
  <2> QED BY <2>1, <2>2
<1>10. SubSeq(t, 1, end - 1) = t
  <2>1. end - 1 = Len(t)
    BY <1>1, <1>9
  <2>2. SubSeq(t, 1, Len(t)) = t
    BY DEF CStrings
  <2> QED BY <2>1, <2>2
<1>11. parse_number(t, 1) =
        CASE end = 1 -> Got(NoValue, 1)
          [] end # 1 /\ end - 1 >= MaxNumberDigits -> Got(Aborted, end)
          [] end # 1 /\ end - 1 < MaxNumberDigits /\ HasChar(t, 1, mark, {Point}) -> Got(atof(t), end)
          [] OTHER -> Got(IF unsigned THEN Unsigned(IF i > 0 THEN i ELSE -i) ELSE Signed(i), end)
  <2> HIDE DEF unsigned
  <2>1. ~HasChar(t, 1, LiteralEnd(t, Unmarked(t, 1)), LetterX)
    BY <1>8 DEF mark
  <2> QED BY <1>10, <2>1 DEF parse_number, unsigned, mark
<1>12. end # 1 /\ end - 1 = Len(t) /\ (end - 1 < MaxNumberDigits <=> ~(Len(t) >= MaxNumberDigits))
  BY <1>1, <1>9, NumberConstants
<1> HIDE DEF end, unsigned, i
<1>13. CASE Len(t) >= MaxNumberDigits
  BY <1>9, <1>11, <1>12, <1>13
<1>14. CASE ~(Len(t) >= MaxNumberDigits)
  <2>1. parse_number(t, 1) = Got(IF unsigned THEN Unsigned(IF i > 0 THEN i ELSE -i) ELSE Signed(i), end)
    BY <1>8, <1>11, <1>12, <1>14
  <2> QED BY <1>9, <1>14, <2>1 DEF i
<1> QED BY <1>13, <1>14

\* The parser that skips stops where the one that reads does.
LEMMA SkipsAlike ==
  ASSUME NEW t \in CStrings, t # <<>>, t[1] # Plus,
         \A i, j \in 1 .. Len(t) : t[i] \in NumberMarks /\ t[j] \in NumberMarks => i = j
  PROVE  skip_number(t, 1) = parse_number(t, 1).p
<1> DEFINE p == Unmarked(t, 1)
           mark == LiteralEnd(t, p)
           end == IF src_peek(t, mark) \in LetterU THEN mark + 1 ELSE mark
<1>1. p \in 1 .. Len(t) + 1 /\ p = IF src_peek(t, 1) \in {Minus, Plus} THEN 1 + 1 ELSE 1
  BY ScanStarts
<1>2. mark = Span(t, p, NumberChars)
  BY <1>1, OneMarkReadsAll
<1>3. skip_number(t, 1) = end
  BY <1>1, <1>2 DEF skip_number, skip_digits
<1>4. parse_number(t, 1).p = end
  BY DEF parse_number, Got
<1> QED BY <1>3, <1>4

-----------------------------------------------------------------------------
(* Numbers that are printed, and what becomes of them.                      *)

Longs == -MaxLong - 1 .. MaxLong

PrintedNumber ==
  number # Unprinted =>
    /\ literal = as_c_string(number)
    /\ \/ \E n \in Longs : number = Signed(n)
       \/ \E n \in 0 .. MaxULong : number = Unsigned(n)

NumberInv == literal \in CStrings /\ PrintedNumber

LEMMA LongsAre ==
  /\ MaxLong \in Nat /\ MaxULong \in Nat /\ MaxULong = 2 * MaxLong + 1
  /\ \A n \in Longs : n >= 0 => n \in 0 .. MaxULong /\ n \in 0 .. MaxLong
  /\ \A n \in Longs : n < 0 => -n \in 0 .. MaxULong
  /\ \A n \in Longs : n \in Int /\ Saturated(n) = n
  /\ \A n \in 0 .. MaxLong : n \in Longs
  BY NumberConstants DEF Longs, MaxULong, Saturated

LEMMA PrintsText ==
  /\ \A n \in Longs : as_c_string(Signed(n)) \in CStrings
  /\ \A n \in 0 .. MaxULong : as_c_string(Unsigned(n)) \in CStrings
<1>1. ASSUME NEW n \in Longs PROVE as_c_string(Signed(n)) \in CStrings
  <2>1. CASE n < 0
    <3>1. Decimal[-n] \in CStrings
      BY <2>1, LongsAre, DecimalDigits
    <3>2. as_c_string(Signed(n)) = <<Minus>> \o Decimal[-n]
      BY <2>1 DEF as_c_string, Signed
    <3>3. <<Minus>> \in CStrings
      BY DEF CStrings, Minus
    <3> QED BY <3>1, <3>2, <3>3 DEF CStrings
  <2>2. CASE ~(n < 0)
    <3>1. Decimal[n] \in CStrings
      BY <2>2, LongsAre, DecimalDigits
    <3>2. as_c_string(Signed(n)) = Decimal[n]
      BY <2>2 DEF as_c_string, Signed
    <3> QED BY <3>1, <3>2
  <2> QED BY <2>1, <2>2
<1>2. ASSUME NEW n \in 0 .. MaxULong PROVE as_c_string(Unsigned(n)) \in CStrings
  <2>1. as_c_string(Unsigned(n)) = Append(Decimal[n], SmallU)
    BY DEF as_c_string, Unsigned
  <2>2. Decimal[n] \in CStrings /\ SmallU \in Nat \ {0}
    BY DecimalDigits DEF SmallU
  <2> QED BY <2>1, <2>2 DEF CStrings
<1> QED BY <1>1, <1>2

\* A signed number is read back, by the interpreter and by cast.int.
LEMMA SignedReadsBack ==
  ASSUME NEW n \in Longs
  PROVE  LET t == as_c_string(Signed(n))
         IN /\ t \in CStrings /\ t # <<>>
            /\ strtol(t, 10) = Got(n, Len(t) + 1)
            /\ \E p, q \in Nat : /\ p = Unmarked(t, 1) /\ p =< q /\ q = Len(t)
                                 /\ Counted(t, p, q)
<1> DEFINE t == as_c_string(Signed(n))
<1>1. CASE n < 0
  <2> DEFINE d == Decimal[-n]
             L == Len(d)
  <2>1. /\ d \in CStrings /\ L > 0 /\ (\A i \in 1 .. L : d[i] \in Digits)
        /\ Worth(d, 10) = -n
    BY <1>1, LongsAre, DecimalDigits
  <2>2. t = <<Minus>> \o d
    BY <1>1 DEF as_c_string, Signed
  <2> HIDE DEF d, t
  <2>3. L \in Nat /\ <<Minus>> \in CStrings /\ Len(<<Minus>>) = 1 /\ <<Minus>>[1] = Minus
    BY <2>1 DEF CStrings, Minus
  <2>4. /\ t \in CStrings /\ Len(t) = 1 + L /\ t[1] = Minus
        /\ \A i \in 1 .. L : t[1 + i] = d[i]
    BY <2>1, <2>2, <2>3 DEF CStrings
  <2>5. SubSeq(t, 2, 1 + L) = d
    <3> DEFINE w == SubSeq(t, 2, 1 + L)
    <3>1. w \in CStrings /\ Len(w) = (1 + L) - 2 + 1 /\ \A i \in 1 .. (1 + L) - 2 + 1 : w[i] = t[2 + i - 1]
      <4>1. 2 \in 1 .. Len(t) + 1 /\ 1 + L \in 2 - 1 .. Len(t)
        BY <2>1, <2>3, <2>4
      <4> QED BY <2>4, <4>1, PartIs DEF CStrings
    <3> HIDE DEF w
    <3>2. (1 + L) - 2 + 1 = L /\ \A i \in 1 .. L : 2 + i - 1 = 1 + i
      BY <2>3
    <3>3. Len(w) = L /\ \A i \in 1 .. L : w[i] = d[i]
      BY <3>1, <3>2, <2>4
    <3>4. w = d
      BY <2>1, <3>1, <3>3 DEF CStrings
    <3> QED BY <3>4 DEF w
  <2>6. \A i \in 2 .. 1 + L : t[i] \in Digits
    <3> TAKE i \in 2 .. 1 + L
    <3>1. i - 1 \in 1 .. L /\ 1 + (i - 1) = i
      BY <2>3
    <3> QED BY <2>1, <2>4, <3>1
  <2>7. BehindSign(t) = 2 /\ SignOf(t) = -1 /\ Unmarked(t, 1) = 2
    <3>1. 1 \in DOMAIN t
      BY <2>3, <2>4 DEF CStrings
    <3> QED BY <2>4, <3>1 DEF BehindSign, SignOf, Unmarked, src_peek
  <2>8. strtol(t, 10) = Got(Saturated((-1) * (-n)), 2 + L)
    <3>1. 2 + L \in BehindSign(t) + 1 .. Len(t) + 1 /\ (2 + L) - 1 = 1 + L
      BY <2>1, <2>3, <2>4, <2>7
    <3>2. 2 + L \notin DOMAIN t
      BY <2>3, <2>4 DEF CStrings
    <3>3. \A i \in BehindSign(t) .. (2 + L) - 1 : t[i] \in Digits
      BY <2>6, <2>7, <3>1
    <3>4. strtol(t, 10) = Got(Saturated(SignOf(t) * Worth(SubSeq(t, BehindSign(t), (2 + L) - 1), 10)), 2 + L)
      BY <2>4, <3>1, <3>2, <3>3, StrtolReads
    <3> QED BY <3>4, <3>1, <2>7, <2>5, <2>1
  <2>9. (-1) * (-n) = n /\ Saturated(n) = n /\ 2 + L = Len(t) + 1
    BY LongsAre, <2>3, <2>4
  <2>10. strtol(t, 10) = Got(n, Len(t) + 1)
    BY <2>8, <2>9
  <2>11. t # <<>> /\ 2 \in Nat /\ Len(t) \in Nat /\ 2 =< Len(t) /\ Counted(t, 2, Len(t))
    <3>1. Len(t) \in Nat /\ Len(t) # 0 /\ 2 =< Len(t)
      BY <2>1, <2>3, <2>4
    <3>2. t = <<>> => Len(t) = 0
      OBVIOUS
    <3> QED BY <3>1, <3>2, <2>4, <2>6 DEF Counted
  <2>12. \E p, q \in Nat : p = Unmarked(t, 1) /\ p =< q /\ q = Len(t) /\ Counted(t, p, q)
    BY <2>7, <2>11
  <2> QED BY <2>4, <2>10, <2>11, <2>12 DEF t
<1>2. CASE ~(n < 0)
  <2>1. /\ n \in 0 .. MaxULong /\ t = Decimal[n] /\ Saturated(n) = n /\ n \in Int
    BY <1>2, LongsAre DEF as_c_string, Signed
  <2> HIDE DEF t
  <2>2. /\ t \in CStrings /\ Len(t) > 0 /\ (\A i \in 1 .. Len(t) : t[i] \in Digits) /\ Worth(t, 10) = n
    BY <2>1, DecimalDigits
  <2>3. Len(t) \in Nat /\ 1 \in DOMAIN t /\ Len(t) + 1 \notin DOMAIN t /\ SubSeq(t, 1, Len(t)) = t
        /\ t[1] \in Digits
    BY <2>2 DEF CStrings
  <2>4. t[1] # Minus /\ t[1] # Plus
    BY <2>3 DEF Digits, Minus, Plus
  <2>5. BehindSign(t) = 1 /\ SignOf(t) = 1 /\ Unmarked(t, 1) = 1
    BY <2>3, <2>4 DEF BehindSign, SignOf, Unmarked, src_peek
  <2>6. strtol(t, 10) = Got(Saturated(1 * n), Len(t) + 1)
    <3> DEFINE e == Len(t) + 1
    <3>1. e \in BehindSign(t) + 1 .. Len(t) + 1 /\ e - 1 = Len(t)
      BY <2>2, <2>3, <2>5
    <3>2. e \notin DOMAIN t
      BY <2>3
    <3> HIDE DEF e
    <3>3. \A i \in BehindSign(t) .. e - 1 : t[i] \in Digits
      BY <2>2, <2>5, <3>1
    <3>4. strtol(t, 10) = Got(Saturated(SignOf(t) * Worth(SubSeq(t, BehindSign(t), e - 1), 10)), e)
      BY <2>2, <3>1, <3>2, <3>3, StrtolReads
    <3> QED BY <3>4, <3>1, <2>5, <2>3, <2>2 DEF e
  <2>7. 1 * n = n
    BY <2>1
  <2>8. t # <<>> /\ 1 =< Len(t) /\ Counted(t, 1, Len(t))
    <3>1. t = <<>> => Len(t) = 0
      OBVIOUS
    <3>2. t # <<>> /\ 1 =< Len(t)
      BY <2>2, <2>3, <3>1
    <3> QED BY <2>2, <3>2 DEF Counted
  <2>9. \E p, q \in Nat : p = Unmarked(t, 1) /\ p =< q /\ q = Len(t) /\ Counted(t, p, q)
    BY <2>3, <2>5, <2>8
  <2> QED BY <2>1, <2>2, <2>6, <2>7, <2>8, <2>9 DEF t
<1> QED BY <1>1, <1>2

\* An unsigned number that a signed one can be is read back, its u behind it.
LEMMA UnsignedReadsBack ==
  ASSUME NEW n \in 0 .. MaxLong
  PROVE  LET t == as_c_string(Unsigned(n))
         IN /\ t \in CStrings /\ t # <<>>
            /\ strtol(t, 10).v = n
            /\ \E p, q \in Nat : /\ p = Unmarked(t, 1) /\ p =< q /\ q = Len(t) - 1
                                 /\ q < Len(t) /\ Counted(t, p, q)
<1> DEFINE t == as_c_string(Unsigned(n))
           d == Decimal[n]
           L == Len(d)
<1>1. n \in 0 .. MaxULong /\ n \in Int /\ Saturated(n) = n
  BY LongsAre
<1>2. d \in CStrings /\ L > 0 /\ (\A i \in 1 .. L : d[i] \in Digits) /\ Worth(d, 10) = n
  BY <1>1, DecimalDigits
<1>3. t = Append(d, SmallU)
  BY DEF as_c_string, Unsigned
<1> HIDE DEF d, t
<1>4. L \in Nat /\ SmallU \in Nat \ {0}
  BY <1>2 DEF CStrings, SmallU
<1>5. /\ t \in CStrings /\ Len(t) = L + 1 /\ t[L + 1] = SmallU
      /\ (\A i \in 1 .. L : t[i] = d[i]) /\ SubSeq(t, 1, L) = d
  BY <1>2, <1>3, <1>4 DEF CStrings
<1>6. 1 \in DOMAIN t /\ L + 1 \in DOMAIN t
  BY <1>4, <1>5 DEF CStrings
<1>7. t[1] \in Digits /\ t[1] # Minus /\ t[1] # Plus
  <2>1. t[1] \in Digits
    BY <1>2, <1>4, <1>5
  <2> QED BY <2>1 DEF Digits, Minus, Plus
<1>8. BehindSign(t) = 1 /\ SignOf(t) = 1 /\ Unmarked(t, 1) = 1
  BY <1>6, <1>7 DEF BehindSign, SignOf, Unmarked, src_peek
<1>9. strtol(t, 10) = Got(Saturated(1 * n), L + 1)
  <2> DEFINE e == L + 1
  <2>1. e \in BehindSign(t) + 1 .. Len(t) + 1 /\ e - 1 = L
    BY <1>2, <1>4, <1>5, <1>8
  <2>2. t[e] \notin Digits
    BY <1>5 DEF Digits, SmallU
  <2> HIDE DEF e
  <2>3. \A i \in BehindSign(t) .. e - 1 : t[i] \in Digits
    BY <1>2, <1>5, <1>8, <2>1
  <2>4. strtol(t, 10) = Got(Saturated(SignOf(t) * Worth(SubSeq(t, BehindSign(t), e - 1), 10)), e)
    BY <1>5, <2>1, <2>2, <2>3, StrtolReads
  <2> QED BY <2>4, <2>1, <1>8, <1>5, <1>2 DEF e
<1>10. strtol(t, 10).v = n
  <2>1. 1 * n = n
    BY <1>1
  <2> QED BY <1>1, <1>9, <2>1 DEF Got
<1>11. t # <<>> /\ 1 =< L /\ L = Len(t) - 1 /\ L < Len(t)
  <2>1. t = <<>> => Len(t) = 0
    OBVIOUS
  <2> QED BY <1>2, <1>4, <1>5, <2>1
<1>12. Counted(t, 1, L)
  <2>1. t[Len(t)] \in LetterU
    BY <1>5 DEF LetterU
  <2> QED BY <1>2, <1>5, <1>4, <2>1 DEF Counted
<1>13. \E p, q \in Nat : /\ p = Unmarked(t, 1) /\ p =< q /\ q = Len(t) - 1
                         /\ q < Len(t) /\ Counted(t, p, q)
  BY <1>4, <1>8, <1>11, <1>12
<1> QED BY <1>5, <1>10, <1>11, <1>13 DEF t

\* The casts between signed and unsigned numbers undo each other.
LEMMA CastsUndo ==
  ASSUME NEW n \in Longs
  PROVE  native_cast_uint_to_int(native_cast_int_to_uint(Signed(n))) = Signed(n)
<1> DEFINE m == MaxULong + 1
           u == n % m
<1>1. /\ m \in Nat \ {0} /\ m = 2 * MaxLong + 2 /\ MaxLong \in Nat /\ n \in Int
      /\ -MaxLong - 1 =< n /\ n =< MaxLong
  BY LongsAre DEF Longs
<1>2. u = IF n < 0 THEN n + m ELSE n
  <2>1. CASE n < 0
    <3>1. n + m \in 0 .. m - 1 /\ m * (-1) + (n + m) = n
      BY <1>1, <2>1
    <3> HIDE DEF m
    <3>2. (m * (-1) + (n + m)) % m = n + m
      BY <1>1, <3>1, Remainder
    <3> QED BY <2>1, <3>1, <3>2
  <2>2. CASE ~(n < 0)
    <3>1. n \in 0 .. m - 1 /\ m * 0 + n = n
      BY <1>1, <2>2
    <3> HIDE DEF m
    <3>2. (m * 0 + n) % m = n
      BY <1>1, <3>1, Remainder
    <3> QED BY <2>2, <3>1, <3>2
  <2> QED BY <2>1, <2>2
<1>3. native_cast_int_to_uint(Signed(n)) = Unsigned(u)
  BY DEF native_cast_int_to_uint, Signed
<1>4. native_cast_uint_to_int(Unsigned(u)) = Signed(IF u > MaxLong THEN u - MaxULong - 1 ELSE u)
  BY DEF native_cast_uint_to_int, Unsigned
<1> HIDE DEF u
<1>5. (IF u > MaxLong THEN u - MaxULong - 1 ELSE u) = n
  <2>1. MaxULong \in Nat
    BY LongsAre
  <2> QED BY <1>1, <1>2, <2>1
<1> QED BY <1>3, <1>4, <1>5

LEMMA NumberInvHolds == NumberSpec => []NumberInv
<1>1. NumberInit => NumberInv
  <2> SUFFICES ASSUME NumberInit PROVE NumberInv
    OBVIOUS
  <2>1. CASE \E n \in Longs : number = Signed(n)
    <3>1. PICK n \in Longs : number = Signed(n)
      BY <2>1
    <3>2. literal = as_c_string(Signed(n))
      BY <3>1 DEF NumberInit
    <3> QED BY <3>1, <3>2, PrintsText DEF NumberInv, PrintedNumber
  <2>2. CASE \E n \in 0 .. MaxULong : number = Unsigned(n)
    <3>1. PICK n \in 0 .. MaxULong : number = Unsigned(n)
      BY <2>2
    <3>2. literal = as_c_string(Unsigned(n))
      BY <3>1 DEF NumberInit
    <3> QED BY <3>1, <3>2, PrintsText DEF NumberInv, PrintedNumber
  <2> QED BY <2>1, <2>2 DEF NumberInit, Printable, Longs
<1>2. NumberInv /\ [Grow]_number_vars => NumberInv'
  <2> SUFFICES ASSUME NumberInv, [Grow]_number_vars PROVE NumberInv'
    OBVIOUS
  <2>1. CASE Grow
    <3>1. PICK c \in LiteralChars : literal' = Append(literal, c)
      BY <2>1 DEF Grow
    <3>2. c \in Nat \ {0}
      BY NumberConstants
    <3>3. literal' \in CStrings
      BY <3>1, <3>2 DEF NumberInv, CStrings
    <3>4. number' = Unprinted
      BY <2>1 DEF Grow
    <3> QED BY <3>3, <3>4 DEF NumberInv, PrintedNumber
  <2>2. CASE UNCHANGED number_vars
    BY <2>2 DEF number_vars, NumberInv, PrintedNumber
  <2> QED BY <2>1, <2>2
<1> QED BY <1>1, <1>2, PTL DEF NumberSpec

LEMMA PrintedIsReadBack == NumberInv => PrintedReadsBack
<1> SUFFICES ASSUME NumberInv, number # Unprinted
             PROVE  /\ Len(literal) < MaxNumberDigits /\ (number.ty = "uint" => number.n <= MaxLong) =>
                         parse_number(literal, 1) = Got(number, Len(literal) + 1)
                    /\ number.ty = "int" =>
                         /\ native_cast_int(literal) = number
                         /\ native_cast_uint_to_int(native_cast_int_to_uint(number)) = number
  BY DEF PrintedReadsBack
<1> DEFINE t == literal
<1>1. t \in CStrings /\ Len(t) \in Nat /\ literal = as_c_string(number)
  BY DEF NumberInv, PrintedNumber, CStrings
<1>2. Len(t) < MaxNumberDigits => ~(Len(t) >= MaxNumberDigits)
  BY <1>1, NumberConstants
<1>3. CASE \E n \in Longs : number = Signed(n)
  <2>1. PICK n \in Longs : number = Signed(n)
    BY <1>3
  <2>2. number.ty = "int" /\ n \in Int
    BY <2>1, LongsAre DEF Signed
  <2>3. t # <<>> /\ strtol(t, 10) = Got(n, Len(t) + 1)
    BY <1>1, <2>1, SignedReadsBack
  <2>4. PICK p, q \in Nat : p = Unmarked(t, 1) /\ p =< q /\ q = Len(t) /\ Counted(t, p, q)
    BY <1>1, <2>1, SignedReadsBack
  <2>5. q =< Len(t) /\ q >= Len(t) - 1 /\ ~(q < Len(t))
    BY <1>1, <2>4
  <2>6. strtol(t, 10).v = n /\ strtol(t, 10).p = Len(t) + 1
    BY <2>3 DEF Got
  <2>7. Len(t) < MaxNumberDigits => parse_number(t, 1) = Got(number, Len(t) + 1)
    BY <1>1, <1>2, <2>1, <2>3, <2>4, <2>5, <2>6, ParsesDigits
  <2>8. native_cast_int(t) = Signed(n)
    <3>1. Len(t) + 1 \notin DOMAIN t
      BY <1>1 DEF CStrings
    <3> QED BY <2>6, <3>1 DEF native_cast_int, src_peek
  <2> QED BY <2>1, <2>7, <2>8, CastsUndo
<1>4. CASE \E n \in 0 .. MaxULong : number = Unsigned(n)
  <2>1. PICK n \in 0 .. MaxULong : number = Unsigned(n)
    BY <1>4
  <2>2. number.ty = "uint" /\ number.n = n
    BY <2>1 DEF Unsigned
  <2>3. SUFFICES ASSUME Len(t) < MaxNumberDigits, n <= MaxLong
                 PROVE  parse_number(t, 1) = Got(number, Len(t) + 1)
    BY <2>2
  <2>4. n \in 0 .. MaxLong /\ n \in Int
    BY <2>3, LongsAre
  <2>5. t # <<>> /\ strtol(t, 10).v = n
    BY <1>1, <2>1, <2>4, UnsignedReadsBack
  <2>6. PICK p, q \in Nat : /\ p = Unmarked(t, 1) /\ p =< q /\ q = Len(t) - 1
                            /\ q < Len(t) /\ Counted(t, p, q)
    BY <1>1, <2>1, <2>4, UnsignedReadsBack
  <2>7. q =< Len(t) /\ q >= Len(t) - 1
    BY <1>1, <2>6
  <2>8. parse_number(t, 1) = Got(Unsigned(IF n > 0 THEN n ELSE -n), Len(t) + 1)
    BY <1>1, <1>2, <2>3, <2>5, <2>6, <2>7, ParsesDigits
  <2>9. (IF n > 0 THEN n ELSE -n) = n
    BY <2>4
  <2> QED BY <2>1, <2>8, <2>9
<1> QED BY <1>3, <1>4 DEF NumberInv, PrintedNumber

LEMMA LiteralsDoEndAlike == NumberInv => LiteralsEndAlike
<1> DEFINE t == literal
           marks == {i \in DOMAIN t : t[i] \in NumberMarks}
           read == parse_number(t, 1)
<1> SUFFICES ASSUME NumberInv, StartsNumber(t, 1), t[1] # Plus
             PROVE  /\ Cardinality(marks) <= 1 => skip_number(t, 1) = read.p
                    /\ native_cast_int(t).ty = "int" /\ read.v # Aborted => native_cast_int(t) = read.v
  BY DEF LiteralsEndAlike
<1>1. t \in CStrings /\ Len(t) \in Nat /\ DOMAIN t = 1 .. Len(t)
  BY DEF NumberInv, CStrings
<1>2. t # <<>>
  <2>1. SUFFICES ASSUME t = <<>> PROVE FALSE
    OBVIOUS
  <2>2. src_peek(t, 1) = 0
    BY <2>1 DEF src_peek
  <2> QED BY <2>2 DEF StartsNumber, Digits, Minus, Plus
<1>3. ASSUME Cardinality(marks) <= 1 PROVE skip_number(t, 1) = read.p
  <2>1. IsFiniteSet(marks) /\ Cardinality(marks) \in Nat
    <3>1. IsFiniteSet(1 .. Len(t)) /\ marks \subseteq 1 .. Len(t)
      BY <1>1, FS_Interval
    <3>2. IsFiniteSet(marks)
      BY <3>1, FS_Subset
    <3> QED BY <3>2, FS_CardinalityType
  <2>2. ASSUME NEW i \in marks, NEW j \in marks PROVE i = j
    <3>1. SUFFICES ASSUME i # j PROVE FALSE
      OBVIOUS
    <3>2. marks \ {i} # {}
      BY <2>2, <3>1
    <3> HIDE DEF marks
    <3>3. Cardinality(marks \ {i}) = Cardinality(marks) - 1 /\ IsFiniteSet(marks \ {i})
      BY <2>1, <2>2, FS_RemoveElement
    <3>4. Cardinality(marks \ {i}) \in Nat
      BY <3>3, FS_CardinalityType
    <3>5. Cardinality(marks \ {i}) = 0
      BY <1>3, <2>1, <3>3, <3>4
    <3> QED BY <3>2, <3>3, <3>5, FS_EmptySet
  <2>3. \A i, j \in 1 .. Len(t) : t[i] \in NumberMarks /\ t[j] \in NumberMarks => i = j
    BY <1>1, <2>2
  <2> QED BY <1>1, <1>2, <2>3, SkipsAlike
<1>4. ASSUME native_cast_int(t).ty = "int", read.v # Aborted PROVE native_cast_int(t) = read.v
  <2>1. src_peek(t, strtol(t, 10).p) = 0
    BY <1>4 DEF native_cast_int, BadPart
  <2>2. native_cast_int(t) = Signed(strtol(t, 10).v)
    BY <2>1 DEF native_cast_int
  <2> DEFINE p == Unmarked(t, 1)
             q == Len(t)
  <2>3. p = BehindSign(t)
    BY <1>1, <1>2, ScanStarts
  <2>4. p \in 1 .. Len(t) /\ \A i \in p .. Len(t) : t[i] \in Digits
    BY <1>1, <1>2, <2>1, <2>3, StrtolReadsAll
  <2>5. p \in Nat /\ p =< q /\ q =< Len(t) /\ q >= Len(t) - 1 /\ ~(q < Len(t))
    BY <1>1, <2>4
  <2>6. Counted(t, p, q)
    BY <2>4 DEF Counted
  <2>7. parse_number(t, 1) = Got(IF Len(t) >= MaxNumberDigits THEN Aborted ELSE Signed(strtol(t, 10).v), Len(t) + 1)
    <3> HIDE DEF p
    <3>1. p = Unmarked(t, 1)
      BY DEF p
    <3> QED BY <1>1, <1>2, <2>5, <2>6, <3>1, ParsesDigits
  <2>8. read.v = Signed(strtol(t, 10).v)
    BY <1>4, <2>7 DEF Got
  <2> QED BY <2>2, <2>8
<1> QED BY <1>3, <1>4

\* Whatever integers there are and whatever a text grows by: a number that is printed is
\* read back as itself, and a literal ends where it is skipped to (parse_number,
\* skip_primary and as_c_string in mila.c).
THEOREM NumbersAreReadBack == NumberSpec => []NumbersReadBack
<1>1. NumberInv => NumbersReadBack
  BY PrintedIsReadBack, LiteralsDoEndAlike DEF NumbersReadBack
<1> QED BY <1>1, NumberInvHolds, PTL

-----------------------------------------------------------------------------
(* Strings: what the states of substitution are, and where its turns end.     *)

States == {"out", "lit", "esc", "in", "hole"} \X Nat

LEMMA HolesAre ==
  /\ OpenBlock \in Texts0 /\ Len(OpenBlock) = 2 /\ OpenBlock[1] = Bang /\ OpenBlock[2] = Brace
  /\ Hole \in Texts0 /\ Len(Hole) = Len(Name) + 3 /\ Hole[1] = Dollar
  /\ Hole[Len(Name) + 3] = Unbrace
  /\ PlainHole \in Texts0 /\ Len(PlainHole) = Len(Name) + 4 /\ PlainHole[1] = Dollar
  /\ PlainHole[Len(Name) + 3] = Bang
  /\ Len(Name) \in Nat
<1> DEFINE k == Len(Name)
           a == <<Dollar, Brace>>
           b == <<Unbrace>>
           c == <<Bang, Unbrace>>
           d == a \o Name
<1>1. /\ Dollar \in Chars0 /\ Brace \in Chars0 /\ Unbrace \in Chars0 /\ Bang \in Chars0
  BY DEF Dollar, Brace, Unbrace, Bang, Chars0
<1>2. OpenBlock \in Texts0 /\ Len(OpenBlock) = 2 /\ OpenBlock[1] = Bang /\ OpenBlock[2] = Brace
  BY <1>1 DEF OpenBlock, Texts0
<1>3. /\ a \in Texts0 /\ Len(a) = 2 /\ a[1] = Dollar
      /\ b \in Texts0 /\ Len(b) = 1 /\ b[1] = Unbrace
      /\ c \in Texts0 /\ Len(c) = 2 /\ c[1] = Bang /\ c[2] = Unbrace
  BY <1>1 DEF Texts0
<1>4. Name \in Texts0 /\ k \in Nat
  BY TextConstants DEF Texts0, Chars0
<1>5. Hole = d \o b /\ PlainHole = d \o c
  BY DEF Hole, PlainHole
<1> HIDE DEF a, b, c
<1>6. /\ d \in Texts0 /\ Len(d) = 2 + k /\ d[1] = Dollar
  <2>1. /\ d \in Seq(Chars0) /\ Len(d) = Len(a) + Len(Name)
        /\ \A i \in 1 .. Len(a) + Len(Name) : d[i] = IF i <= Len(a) THEN a[i] ELSE Name[i - Len(a)]
    BY <1>3, <1>4, ConcatProperties DEF Texts0
  <2>2. 1 \in 1 .. Len(a) + Len(Name) /\ 1 <= Len(a)
    BY <1>3, <1>4
  <2> HIDE DEF d
  <2> QED BY <1>3, <1>4, <2>1, <2>2 DEF Texts0
<1> HIDE DEF d
<1>7. ASSUME NEW e \in Texts0, Len(e) \in Nat \ {0}
      PROVE  /\ d \o e \in Texts0 /\ Len(d \o e) = 2 + k + Len(e)
             /\ (d \o e)[1] = Dollar /\ (d \o e)[k + 3] = e[1]
  <2> DEFINE h == d \o e
  <2>1. /\ h \in Seq(Chars0) /\ Len(h) = Len(d) + Len(e)
        /\ \A i \in 1 .. Len(d) + Len(e) : h[i] = IF i <= Len(d) THEN d[i] ELSE e[i - Len(d)]
    BY <1>6, ConcatProperties DEF Texts0
  <2>2. 1 \in 1 .. Len(d) + Len(e) /\ 1 <= Len(d) /\ k + 3 \in 1 .. Len(d) + Len(e) /\ ~(k + 3 <= Len(d)) /\ k + 3 - Len(d) = 1
    BY <1>4, <1>6, <1>7
  <2> HIDE DEF h
  <2>3. h[1] = d[1] /\ h[k + 3] = e[k + 3 - Len(d)]
    BY <2>1, <2>2
  <2>4. h \in Texts0 /\ Len(h) = 2 + k + Len(e) /\ h[1] = Dollar /\ h[k + 3] = e[1]
    BY <1>6, <2>1, <2>2, <2>3 DEF Texts0
  <2> QED BY <2>4 DEF h
<1>8. /\ Hole \in Texts0 /\ Len(Hole) = 2 + k + 1 /\ Hole[1] = Dollar /\ Hole[k + 3] = Unbrace
  <2>1. b \in Texts0 /\ Len(b) \in Nat \ {0} /\ Len(b) = 1 /\ b[1] = Unbrace
    BY <1>3
  <2>2. /\ d \o b \in Texts0 /\ Len(d \o b) = 2 + k + Len(b)
        /\ (d \o b)[1] = Dollar /\ (d \o b)[k + 3] = b[1]
    BY <1>7, <2>1
  <2> QED BY <1>5, <2>1, <2>2
<1>9. /\ PlainHole \in Texts0 /\ Len(PlainHole) = 2 + k + 2 /\ PlainHole[1] = Dollar /\ PlainHole[k + 3] = Bang
  <2>1. c \in Texts0 /\ Len(c) \in Nat \ {0} /\ Len(c) = 2 /\ c[1] = Bang
    BY <1>3
  <2>2. /\ d \o c \in Texts0 /\ Len(d \o c) = 2 + k + Len(c)
        /\ (d \o c)[1] = Dollar /\ (d \o c)[k + 3] = c[1]
    BY <1>7, <2>1
  <2> QED BY <1>5, <2>1, <2>2
<1> QED BY <1>2, <1>4, <1>8, <1>9

\* What stands at a position ends in the string.
LEMMA StandsIn ==
  ASSUME NEW t \in Texts0, NEW n \in Texts0, NEW p \in 1 .. EndOf(t), StandsAt(n, t, p)
  PROVE  /\ p + Len(n) \in p .. EndOf(t)
         /\ \A i \in 1 .. Len(n) : p + i - 1 \in 1 .. Len(t) /\ t[p + i - 1] = n[i]
<1>1. /\ Len(t) \in Nat /\ EndOf(t) = Len(t) + 1 /\ DOMAIN n = 1 .. Len(n) /\ Len(n) \in Nat
      /\ \A i \in 1 .. Len(n) : n[i] # 0
  BY TextIs
<1>2. ASSUME NEW i \in 1 .. Len(n) PROVE p + i - 1 \in 1 .. Len(t) /\ t[p + i - 1] = n[i]
  <2>1. CharAt(t, p + i - 1) = n[i] /\ n[i] # 0
    BY <1>1 DEF StandsAt
  <2> QED BY <2>1 DEF CharAt
<1>3. p + Len(n) \in p .. EndOf(t)
  <2>1. CASE Len(n) = 0
    BY <1>1, <2>1
  <2>2. CASE Len(n) # 0
    <3>1. Len(n) \in 1 .. Len(n)
      BY <1>1, <2>2
    <3>2. p + Len(n) - 1 \in 1 .. Len(t)
      BY <1>2, <3>1
    <3> QED BY <1>1, <3>2
  <2> QED BY <2>1, <2>2
<1> QED BY <1>2, <1>3

\* At most one of the things that substitution looks for stands at a position.
LEMMA OneStands ==
  ASSUME NEW t \in Texts0, NEW p \in 1 .. Len(t)
  PROVE  /\ StandsAt(OpenBlock, t, p) => p + 1 \in 1 .. Len(t) /\ t[p] = Bang /\ t[p + 1] = Brace
         /\ StandsAt(Hole, t, p) => t[p] = Dollar /\ ~StandsAt(PlainHole, t, p)
         /\ StandsAt(PlainHole, t, p) => t[p] = Dollar
<1>1. /\ Len(t) \in Nat /\ EndOf(t) = Len(t) + 1 /\ p \in 1 .. EndOf(t)
  BY TextIs
<1> DEFINE k == Len(Name)
<1>2. k \in Nat
  BY HolesAre
<1>3. StandsAt(OpenBlock, t, p) => p + 1 \in 1 .. Len(t) /\ t[p] = Bang /\ t[p + 1] = Brace
  <2> SUFFICES ASSUME StandsAt(OpenBlock, t, p) PROVE p + 1 \in 1 .. Len(t) /\ t[p] = Bang /\ t[p + 1] = Brace
    OBVIOUS
  <2>1. \A i \in 1 .. 2 : p + i - 1 \in 1 .. Len(t) /\ t[p + i - 1] = OpenBlock[i]
    <3>1. \A i \in 1 .. Len(OpenBlock) : p + i - 1 \in 1 .. Len(t) /\ t[p + i - 1] = OpenBlock[i]
      BY <1>1, HolesAre, StandsIn
    <3> QED BY <3>1, HolesAre
  <2>2. p + 1 - 1 = p /\ p + 2 - 1 = p + 1
    OBVIOUS
  <2>3. t[p + 1 - 1] = OpenBlock[1] /\ p + 2 - 1 \in 1 .. Len(t) /\ t[p + 2 - 1] = OpenBlock[2]
    BY <2>1
  <2> QED BY <2>2, <2>3, HolesAre
<1>4. StandsAt(Hole, t, p) => t[p] = Dollar /\ t[p + k + 2] = Unbrace
  <2> SUFFICES ASSUME StandsAt(Hole, t, p) PROVE t[p] = Dollar /\ t[p + k + 2] = Unbrace
    OBVIOUS
  <2>1. \A i \in 1 .. k + 3 : t[p + i - 1] = Hole[i]
    BY <1>1, HolesAre, StandsIn
  <2>2. p + 1 - 1 = p /\ p + (k + 3) - 1 = p + k + 2 /\ 1 \in 1 .. k + 3 /\ k + 3 \in 1 .. k + 3
    BY <1>2
  <2>3. t[p + 1 - 1] = Hole[1] /\ t[p + (k + 3) - 1] = Hole[k + 3]
    BY <2>1, <2>2
  <2> QED BY <2>2, <2>3, HolesAre
<1>5. StandsAt(PlainHole, t, p) => t[p] = Dollar /\ t[p + k + 2] = Bang
  <2> SUFFICES ASSUME StandsAt(PlainHole, t, p) PROVE t[p] = Dollar /\ t[p + k + 2] = Bang
    OBVIOUS
  <2>1. \A i \in 1 .. k + 4 : t[p + i - 1] = PlainHole[i]
    BY <1>1, HolesAre, StandsIn
  <2>2. p + 1 - 1 = p /\ p + (k + 3) - 1 = p + k + 2 /\ 1 \in 1 .. k + 4 /\ k + 3 \in 1 .. k + 4
    BY <1>2
  <2>3. t[p + 1 - 1] = PlainHole[1] /\ t[p + (k + 3) - 1] = PlainHole[k + 3]
    BY <2>1, <2>2
  <2> QED BY <2>2, <2>3, HolesAre
<1>6. Bang # Unbrace
  BY DEF Bang, Unbrace
<1> QED BY <1>3, <1>4, <1>5, <1>6

\* Every character is met in a state.
LEMMA StatesAre ==
  ASSUME NEW t \in Texts0
  PROVE  /\ StatesOf(t) \in [0 .. Len(t) -> States]
         /\ StatesOf(t)[0] = <<"out", 0>>
         /\ \A p \in 1 .. Len(t) : StatesOf(t)[p] = AfterChar(StatesOf(t)[p - 1], t, p)
<1> DEFINE n == Len(t)
           G == [p \in 1 .. n |-> [m \in States |-> AfterChar(m, t, p)]]
           Rec(h) == h = [p \in 0 .. n |-> IF p = 0 THEN <<"out", 0>> ELSE AfterChar(h[p - 1], t, p)]
           H == CHOOSE h : Rec(h)
<1>1. n \in Nat /\ <<"out", 0>> \in States
  BY TextIs DEF States
<1>2. StatesOf(t) = H
  BY DEF StatesOf
<1> HIDE DEF n
<1>3. ASSUME NEW m \in States, NEW p \in 1 .. n PROVE AfterChar(m, t, p) \in States
  <2>1. Len(Hole) - 1 \in Nat /\ Len(PlainHole) - 1 \in Nat
    BY HolesAre
  <2>2. m[2] \in Nat /\ m = <<m[1], m[2]>> /\ m[1] \in {"out", "lit", "esc", "in", "hole"}
    BY DEF States
  <2>3. (m[2] > 1 => m[2] - 1 \in Nat) /\ m[2] + 1 \in Nat
    BY <2>2
  <2>4. \A x \in {"out", "lit", "esc", "in", "hole"}, y \in Nat : <<x, y>> \in States
    BY DEF States
  <2>5. AfterChar(m, t, p) \in
          {m, <<"lit", 0>>, <<"in", 0>>, <<"hole", Len(Hole) - 1>>, <<"hole", Len(PlainHole) - 1>>,
           <<"esc", 0>>, <<"out", 0>>, <<"in", m[2] + 1>>}
             \cup (IF m[2] > 1 THEN {<<"in", m[2] - 1>>, <<"hole", m[2] - 1>>} ELSE {})
    BY DEF AfterChar
  <2> QED BY <2>1, <2>2, <2>3, <2>4, <2>5
<1>4. G \in [1 .. n -> [States -> States]]
  BY <1>3
<1>5. PICK F : Loop(F, States, n, <<"out", 0>>, G)
  <2> HIDE DEF G
  <2> QED BY <1>1, <1>4, Loops
<1>6. /\ F \in [0 .. n -> States] /\ F[0] = <<"out", 0>>
      /\ \A p \in 1 .. n : F[p] = G[p][F[p - 1]]
  <2> HIDE DEF G
  <2> QED BY <1>5 DEF Loop
<1>7. \A p \in 1 .. n : F[p] = AfterChar(F[p - 1], t, p)
  <2> TAKE p \in 1 .. n
  <2>1. F[p - 1] \in States
    <3>1. p - 1 \in 0 .. n
      BY <1>1
    <3> QED BY <1>6, <3>1
  <2> QED BY <1>6, <2>1
<1> HIDE DEF G
<1>8. Rec(F)
  <2>1. \A p \in 0 .. n : F[p] = IF p = 0 THEN <<"out", 0>> ELSE AfterChar(F[p - 1], t, p)
    <3> TAKE p \in 0 .. n
    <3>1. p # 0 => p \in 1 .. n
      BY <1>1
    <3> QED BY <1>6, <1>7, <3>1
  <2> QED BY <1>6, <2>1
<1>9. Rec(H)
  <2> HIDE DEF Rec
  <2> QED BY <1>8
<1> HIDE DEF H
<1> DEFINE Bad == {p \in 0 .. n : H[p] # F[p]}
<1>10. \A p \in 0 .. n : H[p] = IF p = 0 THEN <<"out", 0>> ELSE AfterChar(H[p - 1], t, p)
  BY <1>9
<1>11. Bad = {}
  <2>1. 0 \notin Bad
    <3>1. 0 \in 0 .. n
      BY <1>1
    <3> QED BY <1>6, <1>10, <3>1
  <2>2. ASSUME NEW p \in 1 .. n, p - 1 \notin Bad PROVE p \notin Bad
    <3>1. p - 1 \in 0 .. n /\ p \in 0 .. n /\ p # 0
      BY <1>1
    <3>2. H[p - 1] = F[p - 1]
      BY <2>2, <3>1
    <3>3. H[p] = AfterChar(H[p - 1], t, p)
      BY <1>10, <3>1
    <3> QED BY <1>7, <3>2, <3>3
  <2>3. Bad \in SUBSET (0 .. n)
    OBVIOUS
  <2> HIDE DEF Bad
  <2> QED BY <1>1, <2>1, <2>2, <2>3, NoFirst
<1>12. H = F
  <2>1. H = [p \in 0 .. n |-> H[p]]
    BY <1>9
  <2>2. \A p \in 0 .. n : H[p] = F[p]
    BY <1>11
  <2>3. F = [p \in 0 .. n |-> F[p]]
    BY <1>6
  <2> QED BY <2>1, <2>2, <2>3
<1> QED BY <1>2, <1>6, <1>7, <1>12 DEF n

LEMMA LiteralIs ==
  ASSUME NEW t \in Texts0
  PROVE  \A p \in 1 .. EndOf(t) :
           AfterLiteral(t, p) =
             (IF p = EndOf(t) THEN p ELSE IF t[p] = Quote THEN p + 1
              ELSE AfterLiteral(t, NextChar(t, p)))
<1> DEFINE n == EndOf(t)
           Body(h, i) == IF i = n THEN i ELSE IF t[i] = Quote THEN i + 1 ELSE h[NextChar(t, i)]
           Rec(h) == h = [i \in 1 .. n |-> Body(h, i)]
           G == [f \in [1 .. n -> Nat] |-> [i \in 1 .. n |-> Body(f, i)]]
           F == CHOOSE h : Rec(h)
<1>1. n \in Nat \ {0} /\ n = Len(t) + 1
  BY TextIs
<1>2. \A i \in 1 .. n : i # n => NextChar(t, i) \in i + 1 .. n /\ NextChar(t, i) \in 1 .. n
  <2> TAKE i \in 1 .. n
  <2>1. i # n => i \in 1 .. Len(t)
    BY <1>1
  <2> QED BY <1>1, <2>1, NextCharIs
<1>3. \A p : AfterLiteral(t, p) = F[p]
  BY DEF AfterLiteral
<1> HIDE DEF n
<1>4. \A f \in [1 .. n -> Nat], i \in 1 .. n : Body(f, i) \in Nat
  BY <1>2
<1>5. \A f, g \in [1 .. n -> Nat], i \in 1 .. n : (\A k \in i + 1 .. n : f[k] = g[k]) => Body(f, i) = Body(g, i)
  BY <1>2
<1>6. G \in [[1 .. n -> Nat] -> [1 .. n -> Nat]]
  <2> HIDE DEF Body
  <2> QED BY <1>4
<1>7. FromLater(G, n, Nat)
  <2> HIDE DEF Body
  <2> QED BY <1>5 DEF FromLater
<1>8. PICK f \in [1 .. n -> Nat] : G[f] = f
  <2> HIDE DEF G
  <2>1. Nat # {}
    OBVIOUS
  <2> HIDE DEF Body, Rec
  <2>2. n \in Nat
    BY <1>1
  <2>3. Turns(G, n, Nat)
    BY <1>6, <1>7, <2>1, <2>2 DEF Turns
  <2> QED BY <2>3, Descends
<1>9. Rec(f)
  <2> HIDE DEF Body
  <2> QED BY <1>8
<1>10. Rec(F)
  <2> HIDE DEF Rec
  <2> QED BY <1>9
<1> HIDE DEF F
<1>11. \A i \in 1 .. n : F[i] = Body(F, i)
  <2> HIDE DEF Body
  <2> QED BY <1>10
<1> QED BY <1>3, <1>11 DEF n

\* Where AfterBraces goes from q in so many braces.
IsBraces(B, t) ==
  \A q \in 1 .. EndOf(t), depth \in Nat \ {0} :
    B[q][depth] =
      (IF q = EndOf(t) THEN q
       ELSE IF t[q] = Unbrace /\ depth = 1 THEN q + 1
       ELSE B[q + 1][IF t[q] = Brace THEN depth + 1 ELSE IF t[q] = Unbrace THEN depth - 1 ELSE depth])

LEMMA BracesAre ==
  ASSUME NEW t \in Texts0
  PROVE  \E B : IsBraces(B, t) /\ \A p : AfterBraces(t, p) = B[p][1]
<1> DEFINE n == EndOf(t)
           Deep == Nat \ {0}
           V == [Deep -> Nat]
           Next1(q, depth) == CASE t[q] = Brace -> depth + 1
                              [] t[q] = Unbrace -> depth - 1
                              [] OTHER -> depth
           At(h, q, depth) == IF q = n THEN q ELSE IF t[q] = Unbrace /\ depth = 1 THEN q + 1
                              ELSE h[q + 1][Next1(q, depth)]
           Body(h, q) == [depth \in Deep |-> At(h, q, depth)]
           Rec(h) == h = [q \in 1 .. n |-> Body(h, q)]
           G == [f \in [1 .. n -> V] |-> [q \in 1 .. n |-> Body(f, q)]]
           F == CHOOSE h : Rec(h)
<1>1. n \in Nat \ {0} /\ n = Len(t) + 1
  BY TextIs
<1>2. \A p : AfterBraces(t, p) = F[p][1]
  BY DEF AfterBraces
<1> HIDE DEF n
<1>3. Brace # Unbrace
  BY DEF Brace, Unbrace
<1>4. \A q, depth : Next1(q, depth) = IF t[q] = Brace THEN depth + 1 ELSE IF t[q] = Unbrace THEN depth - 1 ELSE depth
  BY <1>3
<1> HIDE DEF Next1
<1>5. ASSUME NEW q \in 1 .. n, q # n, NEW depth \in Deep, ~(t[q] = Unbrace /\ depth = 1)
      PROVE  q + 1 \in q + 1 .. n /\ q + 1 \in 1 .. n /\ Next1(q, depth) \in Deep
  BY <1>1, <1>4, <1>5
<1> HIDE DEF Deep
<1>6. ASSUME NEW f \in [1 .. n -> V], NEW q \in 1 .. n, NEW depth \in Deep PROVE At(f, q, depth) \in Nat
  <2>1. CASE q = n \/ (t[q] = Unbrace /\ depth = 1)
    BY <1>1, <2>1
  <2>2. CASE ~(q = n \/ (t[q] = Unbrace /\ depth = 1))
    <3>1. q + 1 \in 1 .. n /\ Next1(q, depth) \in Deep
      BY <1>5, <2>2
    <3>2. f[q + 1] \in V
      <4> HIDE DEF V
      <4> QED BY <3>1
    <3> QED BY <2>2, <3>1, <3>2
  <2> QED BY <2>1, <2>2
<1>7. ASSUME NEW f \in [1 .. n -> V], NEW g \in [1 .. n -> V], NEW q \in 1 .. n,
             \A k \in q + 1 .. n : f[k] = g[k]
      PROVE  Body(f, q) = Body(g, q)
  <2>1. ASSUME NEW depth \in Deep PROVE At(f, q, depth) = At(g, q, depth)
    <3>1. CASE q = n \/ (t[q] = Unbrace /\ depth = 1)
      BY <3>1
    <3>2. CASE ~(q = n \/ (t[q] = Unbrace /\ depth = 1))
      <4>1. q + 1 \in q + 1 .. n
        BY <1>5, <3>2
      <4>2. f[q + 1] = g[q + 1]
        BY <1>7, <4>1
      <4> QED BY <3>2, <4>2
    <3> QED BY <3>1, <3>2
  <2> HIDE DEF At
  <2> QED BY <2>1
<1>8. \A f \in [1 .. n -> V], q \in 1 .. n : Body(f, q) \in V
  <2> HIDE DEF At
  <2> QED BY <1>6
<1> HIDE DEF Body
<1>9. G \in [[1 .. n -> V] -> [1 .. n -> V]]
  <2> HIDE DEF V
  <2> QED BY <1>8
<1>10. FromLater(G, n, V)
  <2> HIDE DEF V
  <2>1. \A f, g \in [1 .. n -> V], q \in 1 .. n : (\A k \in q + 1 .. n : f[k] = g[k]) => Body(f, q) = Body(g, q)
    BY <1>7
  <2> QED BY <2>1 DEF FromLater
<1>11. PICK f \in [1 .. n -> V] : G[f] = f
  <2>1. [d \in Deep |-> 0] \in V
    OBVIOUS
  <2>2. V # {} /\ n \in Nat
    <3> HIDE DEF V
    <3> QED BY <1>1, <2>1
  <2> HIDE DEF G, V
  <2>3. Turns(G, n, V)
    BY <1>9, <1>10, <2>2 DEF Turns
  <2> QED BY <2>3, Descends
<1>12. Rec(f)
  <2> HIDE DEF V
  <2> QED BY <1>11
<1>13. Rec(F)
  <2> HIDE DEF Rec
  <2> QED BY <1>12
<1> HIDE DEF F
<1>14. ASSUME NEW q \in 1 .. n, NEW depth \in Deep PROVE F[q][depth] = At(F, q, depth)
  <2>1. F[q] = Body(F, q)
    BY <1>13
  <2> HIDE DEF At
  <2> QED BY <2>1 DEF Body
<1>15. IsBraces(F, t)
  <2>1. \A q \in 1 .. n, depth \in Deep : F[q][depth] =
          (IF q = n THEN q ELSE IF t[q] = Unbrace /\ depth = 1 THEN q + 1
           ELSE F[q + 1][IF t[q] = Brace THEN depth + 1 ELSE IF t[q] = Unbrace THEN depth - 1 ELSE depth])
    BY <1>4, <1>14
  <2> QED BY <2>1 DEF n, Deep, IsBraces
<1> QED BY <1>2, <1>15

-----------------------------------------------------------------------------
(* How the states go on.                                                      *)

LEMMA InCode ==
  ASSUME NEW t \in Texts0, NEW p \in 1 .. Len(t)
  PROVE  AfterChar(<<"out", 0>>, t, p) =
           (IF t[p] = Quote THEN <<"lit", 0>>
            ELSE IF StandsAt(OpenBlock, t, p) THEN <<"in", 0>>
            ELSE IF StandsAt(Hole, t, p) THEN <<"hole", Len(Hole) - 1>>
            ELSE IF StandsAt(PlainHole, t, p) THEN <<"hole", Len(PlainHole) - 1>>
            ELSE <<"out", 0>>)
<1> DEFINE m == <<"out", 0>>
<1>1. m[1] = "out" /\ m = <<"out", 0>>
  OBVIOUS
<1>2. Quote # Bang /\ Quote # Dollar /\ Bang # Dollar
  BY DEF Quote, Bang, Dollar
<1> HIDE DEF m
<1>3. AfterChar(m, t, p) =
           (IF t[p] = Quote THEN <<"lit", 0>>
            ELSE IF StandsAt(OpenBlock, t, p) THEN <<"in", 0>>
            ELSE IF StandsAt(Hole, t, p) THEN <<"hole", Len(Hole) - 1>>
            ELSE IF StandsAt(PlainHole, t, p) THEN <<"hole", Len(PlainHole) - 1>>
            ELSE m)
  BY <1>1, <1>2, OneStands DEF AfterChar
<1> QED BY <1>1, <1>3

LEMMA InLiteral ==
  ASSUME NEW t, NEW p
  PROVE  /\ AfterChar(<<"lit", 0>>, t, p) =
              (IF t[p] = Quote THEN <<"out", 0>>
               ELSE IF t[p] = Backslash /\ p < Len(t) THEN <<"esc", 0>> ELSE <<"lit", 0>>)
         /\ AfterChar(<<"esc", 0>>, t, p) = <<"lit", 0>>
<1> DEFINE m == <<"lit", 0>>
           e == <<"esc", 0>>
<1>1. m[1] = "lit" /\ e[1] = "esc" /\ m = <<"lit", 0>> /\ e = <<"esc", 0>>
  OBVIOUS
<1>2. Quote # Backslash
  BY DEF Quote, Backslash
<1> HIDE DEF m, e
<1>3. AfterChar(m, t, p) =
              (IF t[p] = Quote THEN <<"out", 0>>
               ELSE IF t[p] = Backslash /\ p < Len(t) THEN <<"esc", 0>> ELSE m)
  BY <1>1, <1>2 DEF AfterChar
<1>4. AfterChar(e, t, p) = <<"lit", 0>>
  BY <1>1 DEF AfterChar
<1> QED BY <1>1, <1>3, <1>4

LEMMA InBraces ==
  ASSUME NEW t, NEW p, NEW d \in Nat
  PROVE  AfterChar(<<"in", d>>, t, p) =
              (IF t[p] = Brace THEN <<"in", d + 1>>
               ELSE IF t[p] = Unbrace THEN IF d > 1 THEN <<"in", d - 1>> ELSE <<"out", 0>>
               ELSE <<"in", d>>)
<1> DEFINE m == <<"in", d>>
<1>1. m[1] = "in" /\ m[2] = d /\ m = <<"in", d>>
  OBVIOUS
<1>2. Brace # Unbrace
  BY DEF Brace, Unbrace
<1> HIDE DEF m
<1>3. AfterChar(m, t, p) =
              (IF t[p] = Brace THEN <<"in", d + 1>>
               ELSE IF t[p] = Unbrace THEN IF d > 1 THEN <<"in", d - 1>> ELSE <<"out", 0>>
               ELSE m)
  BY <1>1, <1>2 DEF AfterChar
<1> QED BY <1>1, <1>3

LEMMA InHole ==
  ASSUME NEW t, NEW p, NEW d \in Nat
  PROVE  AfterChar(<<"hole", d>>, t, p) = (IF d > 1 THEN <<"hole", d - 1>> ELSE <<"out", 0>>)
<1> DEFINE m == <<"hole", d>>
<1>1. m[1] = "hole" /\ m[2] = d /\ m = <<"hole", d>>
  OBVIOUS
<1> HIDE DEF m
<1>3. AfterChar(m, t, p) = (IF d > 1 THEN <<"hole", d - 1>> ELSE <<"out", 0>>)
  BY <1>1 DEF AfterChar
<1> QED BY <1>1, <1>3

\* From p to e only states of kinds are met, and behind that code or the end.
Passes(t, p, e, kinds) ==
  /\ e \in p .. EndOf(t)
  /\ \A i \in p .. e - 1 : StatesOf(t)[i - 1][1] \in kinds
  /\ e = EndOf(t) \/ StatesOf(t)[e - 1] = <<"out", 0>>

LEMMA PassesOn ==
  ASSUME NEW t \in Texts0, NEW p \in 1 .. Len(t), NEW q \in p + 1 .. EndOf(t), NEW e, NEW kinds,
         \A i \in p .. q - 1 : StatesOf(t)[i - 1][1] \in kinds,
         Passes(t, q, e, kinds)
  PROVE  Passes(t, p, e, kinds)
<1>1. Len(t) \in Nat /\ EndOf(t) = Len(t) + 1
  BY TextIs
<1>2. e \in q .. EndOf(t) /\ e \in p .. EndOf(t)
  BY <1>1 DEF Passes
<1>3. \A i \in p .. e - 1 : i \in p .. q - 1 \/ i \in q .. e - 1
  BY <1>1, <1>2
<1> QED BY <1>2, <1>3 DEF Passes

LEMMA LiteralPasses ==
  ASSUME NEW t \in Texts0, NEW p \in 1 .. EndOf(t), StatesOf(t)[p - 1] = <<"lit", 0>>
  PROVE  Passes(t, p, AfterLiteral(t, p), {"lit", "esc"})
<1> DEFINE n == EndOf(t)
           m == StatesOf(t)
           kinds == {"lit", "esc"}
           Bad == {q \in 1 .. n : m[q - 1] = <<"lit", 0>> /\ ~Passes(t, q, AfterLiteral(t, q), kinds)}
<1>1. n \in Nat \ {0} /\ n = Len(t) + 1 /\ Len(t) \in Nat
  BY TextIs
<1>2. \A q \in 1 .. Len(t) : m[q] = AfterChar(m[q - 1], t, q)
  BY StatesAre
<1>3. Bad \in SUBSET (1 .. n)
  OBVIOUS
<1>4. <<"lit", 0>>[1] = "lit" /\ <<"esc", 0>>[1] = "esc" /\ <<"lit", 0>> # <<"out", 0>>
  OBVIOUS
<1>5. ASSUME NEW q \in 1 .. n, \A k \in q + 1 .. n : k \notin Bad PROVE q \notin Bad
  <2> SUFFICES ASSUME m[q - 1] = <<"lit", 0>> PROVE Passes(t, q, AfterLiteral(t, q), kinds)
    OBVIOUS
  <2> DEFINE e == AfterLiteral(t, q)
  <2>1. e = IF q = n THEN q ELSE IF t[q] = Quote THEN q + 1 ELSE AfterLiteral(t, NextChar(t, q))
    BY LiteralIs
  <2>2. CASE q = n
    <3>1. e = n /\ \A i \in q .. e - 1 : FALSE
      BY <1>1, <2>1, <2>2
    <3>2. e \in q .. n
      BY <1>1, <2>2, <3>1
    <3> QED BY <3>1, <3>2 DEF Passes
  <2>3. CASE q # n
    <3>1. q \in 1 .. Len(t) /\ q - 1 \in Nat
      BY <1>1, <2>3
    <3>2. m[q] = (IF t[q] = Quote THEN <<"out", 0>>
               ELSE IF t[q] = Backslash /\ q < Len(t) THEN <<"esc", 0>> ELSE <<"lit", 0>>)
      BY <1>2, <3>1, InLiteral
    <3>3. CASE t[q] = Quote
      <4>1. e = q + 1 /\ e - 1 = q /\ e \in q .. n
        BY <1>1, <2>1, <2>3, <3>1, <3>3
      <4>2. \A i \in q .. e - 1 : i = q
        BY <4>1
      <4>3. m[e - 1] = <<"out", 0>>
        BY <3>2, <3>3, <4>1
      <4>4. \A i \in q .. e - 1 : m[i - 1][1] \in kinds
        BY <1>4, <4>2
      <4> QED BY <4>1, <4>3, <4>4 DEF Passes
    <3>4. CASE t[q] # Quote
      <4> DEFINE c == NextChar(t, q)
      <4>1. c \in q + 1 .. n /\ e = AfterLiteral(t, c)
        BY <2>1, <2>3, <3>1, <3>4, NextCharIs
      <4>2. (\A i \in q .. c - 1 : m[i - 1][1] \in kinds) /\ m[c - 1] = <<"lit", 0>>
        <5>1. CASE t[q] = Backslash /\ q < Len(t)
          <6>1. c = q + 2 /\ m[q] = <<"esc", 0>> /\ q + 1 \in 1 .. Len(t) /\ q + 1 - 1 = q /\ c - 1 = q + 1
            BY <1>1, <3>1, <3>2, <3>4, <5>1 DEF NextChar
          <6>2. m[q + 1] = <<"lit", 0>>
            <7>1. m[q + 1] = AfterChar(m[q + 1 - 1], t, q + 1)
              BY <1>2, <6>1
            <7>2. AfterChar(<<"esc", 0>>, t, q + 1) = <<"lit", 0>>
              BY InLiteral
            <7> QED BY <6>1, <7>1, <7>2
          <6>3. \A i \in q .. c - 1 : i = q \/ i = q + 1
            BY <6>1
          <6> QED BY <1>4, <6>1, <6>2, <6>3
        <5>2. CASE ~(t[q] = Backslash /\ q < Len(t))
          <6>1. c = q + 1 /\ c - 1 = q /\ m[q] = <<"lit", 0>>
            BY <1>1, <3>1, <3>2, <3>4, <5>2 DEF NextChar
          <6>2. \A i \in q .. c - 1 : i = q
            BY <6>1
          <6> QED BY <1>4, <6>1, <6>2
        <5> QED BY <5>1, <5>2
      <4> HIDE DEF c
      <4>3. Passes(t, c, e, kinds)
        <5>1. c \in 1 .. n /\ c \notin Bad
          BY <1>1, <1>5, <4>1
        <5> QED BY <4>1, <4>2, <5>1
      <4> HIDE DEF e, kinds
      <4> QED BY <3>1, <4>1, <4>2, <4>3, PassesOn DEF n, e
    <3> QED BY <3>3, <3>4
  <2> QED BY <2>2, <2>3
<1>6. Bad = {}
  <2> HIDE DEF Bad
  <2> QED BY <1>1, <1>3, <1>5, NoLast
<1> QED BY <1>6

LEMMA BracesPass ==
  ASSUME NEW t \in Texts0, NEW p \in 1 .. EndOf(t), StatesOf(t)[p - 1] = <<"in", 1>>
  PROVE  Passes(t, p, AfterBraces(t, p), {"in"})
<1>0. PICK B : IsBraces(B, t) /\ \A q : AfterBraces(t, q) = B[q][1]
  BY BracesAre
<1> DEFINE n == EndOf(t)
           m == StatesOf(t)
           kinds == {"in"}
           Bad == {q \in 1 .. n : \E d \in Nat \ {0} : m[q - 1] = <<"in", d>> /\ ~Passes(t, q, B[q][d], kinds)}
<1>1. n \in Nat \ {0} /\ n = Len(t) + 1 /\ Len(t) \in Nat
  BY TextIs
<1>2. \A q \in 1 .. Len(t) : m[q] = AfterChar(m[q - 1], t, q)
  BY StatesAre
<1>3. Bad \in SUBSET (1 .. n)
  OBVIOUS
<1>4. \A d : <<"in", d>>[1] = "in"
  OBVIOUS
<1>5. ASSUME NEW q \in 1 .. n, \A k \in q + 1 .. n : k \notin Bad PROVE q \notin Bad
  <2> SUFFICES ASSUME NEW d \in Nat \ {0}, m[q - 1] = <<"in", d>> PROVE Passes(t, q, B[q][d], kinds)
    OBVIOUS
  <2> DEFINE e == B[q][d]
             f == IF t[q] = Brace THEN d + 1 ELSE IF t[q] = Unbrace THEN d - 1 ELSE d
  <2>1. e = IF q = n THEN q ELSE IF t[q] = Unbrace /\ d = 1 THEN q + 1 ELSE B[q + 1][f]
    BY <1>0 DEF IsBraces
  <2>2. CASE q = n
    <3>1. e = n /\ \A i \in q .. e - 1 : FALSE
      BY <1>1, <2>1, <2>2
    <3>2. e \in q .. n
      BY <1>1, <2>2, <3>1
    <3> QED BY <3>1, <3>2 DEF Passes
  <2>3. CASE q # n
    <3>1. q \in 1 .. Len(t) /\ q - 1 \in Nat
      BY <1>1, <2>3
    <3>2. m[q] = (IF t[q] = Brace THEN <<"in", d + 1>>
               ELSE IF t[q] = Unbrace THEN IF d > 1 THEN <<"in", d - 1>> ELSE <<"out", 0>>
               ELSE <<"in", d>>)
      BY <1>2, <3>1, InBraces
    <3>3. Brace # Unbrace
      BY DEF Brace, Unbrace
    <3>4. CASE t[q] = Unbrace /\ d = 1
      <4>1. e = q + 1 /\ e - 1 = q /\ e \in q .. n
        BY <1>1, <2>1, <2>3, <3>1, <3>4
      <4>2. \A i \in q .. e - 1 : i = q
        BY <4>1
      <4>3. m[e - 1] = <<"out", 0>>
        BY <3>2, <3>3, <3>4, <4>1
      <4>4. \A i \in q .. e - 1 : m[i - 1][1] \in kinds
        BY <1>4, <4>2
      <4> QED BY <4>1, <4>3, <4>4 DEF Passes
    <3>5. CASE ~(t[q] = Unbrace /\ d = 1)
      <4>1. e = B[q + 1][f] /\ q + 1 \in q + 1 .. n /\ q + 1 \in 1 .. n /\ q + 1 - 1 = q
        BY <1>1, <2>1, <2>3, <3>1, <3>5
      <4>2. f \in Nat \ {0}
        BY <3>5
      <4>3. m[q + 1 - 1] = <<"in", f>>
        <5>1. d \in Nat /\ d # 0
          OBVIOUS
        <5> QED BY <3>2, <3>3, <3>5, <4>1, <5>1
      <4> HIDE DEF f
      <4>4. Passes(t, q + 1, e, kinds)
        <5>1. q + 1 \notin Bad
          BY <1>5, <4>1
        <5> QED BY <4>1, <4>2, <4>3, <5>1
      <4>5. \A i \in q .. q + 1 - 1 : i = q
        BY <3>1
      <4>6. \A i \in q .. q + 1 - 1 : m[i - 1][1] \in kinds
        BY <1>4, <4>5
      <4> HIDE DEF e, kinds
      <4> QED BY <3>1, <4>1, <4>4, <4>6, PassesOn DEF n, e
    <3> QED BY <3>4, <3>5
  <2> QED BY <2>2, <2>3
<1>6. Bad = {}
  <2> HIDE DEF Bad
  <2> QED BY <1>1, <1>3, <1>5, NoLast
<1> QED BY <1>0, <1>6

\* Behind the first character of a placeholder its other characters are met as such.
LEMMA HolePasses ==
  ASSUME NEW t \in Texts0, NEW p \in 1 .. Len(t), NEW k \in Nat, p + k + 1 \in p .. EndOf(t),
         k # 0, StatesOf(t)[p] = <<"hole", k>>
  PROVE  Passes(t, p + 1, p + k + 1, {"hole"}) /\ StatesOf(t)[p + k] = <<"out", 0>>
<1> DEFINE n == EndOf(t)
           m == StatesOf(t)
           Bad == {j \in 0 .. k - 1 : m[p + j] # <<"hole", k - j>>}
<1>1. n \in Nat \ {0} /\ n = Len(t) + 1 /\ Len(t) \in Nat
  BY TextIs
<1>2. \A q \in 1 .. Len(t) : m[q] = AfterChar(m[q - 1], t, q)
  BY StatesAre
<1>3. Bad = {}
  <2>1. Bad \in SUBSET (0 .. k - 1) /\ 0 \notin Bad
    <3>1. p + 0 = p /\ k - 0 = k
      OBVIOUS
    <3> QED BY <3>1
  <2>2. ASSUME NEW j \in 1 .. k - 1, j - 1 \notin Bad PROVE j \notin Bad
    <3>1. j - 1 \in 0 .. k - 1 /\ p + j \in 1 .. Len(t) /\ p + j - 1 = p + (j - 1) /\ k - (j - 1) \in Nat
          /\ k - (j - 1) > 1 /\ k - (j - 1) - 1 = k - j
      BY <1>1
    <3>2. m[p + (j - 1)] = <<"hole", k - (j - 1)>>
      BY <2>2, <3>1
    <3>3. AfterChar(<<"hole", k - (j - 1)>>, t, p + j) = <<"hole", k - (j - 1) - 1>>
      BY <3>1, InHole
    <3>4. m[p + j] = AfterChar(m[p + j - 1], t, p + j)
      BY <1>2, <3>1
    <3>5. m[p + j] = <<"hole", k - j>>
      BY <3>1, <3>2, <3>3, <3>4
    <3> QED BY <3>5
  <2>3. k - 1 \in Nat
    OBVIOUS
  <2> HIDE DEF Bad
  <2> QED BY <2>1, <2>2, <2>3, NoFirst
<1>4. m[p + k] = <<"out", 0>>
  <2>1. k - 1 \in 0 .. k - 1 /\ k - (k - 1) = 1 /\ p + k \in 1 .. Len(t) /\ p + k - 1 = p + (k - 1)
    BY <1>1
  <2>2. m[p + (k - 1)] = <<"hole", 1>>
    BY <1>3, <2>1
  <2>3. AfterChar(<<"hole", 1>>, t, p + k) = <<"out", 0>>
    <3>1. 1 \in Nat /\ ~(1 > 1)
      OBVIOUS
    <3> QED BY <3>1, InHole
  <2>4. m[p + k] = AfterChar(m[p + k - 1], t, p + k)
    BY <1>2, <2>1
  <2>5. m[p + k - 1] = <<"hole", 1>>
    BY <2>1, <2>2
  <2> QED BY <2>3, <2>4, <2>5
<1>5. \A i \in p + 1 .. p + k + 1 - 1 : m[i - 1][1] \in {"hole"}
  <2> TAKE i \in p + 1 .. p + k + 1 - 1
  <2>1. i - 1 - p \in 0 .. k - 1 /\ p + (i - 1 - p) = i - 1
    OBVIOUS
  <2>2. m[i - 1] = <<"hole", k - (i - 1 - p)>>
    BY <1>3, <2>1
  <2> QED BY <2>2
<1>6. p + k + 1 \in p + 1 .. n /\ p + k + 1 - 1 = p + k
  BY <1>1
<1> QED BY <1>4, <1>5, <1>6 DEF Passes

\* Literals and braces end behind where they start, wherever that is.
LEMMA LiteralEnds ==
  ASSUME NEW t \in Texts0, NEW p \in 1 .. EndOf(t)
  PROVE  AfterLiteral(t, p) \in p .. EndOf(t)
<1> DEFINE n == EndOf(t)
           Bad == {q \in 1 .. n : AfterLiteral(t, q) \notin q .. n}
<1>1. n \in Nat \ {0} /\ n = Len(t) + 1 /\ Len(t) \in Nat
  BY TextIs
<1>2. Bad \in SUBSET (1 .. n)
  OBVIOUS
<1>3. ASSUME NEW q \in 1 .. n, \A k \in q + 1 .. n : k \notin Bad PROVE q \notin Bad
  <2>1. AfterLiteral(t, q) = IF q = n THEN q ELSE IF t[q] = Quote THEN q + 1 ELSE AfterLiteral(t, NextChar(t, q))
    BY LiteralIs
  <2>2. CASE q = n \/ t[q] = Quote
    BY <1>1, <2>1, <2>2
  <2>3. CASE ~(q = n \/ t[q] = Quote)
    <3> DEFINE c == NextChar(t, q)
    <3>1. q \in 1 .. Len(t)
      BY <1>1, <2>3
    <3>2. c \in q + 1 .. n /\ c \in 1 .. n
      BY <1>1, <3>1, NextCharIs
    <3> HIDE DEF c
    <3>3. AfterLiteral(t, c) \in c .. n
      BY <1>3, <3>2
    <3>4. AfterLiteral(t, q) = AfterLiteral(t, c)
      BY <2>1, <2>3 DEF c
    <3>5. AfterLiteral(t, q) \in q .. n
      BY <1>1, <3>2, <3>3, <3>4
    <3> QED BY <3>5
  <2> QED BY <2>2, <2>3
<1>4. Bad = {}
  <2> HIDE DEF Bad
  <2> QED BY <1>1, <1>2, <1>3, NoLast
<1> QED BY <1>4

LEMMA BracesEnd ==
  ASSUME NEW t \in Texts0, NEW p \in 1 .. EndOf(t)
  PROVE  AfterBraces(t, p) \in p .. EndOf(t)
<1>0. PICK B : IsBraces(B, t) /\ \A q : AfterBraces(t, q) = B[q][1]
  BY BracesAre
<1> DEFINE n == EndOf(t)
           Bad == {q \in 1 .. n : \E d \in Nat \ {0} : B[q][d] \notin q .. n}
<1>1. n \in Nat \ {0} /\ n = Len(t) + 1 /\ Len(t) \in Nat
  BY TextIs
<1>2. Bad \in SUBSET (1 .. n)
  OBVIOUS
<1>3. ASSUME NEW q \in 1 .. n, \A k \in q + 1 .. n : k \notin Bad PROVE q \notin Bad
  <2> SUFFICES ASSUME NEW d \in Nat \ {0} PROVE B[q][d] \in q .. n
    OBVIOUS
  <2> DEFINE f == IF t[q] = Brace THEN d + 1 ELSE IF t[q] = Unbrace THEN d - 1 ELSE d
  <2>1. B[q][d] = IF q = n THEN q ELSE IF t[q] = Unbrace /\ d = 1 THEN q + 1 ELSE B[q + 1][f]
    BY <1>0 DEF IsBraces
  <2>2. CASE q = n \/ (t[q] = Unbrace /\ d = 1)
    BY <1>1, <2>1, <2>2
  <2>3. CASE ~(q = n \/ (t[q] = Unbrace /\ d = 1))
    <3>1. q + 1 \in q + 1 .. n /\ q + 1 \in 1 .. n /\ f \in Nat \ {0}
      BY <1>1, <2>3
    <3> HIDE DEF f
    <3>2. B[q + 1][f] \in q + 1 .. n
      BY <1>3, <3>1
    <3> QED BY <1>1, <2>1, <2>3, <3>2
  <2> QED BY <2>2, <2>3
<1>4. Bad = {}
  <2> HIDE DEF Bad
  <2> QED BY <1>1, <1>2, <1>3, NoLast
<1>5. 1 \in Nat \ {0}
  OBVIOUS
<1>6. B[p][1] \in p .. n
  BY <1>4, <1>5
<1> QED BY <1>0, <1>6

\* A turn of substitution goes on, and what it writes is a string.
LEMMA TurnEnds ==
  ASSUME NEW t \in Texts0, NEW p \in 1 .. Len(t)
  PROVE  /\ AfterTurn(t, p) =
              (IF t[p] = Quote THEN AfterLiteral(t, p + 1)
               ELSE IF StandsAt(OpenBlock, t, p) THEN AfterBraces(t, p + 2)
               ELSE IF StandsAt(Hole, t, p) THEN p + Len(Hole)
               ELSE IF StandsAt(PlainHole, t, p) THEN p + Len(PlainHole) ELSE p + 1)
         /\ Written(t, p) =
              (IF StandsAt(Hole, t, p) THEN Repr ELSE IF StandsAt(PlainHole, t, p) THEN PlainForm
               ELSE SubSeq(t, p, AfterTurn(t, p) - 1))
         /\ AfterTurn(t, p) \in p + 1 .. EndOf(t)
         /\ Written(t, p) \in Texts0
<1>1. Len(t) \in Nat /\ EndOf(t) = Len(t) + 1 /\ p \in 1 .. EndOf(t) /\ p + 1 \in 1 .. EndOf(t)
  BY TextIs
<1>2. Quote # Bang /\ Quote # Dollar /\ Bang # Dollar
  BY DEF Quote, Bang, Dollar
<1>3. AfterTurn(t, p) =
              (IF t[p] = Quote THEN AfterLiteral(t, p + 1)
               ELSE IF StandsAt(OpenBlock, t, p) THEN AfterBraces(t, p + 2)
               ELSE IF StandsAt(Hole, t, p) THEN p + Len(Hole)
               ELSE IF StandsAt(PlainHole, t, p) THEN p + Len(PlainHole) ELSE p + 1)
  BY <1>2, OneStands, HolesAre DEF AfterTurn
<1>4. Written(t, p) =
              (IF StandsAt(Hole, t, p) THEN Repr ELSE IF StandsAt(PlainHole, t, p) THEN PlainForm
               ELSE SubSeq(t, p, AfterTurn(t, p) - 1))
  BY OneStands DEF Written
<1>5. AfterTurn(t, p) \in p + 1 .. EndOf(t)
  <2>1. AfterLiteral(t, p + 1) \in p + 1 .. EndOf(t)
    BY <1>1, LiteralEnds
  <2>2. StandsAt(OpenBlock, t, p) => AfterBraces(t, p + 2) \in p + 1 .. EndOf(t)
    <3> SUFFICES ASSUME StandsAt(OpenBlock, t, p) PROVE AfterBraces(t, p + 2) \in p + 1 .. EndOf(t)
      OBVIOUS
    <3>1. p + 2 \in 1 .. EndOf(t)
      BY <1>1, OneStands
    <3>2. AfterBraces(t, p + 2) \in p + 2 .. EndOf(t)
      BY <3>1, BracesEnd
    <3> QED BY <1>1, <3>2
  <2>3. /\ StandsAt(Hole, t, p) => p + Len(Hole) \in p .. EndOf(t)
        /\ StandsAt(PlainHole, t, p) => p + Len(PlainHole) \in p .. EndOf(t)
        /\ Len(Hole) \in Nat \ {0} /\ Len(PlainHole) \in Nat \ {0}
    BY <1>1, StandsIn, HolesAre
  <2>4. /\ StandsAt(Hole, t, p) => p + Len(Hole) \in p + 1 .. EndOf(t)
        /\ StandsAt(PlainHole, t, p) => p + Len(PlainHole) \in p + 1 .. EndOf(t)
    BY <1>1, <2>3
  <2>5. p + 1 \in p + 1 .. EndOf(t)
    BY <1>1
  <2> QED BY <1>3, <2>1, <2>2, <2>4, <2>5
<1>6. SubSeq(t, p, AfterTurn(t, p) - 1) \in Texts0
  <2>1. p \in 1 .. Len(t) + 1 /\ AfterTurn(t, p) - 1 \in p - 1 .. Len(t)
    BY <1>1, <1>5
  <2> QED BY <2>1, PartIs DEF Texts0
<1>7. Repr \in Texts0 /\ PlainForm \in Texts0
  BY TextConstants DEF Texts0, Chars0
<1> QED BY <1>3, <1>4, <1>5, <1>6, <1>7

LEMMA SubstituteIs ==
  ASSUME NEW t \in Texts0
  PROVE  \E R \in [1 .. EndOf(t) -> Texts0] :
           /\ substitute_text(t) = R[1]
           /\ \A p \in 1 .. EndOf(t) :
                R[p] = IF p = EndOf(t) THEN <<>> ELSE Written(t, p) \o R[AfterTurn(t, p)]
<1> DEFINE n == EndOf(t)
           Body(h, i) == IF i = n THEN <<>> ELSE Written(t, i) \o h[AfterTurn(t, i)]
           Rec(h) == h = [i \in 1 .. n |-> Body(h, i)]
           G == [f \in [1 .. n -> Texts0] |-> [i \in 1 .. n |-> Body(f, i)]]
           F == CHOOSE h : Rec(h)
<1>1. n \in Nat \ {0} /\ n = Len(t) + 1
  BY TextIs
<1>2. \A i \in 1 .. n : i # n => /\ AfterTurn(t, i) \in i + 1 .. n /\ AfterTurn(t, i) \in 1 .. n
                                /\ Written(t, i) \in Texts0
  <2> TAKE i \in 1 .. n
  <2>1. i # n => i \in 1 .. Len(t)
    BY <1>1
  <2>2. i # n => AfterTurn(t, i) \in i + 1 .. n /\ Written(t, i) \in Texts0
    BY <2>1, TurnEnds
  <2> QED BY <1>1, <2>2
<1>3. substitute_text(t) = F[1]
  BY DEF substitute_text
<1> HIDE DEF n
<1>4. ASSUME NEW f \in [1 .. n -> Texts0], NEW i \in 1 .. n PROVE Body(f, i) \in Texts0
  <2>1. <<>> \in Texts0
    BY DEF Texts0
  <2>2. \A x, y \in Texts0 : x \o y \in Texts0
    BY DEF Texts0
  <2> QED BY <1>2, <2>1, <2>2
<1>5. \A f, g \in [1 .. n -> Texts0], i \in 1 .. n : (\A k \in i + 1 .. n : f[k] = g[k]) => Body(f, i) = Body(g, i)
  BY <1>2
<1>6. G \in [[1 .. n -> Texts0] -> [1 .. n -> Texts0]]
  <2> HIDE DEF Body
  <2> QED BY <1>4
<1>7. FromLater(G, n, Texts0)
  <2> HIDE DEF Body
  <2> QED BY <1>5 DEF FromLater
<1>8. PICK f \in [1 .. n -> Texts0] : G[f] = f
  <2> HIDE DEF G
  <2>1. Texts0 # {}
    BY DEF Texts0
  <2> HIDE DEF Body, Rec
  <2>2. n \in Nat
    BY <1>1
  <2>3. Turns(G, n, Texts0)
    BY <1>6, <1>7, <2>1, <2>2 DEF Turns
  <2> QED BY <2>3, Descends
<1>9. Rec(f)
  <2> HIDE DEF Body
  <2> QED BY <1>8
<1>10. Rec(F)
  <2> HIDE DEF Rec
  <2> QED BY <1>9
<1> HIDE DEF F
<1>11. \A i \in 1 .. n : F[i] = Body(F, i)
  <2> HIDE DEF Body
  <2> QED BY <1>10
<1> DEFINE Bad == {i \in 1 .. n : F[i] \notin Texts0}
<1>12. Bad = {}
  <2>1. Bad \in SUBSET (1 .. n) /\ n \in Nat
    BY <1>1
  <2>2. ASSUME NEW i \in 1 .. n, \A k \in i + 1 .. n : k \notin Bad PROVE i \notin Bad
    <3>1. <<>> \in Texts0
      BY DEF Texts0
    <3>2. \A x, y \in Texts0 : x \o y \in Texts0
      BY DEF Texts0
    <3>3. i # n => F[AfterTurn(t, i)] \in Texts0
      BY <1>2, <2>2
    <3> QED BY <1>2, <1>11, <3>1, <3>2, <3>3
  <2> HIDE DEF Bad
  <2> QED BY <2>1, <2>2, NoLast
<1>13. F \in [1 .. n -> Texts0]
  <2>1. F = [i \in 1 .. n |-> F[i]]
    <3> HIDE DEF Body
    <3> QED BY <1>10
  <2> QED BY <1>12, <2>1
<1> QED BY <1>3, <1>11, <1>13 DEF n

-----------------------------------------------------------------------------
(* Substitution by states.                                                    *)

Pieces(t) == [p \in DOMAIN t |-> Becomes(t, p, StatesOf(t)[p - 1])]

LEMMA PiecesAre ==
  ASSUME NEW t \in Texts0
  PROVE  /\ Pieces(t) \in Seq(Texts0) /\ Len(Pieces(t)) = Len(t)
         /\ \A p \in 1 .. Len(t) : Pieces(t)[p] = Becomes(t, p, StatesOf(t)[p - 1])
<1>1. Len(t) \in Nat /\ DOMAIN t = 1 .. Len(t)
  BY TextIs
<1>2. ASSUME NEW p \in 1 .. Len(t), NEW m PROVE Becomes(t, p, m) \in Texts0
  <2>1. Becomes(t, p, m) \in {Repr, PlainForm, <<>>, <<t[p]>>}
    BY DEF Becomes
  <2>2. Repr \in Texts0 /\ PlainForm \in Texts0
    BY TextConstants DEF Texts0, Chars0
  <2>3. <<>> \in Texts0 /\ <<t[p]>> \in Texts0
    BY TextIs DEF Texts0, Chars0
  <2> QED BY <2>1, <2>2, <2>3
<1>3. Pieces(t) \in [1 .. Len(t) -> Texts0] /\ \A p \in 1 .. Len(t) : Pieces(t)[p] = Becomes(t, p, StatesOf(t)[p - 1])
  BY <1>1, <1>2 DEF Pieces
<1> QED BY <1>1, <1>3

\* A turn that meets no placeholder copies.
LEMMA TurnCopies ==
  ASSUME NEW t \in Texts0, NEW p \in 1 .. Len(t), NEW e \in p + 1 .. EndOf(t),
         ~StandsAt(Hole, t, p), ~StandsAt(PlainHole, t, p), StatesOf(t)[p - 1] = <<"out", 0>>,
         \A i \in p + 1 .. e - 1 : StatesOf(t)[i - 1][1] \in {"lit", "esc", "in"}
  PROVE  FlattenSeq(SubSeq(Pieces(t), p, e - 1)) = SubSeq(t, p, e - 1)
<1>1. Len(t) \in Nat /\ EndOf(t) = Len(t) + 1 /\ p \in 1 .. Len(t) + 1 /\ e - 1 \in p - 1 .. Len(t)
  BY TextIs
<1>2. ASSUME NEW i \in p .. e - 1 PROVE Pieces(t)[i] = <<t[i]>>
  <2> DEFINE m == StatesOf(t)[i - 1]
  <2>1. i \in 1 .. Len(t)
    BY <1>1
  <2>2. Pieces(t)[i] = Becomes(t, i, m)
    BY <2>1, PiecesAre
  <2>3. <<"out", 0>>[1] = "out"
    OBVIOUS
  <2>4. CASE i = p
    <3>1. m[1] = "out" /\ ~StandsAt(Hole, t, i) /\ ~StandsAt(PlainHole, t, i)
      BY <2>3, <2>4
    <3> HIDE DEF m
    <3> QED BY <2>2, <3>1 DEF Becomes
  <2>5. CASE i # p
    <3>1. i \in p + 1 .. e - 1
      BY <1>1, <2>5
    <3>2. m[1] \in {"lit", "esc", "in"}
      BY <3>1
    <3> HIDE DEF m
    <3> QED BY <2>2, <3>2 DEF Becomes
  <2> QED BY <2>4, <2>5
<1>3. t \in Seq(Chars0) /\ Pieces(t) \in Seq(Seq(Chars0)) /\ Len(Pieces(t)) = Len(t)
  BY PiecesAre DEF Texts0
<1> QED BY <1>1, <1>2, <1>3, FlattenPart

\* A turn that meets a placeholder writes what that becomes.
LEMMA TurnReplaces ==
  ASSUME NEW t \in Texts0, NEW p \in 1 .. Len(t), NEW e \in p + 1 .. EndOf(t),
         StatesOf(t)[p - 1] = <<"out", 0>>,
         StandsAt(Hole, t, p) \/ StandsAt(PlainHole, t, p),
         \A i \in p + 1 .. e - 1 : StatesOf(t)[i - 1][1] \in {"hole"}
  PROVE  FlattenSeq(SubSeq(Pieces(t), p, e - 1)) = Written(t, p)
<1>1. Len(t) \in Nat /\ EndOf(t) = Len(t) + 1 /\ e - 1 \in p .. Len(t)
  BY TextIs
<1>2. ASSUME NEW i \in p + 1 .. e - 1 PROVE Pieces(t)[i] = <<>>
  <2> DEFINE m == StatesOf(t)[i - 1]
  <2>1. i \in 1 .. Len(t)
    BY <1>1
  <2>2. Pieces(t)[i] = Becomes(t, i, m)
    BY <2>1, PiecesAre
  <2>3. m[1] = "hole"
    OBVIOUS
  <2> HIDE DEF m
  <2> QED BY <2>2, <2>3 DEF Becomes
<1>3. Pieces(t)[p] = Written(t, p)
  <2> DEFINE m == StatesOf(t)[p - 1]
  <2>1. Pieces(t)[p] = Becomes(t, p, m)
    BY PiecesAre
  <2>2. m[1] = "out"
    OBVIOUS
  <2> HIDE DEF m
  <2>3. Becomes(t, p, m) = IF StandsAt(Hole, t, p) THEN Repr ELSE PlainForm
    BY <2>2, OneStands DEF Becomes
  <2> QED BY <2>1, <2>3, TurnEnds
<1>4. Pieces(t) \in Seq(Seq(Chars0)) /\ Len(Pieces(t)) = Len(t)
  BY PiecesAre DEF Texts0
<1>5. p \in 1 .. Len(Pieces(t)) /\ e - 1 \in p .. Len(Pieces(t))
  BY <1>1, <1>4
<1>6. FlattenSeq(SubSeq(Pieces(t), p, e - 1)) = Pieces(t)[p]
  BY <1>2, <1>4, <1>5, FlattenHead
<1> QED BY <1>3, <1>6

LEMMA TurnIs ==
  ASSUME NEW t \in Texts0, NEW p \in 1 .. Len(t), StatesOf(t)[p - 1] = <<"out", 0>>
  PROVE  /\ FlattenSeq(SubSeq(Pieces(t), p, AfterTurn(t, p) - 1)) = Written(t, p)
         /\ AfterTurn(t, p) = EndOf(t) \/ StatesOf(t)[AfterTurn(t, p) - 1] = <<"out", 0>>
<1> DEFINE m == StatesOf(t)
           e == AfterTurn(t, p)
<1>1. Len(t) \in Nat /\ EndOf(t) = Len(t) + 1 /\ p \in 1 .. EndOf(t) /\ p + 1 - 1 = p
  BY TextIs
<1>2. \A q \in 1 .. Len(t) : m[q] = AfterChar(m[q - 1], t, q)
  BY StatesAre
<1>3. m[p] = (IF t[p] = Quote THEN <<"lit", 0>>
            ELSE IF StandsAt(OpenBlock, t, p) THEN <<"in", 0>>
            ELSE IF StandsAt(Hole, t, p) THEN <<"hole", Len(Hole) - 1>>
            ELSE IF StandsAt(PlainHole, t, p) THEN <<"hole", Len(PlainHole) - 1>>
            ELSE <<"out", 0>>)
  BY <1>2, InCode
<1>4. Quote # Bang /\ Quote # Dollar /\ Bang # Dollar
  BY DEF Quote, Bang, Dollar
<1>5. /\ e = (IF t[p] = Quote THEN AfterLiteral(t, p + 1)
               ELSE IF StandsAt(OpenBlock, t, p) THEN AfterBraces(t, p + 2)
               ELSE IF StandsAt(Hole, t, p) THEN p + Len(Hole)
               ELSE IF StandsAt(PlainHole, t, p) THEN p + Len(PlainHole) ELSE p + 1)
      /\ Written(t, p) =
              (IF StandsAt(Hole, t, p) THEN Repr ELSE IF StandsAt(PlainHole, t, p) THEN PlainForm
               ELSE SubSeq(t, p, e - 1))
      /\ e \in p + 1 .. EndOf(t)
  BY TurnEnds
<1> HIDE DEF m
<1>6. CASE t[p] = Quote
  <2>1. ~StandsAt(Hole, t, p) /\ ~StandsAt(PlainHole, t, p)
    BY <1>4, <1>6, OneStands
  <2>2. m[p + 1 - 1] = <<"lit", 0>> /\ e = AfterLiteral(t, p + 1) /\ p + 1 \in 1 .. EndOf(t)
    BY <1>1, <1>3, <1>5, <1>6
  <2>3. Passes(t, p + 1, e, {"lit", "esc"})
    BY <2>2, LiteralPasses DEF m
  <2> HIDE DEF e
  <2>4. \A i \in p + 1 .. e - 1 : m[i - 1][1] \in {"lit", "esc", "in"}
    BY <2>3 DEF Passes, m
  <2>5. FlattenSeq(SubSeq(Pieces(t), p, e - 1)) = SubSeq(t, p, e - 1)
    BY <1>5, <2>1, <2>4, TurnCopies DEF m
  <2> QED BY <1>5, <2>1, <2>3, <2>5 DEF Passes, e
<1>7. CASE StandsAt(OpenBlock, t, p)
  <2>1. t[p] = Bang /\ t[p + 1] = Brace /\ p + 1 \in 1 .. Len(t)
    BY <1>7, OneStands
  <2>2. ~StandsAt(Hole, t, p) /\ ~StandsAt(PlainHole, t, p) /\ t[p] # Quote
    BY <1>4, <2>1, OneStands
  <2>3. m[p] = <<"in", 0>> /\ e = AfterBraces(t, p + 2) /\ p + 2 \in 1 .. EndOf(t)
    BY <1>1, <1>3, <1>5, <1>7, <2>1, <2>2
  <2>4. m[p + 2 - 1] = <<"in", 1>>
    <3>1. p + 2 - 1 = p + 1 /\ m[p + 1] = AfterChar(m[p + 1 - 1], t, p + 1)
      BY <1>2, <2>1
    <3>2. AfterChar(<<"in", 0>>, t, p + 1) = <<"in", 0 + 1>>
      BY <2>1, InBraces
    <3> QED BY <1>1, <2>3, <3>1, <3>2
  <2>5. Passes(t, p + 2, e, {"in"})
    BY <2>3, <2>4, BracesPass DEF m
  <2> HIDE DEF e
  <2>6. \A i \in p + 1 .. e - 1 : m[i - 1][1] \in {"lit", "esc", "in"}
    <3> TAKE i \in p + 1 .. e - 1
    <3>1. CASE i = p + 1
      <4>1. i - 1 = p /\ <<"in", 0>>[1] = "in"
        BY <3>1
      <4> QED BY <2>3, <4>1
    <3>2. CASE i # p + 1
      <4>1. i \in p + 2 .. e - 1
        BY <1>5, <3>2 DEF e
      <4> QED BY <2>5, <4>1 DEF Passes, m
    <3> QED BY <3>1, <3>2
  <2>7. FlattenSeq(SubSeq(Pieces(t), p, e - 1)) = SubSeq(t, p, e - 1)
    BY <1>5, <2>2, <2>6, TurnCopies DEF m
  <2> QED BY <1>5, <2>2, <2>5, <2>7 DEF Passes, e
<1>8. CASE StandsAt(Hole, t, p) \/ StandsAt(PlainHole, t, p)
  <2> DEFINE k == IF StandsAt(Hole, t, p) THEN Len(Hole) - 1 ELSE Len(PlainHole) - 1
  <2>1. t[p] = Dollar /\ t[p] # Quote /\ ~StandsAt(OpenBlock, t, p)
    BY <1>4, <1>8, OneStands
  <2>2. k \in Nat /\ k # 0
    BY HolesAre
  <2>3. m[p] = <<"hole", k>>
    BY <1>3, <1>8, <2>1
  <2>4. e = p + k + 1
    BY <1>5, <1>8, <2>1, HolesAre
  <2> HIDE DEF k, e
  <2>5. p + k + 1 \in p .. EndOf(t) /\ p + k + 1 - 1 = p + k
    BY <1>1, <1>5, <2>2, <2>4 DEF e
  <2>6. Passes(t, p + 1, p + k + 1, {"hole"}) /\ m[p + k] = <<"out", 0>>
    BY <2>2, <2>3, <2>5, HolePasses DEF m
  <2>7. \A i \in p + 1 .. e - 1 : m[i - 1][1] \in {"hole"}
    BY <2>4, <2>6 DEF Passes, m
  <2>8. FlattenSeq(SubSeq(Pieces(t), p, e - 1)) = Written(t, p)
    <3>1. e \in p + 1 .. EndOf(t)
      BY <1>5 DEF e
    <3> QED BY <1>8, <2>7, <3>1, TurnReplaces DEF m
  <2>9. m[e - 1] = <<"out", 0>>
    <3>1. e - 1 = p + k
      BY <1>1, <2>2, <2>4, <2>5
    <3> QED BY <2>6, <3>1
  <2> QED BY <2>8, <2>9 DEF e, m
<1>9. CASE ~(t[p] = Quote \/ StandsAt(OpenBlock, t, p) \/ StandsAt(Hole, t, p) \/ StandsAt(PlainHole, t, p))
  <2>1. e = p + 1 /\ m[p] = <<"out", 0>>
    BY <1>3, <1>5, <1>9
  <2>2. \A i \in p + 1 .. e - 1 : FALSE
    BY <2>1
  <2> HIDE DEF e
  <2>3. FlattenSeq(SubSeq(Pieces(t), p, e - 1)) = SubSeq(t, p, e - 1)
    <3>1. e \in p + 1 .. EndOf(t)
      BY <1>5 DEF e
    <3>2. \A i \in p + 1 .. e - 1 : m[i - 1][1] \in {"lit", "esc", "in"}
      BY <2>2
    <3> QED BY <1>9, <3>1, <3>2, TurnCopies DEF m
  <2>4. m[e - 1] = <<"out", 0>>
    BY <1>1, <2>1
  <2> QED BY <1>5, <1>9, <2>3, <2>4 DEF e, m
<1> QED BY <1>6, <1>7, <1>8, <1>9

LEMMA SubstitutesByState ==
  ASSUME NEW t \in Texts0
  PROVE  substitute_text(t) = FlattenSeq(Pieces(t))
<1>1. PICK R \in [1 .. EndOf(t) -> Texts0] :
        /\ substitute_text(t) = R[1]
        /\ \A p \in 1 .. EndOf(t) :
             R[p] = IF p = EndOf(t) THEN <<>> ELSE Written(t, p) \o R[AfterTurn(t, p)]
  BY SubstituteIs
<1> DEFINE n == EndOf(t)
           m == StatesOf(t)
           ss == Pieces(t)
           Behind(p) == FlattenSeq(SubSeq(ss, p, Len(ss)))
           Bad == {p \in 1 .. n : (p = n \/ m[p - 1] = <<"out", 0>>) /\ R[p] # Behind(p)}
<1>2. n \in Nat \ {0} /\ n = Len(t) + 1 /\ Len(t) \in Nat
  BY TextIs
<1>3. ss \in Seq(Seq(Chars0)) /\ Len(ss) = Len(t)
  BY PiecesAre DEF Texts0
<1> HIDE DEF ss, m
<1>4. ASSUME NEW p \in 1 .. n, \A k \in p + 1 .. n : k \notin Bad PROVE p \notin Bad
  <2> SUFFICES ASSUME p = n \/ m[p - 1] = <<"out", 0>> PROVE R[p] = Behind(p)
    OBVIOUS
  <2>1. CASE p = n
    <3>1. Len(ss) = p - 1 /\ p \in 1 .. Len(ss) + 1
      BY <1>2, <1>3, <2>1
    <3>2. SubSeq(ss, p, p - 1) = <<>>
      BY <1>3, <3>1, PartNone
    <3>3. Behind(p) = <<>>
      BY <3>1, <3>2, FlattenNone
    <3> HIDE DEF Behind
    <3> QED BY <1>1, <2>1, <3>3
  <2>2. CASE p # n
    <3> DEFINE e == AfterTurn(t, p)
    <3>1. p \in 1 .. Len(t)
      BY <1>2, <2>2
    <3>2. e \in p + 1 .. n
      BY <3>1, TurnEnds
    <3>3. /\ FlattenSeq(SubSeq(ss, p, e - 1)) = Written(t, p)
          /\ e = n \/ m[e - 1] = <<"out", 0>>
      BY <2>2, <3>1, TurnIs DEF m, ss
    <3>4. R[p] = Written(t, p) \o R[e]
      BY <1>1, <2>2
    <3> HIDE DEF e
    <3>5. R[e] = Behind(e)
      <4>1. e \in 1 .. n /\ e \notin Bad
        BY <1>2, <1>4, <3>2
      <4> HIDE DEF Behind
      <4> QED BY <3>3, <4>1
    <3>6. Behind(p) = FlattenSeq(SubSeq(ss, p, e - 1)) \o Behind(e)
      <4>1. p \in 1 .. Len(ss) + 1 /\ e \in p .. Len(ss) + 1
        BY <1>2, <1>3, <3>1, <3>2
      <4> QED BY <1>3, <4>1, FlattenFrom
    <3> HIDE DEF Behind
    <3> QED BY <3>3, <3>4, <3>5, <3>6
  <2> QED BY <2>1, <2>2
<1>5. Bad = {}
  <2>1. Bad \in SUBSET (1 .. n) /\ n \in Nat
    BY <1>2
  <2> HIDE DEF Bad
  <2> QED BY <1>4, <2>1, NoLast
<1>6. R[1] = Behind(1)
  <2>1. m[1 - 1] = <<"out", 0>> /\ 1 \in 1 .. n
    BY <1>2, StatesAre DEF m
  <2> HIDE DEF Behind
  <2> QED BY <1>5, <2>1
<1>7. SubSeq(ss, 1, Len(ss)) = ss
  BY <1>3, PartAll
<1> QED BY <1>1, <1>6, <1>7 DEF ss

-----------------------------------------------------------------------------
(* Strings: split and join.                                                    *)

\* What stands at the head of a string put together, and what is behind it.
LEMMA PartOfCat ==
  ASSUME NEW S, NEW u \in Seq(S), NEW y \in Seq(S), NEW a \in 1 .. Len(y) + 1, NEW b \in a - 1 .. Len(y)
  PROVE  /\ SubSeq(u \o y, Len(u) + a, Len(u) + b) = SubSeq(y, a, b)
         /\ SubSeq(u \o y, 1, Len(u)) = u
         /\ \A i \in 1 .. Len(u) : (u \o y)[i] = u[i]
         /\ \A i \in 1 .. Len(y) : (u \o y)[Len(u) + i] = y[i]
<1> DEFINE t == u \o y
           k == Len(u)
           l == Len(y)
           w == SubSeq(t, k + a, k + b)
           x == SubSeq(y, a, b)
           v == SubSeq(t, 1, k)
<1>1. k \in Nat /\ l \in Nat
  OBVIOUS
<1>2. /\ t \in Seq(S) /\ Len(t) = k + l
      /\ \A i \in 1 .. k + l : t[i] = IF i <= k THEN u[i] ELSE y[i - k]
  BY ConcatProperties
<1> HIDE DEF t, k, l
<1>3. \A i \in 1 .. k : t[i] = u[i]
  <2>1. \A i \in 1 .. k : i \in 1 .. k + l /\ i <= k
    BY <1>1
  <2> QED BY <1>2, <2>1
<1>4. ASSUME NEW i \in 1 .. l PROVE t[k + i] = y[i]
  <2> DEFINE j == k + i
  <2>1. j \in 1 .. k + l /\ ~(j <= k) /\ j - k = i
    BY <1>1
  <2> HIDE DEF j
  <2>2. t[j] = y[j - k]
    BY <1>2, <2>1
  <2> QED BY <2>1, <2>2 DEF j
<1>5. w = x
  <2>1. k + a \in 1 .. Len(t) + 1 /\ k + b \in k + a - 1 .. Len(t) /\ k + b - (k + a) + 1 = b - a + 1
    BY <1>1, <1>2 DEF l
  <2>2. /\ w \in Seq(S) /\ Len(w) = k + b - (k + a) + 1
        /\ \A i \in 1 .. k + b - (k + a) + 1 : w[i] = t[k + a + i - 1]
    <3> DEFINE c == k + a
               d == k + b
    <3>1. t \in Seq(S) /\ c \in 1 .. Len(t) + 1 /\ d \in c - 1 .. Len(t)
      <4> HIDE DEF w, x, v
      <4> QED BY <1>1, <1>2, <2>1
    <3> HIDE DEF c, d
    <3>2. /\ SubSeq(t, c, d) \in Seq(S) /\ Len(SubSeq(t, c, d)) = d - c + 1
          /\ \A i \in 1 .. d - c + 1 : SubSeq(t, c, d)[i] = t[c + i - 1]
      BY <3>1, PartIs
    <3>3. w = SubSeq(t, c, d) /\ c = k + a /\ d = k + b
      BY DEF c, d
    <3>4. k + b - (k + a) + 1 = d - c + 1 /\ \A i \in 1 .. d - c + 1 : k + a + i - 1 = c + i - 1
      BY <1>1, <3>3 DEF l
    <3> HIDE DEF w
    <3>5. ASSUME NEW i \in 1 .. d - c + 1 PROVE w[i] = t[k + a + i - 1]
      <4>1. w[i] = t[c + i - 1]
        BY <3>2, <3>3
      <4>2. k + a + i - 1 = c + i - 1
        BY <3>4
      <4> QED BY <4>1, <4>2
    <3>6. w \in Seq(S) /\ Len(w) = d - c + 1
      BY <3>2, <3>3
    <3>7. \A i \in 1 .. k + b - (k + a) + 1 : w[i] = t[k + a + i - 1]
      BY ONLY <3>4, <3>5
    <3> QED BY ONLY <3>4, <3>6, <3>7
  <2>3. x \in Seq(S) /\ Len(x) = b - a + 1 /\ \A i \in 1 .. b - a + 1 : x[i] = y[a + i - 1]
    BY PartIs
  <2>4. \A i \in 1 .. b - a + 1 : a + i - 1 \in 1 .. l /\ k + a + i - 1 = k + (a + i - 1)
    BY <1>1 DEF l
  <2> HIDE DEF w, x
  <2>5. \A i \in 1 .. b - a + 1 : w[i] = x[i]
    <3> TAKE i \in 1 .. b - a + 1
    <3>1. w[i] = t[k + (a + i - 1)] /\ x[i] = y[a + i - 1]
      BY <2>1, <2>2, <2>3, <2>4
    <3>2. t[k + (a + i - 1)] = y[a + i - 1]
      BY <1>4, <2>4
    <3> QED BY <3>1, <3>2
  <2> QED BY <2>1, <2>2, <2>3, <2>5, SeqEqual
<1>6. v = u
  <2>1. 1 \in 1 .. Len(t) + 1 /\ k \in 1 - 1 .. Len(t) /\ k - 1 + 1 = k /\ \A i \in 1 .. k : 1 + i - 1 = i
    BY <1>1, <1>2
  <2>2. v \in Seq(S) /\ Len(v) = k - 1 + 1 /\ \A i \in 1 .. k - 1 + 1 : v[i] = t[1 + i - 1]
    BY <1>2, <2>1, PartIs
  <2> HIDE DEF v
  <2>3. \A i \in 1 .. k : v[i] = u[i]
    BY <1>3, <2>1, <2>2
  <2> QED BY <2>1, <2>2, <2>3, SeqEqual DEF k
<1> QED BY <1>3, <1>4, <1>5, <1>6 DEF t, k, l, w, x, v

\* The end of a token is the first place that can be one.
LEMMA TokenEndIs ==
  ASSUME NEW t \in Texts0, NEW delims, NEW p \in 1 .. EndOf(t)
  PROVE  /\ TokenEnd(t, delims, p) \in p .. EndOf(t)
         /\ TokenEnd(t, delims, p) = EndOf(t) \/ t[TokenEnd(t, delims, p)] \in Range(delims)
         /\ \A i \in p .. TokenEnd(t, delims, p) - 1 : t[i] \notin Range(delims)
<1> DEFINE n == EndOf(t)
           D == Range(delims)
           Es == {e \in p .. n : e = n \/ t[e] \in D}
<1>1. n \in Nat \ {0}
  BY TextIs
<1>2. Es \in SUBSET Nat /\ n \in Es
  BY <1>1
<1>3. TokenEnd(t, delims, p) = Min(Es)
  BY DEF TokenEnd
<1> DEFINE m == Min(Es)
<1> HIDE DEF Es
<1>4. m \in Es /\ \A e \in Es : m =< e
  BY <1>2, MinIsIn
<1> HIDE DEF m
<1>5. m \in p .. n /\ (m = n \/ t[m] \in D)
  BY <1>4 DEF Es
<1>6. ASSUME NEW i \in p .. m - 1, t[i] \in D PROVE FALSE
  <2>1. i \in p .. n /\ ~(m =< i)
    BY <1>1, <1>5
  <2>2. i \in Es
    BY <1>6, <2>1 DEF Es
  <2> QED BY <1>4, <2>1, <2>2
<1> QED BY <1>3, <1>5, <1>6 DEF m

LEMMA TokenEndOnly ==
  ASSUME NEW t \in Texts0, NEW delims, NEW p \in 1 .. EndOf(t), NEW e \in p .. EndOf(t),
         e = EndOf(t) \/ t[e] \in Range(delims), \A i \in p .. e - 1 : t[i] \notin Range(delims)
  PROVE  TokenEnd(t, delims, p) = e
<1> DEFINE m == TokenEnd(t, delims, p)
<1>1. EndOf(t) \in Nat
  BY TextIs
<1>2. /\ m \in p .. EndOf(t) /\ (m = EndOf(t) \/ t[m] \in Range(delims))
      /\ \A i \in p .. m - 1 : t[i] \notin Range(delims)
  BY TokenEndIs
<1> HIDE DEF m
<1>3. CASE m < e
  <2>1. m \in p .. e - 1 /\ m # EndOf(t)
    BY <1>1, <1>2, <1>3
  <2> QED BY <1>2, <2>1
<1>4. CASE e < m
  <2>1. e \in p .. m - 1 /\ e # EndOf(t)
    BY <1>1, <1>2, <1>4
  <2> QED BY <1>2, <2>1
<1>5. m \in Int /\ e \in Int
  BY <1>1, <1>2
<1> QED BY <1>3, <1>4, <1>5 DEF m

\* Tokens have characters, none of which is in D.
Tokens0(D) == {s \in Texts0 : s # <<>> /\ \A i \in 1 .. Len(s) : s[i] \notin D}

IsSplit(R, t, delims) ==
  /\ R \in [1 .. EndOf(t) -> Seq(Tokens0(Range(delims)))]
  /\ R[EndOf(t)] = <<>>
  /\ \A p \in 1 .. Len(t) :
       R[p] = IF t[p] \in Range(delims) THEN R[p + 1]
              ELSE <<SubSeq(t, p, TokenEnd(t, delims, p) - 1)>> \o R[TokenEnd(t, delims, p)]

\* A character that is no delimiter starts a token.
LEMMA TokenIs ==
  ASSUME NEW t \in Texts0, NEW delims, NEW p \in 1 .. Len(t), t[p] \notin Range(delims)
  PROVE  /\ TokenEnd(t, delims, p) \in p + 1 .. EndOf(t)
         /\ SubSeq(t, p, TokenEnd(t, delims, p) - 1) \in Tokens0(Range(delims))
<1> DEFINE e == TokenEnd(t, delims, p)
           s == SubSeq(t, p, e - 1)
<1>1. Len(t) \in Nat /\ EndOf(t) = Len(t) + 1 /\ p \in 1 .. EndOf(t)
  BY TextIs
<1>2. /\ e \in p .. EndOf(t) /\ (e = EndOf(t) \/ t[e] \in Range(delims))
      /\ \A i \in p .. e - 1 : t[i] \notin Range(delims)
  BY <1>1, TokenEndIs
<1> HIDE DEF e
<1>3. e # p
  BY <1>1, <1>2
<1>4. e \in p + 1 .. EndOf(t)
  BY <1>1, <1>2, <1>3
<1>5. p \in 1 .. Len(t) + 1 /\ e - 1 \in p - 1 .. Len(t) /\ e - 1 - p + 1 \in Nat \ {0}
  BY <1>1, <1>4
<1>6. /\ s \in Seq(Chars0) /\ Len(s) = e - 1 - p + 1
      /\ \A i \in 1 .. e - 1 - p + 1 : s[i] = t[p + i - 1]
  BY <1>5, PartIs DEF Texts0
<1>7. \A i \in 1 .. e - 1 - p + 1 : p + i - 1 \in p .. e - 1
  BY <1>1, <1>4
<1> HIDE DEF s
<1>8. s # <<>> /\ \A i \in 1 .. Len(s) : s[i] \notin Range(delims)
  BY <1>2, <1>5, <1>6, <1>7, EmptySeq
<1> QED BY <1>4, <1>6, <1>8 DEF e, s, Tokens0, Texts0

LEMMA SplitIs ==
  ASSUME NEW t \in Texts0, NEW delims
  PROVE  \E R : IsSplit(R, t, delims) /\ native_str_split(t, delims) = R[1]
<1> DEFINE n == EndOf(t)
           D == Range(delims)
           V == Seq(Tokens0(D))
           e(i) == TokenEnd(t, delims, i)
           Body(h, i) == IF i = n THEN <<>> ELSE IF t[i] \in D THEN h[i + 1]
                         ELSE <<SubSeq(t, i, e(i) - 1)>> \o h[e(i)]
           Rec(h) == h = [i \in 1 .. n |-> Body(h, i)]
           G == [f \in [1 .. n -> V] |-> [i \in 1 .. n |-> Body(f, i)]]
           F == CHOOSE h : Rec(h)
<1>1. n \in Nat \ {0} /\ n = Len(t) + 1
  BY TextIs
<1>2. native_str_split(t, delims) = F[1]
  BY DEF native_str_split
<1>3. ASSUME NEW i \in 1 .. n, i # n
      PROVE  /\ i + 1 \in i + 1 .. n /\ i + 1 \in 1 .. n
             /\ t[i] \notin D => /\ e(i) \in i + 1 .. n /\ e(i) \in 1 .. n
                                 /\ SubSeq(t, i, e(i) - 1) \in Tokens0(D)
  <2>1. i \in 1 .. Len(t)
    BY <1>1, <1>3
  <2>2. t[i] \notin D => e(i) \in i + 1 .. n /\ SubSeq(t, i, e(i) - 1) \in Tokens0(D)
    BY <2>1, TokenIs
  <2>3. e(i) \in i + 1 .. n => e(i) \in 1 .. n
    <3> HIDE DEF e, n
    <3> QED BY <1>1
  <2>4. i + 1 \in i + 1 .. n /\ i + 1 \in 1 .. n
    BY <1>1, <2>1
  <2> QED BY <2>2, <2>3, <2>4
<1> HIDE DEF n, D, e
<1>4. <<>> \in V /\ \A x \in Tokens0(D), y \in V : <<x>> \o y \in V
  OBVIOUS
<1> HIDE DEF V
<1>5. ASSUME NEW f, NEW i \in 1 .. n, \A k \in i + 1 .. n : f[k] \in V PROVE Body(f, i) \in V
  BY <1>3, <1>4, <1>5
<1>6. \A f, g \in [1 .. n -> V], i \in 1 .. n : (\A k \in i + 1 .. n : f[k] = g[k]) => Body(f, i) = Body(g, i)
  BY <1>3
<1>7. G \in [[1 .. n -> V] -> [1 .. n -> V]]
  <2>1. \A f \in [1 .. n -> V], i \in 1 .. n : Body(f, i) \in V
    <3> TAKE f \in [1 .. n -> V], i \in 1 .. n
    <3>1. \A k \in i + 1 .. n : f[k] \in V
      <4>1. \A k \in i + 1 .. n : k \in 1 .. n
        BY <1>1
      <4> QED BY <4>1
    <3> HIDE DEF Body
    <3> QED BY <1>5, <3>1
  <2> HIDE DEF Body
  <2> QED BY <2>1
<1>8. FromLater(G, n, V)
  <2> HIDE DEF Body
  <2> QED BY <1>6 DEF FromLater
<1>9. PICK f \in [1 .. n -> V] : G[f] = f
  <2>1. V # {} /\ n \in Nat
    BY <1>1, <1>4
  <2> HIDE DEF G, Body, Rec
  <2>3. Turns(G, n, V)
    BY <1>7, <1>8, <2>1 DEF Turns
  <2> QED BY <2>3, Descends
<1>10. Rec(f)
  <2> HIDE DEF Body
  <2> QED BY <1>9
<1>11. Rec(F)
  <2> HIDE DEF Rec
  <2> QED BY <1>10
<1> HIDE DEF F
<1>12. \A i \in 1 .. n : F[i] = Body(F, i)
  <2> HIDE DEF Body
  <2> QED BY <1>11
<1> DEFINE Bad == {i \in 1 .. n : F[i] \notin V}
<1>13. Bad = {}
  <2>1. Bad \in SUBSET (1 .. n) /\ n \in Nat
    BY <1>1
  <2>2. ASSUME NEW i \in 1 .. n, \A k \in i + 1 .. n : k \notin Bad PROVE i \notin Bad
    <3>1. \A k \in i + 1 .. n : F[k] \in V
      <4>1. \A k \in i + 1 .. n : k \in 1 .. n
        BY <1>1
      <4> QED BY <2>2, <4>1
    <3> HIDE DEF Body
    <3> QED BY <1>5, <1>12, <3>1
  <2> HIDE DEF Bad
  <2> QED BY <2>1, <2>2, NoLast
<1>14. F \in [1 .. n -> V]
  <2>1. F = [i \in 1 .. n |-> F[i]]
    <3> HIDE DEF Body
    <3> QED BY <1>11
  <2> QED BY <1>13, <2>1
<1>15. F[n] = <<>>
  <2>1. n \in 1 .. n
    BY <1>1
  <2> QED BY <1>12, <2>1
<1>16. \A p \in 1 .. Len(t) : F[p] = IF t[p] \in D THEN F[p + 1] ELSE <<SubSeq(t, p, e(p) - 1)>> \o F[e(p)]
  <2> TAKE p \in 1 .. Len(t)
  <2>1. p \in 1 .. n /\ p # n
    BY <1>1
  <2> QED BY <1>12, <2>1
<1>17. IsSplit(F, t, delims)
  BY <1>14, <1>15, <1>16 DEF IsSplit, n, D, V, e
<1> QED BY <1>2, <1>17

LEMMA OneDelimiter == ASSUME NEW d PROVE Range(<<d>>) = {d}
<1>1. DOMAIN <<d>> = {1} /\ <<d>>[1] = d
  OBVIOUS
<1> QED BY <1>1 DEF Range

\* What is kept of the character at i when strings are split at d.
Undelimited(t, d) == [i \in DOMAIN t |-> IF t[i] = d THEN <<>> ELSE <<t[i]>>]

LEMMA UndelimitedIs ==
  ASSUME NEW t \in Texts0, NEW d
  PROVE  /\ Undelimited(t, d) \in Seq(Texts0) /\ Len(Undelimited(t, d)) = Len(t)
         /\ \A i \in 1 .. Len(t) : Undelimited(t, d)[i] = IF t[i] = d THEN <<>> ELSE <<t[i]>>
<1>1. DOMAIN t = 1 .. Len(t) /\ Len(t) \in Nat /\ \A i \in 1 .. Len(t) : t[i] \in Chars0
  BY TextIs DEF Chars0
<1>2. \A c \in Chars0 : <<c>> \in Texts0
  BY DEF Texts0
<1>3. <<>> \in Texts0
  BY DEF Texts0
<1>4. Undelimited(t, d) \in [1 .. Len(t) -> Texts0]
  BY <1>1, <1>2, <1>3 DEF Undelimited
<1>5. Undelimited(t, d) \in Seq(Texts0) /\ Len(Undelimited(t, d)) = Len(t)
  BY <1>1, <1>4
<1> QED BY <1>1, <1>5 DEF Undelimited

\* The tokens hold every character but the delimiters.
LEMMA SplitKeeps ==
  ASSUME NEW t \in Texts0, NEW d, NEW R, IsSplit(R, t, <<d>>)
  PROVE  \A p \in 1 .. EndOf(t) : FlattenSeq(R[p]) = FlattenSeq(SubSeq(Undelimited(t, d), p, Len(t)))
<1> DEFINE n == EndOf(t)
           z == Undelimited(t, d)
           Remains(p) == FlattenSeq(SubSeq(z, p, Len(t)))
           Bad == {p \in 1 .. n : FlattenSeq(R[p]) # Remains(p)}
           e(p) == TokenEnd(t, <<d>>, p)
<1>1. /\ z \in Seq(Texts0) /\ Len(z) = Len(t)
      /\ \A i \in 1 .. Len(t) : z[i] = IF t[i] = d THEN <<>> ELSE <<t[i]>>
  BY UndelimitedIs
<1>2. n = Len(t) + 1 /\ Len(t) \in Nat /\ n \in Nat
  BY TextIs
<1>3. /\ R \in [1 .. n -> Seq(Tokens0({d}))] /\ R[n] = <<>>
      /\ \A p \in 1 .. Len(t) :
           R[p] = IF t[p] = d THEN R[p + 1] ELSE <<SubSeq(t, p, e(p) - 1)>> \o R[e(p)]
  BY OneDelimiter DEF IsSplit
<1>4. Tokens0({d}) \subseteq Texts0
  BY DEF Tokens0
<1>5. \A p \in 1 .. n : R[p] \in Seq(Texts0)
  <2>1. \A x \in Seq(Tokens0({d})) : x \in Seq(Texts0)
    BY <1>4, SeqMonotonic
  <2> QED BY <1>3, <2>1
<1> HIDE DEF z
<1>6. ASSUME NEW p \in 1 .. n, \A k \in p + 1 .. n : k \notin Bad PROVE p \notin Bad
  <2>1. CASE p = n
    <3>1. SubSeq(z, n, Len(t)) = <<>>
      <4>1. n \in 1 .. Len(z) + 1 /\ Len(t) = n - 1
        BY <1>1, <1>2
      <4> QED BY <1>1, <4>1, PartNone
    <3> QED BY <1>3, <2>1, <3>1
  <2>2. CASE p \in 1 .. Len(t) /\ t[p] = d
    <3>1. /\ p \in 1 .. Len(z) /\ p \in 1 .. Len(z) + 1 /\ p + 1 \in p .. Len(z) + 1
          /\ p + 1 \in p + 1 .. n /\ p + 1 \in 1 .. n /\ p + 1 - 1 = p
      BY <1>1, <1>2, <2>2
    <3>2. FlattenSeq(R[p + 1]) = Remains(p + 1)
      BY <1>6, <3>1
    <3>3. Remains(p) = FlattenSeq(SubSeq(z, p, p)) \o Remains(p + 1) /\ Remains(p + 1) \in Texts0
      <4> DEFINE q == p + 1
      <4>1. q \in p .. Len(z) + 1 /\ q - 1 = p /\ p \in 1 .. Len(z) + 1
        BY <3>1
      <4> HIDE DEF q
      <4>2. /\ FlattenSeq(SubSeq(z, p, Len(z))) = FlattenSeq(SubSeq(z, p, q - 1)) \o FlattenSeq(SubSeq(z, q, Len(z)))
            /\ FlattenSeq(SubSeq(z, q, Len(z))) \in Seq(Chars0)
        BY <1>1, <4>1, FlattenFrom DEF Texts0
      <4> QED BY <1>1, <4>1, <4>2 DEF q, Texts0
    <3>4. SubSeq(z, p, p) = << <<>> >>
      BY <1>1, <2>2, <3>1, PartOne
    <3>5. FlattenSeq(<< <<>> >>) = <<>>
      BY FlattenOne
    <3>6. <<>> \o Remains(p + 1) = Remains(p + 1)
      <4> DEFINE y == Remains(p + 1)
      <4>1. y \in Seq(Chars0)
        BY <3>3 DEF Texts0
      <4> HIDE DEF y
      <4> QED BY <4>1, ConcatEmptySeq DEF y
    <3>7. R[p] = R[p + 1]
      BY <1>3, <2>2
    <3>8. Remains(p) = Remains(p + 1)
      BY <3>3, <3>4, <3>5, <3>6
    <3> HIDE DEF Remains
    <3> QED BY <3>2, <3>7, <3>8
  <2>3. CASE p \in 1 .. Len(t) /\ t[p] # d
    <3>1. e(p) \in p + 1 .. n /\ SubSeq(t, p, e(p) - 1) \in Tokens0({d})
      BY <2>3, OneDelimiter, TokenIs
    <3>2. /\ TokenEnd(t, <<d>>, p) \in p .. EndOf(t)
          /\ \A i \in p .. e(p) - 1 : t[i] # d
      <4>1. p \in 1 .. EndOf(t)
        BY <1>2, <2>3
      <4> QED BY <4>1, OneDelimiter, TokenEndIs
    <3> DEFINE m == e(p)
    <3>3. m \in p + 1 .. n /\ SubSeq(t, p, m - 1) \in Tokens0({d}) /\ \A i \in p .. m - 1 : t[i] # d
      BY <3>1, <3>2
    <3>4. R[p] = <<SubSeq(t, p, m - 1)>> \o R[m]
      BY <1>3, <2>3
    <3> HIDE DEF m
    <3>5. /\ p \in 1 .. Len(z) + 1 /\ m \in p .. Len(z) + 1 /\ m \in 1 .. n
          /\ p \in 1 .. Len(t) + 1 /\ m - 1 \in p - 1 .. Len(t)
      BY <1>1, <1>2, <2>3, <3>3
    <3>6. FlattenSeq(R[m]) = Remains(m)
      BY <1>6, <3>3, <3>5
    <3>7. Remains(p) = FlattenSeq(SubSeq(z, p, m - 1)) \o Remains(m)
      BY <1>1, <3>5, FlattenFrom DEF Texts0
    <3>8. FlattenSeq(SubSeq(z, p, m - 1)) = SubSeq(t, p, m - 1)
      <4>0. \A i \in p .. m - 1 : i \in 1 .. Len(t)
        BY <1>2, <3>5
      <4>1. \A i \in p .. m - 1 : z[i] = <<t[i]>>
        BY <1>1, <3>3, <4>0
      <4> QED BY <1>1, <3>5, <4>1, FlattenPart DEF Texts0
    <3>9. FlattenSeq(R[p]) = SubSeq(t, p, m - 1) \o FlattenSeq(R[m])
      <4>1. SubSeq(t, p, m - 1) \in Texts0 /\ R[m] \in Seq(Texts0)
        BY <1>4, <1>5, <3>3, <3>5
      <4> QED BY <3>4, <4>1, FlattenOnTop DEF Texts0
    <3> HIDE DEF Remains
    <3> QED BY <3>6, <3>7, <3>8, <3>9
  <2>4. p = n \/ p \in 1 .. Len(t)
    BY <1>2
  <2> QED BY <2>1, <2>2, <2>3, <2>4
<1>7. Bad \in SUBSET (1 .. n)
  OBVIOUS
<1>8. Bad = {}
  <2> HIDE DEF Bad
  <2> QED BY <1>2, <1>6, <1>7, NoLast
<1> QED BY <1>8 DEF z

\* How a string is split behind another one.
LEMMA SplitShift ==
  ASSUME NEW u \in Texts0, NEW y \in Texts0, NEW d, NEW R, IsSplit(R, u \o y, <<d>>), NEW Q, IsSplit(Q, y, <<d>>)
  PROVE  \A p \in 1 .. EndOf(y) : R[Len(u) + p] = Q[p]
<1> DEFINE t == u \o y
           k == Len(u)
           l == Len(y)
           Bad == {p \in 1 .. l + 1 : R[k + p] # Q[p]}
<1>1. k \in Nat /\ l \in Nat /\ EndOf(y) = l + 1
  BY TextIs
<1>2. t \in Texts0 /\ Len(t) = k + l /\ EndOf(t) = k + l + 1
  <2>1. t \in Texts0 /\ Len(t) = k + l
    BY ConcatProperties DEF Texts0
  <2> HIDE DEF t, k, l
  <2> QED BY <2>1 DEF EndOf
<1>3. \A i \in 1 .. l : t[k + i] = y[i]
  <2>1. 1 \in 1 .. Len(y) + 1 /\ 0 \in 1 - 1 .. Len(y)
    BY <1>1
  <2> QED BY <2>1, PartOfCat DEF Texts0
<1>4. ASSUME NEW a \in 1 .. l + 1, NEW b \in a - 1 .. l PROVE SubSeq(t, k + a, k + b) = SubSeq(y, a, b)
  BY PartOfCat DEF Texts0
<1>5. /\ R[EndOf(t)] = <<>>
      /\ \A p \in 1 .. Len(t) :
           R[p] = IF t[p] = d THEN R[p + 1]
                  ELSE <<SubSeq(t, p, TokenEnd(t, <<d>>, p) - 1)>> \o R[TokenEnd(t, <<d>>, p)]
  BY OneDelimiter DEF IsSplit
<1>6. /\ Q[EndOf(y)] = <<>>
      /\ \A p \in 1 .. l :
           Q[p] = IF y[p] = d THEN Q[p + 1]
                  ELSE <<SubSeq(y, p, TokenEnd(y, <<d>>, p) - 1)>> \o Q[TokenEnd(y, <<d>>, p)]
  BY OneDelimiter DEF IsSplit
<1> HIDE DEF t, k, l
<1>7. ASSUME NEW p \in 1 .. l + 1, \A j \in p + 1 .. l + 1 : j \notin Bad PROVE p \notin Bad
  <2>1. CASE p = l + 1
    <3>1. k + p = EndOf(t)
      BY <1>1, <1>2, <2>1
    <3> QED BY <1>1, <1>5, <1>6, <2>1, <3>1
  <2>2. ASSUME p \in 1 .. l PROVE R[k + p] = Q[p]
    <3> DEFINE q == k + p
    <3>1. q \in 1 .. Len(t) /\ t[q] = y[p] /\ q + 1 = k + (p + 1) /\ p + 1 \in p + 1 .. l + 1 /\ p + 1 \in 1 .. l + 1
      BY <1>1, <1>2, <1>3, <2>2
    <3>2. q = k + p
      OBVIOUS
    <3> HIDE DEF q
    <3>3. CASE y[p] = d
      <4>1. R[q] = R[q + 1] /\ Q[p] = Q[p + 1]
        BY <1>5, <1>6, <2>2, <3>1, <3>3
      <4>2. R[k + (p + 1)] = Q[p + 1]
        BY <1>7, <3>1
      <4> QED BY <3>1, <3>2, <4>1, <4>2
    <3>4. CASE y[p] # d
      <4> DEFINE m == TokenEnd(y, <<d>>, p)
      <4>1. m \in p + 1 .. l + 1 /\ (m = l + 1 \/ y[m] = d) /\ \A i \in p .. m - 1 : y[i] # d
        <5>1. p \in 1 .. EndOf(y) /\ y[p] \notin Range(<<d>>) /\ p \in 1 .. Len(y)
          BY <1>1, <2>2, <3>4, OneDelimiter DEF l
        <5>2. m \in p + 1 .. EndOf(y)
          BY <5>1, TokenIs
        <5>3. (m = EndOf(y) \/ y[m] \in Range(<<d>>)) /\ \A i \in p .. m - 1 : y[i] \notin Range(<<d>>)
          BY <5>1, TokenEndIs
        <5> HIDE DEF m
        <5> QED BY <1>1, <5>2, <5>3, OneDelimiter
      <4>2. Q[p] = <<SubSeq(y, p, m - 1)>> \o Q[m]
        BY <1>6, <2>2, <3>4
      <4> HIDE DEF m
      <4> DEFINE e == k + m
      <4>3. e \in q .. EndOf(t) /\ (e = EndOf(t) \/ t[e] = d)
        <5>1. e \in q .. EndOf(t) /\ (m = l + 1 => e = EndOf(t)) /\ (m # l + 1 => m \in 1 .. l)
          BY <1>1, <1>2, <2>2, <3>2, <4>1
        <5>2. m # l + 1 => t[k + m] = d
          BY <1>3, <4>1, <5>1
        <5> QED BY <5>1, <5>2
      <4>4. ASSUME NEW i \in q .. e - 1 PROVE t[i] # d
        <5> DEFINE j == i - k
        <5>1. j \in p .. m - 1 /\ j \in 1 .. l /\ k + j = i
          BY <1>1, <2>2, <3>2, <4>1
        <5> HIDE DEF j
        <5>2. t[k + j] = y[j] /\ y[j] # d
          BY <1>3, <4>1, <5>1
        <5> QED BY <5>1, <5>2
      <4>5. e = k + m
        OBVIOUS
      <4> HIDE DEF e
      <4>6. TokenEnd(t, <<d>>, q) = e
        <5>1. q \in 1 .. EndOf(t) /\ Range(<<d>>) = {d}
          BY <1>1, <1>2, <3>1, OneDelimiter
        <5>2. (e = EndOf(t) \/ t[e] \in Range(<<d>>)) /\ \A i \in q .. e - 1 : t[i] \notin Range(<<d>>)
          BY <4>3, <4>4, <5>1
        <5> QED BY <1>2, <4>3, <5>1, <5>2, TokenEndOnly
      <4>7. R[q] = <<SubSeq(t, q, e - 1)>> \o R[e]
        BY <1>5, <3>1, <3>4, <4>6
      <4>8. SubSeq(t, q, e - 1) = SubSeq(y, p, m - 1)
        <5>1. m - 1 \in p - 1 .. l /\ e - 1 = k + (m - 1)
          BY <1>1, <2>2, <4>1, <4>5
        <5>2. SubSeq(t, k + p, k + (m - 1)) = SubSeq(y, p, m - 1)
          BY <1>4, <5>1
        <5> QED BY <3>2, <5>1, <5>2
      <4>9. R[e] = Q[m]
        <5>1. m \in 1 .. l + 1
          BY <1>1, <2>2, <4>1
        <5> QED BY <1>7, <4>1, <4>5, <5>1
      <4> QED BY <3>2, <4>2, <4>7, <4>8, <4>9
    <3> QED BY <3>3, <3>4
  <2>3. p = l + 1 \/ p \in 1 .. l
    BY <1>1
  <2> QED BY <2>1, <2>2, <2>3
<1>8. Bad = {}
  <2>1. Bad \in SUBSET (1 .. l + 1) /\ l + 1 \in Nat
    BY <1>1
  <2> HIDE DEF Bad
  <2> QED BY <1>7, <2>1, NoLast
<1> QED BY <1>1, <1>8 DEF k

\* What a string that starts with a token or with a delimiter is split into.
LEMMA SplitToken ==
  ASSUME NEW d, NEW x \in Tokens0({d}), NEW y \in Texts0, y = <<>> \/ y[1] = d
  PROVE  native_str_split(x \o y, <<d>>) = <<x>> \o native_str_split(y, <<d>>)
<1> DEFINE t == x \o y
           k == Len(x)
<1>1. x \in Texts0 /\ x # <<>> /\ \A i \in 1 .. Len(x) : x[i] # d
  BY DEF Tokens0
<1>2. k \in Nat \ {0} /\ Len(y) \in Nat /\ EndOf(y) = Len(y) + 1
  BY <1>1, EmptySeq, TextIs DEF Texts0
<1>3. t \in Texts0 /\ Len(t) = k + Len(y)
  BY <1>1, ConcatProperties DEF Texts0
<1>4. /\ SubSeq(t, 1, k) = x /\ \A i \in 1 .. k : t[i] = x[i]
      /\ \A i \in 1 .. Len(y) : t[k + i] = y[i]
  <2>1. 1 \in 1 .. Len(y) + 1 /\ 0 \in 1 - 1 .. Len(y)
    BY <1>2
  <2> QED BY <1>1, <2>1, PartOfCat DEF Texts0
<1>5. PICK R : IsSplit(R, t, <<d>>) /\ native_str_split(t, <<d>>) = R[1]
  BY <1>3, SplitIs
<1>6. PICK Q : IsSplit(Q, y, <<d>>) /\ native_str_split(y, <<d>>) = Q[1]
  BY SplitIs
<1>7. R[k + 1] = Q[1]
  <2>1. 1 \in 1 .. EndOf(y)
    BY <1>2
  <2> QED BY <1>1, <1>5, <1>6, <2>1, SplitShift
<1> HIDE DEF t
<1>8. EndOf(t) = k + Len(y) + 1
  BY <1>3, TextIs
<1>9. TokenEnd(t, <<d>>, 1) = k + 1
  <2>1. 1 \in 1 .. EndOf(t) /\ k + 1 \in 1 .. EndOf(t) /\ k + 1 - 1 = k
    BY <1>2, <1>8
  <2>2. k + 1 = EndOf(t) \/ t[k + 1] = d
    <3>1. CASE y = <<>>
      BY <1>8, <3>1
    <3>2. CASE y # <<>> /\ y[1] = d
      <4>1. 1 \in 1 .. Len(y)
        BY <3>2, EmptySeq DEF Texts0
      <4> QED BY <1>4, <3>2, <4>1
    <3> QED BY <3>1, <3>2
  <2>3. \A i \in 1 .. k + 1 - 1 : t[i] # d
    BY <1>1, <1>4, <2>1
  <2>4. (k + 1 = EndOf(t) \/ t[k + 1] \in Range(<<d>>)) /\ \A i \in 1 .. k + 1 - 1 : t[i] \notin Range(<<d>>)
    BY <2>2, <2>3, OneDelimiter
  <2> DEFINE e == k + 1
  <2>5. 1 \in 1 .. EndOf(t) /\ e \in 1 .. EndOf(t)
    BY <2>1
  <2>6. (e = EndOf(t) \/ t[e] \in Range(<<d>>)) /\ \A i \in 1 .. e - 1 : t[i] \notin Range(<<d>>)
    BY <2>4
  <2> HIDE DEF e
  <2>7. TokenEnd(t, <<d>>, 1) = e
    BY <1>3, <2>5, <2>6, TokenEndOnly
  <2> QED BY <2>7 DEF e
<1>10. 1 \in 1 .. Len(t) /\ t[1] # d /\ k + 1 - 1 = k
  <2>1. 1 \in 1 .. k /\ 1 \in 1 .. Len(t)
    BY <1>2, <1>3
  <2> QED BY <1>1, <1>2, <1>4, <2>1
<1>11. R[1] = <<SubSeq(t, 1, k + 1 - 1)>> \o R[k + 1]
  <2> DEFINE e == TokenEnd(t, <<d>>, 1)
  <2>1. \A p \in 1 .. Len(t) :
          R[p] = IF t[p] \in Range(<<d>>) THEN R[p + 1]
                 ELSE <<SubSeq(t, p, TokenEnd(t, <<d>>, p) - 1)>> \o R[TokenEnd(t, <<d>>, p)]
    BY <1>5 DEF IsSplit
  <2>2. t[1] \notin Range(<<d>>)
    BY <1>10, OneDelimiter
  <2>3. R[1] = <<SubSeq(t, 1, e - 1)>> \o R[e]
    BY <1>10, <2>1, <2>2
  <2>4. e = k + 1
    BY <1>9
  <2> HIDE DEF e
  <2> QED BY <2>3, <2>4
<1> QED BY <1>4, <1>5, <1>6, <1>7, <1>10, <1>11 DEF t

LEMMA SplitDelimiter ==
  ASSUME NEW d \in Chars0, NEW y \in Texts0
  PROVE  native_str_split(<<d>> \o y, <<d>>) = native_str_split(y, <<d>>)
<1> DEFINE u == <<d>>
           t == u \o y
<1>1. u \in Texts0 /\ Len(u) = 1 /\ u[1] = d
  BY DEF Texts0
<1> HIDE DEF u
<1>2. t \in Texts0 /\ Len(t) = 1 + Len(y) /\ Len(y) \in Nat /\ EndOf(y) = Len(y) + 1
  <2>1. u \in Seq(Chars0) /\ y \in Seq(Chars0)
    BY <1>1 DEF Texts0
  <2>2. t \in Seq(Chars0) /\ Len(t) = Len(u) + Len(y)
    BY <2>1, ConcatProperties
  <2>3. Len(y) \in Nat /\ EndOf(y) = Len(y) + 1
    BY TextIs
  <2> HIDE DEF t
  <2> QED BY <1>1, <2>2, <2>3 DEF Texts0
<1>3. \A i \in 1 .. Len(u) : t[i] = u[i]
  <2>1. 1 \in 1 .. Len(y) + 1 /\ 0 \in 1 - 1 .. Len(y)
    BY <1>2
  <2> QED BY <1>1, <2>1, PartOfCat DEF Texts0
<1>4. 1 \in 1 .. Len(t) /\ t[1] = d /\ 1 + 1 = 2
  BY <1>1, <1>2, <1>3
<1>5. PICK R : IsSplit(R, t, <<d>>) /\ native_str_split(t, <<d>>) = R[1]
  BY <1>2, SplitIs
<1>6. PICK Q : IsSplit(Q, y, <<d>>) /\ native_str_split(y, <<d>>) = Q[1]
  BY SplitIs
<1>7. R[1 + 1] = Q[1]
  <2>1. 1 \in 1 .. EndOf(y)
    BY <1>2
  <2>3. u \in Texts0 /\ y \in Texts0 /\ IsSplit(R, u \o y, <<d>>) /\ IsSplit(Q, y, <<d>>)
    BY <1>1, <1>5, <1>6
  <2>4. \A p \in 1 .. EndOf(y) : R[Len(u) + p] = Q[p]
    BY ONLY <2>3, SplitShift
  <2>2. R[Len(u) + 1] = Q[1]
    BY <2>1, <2>4
  <2> QED BY <1>1, <2>2
<1>8. R[1] = R[1 + 1]
  BY <1>4, <1>5, OneDelimiter DEF IsSplit
<1> QED BY <1>5, <1>6, <1>7, <1>8 DEF u

LEMMA SplitNothing == ASSUME NEW d PROVE native_str_split(<<>>, <<d>>) = <<>>
<1>1. <<>> \in Texts0 /\ EndOf(<<>>) = 1
  BY DEF Texts0, EndOf
<1>2. PICK R : IsSplit(R, <<>>, <<d>>) /\ native_str_split(<<>>, <<d>>) = R[1]
  BY <1>1, SplitIs
<1> QED BY <1>1, <1>2 DEF IsSplit

\* Tokens that are joined are split again.
LEMMA SplitJoined ==
  ASSUME NEW d \in Chars0, NEW parts \in Seq(Tokens0({d})), parts # <<>>
  PROVE  native_str_split(native_str_join(<<d>>, parts), <<d>>) = parts
<1> DEFINE k == Len(parts)
           seps == [i \in DOMAIN parts |-> IF i < Len(parts) THEN parts[i] \o <<d>> ELSE parts[i]]
           J(i) == FlattenSeq(SubSeq(seps, i, k))
           split(s) == native_str_split(s, <<d>>)
           Bad == {i \in 1 .. k + 1 : split(J(i)) # SubSeq(parts, i, k)}
           T == Tokens0({d})
<1>1. k \in Nat /\ DOMAIN parts = 1 .. k /\ \A i \in 1 .. k : parts[i] \in T
  OBVIOUS
<1>2. \A x \in T : x \in Texts0 /\ x \o <<d>> \in Texts0
  <2> TAKE x \in T
  <2>1. x \in Seq(Chars0) /\ <<d>> \in Seq(Chars0)
    BY DEF Tokens0, Texts0
  <2> QED BY <2>1, ConcatProperties DEF Texts0
<1>3. \A i \in 1 .. k : seps[i] = IF i < k THEN parts[i] \o <<d>> ELSE parts[i]
  BY <1>1
<1>4. seps \in Seq(Texts0) /\ Len(seps) = k
  <2>1. seps \in [1 .. k -> Texts0]
    BY <1>1, <1>2
  <2> HIDE DEF seps, k
  <2> QED BY <1>1, <2>1
<1> HIDE DEF seps, k, T
<1>5. J(k + 1) = <<>> /\ \A i \in 1 .. k + 1 : J(i) \in Texts0
  <2>1. SubSeq(seps, k + 1, k) = <<>>
    <3> DEFINE a == k + 1
    <3>1. a \in 1 .. Len(seps) + 1 /\ a - 1 = k
      BY <1>1, <1>4
    <3> HIDE DEF a
    <3>2. SubSeq(seps, a, a - 1) = <<>>
      BY <1>4, <3>1, PartNone
    <3> QED BY <3>1, <3>2 DEF a
  <2>2. ASSUME NEW i \in 1 .. k + 1 PROVE J(i) \in Texts0
    <3>1. i \in 1 .. Len(seps) + 1 /\ k \in i - 1 .. Len(seps)
      BY <1>1, <1>4
    <3>2. SubSeq(seps, i, k) \in Seq(Texts0) /\ <<>> \in Seq(Texts0)
      BY <1>4, <3>1, PartIs
    <3> QED BY <3>2, FlattenCat DEF Texts0
  <2> QED BY <2>1, <2>2, FlattenNone
<1>6. ASSUME NEW i \in 1 .. k
      PROVE  J(i) = parts[i] \o (IF i < k THEN <<d>> \o J(i + 1) ELSE <<>>)
  <2> DEFINE q == i + 1
  <2>1. /\ i \in 1 .. Len(seps) /\ i \in 1 .. Len(seps) + 1 /\ q \in i .. Len(seps) + 1 /\ q - 1 = i
        /\ q \in 1 .. k + 1 /\ (i < k \/ q = k + 1)
    BY <1>1, <1>4
  <2>2. q = i + 1
    OBVIOUS
  <2> HIDE DEF q
  <2>3. FlattenSeq(SubSeq(seps, i, Len(seps))) = FlattenSeq(SubSeq(seps, i, q - 1)) \o FlattenSeq(SubSeq(seps, q, Len(seps)))
    BY <1>4, <2>1, FlattenFrom DEF Texts0
  <2>4. SubSeq(seps, i, q - 1) = <<seps[i]>>
    BY <1>4, <2>1, PartOne
  <2>5. J(i) = seps[i] \o J(q)
    BY <1>4, <2>3, <2>4, FlattenOne
  <2>6. parts[i] \in Seq(Chars0) /\ <<d>> \in Seq(Chars0) /\ J(q) \in Seq(Chars0)
    <3>1. J(q) \in Texts0 /\ parts[i] \in Texts0
      BY <1>1, <1>2, <1>5, <2>1
    <3> QED BY <3>1 DEF Texts0
  <2>7. CASE i < k
    <3> HIDE DEF J
    <3>1. J(i) = (parts[i] \o <<d>>) \o J(q)
      BY <1>3, <2>5, <2>7
    <3>2. (parts[i] \o <<d>>) \o J(q) = parts[i] \o (<<d>> \o J(q))
      <4> DEFINE a == parts[i]
                 b == <<d>>
                 c == J(q)
      <4>1. a \in Seq(Chars0) /\ b \in Seq(Chars0) /\ c \in Seq(Chars0)
        BY <2>6
      <4> HIDE DEF a, b, c
      <4>2. (a \o b) \o c = a \o (b \o c)
        BY <4>1, ConcatAssociative
      <4> QED BY <4>2 DEF a, b, c
    <3> QED BY <2>2, <2>7, <3>1, <3>2
  <2>8. CASE ~(i < k)
    <3>1. J(q) = <<>>
      BY <1>5, <2>1, <2>8
    <3> QED BY <1>3, <2>5, <2>8, <3>1
  <2> QED BY <2>7, <2>8
<1> HIDE DEF J, split
<1>7. ASSUME NEW i \in 1 .. k + 1, \A j \in i + 1 .. k + 1 : j \notin Bad PROVE i \notin Bad
  <2>1. CASE i = k + 1
    <3>1. split(J(i)) = <<>>
      BY <1>5, <2>1, SplitNothing DEF split
    <3>2. SubSeq(parts, i, k) = <<>>
      <4>1. i \in 1 .. Len(parts) + 1 /\ i - 1 = k
        BY <1>1, <2>1 DEF k
      <4>2. SubSeq(parts, i, i - 1) = <<>>
        BY <4>1, PartNone
      <4> QED BY <4>1, <4>2
    <3> QED BY <3>1, <3>2
  <2>2. ASSUME i \in 1 .. k PROVE split(J(i)) = SubSeq(parts, i, k)
    <3> DEFINE y == IF i < k THEN <<d>> \o J(i + 1) ELSE <<>>
               q == i + 1
    <3>1. /\ q \in i + 1 .. k + 1 /\ q \in 1 .. k + 1 /\ (i < k \/ q = k + 1)
          /\ i \in 1 .. Len(parts) /\ i \in 1 .. Len(parts) + 1 /\ i \in i - 1 .. Len(parts) /\ k \in i .. Len(parts)
      BY <1>1, <2>2 DEF k
    <3>2. split(J(q)) = SubSeq(parts, q, k)
      BY <1>7, <3>1
    <3>3. J(q) \in Seq(Chars0)
      BY <1>5, <3>1 DEF Texts0
    <3>4. q = i + 1
      OBVIOUS
    <3> HIDE DEF q
    <3>5. y \in Texts0 /\ (y = <<>> \/ y[1] = d)
      <4> DEFINE b == <<d>>
                 c == J(q)
      <4>1. b \in Seq(Chars0) /\ Len(b) = 1 /\ b[1] = d /\ c \in Seq(Chars0)
        BY <3>3
      <4> HIDE DEF b, c
      <4>2. b \o c \in Seq(Chars0) /\ (b \o c)[1] = d
        <5>1. 1 \in 1 .. Len(b) + Len(c) /\ 1 <= Len(b)
          BY <4>1
        <5> QED BY <4>1, <5>1, ConcatProperties
      <4>3. y = IF i < k THEN b \o c ELSE <<>>
        BY <3>4 DEF b, c
      <4> HIDE DEF y
      <4> QED BY <4>2, <4>3, EmptySeq DEF Texts0
    <3>6. split(y) = split(J(q))
      <4>1. CASE i < k
        BY <3>3, <3>4, <4>1, SplitDelimiter DEF split, Texts0
      <4>2. CASE ~(i < k)
        BY <1>5, <3>1, <4>2
      <4> QED BY <4>1, <4>2
    <3>7. J(i) = parts[i] \o y
      BY <1>6, <2>2
    <3> HIDE DEF y
    <3>8. split(parts[i] \o y) = <<parts[i]>> \o split(y)
      <4>1. parts[i] \in Tokens0({d})
        BY <1>1, <2>2 DEF T
      <4> QED BY <3>5, <4>1, SplitToken DEF split
    <3>9. <<parts[i]>> \o SubSeq(parts, q, k) = SubSeq(parts, i, k)
      <4>1. SubSeq(parts, i, i) = <<parts[i]>>
        BY <3>1, PartOne
      <4>2. SubSeq(parts, i, i) \o SubSeq(parts, i + 1, k) = SubSeq(parts, i, k)
        BY <3>1, PartsJoin
      <4> QED BY <3>4, <4>1, <4>2
    <3> QED BY <3>2, <3>6, <3>7, <3>8, <3>9
  <2>3. i = k + 1 \/ i \in 1 .. k
    BY <1>1
  <2> QED BY <2>1, <2>2, <2>3
<1>8. Bad = {}
  <2>1. Bad \in SUBSET (1 .. k + 1) /\ k + 1 \in Nat
    BY <1>1
  <2> HIDE DEF Bad
  <2> QED BY <1>7, <2>1, NoLast
<1>9. 1 \in 1 .. k + 1
  BY <1>1
<1>10. split(J(1)) = SubSeq(parts, 1, k)
  BY <1>8, <1>9
<1>11. SubSeq(parts, 1, k) = parts
  BY PartAll DEF k
<1>12. native_str_join(<<d>>, parts) = J(1)
  <2>1. SubSeq(seps, 1, k) = seps
    BY <1>4, PartAll
  <2> QED BY <2>1 DEF native_str_join, J, seps
<1> QED BY <1>10, <1>11, <1>12 DEF split

LEMMA SplitsAndJoins == ASSUME source \in Texts0 PROVE SplitUndoesJoin
<1> SUFFICES ASSUME NEW d \in Range(source)
             PROVE  LET parts == native_str_split(source, <<d>>) IN
                    /\ parts # <<>> => native_str_split(native_str_join(<<d>>, parts), <<d>>) = parts
                    /\ FlattenSeq(parts) =
                         FlattenSeq([p \in DOMAIN source |-> IF source[p] = d THEN <<>> ELSE <<source[p]>>])
  BY DEF SplitUndoesJoin
<1>1. d \in Chars0
  <2>1. PICK i \in DOMAIN source : d = source[i]
    BY DEF Range
  <2> QED BY <2>1, TextIs DEF Chars0
<1>2. PICK R : IsSplit(R, source, <<d>>) /\ native_str_split(source, <<d>>) = R[1]
  BY SplitIs
<1>3. 1 \in 1 .. EndOf(source) /\ Len(source) \in Nat
  BY TextIs
<1>4. R[1] \in Seq(Tokens0({d}))
  BY <1>2, <1>3, OneDelimiter DEF IsSplit
<1>5. R[1] # <<>> => native_str_split(native_str_join(<<d>>, R[1]), <<d>>) = R[1]
  BY <1>1, <1>4, SplitJoined
<1>6. FlattenSeq(R[1]) = FlattenSeq(SubSeq(Undelimited(source, d), 1, Len(source)))
  BY <1>2, <1>3, SplitKeeps
<1>7. SubSeq(Undelimited(source, d), 1, Len(source)) = Undelimited(source, d)
  BY UndelimitedIs, PartAll
<1> QED BY <1>2, <1>5, <1>6, <1>7 DEF Undelimited

-----------------------------------------------------------------------------
(* Strings: searches.                                                          *)

LEMMA StandsWhen ==
  ASSUME NEW t \in Texts0, NEW n \in Texts0, NEW p \in Int,
         \A i \in 1 .. Len(n) : p + i - 1 \in 1 .. Len(t) /\ t[p + i - 1] = n[i]
  PROVE  StandsAt(n, t, p)
<1>1. DOMAIN n = 1 .. Len(n)
  BY TextIs
<1> QED BY <1>1 DEF StandsAt, CharAt

\* What stands in a string is a part of it.
LEMMA StandsPart ==
  ASSUME NEW t \in Texts0, NEW n \in Texts0, n # <<>>, NEW p \in 1 .. EndOf(t), StandsAt(n, t, p)
  PROVE  /\ Len(n) \in Nat \ {0} /\ p \in 1 .. Len(t)
         /\ p + Len(n) \in p + 1 .. EndOf(t)
         /\ SubSeq(t, p, p + Len(n) - 1) = n
<1> DEFINE k == Len(n)
           b == p + k - 1
           w == SubSeq(t, p, b)
<1>1. k \in Nat \ {0} /\ Len(t) \in Nat /\ EndOf(t) = Len(t) + 1
  BY EmptySeq, TextIs DEF Texts0
<1>2. p + k \in p .. EndOf(t) /\ \A i \in 1 .. k : t[p + i - 1] = n[i]
  BY StandsIn
<1> HIDE DEF k
<1>3. b \in p - 1 .. Len(t) /\ p \in 1 .. Len(t) + 1 /\ b - p + 1 = k
  BY <1>1, <1>2
<1> HIDE DEF b
<1>4. w \in Seq(Chars0) /\ Len(w) = b - p + 1 /\ \A i \in 1 .. b - p + 1 : w[i] = t[p + i - 1]
  BY <1>3, PartIs DEF Texts0
<1> HIDE DEF w
<1>5. Len(w) = k /\ \A i \in 1 .. k : w[i] = n[i]
  BY <1>2, <1>3, <1>4
<1>6. w = n
  BY <1>4, <1>5, SeqEqual DEF Texts0, k
<1> QED BY <1>1, <1>2, <1>3, <1>6 DEF k, b, w

\* A search finds the first place from p on.
LEMMA SearchIs ==
  ASSUME NEW t \in Texts0, NEW n \in Texts0, n # <<>>, NEW p \in 1 .. EndOf(t)
  PROVE  \/ /\ strstr(t, n, p) = NoPlace
            /\ \A q \in p .. EndOf(t) : ~StandsAt(n, t, q)
         \/ /\ strstr(t, n, p) \in p .. EndOf(t) /\ strstr(t, n, p) # NoPlace
            /\ StandsAt(n, t, strstr(t, n, p))
            /\ \A q \in p .. strstr(t, n, p) - 1 : ~StandsAt(n, t, q)
<1> DEFINE P == PlacesFrom(t, n, p)
           m == Min(P)
<1>1. EndOf(t) \in Nat
  BY TextIs
<1>2. P = {q \in p .. EndOf(t) : StandsAt(n, t, q)} /\ P \in SUBSET Nat
  BY <1>1 DEF PlacesFrom
<1>3. strstr(t, n, p) = IF P = {} THEN NoPlace ELSE m
  BY DEF strstr
<1> HIDE DEF P
<1>4. CASE P = {}
  BY <1>2, <1>3, <1>4
<1>5. CASE P # {}
  <2>1. m \in P /\ \A q \in P : m =< q
    BY <1>2, <1>5, MinIsIn
  <2> HIDE DEF m
  <2>2. m \in p .. EndOf(t) /\ StandsAt(n, t, m)
    BY <1>2, <2>1
  <2>3. ASSUME NEW q \in p .. m - 1 PROVE ~StandsAt(n, t, q)
    <3>1. q \in p .. EndOf(t) /\ ~(m =< q)
      BY <1>1, <2>2
    <3> QED BY <1>2, <2>1, <3>1
  <2>4. m # NoPlace
    BY <2>2 DEF NoPlace
  <2> QED BY <1>3, <1>5, <2>2, <2>3, <2>4
<1> QED BY <1>4, <1>5

IsReplaced(R, t, n, r) ==
  /\ R \in [1 .. EndOf(t) -> Texts0]
  /\ \A p \in 1 .. EndOf(t) :
       R[p] = IF strstr(t, n, p) = NoPlace THEN SubSeq(t, p, Len(t))
              ELSE SubSeq(t, p, strstr(t, n, p) - 1) \o r \o R[strstr(t, n, p) + Len(n)]

\* What a search finds, and where it goes on.
LEMMA FoundIs ==
  ASSUME NEW t \in Texts0, NEW n \in Texts0, n # <<>>, NEW p \in 1 .. EndOf(t), strstr(t, n, p) # NoPlace
  PROVE  /\ strstr(t, n, p) \in p .. Len(t) /\ StandsAt(n, t, strstr(t, n, p))
         /\ \A q \in p .. strstr(t, n, p) - 1 : ~StandsAt(n, t, q)
         /\ strstr(t, n, p) + Len(n) \in p + 1 .. EndOf(t)
         /\ strstr(t, n, p) + Len(n) \in 1 .. EndOf(t)
         /\ SubSeq(t, p, strstr(t, n, p) - 1) \in Texts0
         /\ SubSeq(t, strstr(t, n, p), strstr(t, n, p) + Len(n) - 1) = n
<1> DEFINE m == strstr(t, n, p)
<1>1. /\ m \in p .. EndOf(t) /\ StandsAt(n, t, m)
      /\ \A q \in p .. m - 1 : ~StandsAt(n, t, q)
  BY SearchIs
<1> HIDE DEF m
<1>2. EndOf(t) = Len(t) + 1 /\ Len(t) \in Nat
  BY TextIs
<1>3. m \in 1 .. EndOf(t)
  BY <1>1, <1>2
<1>4. /\ Len(n) \in Nat \ {0} /\ m \in 1 .. Len(t) /\ m + Len(n) \in m + 1 .. EndOf(t)
      /\ SubSeq(t, m, m + Len(n) - 1) = n
  BY <1>1, <1>3, StandsPart
<1>5. m \in p .. Len(t) /\ m + Len(n) \in p + 1 .. EndOf(t) /\ m + Len(n) \in 1 .. EndOf(t)
  BY <1>1, <1>2, <1>4
<1>6. SubSeq(t, p, m - 1) \in Texts0
  <2> DEFINE b == m - 1
  <2>1. p \in 1 .. Len(t) + 1 /\ b \in p - 1 .. Len(t)
    BY <1>2, <1>5
  <2> HIDE DEF b
  <2>2. SubSeq(t, p, b) \in Texts0
    BY <2>1, PartIs DEF Texts0
  <2> QED BY <2>2 DEF b
<1> QED BY <1>1, <1>4, <1>5, <1>6 DEF m

LEMMA ReplaceIs ==
  ASSUME NEW t \in Texts0, NEW n \in Texts0, n # <<>>, NEW r \in Texts0
  PROVE  \E R : IsReplaced(R, t, n, r) /\ vstring_replace(t, n, r) = R[1]
<1> DEFINE l == EndOf(t)
           m(i) == strstr(t, n, i)
           Body(h, i) == IF m(i) = NoPlace THEN SubSeq(t, i, Len(t))
                         ELSE SubSeq(t, i, m(i) - 1) \o r \o h[m(i) + Len(n)]
           Rec(h) == h = [i \in 1 .. l |-> Body(h, i)]
           G == [f \in [1 .. l -> Texts0] |-> [i \in 1 .. l |-> Body(f, i)]]
           F == CHOOSE h : Rec(h)
<1>1. l \in Nat \ {0} /\ l = Len(t) + 1
  BY TextIs
<1>2. vstring_replace(t, n, r) = F[1]
  BY DEF vstring_replace
<1>3. ASSUME NEW i \in 1 .. l
      PROVE  /\ SubSeq(t, i, Len(t)) \in Texts0
             /\ m(i) # NoPlace => /\ m(i) + Len(n) \in i + 1 .. l /\ m(i) + Len(n) \in 1 .. l
                                  /\ SubSeq(t, i, m(i) - 1) \in Texts0
  <2>1. i \in 1 .. Len(t) + 1 /\ Len(t) \in i - 1 .. Len(t)
    BY <1>1
  <2> QED BY <2>1, FoundIs, PartIs DEF Texts0
<1> HIDE DEF l, m
<1>4. \A x, y \in Texts0 : x \o y \in Texts0
  BY DEF Texts0
<1>5. ASSUME NEW f, NEW i \in 1 .. l, \A k \in i + 1 .. l : f[k] \in Texts0 PROVE Body(f, i) \in Texts0
  BY <1>3, <1>4, <1>5
<1>6. \A f, g \in [1 .. l -> Texts0], i \in 1 .. l : (\A k \in i + 1 .. l : f[k] = g[k]) => Body(f, i) = Body(g, i)
  BY <1>3
<1>7. G \in [[1 .. l -> Texts0] -> [1 .. l -> Texts0]]
  <2>1. \A f \in [1 .. l -> Texts0], i \in 1 .. l : Body(f, i) \in Texts0
    <3> TAKE f \in [1 .. l -> Texts0], i \in 1 .. l
    <3>1. \A k \in i + 1 .. l : f[k] \in Texts0
      <4>1. \A k \in i + 1 .. l : k \in 1 .. l
        BY <1>1
      <4> QED BY <4>1
    <3> HIDE DEF Body
    <3> QED BY <1>5, <3>1
  <2> HIDE DEF Body
  <2> QED BY <2>1
<1>8. FromLater(G, l, Texts0)
  <2> HIDE DEF Body
  <2> QED BY <1>6 DEF FromLater
<1>9. PICK f \in [1 .. l -> Texts0] : G[f] = f
  <2>1. Texts0 # {} /\ l \in Nat
    BY <1>1 DEF Texts0
  <2> HIDE DEF G, Body, Rec
  <2>3. Turns(G, l, Texts0)
    BY <1>7, <1>8, <2>1 DEF Turns
  <2> QED BY <2>3, Descends
<1>10. Rec(f)
  <2> HIDE DEF Body
  <2> QED BY <1>9
<1>11. Rec(F)
  <2> HIDE DEF Rec
  <2> QED BY <1>10
<1> HIDE DEF F
<1>12. \A i \in 1 .. l : F[i] = Body(F, i)
  <2> HIDE DEF Body
  <2> QED BY <1>11
<1> DEFINE Bad == {i \in 1 .. l : F[i] \notin Texts0}
<1>13. Bad = {}
  <2>1. Bad \in SUBSET (1 .. l) /\ l \in Nat
    BY <1>1
  <2>2. ASSUME NEW i \in 1 .. l, \A k \in i + 1 .. l : k \notin Bad PROVE i \notin Bad
    <3>1. \A k \in i + 1 .. l : F[k] \in Texts0
      <4>1. \A k \in i + 1 .. l : k \in 1 .. l
        BY <1>1
      <4> QED BY <2>2, <4>1
    <3> HIDE DEF Body
    <3> QED BY <1>5, <1>12, <3>1
  <2> HIDE DEF Bad
  <2> QED BY <2>1, <2>2, NoLast
<1>14. F \in [1 .. l -> Texts0]
  <2>1. F = [i \in 1 .. l |-> F[i]]
    <3> HIDE DEF Body
    <3> QED BY <1>11
  <2> QED BY <1>13, <2>1
<1>15. IsReplaced(F, t, n, r)
  BY <1>12, <1>14 DEF IsReplaced, l, m
<1> QED BY <1>2, <1>15

-----------------------------------------------------------------------------
(* Strings: replacement of a character and back.                              *)

Swapped(t, c, r) == [i \in DOMAIN t |-> IF t[i] = c THEN r ELSE <<t[i]>>]
Swap(t, c, r) == FlattenSeq(Swapped(t, c, r))

LEMMA SwappedIs ==
  ASSUME NEW t \in Texts0, NEW c, NEW r \in Texts0
  PROVE  /\ Swapped(t, c, r) \in Seq(Texts0) /\ Len(Swapped(t, c, r)) = Len(t)
         /\ \A i \in 1 .. Len(t) : Swapped(t, c, r)[i] = IF t[i] = c THEN r ELSE <<t[i]>>
<1>1. DOMAIN t = 1 .. Len(t) /\ Len(t) \in Nat /\ \A i \in 1 .. Len(t) : t[i] \in Chars0
  BY TextIs DEF Chars0
<1>2. \A x \in Chars0 : <<x>> \in Texts0
  BY DEF Texts0
<1>3. Swapped(t, c, r) \in [1 .. Len(t) -> Texts0]
  BY <1>1, <1>2 DEF Swapped
<1>4. Swapped(t, c, r) \in Seq(Texts0) /\ Len(Swapped(t, c, r)) = Len(t)
  BY <1>1, <1>3
<1> QED BY <1>1, <1>4 DEF Swapped

LEMMA SwapSame ==
  ASSUME NEW t \in Texts0, NEW c, NEW r \in Texts0, \A i \in 1 .. Len(t) : t[i] # c
  PROVE  Swap(t, c, r) = t
<1> DEFINE z == Swapped(t, c, r)
<1>3. z \in Seq(Texts0) /\ Len(z) = Len(t) /\ \A i \in 1 .. Len(t) : z[i] = IF t[i] = c THEN r ELSE <<t[i]>>
  BY SwappedIs
<1> HIDE DEF z
<1>1. z \in Seq(Texts0) /\ Len(z) = Len(t) /\ \A i \in 1 .. Len(t) : z[i] = <<t[i]>>
  BY <1>3
<1>2. FlattenSeq(z) = t
  BY <1>1, FlattenSame DEF Texts0
<1> QED BY <1>2 DEF z, Swap

LEMMA SwapOne ==
  ASSUME NEW c \in Chars0, NEW r \in Texts0
  PROVE  Swap(<<c>>, c, r) = r
<1>1. <<c>> \in Texts0 /\ Len(<<c>>) = 1 /\ <<c>>[1] = c
  BY DEF Texts0
<1> DEFINE z == Swapped(<<c>>, c, r)
           u == <<c>>
<1>2. z \in Seq(Texts0) /\ Len(z) = 1 /\ z[1] = r
  <2>1. z = Swapped(u, c, r) /\ u \in Texts0 /\ Len(u) = 1 /\ u[1] = c /\ 1 \in 1 .. 1
    BY <1>1
  <2> HIDE DEF u, z
  <2>2. z \in Seq(Texts0) /\ Len(z) = Len(u) /\ \A i \in 1 .. Len(u) : z[i] = IF u[i] = c THEN r ELSE <<u[i]>>
    <3>1. /\ Swapped(u, c, r) \in Seq(Texts0) /\ Len(Swapped(u, c, r)) = Len(u)
          /\ \A i \in 1 .. Len(u) : Swapped(u, c, r)[i] = IF u[i] = c THEN r ELSE <<u[i]>>
      <4>1. u \in Texts0
        BY <2>1
      <4> HIDE DEF z
      <4> QED BY ONLY <4>1, SwappedIs, r \in Texts0
    <3> QED BY <2>1, <3>1
  <2> QED BY <2>1, <2>2
<1> HIDE DEF z
<1>3. z = <<r>>
  BY <1>2
<1> QED BY <1>3, FlattenOne DEF z, Swap

LEMMA SwapCat ==
  ASSUME NEW u \in Texts0, NEW v \in Texts0, NEW c, NEW r \in Texts0
  PROVE  Swap(u \o v, c, r) = Swap(u, c, r) \o Swap(v, c, r) /\ Swap(u, c, r) \in Texts0
<1> DEFINE t == u \o v
           zt == Swapped(t, c, r)
           zu == Swapped(u, c, r)
           zv == Swapped(v, c, r)
           k == Len(u)
           l == Len(v)
<1>1. k \in Nat /\ l \in Nat
  BY TextIs
<1>2. t \in Texts0 /\ Len(t) = k + l /\ \A i \in 1 .. k + l : t[i] = IF i <= k THEN u[i] ELSE v[i - k]
  BY ConcatProperties DEF Texts0
<1>3. /\ zu \in Seq(Texts0) /\ Len(zu) = k /\ \A i \in 1 .. k : zu[i] = IF u[i] = c THEN r ELSE <<u[i]>>
      /\ zv \in Seq(Texts0) /\ Len(zv) = l /\ \A i \in 1 .. l : zv[i] = IF v[i] = c THEN r ELSE <<v[i]>>
  BY SwappedIs
<1> HIDE DEF t
<1>4. zt \in Seq(Texts0) /\ Len(zt) = Len(t) /\ \A i \in 1 .. Len(t) : zt[i] = IF t[i] = c THEN r ELSE <<t[i]>>
  BY <1>2, SwappedIs
<1> HIDE DEF zt, zu, zv, k, l
<1>5. /\ zu \o zv \in Seq(Texts0) /\ Len(zu \o zv) = k + l
      /\ \A i \in 1 .. k + l : (zu \o zv)[i] = IF i <= k THEN zu[i] ELSE zv[i - k]
  BY <1>3, ConcatProperties
<1>6. ASSUME NEW i \in 1 .. k + l PROVE zt[i] = (zu \o zv)[i]
  <2>1. CASE i <= k
    <3>1. i \in 1 .. k /\ i \in 1 .. Len(t)
      BY <1>1, <1>2, <2>1
    <3> QED BY <1>2, <1>3, <1>4, <1>5, <2>1, <3>1
  <2>2. CASE ~(i <= k)
    <3> DEFINE j == i - k
    <3>1. j \in 1 .. l /\ i \in 1 .. Len(t)
      BY <1>1, <1>2, <2>2
    <3>2. t[i] = v[j] /\ (zu \o zv)[i] = zv[j]
      BY <1>2, <1>5, <2>2
    <3> HIDE DEF j
    <3> QED BY <1>3, <1>4, <3>1, <3>2
  <2> QED BY <2>1, <2>2
<1>7. zt = zu \o zv
  BY <1>1, <1>2, <1>4, <1>5, <1>6, SeqEqual
<1>8. FlattenSeq(zu \o zv) = FlattenSeq(zu) \o FlattenSeq(zv) /\ FlattenSeq(zu) \in Texts0
  BY <1>3, FlattenCat DEF Texts0
<1> QED BY <1>7, <1>8 DEF Swap, t, zt, zu, zv

\* Replacement of one character replaces each of them.
LEMMA ReplaceOne ==
  ASSUME NEW t \in Texts0, NEW c \in Chars0, NEW r \in Texts0
  PROVE  vstring_replace(t, <<c>>, r) = Swap(t, c, r)
<1> DEFINE n == <<c>>
           l == EndOf(t)
           z == Swapped(t, c, r)
           Remains(p) == FlattenSeq(SubSeq(z, p, Len(z)))
           m(p) == strstr(t, n, p)
<1>1. n \in Texts0 /\ Len(n) = 1 /\ n # <<>> /\ n[1] = c /\ DOMAIN n = 1 .. 1
  BY DEF Texts0
<1> HIDE DEF n
<1>2. l = Len(t) + 1 /\ Len(t) \in Nat /\ l \in Nat
  BY TextIs
<1>3. /\ z \in Seq(Texts0) /\ Len(z) = Len(t)
      /\ \A i \in 1 .. Len(t) : z[i] = IF t[i] = c THEN r ELSE <<t[i]>>
  BY SwappedIs
<1> HIDE DEF z
<1>4. PICK R : IsReplaced(R, t, n, r) /\ vstring_replace(t, n, r) = R[1]
  BY <1>1, ReplaceIs
<1> DEFINE Bad == {p \in 1 .. l : R[p] # Remains(p)}
<1>5. \A q \in 1 .. Len(t) : StandsAt(n, t, q) <=> t[q] = c
  <2> TAKE q \in 1 .. Len(t)
  <2>1. q + 1 - 1 = q /\ t[q] # 0
    BY TextIs
  <2> QED BY <1>1, <2>1 DEF StandsAt, CharAt
<1>6. ASSUME NEW p \in 1 .. l, \A j \in p + 1 .. l : j \notin Bad PROVE p \notin Bad
  <2>1. p \in 1 .. Len(t) + 1 /\ p \in 1 .. EndOf(t)
    BY <1>2
  <2>2. CASE m(p) = NoPlace
    <3>1. R[p] = SubSeq(t, p, Len(t))
      BY <1>4, <2>1, <2>2 DEF IsReplaced
    <3>2. \A q \in p .. l : ~StandsAt(n, t, q)
      <4>1. \A q \in p .. EndOf(t) : ~StandsAt(n, t, q)
        BY <1>1, <2>1, <2>2, SearchIs
      <4> QED BY <4>1
    <3>3. \A q \in p .. Len(t) : q \in p .. l /\ q \in 1 .. Len(t)
      BY <1>2, <2>1
    <3>4. \A q \in p .. Len(t) : z[q] = <<t[q]>>
      BY <1>3, <1>5, <3>2, <3>3
    <3>5. Len(t) \in p - 1 .. Len(t)
      BY <1>2, <2>1
    <3>6. FlattenSeq(SubSeq(z, p, Len(t))) = SubSeq(t, p, Len(t))
      BY <1>3, <2>1, <3>4, <3>5, FlattenPart DEF Texts0
    <3> QED BY <1>3, <3>1, <3>6
  <2>3. CASE m(p) # NoPlace
    <3> DEFINE a == m(p)
               b == a + 1
    <3>1. /\ a \in p .. Len(t) /\ StandsAt(n, t, a)
          /\ \A q \in p .. a - 1 : ~StandsAt(n, t, q)
          /\ SubSeq(t, p, a - 1) \in Texts0
      BY <1>1, <2>1, <2>3, FoundIs
    <3>2. R[p] = SubSeq(t, p, a - 1) \o r \o R[b]
      <4>1. R[p] = SubSeq(t, p, a - 1) \o r \o R[a + Len(n)]
        BY <1>4, <2>1, <2>3 DEF IsReplaced
      <4> QED BY <1>1, <4>1
    <3> HIDE DEF m
    <3>3. b = a + 1
      OBVIOUS
    <3> HIDE DEF a, b
    <3>4. /\ a \in 1 .. Len(t) /\ b \in p + 1 .. l /\ b \in 1 .. l /\ b - 1 = a
          /\ p \in 1 .. Len(z) + 1 /\ a \in p .. Len(z) + 1 /\ a \in 1 .. Len(z) + 1 /\ b \in a .. Len(z) + 1
          /\ a \in 1 .. Len(z) /\ a - 1 \in p - 1 .. Len(t)
      BY <1>2, <1>3, <2>1, <3>1, <3>3
    <3>5. \A q \in p .. a - 1 : z[q] = <<t[q]>>
      <4>1. \A q \in p .. a - 1 : q \in 1 .. Len(t)
        BY <1>2, <2>1, <3>1
      <4> QED BY <1>3, <1>5, <3>1, <4>1
    <3>6. Remains(p) = FlattenSeq(SubSeq(z, p, a - 1)) \o Remains(a)
      BY <1>3, <3>4, FlattenFrom DEF Texts0
    <3>7. FlattenSeq(SubSeq(z, p, a - 1)) = SubSeq(t, p, a - 1)
      BY <1>3, <2>1, <3>4, <3>5, FlattenPart DEF Texts0
    <3>8. Remains(a) = FlattenSeq(SubSeq(z, a, b - 1)) \o Remains(b) /\ Remains(b) \in Texts0
      BY <1>3, <3>4, FlattenFrom DEF Texts0
    <3>9. FlattenSeq(SubSeq(z, a, b - 1)) = r
      <4>1. SubSeq(z, a, b - 1) = <<z[a]>>
        BY <1>3, <3>4, PartOne
      <4>2. z[a] = r
        BY <1>3, <1>5, <3>1, <3>4
      <4> QED BY <4>1, <4>2, FlattenOne
    <3>10. R[b] = Remains(b)
      BY <1>6, <3>4
    <3> HIDE DEF Remains
    <3>11. SubSeq(t, p, a - 1) \o r \o Remains(b) = SubSeq(t, p, a - 1) \o (r \o Remains(b))
      <4> DEFINE x == SubSeq(t, p, a - 1)
                 y == Remains(b)
      <4>1. x \in Seq(Chars0) /\ r \in Seq(Chars0) /\ y \in Seq(Chars0)
        BY <3>1, <3>8 DEF Texts0
      <4> HIDE DEF x, y
      <4>2. (x \o r) \o y = x \o (r \o y)
        BY <4>1, ConcatAssociative
      <4> QED BY <4>2 DEF x, y
    <3> QED BY <3>2, <3>6, <3>7, <3>8, <3>9, <3>10, <3>11
  <2> QED BY <2>2, <2>3
<1>7. Bad = {}
  <2>1. Bad \in SUBSET (1 .. l)
    OBVIOUS
  <2> HIDE DEF Bad
  <2> QED BY <1>2, <1>6, <2>1, NoLast
<1>8. R[1] = Remains(1)
  <2>1. 1 \in 1 .. l
    BY <1>2
  <2> QED BY <1>7, <2>1
<1>9. Remains(1) = FlattenSeq(z)
  BY <1>3, PartAll
<1> QED BY <1>4, <1>8, <1>9 DEF Swap, z, n

LEMMA RoundTrip ==
  ASSUME NEW t \in Texts0, NEW n \in Texts0, n # <<>>, NEW c \in Chars0, \A i \in 1 .. Len(t) : t[i] # c
  PROVE  /\ Swap(vstring_replace(t, n, <<c>>), c, n) = t
         /\ vstring_replace(t, n, <<c>>) \in Texts0
<1> DEFINE l == EndOf(t)
           r == <<c>>
           m(p) == strstr(t, n, p)
           Back(u) == Swap(u, c, n)
<1>1. r \in Texts0
  BY DEF Texts0
<1>2. Back(r) = n
  BY SwapOne
<1>3. \A u, v \in Texts0 : Back(u \o v) = Back(u) \o Back(v) /\ Back(u) \in Texts0 /\ u \o v \in Texts0
  <2> TAKE u, v \in Texts0
  <2>1. u \o v \in Texts0
    BY ConcatProperties DEF Texts0
  <2>2. Swap(u \o v, c, n) = Swap(u, c, n) \o Swap(v, c, n) /\ Swap(u, c, n) \in Texts0
    BY SwapCat
  <2> QED BY <2>1, <2>2
<1>4. \A u \in Texts0 : (\A i \in 1 .. Len(u) : u[i] # c) => Back(u) = u
  BY SwapSame
<1> HIDE DEF r, Back
<1>5. PICK R : IsReplaced(R, t, n, r) /\ vstring_replace(t, n, r) = R[1]
  BY <1>1, ReplaceIs
<1> DEFINE Bad == {p \in 1 .. l : Back(R[p]) # SubSeq(t, p, Len(t))}
<1>6. l = Len(t) + 1 /\ Len(t) \in Nat /\ l \in Nat
  BY TextIs
<1>7. \A p \in 1 .. l : R[p] \in Texts0
  BY <1>5 DEF IsReplaced
<1>8. ASSUME NEW a \in 1 .. Len(t) + 1, NEW b \in a - 1 .. Len(t)
      PROVE  Back(SubSeq(t, a, b)) = SubSeq(t, a, b) /\ SubSeq(t, a, b) \in Texts0
  <2> DEFINE w == SubSeq(t, a, b)
  <2>1. w \in Texts0 /\ Len(w) = b - a + 1 /\ \A i \in 1 .. b - a + 1 : w[i] = t[a + i - 1]
    BY PartIs DEF Texts0
  <2>2. \A i \in 1 .. b - a + 1 : a + i - 1 \in 1 .. Len(t)
    BY <1>6
  <2> HIDE DEF w
  <2>3. \A i \in 1 .. Len(w) : w[i] # c
    BY <2>1, <2>2
  <2> QED BY <1>4, <2>1, <2>3 DEF w
<1>9. ASSUME NEW p \in 1 .. l, \A j \in p + 1 .. l : j \notin Bad PROVE p \notin Bad
  <2>1. p \in 1 .. Len(t) + 1 /\ p \in 1 .. EndOf(t)
    BY <1>6
  <2>2. CASE m(p) = NoPlace
    <3>1. R[p] = SubSeq(t, p, Len(t))
      BY <1>5, <2>1, <2>2 DEF IsReplaced
    <3>2. Len(t) \in p - 1 .. Len(t)
      BY <1>6, <2>1
    <3> QED BY <1>8, <2>1, <3>1, <3>2
  <2>3. CASE m(p) # NoPlace
    <3> DEFINE a == m(p)
               b == a + Len(n)
    <3>1. /\ a \in p .. Len(t) /\ b \in p + 1 .. l /\ b \in 1 .. l /\ SubSeq(t, a, b - 1) = n
      BY <2>1, <2>3, FoundIs
    <3>2. R[p] = SubSeq(t, p, a - 1) \o r \o R[b]
      BY <1>5, <2>1, <2>3 DEF IsReplaced
    <3>3. Len(n) \in Nat /\ b = a + Len(n)
      BY TextIs
    <3> HIDE DEF m
    <3> HIDE DEF a, b
    <3> DEFINE d == a - 1
               e == b - 1
    <3>4. /\ d \in p - 1 .. Len(t) /\ d + 1 = a /\ e \in d .. Len(t) /\ e + 1 = b
          /\ e \in p - 1 .. Len(t) /\ Len(t) \in d .. Len(t) /\ Len(t) \in e .. Len(t)
      BY <1>6, <2>1, <3>1, <3>3
    <3> HIDE DEF d, e
    <3>5. Back(R[b]) = SubSeq(t, b, Len(t))
      BY <1>9, <3>1
    <3> DEFINE x == SubSeq(t, p, d)
    <3>6. Back(x) = x /\ x \in Texts0
      BY <1>8, <2>1, <3>4
    <3>7. R[p] = (x \o r) \o R[b]
      BY <3>2 DEF d
    <3>8. x \o n = SubSeq(t, p, e)
      <4>1. SubSeq(t, d + 1, e) = n
        BY <3>1, <3>4 DEF d, e
      <4>2. SubSeq(t, p, d) \o SubSeq(t, d + 1, e) = SubSeq(t, p, e)
        BY <2>1, <3>4, PartsJoin DEF Texts0
      <4> QED BY <4>1, <4>2
    <3>9. SubSeq(t, p, e) \o SubSeq(t, b, Len(t)) = SubSeq(t, p, Len(t))
      <4>1. SubSeq(t, p, e) \o SubSeq(t, e + 1, Len(t)) = SubSeq(t, p, Len(t))
        BY <2>1, <3>4, PartsJoin DEF Texts0
      <4> QED BY <3>4, <4>1
    <3> HIDE DEF x
    <3>10. Back((x \o r) \o R[b]) = (Back(x) \o Back(r)) \o Back(R[b])
      <4>1. R[b] \in Texts0
        BY <1>7, <3>1
      <4>2. x \o r \in Texts0 /\ Back(x \o r) = Back(x) \o Back(r)
        BY <1>1, <1>3, <3>6
      <4>3. Back((x \o r) \o R[b]) = Back(x \o r) \o Back(R[b])
        BY <1>3, <4>1, <4>2
      <4> QED BY <4>2, <4>3
    <3>11. Back(R[p]) = SubSeq(t, p, Len(t))
      BY <1>2, <3>5, <3>6, <3>7, <3>8, <3>9, <3>10
    <3> QED BY <3>11
  <2> QED BY <2>2, <2>3
<1>10. Bad = {}
  <2>1. Bad \in SUBSET (1 .. l)
    OBVIOUS
  <2> HIDE DEF Bad
  <2> QED BY <1>6, <1>9, <2>1, NoLast
<1>11. 1 \in 1 .. l
  BY <1>6
<1>12. Back(R[1]) = SubSeq(t, 1, Len(t)) /\ R[1] \in Texts0
  BY <1>7, <1>10, <1>11
<1>13. SubSeq(t, 1, Len(t)) = t
  BY PartAll DEF Texts0
<1> QED BY <1>5, <1>12, <1>13 DEF Back, r

-----------------------------------------------------------------------------
(* Strings: nothing is left of what was replaced.                              *)

Nowhere(n, t) == \A q \in 1 .. EndOf(t) : ~StandsAt(n, t, q)

\* What stands nowhere in two strings, stands nowhere in them with a character between them
\* that it does not have.
LEMMA NotAround ==
  ASSUME NEW n \in Texts0, n # <<>>, NEW c \in Chars0, \A i \in 1 .. Len(n) : n[i] # c,
         NEW u \in Texts0, NEW v \in Texts0, Nowhere(n, u), Nowhere(n, v)
  PROVE  Nowhere(n, (u \o <<c>>) \o v)
<1> DEFINE r == <<c>>
           w == u \o r
           t == w \o v
           k == Len(n)
           a == Len(u)
           l == Len(v)
<1>1. r \in Texts0 /\ Len(r) = 1 /\ r[1] = c
  BY DEF Texts0
<1>2. k \in Nat \ {0} /\ a \in Nat /\ l \in Nat /\ EndOf(u) = a + 1 /\ EndOf(v) = l + 1
  BY EmptySeq, TextIs DEF Texts0
<1> HIDE DEF r
<1>3. w \in Texts0 /\ Len(w) = a + 1 /\ \A i \in 1 .. a + 1 : w[i] = IF i <= a THEN u[i] ELSE r[i - a]
  <2>1. /\ w \in Texts0 /\ Len(w) = a + Len(r)
        /\ \A i \in 1 .. a + Len(r) : w[i] = IF i <= a THEN u[i] ELSE r[i - a]
    BY <1>1, ConcatProperties DEF Texts0
  <2> HIDE DEF w, a
  <2> QED BY <1>1, <2>1
<1> HIDE DEF w, a
<1>4. \A i \in 1 .. a : w[i] = u[i]
  BY <1>2, <1>3
<1>5. w[a + 1] = c
  <2>1. a + 1 \in 1 .. a + 1 /\ ~(a + 1 <= a) /\ a + 1 - a = 1
    BY <1>2
  <2> DEFINE i == a + 1
  <2>2. i \in 1 .. a + 1 /\ ~(i <= a) /\ i - a = 1
    BY <1>2
  <2> HIDE DEF i
  <2>3. w[i] = r[i - a]
    BY <1>3, <2>2
  <2>4. w[i] = c
    BY <1>1, <2>2, <2>3
  <2> QED BY <2>4 DEF i
<1>6. /\ t \in Texts0 /\ Len(t) = Len(w) + l
      /\ \A i \in 1 .. Len(w) + l : t[i] = IF i <= Len(w) THEN w[i] ELSE v[i - Len(w)]
  BY <1>3, ConcatProperties DEF Texts0
<1> HIDE DEF t
<1>7. Len(t) = a + 1 + l /\ EndOf(t) = a + 1 + l + 1
  BY <1>2, <1>3, <1>6, TextIs
<1>8. \A i \in 1 .. a : t[i] = u[i]
  <2>1. \A i \in 1 .. a : i \in 1 .. Len(w) + l /\ i <= Len(w)
    BY <1>2, <1>3
  <2> QED BY <1>4, <1>6, <2>1
<1>9. t[a + 1] = c
  <2>1. a + 1 \in 1 .. Len(w) + l /\ a + 1 <= Len(w)
    BY <1>2, <1>3
  <2> QED BY <1>5, <1>6, <2>1
<1>10. ASSUME NEW i \in 1 .. l PROVE t[a + 1 + i] = v[i]
  <2> DEFINE j == a + 1 + i
  <2>1. j \in 1 .. Len(w) + l /\ ~(j <= Len(w)) /\ j - Len(w) = i
    BY <1>2, <1>3
  <2> HIDE DEF j
  <2>2. t[j] = v[j - Len(w)]
    BY <1>6, <2>1
  <2> QED BY <2>1, <2>2 DEF j
<1> SUFFICES ASSUME NEW q \in 1 .. EndOf(t), StandsAt(n, t, q) PROVE FALSE
  BY DEF Nowhere, t, w, r
<1>11. /\ q + k \in q .. EndOf(t)
       /\ \A i \in 1 .. k : q + i - 1 \in 1 .. Len(t) /\ t[q + i - 1] = n[i]
  BY <1>6, StandsIn
<1>12. ASSUME NEW i \in 1 .. k PROVE q + i - 1 # a + 1
  <2> DEFINE j == q + i - 1
  <2>1. t[j] = n[i] /\ n[i] # c
    BY <1>11 DEF k
  <2> HIDE DEF j
  <2>2. j # a + 1
    BY <1>9, <2>1
  <2> QED BY <2>2 DEF j
<1>13. CASE q \in a + 2 .. EndOf(t)
  <2> DEFINE p == q - (a + 1)
  <2>1. p \in 1 .. l + 1 /\ p \in Int
    BY <1>2, <1>7, <1>13
  <2>2. ASSUME NEW i \in 1 .. k PROVE p + i - 1 \in 1 .. l /\ v[p + i - 1] = n[i]
    <3> DEFINE j == p + i - 1
    <3>1. j \in 1 .. l /\ a + 1 + j = q + i - 1
      BY <1>2, <1>7, <1>11, <1>13
    <3> HIDE DEF j
    <3>2. t[a + 1 + j] = v[j] /\ t[q + i - 1] = n[i]
      BY <1>10, <1>11, <3>1
    <3>3. j \in 1 .. l /\ v[j] = n[i]
      BY <3>1, <3>2
    <3> QED BY <3>3 DEF j
  <2> HIDE DEF p
  <2>3. StandsAt(n, v, p)
    BY <2>1, <2>2, StandsWhen DEF k, l
  <2> QED BY <1>2, <2>1, <2>3 DEF Nowhere
<1>14. CASE q \in 1 .. a + 1
  <2>1. q + k - 1 < a + 1
    <3>1. CASE q + k - 1 < a + 1
      BY <3>1
    <3>2. CASE ~(q + k - 1 < a + 1)
      <4> DEFINE i == a + 1 - q + 1
      <4>1. i \in 1 .. k /\ q + i - 1 = a + 1
        BY <1>2, <1>14, <3>2
      <4> HIDE DEF i
      <4> QED BY <1>12, <4>1
    <3> QED BY <3>1, <3>2
  <2>2. ASSUME NEW i \in 1 .. k PROVE q + i - 1 \in 1 .. a /\ u[q + i - 1] = n[i]
    <3>1. q + i - 1 \in 1 .. a
      BY <1>2, <1>14, <2>1
    <3>2. t[q + i - 1] = n[i]
      BY <1>11
    <3> QED BY <1>8, <3>1, <3>2
  <2>3. StandsAt(n, u, q)
    BY <2>2, StandsWhen DEF k, a
  <2> QED BY <1>2, <1>14, <2>3 DEF Nowhere
<1>15. q \in 1 .. a + 1 \/ q \in a + 2 .. EndOf(t)
  BY <1>2, <1>7
<1> QED BY <1>13, <1>14, <1>15

\* What stands in a part of a string stands in the string.
LEMMA NowhereInPart ==
  ASSUME NEW t \in Texts0, NEW n \in Texts0, n # <<>>, NEW a \in 1 .. Len(t) + 1, NEW b \in a - 1 .. Len(t),
         \A q \in a .. b : ~StandsAt(n, t, q)
  PROVE  Nowhere(n, SubSeq(t, a, b))
<1> DEFINE w == SubSeq(t, a, b)
           k == Len(n)
<1>1. Len(t) \in Nat /\ k \in Nat \ {0}
  BY EmptySeq, TextIs DEF Texts0
<1>2. w \in Texts0 /\ Len(w) = b - a + 1 /\ \A i \in 1 .. b - a + 1 : w[i] = t[a + i - 1]
  BY PartIs DEF Texts0
<1> HIDE DEF w
<1> SUFFICES ASSUME NEW q \in 1 .. EndOf(w), StandsAt(n, w, q) PROVE FALSE
  BY DEF Nowhere, w
<1>3. EndOf(w) = b - a + 2
  BY <1>1, <1>2, TextIs
<1>4. q + k \in q .. EndOf(w) /\ \A i \in 1 .. k : q + i - 1 \in 1 .. Len(w) /\ w[q + i - 1] = n[i]
  BY <1>2, StandsIn
<1> HIDE DEF k
<1> DEFINE p == a + q - 1
<1>5. p \in a .. b /\ p \in Int
  BY <1>1, <1>3, <1>4
<1>6. ASSUME NEW i \in 1 .. k PROVE p + i - 1 \in 1 .. Len(t) /\ t[p + i - 1] = n[i]
  <2> DEFINE j == q + i - 1
  <2>1. w[j] = n[i] /\ j \in 1 .. Len(w)
    BY <1>4
  <2>2. p + i - 1 = a + j - 1
    BY <1>1
  <2> HIDE DEF j, p
  <2>3. w[j] = t[a + j - 1]
    BY <1>2, <2>1
  <2>4. a + j - 1 \in 1 .. Len(t)
    BY <1>1, <1>2, <2>1
  <2> QED BY <2>1, <2>2, <2>3, <2>4
<1> HIDE DEF p
<1>7. StandsAt(n, t, p)
  BY <1>5, <1>6, StandsWhen DEF k
<1> QED BY <1>5, <1>7

LEMMA ReplacedIsGone ==
  ASSUME NEW t \in Texts0, NEW n \in Texts0, n # <<>>, NEW c \in Chars0, \A i \in 1 .. Len(n) : n[i] # c
  PROVE  Nowhere(n, vstring_replace(t, n, <<c>>))
<1> DEFINE l == EndOf(t)
           r == <<c>>
           m(p) == strstr(t, n, p)
<1>1. r \in Texts0
  BY DEF Texts0
<1>2. PICK R : IsReplaced(R, t, n, r) /\ vstring_replace(t, n, r) = R[1]
  BY <1>1, ReplaceIs
<1> DEFINE Bad == {p \in 1 .. l : ~Nowhere(n, R[p])}
<1>3. l = Len(t) + 1 /\ Len(t) \in Nat /\ l \in Nat
  BY TextIs
<1>4. \A p \in 1 .. l : R[p] \in Texts0
  BY <1>2 DEF IsReplaced
<1>5. ASSUME NEW p \in 1 .. l, \A j \in p + 1 .. l : j \notin Bad PROVE p \notin Bad
  <2>1. p \in 1 .. Len(t) + 1 /\ p \in 1 .. EndOf(t)
    BY <1>3
  <2>2. CASE m(p) = NoPlace
    <3>1. R[p] = SubSeq(t, p, Len(t))
      BY <1>2, <2>1, <2>2 DEF IsReplaced
    <3>2. Len(t) \in p - 1 .. Len(t)
      BY <1>3, <2>1
    <3>3. \A q \in p .. EndOf(t) : ~StandsAt(n, t, q)
      BY <2>1, <2>2, SearchIs
    <3>4. \A q \in p .. Len(t) : ~StandsAt(n, t, q)
      <4>1. \A q \in p .. Len(t) : q \in p .. EndOf(t)
        BY <1>3
      <4> QED BY <3>3, <4>1
    <3> QED BY <2>1, <3>1, <3>2, <3>4, NowhereInPart
  <2>3. CASE m(p) # NoPlace
    <3> DEFINE a == m(p)
               b == a + Len(n)
               d == a - 1
    <3>1. /\ a \in p .. Len(t) /\ b \in p + 1 .. l /\ b \in 1 .. l
          /\ \A q \in p .. a - 1 : ~StandsAt(n, t, q)
          /\ SubSeq(t, p, a - 1) \in Texts0
      BY <2>1, <2>3, FoundIs
    <3>2. R[p] = SubSeq(t, p, a - 1) \o r \o R[b]
      BY <1>2, <2>1, <2>3 DEF IsReplaced
    <3> HIDE DEF m
    <3> HIDE DEF a, b
    <3>3. d \in p - 1 .. Len(t)
      BY <1>3, <2>1, <3>1
    <3>4. SubSeq(t, p, d) \in Texts0 /\ (\A q \in p .. d : ~StandsAt(n, t, q)) /\ R[p] = (SubSeq(t, p, d) \o r) \o R[b]
      BY <3>1, <3>2
    <3> HIDE DEF d, r
    <3>5. Nowhere(n, SubSeq(t, p, d))
      BY <2>1, <3>3, <3>4, NowhereInPart
    <3>6. Nowhere(n, R[b]) /\ R[b] \in Texts0
      BY <1>4, <1>5, <3>1
    <3>7. Nowhere(n, (SubSeq(t, p, d) \o r) \o R[b])
      BY <3>4, <3>5, <3>6, NotAround DEF r
    <3> QED BY <3>4, <3>7
  <2> QED BY <2>2, <2>3
<1>6. Bad = {}
  <2>1. Bad \in SUBSET (1 .. l)
    OBVIOUS
  <2> HIDE DEF Bad
  <2> QED BY <1>3, <1>5, <2>1, NoLast
<1>7. 1 \in 1 .. l
  BY <1>3
<1> QED BY <1>2, <1>6, <1>7

-----------------------------------------------------------------------------
(* Strings: the natives speak of the same places.                              *)

LEMMA ReverseIs ==
  ASSUME NEW t \in Texts0
  PROVE  /\ Reverse(t) \in Texts0 /\ Len(Reverse(t)) = Len(t)
         /\ \A i \in 1 .. Len(t) : Reverse(t)[i] = t[Len(t) - i + 1]
<1> DEFINE l == Len(t)
           w == Reverse(t)
<1>1. l \in Nat /\ \A i \in 1 .. l : t[i] \in Chars0
  BY TextIs DEF Chars0
<1>2. \A i \in 1 .. l : l - i + 1 \in 1 .. l
  BY <1>1
<1>3. w = [i \in 1 .. l |-> t[l - i + 1]]
  BY DEF Reverse
<1> HIDE DEF w, l
<1>4. w \in [1 .. l -> Chars0] /\ \A i \in 1 .. l : w[i] = t[l - i + 1]
  BY <1>1, <1>2, <1>3
<1>5. w \in Seq(Chars0) /\ Len(w) = l
  BY <1>1, <1>4
<1> QED BY <1>4, <1>5 DEF w, l, Texts0

LEMMA EndsWith ==
  ASSUME NEW t \in Texts0, NEW n \in Texts0, n # <<>>, Len(n) =< Len(t)
  PROVE  native_str_endsw(t, n) <=> StandsAt(Reverse(n), Reverse(t), 1)
<1> DEFINE l == Len(t)
           k == Len(n)
           a == EndOf(t) - k
           w == SubSeq(t, a, l)
           rn == Reverse(n)
           rt == Reverse(t)
<1>1. l \in Nat /\ k \in Nat \ {0} /\ EndOf(t) = l + 1 /\ k =< l
  BY EmptySeq, TextIs DEF Texts0
<1>2. /\ rn \in Texts0 /\ Len(rn) = k /\ \A i \in 1 .. k : rn[i] = n[k - i + 1]
      /\ rt \in Texts0 /\ Len(rt) = l /\ \A i \in 1 .. l : rt[i] = t[l - i + 1]
  BY ReverseIs
<1>3. a = l + 1 - k /\ a \in 1 .. l + 1 /\ l \in a - 1 .. l /\ l - a + 1 = k
  BY <1>1
<1> HIDE DEF a
<1>4. w \in Texts0 /\ Len(w) = l - a + 1 /\ \A i \in 1 .. l - a + 1 : w[i] = t[a + i - 1]
  BY <1>3, PartIs DEF Texts0
<1>5. native_str_endsw(t, n) <=> w = n
  BY DEF native_str_endsw, a
<1> HIDE DEF w, rn, rt, l, k
<1>6. Len(w) = k /\ \A i \in 1 .. k : w[i] = t[a + i - 1]
  BY <1>3, <1>4
<1>7. \A i \in 1 .. k : k - i + 1 \in 1 .. k /\ a + (k - i + 1) - 1 = l - i + 1 /\ k - (k - i + 1) + 1 = i
                        /\ l - (k - i + 1) + 1 = a + i - 1 /\ i \in 1 .. l /\ 1 + i - 1 = i
  BY <1>1, <1>3
<1>8. ASSUME w = n PROVE StandsAt(rn, rt, 1)
  <2> DEFINE p == 1
  <2>1. ASSUME NEW i \in 1 .. Len(rn) PROVE p + i - 1 \in 1 .. Len(rt) /\ rt[p + i - 1] = rn[i]
    <3>1. i \in 1 .. k
      BY <1>2
    <3> DEFINE j == k - i + 1
    <3>2. j \in 1 .. k /\ a + j - 1 = l - i + 1 /\ i \in 1 .. l /\ 1 + i - 1 = i
      BY <1>7, <3>1
    <3>3. rn[i] = n[j]
      BY <1>2, <3>1
    <3> HIDE DEF j
    <3>4. n[j] = t[a + j - 1] /\ rt[i] = t[l - i + 1]
      BY <1>2, <1>6, <1>8, <3>2
    <3>5. rt[i] = rn[i]
      BY <3>2, <3>3, <3>4
    <3> QED BY <1>2, <3>2, <3>5
  <2>2. p \in Int
    OBVIOUS
  <2> HIDE DEF p
  <2>3. StandsAt(rn, rt, p)
    BY <1>2, <2>1, <2>2, StandsWhen
  <2> QED BY <2>3 DEF p
<1>9. ASSUME StandsAt(rn, rt, 1) PROVE w = n
  <2>1. 1 \in 1 .. EndOf(rt)
    BY <1>1, <1>2, TextIs
  <2>2. \A i \in 1 .. k : rt[1 + i - 1] = rn[i]
    BY <1>2, <1>9, <2>1, StandsIn
  <2>3. ASSUME NEW i \in 1 .. k PROVE w[i] = n[i]
    <3> DEFINE j == k - i + 1
    <3>1. j \in 1 .. k /\ k - j + 1 = i /\ l - j + 1 = a + i - 1
      BY <1>7
    <3> HIDE DEF j
    <3>2. j \in 1 .. l /\ 1 + j - 1 = j
      BY <1>7, <3>1
    <3>3. rt[j] = rn[j]
      BY <2>2, <3>1, <3>2
    <3>4. rn[j] = n[k - j + 1] /\ rt[j] = t[l - j + 1]
      BY <1>2, <3>1, <3>2
    <3>5. n[i] = t[a + i - 1]
      BY <3>1, <3>3, <3>4
    <3> QED BY <1>6, <3>5
  <2> QED BY <1>4, <1>6, <2>3, SeqEqual DEF Texts0, k
<1> QED BY <1>5, <1>8, <1>9 DEF rn, rt

\* Parts by the script's indexes.
LEMMA SlicesAre ==
  ASSUME NEW t \in Texts0, NEW i \in 0 .. Len(t)
  PROVE  /\ native_str_slice(t, i) = SubSeq(t, i + 1, Len(t))
         /\ \A k \in Nat : i + k =< Len(t) => vstring_slice(t, i, k) = SubSeq(t, i + 1, i + k)
<1>1. Len(t) \in Nat
  BY TextIs
<1>2. \A k \in Nat : i + k =< Len(t) => vstring_slice(t, i, k) = SubSeq(t, i + 1, i + k)
  BY <1>1 DEF vstring_slice
<1>3. Len(SubSeq(t, i + 1, Len(t))) = Len(t) - i
  <2> DEFINE a == i + 1
  <2>1. a \in 1 .. Len(t) + 1 /\ Len(t) \in a - 1 .. Len(t) /\ Len(t) - a + 1 = Len(t) - i
    BY <1>1
  <2> HIDE DEF a
  <2>2. Len(SubSeq(t, a, Len(t))) = Len(t) - i
    BY <2>1, PartIs DEF Texts0
  <2> QED BY <2>2 DEF a
<1>4. Len(t) - i \in Nat /\ i + (Len(t) - i) = Len(t) /\ i + (Len(t) - i) =< Len(t)
  BY <1>1
<1>5. vstring_slice(t, i, Len(t) - i) = SubSeq(t, i + 1, Len(t))
  BY <1>2, <1>4
<1> QED BY <1>2, <1>3, <1>5 DEF native_str_slice

Chars1 == Nat \ {0, Spare}

LEMMA PartsOfSource ==
  ASSUME NEW t \in Seq(Chars1)
  PROVE  /\ t \in Texts0 /\ \A i \in 1 .. Len(t) : t[i] # Spare
         /\ \A i, j \in 1 .. Len(t) :
              LET n == SubSeq(t, i, j) IN
              n # <<>> => /\ n \in Texts0 /\ StandsAt(n, t, i)
                          /\ \A x \in 1 .. Len(n) : n[x] # Spare
<1>1. Chars1 \subseteq Chars0 /\ \A x \in Chars1 : x # Spare
  BY DEF Chars0, Chars1
<1>2. \A u \in Seq(Chars1) : u \in Texts0 /\ \A i \in 1 .. Len(u) : u[i] # Spare
  <2> TAKE u \in Seq(Chars1)
  <2>1. u \in Texts0
    BY <1>1, SeqMonotonic DEF Texts0
  <2>2. \A i \in 1 .. Len(u) : u[i] \in Chars1
    OBVIOUS
  <2> QED BY <1>1, <2>1, <2>2
<1>3. t \in Texts0 /\ Len(t) \in Nat
  BY <1>2
<1>4. ASSUME NEW a \in 1 .. Len(t), NEW b \in 1 .. Len(t), SubSeq(t, a, b) # <<>>
      PROVE  SubSeq(t, a, b) \in Seq(Chars1) /\ StandsAt(SubSeq(t, a, b), t, a)
  <2> DEFINE n == SubSeq(t, a, b)
  <2>1. a =< b
    <3>1. CASE b < a
      <4>1. n = <<>>
        BY <3>1, SubSeqEmpty
      <4> QED BY <1>4, <4>1
    <3> QED BY <1>3, <3>1
  <2>2. a \in 1 .. Len(t) + 1 /\ b \in a - 1 .. Len(t) /\ a \in Int
    BY <1>3, <2>1
  <2>3. n \in Seq(Chars1) /\ Len(n) = b - a + 1 /\ \A i \in 1 .. b - a + 1 : n[i] = t[a + i - 1]
    BY <2>2, PartIs
  <2> HIDE DEF n
  <2>4. \A i \in 1 .. Len(n) : a + i - 1 \in 1 .. Len(t) /\ t[a + i - 1] = n[i]
    BY <1>3, <2>1, <2>3
  <2>5. StandsAt(n, t, a)
    BY <1>2, <2>2, <2>3, <2>4, StandsWhen
  <2> QED BY <2>3, <2>5 DEF n
<1> QED BY <1>2, <1>4

LEMMA PlaceIs ==
  ASSUME NEW t \in Texts0, \A i \in 1 .. Len(t) : t[i] # Spare,
         NEW n \in Texts0, n # <<>>, \A i \in 1 .. Len(n) : n[i] # Spare,
         NEW a \in 1 .. Len(t), StandsAt(n, t, a)
  PROVE  PlaceAgrees(t, n)
<1> DEFINE l == Len(t)
           m == strstr(t, n, 1)
           k == Len(n)
           i == native_str_find(n, t)
           other == vstring_replace(t, n, <<Spare>>)
<1>1. Spare \in Chars0
  BY TextConstants DEF Chars0
<1>2. l \in Nat /\ DOMAIN t = 1 .. l /\ EndOf(t) = l + 1
  BY TextIs
<1>5. 1 \in 1 .. EndOf(t) /\ a \in 1 .. EndOf(t)
  BY <1>2
<1>6. m # NoPlace
  BY <1>5, SearchIs
<1>7. /\ m \in 1 .. l /\ StandsAt(n, t, m) /\ \A q \in 1 .. m - 1 : ~StandsAt(n, t, q)
      /\ m + k \in 1 .. EndOf(t) /\ SubSeq(t, m, m + k - 1) = n
  BY <1>5, <1>6, FoundIs
<1>8. k \in Nat \ {0} /\ k =< l /\ n[1] = t[m]
  <2>1. k \in Nat \ {0}
    BY EmptySeq DEF Texts0
  <2>2. m \in 1 .. EndOf(t) /\ 1 \in 1 .. k /\ m + 1 - 1 = m
    BY <1>2, <1>7, <2>1
  <2>5. \A j \in 1 .. k : t[m + j - 1] = n[j]
    BY <1>7, <2>2, StandsIn
  <2>3. t[m] = n[1]
    BY <2>2, <2>5
  <2>4. k =< l
    BY <1>2, <1>7, <2>1
  <2> QED BY <2>1, <2>2, <2>3, <2>4
<1>9. i = m - 1
  BY <1>6 DEF native_str_find
<1>10. native_str_contains(n, t)
  BY <1>6 DEF native_str_contains
<1>11. native_str_startsw(t, n) <=> i = 0
  <2>1. CASE m = 1
    BY <1>7, <1>9, <2>1 DEF native_str_startsw
  <2>2. CASE m # 1
    <3>1. 1 \in 1 .. m - 1 /\ i # 0
      BY <1>2, <1>7, <1>9, <2>2
    <3> QED BY <1>7, <3>1 DEF native_str_startsw
  <2> QED BY <2>1, <2>2
<1>12. native_str_endsw(t, n) <=> StandsAt(Reverse(n), Reverse(t), 1)
  BY <1>8, EndsWith
<1>13. vstring_replace(other, <<Spare>>, n) = t
  <2>1. Swap(other, Spare, n) = t /\ other \in Texts0
    BY <1>1, RoundTrip
  <2> QED BY <1>1, <2>1, ReplaceOne
<1>14. ~native_str_contains(n, other)
  <2>1. Nowhere(n, other) /\ other \in Texts0
    BY <1>1, ReplacedIsGone, RoundTrip
  <2> HIDE DEF other
  <2>2. PlacesFrom(other, n, 1) = {}
    BY <2>1 DEF Nowhere, PlacesFrom
  <2> QED BY <2>2 DEF native_str_contains, strstr
<1> HIDE DEF m, i, k, other
<1>15. i \in 0 .. Len(t) - 1 /\ i \in 0 .. Len(t) /\ i + 1 = m /\ i + k \in 0 .. Len(t) /\ i + k =< Len(t) /\ m + k - 1 = i + k
  BY <1>2, <1>7, <1>8, <1>9
<1>16. vstring_slice(t, i, k) = n
  <2>1. vstring_slice(t, i, k) = SubSeq(t, i + 1, i + k)
    BY <1>1, <1>8, <1>15, SlicesAre
  <2> QED BY <1>7, <1>15, <2>1
<1>17. vstring_index(t, i) = <<n[1]>>
  BY <1>2, <1>8, <1>15 DEF vstring_index
<1>18. vstring_slice(t, 0, i) = SubSeq(t, 1, i)
  <2>1. 0 \in 0 .. Len(t) /\ i \in Nat /\ 0 + i =< Len(t) /\ 0 + 1 = 1 /\ 0 + i = i
    BY <1>2, <1>15
  <2>2. vstring_slice(t, 0, i) = SubSeq(t, 0 + 1, 0 + i)
    BY <1>1, <2>1, SlicesAre
  <2> QED BY <2>1, <2>2
<1>19. native_str_slice(t, i + k) = SubSeq(t, i + k + 1, Len(t))
  BY <1>1, <1>15, SlicesAre
<1>20. SubSeq(t, 1, i) \o n = SubSeq(t, 1, i + k)
  <2> DEFINE e == i + k
  <2>1. 1 \in 1 .. Len(t) + 1 /\ i \in 1 - 1 .. Len(t) /\ e \in i .. Len(t)
    BY <1>2, <1>8, <1>15
  <2>2. n = SubSeq(t, i + 1, e)
    BY <1>7, <1>15
  <2> HIDE DEF e
  <2>3. SubSeq(t, 1, i) \o SubSeq(t, i + 1, e) = SubSeq(t, 1, e)
    BY <1>1, <2>1, PartsJoin DEF Texts0
  <2> QED BY <2>2, <2>3 DEF e
<1>21. SubSeq(t, 1, i + k) \o SubSeq(t, i + k + 1, Len(t)) = t
  <2> DEFINE e == i + k
  <2>1. 1 \in 1 .. Len(t) + 1 /\ e \in 1 - 1 .. Len(t) /\ Len(t) \in e .. Len(t)
    BY <1>2, <1>15
  <2> HIDE DEF e
  <2>2. SubSeq(t, 1, e) \o SubSeq(t, e + 1, Len(t)) = SubSeq(t, 1, Len(t))
    BY <1>1, <2>1, PartsJoin DEF Texts0
  <2>3. SubSeq(t, 1, Len(t)) = t
    BY <1>1, PartAll DEF Texts0
  <2> QED BY <2>2, <2>3 DEF e
<1>22. vstring_slice(t, 0, i) \o n \o native_str_slice(t, i + k) = t
  BY <1>18, <1>19, <1>20, <1>21
<1> QED BY <1>10, <1>11, <1>12, <1>13, <1>14, <1>16, <1>17, <1>22 DEF PlaceAgrees, m, i, k, other

LEMMA PlacesIn ==
  ASSUME NEW t \in Seq(Chars1), NEW a \in 1 .. Len(t), NEW b \in a .. Len(t)
  PROVE  PlaceAgrees(t, SubSeq(t, a, b))
<1> DEFINE n == SubSeq(t, a, b)
<1>1. t \in Texts0 /\ \A i \in 1 .. Len(t) : t[i] # Spare
  BY PartsOfSource
<1>2. n # <<>> /\ b \in 1 .. Len(t)
  <2>1. a \in 1 .. Len(t) + 1 /\ b \in a - 1 .. Len(t) /\ b - a + 1 # 0 /\ b \in 1 .. Len(t)
    BY <1>1, TextIs
  <2>2. Len(n) = b - a + 1
    BY <2>1, PartIs
  <2> QED BY <2>1, <2>2
<1>3. n \in Texts0 /\ StandsAt(n, t, a) /\ \A x \in 1 .. Len(n) : n[x] # Spare
  BY <1>2, PartsOfSource
<1> HIDE DEF n
<1>4. PlaceAgrees(t, n)
  BY <1>1, <1>2, <1>3, PlaceIs
<1> QED BY <1>4 DEF n

LEMMA PlacesDoAgree == ASSUME source \in Seq(Chars1) PROVE PlacesAgree
<1>1. DOMAIN source = 1 .. Len(source)
  OBVIOUS
<1>2. ASSUME NEW a \in 1 .. Len(source), NEW b \in a .. Len(source) PROVE PlaceAgrees(source, SubSeq(source, a, b))
  BY PlacesIn
<1> QED BY <1>1, <1>2 DEF PlacesAgree

-----------------------------------------------------------------------------
(* What a string grows by.                                                     *)

LEMMA StringTyped == StringSpec => [](source \in Seq(Chars1))
<1> DEFINE P == source \in Seq(Chars1)
<1>1. StringInit => P
  BY DEF StringInit
<1>2. P /\ [StringNext]_string_vars => P'
  <2> SUFFICES ASSUME P, [StringNext]_string_vars PROVE P'
    OBVIOUS
  <2>1. CASE StringNext
    <3>1. PICK f \in Fragments : source' = source \o f
      BY <2>1 DEF StringNext
    <3>2. f \in Seq(Chars1)
      BY <3>1, TextConstants DEF Chars1
    <3> QED BY <3>1, <3>2, ConcatProperties
  <2>2. CASE UNCHANGED string_vars
    BY <2>2 DEF string_vars
  <2> QED BY <2>1, <2>2
<1> QED BY <1>1, <1>2, PTL DEF StringSpec

\* For every name and value, substitution is what its states say: it replaces the
\* placeholders that stand in code and nothing else.  One token or more that are joined are split again.
\* Searches, parts, replacement and its reversal agree on the places of a string.
\* (substitute_text in mila.c; the natives of str in ml_primitives.c).
THEOREM StringsKeepTheirMeaning == StringSpec => []TextsKeepTheirMeaning
<1>1. source \in Seq(Chars1) => TextsKeepTheirMeaning
  <2> SUFFICES ASSUME source \in Seq(Chars1) PROVE TextsKeepTheirMeaning
    OBVIOUS
  <2>1. source \in Texts0
    <3>1. Chars1 \subseteq Chars0
      BY DEF Chars0, Chars1
    <3> QED BY <3>1, SeqMonotonic DEF Texts0
  <2>2. SubstitutesInCodeOnly
    BY <2>1, SubstitutesByState DEF SubstitutesInCodeOnly, Pieces
  <2> QED BY <2>1, <2>2, SplitsAndJoins, PlacesDoAgree DEF TextsKeepTheirMeaning
<1> QED BY <1>1, StringTyped, PTL
=============================================================================

----------------------------- MODULE ListLemmas -----------------------------
(***************************************************************************)
(* Lemmas about sequences of anything and their parts, how often a value   *)
(* occurs in one, sequences put together from parts, recursion over        *)
(* positions, and remainders, that the proofs about several components     *)
(* need.                                                                   *)
(***************************************************************************)
EXTENDS Integers, SequencesExt, FiniteSetsExt, SequenceTheorems, FunctionTheorems,
        FiniteSetTheorems, TLAPS

IsList(s) == s \in Seq(Range(s))

\* What is a sequence over some set is one over what is in it.
LEMMA IsListOver == ASSUME NEW S, NEW s \in Seq(S) PROVE IsList(s)
<1>1. s \in [1 .. Len(s) -> Range(s)] /\ Len(s) \in Nat
  BY DEF Range
<1> QED BY <1>1 DEF IsList

LEMMA ListAppend ==
  ASSUME NEW s, IsList(s), NEW x
  PROVE  /\ IsList(Append(s, x))
         /\ Len(s) \in Nat
         /\ DOMAIN s = 1 .. Len(s)
         /\ Len(Append(s, x)) = Len(s) + 1
         /\ \A i \in 1 .. Len(s) : Append(s, x)[i] = s[i]
         /\ Append(s, x)[Len(s) + 1] = x
         /\ DOMAIN Append(s, x) = 1 .. Len(s) + 1
<1> DEFINE T == Range(s) \cup {x}
<1>1. s \in [1 .. Len(s) -> T] /\ Len(s) \in Nat
  BY DEF IsList, Range
<1>2. s \in Seq(T)
  BY <1>1
<1>3. /\ Append(s, x) \in Seq(T)
      /\ Len(Append(s, x)) = Len(s) + 1
      /\ \A i \in 1 .. Len(s) : Append(s, x)[i] = s[i]
      /\ Append(s, x)[Len(s) + 1] = x
  BY <1>2, AppendProperties
<1>4. DOMAIN Append(s, x) = 1 .. Len(s) + 1 /\ DOMAIN s = 1 .. Len(s)
  BY <1>2, <1>3
<1> QED BY <1>1, <1>3, <1>4, IsListOver

LEMMA ListFront ==
  ASSUME NEW s, IsList(s), s # <<>>
  PROVE  /\ IsList(Front(s))
         /\ Len(s) \in Nat \ {0}
         /\ DOMAIN s = 1 .. Len(s)
         /\ Len(Front(s)) = Len(s) - 1
         /\ DOMAIN Front(s) = 1 .. Len(s) - 1
         /\ \A i \in 1 .. Len(s) - 1 : Front(s)[i] = s[i]
         /\ Last(s) = s[Len(s)]
<1>1. s \in Seq(Range(s)) /\ Len(s) \in Nat \ {0}
  BY DEF IsList
<1>2. /\ Front(s) \in Seq(Range(s))
      /\ Len(Front(s)) = Len(s) - 1
      /\ \A i \in 1 .. Len(s) - 1 : Front(s)[i] = s[i]
  <2> DEFINE n == Len(s) - 1
  <2>1. n \in Nat /\ \A i \in 1 .. n : s[i] \in Range(s)
    BY <1>1
  <2> HIDE DEF n
  <2>2. /\ SubSeq(s, 1, n) \in Seq(Range(s))
        /\ Len(SubSeq(s, 1, n)) = IF 1 <= n THEN n - 1 + 1 ELSE 0
        /\ \A i \in 1 .. n - 1 + 1 : SubSeq(s, 1, n)[i] = s[1 + i - 1]
    BY <2>1, SubSeqProperties
  <2>3. n - 1 + 1 = n /\ (IF 1 <= n THEN n - 1 + 1 ELSE 0) = n
    BY <2>1
  <2>4. \A i \in 1 .. n : 1 + i - 1 = i
    BY <2>1
  <2>5. \A i \in 1 .. n : SubSeq(s, 1, n)[i] = s[i]
    BY <2>2, <2>3, <2>4
  <2> QED BY <2>2, <2>3, <2>5 DEF Front, n
<1>3. DOMAIN s = 1 .. Len(s) /\ DOMAIN Front(s) = 1 .. Len(s) - 1
  BY <1>1, <1>2
<1> QED BY <1>1, <1>2, <1>3, IsListOver DEF Last

LEMMA FrontAndLast ==
  ASSUME NEW fs, IsList(fs), fs # <<>>
  PROVE  fs = Append(Front(fs), Last(fs))
<1> DEFINE below == Front(fs)
<1>1. IsList(below)
  BY ListFront
<1>2. fs \in Seq(Range(fs)) /\ fs # <<>>
  BY DEF IsList
<1>3. /\ Len(below) = Len(fs) - 1 /\ Len(fs) \in Nat \ {0}
      /\ \A i \in 1 .. Len(fs) - 1 : below[i] = fs[i]
      /\ Last(fs) = fs[Len(fs)]
  BY ListFront
<1> HIDE DEF below
<1>4. /\ Len(Append(below, Last(fs))) = Len(fs)
      /\ \A i \in 1 .. Len(fs) : Append(below, Last(fs))[i] = fs[i]
  <2>1. /\ Len(Append(below, Last(fs))) = Len(below) + 1
        /\ \A i \in 1 .. Len(below) : Append(below, Last(fs))[i] = below[i]
        /\ Append(below, Last(fs))[Len(below) + 1] = Last(fs)
    BY <1>1, ListAppend
  <2>2. \A i \in 1 .. Len(fs) : i \in 1 .. Len(fs) - 1 \/ i = Len(fs)
    BY <1>3
  <2> QED BY <1>3, <2>1, <2>2
<1>5. below \in Seq(Range(fs))
  <2>1. /\ below \in [1 .. Len(below) -> Range(below)] /\ Len(below) \in Nat
    BY <1>1 DEF IsList
  <2>2. \A i \in 1 .. Len(below) : below[i] \in Range(fs)
    BY <1>2, <1>3 DEF Range
  <2>3. below \in [1 .. Len(below) -> Range(fs)]
    BY <2>1, <2>2
  <2> QED BY <2>1, <2>3
<1>6. Append(below, Last(fs)) \in Seq(Range(fs))
  <2>1. Last(fs) \in Range(fs)
    BY <1>2, <1>3
  <2> QED BY <1>5, <2>1
<1> QED BY <1>2, <1>4, <1>6, SeqEqual DEF below

LEMMA ListOnTop == ASSUME NEW s, IsList(s), NEW x PROVE IsList(<<x>> \o s)
<1> DEFINE T == Range(s) \cup {x}
<1>1. s \in [1 .. Len(s) -> T] /\ Len(s) \in Nat
  BY DEF IsList, Range
<1>2. s \in Seq(T) /\ <<x>> \in Seq(T)
  BY <1>1
<1>3. <<x>> \o s \in Seq(T)
  BY <1>2
<1> QED BY <1>3, IsListOver

LEMMA MinIsIn ==
  ASSUME NEW S \in SUBSET Nat, S # {}
  PROVE  Min(S) \in S /\ \A y \in S : Min(S) =< y
<1> DEFINE Less == {p \in Nat \X Nat : p[1] < p[2]}
<1>1. IsWellFoundedOn(Less, Nat)
  BY NatLessThanWellFounded DEF OpToRel
<1>2. PICK x \in S : \A y \in S : ~(<<y, x>> \in Less)
  <2> HIDE DEF Less
  <2> QED BY <1>1, WFMin
<1>3. ASSUME NEW y \in S PROVE x =< y
  <2>1. <<y, x>> \in Nat \X Nat /\ <<y, x>>[1] = y /\ <<y, x>>[2] = x
    OBVIOUS
  <2>2. ~(y < x)
    BY <1>2, <2>1
  <2> QED BY <2>2
<1> QED BY <1>3 DEF Min

LEMMA MaxIsIn ==
  ASSUME NEW n \in Nat, NEW S \in SUBSET (0 .. n), S # {}
  PROVE  Max(S) \in S /\ \A y \in S : Max(S) >= y
<1> DEFINE T == {n - y : y \in S}
<1>1. T \in SUBSET Nat /\ T # {}
  <2>1. \A y \in S : n - y \in Nat
    OBVIOUS
  <2> QED BY <2>1
<1>2. PICK x \in S : Min(T) = n - x
  BY <1>1, MinIsIn
<1>3. \A y \in S : n - x =< n - y
  BY <1>1, <1>2, MinIsIn
<1>4. \A y \in S : x >= y
  BY <1>3
<1> QED BY <1>4 DEF Max

LEMMA LessOfTwo ==
  ASSUME NEW i \in Int, NEW j \in Int
  PROVE  Min({i, j}) = (IF i =< j THEN i ELSE j) /\ Max({i, j}) = (IF i >= j THEN i ELSE j)
<1>1. Min({i, j}) = (IF i =< j THEN i ELSE j)
  BY DEF Min
<1>2. Max({i, j}) = (IF i >= j THEN i ELSE j)
  BY DEF Max
<1> QED BY <1>1, <1>2

LEMMA ListCat ==
  ASSUME NEW s, IsList(s), NEW u, IsList(u)
  PROVE  /\ IsList(s \o u)
         /\ Len(s) \in Nat /\ Len(u) \in Nat
         /\ DOMAIN s = 1 .. Len(s) /\ DOMAIN u = 1 .. Len(u)
         /\ Len(s \o u) = Len(s) + Len(u)
         /\ DOMAIN (s \o u) = 1 .. Len(s) + Len(u)
         /\ \A i \in 1 .. Len(s) : (s \o u)[i] = s[i]
         /\ \A i \in 1 .. Len(u) : (s \o u)[Len(s) + i] = u[i]
<1> DEFINE T == Range(s) \cup Range(u)
<1>1. s \in [1 .. Len(s) -> T] /\ Len(s) \in Nat /\ u \in [1 .. Len(u) -> T] /\ Len(u) \in Nat
  BY DEF IsList, Range
<1>2. s \in Seq(T) /\ u \in Seq(T)
  BY <1>1
<1>3. s \o u \in Seq(T) /\ Len(s \o u) = Len(s) + Len(u)
  BY <1>2
<1>4. /\ \A i \in 1 .. Len(s) : (s \o u)[i] = s[i]
      /\ \A i \in 1 .. Len(u) : (s \o u)[Len(s) + i] = u[i]
  <2>1. \A i \in 1 .. Len(s) + Len(u) : (s \o u)[i] = IF i =< Len(s) THEN s[i] ELSE u[i - Len(s)]
    BY <1>2, ConcatProperties
  <2>2. \A i \in 1 .. Len(s) : i \in 1 .. Len(s) + Len(u) /\ i =< Len(s)
    BY <1>1
  <2>3. \A i \in 1 .. Len(u) :
          Len(s) + i \in 1 .. Len(s) + Len(u) /\ ~(Len(s) + i =< Len(s)) /\ Len(s) + i - Len(s) = i
    BY <1>1
  <2> QED BY <2>1, <2>2, <2>3
<1>5. IsList(s \o u) /\ DOMAIN (s \o u) = 1 .. Len(s) + Len(u)
  <2>1. IsList(s \o u)
    BY <1>3, IsListOver
  <2>2. DOMAIN (s \o u) = 1 .. Len(s \o u)
    BY <1>3
  <2> QED BY <1>3, <2>1, <2>2
<1> QED BY <1>1, <1>3, <1>4, <1>5

LEMMA ListsAssociate ==
  ASSUME NEW s, IsList(s), NEW u, IsList(u), NEW v, IsList(v)
  PROVE  (s \o u) \o v = s \o (u \o v)
<1> DEFINE T == Range(s) \cup Range(u) \cup Range(v)
<1>1. /\ s \in [1 .. Len(s) -> T] /\ Len(s) \in Nat
      /\ u \in [1 .. Len(u) -> T] /\ Len(u) \in Nat
      /\ v \in [1 .. Len(v) -> T] /\ Len(v) \in Nat
  BY DEF IsList, Range
<1> HIDE DEF T
<1>2. s \in Seq(T) /\ u \in Seq(T) /\ v \in Seq(T)
  BY <1>1
<1> QED BY <1>2, ConcatAssociative

-----------------------------------------------------------------------------
(* How many places of a sequence hold a member of a set, and a value.       *)

Marks(s, T) == {i \in DOMAIN s : s[i] \in T}
Among(s, T) == Cardinality(Marks(s, T))

LEMMA AmongFinite ==
  ASSUME NEW s, IsList(s), NEW T
  PROVE  IsFiniteSet(Marks(s, T)) /\ Among(s, T) \in Nat
<1>1. Marks(s, T) \in SUBSET (1 .. Len(s)) /\ Len(s) \in Nat
  BY DEF Marks, IsList
<1>2. IsFiniteSet(1 .. Len(s))
  BY <1>1, FS_Interval
<1> QED BY <1>1, <1>2, FS_Subset, FS_CardinalityType DEF Among

LEMMA AmongCat ==
  ASSUME NEW s, IsList(s), NEW u, IsList(u), NEW T
  PROVE  Among(s \o u, T) = Among(s, T) + Among(u, T)
<1> DEFINE n == Len(s)
           Shifted == {n + i : i \in Marks(u, T)}
           Shift == [i \in Marks(u, T) |-> n + i]
<1>1. /\ n \in Nat /\ Len(u) \in Nat /\ DOMAIN s = 1 .. n /\ DOMAIN u = 1 .. Len(u)
      /\ DOMAIN (s \o u) = 1 .. n + Len(u)
      /\ \A i \in 1 .. n : (s \o u)[i] = s[i]
      /\ \A i \in 1 .. Len(u) : (s \o u)[n + i] = u[i]
  BY ListCat
<1> HIDE DEF n
<1>2. Marks(s \o u, T) = Marks(s, T) \cup Shifted
  <2>1. ASSUME NEW i \in 1 .. n + Len(u) PROVE i \in 1 .. n \/ (i - n \in 1 .. Len(u) /\ i = n + (i - n))
    BY <1>1
  <2>2. ASSUME NEW i \in Marks(s \o u, T) PROVE i \in Marks(s, T) \cup Shifted
    BY <1>1, <2>1 DEF Marks
  <2>3. ASSUME NEW i \in Marks(s, T) \cup Shifted PROVE i \in Marks(s \o u, T)
    BY <1>1 DEF Marks
  <2> QED BY <2>2, <2>3
<1>3. Marks(s, T) \cap Shifted = {}
  BY <1>1 DEF Marks
<1>4. IsFiniteSet(Marks(s, T)) /\ IsFiniteSet(Marks(u, T))
  BY AmongFinite
<1>5. IsFiniteSet(Shifted) /\ Cardinality(Shifted) = Cardinality(Marks(u, T))
  <2>1. Shift \in Bijection(Marks(u, T), Shifted)
    <3>1. \A i \in Marks(u, T) : i \in Nat
      BY <1>1 DEF Marks
    <3>2. Shift \in [Marks(u, T) -> Shifted]
      OBVIOUS
    <3>3. \A i, j \in Marks(u, T) : Shift[i] = Shift[j] => i = j
      BY <1>1, <3>1
    <3>4. \A y \in Shifted : \E i \in Marks(u, T) : Shift[i] = y
      OBVIOUS
    <3> QED BY <3>2, <3>3, <3>4, Fun_IsBij
  <2> QED BY <1>4, <2>1, FS_Bijection DEF ExistsBijection
<1>6. Cardinality(Marks(s, T) \cup Shifted) = Cardinality(Marks(s, T)) + Cardinality(Shifted) - Cardinality({})
  BY <1>3, <1>4, <1>5, FS_Union
<1> QED BY <1>2, <1>5, <1>6, AmongFinite, FS_EmptySet DEF Among

LEMMA AmongOne == ASSUME NEW y, NEW T PROVE Among(<<y>>, T) = (IF y \in T THEN 1 ELSE 0)
<1>1. Marks(<<y>>, T) = IF y \in T THEN {1} ELSE {}
  BY DEF Marks
<1> QED BY <1>1, FS_EmptySet, FS_Singleton DEF Among

LEMMA OneIsList == ASSUME NEW y PROVE IsList(<<y>>)
<1>1. <<y>> \in Seq({y})
  OBVIOUS
<1> QED BY <1>1, IsListOver

LEMMA AmongOnTop ==
  ASSUME NEW s, IsList(s), NEW y, NEW T
  PROVE  Among(<<y>> \o s, T) = Among(s, T) + (IF y \in T THEN 1 ELSE 0)
<1>1. Among(<<y>> \o s, T) = (IF y \in T THEN 1 ELSE 0) + Among(s, T)
  BY AmongCat, AmongOne, OneIsList
<1> QED BY <1>1, AmongFinite

\* A list is what comes before one of its items, the item, and what comes after it.
LEMMA ListAround ==
  ASSUME NEW s, IsList(s), NEW i \in DOMAIN s
  PROVE  /\ IsList(SubSeq(s, 1, i - 1)) /\ IsList(SubSeq(s, i + 1, Len(s)))
         /\ s = (SubSeq(s, 1, i - 1) \o <<s[i]>>) \o SubSeq(s, i + 1, Len(s))
<1>1. s \in Seq(Range(s)) /\ Len(s) \in Nat /\ i \in 1 .. Len(s)
  BY DEF IsList
<1> DEFINE a == SubSeq(s, 1, i - 1)
           b == SubSeq(s, i + 1, Len(s))
<1>2. /\ a \in Seq(Range(s)) /\ Len(a) = i - 1
      /\ \A k \in 1 .. i - 1 : a[k] = s[k]
  <2>1. \A k \in 1 .. i - 1 : s[k] \in Range(s) /\ 1 + k - 1 = k
    BY <1>1
  <2> QED BY <1>1, <2>1, SubSeqProperties
<1>3. /\ b \in Seq(Range(s)) /\ Len(b) = Len(s) - i
      /\ \A k \in 1 .. Len(s) - i : b[k] = s[i + k]
  <2>1. \A k \in 1 .. Len(s) - i : s[i + k] \in Range(s) /\ i + 1 + k - 1 = i + k
    BY <1>1
  <2>2. \A k \in i + 1 .. Len(s) : s[k] \in Range(s)
    BY <1>1
  <2> QED BY <1>1, <2>1, <2>2, SubSeqProperties
<1> HIDE DEF a, b
<1>4. <<s[i]>> \in Seq(Range(s))
  BY <1>1
<1>5. /\ a \o <<s[i]>> \in Seq(Range(s)) /\ Len(a \o <<s[i]>>) = i
      /\ \A k \in 1 .. i : (a \o <<s[i]>>)[k] = s[k]
  BY <1>1, <1>2, <1>4
<1> DEFINE c == a \o <<s[i]>>
<1> HIDE DEF c
<1>6. /\ c \o b \in Seq(Range(s)) /\ Len(c \o b) = Len(s)
      /\ \A k \in 1 .. Len(s) : (c \o b)[k] = s[k]
  <2>0. c \in Seq(Range(s)) /\ Len(c) = i /\ \A k \in 1 .. i : c[k] = s[k]
    BY <1>5 DEF c
  <2>1. c \o b \in Seq(Range(s)) /\ Len(c \o b) = Len(s)
    BY <1>1, <1>3, <2>0
  <2>2. ASSUME NEW k \in 1 .. Len(s) PROVE (c \o b)[k] = s[k]
    <3>1. CASE k =< i
      BY <1>1, <1>3, <2>0, <3>1
    <3>2. CASE k > i
      <4>1. k - i \in 1 .. Len(s) - i /\ i + (k - i) = k
        BY <1>1, <3>2
      <4>2. (c \o b)[k] = b[k - i]
        BY <1>1, <1>3, <2>0, <3>2, <4>1, ConcatProperties, SMTT(30)
      <4> QED BY <1>3, <4>1, <4>2
    <3>3. k =< i \/ k > i
      BY <1>1
    <3> QED BY <3>1, <3>2, <3>3
  <2> QED BY <2>1, <2>2
<1>7. c \o b = s
  BY <1>1, <1>6, SeqEqual
<1> QED BY <1>2, <1>3, <1>7, IsListOver DEF a, b, c

\* One occurrence less, without the item at i.
LEMMA AmongRemove ==
  ASSUME NEW s, IsList(s), NEW i \in DOMAIN s, NEW T
  PROVE  /\ IsList(RemoveAt(s, i))
         /\ Among(RemoveAt(s, i), T) = Among(s, T) - (IF s[i] \in T THEN 1 ELSE 0)
<1> DEFINE a == SubSeq(s, 1, i - 1)
           b == SubSeq(s, i + 1, Len(s))
<1>1. IsList(a) /\ IsList(b) /\ s = (a \o <<s[i]>>) \o b
  BY ListAround
<1> HIDE DEF a, b
<1>2. Among(s, T) = Among(a, T) + (IF s[i] \in T THEN 1 ELSE 0) + Among(b, T)
  <2> DEFINE c == a \o <<s[i]>>
  <2>1. IsList(c) /\ Among(c, T) = Among(a, T) + (IF s[i] \in T THEN 1 ELSE 0)
    <3>1. IsList(<<s[i]>>)
      BY OneIsList
    <3>2. IsList(c) /\ Among(c, T) = Among(a, T) + Among(<<s[i]>>, T)
      BY <1>1, <3>1, AmongCat, ListCat
    <3> QED BY <3>2, AmongOne
  <2>2. s = c \o b
    BY <1>1
  <2> HIDE DEF c
  <2>3. Among(c \o b, T) = Among(c, T) + Among(b, T)
    BY <1>1, <2>1, AmongCat
  <2> QED BY <2>1, <2>2, <2>3
<1>3. IsList(a \o b) /\ Among(a \o b, T) = Among(a, T) + Among(b, T)
  BY <1>1, AmongCat, ListCat
<1>4. Among(a, T) \in Nat /\ Among(b, T) \in Nat
  BY <1>1, AmongFinite
<1>5. RemoveAt(s, i) = a \o b
  BY DEF RemoveAt, a, b
<1> QED BY <1>2, <1>3, <1>4, <1>5

Occurs(s, x) == Among(s, {x})

LEMMA MarksFinite ==
  ASSUME NEW s, IsList(s), NEW x
  PROVE  Occurs(s, x) \in Nat
BY AmongFinite DEF Occurs

LEMMA OccursCat ==
  ASSUME NEW s, IsList(s), NEW u, IsList(u), NEW x
  PROVE  Occurs(s \o u, x) = Occurs(s, x) + Occurs(u, x)
BY AmongCat DEF Occurs

LEMMA OccursOne == ASSUME NEW y, NEW x PROVE Occurs(<<y>>, x) = (IF y = x THEN 1 ELSE 0)
<1>1. Among(<<y>>, {x}) = IF y \in {x} THEN 1 ELSE 0
  BY AmongOne
<1> QED BY <1>1 DEF Occurs

LEMMA OccursAppend ==
  ASSUME NEW s, IsList(s), NEW y, NEW x
  PROVE  Occurs(Append(s, y), x) = Occurs(s, x) + (IF y = x THEN 1 ELSE 0)
<1>1. Append(s, y) = s \o <<y>>
  <2>1. s \in Seq(Range(s) \cup {y})
    <3>1. s \in [1 .. Len(s) -> Range(s) \cup {y}] /\ Len(s) \in Nat
      BY DEF IsList, Range
    <3> QED BY <3>1
  <2> QED BY <2>1
<1> QED BY <1>1, OccursCat, OccursOne, OneIsList

LEMMA OccursOnTop ==
  ASSUME NEW s, IsList(s), NEW y, NEW x
  PROVE  Occurs(<<y>> \o s, x) = Occurs(s, x) + (IF y = x THEN 1 ELSE 0)
<1>1. Among(<<y>> \o s, {x}) = Among(s, {x}) + (IF y \in {x} THEN 1 ELSE 0)
  BY AmongOnTop
<1> QED BY <1>1 DEF Occurs

LEMMA OccursRemove ==
  ASSUME NEW s, IsList(s), NEW i \in DOMAIN s, NEW x
  PROVE  /\ IsList(RemoveAt(s, i))
         /\ Occurs(RemoveAt(s, i), x) = Occurs(s, x) - (IF s[i] = x THEN 1 ELSE 0)
<1>1. /\ IsList(RemoveAt(s, i))
      /\ Among(RemoveAt(s, i), {x}) = Among(s, {x}) - (IF s[i] \in {x} THEN 1 ELSE 0)
  BY AmongRemove
<1> QED BY <1>1 DEF Occurs

-----------------------------------------------------------------------------
(* Loops over a sequence: what a recursive function has to satisfy has a     *)
(* function that satisfies it.                                              *)

\* f begins with x and makes the step F[n] as its n-th, N of them.
Loop(f, X, N, x, F) ==
  f \in [0 .. N -> X] /\ f[0] = x /\ \A n \in 1 .. N : f[n] = F[n][f[n - 1]]

LEMMA Loops ==
  ASSUME NEW X, NEW N \in Nat, NEW x \in X, NEW F \in [1 .. N -> [X -> X]]
  PROVE  \E f : Loop(f, X, N, x, F)
<1> DEFINE Good(m, f) == f[0] = x /\ \A n \in 1 .. m : f[n] = F[n][f[n - 1]]
           Bad == {m \in 0 .. N : \A f \in [0 .. m -> X] : ~Good(m, f)}
<1>1. SUFFICES Bad = {}
  <2>1. N \notin Bad => \E f \in [0 .. N -> X] : Good(N, f)
    <3> HIDE DEF Good
    <3> QED OBVIOUS
  <2> QED BY <2>1 DEF Loop
<1>2. SUFFICES ASSUME Bad # {} PROVE FALSE
  OBVIOUS
<1> DEFINE m == Min(Bad)
<1>3. Bad \in SUBSET Nat
  OBVIOUS
<1> HIDE DEF Bad
<1>4. m \in Bad /\ \A k \in Bad : m =< k
  BY <1>2, <1>3, MinIsIn
<1> HIDE DEF m
<1>5. m \in 0 .. N /\ \A f \in [0 .. m -> X] : ~Good(m, f)
  <2> HIDE DEF Good
  <2> QED BY <1>4 DEF Bad
<1>6. m # 0
  <2>1. [i \in 0 .. 0 |-> x] \in [0 .. 0 -> X] /\ Good(0, [i \in 0 .. 0 |-> x])
    OBVIOUS
  <2> HIDE DEF Good
  <2> QED BY <1>5, <2>1
<1> DEFINE p == m - 1
<1>7. p \in 0 .. N /\ p < m /\ m = p + 1 /\ p \in Nat /\ m \in 1 .. N
  BY <1>5, <1>6
<1>8. p \notin Bad
  <2> HIDE DEF p
  <2> QED BY <1>4, <1>7
<1> HIDE DEF p
<1>9. PICK f \in [0 .. p -> X] : Good(p, f)
  <2> HIDE DEF Good
  <2> QED BY <1>7, <1>8 DEF Bad
<1> DEFINE g == [i \in 0 .. m |-> IF i = m THEN F[m][f[p]] ELSE f[i]]
<1>10. f[p] \in X /\ F[m][f[p]] \in X
  BY <1>7, <1>9
<1>11. g \in [0 .. m -> X]
  BY <1>7, <1>9, <1>10
<1>12. Good(m, g)
  <2>1. g[0] = x
    BY <1>6, <1>7, <1>9
  <2>2. ASSUME NEW n \in 1 .. m PROVE g[n] = F[n][g[n - 1]]
    <3>1. CASE n = m
      <4>1. n - 1 = p /\ p \in 0 .. m /\ p # m /\ m \in 0 .. m
        BY <1>7, <3>1
      <4>2. g[p] = f[p] /\ g[m] = F[m][f[p]]
        BY <4>1
      <4> HIDE DEF g
      <4> QED BY <3>1, <4>1, <4>2
    <3>2. CASE n # m
      <4>1. n \in 1 .. p /\ n \in 0 .. m /\ n - 1 \in 0 .. m /\ n - 1 # m
        BY <1>7, <3>2
      <4>2. g[n] = f[n] /\ g[n - 1] = f[n - 1]
        BY <3>2, <4>1
      <4>3. f[n] = F[n][f[n - 1]]
        BY <1>9, <4>1
      <4> HIDE DEF g
      <4> QED BY <4>2, <4>3
    <3> QED BY <3>1, <3>2
  <2> HIDE DEF g
  <2> QED BY <2>1, <2>2
<1> HIDE DEF g, Good
<1> QED BY <1>5, <1>11, <1>12

\* A set of numbers that has no first one is empty.
LEMMA NoFirst ==
  ASSUME NEW N \in Nat, NEW Bad \in SUBSET (0 .. N),
         0 \notin Bad, \A n \in 1 .. N : n - 1 \notin Bad => n \notin Bad
  PROVE  Bad = {}
<1> SUFFICES ASSUME Bad # {} PROVE FALSE
  OBVIOUS
<1> DEFINE m == Min(Bad)
<1>1. m \in Bad /\ \A n \in Bad : m =< n
  BY MinIsIn
<1> HIDE DEF m
<1>2. m \in 1 .. N /\ m - 1 < m
  BY <1>1
<1>3. m - 1 \notin Bad
  BY <1>1, <1>2
<1> QED BY <1>1, <1>2, <1>3


\* A set of positions that has no last one is empty.
LEMMA NoLast ==
  ASSUME NEW n \in Nat, NEW Bad \in SUBSET (1 .. n),
         \A p \in 1 .. n : (\A k \in p + 1 .. n : k \notin Bad) => p \notin Bad
  PROVE  Bad = {}
<1> SUFFICES ASSUME Bad # {} PROVE FALSE
  OBVIOUS
<1> DEFINE m == Max(Bad)
<1>1. Bad \in SUBSET (0 .. n)
  OBVIOUS
<1>2. m \in Bad /\ \A k \in Bad : m >= k
  BY <1>1, MaxIsIn
<1> HIDE DEF m
<1>3. \A k \in m + 1 .. n : k \notin Bad
  BY <1>2
<1> QED BY <1>2, <1>3

\* A function on positions exists if each of its values comes from later ones.
FromLater(G, n, V) ==
  \A f, g \in [1 .. n -> V], p \in 1 .. n :
    (\A k \in p + 1 .. n : f[k] = g[k]) => G[f][p] = G[g][p]

Turns(G, n, V) ==
  /\ n \in Nat
  /\ V # {}
  /\ G \in [[1 .. n -> V] -> [1 .. n -> V]]
  /\ FromLater(G, n, V)

LEMMA Descends ==
  ASSUME NEW n, NEW V, NEW G, Turns(G, n, V)
  PROVE  \E f \in [1 .. n -> V] : G[f] = f
<1>0. /\ n \in Nat
      /\ V # {}
      /\ G \in [[1 .. n -> V] -> [1 .. n -> V]]
      /\ FromLater(G, n, V)
  BY DEF Turns
<1> USE <1>0
<1> DEFINE Fixed(f, k) == \A j \in 1 .. n : j > n - k => G[f][j] = f[j]
           Bad == {k \in 0 .. n : ~ \E f \in [1 .. n -> V] : Fixed(f, k)}
<1>1. 0 \notin Bad
  <2>1. PICK v \in V : TRUE
    OBVIOUS
  <2>2. [j \in 1 .. n |-> v] \in [1 .. n -> V]
    OBVIOUS
  <2>3. Fixed([j \in 1 .. n |-> v], 0)
    OBVIOUS
  <2> HIDE DEF Fixed
  <2> QED BY <2>2, <2>3
<1>2. ASSUME NEW k \in 1 .. n, k - 1 \notin Bad PROVE k \notin Bad
  <2>1. k - 1 \in 0 .. n
    OBVIOUS
  <2>2. PICK f \in [1 .. n -> V] : Fixed(f, k - 1)
    <3> HIDE DEF Fixed
    <3> QED BY <1>2, <2>1
  <2> DEFINE g == G[f]
  <2>3. g \in [1 .. n -> V]
    OBVIOUS
  <2>4. ASSUME NEW j \in 1 .. n, j > n - k PROVE G[g][j] = g[j]
    <3>1. \A i \in j + 1 .. n : i \in 1 .. n /\ i > n - (k - 1)
      BY <2>4
    <3>2. \A i \in j + 1 .. n : g[i] = f[i]
      BY <2>2, <3>1
    <3> HIDE DEF g
    <3>3. G[g][j] = G[f][j]
      BY <2>3, <3>2 DEF FromLater
    <3> QED BY <3>3 DEF g
  <2>5. Fixed(g, k)
    BY <2>4
  <2> HIDE DEF Fixed, g
  <2> QED BY <2>3, <2>5
<1>3. Bad = {}
  <2>1. Bad \in SUBSET (0 .. n)
    OBVIOUS
  <2> HIDE DEF Bad
  <2> QED BY <1>1, <1>2, <2>1, NoFirst
<1>4. PICK f \in [1 .. n -> V] : Fixed(f, n)
  <2>1. n \in 0 .. n
    OBVIOUS
  <2>2. n \notin Bad
    <3> HIDE DEF Bad
    <3> QED BY <1>3
  <2> HIDE DEF Fixed
  <2> QED BY <2>1, <2>2
<1>5. \A j \in 1 .. n : G[f][j] = f[j]
  BY <1>4
<1>6. G[f] \in [1 .. n -> V]
  OBVIOUS
<1>7. G[f] = f
  BY <1>5, <1>6
<1> QED BY <1>7

-----------------------------------------------------------------------------
(* Parts of a sequence.                                                      *)

LEMMA PartIs ==
  ASSUME NEW S, NEW s \in Seq(S), NEW a \in 1 .. Len(s) + 1, NEW b \in a - 1 .. Len(s)
  PROVE  /\ SubSeq(s, a, b) \in Seq(S)
         /\ Len(SubSeq(s, a, b)) = b - a + 1
         /\ \A i \in 1 .. b - a + 1 : SubSeq(s, a, b)[i] = s[a + i - 1]
<1>1. Len(s) \in Nat /\ a \in Int /\ b \in Int /\ \A i \in a .. b : s[i] \in S
  OBVIOUS
<1>2. /\ SubSeq(s, a, b) \in Seq(S)
      /\ Len(SubSeq(s, a, b)) = IF a <= b THEN b - a + 1 ELSE 0
      /\ \A i \in 1 .. b - a + 1 : SubSeq(s, a, b)[i] = s[a + i - 1]
  BY <1>1, SubSeqProperties
<1> QED BY <1>1, <1>2

\* Two parts, one directly behind the other, are one.
LEMMA PartsJoin ==
  ASSUME NEW S, NEW s \in Seq(S), NEW a \in 1 .. Len(s) + 1, NEW b \in a - 1 .. Len(s), NEW d \in b .. Len(s)
  PROVE  SubSeq(s, a, b) \o SubSeq(s, b + 1, d) = SubSeq(s, a, d)
<1> DEFINE u == SubSeq(s, a, b)
           v == SubSeq(s, b + 1, d)
           w == SubSeq(s, a, d)
           k == b - a + 1
           l == d - b
<1>1. Len(s) \in Nat /\ k \in Nat /\ l \in Nat /\ d - a + 1 = k + l
  OBVIOUS
<1>2. /\ u \in Seq(S) /\ Len(u) = k
      /\ \A i \in 1 .. k : u[i] = s[a + i - 1]
  BY PartIs
<1>3. /\ v \in Seq(S) /\ Len(v) = l
      /\ \A i \in 1 .. l : v[i] = s[b + 1 + i - 1]
  <2>1. b + 1 \in 1 .. Len(s) + 1 /\ d \in b + 1 - 1 .. Len(s) /\ d - (b + 1) + 1 = d - b
    OBVIOUS
  <2>2. /\ v \in Seq(S) /\ Len(v) = d - (b + 1) + 1
        /\ \A i \in 1 .. d - (b + 1) + 1 : v[i] = s[b + 1 + i - 1]
    BY <2>1, PartIs
  <2> HIDE DEF v
  <2> QED BY <2>1, <2>2
<1>4. /\ w \in Seq(S) /\ Len(w) = d - a + 1
      /\ \A i \in 1 .. d - a + 1 : w[i] = s[a + i - 1]
  <2>1. d \in a - 1 .. Len(s)
    OBVIOUS
  <2> QED BY <2>1, PartIs
<1> HIDE DEF u, v, w
<1>5. /\ u \o v \in Seq(S) /\ Len(u \o v) = k + l
      /\ \A i \in 1 .. k + l : (u \o v)[i] = IF i <= k THEN u[i] ELSE v[i - k]
  <2> HIDE DEF k, l
  <2> QED BY <1>2, <1>3, ConcatProperties
<1>6. \A i \in 1 .. k + l : (u \o v)[i] = w[i]
  <2> TAKE i \in 1 .. k + l
  <2>1. CASE i <= k
    BY <1>1, <1>2, <1>4, <1>5, <2>1
  <2>2. CASE ~(i <= k)
    <3>1. i - k \in 1 .. l /\ b + 1 + (i - k) - 1 = a + i - 1
      BY <1>1, <2>2
    <3>2. (u \o v)[i] = v[i - k]
      BY <1>5, <2>2
    <3> QED BY <1>1, <1>3, <1>4, <3>1, <3>2
  <2> QED BY <2>1, <2>2
<1> HIDE DEF k, l
<1>7. Len(u \o v) = Len(w)
  BY <1>1, <1>4, <1>5
<1>8. u \o v = w
  BY <1>4, <1>5, <1>6, <1>7, <1>1, SeqEqual
<1> QED BY <1>8 DEF u, v, w

LEMMA FlattenOne == ASSUME NEW x PROVE FlattenSeq(<<x>>) = x
<1> DEFINE Rec(h) == h = [i \in 1 .. Len(<<x>>) |-> IF i = 1 THEN <<x>>[i] ELSE h[i - 1] \o <<x>>[i]]
           F == CHOOSE h : Rec(h)
<1>1. Len(<<x>>) = 1 /\ <<x>>[1] = x
  OBVIOUS
<1>2. FlattenSeq(<<x>>) = F[1]
  BY <1>1 DEF FlattenSeq
<1>3. Rec([i \in 1 .. 1 |-> x])
  BY <1>1
<1>4. Rec(F)
  <2> HIDE DEF Rec
  <2> QED BY <1>3
<1> HIDE DEF F
<1> QED BY <1>1, <1>2, <1>4

-----------------------------------------------------------------------------
(* Remainders.                                                              *)

\* The remainder is the only number below m that differs from x by a multiple of m.
LEMMA Remainder ==
  ASSUME NEW m \in Nat \ {0}, NEW q \in Int, NEW y \in 0 .. m - 1
  PROVE  (m * q + y) % m = y
<1> DEFINE x == m * q + y
<1>1. x \in Int
  OBVIOUS
<1> HIDE DEF x
<1> DEFINE p == x \div m
           z == x % m
<1>2. z \in 0 .. m - 1 /\ p \in Int /\ x = m * p + z
  BY <1>1
<1> HIDE DEF p, z
<1>3. z \in 0 .. m - 1 /\ p \in Int /\ m * p + z = m * q + y
  BY <1>2 DEF x
<1>4. p = q
  <2>1. CASE p > q
    <3>1. m * p >= m * q + m
      <4>1. p - q - 1 \in Nat
        BY <1>3, <2>1
      <4>2. m * (p - q - 1) \in Nat
        BY <4>1
      <4>3. m * (p - q - 1) = m * p - m * q - m
        BY <1>3
      <4>4. m * p \in Int /\ m * q \in Int
        BY <1>3
      <4> QED BY <4>2, <4>3, <4>4
    <3> QED BY <1>3, <3>1
  <2>2. CASE q > p
    <3>1. m * q >= m * p + m
      <4>1. q - p - 1 \in Nat
        BY <1>3, <2>2
      <4>2. m * (q - p - 1) \in Nat
        BY <4>1
      <4>3. m * (q - p - 1) = m * q - m * p - m
        BY <1>3
      <4>4. m * p \in Int /\ m * q \in Int
        BY <1>3
      <4> QED BY <4>2, <4>3, <4>4
    <3> QED BY <1>3, <3>1
  <2> QED BY <1>3, <2>1, <2>2
<1>5. z = y
  <2>1. m * p \in Int
    BY <1>3
  <2> QED BY <1>3, <1>4, <2>1
<1> QED BY <1>5 DEF x, z

-----------------------------------------------------------------------------
(* Sequences put together from parts.                                        *)

LEMMA PartOne ==
  ASSUME NEW S, NEW s \in Seq(S), NEW a \in 1 .. Len(s)
  PROVE  SubSeq(s, a, a) = <<s[a]>>
<1> DEFINE u == SubSeq(s, a, a)
<1>1. a - a + 1 = 1 /\ a \in 1 .. Len(s) + 1 /\ a \in a - 1 .. Len(s) /\ a + 1 - 1 = a
  OBVIOUS
<1>2. u \in Seq(S) /\ Len(u) = a - a + 1 /\ \A i \in 1 .. a - a + 1 : u[i] = s[a + i - 1]
  BY <1>1, PartIs
<1> HIDE DEF u
<1>3. u \in Seq(S) /\ Len(u) = 1 /\ u[1] = s[a]
  BY <1>1, <1>2
<1>4. u = <<s[a]>>
  BY <1>3
<1> QED BY <1>4 DEF u

LEMMA PartAll ==
  ASSUME NEW S, NEW s \in Seq(S)
  PROVE  SubSeq(s, 1, Len(s)) = s
<1> DEFINE u == SubSeq(s, 1, Len(s))
<1>1. 1 \in 1 .. Len(s) + 1 /\ Len(s) \in 1 - 1 .. Len(s) /\ Len(s) - 1 + 1 = Len(s) /\ \A i \in 1 .. Len(s) : 1 + i - 1 = i
  OBVIOUS
<1>2. /\ u \in Seq(S) /\ Len(u) = Len(s) - 1 + 1
      /\ \A i \in 1 .. Len(s) - 1 + 1 : u[i] = s[1 + i - 1]
  BY <1>1, PartIs
<1> HIDE DEF u
<1>3. u = s
  BY <1>1, <1>2, SeqEqual
<1> QED BY <1>3 DEF u

LEMMA PartNone ==
  ASSUME NEW S, NEW s \in Seq(S), NEW a \in 1 .. Len(s) + 1
  PROVE  SubSeq(s, a, a - 1) = <<>>
<1>1. a - 1 \in a - 1 .. Len(s) /\ a - 1 - a + 1 = 0
  OBVIOUS
<1>2. SubSeq(s, a, a - 1) \in Seq(S) /\ Len(SubSeq(s, a, a - 1)) = a - 1 - a + 1
  BY <1>1, PartIs
<1> QED BY <1>1, <1>2, EmptySeq

LEMMA FlattenIs ==
  ASSUME NEW S, NEW ss \in Seq(Seq(S))
  PROVE  \E F \in [0 .. Len(ss) -> Seq(S)] :
           /\ F[0] = <<>> /\ \A i \in 1 .. Len(ss) : F[i] = F[i - 1] \o ss[i]
           /\ FlattenSeq(ss) = F[Len(ss)]
<1> DEFINE n == Len(ss)
           X == Seq(S)
           G == [i \in 1 .. n |-> [x \in X |-> x \o ss[i]]]
           Rec(h) == h = [i \in 1 .. n |-> IF i = 1 THEN ss[i] ELSE h[i - 1] \o ss[i]]
           H == CHOOSE h : Rec(h)
<1>1. n \in Nat /\ <<>> \in X /\ \A i \in 1 .. n : ss[i] \in X
  OBVIOUS
<1>2. FlattenSeq(ss) = IF n = 0 THEN ss ELSE H[n]
  BY DEF FlattenSeq
<1>3. ss = <<>> \/ n # 0
  OBVIOUS
<1> HIDE DEF n
<1>4. \A x, y \in X : x \o y \in X
  OBVIOUS
<1>5. G \in [1 .. n -> [X -> X]]
  <2> HIDE DEF X
  <2> QED BY <1>1, <1>4
<1>6. PICK F : Loop(F, X, n, <<>>, G)
  <2> HIDE DEF X, G
  <2> QED BY <1>1, <1>5, Loops
<1>7. F \in [0 .. n -> X] /\ F[0] = <<>> /\ \A i \in 1 .. n : F[i] = G[i][F[i - 1]]
  <2> HIDE DEF X, G
  <2> QED BY <1>6 DEF Loop
<1>8. \A i \in 1 .. n : F[i] = F[i - 1] \o ss[i]
  <2> TAKE i \in 1 .. n
  <2>1. F[i - 1] \in X
    <3>1. i - 1 \in 0 .. n
      BY <1>1
    <3> HIDE DEF X
    <3> QED BY <1>7, <3>1
  <2> HIDE DEF X
  <2> QED BY <1>7, <2>1
<1> DEFINE f == [i \in 1 .. n |-> F[i]]
<1>9. ASSUME NEW i \in 1 .. n PROVE F[i] = IF i = 1 THEN ss[i] ELSE f[i - 1] \o ss[i]
  <2>1. CASE i = 1
    <3>1. F[i] = <<>> \o ss[i] /\ ss[i] \in Seq(S)
      <4>1. i - 1 = 0
        BY <2>1
      <4>2. F[i] = F[i - 1] \o ss[i]
        BY <1>8
      <4>3. F[i - 1] = <<>>
        BY <1>7, <4>1
      <4> QED BY <1>1, <4>2, <4>3
    <3> QED BY <2>1, <3>1, ConcatEmptySeq
  <2>2. CASE i # 1
    <3>1. i - 1 \in 1 .. n
      BY <1>1, <2>2
    <3> QED BY <1>8, <2>2, <3>1
  <2> QED BY <2>1, <2>2
<1>10. Rec(f)
  BY <1>9
<1>11. Rec(H)
  <2> HIDE DEF Rec
  <2> QED BY <1>10
<1> HIDE DEF H
<1>12. \A i \in 1 .. n : H[i] = IF i = 1 THEN ss[i] ELSE H[i - 1] \o ss[i]
  BY <1>11
<1> HIDE DEF Rec
<1> DEFINE Bad == {i \in 0 .. n : i # 0 /\ H[i] # F[i]}
<1>13. Bad = {}
  <2>1. Bad \in SUBSET (0 .. n) /\ 0 \notin Bad
    OBVIOUS
  <2>2. ASSUME NEW i \in 1 .. n, i - 1 \notin Bad PROVE i \notin Bad
    <3>1. i # 1 => i - 1 \in 1 .. n /\ H[i - 1] = F[i - 1]
      BY <1>1, <2>2
    <3> QED BY <1>9, <1>12, <3>1
  <2> HIDE DEF Bad
  <2> QED BY <1>1, <2>1, <2>2, NoFirst
<1>14. FlattenSeq(ss) = F[n]
  <2>1. CASE n = 0
    BY <1>2, <1>3, <1>7, <2>1
  <2>2. CASE n # 0
    <3>1. n \in 0 .. n
      BY <1>1
    <3>2. H[n] = F[n]
      BY <1>13, <2>2, <3>1
    <3> QED BY <1>2, <2>2, <3>2
  <2> QED BY <2>1, <2>2
<1> QED BY <1>7, <1>8, <1>14 DEF n

LEMMA FlattenNone == FlattenSeq(<<>>) = <<>>
BY DEF FlattenSeq

\* Parts of parts.
LEMMA FlattenCat ==
  ASSUME NEW S, NEW a \in Seq(Seq(S)), NEW b \in Seq(Seq(S))
  PROVE  /\ FlattenSeq(a \o b) = FlattenSeq(a) \o FlattenSeq(b)
         /\ FlattenSeq(a) \in Seq(S)
<1> DEFINE k == Len(a)
           l == Len(b)
           c == a \o b
<1>1. k \in Nat /\ l \in Nat
  OBVIOUS
<1>2. /\ c \in Seq(Seq(S)) /\ Len(c) = k + l
      /\ \A i \in 1 .. k : c[i] = a[i]
      /\ \A i \in 1 .. l : c[k + i] = b[i]
  <2>1. \A i \in 1 .. k + l : c[i] = IF i <= k THEN a[i] ELSE b[i - k]
    BY ConcatProperties
  <2>2. c \in Seq(Seq(S)) /\ Len(c) = k + l
    BY ConcatProperties
  <2> HIDE DEF c, k, l
  <2>3. \A i \in 1 .. k : i \in 1 .. k + l /\ i <= k
    BY <1>1
  <2>4. \A i \in 1 .. l : k + i \in 1 .. k + l /\ ~(k + i <= k) /\ k + i - k = i
    BY <1>1
  <2>5. \A i \in 1 .. k : c[i] = a[i]
    BY <2>1, <2>3
  <2>6. \A i \in 1 .. l : c[k + i] = b[i]
    <3> TAKE i \in 1 .. l
    <3> DEFINE j == k + i
    <3>1. j \in 1 .. k + l /\ ~(j <= k) /\ j - k = i
      BY <1>1, <2>4
    <3> HIDE DEF j
    <3>2. c[j] = b[j - k]
      BY <2>1, <3>1
    <3> QED BY <3>1, <3>2 DEF j
  <2> QED BY <2>2, <2>5, <2>6
<1>3. PICK A \in [0 .. k -> Seq(S)] :
        /\ A[0] = <<>> /\ \A i \in 1 .. k : A[i] = A[i - 1] \o a[i]
        /\ FlattenSeq(a) = A[k]
  BY FlattenIs
<1>4. PICK B \in [0 .. l -> Seq(S)] :
        /\ B[0] = <<>> /\ \A i \in 1 .. l : B[i] = B[i - 1] \o b[i]
        /\ FlattenSeq(b) = B[l]
  BY FlattenIs
<1>5. PICK C \in [0 .. k + l -> Seq(S)] :
        /\ C[0] = <<>> /\ \A i \in 1 .. k + l : C[i] = C[i - 1] \o c[i]
        /\ FlattenSeq(c) = C[k + l]
  <2> HIDE DEF c, k, l
  <2>1. \E C \in [0 .. Len(c) -> Seq(S)] :
          /\ C[0] = <<>> /\ \A i \in 1 .. Len(c) : C[i] = C[i - 1] \o c[i]
          /\ FlattenSeq(c) = C[Len(c)]
    BY <1>2, FlattenIs
  <2> QED BY <1>2, <2>1
<1>6. \A i \in 1 .. l : b[i] \in Seq(S)
  OBVIOUS
<1> HIDE DEF k, l, c
<1> DEFINE BadA == {i \in 0 .. k : C[i] # A[i]}
<1>7. BadA = {}
  <2>1. BadA \in SUBSET (0 .. k) /\ 0 \notin BadA
    BY <1>3, <1>5
  <2>2. ASSUME NEW i \in 1 .. k, i - 1 \notin BadA PROVE i \notin BadA
    <3>1. i - 1 \in 0 .. k /\ i \in 1 .. k + l
      BY <1>1
    <3>2. C[i - 1] = A[i - 1]
      BY <2>2, <3>1
    <3> QED BY <1>2, <1>3, <1>5, <3>1, <3>2
  <2> HIDE DEF BadA
  <2> QED BY <1>1, <2>1, <2>2, NoFirst
<1>8. C[k] = A[k] /\ A[k] \in Seq(S)
  <2>1. k \in 0 .. k
    BY <1>1
  <2> QED BY <1>3, <1>7, <2>1
<1> DEFINE BadB == {i \in 0 .. l : C[k + i] # A[k] \o B[i]}
<1>9. BadB = {}
  <2>1. BadB \in SUBSET (0 .. l) /\ 0 \notin BadB
    <3>1. A[k] \o B[0] = A[k] /\ k + 0 = k
      BY <1>1, <1>4, <1>8, ConcatEmptySeq
    <3> QED BY <1>8, <3>1
  <2>2. ASSUME NEW i \in 1 .. l, i - 1 \notin BadB PROVE i \notin BadB
    <3>1. i - 1 \in 0 .. l /\ k + i \in 1 .. k + l /\ k + i - 1 = k + (i - 1) /\ i \in 0 .. l
      BY <1>1
    <3>2. C[k + (i - 1)] = A[k] \o B[i - 1]
      BY <2>2, <3>1
    <3>3. C[k + i] = (A[k] \o B[i - 1]) \o b[i]
      <4> DEFINE j == k + i
      <4>0. j \in 1 .. k + l
        BY <3>1
      <4> HIDE DEF j
      <4>1. C[j] = C[j - 1] \o c[j]
        BY <1>5, <4>0
      <4>2. j - 1 = k + (i - 1)
        BY <1>1, <3>1 DEF j
      <4>3. C[j - 1] = A[k] \o B[i - 1]
        BY <3>2, <4>2
      <4>4. c[j] = b[i]
        BY <1>2 DEF j
      <4>5. C[j] = (A[k] \o B[i - 1]) \o b[i]
        BY <4>1, <4>3, <4>4
      <4> QED BY <4>5 DEF j
    <3>4. B[i - 1] \in Seq(S) /\ b[i] \in Seq(S)
      BY <1>4, <1>6, <3>1
    <3>5. (A[k] \o B[i - 1]) \o b[i] = A[k] \o (B[i - 1] \o b[i])
      <4> DEFINE u == A[k]
                 v == B[i - 1]
                 w == b[i]
      <4>1. u \in Seq(S) /\ v \in Seq(S) /\ w \in Seq(S)
        BY <1>8, <3>4
      <4> HIDE DEF u, v, w
      <4>2. (u \o v) \o w = u \o (v \o w)
        BY <4>1, ConcatAssociative
      <4> QED BY <4>2 DEF u, v, w
    <3>6. B[i] = B[i - 1] \o b[i]
      BY <1>4
    <3> QED BY <3>3, <3>5, <3>6
  <2> HIDE DEF BadB
  <2> QED BY <1>1, <2>1, <2>2, NoFirst
<1>10. C[k + l] = A[k] \o B[l]
  <2>1. l \in 0 .. l
    BY <1>1
  <2> QED BY <1>9, <2>1
<1> QED BY <1>3, <1>4, <1>5, <1>8, <1>10 DEF c

LEMMA FlattenOnTop ==
  ASSUME NEW S, NEW x \in Seq(S), NEW ss \in Seq(Seq(S))
  PROVE  FlattenSeq(<<x>> \o ss) = x \o FlattenSeq(ss)
<1>1. <<x>> \in Seq(Seq(S))
  OBVIOUS
<1>2. FlattenSeq(<<x>> \o ss) = FlattenSeq(<<x>>) \o FlattenSeq(ss)
  BY <1>1, FlattenCat
<1> QED BY <1>2, FlattenOne

\* What stands from a on falls into what stands before b and what stands from b on.
LEMMA FlattenFrom ==
  ASSUME NEW S, NEW ss \in Seq(Seq(S)), NEW a \in 1 .. Len(ss) + 1, NEW b \in a .. Len(ss) + 1
  PROVE  /\ FlattenSeq(SubSeq(ss, a, Len(ss))) = FlattenSeq(SubSeq(ss, a, b - 1)) \o FlattenSeq(SubSeq(ss, b, Len(ss)))
         /\ FlattenSeq(SubSeq(ss, a, b - 1)) \in Seq(S)
         /\ FlattenSeq(SubSeq(ss, b, Len(ss))) \in Seq(S)
<1>1. b - 1 \in a - 1 .. Len(ss) /\ Len(ss) \in b - 1 .. Len(ss) /\ b - 1 + 1 = b /\ b \in 1 .. Len(ss) + 1
  OBVIOUS
<1>2. SubSeq(ss, a, b - 1) \o SubSeq(ss, b, Len(ss)) = SubSeq(ss, a, Len(ss))
  <2>1. SubSeq(ss, a, b - 1) \o SubSeq(ss, b - 1 + 1, Len(ss)) = SubSeq(ss, a, Len(ss))
    BY <1>1, PartsJoin
  <2> QED BY <1>1, <2>1
<1>3. SubSeq(ss, a, b - 1) \in Seq(Seq(S)) /\ SubSeq(ss, b, Len(ss)) \in Seq(Seq(S))
  BY <1>1, PartIs
<1> DEFINE x == SubSeq(ss, a, b - 1)
           y == SubSeq(ss, b, Len(ss))
<1> HIDE DEF x, y
<1>4. FlattenSeq(x \o y) = FlattenSeq(x) \o FlattenSeq(y) /\ FlattenSeq(x) \in Seq(S) /\ FlattenSeq(y) \in Seq(S)
  <2>1. x \in Seq(Seq(S)) /\ y \in Seq(Seq(S))
    BY <1>3 DEF x, y
  <2> QED BY <2>1, FlattenCat
<1> QED BY <1>2, <1>4 DEF x, y

\* Parts that are one item each, and parts that are none.
LEMMA FlattenSame ==
  ASSUME NEW S, NEW s \in Seq(S), NEW ss \in Seq(Seq(S)), Len(ss) = Len(s),
         \A i \in 1 .. Len(s) : ss[i] = <<s[i]>>
  PROVE  FlattenSeq(ss) = s
<1> DEFINE n == Len(s)
<1>1. n \in Nat /\ Len(ss) = n
  OBVIOUS
<1>2. PICK F \in [0 .. n -> Seq(S)] :
        /\ F[0] = <<>> /\ \A i \in 1 .. n : F[i] = F[i - 1] \o ss[i]
        /\ FlattenSeq(ss) = F[n]
  <2> HIDE DEF n
  <2>1. \E F \in [0 .. Len(ss) -> Seq(S)] :
          /\ F[0] = <<>> /\ \A i \in 1 .. Len(ss) : F[i] = F[i - 1] \o ss[i]
          /\ FlattenSeq(ss) = F[Len(ss)]
    BY FlattenIs
  <2> QED BY <1>1, <2>1
<1> DEFINE Bad == {i \in 0 .. n : F[i] # SubSeq(s, 1, i)}
<1>3. Bad = {}
  <2>1. Bad \in SUBSET (0 .. n) /\ 0 \notin Bad
    <3>1. SubSeq(s, 1, 1 - 1) = <<>> /\ 1 - 1 = 0
      <4>1. 1 \in 1 .. Len(s) + 1
        OBVIOUS
      <4> QED BY <4>1, PartNone
    <3> QED BY <1>2, <3>1
  <2>2. ASSUME NEW i \in 1 .. n, i - 1 \notin Bad PROVE i \notin Bad
    <3>1. i - 1 \in 0 .. n /\ i - 1 + 1 = i /\ 1 \in 1 .. Len(s) + 1 /\ i - 1 \in 1 - 1 .. Len(s) /\ i \in i - 1 .. Len(s) /\ i \in 1 .. Len(s)
      BY <1>1
    <3>2. F[i - 1] = SubSeq(s, 1, i - 1)
      BY <2>2, <3>1
    <3>3. SubSeq(s, 1, i - 1) \o SubSeq(s, i - 1 + 1, i) = SubSeq(s, 1, i)
      BY <3>1, PartsJoin
    <3>4. SubSeq(s, i, i) = <<s[i]>>
      BY <3>1, PartOne
    <3>5. F[i] = F[i - 1] \o ss[i] /\ ss[i] = <<s[i]>>
      BY <1>2
    <3> QED BY <3>1, <3>2, <3>3, <3>4, <3>5
  <2> HIDE DEF Bad
  <2> QED BY <1>1, <2>1, <2>2, NoFirst
<1>4. F[n] = SubSeq(s, 1, n)
  <2>1. n \in 0 .. n
    BY <1>1
  <2> QED BY <1>3, <2>1
<1> QED BY <1>2, <1>4, PartAll

LEMMA FlattenNothing ==
  ASSUME NEW ss \in Seq({<<>>})
  PROVE  FlattenSeq(ss) = <<>>
<1> DEFINE n == Len(ss)
           S == {}
<1>1. n \in Nat /\ \A i \in 1 .. n : ss[i] = <<>>
  OBVIOUS
<1>2. ss \in Seq(Seq(S))
  <2>1. {<<>>} \subseteq Seq(S)
    OBVIOUS
  <2>2. ss \in [1 .. n -> Seq(S)]
    <3>1. ss \in [1 .. n -> {<<>>}]
      OBVIOUS
    <3> HIDE DEF S, n
    <3> QED BY <2>1, <3>1
  <2> HIDE DEF S
  <2> QED BY <1>1, <2>2
<1> HIDE DEF S
<1>3. PICK F \in [0 .. n -> Seq(S)] :
        /\ F[0] = <<>> /\ \A i \in 1 .. n : F[i] = F[i - 1] \o ss[i]
        /\ FlattenSeq(ss) = F[n]
  BY <1>2, FlattenIs
<1> HIDE DEF n
<1> DEFINE Bad == {i \in 0 .. n : F[i] # <<>>}
<1>4. Bad = {}
  <2>1. Bad \in SUBSET (0 .. n) /\ 0 \notin Bad
    BY <1>3
  <2>2. ASSUME NEW i \in 1 .. n, i - 1 \notin Bad PROVE i \notin Bad
    <3>1. i - 1 \in 0 .. n
      BY <1>1
    <3>2. F[i - 1] = <<>> /\ F[i] = F[i - 1] \o ss[i] /\ ss[i] = <<>>
      BY <1>1, <1>3, <2>2, <3>1
    <3>3. <<>> \o <<>> = <<>>
      OBVIOUS
    <3> QED BY <3>2, <3>3
  <2> HIDE DEF Bad
  <2> QED BY <1>1, <2>1, <2>2, NoFirst
<1>5. n \in 0 .. n
  BY <1>1
<1> QED BY <1>3, <1>4, <1>5

\* A part of which every item is one of s, and a part of which only the first is something.
LEMMA FlattenPart ==
  ASSUME NEW S, NEW s \in Seq(S), NEW ss \in Seq(Seq(S)), Len(ss) = Len(s),
         NEW a \in 1 .. Len(s) + 1, NEW b \in a - 1 .. Len(s),
         \A i \in a .. b : ss[i] = <<s[i]>>
  PROVE  FlattenSeq(SubSeq(ss, a, b)) = SubSeq(s, a, b)
<1> DEFINE x == SubSeq(s, a, b)
           y == SubSeq(ss, a, b)
           k == b - a + 1
<1>1. /\ x \in Seq(S) /\ Len(x) = k /\ \A i \in 1 .. k : x[i] = s[a + i - 1]
  BY PartIs
<1>2. /\ y \in Seq(Seq(S)) /\ Len(y) = k /\ \A i \in 1 .. k : y[i] = ss[a + i - 1]
  <2>1. a \in 1 .. Len(ss) + 1 /\ b \in a - 1 .. Len(ss)
    OBVIOUS
  <2> QED BY <2>1, PartIs
<1>3. \A i \in 1 .. k : a + i - 1 \in a .. b
  OBVIOUS
<1>4. \A i \in 1 .. k : y[i] = <<x[i]>>
  <2> HIDE DEF x, y, k
  <2> QED BY <1>1, <1>2, <1>3
<1> HIDE DEF x, y
<1>5. FlattenSeq(y) = x
  <2>1. Len(y) = Len(x) /\ \A i \in 1 .. Len(x) : y[i] = <<x[i]>>
    BY <1>1, <1>2, <1>4
  <2> QED BY <1>1, <1>2, <2>1, FlattenSame
<1> QED BY <1>5 DEF x, y

LEMMA FlattenHead ==
  ASSUME NEW S, NEW ss \in Seq(Seq(S)), NEW a \in 1 .. Len(ss), NEW b \in a .. Len(ss),
         \A i \in a + 1 .. b : ss[i] = <<>>
  PROVE  FlattenSeq(SubSeq(ss, a, b)) = ss[a]
<1> DEFINE y == SubSeq(ss, a + 1, b)
           k == b - a
<1>1. /\ a + 1 \in 1 .. Len(ss) + 1 /\ b \in a + 1 - 1 .. Len(ss) /\ b - (a + 1) + 1 = k /\ k \in Nat
      /\ a \in 1 .. Len(ss) + 1 /\ a \in a - 1 .. Len(ss) /\ b \in a .. Len(ss)
  OBVIOUS
<1>2. /\ y \in Seq(Seq(S)) /\ Len(y) = b - (a + 1) + 1 /\ \A i \in 1 .. b - (a + 1) + 1 : y[i] = ss[a + 1 + i - 1]
  BY <1>1, PartIs
<1>3. \A i \in 1 .. k : a + 1 + i - 1 \in a + 1 .. b
  OBVIOUS
<1>4. SubSeq(ss, a, a) \o y = SubSeq(ss, a, b)
  BY <1>1, PartsJoin
<1>5. SubSeq(ss, a, a) = <<ss[a]>> /\ ss[a] \in Seq(S)
  BY PartOne
<1> HIDE DEF y, k
<1>6. FlattenSeq(y) = <<>>
  <2>1. \A i \in 1 .. k : y[i] = <<>>
    BY <1>1, <1>2, <1>3
  <2>2. y \in Seq({<<>>})
    BY <1>1, <1>2, <2>1
  <2> QED BY <2>2, FlattenNothing
<1>7. FlattenSeq(<<ss[a]>> \o y) = ss[a] \o <<>>
  BY <1>2, <1>5, <1>6, FlattenOnTop
<1>8. ss[a] \o <<>> = ss[a]
  BY <1>5, ConcatEmptySeq
<1> QED BY <1>4, <1>5, <1>7, <1>8
=============================================================================

-------------------------- MODULE ContainersProofs --------------------------
(***************************************************************************)
(* Lists are chains of nodes that implement sequences, for any number of   *)
(* nodes and values; dicts are buckets of chains that implement maps, for  *)
(* any hash function and capacity.                                         *)
(***************************************************************************)
EXTENDS Containers, ListLemmas

-----------------------------------------------------------------------------
(* Sequences with one item more, or less.                                   *)

Put(s, k, x) == [i \in 1 .. Len(s) + 1 |-> IF i < k THEN s[i] ELSE IF i = k THEN x ELSE s[i - 1]]
Without(s, k) == [i \in 1 .. Len(s) - 1 |-> IF i < k THEN s[i] ELSE s[i + 1]]

LEMMA Part ==
  ASSUME NEW S, NEW s \in Seq(S), NEW a \in 1 .. Len(s) + 1, NEW b \in a - 1 .. Len(s)
  PROVE  /\ SubSeq(s, a, b) \in Seq(S)
         /\ Len(SubSeq(s, a, b)) = b - a + 1
         /\ \A i \in 1 .. b - a + 1 : SubSeq(s, a, b)[i] = s[a + i - 1]
<1>1. a \in Int /\ b \in Int /\ Len(s) \in Nat
  OBVIOUS
<1>2. \A i \in a .. b : s[i] \in S
  BY <1>1
<1>3. (IF a =< b THEN b - a + 1 ELSE 0) = b - a + 1
  BY <1>1
<1> QED BY <1>1, <1>2, <1>3, SubSeqProperties

LEMMA PutIn ==
  ASSUME NEW S, NEW s \in Seq(S), NEW k \in 1 .. Len(s) + 1, NEW x \in S
  PROVE  /\ Put(s, k, x) \in Seq(S) /\ Len(Put(s, k, x)) = Len(s) + 1
         /\ InsertAt(s, k, x) = Put(s, k, x)
<1> DEFINE n == Len(s)
           a == SubSeq(s, 1, k - 1)
           b == SubSeq(s, k, n)
           p == Put(s, k, x)
<1>1. n \in Nat /\ k \in 1 .. n + 1 /\ k - 1 \in Nat
  OBVIOUS
<1>2. p \in Seq(S) /\ Len(p) = n + 1
  <2>1. \A i \in 1 .. n + 1 : (IF i < k THEN s[i] ELSE IF i = k THEN x ELSE s[i - 1]) \in S
    BY <1>1
  <2>2. p \in [1 .. n + 1 -> S]
    BY <2>1 DEF Put
  <2> QED BY <1>1, <2>2
<1>3. /\ a \in Seq(S) /\ Len(a) = k - 1 /\ \A i \in 1 .. k - 1 : a[i] = s[i]
  <2> DEFINE m == k - 1
  <2>1. m \in 0 .. n /\ 1 \in 1 .. n + 1 /\ m - 1 + 1 = m /\ m \in 1 - 1 .. n
    BY <1>1
  <2> HIDE DEF m, n
  <2>2. SubSeq(s, 1, m) \in Seq(S) /\ Len(SubSeq(s, 1, m)) = m
          /\ \A i \in 1 .. m : SubSeq(s, 1, m)[i] = s[1 + i - 1]
    BY <2>1, Part DEF n
  <2>3. \A i \in 1 .. m : 1 + i - 1 = i
    OBVIOUS
  <2> QED BY <2>2, <2>3 DEF m
<1>4. /\ b \in Seq(S) /\ Len(b) = n - k + 1 /\ \A i \in 1 .. n - k + 1 : b[i] = s[k + i - 1]
  <2>1. n \in k - 1 .. Len(s)
    BY <1>1
  <2> QED BY <2>1, Part
<1> HIDE DEF a, b, n, p
<1>5. <<x>> \in Seq(S) /\ Len(<<x>>) = 1 /\ <<x>>[1] = x
  OBVIOUS
<1> DEFINE w == a \o <<x>>
<1>6. w \in Seq(S) /\ Len(w) = k /\ \A i \in 1 .. k : w[i] = IF i < k THEN s[i] ELSE x
  <2>1. w \in Seq(S) /\ Len(w) = k - 1 + 1
    BY <1>3, <1>5
  <2>2. \A i \in 1 .. k : w[i] = IF i =< k - 1 THEN a[i] ELSE <<x>>[i - (k - 1)]
    BY <1>1, <1>3, <1>5
  <2>3. \A i \in 1 .. k : (i =< k - 1 <=> i < k) /\ (i < k => i \in 1 .. k - 1)
          /\ (i >= k => i - (k - 1) = 1)
    BY <1>1
  <2> QED BY <1>1, <1>3, <1>5, <2>1, <2>2, <2>3
<1> HIDE DEF w
<1> DEFINE e == w \o b
<1>7. e \in Seq(S) /\ Len(e) = n + 1
  <2>1. e \in Seq(S) /\ Len(e) = Len(w) + Len(b)
    <3>1. w \in Seq(S) /\ b \in Seq(S)
      BY <1>4, <1>6
    <3> QED BY <3>1
  <2>2. Len(w) + Len(b) = n + 1
    BY <1>1, <1>4, <1>6
  <2> QED BY <2>1, <2>2
<1>8. \A i \in 1 .. n + 1 : e[i] = p[i]
  <2> TAKE i \in 1 .. n + 1
  <2>1. e[i] = IF i =< k THEN w[i] ELSE b[i - k]
    BY <1>1, <1>4, <1>6, SMTT(30)
  <2> HIDE DEF e
  <2>2. p[i] = IF i < k THEN s[i] ELSE IF i = k THEN x ELSE s[i - 1]
    BY DEF p, Put, n
  <2>3. CASE i =< k
    BY <1>1, <1>6, <2>1, <2>2, <2>3
  <2>4. CASE i > k
    <3>1. i - k \in 1 .. n - k + 1 /\ k + (i - k) - 1 = i - 1
      BY <1>1, <2>4
    <3>2. b[i - k] = s[i - 1]
      BY <1>4, <3>1
    <3> QED BY <1>1, <2>1, <2>2, <2>4, <3>2
  <2> QED BY <1>1, <2>3, <2>4
<1>9. w \o b = p
  <2> HIDE DEF e
  <2>1. e = p
    BY <1>2, <1>7, <1>8, SeqEqual
  <2> QED BY <2>1 DEF e
<1> QED BY <1>2, <1>9 DEF w, a, b, p, n, InsertAt

LEMMA PutLast ==
  ASSUME NEW S, NEW s \in Seq(S), NEW x \in S
  PROVE  Append(s, x) = Put(s, Len(s) + 1, x)
<1> DEFINE p == Put(s, Len(s) + 1, x)
<1>1. p \in Seq(S) /\ Len(p) = Len(s) + 1
  BY PutIn
<1>2. \A i \in 1 .. Len(s) + 1 : p[i] = Append(s, x)[i]
  BY DEF Put
<1>3. Append(s, x) \in Seq(S) /\ Len(Append(s, x)) = Len(s) + 1
  OBVIOUS
<1> HIDE DEF p
<1> QED BY <1>1, <1>2, <1>3, SeqEqual DEF p

LEMMA WithoutIn ==
  ASSUME NEW S, NEW s \in Seq(S), NEW k \in 1 .. Len(s)
  PROVE  /\ Without(s, k) \in Seq(S) /\ Len(Without(s, k)) = Len(s) - 1
         /\ RemoveAt(s, k) = Without(s, k)
<1> DEFINE n == Len(s)
           a == SubSeq(s, 1, k - 1)
           b == SubSeq(s, k + 1, n)
           p == Without(s, k)
<1>1. n \in Nat \ {0} /\ k \in 1 .. n /\ k - 1 \in Nat
  OBVIOUS
<1>2. p \in Seq(S) /\ Len(p) = n - 1
  <2>1. \A i \in 1 .. n - 1 : (IF i < k THEN s[i] ELSE s[i + 1]) \in S
    BY <1>1
  <2>2. p \in [1 .. n - 1 -> S]
    BY <2>1 DEF Without
  <2> QED BY <1>1, <2>2
<1>3. /\ a \in Seq(S) /\ Len(a) = k - 1 /\ \A i \in 1 .. k - 1 : a[i] = s[i]
  <2> DEFINE m == k - 1
  <2>1. m \in 0 .. n /\ 1 \in 1 .. n + 1 /\ m - 1 + 1 = m /\ m \in 1 - 1 .. n
    BY <1>1
  <2> HIDE DEF m, n
  <2>2. SubSeq(s, 1, m) \in Seq(S) /\ Len(SubSeq(s, 1, m)) = m
          /\ \A i \in 1 .. m : SubSeq(s, 1, m)[i] = s[1 + i - 1]
    BY <2>1, Part DEF n
  <2>3. \A i \in 1 .. m : 1 + i - 1 = i
    OBVIOUS
  <2> QED BY <2>2, <2>3 DEF m
<1>4. /\ b \in Seq(S) /\ Len(b) = n - k /\ \A i \in 1 .. n - k : b[i] = s[k + i]
  <2> DEFINE m == k + 1
  <2>1. m \in 1 .. n + 1 /\ n \in m - 1 .. n /\ n - m + 1 = n - k
    BY <1>1
  <2>2. \A i \in 1 .. n - k : m + i - 1 = k + i
    BY <1>1
  <2> HIDE DEF m
  <2>3. SubSeq(s, m, n) \in Seq(S) /\ Len(SubSeq(s, m, n)) = n - m + 1
          /\ \A i \in 1 .. n - m + 1 : SubSeq(s, m, n)[i] = s[m + i - 1]
    BY <2>1, Part
  <2> QED BY <2>1, <2>2, <2>3 DEF m
<1> HIDE DEF a, b, n, p
<1> DEFINE e == a \o b
<1>5. e \in Seq(S) /\ Len(e) = n - 1
  <2>1. e \in Seq(S) /\ Len(e) = Len(a) + Len(b)
    <3>1. a \in Seq(S) /\ b \in Seq(S)
      BY <1>3, <1>4
    <3> QED BY <3>1
  <2>2. Len(a) + Len(b) = n - 1
    BY <1>1, <1>3, <1>4
  <2> QED BY <2>1, <2>2
<1>6. \A i \in 1 .. n - 1 : e[i] = p[i]
  <2> TAKE i \in 1 .. n - 1
  <2>1. e[i] = IF i =< k - 1 THEN a[i] ELSE b[i - (k - 1)]
    BY <1>1, <1>3, <1>4
  <2> HIDE DEF e
  <2>2. p[i] = IF i < k THEN s[i] ELSE s[i + 1]
    BY DEF p, Without, n
  <2>3. CASE i < k
    BY <1>1, <1>3, <2>1, <2>2, <2>3
  <2>4. CASE i >= k
    <3>1. i - (k - 1) \in 1 .. n - k /\ k + (i - (k - 1)) = i + 1 /\ ~(i =< k - 1) /\ ~(i < k)
      BY <1>1, <2>4
    <3>2. b[i - (k - 1)] = s[i + 1]
      BY <1>4, <3>1
    <3> QED BY <2>1, <2>2, <3>1, <3>2
  <2> QED BY <1>1, <2>3, <2>4
<1>7. a \o b = p
  <2> HIDE DEF e
  <2>1. e = p
    BY <1>2, <1>5, <1>6, SeqEqual
  <2> QED BY <2>1 DEF e
<1> QED BY <1>2, <1>7 DEF a, b, p, n, RemoveAt

-----------------------------------------------------------------------------
(* Chains.                                                                  *)

\* The nodes c of the heap h are linked from hd to tl, sz of them.
Chained(c, h, hd, tl, sz) ==
  /\ c \in Seq(Addresses) /\ Len(c) = sz
  /\ \A i, j \in 1 .. sz : c[i] = c[j] => i = j
  /\ h \in [Range(c) -> [value : Values, next : Addresses \cup {None}]]
  /\ hd = IF sz = 0 THEN None ELSE c[1]
  /\ tl = IF sz = 0 THEN None ELSE c[sz]
  /\ \A i \in 1 .. sz : h[c[i]].next = IF i = sz THEN None ELSE c[i + 1]

ItemsOf(c, h) == [i \in 1 .. Len(c) |-> h[c[i]].value]

\* A foreach whose iterator is `it` takes the item at t next.
TurnIs(c, it, t) ==
  \/ it = Off /\ t = 0
  \/ it = None /\ t = -1
  \/ t \in 1 .. Len(c) /\ it = c[t]

LEMMA Chain ==
  ASSUME NEW c, NEW h, NEW hd, NEW tl, NEW sz, Chained(c, h, hd, tl, sz)
  PROVE  /\ sz \in Nat /\ c \in [1 .. sz -> Addresses] /\ Range(c) = {c[i] : i \in 1 .. sz}
         /\ DOMAIN h = Range(c) /\ Range(c) \in SUBSET Addresses
         /\ \A i \in 1 .. sz : /\ c[i] \in DOMAIN h /\ c[i] \in Addresses
                               /\ h[c[i]].value \in Values /\ c[i] # None /\ c[i] # Off
         /\ ItemsOf(c, h) \in Seq(Values) /\ Len(ItemsOf(c, h)) = sz
<1>1. sz \in Nat /\ c \in [1 .. sz -> Addresses] /\ DOMAIN c = 1 .. sz
  BY DEF Chained
<1>2. Range(c) = {c[i] : i \in 1 .. sz} /\ DOMAIN h = Range(c) /\ Range(c) \in SUBSET Addresses
  BY <1>1 DEF Chained, Range
<1>3. \A i \in 1 .. sz : c[i] \in DOMAIN h /\ c[i] \in Addresses /\ c[i] # None /\ c[i] # Off
  BY <1>1, <1>2, ListConstants
<1>4. \A x \in DOMAIN h : h[x].value \in Values
  BY DEF Chained
<1>5. ItemsOf(c, h) \in [1 .. sz -> Values]
  BY <1>1, <1>3, <1>4 DEF ItemsOf, Chained
<1>6. ItemsOf(c, h) \in Seq(Values) /\ Len(ItemsOf(c, h)) = sz
  BY <1>1, <1>5
<1> QED BY <1>1, <1>2, <1>3, <1>4, <1>6

\* The loop that follows the links finds the nodes of the chain.
LEMMA Walked ==
  ASSUME NEW c, NEW h, NEW hd, NEW tl, NEW sz, Chained(c, h, hd, tl, sz), NEW p \in 0 .. sz
  PROVE  Walk(h, hd, sz)[p] = IF p < sz THEN c[p + 1] ELSE None
<1> DEFINE Walks(f) == f = [q \in 0 .. sz |-> IF q = 0 THEN hd
                              ELSE IF f[q - 1] = None THEN None ELSE h[f[q - 1]].next]
           g == [q \in 0 .. sz |-> IF q < sz THEN c[q + 1] ELSE None]
           node == CHOOSE f : Walks(f)
<1>1. /\ sz \in Nat /\ \A i \in 1 .. sz : c[i] # None
      /\ hd = IF sz = 0 THEN None ELSE c[1]
      /\ \A i \in 1 .. sz : h[c[i]].next = IF i = sz THEN None ELSE c[i + 1]
  <2>1. sz \in Nat /\ \A i \in 1 .. sz : c[i] # None
    BY Chain
  <2> QED BY <2>1 DEF Chained
<1>2. \A q \in 0 .. sz : q # 0 => /\ g[q - 1] = c[q] /\ g[q - 1] # None
                                  /\ g[q] = h[g[q - 1]].next
  <2> TAKE q \in 0 .. sz
  <2> HAVE q # 0
  <2>1. q \in 1 .. sz /\ q - 1 \in 0 .. sz /\ q - 1 < sz /\ q - 1 + 1 = q /\ (q < sz <=> q # sz)
    BY <1>1
  <2>2. g[q - 1] = c[q]
    BY <2>1
  <2>3. h[c[q]].next = IF q < sz THEN c[q + 1] ELSE None
    BY <1>1, <2>1
  <2> QED BY <1>1, <2>1, <2>2, <2>3
<1>3. g[0] = hd
  BY <1>1
<1>4. Walks(g)
  <2>1. g = [q \in 0 .. sz |-> g[q]]
    OBVIOUS
  <2>2. \A q \in 0 .. sz :
          g[q] = IF q = 0 THEN hd ELSE IF g[q - 1] = None THEN None ELSE h[g[q - 1]].next
    BY <1>2, <1>3
  <2> HIDE DEF g
  <2> QED BY <2>1, <2>2
<1>5. Walks(node)
  <2> HIDE DEF g, Walks
  <2> QED BY <1>4
<1>6. node[p] = g[p]
  <2> DEFINE Bad == {q \in 0 .. sz : node[q] # g[q]}
  <2>1. \A q \in 0 .. sz :
          node[q] = IF q = 0 THEN hd ELSE IF node[q - 1] = None THEN None ELSE h[node[q - 1]].next
    <3> HIDE DEF node, g
    <3> QED BY <1>5
  <2> HIDE DEF node, g, Walks
  <2>2. SUFFICES ASSUME Bad # {} PROVE FALSE
    OBVIOUS
  <2>3. Bad \in SUBSET Nat
    BY <1>1
  <2> DEFINE q == Min(Bad)
  <2>4. q \in Bad /\ \A y \in Bad : q =< y
    BY <2>2, <2>3, MinIsIn
  <2> HIDE DEF q
  <2>5. q \in 0 .. sz /\ node[q] # g[q]
    BY <2>4
  <2>6. q # 0
    BY <1>1, <1>3, <2>1, <2>5
  <2>7. q - 1 \in 0 .. sz /\ q - 1 < q
    BY <1>1, <2>5, <2>6
  <2>8. node[q - 1] = g[q - 1]
    <3>1. q - 1 \notin Bad
      <4> HIDE DEF Bad
      <4> QED BY <1>1, <2>4, <2>5, <2>7
    <3> QED BY <2>7, <3>1
  <2> QED BY <1>2, <2>1, <2>5, <2>6, <2>8
<1>7. Walk(h, hd, sz) = node
  BY DEF Walk
<1> HIDE DEF node
<1> QED BY <1>6, <1>7

\* A new node at the place k of the chain.
LEMMA Grows ==
  ASSUME NEW c, NEW h, NEW hd, NEW tl, NEW sz, Chained(c, h, hd, tl, sz),
         NEW n \in Addresses, n \notin DOMAIN h, NEW v \in Values, NEW k \in 1 .. sz + 1, NEW g,
         g = [x \in DOMAIN h \cup {n} |->
                IF x = n THEN [value |-> v, next |-> IF k = sz + 1 THEN None ELSE c[k]]
                ELSE IF k > 1 /\ x = c[k - 1] THEN [h[x] EXCEPT !.next = n] ELSE h[x]]
  PROVE  /\ Chained(Put(c, k, n), g, IF k = 1 THEN n ELSE hd, IF k = sz + 1 THEN n ELSE tl, sz + 1)
         /\ ItemsOf(Put(c, k, n), g) = Put(ItemsOf(c, h), k, v)
         /\ DOMAIN g = DOMAIN h \cup {n} /\ g[n].value = v
         /\ \A x \in DOMAIN h : g[x].value = h[x].value
<1> DEFINE d == Put(c, k, n)
           m == sz + 1
           src(i) == IF i < k THEN i ELSE i - 1
<1>1. /\ sz \in Nat /\ m \in Nat /\ k \in 1 .. m /\ Len(c) = sz /\ c \in Seq(Addresses)
      /\ Range(c) = {c[i] : i \in 1 .. sz} /\ DOMAIN h = Range(c)
      /\ \A i \in 1 .. sz : c[i] \in DOMAIN h /\ c[i] \in Addresses /\ c[i] # n
  <2>1. sz \in Nat /\ Len(c) = sz /\ c \in Seq(Addresses)
    BY DEF Chained
  <2>2. /\ Range(c) = {c[i] : i \in 1 .. sz} /\ DOMAIN h = Range(c)
        /\ \A i \in 1 .. sz : c[i] \in DOMAIN h /\ c[i] \in Addresses
    BY Chain
  <2> QED BY <2>1, <2>2
<1>2. /\ \A i, j \in 1 .. sz : c[i] = c[j] => i = j
      /\ \A i \in 1 .. sz : h[c[i]].next = IF i = sz THEN None ELSE c[i + 1]
      /\ h \in [DOMAIN h -> [value : Values, next : Addresses \cup {None}]]
      /\ hd = IF sz = 0 THEN None ELSE c[1]
      /\ tl = IF sz = 0 THEN None ELSE c[sz]
  BY DEF Chained
<1>3. d \in Seq(Addresses) /\ Len(d) = m
  BY <1>1, PutIn
<1>4. \A i \in 1 .. m : /\ i # k => src(i) \in 1 .. sz /\ d[i] = c[src(i)] /\ d[i] # n
                        /\ i = k => d[i] = n
  <2> TAKE i \in 1 .. m
  <2>1. d[i] = IF i < k THEN c[i] ELSE IF i = k THEN n ELSE c[i - 1]
    BY <1>1 DEF Put
  <2>2. i # k => src(i) \in 1 .. sz
    BY <1>1
  <2>3. i # k => d[i] = c[src(i)]
    BY <1>1, <2>1
  <2> HIDE DEF d, src
  <2> QED BY <1>1, <2>1, <2>2, <2>3
<1>5. \A i, j \in 1 .. m : d[i] = d[j] => i = j
  <2> TAKE i, j \in 1 .. m
  <2> HAVE d[i] = d[j]
  <2>1. CASE i = k \/ j = k
    <3> HIDE DEF d, src
    <3> QED BY <1>4, <2>1
  <2>2. CASE i # k /\ j # k
    <3>1. src(i) = src(j)
      <4> HIDE DEF d, src
      <4> QED BY <1>2, <1>4, <2>2
    <3> QED BY <1>1, <2>2, <3>1
  <2> QED BY <2>1, <2>2
<1>6. DOMAIN g = DOMAIN h \cup {n}
  OBVIOUS
<1>7. Range(d) = DOMAIN g
  <2>1. DOMAIN d = 1 .. m
    BY <1>1, <1>3
  <2>2. Range(d) = {d[i] : i \in 1 .. m}
    BY <2>1 DEF Range
  <2>3. ASSUME NEW x \in DOMAIN h PROVE \E i \in 1 .. m : d[i] = x
    <3>1. PICK j \in 1 .. sz : x = c[j]
      BY <1>1
    <3> DEFINE i == IF j < k THEN j ELSE j + 1
    <3>2. i \in 1 .. m /\ i # k /\ src(i) = j
      BY <1>1, SMTT(30)
    <3> HIDE DEF d, src, i
    <3> QED BY <1>4, <3>1, <3>2
  <2>4. \A i \in 1 .. m : d[i] \in DOMAIN h \cup {n}
    <3> HIDE DEF d, src
    <3> QED BY <1>1, <1>4
  <2>5. d[k] = n
    <3> HIDE DEF d
    <3> QED BY <1>1, <1>4
  <2> HIDE DEF d, src, m
  <2>6. \A x \in DOMAIN h \cup {n} : \E i \in 1 .. m : d[i] = x
    BY <1>1, <2>3, <2>5
  <2>7. Range(d) = DOMAIN h \cup {n}
    BY <2>2, <2>4, <2>6
  <2> QED BY <1>6, <2>7
<1>8. /\ g[n] = [value |-> v, next |-> IF k = m THEN None ELSE c[k]]
      /\ \A x \in DOMAIN h : g[x] = IF k > 1 /\ x = c[k - 1] THEN [h[x] EXCEPT !.next = n] ELSE h[x]
  OBVIOUS
<1>9. \A x \in DOMAIN h : /\ g[x].value = h[x].value
                          /\ g[x].next = IF k > 1 /\ x = c[k - 1] THEN n ELSE h[x].next
                          /\ g[x] \in [value : Values, next : Addresses \cup {None}]
  BY <1>2, <1>8
<1>10. g \in [DOMAIN g -> [value : Values, next : Addresses \cup {None}]]
  <2>1. k # m => k \in 1 .. sz
    BY <1>1
  <2>2. g[n] \in [value : Values, next : Addresses \cup {None}]
    <3> HIDE DEF m
    <3> QED BY <1>1, <1>8, <2>1
  <2>3. \A x \in DOMAIN g : g[x] \in [value : Values, next : Addresses \cup {None}]
    BY <1>6, <1>9, <2>2
  <2>4. g = [x \in DOMAIN g |-> g[x]]
    OBVIOUS
  <2> QED BY <2>3, <2>4
<1>11. ASSUME NEW i \in 1 .. m PROVE g[d[i]].next = IF i = m THEN None ELSE d[i + 1]
  <2>1. CASE i = k
    <3>1. k # m => k + 1 \in 1 .. m /\ k + 1 # k /\ src(k + 1) = k
      BY <1>1
    <3> HIDE DEF d, src, m
    <3>2. k # m => d[k + 1] = c[k]
      BY <1>4, <3>1
    <3> QED BY <1>1, <1>4, <1>8, <2>1, <3>2
  <2>2. CASE i < k
    <3>1. src(i) = i /\ i \in 1 .. sz /\ i # m /\ i + 1 \in 1 .. m /\ k > 1 /\ i # k
      BY <1>1, <2>2
    <3>2. d[i] = c[i] /\ c[i] \in DOMAIN h
      <4> HIDE DEF d, src, m
      <4> QED BY <1>1, <1>4, <3>1
    <3>3. CASE i + 1 = k
      <4>1. i = k - 1 /\ k - 1 \in 1 .. sz
        BY <1>1, <3>1, <3>3
      <4> HIDE DEF d, src, m
      <4> QED BY <1>4, <1>9, <3>1, <3>2, <3>3, <4>1
    <3>4. CASE i + 1 # k
      <4>1. i # k - 1 /\ k - 1 \in 1 .. sz /\ i + 1 < k /\ i # sz /\ src(i + 1) = i + 1
        BY <1>1, <2>2, <3>1, <3>4, SMTT(30)
      <4> HIDE DEF d, src, m
      <4>2. c[i] # c[k - 1]
        BY <1>2, <3>1, <4>1
      <4>3. d[i + 1] = c[i + 1]
        BY <1>4, <3>1, <3>4, <4>1
      <4> QED BY <1>2, <1>9, <3>1, <3>2, <4>1, <4>2, <4>3
    <3> QED BY <3>3, <3>4
  <2>3. CASE i > k
    <3>1. /\ src(i) = i - 1 /\ i - 1 \in 1 .. sz /\ i # k /\ i - 1 # k - 1 /\ (i = m <=> i - 1 = sz)
          /\ i - 1 + 1 = i /\ (k > 1 => k - 1 \in 1 .. sz)
          /\ i # m => i + 1 \in 1 .. m /\ i + 1 # k /\ src(i + 1) = i
      <4>1. src(i) = i - 1 /\ (i # m => i + 1 \in 1 .. m)
        BY <1>1, <2>3
      <4>2. i - 1 \in 1 .. sz /\ i # k /\ i - 1 # k - 1 /\ (i = m <=> i - 1 = sz)
        BY <1>1, <2>3
      <4>3. i - 1 + 1 = i /\ (k > 1 => k - 1 \in 1 .. sz)
        BY <1>1, <2>3
      <4>4. i + 1 # k /\ src(i + 1) = i
        BY <1>1, <2>3
      <4> HIDE DEF src, m
      <4> QED BY <4>1, <4>2, <4>3, <4>4
    <3> HIDE DEF d, src, m
    <3>2. d[i] = c[i - 1] /\ c[i - 1] \in DOMAIN h
      BY <1>1, <1>4, <3>1
    <3>3. k > 1 => c[i - 1] # c[k - 1]
      BY <1>2, <3>1
    <3>4. g[d[i]].next = h[c[i - 1]].next
      BY <1>9, <3>2, <3>3
    <3>5. h[c[i - 1]].next = IF i = m THEN None ELSE c[i]
      BY <1>2, <3>1
    <3>6. i # m => d[i + 1] = c[i]
      BY <1>4, <3>1
    <3> QED BY <3>4, <3>5, <3>6
  <2> QED BY <1>1, <2>1, <2>2, <2>3
<1>12. (IF k = 1 THEN n ELSE hd) = (IF m = 0 THEN None ELSE d[1])
  <2>1. m # 0 /\ 1 \in 1 .. m /\ (k # 1 => src(1) = 1 /\ sz # 0)
    BY <1>1
  <2> HIDE DEF d, src, m
  <2> QED BY <1>2, <1>4, <2>1
<1>13. (IF k = m THEN n ELSE tl) = (IF m = 0 THEN None ELSE d[m])
  <2>1. m # 0 /\ m \in 1 .. m /\ (k # m => src(m) = sz /\ sz # 0)
    BY <1>1
  <2> HIDE DEF d, src, m
  <2> QED BY <1>2, <1>4, <2>1
<1>14. Chained(d, g, IF k = 1 THEN n ELSE hd, IF k = m THEN n ELSE tl, m)
  <2> HIDE DEF d, src, m
  <2> QED BY <1>3, <1>5, <1>7, <1>10, <1>11, <1>12, <1>13 DEF Chained
<1>15. ItemsOf(d, g) = Put(ItemsOf(c, h), k, v)
  <2> DEFINE s == ItemsOf(c, h)
             u == ItemsOf(d, g)
             w == Put(s, k, v)
  <2>1. s \in Seq(Values) /\ Len(s) = sz
    BY Chain
  <2>2. u \in Seq(Values) /\ Len(u) = m
    <3> HIDE DEF d, m
    <3> QED BY <1>14, Chain
  <2>3. w \in Seq(Values) /\ Len(w) = m
    <3> HIDE DEF s
    <3> QED BY <1>1, <2>1, PutIn
  <2>4. \A i \in 1 .. sz : s[i] = h[c[i]].value
    BY <1>1 DEF ItemsOf
  <2>5. \A i \in 1 .. m : u[i] = g[d[i]].value
    <3> HIDE DEF d, m
    <3> QED BY <1>3 DEF ItemsOf
  <2>6. \A i \in 1 .. m : w[i] = IF i = k THEN v ELSE s[src(i)]
    <3> HIDE DEF s
    <3> QED BY <1>1, <2>1 DEF Put
  <2>7. \A i \in 1 .. m : u[i] = w[i]
    <3> HIDE DEF d, m, s, u, w, src
    <3> TAKE i \in 1 .. m
    <3>1. CASE i = k
      BY <1>4, <1>8, <2>5, <2>6, <3>1
    <3>2. CASE i # k
      <4>1. src(i) \in 1 .. sz /\ d[i] = c[src(i)] /\ c[src(i)] \in DOMAIN h
        BY <1>1, <1>4, <3>2
      <4>2. g[d[i]].value = h[c[src(i)]].value
        BY <1>9, <4>1
      <4> QED BY <2>4, <2>5, <2>6, <3>2, <4>1, <4>2
    <3> QED BY <3>1, <3>2
  <2> HIDE DEF u, w, m
  <2>8. u = w
    BY <2>2, <2>3, <2>7, SeqEqual
  <2> QED BY <2>8 DEF u, w
<1>16. g[n].value = v /\ \A x \in DOMAIN h : g[x].value = h[x].value
  BY <1>8, <1>9
<1> QED BY <1>6, <1>14, <1>15, <1>16

\* The node at the place k of the chain is taken out.
LEMMA Shrinks ==
  ASSUME NEW c, NEW h, NEW hd, NEW tl, NEW sz, Chained(c, h, hd, tl, sz), NEW k \in 1 .. sz, NEW g,
         g = [x \in DOMAIN h \ {c[k]} |->
                IF k > 1 /\ x = c[k - 1] THEN [h[x] EXCEPT !.next = h[c[k]].next] ELSE h[x]]
  PROVE  /\ Chained(Without(c, k), g, IF k = 1 THEN h[c[k]].next ELSE hd,
                    IF k = sz THEN IF k = 1 THEN None ELSE c[k - 1] ELSE tl, sz - 1)
         /\ ItemsOf(Without(c, k), g) = Without(ItemsOf(c, h), k)
         /\ DOMAIN g = DOMAIN h \ {c[k]}
         /\ \A x \in DOMAIN g : g[x].value = h[x].value
<1> DEFINE d == Without(c, k)
           m == sz - 1
           src(i) == IF i < k THEN i ELSE i + 1
           hd2 == IF k = 1 THEN h[c[k]].next ELSE hd
           tl2 == IF k = sz THEN IF k = 1 THEN None ELSE c[k - 1] ELSE tl
<1>1. /\ sz \in Nat \ {0} /\ m \in Nat /\ k \in 1 .. sz /\ Len(c) = sz /\ c \in Seq(Addresses)
      /\ Range(c) = {c[i] : i \in 1 .. sz} /\ DOMAIN h = Range(c)
      /\ \A i \in 1 .. sz : c[i] \in DOMAIN h /\ c[i] \in Addresses
  <2>1. sz \in Nat \ {0} /\ Len(c) = sz /\ c \in Seq(Addresses)
    BY DEF Chained
  <2>2. /\ Range(c) = {c[i] : i \in 1 .. sz} /\ DOMAIN h = Range(c)
        /\ \A i \in 1 .. sz : c[i] \in DOMAIN h /\ c[i] \in Addresses
    BY Chain
  <2> QED BY <2>1, <2>2
<1>2. /\ \A i, j \in 1 .. sz : c[i] = c[j] => i = j
      /\ \A i \in 1 .. sz : h[c[i]].next = IF i = sz THEN None ELSE c[i + 1]
      /\ h \in [DOMAIN h -> [value : Values, next : Addresses \cup {None}]]
      /\ hd = c[1] /\ tl = c[sz]
  BY <1>1 DEF Chained
<1>3. d \in Seq(Addresses) /\ Len(d) = m
  BY <1>1, WithoutIn
<1>4. \A i \in 1 .. m : src(i) \in 1 .. sz /\ src(i) # k /\ d[i] = c[src(i)] /\ d[i] # c[k]
  <2> TAKE i \in 1 .. m
  <2>1. d[i] = IF i < k THEN c[i] ELSE c[i + 1]
    BY <1>1 DEF Without
  <2>2. src(i) \in 1 .. sz /\ src(i) # k
    BY <1>1, SMTT(30)
  <2>3. d[i] = c[src(i)]
    BY <1>1, <2>1
  <2> HIDE DEF d, src
  <2> QED BY <1>1, <1>2, <2>2, <2>3
<1>5. \A i, j \in 1 .. m : d[i] = d[j] => i = j
  <2> TAKE i, j \in 1 .. m
  <2> HAVE d[i] = d[j]
  <2>1. src(i) = src(j)
    <3> HIDE DEF d, src
    <3> QED BY <1>2, <1>4
  <2> QED BY <1>1, <2>1
<1>6. DOMAIN g = DOMAIN h \ {c[k]}
  OBVIOUS
<1>7. Range(d) = DOMAIN g
  <2>1. DOMAIN d = 1 .. m
    BY <1>1, <1>3
  <2>2. Range(d) = {d[i] : i \in 1 .. m}
    BY <2>1 DEF Range
  <2>3. ASSUME NEW x \in DOMAIN g PROVE \E i \in 1 .. m : d[i] = x
    <3>1. PICK j \in 1 .. sz : x = c[j]
      BY <1>1, <1>6
    <3>2. j # k
      BY <1>6, <3>1
    <3> DEFINE i == IF j < k THEN j ELSE j - 1
    <3>3. i \in 1 .. m /\ src(i) = j
      <4>1. CASE j < k
        BY <1>1, <4>1
      <4>2. CASE j > k
        <5>1. j - 1 \in 1 .. m /\ ~(j - 1 < k) /\ j - 1 + 1 = j /\ ~(j < k)
          <6>1. j \in Int /\ k \in Int /\ sz \in Int /\ 1 =< k /\ k < j /\ j =< sz
            BY <1>1, <4>2
          <6> HIDE DEF i, src
          <6> QED BY <6>1
        <5>2. i = j - 1
          BY <5>1
        <5> HIDE DEF i, m
        <5> QED BY <5>1, <5>2
      <4> QED BY <1>1, <3>2, <4>1, <4>2
    <3> HIDE DEF d, src, i
    <3> QED BY <1>4, <3>1, <3>3
  <2>4. \A i \in 1 .. m : d[i] \in DOMAIN g
    <3> HIDE DEF d, src, m
    <3> QED BY <1>1, <1>4, <1>6
  <2> HIDE DEF d, src, m
  <2> QED BY <2>2, <2>3, <2>4
<1>8. \A x \in DOMAIN g :
        g[x] = IF k > 1 /\ x = c[k - 1] THEN [h[x] EXCEPT !.next = h[c[k]].next] ELSE h[x]
  OBVIOUS
<1>9. \A x \in DOMAIN g : /\ g[x].value = h[x].value
                          /\ g[x].next = IF k > 1 /\ x = c[k - 1] THEN h[c[k]].next ELSE h[x].next
                          /\ g[x] \in [value : Values, next : Addresses \cup {None}]
  <2>1. h[c[k]].next \in Addresses \cup {None}
    BY <1>1, <1>2
  <2>2. \A x \in DOMAIN g : h[x] \in [value : Values, next : Addresses \cup {None}]
    BY <1>2, <1>6
  <2> QED BY <1>8, <2>1, <2>2
<1>10. g \in [DOMAIN g -> [value : Values, next : Addresses \cup {None}]]
  <2>1. g = [x \in DOMAIN g |-> g[x]]
    OBVIOUS
  <2> QED BY <1>9, <2>1
<1>11. ASSUME NEW i \in 1 .. m PROVE g[d[i]].next = IF i = m THEN None ELSE d[i + 1]
  <2>1. d[i] = c[src(i)] /\ c[src(i)] \in DOMAIN g
    <3> HIDE DEF d, src, m
    <3> QED BY <1>1, <1>2, <1>4, <1>6
  <2>2. CASE i = k - 1
    <3>1. src(i) = k - 1 /\ k > 1 /\ (i = m <=> k = sz)
      BY <1>1, <2>2
    <3>2. i # m => i + 1 \in 1 .. m /\ src(i + 1) = k + 1
      BY <1>1, <2>2
    <3> HIDE DEF d, src, m
    <3>3. g[d[i]].next = IF i = m THEN None ELSE c[k + 1]
      BY <1>1, <1>2, <1>9, <2>1, <3>1
    <3>4. i # m => d[i + 1] = c[k + 1]
      BY <1>4, <3>2
    <3> QED BY <3>3, <3>4
  <2>3. CASE i # k - 1
    <3>1. /\ src(i) \in 1 .. sz /\ (i = m <=> src(i) = sz)
          /\ src(i) # k - 1 /\ (k > 1 => k - 1 \in 1 .. sz)
      <4>1. src(i) \in 1 .. sz
        BY <1>1, SMTT(30)
      <4>2. i = m <=> src(i) = sz
        BY <1>1, <2>3
      <4>3. src(i) # k - 1
        BY <1>1, <2>3
      <4>4. k > 1 => k - 1 \in 1 .. sz
        BY <1>1
      <4> HIDE DEF src, m
      <4> QED BY <4>1, <4>2, <4>3, <4>4
    <3>2. i # m => i + 1 \in 1 .. m /\ src(i + 1) = src(i) + 1
      BY <1>1, <2>3
    <3> HIDE DEF d, src, m
    <3>3. k > 1 => c[src(i)] # c[k - 1]
      BY <1>2, <3>1
    <3>4. g[d[i]].next = h[c[src(i)]].next
      BY <1>9, <2>1, <3>3
    <3>5. h[c[src(i)]].next = IF i = m THEN None ELSE c[src(i) + 1]
      BY <1>2, <3>1
    <3>6. i # m => d[i + 1] = c[src(i) + 1]
      BY <1>4, <3>2
    <3> QED BY <3>4, <3>5, <3>6
  <2> QED BY <2>2, <2>3
<1>12. hd2 = IF m = 0 THEN None ELSE d[1]
  <2>1. /\ k = 1 => (m = 0 <=> k = sz)
        /\ m # 0 => 1 \in 1 .. m /\ src(1) = IF k = 1 THEN 2 ELSE 1
        /\ k # 1 => m # 0
        /\ 1 + 1 = 2
    BY <1>1
  <2>2. m # 0 => d[1] = IF k = 1 THEN c[2] ELSE c[1]
    <3> HIDE DEF d, src, m
    <3> QED BY <1>4, <2>1
  <2> HIDE DEF d, src, m
  <2> QED BY <1>1, <1>2, <2>1, <2>2
<1>13. tl2 = IF m = 0 THEN None ELSE d[m]
  <2>1. /\ (k = sz => (m = 0 <=> k = 1)) /\ (k # sz => m # 0)
        /\ (m # 0 => m \in 1 .. m /\ src(m) = IF k = sz THEN k - 1 ELSE sz)
    BY <1>1
  <2>2. m # 0 => d[m] = IF k = sz THEN c[k - 1] ELSE c[sz]
    <3> HIDE DEF d, src, m
    <3> QED BY <1>4, <2>1
  <2> HIDE DEF d, src, m
  <2> QED BY <1>2, <2>1, <2>2
<1>14. Chained(d, g, hd2, tl2, m)
  <2> HIDE DEF d, src, m, hd2, tl2
  <2> QED BY <1>3, <1>5, <1>7, <1>10, <1>11, <1>12, <1>13 DEF Chained
<1>15. ItemsOf(d, g) = Without(ItemsOf(c, h), k)
  <2> DEFINE s == ItemsOf(c, h)
             u == ItemsOf(d, g)
             w == Without(s, k)
  <2>1. s \in Seq(Values) /\ Len(s) = sz
    BY Chain
  <2>2. u \in Seq(Values) /\ Len(u) = m
    <3> HIDE DEF d, m, hd2, tl2
    <3> QED BY <1>14, Chain
  <2>3. w \in Seq(Values) /\ Len(w) = m
    <3> HIDE DEF s
    <3> QED BY <1>1, <2>1, WithoutIn
  <2>4. \A i \in 1 .. sz : s[i] = h[c[i]].value
    BY <1>1 DEF ItemsOf
  <2>5. \A i \in 1 .. m : u[i] = g[d[i]].value
    <3> HIDE DEF d, m
    <3> QED BY <1>3 DEF ItemsOf
  <2>6. \A i \in 1 .. m : w[i] = s[src(i)]
    <3> HIDE DEF s
    <3> QED BY <1>1, <2>1 DEF Without
  <2>7. \A i \in 1 .. m : u[i] = w[i]
    <3> HIDE DEF d, m, s, u, w, src
    <3> TAKE i \in 1 .. m
    <3>1. src(i) \in 1 .. sz /\ d[i] = c[src(i)] /\ c[src(i)] \in DOMAIN g
      BY <1>1, <1>4, <1>6
    <3>2. g[d[i]].value = h[c[src(i)]].value
      BY <1>9, <3>1
    <3> QED BY <2>4, <2>5, <2>6, <3>1, <3>2
  <2> HIDE DEF u, w, m
  <2>8. u = w
    BY <2>2, <2>3, <2>7, SeqEqual
  <2> QED BY <2>8 DEF u, w
<1>16. \A x \in DOMAIN g : g[x].value = h[x].value
  BY <1>9
<1> QED BY <1>6, <1>14, <1>15, <1>16

-----------------------------------------------------------------------------
(* The references of the nodes.                                             *)

Having(h, v) == {n \in DOMAIN h : h[n].value = v}

LEMMA HavingFew ==
  ASSUME NEW h, DOMAIN h \in SUBSET Addresses, NEW v
  PROVE  IsFiniteSet(Having(h, v)) /\ Cardinality(Having(h, v)) \in Nat
<1>1. IsFiniteSet(Addresses)
  BY ListConstants, FS_Interval DEF Addresses
<1>2. Having(h, v) \in SUBSET Addresses
  BY DEF Having
<1> QED BY <1>1, <1>2, FS_Subset, FS_CardinalityType

LEMMA HavingMore ==
  ASSUME NEW h, DOMAIN h \in SUBSET Addresses, NEW n \in Addresses, n \notin DOMAIN h,
         NEW g, DOMAIN g = DOMAIN h \cup {n}, \A x \in DOMAIN h : g[x].value = h[x].value, NEW u
  PROVE  Cardinality(Having(g, u)) = Cardinality(Having(h, u)) + (IF u = g[n].value THEN 1 ELSE 0)
<1>1. n \notin Having(h, u) /\ Having(g, u) = IF u = g[n].value THEN Having(h, u) \cup {n}
        ELSE Having(h, u)
  BY DEF Having
<1>2. IsFiniteSet(Having(h, u)) /\ Cardinality(Having(h, u)) \in Nat
  BY HavingFew
<1>3. Cardinality(Having(h, u) \cup {n}) = Cardinality(Having(h, u)) + 1
  BY <1>1, <1>2, FS_AddElement
<1> QED BY <1>1, <1>2, <1>3

LEMMA HavingLess ==
  ASSUME NEW h, DOMAIN h \in SUBSET Addresses, NEW n \in DOMAIN h,
         NEW g, DOMAIN g = DOMAIN h \ {n}, \A x \in DOMAIN g : g[x].value = h[x].value, NEW u
  PROVE  Cardinality(Having(h, u)) = Cardinality(Having(g, u)) + (IF u = h[n].value THEN 1 ELSE 0)
<1>1. n \notin Having(g, u) /\ Having(h, u) = IF u = h[n].value THEN Having(g, u) \cup {n}
        ELSE Having(g, u)
  BY DEF Having
<1>2. IsFiniteSet(Having(g, u)) /\ Cardinality(Having(g, u)) \in Nat
  <2>1. DOMAIN g \in SUBSET Addresses
    OBVIOUS
  <2> QED BY <2>1, HavingFew
<1>3. Cardinality(Having(g, u) \cup {n}) = Cardinality(Having(g, u)) + 1
  BY <1>1, <1>2, FS_AddElement
<1> QED BY <1>1, <1>2, <1>3

LEMMA HavingOther ==
  ASSUME NEW h, DOMAIN h \in SUBSET Addresses, NEW n \in DOMAIN h,
         NEW g, DOMAIN g = DOMAIN h, \A x \in DOMAIN g \ {n} : g[x].value = h[x].value, NEW u
  PROVE  Cardinality(Having(g, u)) =
           Cardinality(Having(h, u)) + (IF u = g[n].value THEN 1 ELSE 0)
             - (IF u = h[n].value THEN 1 ELSE 0)
<1> DEFINE f == [x \in DOMAIN h \ {n} |-> h[x]]
<1>1. Cardinality(Having(h, u)) = Cardinality(Having(f, u)) + (IF u = h[n].value THEN 1 ELSE 0)
  <2>1. DOMAIN f = DOMAIN h \ {n} /\ \A x \in DOMAIN f : f[x].value = h[x].value
    OBVIOUS
  <2> HIDE DEF f
  <2> QED BY <2>1, HavingLess
<1>2. Cardinality(Having(g, u)) = Cardinality(Having(f, u)) + (IF u = g[n].value THEN 1 ELSE 0)
  <2>1. DOMAIN f \in SUBSET Addresses /\ n \notin DOMAIN f /\ n \in Addresses
    OBVIOUS
  <2>2. DOMAIN g = DOMAIN f \cup {n}
    OBVIOUS
  <2>3. \A x \in DOMAIN f : g[x].value = f[x].value
    OBVIOUS
  <2> HIDE DEF f
  <2> QED BY <2>1, <2>2, <2>3, HavingMore
<1>3. Cardinality(Having(f, u)) \in Nat
  <2>1. DOMAIN f \in SUBSET Addresses
    OBVIOUS
  <2> HIDE DEF f
  <2> QED BY <2>1, HavingFew
<1> HIDE DEF f
<1> QED BY <1>1, <1>2, <1>3

-----------------------------------------------------------------------------
(* The inductive invariant, and what the sequence of a chain is.            *)

RefsKept == list_refs \in [Values -> Int] /\ \A v \in Values : Lost(v) \in 0 .. MaxLost

ListInv ==
  /\ \E c : Chained(c, heap, head, tail, size)
  /\ iter \in DOMAIN heap \cup {None, Off}
  /\ RefsKept

\* A step that the list keeps its promise in.
ListKept == ListInv' /\ [ListScript!Next]_ListScript!vars

LEMMA Read ==
  ASSUME NEW c, Chained(c, heap, head, tail, size)
  PROVE  /\ Items = ItemsOf(c, heap) /\ Items \in Seq(Values) /\ Len(Items) = size /\ size \in Nat
         /\ \A p \in 0 .. size - 1 : NodeAt(p) = c[p + 1]
         /\ NodeAt(size) = None
         /\ \A i \in 1 .. size : Items[i] = heap[c[i]].value
<1>1. size \in Nat /\ Len(c) = size
  BY Chain DEF Chained
<1>2. \A p \in 0 .. size - 1 : NodeAt(p) = c[p + 1]
  BY <1>1, Walked DEF NodeAt
<1>3. NodeAt(size) = None
  BY <1>1, Walked DEF NodeAt
<1>4. \A i \in 1 .. size : NodeAt(i - 1) = c[i]
  BY <1>1, <1>2
<1>5. Items = ItemsOf(c, heap)
  BY <1>1, <1>4 DEF Items, ItemsOf
<1>6. Items \in Seq(Values) /\ Len(Items) = size
  BY <1>5, Chain
<1> QED BY <1>1, <1>2, <1>3, <1>4, <1>5, <1>6 DEF Items

LEMMA ReadNext ==
  ASSUME NEW c, Chained(c, heap', head', tail', size')
  PROVE  /\ Items' = ItemsOf(c, heap') /\ size' \in Nat
         /\ \A i \in 1 .. size' : Walk(heap', head', size')[i - 1] = c[i]
<1>1. size' \in Nat /\ Len(c) = size'
  BY Chain DEF Chained
<1>2. \A p \in 0 .. size' : Walk(heap', head', size')[p] = IF p < size' THEN c[p + 1] ELSE None
  BY Walked
<1>3. \A i \in 1 .. size' : Walk(heap', head', size')[i - 1] = c[i]
  <2>1. \A i \in 1 .. size' : i - 1 \in 0 .. size' /\ i - 1 < size' /\ i - 1 + 1 = i
    BY <1>1
  <2> QED BY <1>2, <2>1
<1>4. Items' = ItemsOf(c, heap')
  BY <1>1, <1>3 DEF Items, ItemsOf, NodeAt
<1> QED BY <1>1, <1>3, <1>4

LEMMA TurnRead ==
  ASSUME NEW c, Chained(c, heap, head, tail, size), NEW t, TurnIs(c, iter, t)
  PROVE  Turn = t /\ t \in -1 .. size
<1>1. /\ size \in Nat /\ Len(c) = size /\ \A i \in 1 .. size : c[i] # None /\ c[i] # Off
      /\ \A i, j \in 1 .. size : c[i] = c[j] => i = j
  <2>1. size \in Nat /\ \A i \in 1 .. size : c[i] # None /\ c[i] # Off
    BY Chain
  <2> QED BY <2>1 DEF Chained
<1>2. \A p \in 1 .. size : NodeAt(p - 1) = c[p]
  BY <1>1, Read
<1>3. CASE iter = Off /\ t = 0
  BY <1>1, <1>3 DEF Turn
<1>4. CASE iter = None /\ t = -1
  BY <1>1, <1>4, ListConstants DEF Turn
<1>5. CASE t \in 1 .. size /\ iter = c[t]
  <2>1. \A p \in 1 .. size : NodeAt(p - 1) = iter <=> p = t
    BY <1>1, <1>2, <1>5
  <2>2. (CHOOSE p \in 1 .. size : NodeAt(p - 1) = iter) = t
    BY <1>5, <2>1
  <2> QED BY <1>1, <1>5, <2>2 DEF Turn
<1> QED BY <1>1, <1>3, <1>4, <1>5 DEF TurnIs

LEMMA TurnNext ==
  ASSUME NEW c, Chained(c, heap', head', tail', size'), NEW t, TurnIs(c, iter', t)
  PROVE  Turn' = t
<1>1. /\ size' \in Nat /\ Len(c) = size' /\ \A i \in 1 .. size' : c[i] # None /\ c[i] # Off
      /\ \A i, j \in 1 .. size' : c[i] = c[j] => i = j
  <2>1. size' \in Nat /\ \A i \in 1 .. size' : c[i] # None /\ c[i] # Off
    BY Chain
  <2> QED BY <2>1 DEF Chained
<1>2. \A p \in 1 .. size' : Walk(heap', head', size')[p - 1] = c[p]
  BY ReadNext
<1>3. CASE iter' = Off /\ t = 0
  BY <1>1, <1>3 DEF Turn
<1>4. CASE iter' = None /\ t = -1
  BY <1>1, <1>4, ListConstants DEF Turn
<1>5. CASE t \in 1 .. size' /\ iter' = c[t]
  <2>1. ASSUME NEW p \in 1 .. size' PROVE Walk(heap', head', size')[p - 1] = iter' <=> p = t
    <3>1. Walk(heap', head', size')[p - 1] = c[p]
      BY <1>2
    <3>2. c[p] = c[t] => p = t
      BY <1>1, <1>5
    <3> QED BY <1>5, <3>1, <3>2
  <2>2. (CHOOSE p \in 1 .. size' : Walk(heap', head', size')[p - 1] = iter') = t
    BY <1>5, <2>1
  <2> QED BY <1>1, <1>5, <2>2 DEF Turn, NodeAt
<1> QED BY <1>1, <1>3, <1>4, <1>5 DEF TurnIs

LEMMA TurnFound ==
  ASSUME NEW c, Chained(c, heap, head, tail, size), iter \in DOMAIN heap \cup {None, Off}
  PROVE  \E t : TurnIs(c, iter, t)
<1>1. DOMAIN heap = {c[i] : i \in 1 .. size}
  BY Chain
<1>2. Len(c) = size
  BY DEF Chained
<1> QED BY <1>1, <1>2 DEF TurnIs

LEMMA Unlinked ==
  ASSUME DOMAIN heap \in SUBSET Addresses, ~Full
  PROVE  Unused \in Addresses /\ Unused \notin DOMAIN heap
<1>1. Addresses \in SUBSET Nat
  BY ListConstants DEF Addresses
<1>2. Addresses \ DOMAIN heap # {}
  BY DEF Full
<1>3. Addresses \ DOMAIN heap \in SUBSET Nat
  BY <1>1
<1> QED BY <1>2, <1>3, MinIsIn DEF Unused

\* A node more and a reference more, or the like: none is lost that was not.
LEMMA LostSame ==
  ASSUME RefsKept, DOMAIN heap \in SUBSET Addresses, DOMAIN heap' \in SUBSET Addresses,
         list_refs' \in [Values -> Int],
         \A u \in Values : list_refs'[u] - list_refs[u]
                             = Cardinality(Having(heap', u)) - Cardinality(Having(heap, u))
  PROVE  RefsKept'
<1>1. \A u \in Values : Lost(u)' = Lost(u)
  <2> TAKE u \in Values
  <2>1. Cardinality(Having(heap', u)) \in Int /\ Cardinality(Having(heap, u)) \in Int
    BY HavingFew
  <2>2. list_refs'[u] \in Int /\ list_refs[u] \in Int
    BY DEF RefsKept
  <2>3. /\ Lost(u)' = list_refs'[u] - Cardinality(Having(heap', u))
        /\ Lost(u) = list_refs[u] - Cardinality(Having(heap, u))
    BY DEF Lost, Holders, Having
  <2> QED BY <2>1, <2>2, <2>3
<1> QED BY <1>1 DEF RefsKept

LEMMA Adds ==
  ASSUME ListInv, ~Full, NEW v \in Values, NEW c, Chained(c, heap, head, tail, size),
         NEW k \in 1 .. size + 1,
         heap' = [x \in DOMAIN heap \cup {Unused} |->
                    IF x = Unused THEN [value |-> v, next |-> IF k = size + 1 THEN None ELSE c[k]]
                    ELSE IF k > 1 /\ x = c[k - 1] THEN [heap[x] EXCEPT !.next = Unused]
                      ELSE heap[x]],
         head' = IF k = 1 THEN Unused ELSE head,
         tail' = IF k = size + 1 THEN Unused ELSE tail,
         size' = size + 1, Retain(v), UNCHANGED iter
  PROVE  /\ ListInv' /\ Items' = Put(Items, k, v)
         /\ Turn' = IF Turn >= k THEN Turn + 1 ELSE Turn
<1> DEFINE n == Unused
           d == Put(c, k, n)
<1>1. /\ DOMAIN heap \in SUBSET Addresses /\ size \in Nat
      /\ iter \in DOMAIN heap \cup {None, Off} /\ RefsKept
  BY Chain DEF ListInv
<1>2. n \in Addresses /\ n \notin DOMAIN heap
  BY <1>1, Unlinked
<1> HIDE DEF n, d
<1>3. /\ Chained(d, heap', head', tail', size')
      /\ ItemsOf(d, heap') = Put(ItemsOf(c, heap), k, v)
      /\ DOMAIN heap' = DOMAIN heap \cup {n} /\ heap'[n].value = v
      /\ \A x \in DOMAIN heap : heap'[x].value = heap[x].value
  BY <1>2, Grows, SMTT(30) DEF n, d
<1>4. RefsKept'
  <2>1. \A u \in Values : Cardinality(Having(heap', u))
          = Cardinality(Having(heap, u)) + (IF u = v THEN 1 ELSE 0)
    <3> TAKE u \in Values
    <3> DEFINE g == heap'
               h == heap
    <3>1. DOMAIN g = DOMAIN h \cup {n} /\ g[n].value = v
      BY <1>3
    <3>2. \A x \in DOMAIN h : g[x].value = h[x].value
      BY <1>3
    <3>3. DOMAIN h \in SUBSET Addresses /\ n \in Addresses /\ n \notin DOMAIN h
      BY <1>1, <1>2
    <3> HIDE DEF g, h
    <3>4. Cardinality(Having(g, u)) = Cardinality(Having(h, u)) + (IF u = g[n].value THEN 1 ELSE 0)
      BY <3>1, <3>2, <3>3, HavingMore
    <3> QED BY <3>1, <3>4 DEF g, h
  <2>2. list_refs' = [list_refs EXCEPT ![v] = list_refs[v] + 1] /\ list_refs \in [Values -> Int]
    BY <1>1 DEF Retain, RefsKept
  <2>3. list_refs' \in [Values -> Int]
    BY <2>2
  <2>4. ASSUME NEW u \in Values
        PROVE  list_refs'[u] - list_refs[u] = Cardinality(Having(heap', u))
                 - Cardinality(Having(heap, u))
    <3>1. list_refs'[u] = list_refs[u] + (IF u = v THEN 1 ELSE 0) /\ list_refs[u] \in Int
      BY <2>2
    <3>2. Cardinality(Having(heap, u)) \in Int
      BY <1>1, HavingFew
    <3>3. Cardinality(Having(heap', u)) = Cardinality(Having(heap, u)) + (IF u = v THEN 1 ELSE 0)
      BY <2>1
    <3> QED BY <3>1, <3>2, <3>3
  <2>5. DOMAIN heap' \in SUBSET Addresses
    BY <1>1, <1>2, <1>3
  <2> QED BY <1>1, <2>3, <2>4, <2>5, LostSame
<1>5. ListInv'
  BY <1>1, <1>3, <1>4 DEF ListInv
<1>6. Items' = Put(Items, k, v)
  BY <1>3, Read, ReadNext
<1>7. PICK t : TurnIs(c, iter, t)
  BY <1>1, TurnFound
<1>8. Turn = t /\ t \in -1 .. size
  BY <1>7, TurnRead
<1>9. TurnIs(d, iter', IF t >= k THEN t + 1 ELSE t)
  <2>1. Len(c) = size /\ Len(d) = size + 1 /\ size \in Nat
    BY <1>1, <1>3 DEF Chained
  <2>2. \A i \in 1 .. size + 1 : d[i] = IF i < k THEN c[i] ELSE IF i = k THEN n ELSE c[i - 1]
    BY <2>1 DEF d, Put
  <2>3. CASE t \in 1 .. size /\ iter = c[t]
    <3>1. ASSUME t >= k PROVE t + 1 \in 1 .. size + 1 /\ d[t + 1] = c[t]
      <4> DEFINE i == t + 1
      <4>1. i \in 1 .. size + 1 /\ ~(i < k) /\ i # k /\ i - 1 = t
        BY <2>1, <2>3, <3>1
      <4> HIDE DEF i
      <4>2. i \in 1 .. size + 1 /\ d[i] = c[t]
        BY <2>2, <4>1
      <4> QED BY <4>2 DEF i
    <3>2. ~(t >= k) => t \in 1 .. size + 1 /\ d[t] = c[t]
      BY <2>1, <2>2, <2>3
    <3> QED BY <2>1, <2>3, <3>1, <3>2 DEF TurnIs
  <2>4. CASE t \in {0, -1}
    <3>1. ~(t >= k) /\ t \notin 1 .. size
      BY <2>1, <2>4
    <3> QED BY <1>7, <2>1, <3>1 DEF TurnIs
  <2> QED BY <1>7, <2>1, <2>3, <2>4 DEF TurnIs
<1>10. Turn' = IF t >= k THEN t + 1 ELSE t
  BY <1>3, <1>9, TurnNext
<1> QED BY <1>5, <1>6, <1>8, <1>10

LEMMA Appends ==
  ASSUME ListInv, ~Full, NEW v \in Values, AppendNode(v), Retain(v), UNCHANGED iter
  PROVE  /\ ListInv' /\ Items' = Append(Items, v) /\ Items' = Put(Items, size + 1, v)
         /\ Turn' = Turn /\ ~(Turn >= size + 1)
<1>1. PICK c : Chained(c, heap, head, tail, size)
  BY DEF ListInv
<1> DEFINE n == Unused
           k == size + 1
<1>2. size \in Nat /\ DOMAIN heap \in SUBSET Addresses /\ k \in 1 .. size + 1
        /\ (k > 1 <=> size # 0) /\ (k = 1 <=> size = 0)
  BY <1>1, Chain
<1>3. /\ head = None <=> size = 0
      /\ size # 0 => tail = c[k - 1] /\ tail \in DOMAIN heap
  <2>1. size # 0 => size \in 1 .. size /\ 1 \in 1 .. size /\ k - 1 = size
    BY <1>2
  <2>2. size # 0 => c[1] # None /\ c[size] \in DOMAIN heap
    BY <1>1, <2>1, Chain
  <2>3. head = (IF size = 0 THEN None ELSE c[1]) /\ tail = IF size = 0 THEN None ELSE c[size]
    BY <1>1 DEF Chained
  <2> QED BY <2>1, <2>2, <2>3
<1>4. n \in Addresses /\ n \notin DOMAIN heap
  BY <1>2, Unlinked
<1> HIDE DEF n
<1>5. /\ heap' = IF head = None THEN With(n, v, None) ELSE Link(With(n, v, None), tail, n)
      /\ head' = IF head = None THEN n ELSE head
      /\ tail' = n /\ size' = size + 1
  BY DEF AppendNode, n
<1> DEFINE g == [x \in DOMAIN heap \cup {n} |->
                    IF x = n THEN [value |-> v, next |-> IF k = size + 1 THEN None ELSE c[k]]
                    ELSE IF k > 1 /\ x = c[k - 1] THEN [heap[x] EXCEPT !.next = n] ELSE heap[x]]
<1>6. heap' = g
  <2>1. CASE head = None
    BY <1>2, <1>3, <1>5, <2>1 DEF With
  <2>2. CASE head # None
    <3>1. heap' = [With(n, v, None) EXCEPT ![tail] = [With(n, v, None)[tail] EXCEPT !.next = n]]
      BY <1>5, <2>2 DEF Link
    <3>2. size # 0 /\ k > 1 /\ tail = c[k - 1] /\ tail \in DOMAIN heap /\ tail # n
      BY <1>2, <1>3, <1>4, <2>2
    <3> HIDE DEF k
    <3>3. With(n, v, None)
            = [x \in DOMAIN heap \cup {n} |->
                 IF x = n THEN [value |-> v, next |-> None] ELSE heap[x]]
      BY DEF With
    <3>4. heap' = [x \in DOMAIN heap \cup {n} |->
                     IF x = n THEN [value |-> v, next |-> None]
                     ELSE IF x = c[k - 1] THEN [heap[x] EXCEPT !.next = n] ELSE heap[x]]
      BY <3>1, <3>2, <3>3
    <3> QED BY <3>2, <3>4 DEF k
  <2> QED BY <2>1, <2>2
<1>7. head' = (IF k = 1 THEN n ELSE head) /\ tail' = (IF k = size + 1 THEN n ELSE tail)
  BY <1>2, <1>3, <1>5
<1>8. /\ ListInv' /\ Items' = Put(Items, k, v)
      /\ Turn' = IF Turn >= k THEN Turn + 1 ELSE Turn
  <2> HIDE DEF k
  <2> QED BY <1>1, <1>2, <1>5, <1>6, <1>7, Adds DEF n
<1>9. ~(Turn >= k)
  <2>1. PICK t : TurnIs(c, iter, t)
    BY <1>1, TurnFound DEF ListInv
  <2>2. Turn \in -1 .. size
    BY <1>1, <2>1, TurnRead
  <2> QED BY <1>2, <2>2
<1>10. Append(Items, v) = Put(Items, k, v)
  BY <1>1, Read, PutLast
<1> QED BY <1>8, <1>9, <1>10

LEMMA InsertStep ==
  ASSUME ListInv, NEW p \in 0 .. size, NEW v \in Values, ll_insert(p, v)
  PROVE  ListKept
<1>1. PICK c : Chained(c, heap, head, tail, size)
  BY DEF ListInv
<1> DEFINE k == p + 1
<1>2. size \in Nat /\ k \in 1 .. size + 1 /\ Items \in Seq(Values) /\ Len(Items) = size
        /\ DOMAIN heap \in SUBSET Addresses
  <2>1. size \in Nat /\ Items \in Seq(Values) /\ Len(Items) = size
          /\ DOMAIN heap \in SUBSET Addresses
    BY <1>1, Read, Chain
  <2> QED BY <2>1
<1>3. /\ ~Full /\ Retain(v) /\ list_answer' = <<"insert", p, v>> /\ UNCHANGED iter
      /\ p >= size => AppendNode(v)
  BY DEF ll_insert
<1>4. /\ ListInv' /\ Items' = Put(Items, k, v)
      /\ Turn' = IF Turn >= k THEN Turn + 1 ELSE Turn
  <2>1. CASE p >= size
    <3>1. k = size + 1
      BY <1>2, <2>1
    <3>2. /\ ListInv' /\ Items' = Put(Items, size + 1, v)
          /\ Turn' = Turn /\ ~(Turn >= size + 1)
      BY <1>3, <2>1, Appends
    <3> HIDE DEF k
    <3> QED BY <3>1, <3>2
  <2>2. CASE ~(p >= size)
    <3> DEFINE n == Unused
    <3>1. n \in Addresses /\ n \notin DOMAIN heap
      BY <1>2, <1>3, Unlinked
    <3>2. /\ heap' = IF p = 0 THEN With(n, v, head)
                     ELSE Link(With(n, v, heap[NodeAt(p - 1)].next), NodeAt(p - 1), n)
          /\ head' = IF p = 0 THEN n ELSE head
          /\ size' = size + 1 /\ tail' = tail
      BY <2>2 DEF ll_insert
    <3> HIDE DEF n
    <3>3. /\ k \in 1 .. size /\ (p # 0 => k - 1 \in 1 .. size /\ k - 1 # size
               /\ p - 1 \in 0 .. size - 1)
          /\ (k > 1 <=> p # 0) /\ (k = 1 <=> p = 0) /\ k - 1 = p /\ p - 1 + 1 = p
               /\ k # size + 1 /\ size # 0
      BY <1>2, <2>2
    <3>4. /\ head = c[1] /\ \A i \in 1 .. size : heap[c[i]].next = IF i = size THEN None
               ELSE c[i + 1]
      BY <1>1, <3>3 DEF Chained
    <3>5. p # 0 => NodeAt(p - 1) = c[p] /\ heap[c[p]].next = c[k] /\ c[p] \in DOMAIN heap
      <4>1. p # 0 => NodeAt(p - 1) = c[p - 1 + 1]
        BY <1>1, <3>3, Read
      <4>2. p # 0 => p \in 1 .. size /\ p # size
        BY <3>3
      <4>3. p # 0 => c[p] \in DOMAIN heap
        BY <1>1, <4>2, Chain
      <4> QED BY <3>3, <3>4, <4>1, <4>2, <4>3
    <3> DEFINE g == [x \in DOMAIN heap \cup {n} |->
                       IF x = n THEN [value |-> v, next |-> IF k = size + 1 THEN None ELSE c[k]]
                       ELSE IF k > 1 /\ x = c[k - 1] THEN [heap[x] EXCEPT !.next = n] ELSE heap[x]]
    <3>6. heap' = g
      <4>1. CASE p = 0
        <5>1. heap' = With(n, v, c[k])
          BY <3>2, <3>3, <3>4, <4>1
        <5> HIDE DEF k
        <5> QED BY <3>3, <4>1, <5>1 DEF With
      <4>2. CASE p # 0
        <5>1. heap' = [With(n, v, c[k]) EXCEPT ![c[p]] = [With(n, v, c[k])[c[p]] EXCEPT !.next = n]]
          BY <3>2, <3>5, <4>2 DEF Link
        <5>2. k > 1 /\ c[k - 1] = c[p] /\ c[p] \in DOMAIN heap /\ c[p] # n
          BY <3>1, <3>3, <3>5, <4>2
        <5> HIDE DEF k
        <5>3. With(n, v, c[k])
                = [x \in DOMAIN heap \cup {n} |->
                     IF x = n THEN [value |-> v, next |-> c[k]] ELSE heap[x]]
          BY DEF With
        <5>4. heap' = [x \in DOMAIN heap \cup {n} |->
                         IF x = n THEN [value |-> v, next |-> c[k]]
                         ELSE IF x = c[p] THEN [heap[x] EXCEPT !.next = n] ELSE heap[x]]
          BY <5>1, <5>2, <5>3
        <5> QED BY <3>3, <5>2, <5>4
      <4> QED BY <4>1, <4>2
    <3>7. head' = (IF k = 1 THEN n ELSE head) /\ tail' = (IF k = size + 1 THEN n ELSE tail)
      BY <3>2, <3>3
    <3> HIDE DEF k
    <3> QED BY <1>1, <1>2, <1>3, <3>2, <3>6, <3>7, Adds DEF n
  <2> QED BY <2>1, <2>2
<1>5. ListScript!InsertAt(Items, p + 1, v) = Put(Items, p + 1, v)
  <2>1. InsertAt(Items, k, v) = Put(Items, k, v)
    <3> HIDE DEF k
    <3> QED BY <1>2, PutIn, SMTT(30)
  <2> QED BY <2>1 DEF ListScript!InsertAt, InsertAt
<1>6. ListScript!Insert(p, v)
  BY <1>3, <1>4, <1>5 DEF ListScript!Insert
<1> QED BY <1>2, <1>4, <1>6 DEF ListKept, ListScript!Next

LEMMA AppendStep ==
  ASSUME ListInv, NEW v \in Values, native_list_append(v)
  PROVE  ListKept
<1>1. /\ ~Full /\ AppendNode(v) /\ Retain(v) /\ list_answer' = <<"append", v>> /\ UNCHANGED iter
  BY DEF native_list_append
<1>2. ListInv' /\ Items' = Append(Items, v) /\ Turn' = Turn
  BY <1>1, Appends
<1>3. ListScript!Append1(v)
  BY <1>1, <1>2 DEF ListScript!Append1
<1> QED BY <1>2, <1>3 DEF ListKept, ListScript!Next

\* The node at the place k of the chain c is taken out, and its reference is released.
Unlinks(c, k) ==
  /\ heap' = [x \in DOMAIN heap \ {c[k]} |->
                IF k > 1 /\ x = c[k - 1] THEN [heap[x] EXCEPT !.next = heap[c[k]].next]
                ELSE heap[x]]
  /\ head' = IF k = 1 THEN heap[c[k]].next ELSE head
  /\ tail' = IF k = size THEN IF k = 1 THEN None ELSE c[k - 1] ELSE tail
  /\ size' = size - 1 /\ list_refs' = [list_refs EXCEPT ![heap[c[k]].value] = @ - 1]

LEMMA Removes ==
  ASSUME ListInv, NEW c, Chained(c, heap, head, tail, size), NEW k \in 1 .. size, iter # c[k],
         Unlinks(c, k), UNCHANGED iter
  PROVE  /\ ListInv' /\ Items' = Without(Items, k)
         /\ Turn' = IF Turn > k THEN Turn - 1 ELSE Turn
<1> DEFINE n == c[k]
           v == heap[n].value
           d == Without(c, k)
<1>1. /\ DOMAIN heap \in SUBSET Addresses /\ size \in Nat /\ n \in DOMAIN heap /\ v \in Values
      /\ iter \in DOMAIN heap \cup {None, Off} /\ RefsKept
  BY Chain DEF ListInv
<1> HIDE DEF d
<1>3. /\ Chained(d, heap', head', tail', size')
      /\ ItemsOf(d, heap') = Without(ItemsOf(c, heap), k)
      /\ DOMAIN heap' = DOMAIN heap \ {n}
      /\ \A x \in DOMAIN heap' : heap'[x].value = heap[x].value
  <2> DEFINE g == heap'
             h == heap
  <2>1. g = [x \in DOMAIN h \ {c[k]} |->
               IF k > 1 /\ x = c[k - 1] THEN [h[x] EXCEPT !.next = h[c[k]].next] ELSE h[x]]
    BY DEF Unlinks
  <2>2. /\ head' = IF k = 1 THEN h[c[k]].next ELSE head
        /\ tail' = IF k = size THEN IF k = 1 THEN None ELSE c[k - 1] ELSE tail
        /\ size' = size - 1 /\ Chained(c, h, head, tail, size)
    BY DEF Unlinks
  <2> HIDE DEF g, h
  <2>3. /\ Chained(d, g, head', tail', size')
        /\ ItemsOf(d, g) = Without(ItemsOf(c, h), k)
        /\ DOMAIN g = DOMAIN h \ {c[k]}
        /\ \A x \in DOMAIN g : g[x].value = h[x].value
    BY <2>1, <2>2, Shrinks DEF d
  <2> QED BY <2>3 DEF g, h
<1>2. list_refs' = [list_refs EXCEPT ![v] = list_refs[v] - 1]
  BY DEF Unlinks
<1> HIDE DEF n, v
<1>4. RefsKept'
  <2>1. \A u \in Values : Cardinality(Having(heap, u))
          = Cardinality(Having(heap', u)) + (IF u = v THEN 1 ELSE 0)
    <3> TAKE u \in Values
    <3> DEFINE g == heap'
               h == heap
    <3>1. DOMAIN g = DOMAIN h \ {n}
      BY <1>3
    <3>2. \A x \in DOMAIN g : g[x].value = h[x].value
      BY <1>3
    <3>3. DOMAIN h \in SUBSET Addresses /\ n \in DOMAIN h
      BY <1>1
    <3>5. h[n].value = v
      BY DEF v
    <3> HIDE DEF g, h
    <3>4. Cardinality(Having(h, u)) = Cardinality(Having(g, u)) + (IF u = h[n].value THEN 1 ELSE 0)
      BY <3>1, <3>2, <3>3, HavingLess
    <3> QED BY <3>4, <3>5 DEF g, h
  <2>2. list_refs \in [Values -> Int]
    BY <1>1 DEF RefsKept
  <2>3. list_refs' \in [Values -> Int]
    BY <1>1, <1>2, <2>2
  <2>5. DOMAIN heap' \in SUBSET Addresses
    BY <1>1, <1>3
  <2>4. ASSUME NEW u \in Values
        PROVE  list_refs'[u] - list_refs[u] = Cardinality(Having(heap', u))
                 - Cardinality(Having(heap, u))
    <3>1. list_refs'[u] = list_refs[u] - (IF u = v THEN 1 ELSE 0) /\ list_refs[u] \in Int
      BY <1>1, <1>2, <2>2
    <3>2. Cardinality(Having(heap', u)) \in Int
      BY <2>5, HavingFew
    <3>3. Cardinality(Having(heap, u)) = Cardinality(Having(heap', u)) + (IF u = v THEN 1 ELSE 0)
      BY <2>1
    <3> QED BY <3>1, <3>2, <3>3
  <2> QED BY <1>1, <2>3, <2>4, <2>5, LostSame
<1>5. ListInv'
  <2>1. iter' \in DOMAIN heap' \cup {None, Off}
    BY <1>1, <1>3 DEF n
  <2> QED BY <1>3, <1>4, <2>1 DEF ListInv
<1>6. Items' = Without(Items, k)
  BY <1>3, Read, ReadNext
<1>7. PICK t : TurnIs(c, iter, t)
  BY <1>1, TurnFound
<1>8. Turn = t /\ t \in -1 .. size
  BY <1>7, TurnRead
<1>9. TurnIs(d, iter', IF t > k THEN t - 1 ELSE t)
  <2>1. Len(c) = size /\ Len(d) = size - 1 /\ size \in Nat
    <3>1. size' = size - 1
      BY DEF Unlinks
    <3> QED BY <1>1, <1>3, <3>1 DEF Chained
  <2>2. \A i \in 1 .. size - 1 : d[i] = IF i < k THEN c[i] ELSE c[i + 1]
    BY <2>1 DEF d, Without
  <2>3. CASE t \in 1 .. size /\ iter = c[t]
    <3>1. t # k
      BY <2>3 DEF n
    <3>2. ASSUME t > k PROVE t - 1 \in 1 .. size - 1 /\ d[t - 1] = c[t]
      <4> DEFINE i == t - 1
      <4>1. i \in 1 .. size - 1 /\ ~(i < k) /\ i + 1 = t
        BY <2>1, <2>3, <3>2
      <4> HIDE DEF i
      <4>2. i \in 1 .. size - 1 /\ d[i] = c[t]
        BY <2>2, <4>1
      <4> QED BY <4>2 DEF i
    <3>3. ASSUME ~(t > k) PROVE t \in 1 .. size - 1 /\ d[t] = c[t]
      <4>1. t < k /\ t \in 1 .. size - 1
        BY <2>1, <2>3, <3>1, <3>3
      <4> QED BY <2>2, <4>1
    <3> QED BY <2>1, <2>3, <3>2, <3>3 DEF TurnIs
  <2>4. CASE t \in {0, -1}
    <3>1. ~(t > k) /\ t \notin 1 .. size
      BY <2>1, <2>4
    <3> QED BY <1>7, <2>1, <3>1 DEF TurnIs
  <2> QED BY <1>7, <2>1, <2>3, <2>4 DEF TurnIs
<1>10. Turn' = IF t > k THEN t - 1 ELSE t
  BY <1>3, <1>9, TurnNext
<1> QED BY <1>5, <1>6, <1>8, <1>10

LEMMA PopStep ==
  ASSUME ListInv, ListSlips = {}, NEW i \in -size - 1 .. size, size > 0, native_list_pop(i)
  PROVE  ListKept
<1>1. PICK c : Chained(c, heap, head, tail, size)
  BY DEF ListInv
<1> DEFINE p == FromFront(i)
           k == p + 1
<1>2. /\ size \in Nat /\ Items \in Seq(Values) /\ Len(Items) = size
      /\ \A q \in 0 .. size - 1 : NodeAt(q) = c[q + 1]
      /\ \A j \in 1 .. size : Items[j] = heap[c[j]].value
  BY <1>1, Read
<1>3. p \in Nat /\ p = IF i < 0 THEN -i - 1 ELSE i
  BY <1>2 DEF FromFront
<1>4. i \in -Len(Items) - 1 .. Len(Items)
  BY <1>2
<1>5. CASE p >= size
  <2>1. list_answer' = <<"pop", i, "error">>
          /\ UNCHANGED <<heap, head, tail, size, list_refs, iter>>
    BY <1>5 DEF native_list_pop
  <2>2. ListInv' /\ Items' = Items /\ Turn' = Turn
    BY <2>1 DEF ListInv, RefsKept, Lost, Holders, Items, Turn, NodeAt
  <2>3. p \notin 0 .. Len(Items) - 1
    <3> HIDE DEF p
    <3> QED BY <1>2, <1>3, <1>5
  <2>4. ListScript!TakeOut(i)
    <3>1. (IF i < 0 THEN -i - 1 ELSE i) \notin 0 .. Len(Items) - 1
      <4> HIDE DEF p
      <4> QED BY <1>3, <2>3
    <3>2. Items # <<>>
      BY <1>2
    <3> QED BY <2>1, <2>2, <3>1, <3>2 DEF ListScript!TakeOut, ListScript!Places, ListScript!Tell
  <2> QED BY <1>4, <2>2, <2>4 DEF ListKept, ListScript!Next
<1>6. CASE ~(p >= size)
  <2>1. p \in 0 .. size - 1 /\ k \in 1 .. size /\ (p = 0 <=> k = 1) /\ (p > 0 <=> k > 1)
          /\ k - 1 = p
        /\ (p # 0 => p - 1 \in 0 .. size - 1 /\ p - 1 + 1 = p /\ p \in 1 .. size)
    <3> HIDE DEF p
    <3> QED BY <1>2, <1>3, <1>6
  <2>2. /\ iter # NodeAt(p) /\ UnlinkNode(p) /\ size' = size - 1
        /\ list_answer' = <<"pop", i, heap[NodeAt(p)].value>>
        /\ list_refs' = [list_refs EXCEPT ![heap[NodeAt(p)].value] = @ - 1] /\ UNCHANGED iter
    BY <1>6 DEF native_list_pop
  <2> HIDE DEF p
  <2>3. NodeAt(p) = c[k] /\ (p # 0 => NodeAt(p - 1) = c[p])
    <3>1. p # 0 => NodeAt(p - 1) = c[p - 1 + 1]
      BY <1>2, <2>1
    <3> QED BY <1>2, <2>1, <3>1
  <2>4. /\ \A j \in 1 .. size : c[j] # None /\ c[j] \in DOMAIN heap
        /\ \A j, l \in 1 .. size : c[j] = c[l] => j = l
        /\ head = c[1] /\ tail = c[size] /\ size # 0 /\ size \in 1 .. size
    <3>1. \A j \in 1 .. size : c[j] # None /\ c[j] \in DOMAIN heap
      BY <1>1, Chain
    <3>2. size # 0 /\ size \in 1 .. size
      BY <1>2, <2>1
    <3> QED BY <1>1, <3>1, <3>2 DEF Chained
  <2> DEFINE prev == IF p = 0 THEN None ELSE c[p]
             cut == IF prev = None THEN heap ELSE Link(heap, prev, heap[c[k]].next)
  <2>5. /\ heap' = [x \in DOMAIN heap \ {c[k]} |-> cut[x]]
        /\ head' = IF prev = None THEN heap[c[k]].next ELSE head
        /\ tail' = IF c[k] = tail THEN prev ELSE tail
    BY <2>2, <2>3 DEF UnlinkNode
  <2>6. prev = None <=> p = 0
    BY <2>1, <2>4
  <2>7. heap' = [x \in DOMAIN heap \ {c[k]} |->
                    IF k > 1 /\ x = c[k - 1] THEN [heap[x] EXCEPT !.next = heap[c[k]].next]
                    ELSE heap[x]]
    <3> DEFINE to == heap[c[k]].next
    <3> HIDE DEF to
    <3>1. CASE p = 0
      <4>1. cut = heap /\ ~(k > 1)
        BY <2>1, <2>6, <3>1
      <4> HIDE DEF cut, k
      <4> QED BY <2>5, <4>1
    <3>2. CASE p # 0
      <4>1. cut = [heap EXCEPT ![c[p]] = [heap[c[p]] EXCEPT !.next = to]] /\ k > 1
              /\ c[k - 1] = c[p]
        <5>1. cut = Link(heap, c[p], to)
          BY <2>6, <3>2 DEF to
        <5> HIDE DEF cut, k
        <5> QED BY <2>1, <3>2, <5>1 DEF Link
      <4>2. \A x \in DOMAIN heap \ {c[k]} : cut[x]
              = IF x = c[p] THEN [heap[x] EXCEPT !.next = to] ELSE heap[x]
        <5> HIDE DEF cut, k
        <5> QED BY <4>1
      <4> HIDE DEF cut, k
      <4> QED BY <2>5, <4>1, <4>2 DEF to
    <3> QED BY <3>1, <3>2
  <2>8. head' = IF k = 1 THEN heap[c[k]].next ELSE head
    <3> HIDE DEF k
    <3> QED BY <2>1, <2>5, <2>6
  <2>9. tail' = IF k = size THEN IF k = 1 THEN None ELSE c[k - 1] ELSE tail
    <3>1. c[k] = tail <=> k = size
      <4> HIDE DEF k
      <4> QED BY <2>1, <2>4
    <3> HIDE DEF k
    <3> QED BY <2>1, <2>5, <3>1
  <2>10. /\ ListInv' /\ Items' = Without(Items, k)
         /\ Turn' = IF Turn > k THEN Turn - 1 ELSE Turn
    <3>1. iter # c[k] /\ list_refs' = [list_refs EXCEPT ![heap[c[k]].value] = @ - 1]
      BY <2>2, <2>3
    <3> HIDE DEF k
    <3>2. Unlinks(c, k)
      BY <2>2, <2>7, <2>8, <2>9, <3>1 DEF Unlinks
    <3> QED BY <1>1, <2>1, <2>2, <3>1, <3>2, Removes
  <2>11. ListScript!RemoveAt(Items, p + 1) = Without(Items, p + 1)
    <3>1. RemoveAt(Items, k) = Without(Items, k)
      <4> HIDE DEF k
      <4> QED BY <1>2, <2>1, WithoutIn
    <3> QED BY <3>1 DEF ListScript!RemoveAt, RemoveAt
  <2>12. list_answer' = <<"pop", i, Items[p + 1]>>
    <3>1. Items[k] = heap[c[k]].value
      <4> HIDE DEF k
      <4> QED BY <1>2, <2>1
    <3> QED BY <2>2, <2>3, <3>1
  <2>13. ListScript!TakeOut(i)
    <3>1. (IF i < 0 THEN -i - 1 ELSE i) = p /\ p \in 0 .. Len(Items) - 1
      BY <1>2, <1>3, <2>1
    <3> QED BY <2>10, <2>11, <2>12, <3>1 DEF ListScript!TakeOut, ListScript!Places
  <2> QED BY <1>4, <2>10, <2>13 DEF ListKept, ListScript!Next
<1> QED BY <1>5, <1>6

LEMMA Tells ==
  ASSUME ListInv, UNCHANGED <<heap, head, tail, size, iter, list_refs>>
  PROVE  ListInv' /\ Items' = Items /\ Turn' = Turn
BY DEF ListInv, RefsKept, Lost, Holders, Items, Turn, NodeAt

LEMMA GetStep ==
  ASSUME ListInv, NEW p \in 0 .. size, ll_get(p)
  PROVE  ListKept
<1>1. PICK c : Chained(c, heap, head, tail, size)
  BY DEF ListInv
<1>2. /\ list_answer' = <<"get", p, IF p < size THEN heap[NodeAt(p)].value ELSE None>>
      /\ UNCHANGED <<heap, head, tail, size, iter, list_refs>>
  BY DEF ll_get
<1>3. ListInv' /\ Items' = Items /\ Turn' = Turn
  BY <1>2, Tells
<1>4. size \in Nat /\ Len(Items) = size
  BY <1>1, Read
<1>5. p < size => heap[NodeAt(p)].value = Items[p + 1]
  <2> HAVE p < size
  <2>1. p \in 0 .. size - 1 /\ p + 1 \in 1 .. size
    BY <1>4
  <2>2. NodeAt(p) = c[p + 1]
    BY <1>1, <2>1, Read
  <2>3. Items[p + 1] = heap[c[p + 1]].value
    BY <1>1, <2>1, Read
  <2> QED BY <2>2, <2>3
<1>6. p < size <=> p \in 0 .. Len(Items) - 1
  BY <1>4
<1>7. list_answer' = <<"get", p, IF p \in 0 .. Len(Items) - 1 THEN Items[p + 1] ELSE None>>
  <2>1. CASE p < size
    BY <1>2, <1>5, <1>6, <2>1
  <2>2. CASE ~(p < size)
    BY <1>2, <1>6, <2>2
  <2> QED BY <2>1, <2>2
<1>8. ListScript!Get(p)
  BY <1>3, <1>7 DEF ListScript!Get, ListScript!Tell, ListScript!Places
<1> QED BY <1>3, <1>4, <1>8 DEF ListKept, ListScript!Next

LEMMA IndexStep ==
  ASSUME ListInv, NEW v \in Values, native_list_index(v)
  PROVE  ListKept
<1>1. PICK c : Chained(c, heap, head, tail, size)
  BY DEF ListInv
<1> DEFINE found == {i \in 1 .. size : Items[i] = v}
<1>2. /\ list_answer' = <<"index", v, IF found = {} THEN -1 ELSE Min(found) - 1>>
      /\ UNCHANGED <<heap, head, tail, size, iter, list_refs>>
  BY DEF native_list_index
<1>3. ListInv' /\ Items' = Items /\ Turn' = Turn
  BY <1>2, Tells
<1>4. size \in Nat /\ Len(Items) = size
  BY <1>1, Read
<1>5. ListScript!SelectInSeq(Items, LAMBDA x : x = v) = IF found # {} THEN Min(found) ELSE 0
  BY <1>4 DEF ListScript!SelectInSeq, ListScript!Min, Min
<1>6. (IF found = {} THEN -1 ELSE Min(found) - 1)
        = ListScript!SelectInSeq(Items, LAMBDA x : x = v) - 1
  <2>1. CASE found = {}
    <3>1. 0 - 1 = -1
      OBVIOUS
    <3> HIDE DEF found
    <3> QED BY <1>5, <2>1, <3>1
  <2>2. CASE found # {}
    <3> HIDE DEF found
    <3> QED BY <1>5, <2>2
  <2> QED BY <2>1, <2>2
<1>7. ListScript!IndexOf(v)
  <2> HIDE DEF found
  <2> QED BY <1>2, <1>3, <1>6 DEF ListScript!IndexOf, ListScript!Tell
<1> QED BY <1>3, <1>7 DEF ListKept, ListScript!Next

LEMMA CopyItems ==
  ASSUME ListInv
  PROVE  /\ size \in Nat /\ Len(Items) = size /\ Items \in Seq(Values)
         /\ Len(ll_to_iter) = size + 1 /\ ll_to_iter \in Seq(Values \cup {Marker(size + 1)})
         /\ ll_to_iter[1] = Marker(size + 1) /\ \A i \in 1 .. size : ll_to_iter[i + 1] = Items[i]
<1>1. PICK c : Chained(c, heap, head, tail, size)
  BY DEF ListInv
<1>2. size \in Nat /\ Len(Items) = size /\ Items \in Seq(Values)
  BY <1>1, Read
<1> DEFINE S == Values \cup {Marker(size + 1)}
           m == <<Marker(size + 1)>>
           s == Items
<1>3. s \in Seq(S) /\ m \in Seq(S) /\ Len(m) = 1 /\ m[1] = Marker(size + 1)
  BY <1>2
<1>4. ll_to_iter = m \o s
  BY DEF ll_to_iter
<1> HIDE DEF S, m, s
<1>5. /\ m \o s \in Seq(S) /\ Len(m \o s) = Len(m) + Len(s)
      /\ \A i \in 1 .. Len(m) + Len(s) : (m \o s)[i] = IF i =< Len(m) THEN m[i] ELSE s[i - Len(m)]
  <2>1. m \in Seq(S) /\ s \in Seq(S)
    BY <1>3
  <2> QED BY <2>1
<1>6. \A i \in 1 .. Len(m) + Len(s) : (m \o s)[i] = IF i =< Len(m) THEN m[i] ELSE s[i - Len(m)]
  BY <1>5
<1>7. Len(s) = size
  BY <1>2 DEF s
<1>8. (m \o s)[1] = Marker(size + 1)
  <2>1. 1 \in 1 .. Len(m) + Len(s) /\ 1 =< Len(m)
    BY <1>2, <1>3, <1>7
  <2> QED BY <1>3, <1>6, <2>1
<1>9. \A i \in 1 .. size : (m \o s)[i + 1] = s[i]
  <2> TAKE i \in 1 .. size
  <2>1. i + 1 \in 1 .. Len(m) + Len(s) /\ ~(i + 1 =< Len(m)) /\ i + 1 - Len(m) = i
    BY <1>2, <1>3, <1>7
  <2> QED BY <1>6, <2>1
<1>10. Len(m) + Len(s) = size + 1
  BY <1>2, <1>3, <1>7
<1> QED BY <1>2, <1>4, <1>5, <1>8, <1>9, <1>10 DEF S, s

LEMMA ContainsStep ==
  ASSUME ListInv, NEW v \in Values, v # Marker(size + 1), native_list_contains(v)
  PROVE  ListKept
<1>1. /\ list_answer' = <<"contains", v, \E i \in DOMAIN ll_to_iter : ll_to_iter[i] = v>>
      /\ UNCHANGED <<heap, head, tail, size, iter, list_refs>>
  BY DEF native_list_contains
<1>2. ListInv' /\ Items' = Items /\ Turn' = Turn
  BY <1>1, Tells
<1>3. /\ size \in Nat /\ Len(Items) = size /\ DOMAIN Items = 1 .. size
      /\ DOMAIN ll_to_iter = 1 .. size + 1
      /\ ll_to_iter[1] # v /\ \A i \in 1 .. size : ll_to_iter[i + 1] = Items[i]
  BY CopyItems
<1>4. (\E i \in DOMAIN ll_to_iter : ll_to_iter[i] = v)
        <=> v \in ToSet(Items)
  <2>1. ASSUME NEW i \in DOMAIN ll_to_iter, ll_to_iter[i] = v, i # 1
        PROVE  v \in ToSet(Items)
    <3> DEFINE j == i - 1
    <3>1. j \in 1 .. size /\ i = j + 1
      BY <1>3, <2>1
    <3> HIDE DEF j
    <3>2. Items[j] = v /\ j \in DOMAIN Items
      BY <1>3, <2>1, <3>1
    <3> QED BY <3>2 DEF ToSet
  <2>2. ASSUME NEW j \in DOMAIN Items, Items[j] = v
        PROVE  \E i \in DOMAIN ll_to_iter : ll_to_iter[i] = v
    <3>1. j + 1 \in DOMAIN ll_to_iter /\ ll_to_iter[j + 1] = v
      BY <1>3, <2>2
    <3> QED BY <3>1
  <2>3. 1 \in DOMAIN ll_to_iter
    BY <1>3
  <2> QED BY <1>3, <2>1, <2>2, <2>3 DEF ToSet
<1>5. list_answer' = <<"contains", v, v \in ToSet(Items)>>
  <2> DEFINE a == \E i \in DOMAIN ll_to_iter : ll_to_iter[i] = v
             b == v \in ToSet(Items)
  <2>1. a \in BOOLEAN /\ b \in BOOLEAN /\ (a <=> b)
    BY <1>4
  <2>2. list_answer' = <<"contains", v, a>>
    BY <1>1
  <2> HIDE DEF a, b
  <2>3. a = b
    BY <2>1
  <2>4. list_answer' = <<"contains", v, b>>
    BY <2>2, <2>3
  <2> QED BY <2>4 DEF b
<1>6. ListScript!Member(v)
  BY <1>2, <1>5 DEF ListScript!Member, ListScript!Tell, ListScript!ToSet, ToSet
<1> QED BY <1>2, <1>6 DEF ListKept, ListScript!Next

LEMMA IntervalSize ==
  ASSUME NEW a \in Int, NEW b \in Int, a =< b + 1
  PROVE  IsFiniteSet(a .. b) /\ Cardinality(a .. b) = b - a + 1
<1>1. IsFiniteSet(a .. b) /\ Cardinality(a .. b) = IF a > b THEN 0 ELSE b - a + 1
  BY FS_Interval
<1>2. (IF a > b THEN 0 ELSE b - a + 1) = b - a + 1
  OBVIOUS
<1> QED BY <1>1, <1>2

LEMMA SliceStep ==
  ASSUME ListInv, NEW start \in 0 .. size, NEW len \in -1 .. size + 1, ll_slice_ll(start, len)
  PROVE  ListKept
<1>1. /\ size \in Nat /\ Len(Items) = size /\ Items \in Seq(Values)
      /\ Len(ll_to_iter) = size + 1 /\ ll_to_iter \in Seq(Values \cup {Marker(size + 1)})
      /\ \A i \in 1 .. size : ll_to_iter[i + 1] = Items[i]
  BY CopyItems
<1> DEFINE end == IF len = -1 \/ len > size - start THEN size ELSE start + len
           n == end - start
           given == SliceGiven(start, len)
           freed == SliceFreed(start, len)
<1>2. end \in start .. size /\ n \in 0 .. size
  BY <1>1
<1>3. /\ given = start + 1 .. end
      /\ freed = 1 .. start \cup end + 1 .. size
  <2>1. given = start + 1 .. end
    BY <1>1 DEF SliceGiven
  <2>2. freed = 1 .. start \cup end + 1 .. size
    <3>1. CASE len = -1
      <4>1. end + 1 .. size = {}
        BY <1>1, <3>1
      <4> QED BY <3>1, <4>1 DEF SliceFreed
    <3>2. CASE len # -1
      <4>1. end + 1 .. size = start + 1 + len .. size
        BY <1>1, <3>2
      <4> HIDE DEF end
      <4> QED BY <3>2, <4>1 DEF SliceFreed
    <3> QED BY <3>1, <3>2
  <2> QED BY <2>1, <2>2
<1> HIDE DEF end
<1>4. given \cup freed = 1 .. size /\ given \cap freed = {}
  <2> HIDE DEF given, freed, n
  <2> QED BY <1>1, <1>2, <1>3
<1>5. Cardinality(given) = n
  <2>1. start + 1 \in Int /\ end \in Int /\ start + 1 =< end + 1 /\ end - (start + 1) + 1 = n
    BY <1>1, <1>2
  <2> HIDE DEF given, n
  <2> QED BY <1>3, <2>1, IntervalSize
<1>6. /\ list_answer' = <<"slice", start, len,
           [i \in 1 .. Cardinality(given) |-> ll_to_iter[start + 1 + i]]>>
      /\ list_refs' = [v \in Values |-> list_refs[v] + Cardinality({i \in 1 .. size : Items[i] = v})
                                          - Cardinality({i \in freed : Items[i] = v})
                                          - Cardinality({i \in given : Items[i] = v})]
      /\ UNCHANGED <<heap, head, tail, size, iter>>
  BY DEF ll_slice_ll
<1> HIDE DEF given, freed, n
<1>7. list_refs' = list_refs
  <2>1. ASSUME NEW v \in Values
        PROVE  list_refs[v] + Cardinality({i \in 1 .. size : Items[i] = v})
                            - Cardinality({i \in freed : Items[i] = v})
                            - Cardinality({i \in given : Items[i] = v}) = list_refs[v]
    <3> DEFINE A == {i \in 1 .. size : Items[i] = v}
               F == {i \in freed : Items[i] = v}
               G == {i \in given : Items[i] = v}
    <3>1. IsFiniteSet(A) /\ IsFiniteSet(F) /\ IsFiniteSet(G)
      <4>1. IsFiniteSet(1 .. size)
        BY <1>1, FS_Interval
      <4>2. A \in SUBSET (1 .. size) /\ F \in SUBSET (1 .. size) /\ G \in SUBSET (1 .. size)
        BY <1>4
      <4> QED BY <4>1, <4>2, FS_Subset
    <3>2. A = F \cup G /\ F \cap G = {}
      BY <1>4
    <3> HIDE DEF A, F, G
    <3>3. Cardinality(F \cup G) = Cardinality(F) + Cardinality(G) - Cardinality(F \cap G)
      BY <3>1, FS_Union
    <3>4. Cardinality(F) \in Nat /\ Cardinality(G) \in Nat /\ Cardinality(F \cap G) = 0
      BY <3>1, <3>2, FS_CardinalityType, FS_EmptySet
    <3>5. list_refs[v] \in Int
      BY DEF ListInv, RefsKept
    <3>6. list_refs[v] + Cardinality(A) - Cardinality(F) - Cardinality(G) = list_refs[v]
      BY <3>2, <3>3, <3>4, <3>5
    <3> QED BY <3>6 DEF A, F, G
  <2>2. list_refs \in [Values -> Int]
    BY DEF ListInv, RefsKept
  <2> QED BY <1>6, <2>1, <2>2
<1>8. ListInv' /\ Items' = Items /\ Turn' = Turn
  BY <1>6, <1>7, Tells
<1>9. [i \in 1 .. Cardinality(given) |-> ll_to_iter[start + 1 + i]] = SubSeq(Items, start + 1, end)
  <2> DEFINE w == [i \in 1 .. n |-> ll_to_iter[start + 1 + i]]
             u == SubSeq(Items, start + 1, end)
             a == start + 1
  <2>1. a \in 1 .. Len(Items) + 1 /\ end \in a - 1 .. Len(Items) /\ end - a + 1 = n /\ n \in Nat
    BY <1>1, <1>2 DEF n
  <2>2. /\ SubSeq(Items, a, end) \in Seq(Values) /\ Len(SubSeq(Items, a, end)) = n
        /\ \A i \in 1 .. n : SubSeq(Items, a, end)[i] = Items[a + i - 1]
    <3> HIDE DEF a
    <3> QED BY <1>1, <2>1, Part
  <2>3. ASSUME NEW i \in 1 .. n PROVE w[i] = Items[a + i - 1] /\ Items[a + i - 1] \in Values
    <3> DEFINE j == start + i
    <3>1. j \in 1 .. size /\ start + 1 + i = j + 1 /\ a + i - 1 = j
      BY <1>1, <1>2, <2>1 DEF n
    <3>2. w[i] = ll_to_iter[start + 1 + i]
      OBVIOUS
    <3> HIDE DEF w, a, j
    <3> QED BY <1>1, <3>1, <3>2
  <2>4. w \in Seq(Values) /\ Len(w) = n
    <3>1. w = [i \in 1 .. n |-> w[i]]
      OBVIOUS
    <3> HIDE DEF w
    <3>2. w \in [1 .. n -> Values]
      BY <2>3, <3>1
    <3> QED BY <2>1, <3>2
  <2> HIDE DEF w
  <2>5. w = SubSeq(Items, a, end)
    <3> HIDE DEF a
    <3> DEFINE x == SubSeq(Items, a, end)
    <3>1. \A i \in 1 .. n : w[i] = x[i]
      BY <2>2, <2>3
    <3>2. x \in Seq(Values) /\ Len(x) = n
      BY <2>2
    <3> HIDE DEF x
    <3>3. w = x
      BY <2>4, <3>1, <3>2, SeqEqual
    <3> QED BY <3>3 DEF x
  <2> QED BY <1>5, <2>5 DEF w
<1>10. ListScript!Slice(start, len)
  <2>1. list_answer' = <<"slice", start, len,
                         SubSeq(Items, start + 1, IF len = -1 \/ len > Len(Items) - start
                                                  THEN Len(Items) ELSE start + len)>>
    BY <1>1, <1>6, <1>9 DEF end
  <2> QED BY <1>8, <2>1 DEF ListScript!Slice, ListScript!Tell
<1>11. start \in 0 .. Len(Items) /\ len \in -1 .. Len(Items) + 1
  BY <1>1
<1> QED BY <1>8, <1>10, <1>11 DEF ListKept, ListScript!Next

LEMMA SetStep ==
  ASSUME ListInv, NEW p \in 0 .. size, NEW v \in Values, p < size \/ Lost(v) < MaxLost,
         set_list(p, v)
  PROVE  ListKept
<1>1. PICK c : Chained(c, heap, head, tail, size)
  BY DEF ListInv
<1> DEFINE k == p + 1
           n == c[k]
           w == heap[n].value
<1>2. /\ size \in Nat /\ Items \in Seq(Values) /\ Len(Items) = size
           /\ DOMAIN heap \in SUBSET Addresses
      /\ \A i \in 1 .. size : Items[i] = heap[c[i]].value
  BY <1>1, Read, Chain
<1>3. list_answer' = <<"set", p, v>> /\ UNCHANGED <<head, tail, size, iter>>
        /\ p \in 0 .. Len(Items)
  BY <1>2 DEF set_list
<1>4. list_refs \in [Values -> Int]
  BY DEF ListInv, RefsKept
<1>5. CASE p < size
  <2>1. k \in 1 .. size /\ p \in 0 .. size - 1
    BY <1>2, <1>5
  <2>2. NodeAt(p) = n
    BY <1>1, <2>1, Read
  <2>3. /\ heap' = [heap EXCEPT ![n].value = v]
        /\ list_refs' = [[list_refs EXCEPT ![v] = @ + 1] EXCEPT ![w] = @ - 1]
    BY <1>5, <2>2 DEF set_list
  <2>4. n \in DOMAIN heap /\ w \in Values
    <3> HIDE DEF k
    <3> QED BY <1>1, <2>1, Chain
  <2> HIDE DEF n, w, k
  <2>5. /\ DOMAIN heap' = DOMAIN heap /\ heap'[n].value = v /\ heap'[n].next = heap[n].next
        /\ \A x \in DOMAIN heap \ {n} : heap'[x] = heap[x]
    <3>1. heap' = [heap EXCEPT ![n] = [heap[n] EXCEPT !.value = v]]
      BY <2>3
    <3>2. heap[n] \in [value : Values, next : Addresses \cup {None}]
      <4>1. heap \in [DOMAIN heap -> [value : Values, next : Addresses \cup {None}]]
        BY <1>1 DEF Chained
      <4> QED BY <2>4, <4>1
    <3> QED BY <2>4, <3>1, <3>2
  <2>6. \A x \in DOMAIN heap : heap'[x].next = heap[x].next
    BY <2>5
  <2>7. Chained(c, heap', head', tail', size')
    <3>1. heap' \in [Range(c) -> [value : Values, next : Addresses \cup {None}]]
      <4>1. heap \in [Range(c) -> [value : Values, next : Addresses \cup {None}]]
        BY <1>1 DEF Chained
      <4>2. heap' = [heap EXCEPT ![n] = [heap[n] EXCEPT !.value = v]]
        BY <2>3
      <4> QED BY <2>4, <4>1, <4>2
    <3>2. \A i \in 1 .. size : heap'[c[i]].next = IF i = size THEN None ELSE c[i + 1]
      <4>1. \A i \in 1 .. size : c[i] \in DOMAIN heap
        BY <1>1, Chain
      <4>2. \A i \in 1 .. size : heap[c[i]].next = IF i = size THEN None ELSE c[i + 1]
        BY <1>1 DEF Chained
      <4> QED BY <2>6, <4>1, <4>2
    <3> QED BY <1>1, <1>3, <3>1, <3>2 DEF Chained
  <2>8. RefsKept'
    <3>1. list_refs' \in [Values -> Int]
      BY <1>4, <2>3, <2>4
    <3>2. ASSUME NEW u \in Values
          PROVE  list_refs'[u] - list_refs[u] = Cardinality(Having(heap', u))
                   - Cardinality(Having(heap, u))
      <4> DEFINE g == heap'
                 h == heap
      <4>1. DOMAIN g = DOMAIN h
        BY <2>5
      <4>2. \A x \in DOMAIN g \ {n} : g[x].value = h[x].value
        BY <2>5
      <4>3. DOMAIN h \in SUBSET Addresses /\ n \in DOMAIN h
        BY <1>2, <2>4
      <4>4. g[n].value = v /\ h[n].value = w
        BY <2>5 DEF w
      <4>5. /\ list_refs'[u] = list_refs[u] + (IF u = v THEN 1 ELSE 0) - (IF u = w THEN 1 ELSE 0)
            /\ list_refs[u] \in Int
        BY <1>4, <2>3, <2>4
      <4> HIDE DEF g, h
      <4>6. Cardinality(Having(g, u)) =
              Cardinality(Having(h, u)) + (IF u = g[n].value THEN 1 ELSE 0)
                - (IF u = h[n].value THEN 1 ELSE 0)
        BY <4>1, <4>2, <4>3, HavingOther
      <4>7. Cardinality(Having(h, u)) \in Int
        BY <4>3, HavingFew
      <4> QED BY <4>4, <4>5, <4>6, <4>7 DEF g, h
    <3>3. RefsKept
      BY DEF ListInv
    <3> QED BY <1>2, <2>5, <3>1, <3>2, <3>3, LostSame
  <2>9. ListInv'
    <3>1. iter' \in DOMAIN heap' \cup {None, Off}
      BY <1>3, <2>5 DEF ListInv
    <3> QED BY <2>7, <2>8, <3>1 DEF ListInv
  <2>10. Turn' = Turn
    <3>1. PICK t : TurnIs(c, iter, t)
      BY <1>1, TurnFound DEF ListInv
    <3>2. Turn = t
      BY <1>1, <3>1, TurnRead
    <3>3. Turn' = t
      BY <1>3, <2>7, <3>1, TurnNext
    <3> QED BY <3>2, <3>3
  <2>11. Items' = [Items EXCEPT ![p + 1] = v]
    <3>1. Items' = [i \in 1 .. size |-> heap'[c[i]].value]
      <4>1. Items' = ItemsOf(c, heap') /\ Len(c) = size
        BY <1>1, <2>7, ReadNext DEF Chained
      <4> QED BY <4>1 DEF ItemsOf
    <3>2. DOMAIN Items = 1 .. size /\ Items = [i \in 1 .. size |-> Items[i]]
      BY <1>2
    <3>3. ASSUME NEW i \in 1 .. size PROVE heap'[c[i]].value = IF i = k THEN v ELSE Items[i]
      <4>1. c[i] \in DOMAIN heap
        BY <1>1, Chain
      <4>2. c[i] = n <=> i = k
        <5>1. \A x, y \in 1 .. size : c[x] = c[y] => x = y
          BY <1>1 DEF Chained
        <5> QED BY <2>1, <5>1 DEF n
      <4> QED BY <1>2, <2>5, <4>1, <4>2
    <3>4. Items' = [Items EXCEPT ![k] = v]
      BY <3>1, <3>2, <3>3
    <3> QED BY <3>4 DEF k
  <2>12. ListScript!Set(p, v)
    <3>1. p \in 0 .. Len(Items) - 1
      BY <1>2, <2>1
    <3> QED BY <1>3, <2>10, <2>11, <3>1 DEF ListScript!Set, ListScript!Places
  <2> QED BY <1>3, <2>9, <2>10, <2>12 DEF ListKept, ListScript!Next
<1>6. CASE ~(p < size)
  <2>1. Retain(v) /\ UNCHANGED heap
    BY <1>6 DEF set_list
  <2>2. list_refs' = [list_refs EXCEPT ![v] = list_refs[v] + 1]
    BY <2>1 DEF Retain
  <2>3. RefsKept'
    <3>1. \A u \in Values : Lost(u)' = IF u = v THEN Lost(v) + 1 ELSE Lost(u)
      <4> TAKE u \in Values
      <4>1. list_refs'[u] = (IF u = v THEN list_refs[v] + 1 ELSE list_refs[u])
              /\ list_refs[v] \in Int
        BY <1>4, <2>2
      <4>2. /\ Lost(u)' = list_refs'[u] - Cardinality(Holders(u))
            /\ Lost(u) = list_refs[u] - Cardinality(Holders(u))
        BY <2>1 DEF Lost, Holders
      <4>3. Cardinality(Holders(v)) \in Nat /\ Lost(v) = list_refs[v] - Cardinality(Holders(v))
        BY <1>2, HavingFew DEF Having, Holders, Lost
      <4>4. CASE u = v
        BY <4>1, <4>2, <4>3, <4>4
      <4>5. CASE u # v
        BY <4>1, <4>2, <4>5
      <4> QED BY <4>4, <4>5
    <3>2. \A u \in Values : Lost(u) \in 0 .. MaxLost
      BY DEF ListInv, RefsKept
    <3>3. Lost(v) + 1 \in 0 .. MaxLost
      BY <1>6, <3>2, ListConstants
    <3>4. list_refs' \in [Values -> Int]
      BY <1>4, <2>2
    <3> QED BY <3>1, <3>2, <3>3, <3>4 DEF RefsKept
  <2>4. ListInv'
    BY <1>3, <2>1, <2>3 DEF ListInv
  <2>5. Items' = Items /\ Turn' = Turn
    BY <1>3, <2>1 DEF Items, Turn, NodeAt
  <2>6. ListScript!Set(p, v)
    <3>1. p \notin 0 .. Len(Items) - 1
      BY <1>2, <1>6
    <3> QED BY <1>3, <2>5, <3>1 DEF ListScript!Set, ListScript!Places
  <2> QED BY <1>3, <2>4, <2>5, <2>6 DEF ListKept, ListScript!Next
<1> QED BY <1>5, <1>6

\* The foreach takes the first item next, or has seen the end at once.
LEMMA BeginStep ==
  ASSUME ListInv, ll_iter_init
  PROVE  ListKept
<1>1. PICK c : Chained(c, heap, head, tail, size)
  BY DEF ListInv
<1>2. iter' = head /\ UNCHANGED <<heap, head, tail, size, list_refs, list_answer>>
  BY DEF ll_iter_init
<1>3. /\ size \in Nat /\ Items \in Seq(Values) /\ Len(Items) = size /\ Len(c) = size
      /\ head = IF size = 0 THEN None ELSE c[1]
  BY <1>1, Read DEF Chained
<1>4. head \in DOMAIN heap \cup {None}
  <2>1. \A i \in 1 .. size : c[i] \in DOMAIN heap
    BY <1>1, Chain
  <2> QED BY <1>3, <2>1
<1>5. ListInv'
  BY <1>2, <1>4 DEF ListInv, RefsKept, Lost, Holders
<1>6. Items' = Items
  BY <1>2 DEF Items, NodeAt
<1>7. Turn' = IF size = 0 THEN -1 ELSE 1
  <2>1. Chained(c, heap', head', tail', size')
    BY <1>1, <1>2
  <2>2. TurnIs(c, iter', IF size = 0 THEN -1 ELSE 1)
    BY <1>2, <1>3 DEF TurnIs
  <2> QED BY <2>1, <2>2, TurnNext
<1>8. Items = <<>> <=> size = 0
  BY <1>3
<1>9. ListScript!Begin
  BY <1>2, <1>6, <1>7, <1>8 DEF ListScript!Begin, ListScript!Over
<1> QED BY <1>5, <1>9 DEF ListKept, ListScript!Next

\* The foreach takes the item of its node, and goes on to the item behind it.
LEMMA NextStep ==
  ASSUME ListInv, ll_iter_next
  PROVE  ListKept
<1>1. PICK c : Chained(c, heap, head, tail, size)
  BY DEF ListInv
<1>2. /\ iter \in Addresses /\ list_answer' = <<"next", heap[iter].value>>
      /\ iter' = heap[iter].next /\ UNCHANGED <<heap, head, tail, size, list_refs>>
  BY DEF ll_iter_next
<1>3. /\ size \in Nat /\ Len(Items) = size /\ Len(c) = size
      /\ \A i \in 1 .. size : Items[i] = heap[c[i]].value
  BY <1>1, Read DEF Chained
<1>4. iter \in DOMAIN heap
  BY <1>2, ListConstants DEF ListInv
<1>5. DOMAIN heap = {c[i] : i \in 1 .. size}
  BY <1>1, Chain
<1>6. PICK t \in 1 .. size : iter = c[t]
  BY <1>4, <1>5
<1>7. Turn = t
  BY <1>1, <1>3, <1>6, TurnRead DEF TurnIs
<1>8. iter' = IF t = size THEN None ELSE c[t + 1]
  BY <1>1, <1>2, <1>6 DEF Chained
<1>9. t # size => t + 1 \in 1 .. size
  BY <1>3
<1>10. Chained(c, heap', head', tail', size')
  BY <1>1, <1>2
<1>11. TurnIs(c, iter', IF t = size THEN -1 ELSE t + 1)
  BY <1>3, <1>8, <1>9 DEF TurnIs
<1>12. Turn' = IF t = size THEN -1 ELSE t + 1
  BY <1>10, <1>11, TurnNext
<1>13. ListInv'
  <2>1. iter' \in DOMAIN heap \cup {None}
    BY <1>5, <1>8, <1>9
  <2> QED BY <1>2, <2>1 DEF ListInv, RefsKept, Lost, Holders
<1>14. Items' = Items
  BY <1>2 DEF Items, NodeAt
<1>15. ListScript!Step
  <2>1. Turn >= 1 /\ heap[iter].value = Items[Turn]
    BY <1>3, <1>6, <1>7
  <2> QED BY <1>2, <1>3, <1>7, <1>12, <1>14, <2>1 DEF ListScript!Step, ListScript!Over
<1> QED BY <1>13, <1>15 DEF ListKept, ListScript!Next

LEMMA EndStep ==
  ASSUME ListInv, ll_iter_cleanup
  PROVE  ListKept
<1>1. iter' = Off /\ UNCHANGED <<heap, head, tail, size, list_refs, list_answer>>
  BY DEF ll_iter_cleanup
<1>2. ListInv'
  BY <1>1 DEF ListInv, RefsKept, Lost, Holders
<1>3. Items' = Items /\ Turn' = 0
  BY <1>1 DEF Items, NodeAt, Turn
<1>4. ListScript!End
  BY <1>1, <1>3 DEF ListScript!End
<1> QED BY <1>2, <1>4 DEF ListKept, ListScript!Next

\* No nodes.
LEMMA Empty ==
  ASSUME NEW h, h = [x \in {} |-> None]
  PROVE  Chained(<<>>, h, None, None, 0) /\ \A v : Having(h, v) = {}
           /\ Cardinality(Having(h, v)) = 0
<1>1. <<>> \in Seq(Addresses) /\ Len(<<>>) = 0 /\ Range(<<>>) = {}
  BY DEF Range
<1>2. DOMAIN h = {} /\ h \in [{} -> [value : Values, next : Addresses \cup {None}]]
  OBVIOUS
<1>3. Chained(<<>>, h, None, None, 0)
  BY <1>1, <1>2 DEF Chained
<1>4. \A v : Having(h, v) = {}
  BY <1>2 DEF Having
<1> QED BY <1>3, <1>4, FS_EmptySet

LEMMA ClearStep ==
  ASSUME ListInv, list_free
  PROVE  ListKept
<1>1. /\ iter = Off /\ iter' = Off /\ list_answer' = <<"clear">>
      /\ heap' = [x \in {} |-> None] /\ head' = None /\ tail' = None /\ size' = 0
      /\ list_refs' = [v \in Values |-> list_refs[v] - Cardinality(Holders(v))]
  BY DEF list_free
<1> DEFINE h == heap'
<1>2. h = [x \in {} |-> None]
  BY <1>1
<1> HIDE DEF h
<1>3. Chained(<<>>, h, None, None, 0) /\ \A v : Having(h, v) = {} /\ Cardinality(Having(h, v)) = 0
  BY <1>2, Empty
<1>4. Chained(<<>>, heap', head', tail', size')
  BY <1>1, <1>3 DEF h
<1>5. DOMAIN heap \in SUBSET Addresses
  <2>1. PICK c : Chained(c, heap, head, tail, size)
    BY DEF ListInv
  <2> QED BY <2>1, Chain
<1>6. \A v \in Values : list_refs'[v] = Lost(v) /\ list_refs[v] \in Int /\ Lost(v) \in 0 .. MaxLost
  BY <1>1 DEF ListInv, RefsKept, Lost
<1>7. RefsKept'
  <2>1. \A v \in Values : Lost(v)' = list_refs'[v]
    <3> TAKE v \in Values
    <3>1. Cardinality(Having(heap', v)) = 0 /\ list_refs'[v] \in Int
      BY <1>3, <1>6, ListConstants DEF h
    <3> QED BY <3>1 DEF Lost, Holders, Having
  <2>2. list_refs' \in [Values -> Int]
    <3>1. list_refs' = [v \in Values |-> list_refs'[v]]
      BY <1>1
    <3>2. \A v \in Values : list_refs'[v] \in Int
      BY <1>6, ListConstants
    <3> QED BY <3>1, <3>2
  <2> QED BY <1>6, <2>1, <2>2 DEF RefsKept
<1>8. ListInv'
  BY <1>1, <1>4, <1>7 DEF ListInv
<1>9. Items' = <<>> /\ Turn' = 0 /\ Turn = 0
  <2>1. Items' = <<>>
    BY <1>1 DEF Items
  <2> QED BY <1>1, <2>1 DEF Turn
<1>10. ListScript!Clear
  BY <1>1, <1>9 DEF ListScript!Clear
<1> QED BY <1>8, <1>10 DEF ListKept, ListScript!Next

LEMMA TakeStep ==
  ASSUME ListInv, TakeList
  PROVE  ListKept
<1>1. list_answer' = <<>> /\ UNCHANGED <<heap, head, tail, size, iter, list_refs>>
  BY DEF TakeList
<1>2. ListInv' /\ Items' = Items /\ Turn' = Turn
  BY <1>1, Tells
<1>3. ListScript!Take
  BY <1>1, <1>2 DEF ListScript!Take
<1> QED BY <1>2, <1>3 DEF ListKept, ListScript!Next

LEMMA ListStep ==
  ASSUME ListInv, ListSlips = {}, [ListNext]_list_vars
  PROVE  ListKept
<1>1. ASSUME NEW v \in Values,
             \/ native_list_append(v) \/ native_list_index(v)
             \/ v # Marker(size + 1) /\ native_list_contains(v)
      PROVE  ListKept
  BY <1>1, AppendStep, IndexStep, ContainsStep
<1>2. ASSUME NEW p \in 0 .. size, NEW v \in Values,
             ll_insert(p, v) \/ ((p < size \/ Lost(v) < MaxLost) /\ set_list(p, v))
      PROVE  ListKept
  BY <1>2, InsertStep, SetStep
<1>3. ASSUME NEW p \in 0 .. size, ll_get(p)
      PROVE  ListKept
  BY <1>3, GetStep
<1>4. ASSUME NEW i \in -size - 1 .. size, size > 0, native_list_pop(i)
      PROVE  ListKept
  BY <1>4, PopStep
<1>5. ASSUME NEW start \in 0 .. size, NEW len \in -1 .. size + 1, ll_slice_ll(start, len)
      PROVE  ListKept
  BY <1>5, SliceStep
<1>6. CASE ll_iter_init \/ ll_iter_next \/ ll_iter_cleanup \/ list_free
  BY <1>6, BeginStep, NextStep, EndStep, ClearStep
<1>7. CASE TakeList
  BY <1>7, TakeStep
<1>8. CASE UNCHANGED list_vars
  <2>1. UNCHANGED <<heap, head, tail, size, iter, list_refs>> /\ UNCHANGED list_answer
    BY <1>8 DEF list_vars
  <2>2. ListInv' /\ Items' = Items /\ Turn' = Turn
    BY <2>1, Tells
  <2> QED BY <2>1, <2>2 DEF ListKept, ListScript!vars
<1> QED BY <1>1, <1>2, <1>3, <1>4, <1>5, <1>6, <1>7, <1>8 DEF ListNext, AskList

LEMMA ListBegins ==
  ASSUME ll_create
  PROVE  ListInv /\ ListScript!Init
<1>1. /\ heap = [x \in {} |-> None] /\ head = None /\ tail = None /\ size = 0
      /\ iter = Off /\ list_refs = [v \in Values |-> 0] /\ list_answer = <<>>
  BY DEF ll_create
<1>2. Chained(<<>>, heap, head, tail, size) /\ \A v : Cardinality(Having(heap, v)) = 0
  BY <1>1, Empty
<1>3. RefsKept
  BY <1>1, <1>2, ListConstants DEF RefsKept, Lost, Holders, Having
<1>4. Items = <<>> /\ Turn = 0
  BY <1>1 DEF Items, Turn
<1> QED BY <1>1, <1>2, <1>3, <1>4 DEF ListInv, ListScript!Init

LEMMA ListInvSound ==
  ASSUME ListInv
  PROVE  Sound
<1>1. PICK c : Chained(c, heap, head, tail, size)
  BY DEF ListInv
<1> DEFINE chain == [p \in 1 .. size |-> NodeAt(p - 1)]
<1>2. /\ size \in Nat /\ NodeAt(size) = None /\ \A p \in 1 .. size : NodeAt(p - 1) = c[p]
      /\ \A p \in 0 .. size - 1 : NodeAt(p) = c[p + 1]
  <2>1. size \in Nat /\ NodeAt(size) = None /\ \A p \in 0 .. size - 1 : NodeAt(p) = c[p + 1]
    BY <1>1, Read
  <2> QED BY <2>1
<1>3. \A i, j \in 1 .. size : c[i] = c[j] => i = j
  BY <1>1 DEF Chained
<1>4. DOMAIN heap = {c[i] : i \in 1 .. size}
  BY <1>1, Chain
<1>5. IsInjective(chain) /\ ToSet(chain) = DOMAIN heap
  BY <1>2, <1>3, <1>4 DEF IsInjective, ToSet
<1>6. tail = IF size = 0 THEN None ELSE NodeAt(size - 1)
  <2>1. tail = IF size = 0 THEN None ELSE c[size]
    BY <1>1 DEF Chained
  <2>2. size # 0 => NodeAt(size - 1) = c[size]
    BY <1>2
  <2> QED BY <2>1, <2>2
<1> QED BY <1>2, <1>5, <1>6 DEF Sound, ListInv, RefsKept

\* Whatever a script does with a list, its links lead through every node once, to tail;
\* its size counts them, the foreach stands on one of them, and no node holds a reference
\* that it has not got (ml_ll.c) - as long as no script does what ListSlips names.
THEOREM ListIsSound == ASSUME ListSlips = {} PROVE ListSpec => []Sound
<1>1. ll_create => ListInv
  BY ListBegins
<1>2. ListInv /\ [ListNext]_list_vars => ListInv'
  BY ListStep DEF ListKept
<1>3. ListInv => Sound
  BY ListInvSound
<1> QED BY <1>1, <1>2, <1>3, PTL DEF ListSpec

\* To a script the list is a sequence: no operation loses, repeats or swaps an item, and a
\* foreach meets each item that is still there when its turn comes (ml_ll.c) - as long as
\* no script pops the item that its foreach takes next, pops from an empty list, or asks
\* whether the number of items plus one is in the list (ListSlips), and none takes a slice that
\* begins behind the end or is of a negative length other than -1 (AskList).
THEOREM ListImplementsItems == ASSUME ListSlips = {} PROVE ListSpec => ImplementsItemList
<1>1. ll_create => ListInv /\ ListScript!Init
  BY ListBegins
<1>2. ListInv /\ [ListNext]_list_vars => ListInv' /\ [ListScript!Next]_ListScript!vars
  BY ListStep DEF ListKept
<1> QED BY <1>1, <1>2, PTL DEF ListSpec, ImplementsItemList, ListScript!Spec

-----------------------------------------------------------------------------
(* Counting the places of a sequence.                                       *)

LEMMA AmongOf ==
  ASSUME NEW S, NEW s \in Seq(S), NEW T
  PROVE  /\ IsList(s) /\ Among(s, T) \in Nat /\ IsFiniteSet(Marks(s, T))
         /\ Among(s, T) > 0 <=> \E i \in DOMAIN s : s[i] \in T
<1>1. IsList(s) /\ Among(s, T) \in Nat /\ IsFiniteSet(Marks(s, T))
  BY IsListOver, AmongFinite
<1>2. Among(s, T) = 0 <=> Marks(s, T) = {}
  BY <1>1, FS_EmptySet DEF Among
<1>3. Marks(s, T) = {} <=> ~ \E i \in DOMAIN s : s[i] \in T
  BY DEF Marks
<1> QED BY <1>1, <1>2, <1>3

LEMMA AmongMore ==
  ASSUME NEW S, NEW s \in Seq(S), NEW T, NEW U, T \subseteq U
  PROVE  Among(s, T) =< Among(s, U)
<1>1. Marks(s, T) \subseteq Marks(s, U) /\ IsFiniteSet(Marks(s, U))
  BY AmongOf DEF Marks
<1> QED BY <1>1, FS_Subset DEF Among

LEMMA AmongOnce ==
  ASSUME NEW S, NEW s \in Seq(S), NEW T, Among(s, T) =< 1, NEW i \in DOMAIN s, NEW j \in DOMAIN s,
         s[i] \in T, s[j] \in T
  PROVE  i = j
<1>1. IsFiniteSet(Marks(s, T)) /\ i \in Marks(s, T) /\ j \in Marks(s, T)
  BY AmongOf DEF Marks
<1>2. IsFiniteSet({i, j}) /\ Cardinality({i, j}) =< Cardinality(Marks(s, T))
  <2>1. {i, j} \subseteq Marks(s, T)
    BY <1>1
  <2> QED BY <1>1, <2>1, FS_Subset
<1>3. SUFFICES ASSUME i # j PROVE FALSE
  OBVIOUS
<1> DEFINE both == {i} \cup {j}
<1>4. Cardinality(both) = Cardinality({i}) + 1 /\ Cardinality({i}) = 1
  BY <1>3, FS_Singleton, FS_AddElement
<1>5. both = {i, j}
  OBVIOUS
<1> HIDE DEF both
<1>6. Cardinality(both) = 2
  BY <1>4
<1>7. Cardinality(Marks(s, T)) =< 1 /\ Cardinality(both) =< Cardinality(Marks(s, T))
  BY <1>2, <1>5 DEF Among
<1>8. Cardinality(Marks(s, T)) \in Nat
  BY <1>1, FS_CardinalityType
<1> QED BY <1>6, <1>7, <1>8

LEMMA AmongPut ==
  ASSUME NEW S, NEW s \in Seq(S), NEW k \in DOMAIN s, NEW y \in S, NEW T
  PROVE  /\ [s EXCEPT ![k] = y] \in Seq(S)
         /\ Among([s EXCEPT ![k] = y], T)
              = Among(s, T) - (IF s[k] \in T THEN 1 ELSE 0) + (IF y \in T THEN 1 ELSE 0)
<1> DEFINE u == [s EXCEPT ![k] = y]
           rest == Marks(s, T) \ {k}
<1>1. u \in Seq(S) /\ DOMAIN u = DOMAIN s /\ u[k] = y /\ \A i \in DOMAIN s \ {k} : u[i] = s[i]
  OBVIOUS
<1> HIDE DEF u
<1>2. Marks(s, T) = (IF s[k] \in T THEN rest \cup {k} ELSE rest)
  BY DEF Marks
<1>3. Marks(u, T) = (IF y \in T THEN rest \cup {k} ELSE rest)
  BY <1>1 DEF Marks
<1>4. IsFiniteSet(rest) /\ Cardinality(rest) \in Nat /\ k \notin rest
  <2>1. IsFiniteSet(Marks(s, T)) /\ rest \subseteq Marks(s, T)
    BY AmongOf
  <2> QED BY <2>1, FS_Subset, FS_CardinalityType
<1> HIDE DEF rest
<1>5. Cardinality(rest \cup {k}) = Cardinality(rest) + 1
  BY <1>4, FS_AddElement
<1>6. Among(s, T) = Cardinality(rest) + (IF s[k] \in T THEN 1 ELSE 0)
  BY <1>2, <1>4, <1>5 DEF Among
<1>7. Among(u, T) = Cardinality(rest) + (IF y \in T THEN 1 ELSE 0)
  BY <1>3, <1>4, <1>5 DEF Among
<1> QED BY <1>1, <1>4, <1>6, <1>7 DEF u

\* The places up to n.
Upto(s, n, T) == Cardinality({i \in 1 .. n : s[i] \in T})

LEMMA UptoAll ==
  ASSUME NEW S, NEW s \in Seq(S), NEW T
  PROVE  /\ Upto(s, 0, T) = 0 /\ Upto(s, Len(s), T) = Among(s, T)
         /\ \A n \in 1 .. Len(s) :
              /\ Upto(s, n, T) = Upto(s, n - 1, T) + (IF s[n] \in T THEN 1 ELSE 0)
              /\ Upto(s, n - 1, T) \in Nat
<1>1. Upto(s, 0, T) = 0
  <2>1. {i \in 1 .. 0 : s[i] \in T} = {}
    OBVIOUS
  <2> QED BY <2>1, FS_EmptySet DEF Upto
<1>2. Upto(s, Len(s), T) = Among(s, T)
  <2>1. DOMAIN s = 1 .. Len(s)
    OBVIOUS
  <2> QED BY <2>1 DEF Upto, Among, Marks
<1>3. ASSUME NEW n \in 1 .. Len(s)
      PROVE  /\ Upto(s, n, T) = Upto(s, n - 1, T) + (IF s[n] \in T THEN 1 ELSE 0)
             /\ Upto(s, n - 1, T) \in Nat
  <2> DEFINE A == {i \in 1 .. n - 1 : s[i] \in T}
             B == {i \in 1 .. n : s[i] \in T}
  <2>1. B = (IF s[n] \in T THEN A \cup {n} ELSE A) /\ n \notin A
    OBVIOUS
  <2>2. IsFiniteSet(A) /\ Cardinality(A) \in Nat
    <3>1. IsFiniteSet(1 .. n - 1)
      BY FS_Interval
    <3>2. A \subseteq 1 .. n - 1
      OBVIOUS
    <3> QED BY <3>1, <3>2, FS_Subset, FS_CardinalityType
  <2>3. Upto(s, n, T) = Cardinality(B) /\ Upto(s, n - 1, T) = Cardinality(A)
    BY DEF Upto
  <2> HIDE DEF A, B
  <2>4. Cardinality(A \cup {n}) = Cardinality(A) + 1
    BY <2>1, <2>2, FS_AddElement
  <2> QED BY <2>1, <2>2, <2>3, <2>4
<1> QED BY <1>1, <1>2, <1>3

-----------------------------------------------------------------------------
(* The walk over the buckets.                                               *)

Flat(b, c) == FlattenSeq([i \in 1 .. c |-> b[i - 1]])

\* f[n] is the walk over the first n of the c buckets b.
Walks(f, b, c, S) ==
  /\ f \in [1 .. c -> Seq(S)] /\ f[1] = b[0]
  /\ \A n \in 2 .. c : f[n] = f[n - 1] \o b[n - 1]

LEMMA FlatWalks ==
  ASSUME NEW S, NEW c \in Nat \ {0}, NEW b \in [Buckets(c) -> Seq(S)]
  PROVE  \E f : Walks(f, b, c, S) /\ Flat(b, c) = f[c]
<1> DEFINE seqs == [i \in 1 .. c |-> b[i - 1]]
           Rec(h) == h = [i \in 1 .. c |-> IF i = 1 THEN seqs[i] ELSE h[i - 1] \o seqs[i]]
           F == [n \in 1 .. c - 1 |-> [y \in Seq(S) |-> y \o b[n]]]
           RecL(h) == h = [i \in 1 .. Len(seqs) |->
                             IF i = 1 THEN seqs[i] ELSE h[i - 1] \o seqs[i]]
           node == CHOOSE h : RecL(h)
<1>1. /\ \A n \in 0 .. c - 1 : b[n] \in Seq(S)
      /\ c - 1 \in Nat /\ c \in Nat /\ c >= 1
  BY DEF Buckets
<1>2. F \in [1 .. c - 1 -> [Seq(S) -> Seq(S)]]
  <2>1. ASSUME NEW n \in 1 .. c - 1, NEW y \in Seq(S) PROVE y \o b[n] \in Seq(S)
    <3>1. b[n] \in Seq(S)
      BY <1>1
    <3> QED BY <3>1
  <2> QED BY <2>1
<1>3. PICK g \in [0 .. c - 1 -> Seq(S)] : g[0] = b[0] /\ \A n \in 1 .. c - 1 : g[n] = F[n][g[n - 1]]
  <2> DEFINE N == c - 1
             X == Seq(S)
             x == b[0]
  <2>1. x \in X /\ N \in Nat /\ F \in [1 .. N -> [X -> X]]
    BY <1>1, <1>2
  <2> HIDE DEF F, N, X, x
  <2>2. \E h : Loop(h, X, N, x, F)
    BY <2>1, Loops
  <2> QED BY <2>2 DEF Loop, N, X, x
<1>4. \A n \in 1 .. c - 1 : g[n] = g[n - 1] \o b[n]
  <2> TAKE n \in 1 .. c - 1
  <2>1. n - 1 \in 0 .. c - 1
    BY <1>1
  <2>2. g[n - 1] \in Seq(S)
    BY <2>1
  <2>3. F[n][g[n - 1]] = g[n - 1] \o b[n]
    BY <2>2
  <2> QED BY <1>3, <2>3
<1> DEFINE f == [n \in 1 .. c |-> g[n - 1]]
<1>5. /\ f \in [1 .. c -> Seq(S)] /\ f[1] = b[0]
      /\ \A n \in 2 .. c : f[n] = f[n - 1] \o b[n - 1]
  <2>1. f \in [1 .. c -> Seq(S)]
    BY <1>1
  <2>2. f[1] = b[0]
    BY <1>1, <1>3
  <2>3. ASSUME NEW n \in 2 .. c PROVE f[n] = f[n - 1] \o b[n - 1]
    <3> DEFINE m == n - 1
    <3>1. m \in 1 .. c - 1 /\ n \in 1 .. c /\ m \in 1 .. c
      BY <1>1
    <3>2. f[n] = g[m] /\ f[m] = g[m - 1]
      BY <3>1
    <3> HIDE DEF f, m
    <3>3. g[m] = g[m - 1] \o b[m]
      BY <1>4, <3>1
    <3>4. f[n] = f[m] \o b[m]
      BY <3>2, <3>3
    <3> QED BY <3>4 DEF m
  <2> HIDE DEF f
  <2> QED BY <2>1, <2>2, <2>3
<1>6. \A i \in 1 .. c : seqs[i] = b[i - 1]
  OBVIOUS
<1>13. Len(seqs) = c
  BY <1>1
<1> HIDE DEF seqs
<1>7. Rec(f)
  <2>1. ASSUME NEW i \in 1 .. c PROVE f[i] = IF i = 1 THEN seqs[i] ELSE f[i - 1] \o seqs[i]
    <3>1. CASE i = 1
      <4> HIDE DEF f
      <4> QED BY <1>5, <1>6, <3>1
    <3>2. CASE i # 1
      <4>1. i \in 2 .. c
        BY <1>1, <3>2
      <4> HIDE DEF f
      <4> QED BY <1>5, <1>6, <3>2, <4>1
    <3> QED BY <3>1, <3>2
  <2>2. f = [i \in 1 .. c |-> f[i]]
    OBVIOUS
  <2> HIDE DEF f
  <2> QED BY <2>1, <2>2
<1> HIDE DEF f
<1>8. Rec(node)
  <2>1. RecL(f)
    BY <1>7, <1>13
  <2>2. RecL(node)
    <3> HIDE DEF RecL
    <3> QED BY <2>1
  <2> HIDE DEF node
  <2> QED BY <1>13, <2>2
<1> HIDE DEF node
<1>12. \A i \in 1 .. c : node[i] = IF i = 1 THEN seqs[i] ELSE node[i - 1] \o seqs[i]
  <2> DEFINE r(i) == IF i = 1 THEN seqs[i] ELSE node[i - 1] \o seqs[i]
  <2>1. node = [i \in 1 .. c |-> r(i)]
    BY <1>8
  <2> HIDE DEF r
  <2>2. \A i \in 1 .. c : node[i] = r(i)
    BY <2>1
  <2> QED BY <2>2 DEF r
<1> HIDE DEF Rec
<1>9. ASSUME NEW n \in 1 .. c PROVE node[n] = f[n]
  <2> DEFINE Bad == {q \in 1 .. c : node[q] # f[q]}
  <2>1. SUFFICES ASSUME Bad # {} PROVE FALSE
    OBVIOUS
  <2>2. Bad \in SUBSET Nat
    BY <1>1
  <2> DEFINE q == Min(Bad)
  <2>3. q \in Bad /\ \A y \in Bad : q =< y
    BY <2>1, <2>2, MinIsIn
  <2> HIDE DEF q
  <2>4. q \in 1 .. c /\ node[q] # f[q]
    BY <2>3
  <2>5. q # 1
    BY <1>1, <1>5, <1>6, <1>12, <2>4
  <2>6. q \in 2 .. c /\ q - 1 \in 1 .. c /\ q - 1 < q
    BY <1>1, <2>4, <2>5
  <2>7. node[q - 1] = f[q - 1]
    <3>1. q - 1 \notin Bad
      <4> HIDE DEF Bad
      <4> QED BY <1>1, <2>3, <2>4, <2>6
    <3> QED BY <2>6, <3>1
  <2>8. node[q] = node[q - 1] \o seqs[q]
    BY <1>12, <2>4, <2>5
  <2> QED BY <1>5, <1>6, <2>4, <2>6, <2>7, <2>8
<1>10. Flat(b, c) = node[c]
  <2>2. Flat(b, c) = FlattenSeq(seqs)
    BY DEF Flat, seqs
  <2>3. FlattenSeq(seqs) = node[c]
    BY <1>1, <1>13 DEF FlattenSeq, node
  <2> QED BY <2>2, <2>3
<1>11. c \in 1 .. c
  BY <1>1
<1> QED BY <1>5, <1>9, <1>10, <1>11 DEF Walks

\* Each step of the walk f adds what the next bucket of b has of T.
Counted(f, b, c, T) ==
  /\ Among(f[1], T) = Among(b[0], T) /\ Among(b[0], T) \in Nat
  /\ \A n \in 1 .. c : Among(f[n], T) \in Nat
  /\ \A n \in 2 .. c : /\ Among(f[n], T) = Among(f[n - 1], T) + Among(b[n - 1], T)
                       /\ Among(b[n - 1], T) \in Nat /\ Among(f[n - 1], T) \in Nat

LEMMA WalkCounts ==
  ASSUME NEW S, NEW c \in Nat \ {0}, NEW b \in [Buckets(c) -> Seq(S)], NEW f,
         Walks(f, b, c, S), NEW T
  PROVE  Counted(f, b, c, T)
<1>1. \A n \in 0 .. c - 1 : b[n] \in Seq(S) /\ Among(b[n], T) \in Nat /\ IsList(b[n])
  BY AmongOf DEF Buckets
<1>2. \A n \in 1 .. c : f[n] \in Seq(S) /\ Among(f[n], T) \in Nat /\ IsList(f[n])
  BY AmongOf DEF Walks
<1>3. ASSUME NEW n \in 2 .. c
      PROVE  /\ Among(f[n], T) = Among(f[n - 1], T) + Among(b[n - 1], T)
             /\ Among(b[n - 1], T) \in Nat /\ Among(f[n - 1], T) \in Nat
  <2>1. n - 1 \in 0 .. c - 1 /\ n - 1 \in 1 .. c
    OBVIOUS
  <2>2. f[n] = f[n - 1] \o b[n - 1]
    BY DEF Walks
  <2> DEFINE u == f[n - 1]
             w == b[n - 1]
  <2>3. IsList(u) /\ IsList(w) /\ Among(u, T) \in Nat /\ Among(w, T) \in Nat
    BY <1>1, <1>2, <2>1
  <2> HIDE DEF u, w
  <2>4. Among(u \o w, T) = Among(u, T) + Among(w, T)
    BY <2>3, AmongCat
  <2> QED BY <2>2, <2>3, <2>4 DEF u, w
<1>4. 0 \in 0 .. c - 1
  OBVIOUS
<1> QED BY <1>1, <1>2, <1>3, <1>4 DEF Walks, Counted

LEMMA FlatIs ==
  ASSUME NEW S, NEW c \in Nat \ {0}, NEW b \in [Buckets(c) -> Seq(S)]
  PROVE  Flat(b, c) \in Seq(S)
<1>1. PICK f : Walks(f, b, c, S) /\ Flat(b, c) = f[c]
  BY FlatWalks
<1>2. c \in 1 .. c
  OBVIOUS
<1> QED BY <1>1, <1>2 DEF Walks

\* d is b with x as its i-th bucket.
Alters(d, b, i, x) == d = [b EXCEPT ![i] = x]

LEMMA FlatChange ==
  ASSUME NEW S, NEW c \in Nat \ {0}, NEW b \in [Buckets(c) -> Seq(S)],
         NEW i \in Buckets(c), NEW x \in Seq(S), NEW d, Alters(d, b, i, x), NEW T
  PROVE  /\ d \in [Buckets(c) -> Seq(S)]
         /\ Among(Flat(d, c), T) = Among(Flat(b, c), T) - Among(b[i], T) + Among(x, T)
<1> DEFINE more == Among(x, T) - Among(b[i], T)
<1>1. d \in [Buckets(c) -> Seq(S)] /\ d[i] = x /\ \A j \in Buckets(c) \ {i} : d[j] = b[j]
  BY DEF Alters
<1>2. more \in Int /\ Among(b[i], T) \in Int /\ Among(x, T) \in Int
  <2>1. b[i] \in Seq(S)
    OBVIOUS
  <2>2. Among(b[i], T) \in Nat /\ Among(x, T) \in Nat
    BY <2>1, AmongOf
  <2> QED BY <2>2
<1>3. PICK f : Walks(f, b, c, S) /\ Flat(b, c) = f[c]
  BY FlatWalks
<1>4. PICK g : Walks(g, d, c, S) /\ Flat(d, c) = g[c]
  BY <1>1, FlatWalks
<1> DEFINE A(n) == Among(f[n], T)
           B(n) == Among(g[n], T)
           p(n) == Among(b[n], T)
           q(n) == Among(d[n], T)
           Bad == {n \in 1 .. c : B(n) # A(n) + (IF i < n THEN more ELSE 0)}
<1>5. /\ A(1) = p(0) /\ p(0) \in Nat /\ \A n \in 1 .. c : A(n) \in Nat
      /\ \A n \in 2 .. c : A(n) = A(n - 1) + p(n - 1) /\ p(n - 1) \in Nat /\ A(n - 1) \in Nat
  <2>1. Counted(f, b, c, T)
    BY <1>3, WalkCounts
  <2> QED BY <2>1 DEF Counted
<1>6. /\ B(1) = q(0) /\ q(0) \in Nat /\ \A n \in 1 .. c : B(n) \in Nat
      /\ \A n \in 2 .. c : B(n) = B(n - 1) + q(n - 1) /\ q(n - 1) \in Nat /\ B(n - 1) \in Nat
  <2>1. Counted(g, d, c, T)
    BY <1>1, <1>4, WalkCounts
  <2> QED BY <2>1 DEF Counted
<1>7. \A n \in 0 .. c - 1 : q(n) = IF n = i THEN p(n) + more ELSE p(n)
  <2> TAKE n \in 0 .. c - 1
  <2>1. n \in Buckets(c)
    BY DEF Buckets
  <2>2. CASE n = i
    BY <1>1, <1>2, <2>2
  <2>3. CASE n # i
    BY <1>1, <2>1, <2>3
  <2> QED BY <2>2, <2>3
<1>8. i \in 0 .. c - 1
  BY DEF Buckets
<1> HIDE DEF A, B, p, q, more
<1>9. Bad = {}
  <2>1. SUFFICES ASSUME Bad # {} PROVE FALSE
    OBVIOUS
  <2>2. Bad \in SUBSET Nat
    OBVIOUS
  <2> DEFINE m == Min(Bad)
  <2>3. m \in Bad /\ \A y \in Bad : m =< y
    BY <2>1, <2>2, MinIsIn
  <2> HIDE DEF m
  <2>4. m \in 1 .. c /\ B(m) # A(m) + (IF i < m THEN more ELSE 0)
    BY <2>3
  <2>5. m # 1
    <3>1. 0 \in 0 .. c - 1 /\ (i < 1 <=> i = 0)
      BY <1>8
    <3>2. B(1) = A(1) + (IF i < 1 THEN more ELSE 0)
      BY <1>2, <1>5, <1>6, <1>7, <3>1
    <3> QED BY <2>4, <3>2
  <2>6. m \in 2 .. c /\ m - 1 \in 1 .. c /\ m - 1 < m /\ m - 1 \in 0 .. c - 1
    BY <2>4, <2>5
  <2>7. B(m - 1) = A(m - 1) + (IF i < m - 1 THEN more ELSE 0)
    <3>1. m - 1 \notin Bad
      <4> HIDE DEF Bad
      <4> QED BY <2>3, <2>4, <2>6
    <3> QED BY <2>6, <3>1
  <2>8. /\ A(m) = A(m - 1) + p(m - 1) /\ B(m) = B(m - 1) + q(m - 1)
        /\ p(m - 1) \in Nat /\ A(m - 1) \in Nat
    BY <1>5, <1>6, <2>6
  <2>9. q(m - 1) = IF m - 1 = i THEN p(m - 1) + more ELSE p(m - 1)
    BY <1>7, <2>6
  <2>10. (i < m <=> i < m - 1 \/ i = m - 1) /\ ~(i < m - 1 /\ i = m - 1)
    BY <1>8, <2>6
  <2> HIDE DEF Bad
  <2> QED BY <1>2, <2>4, <2>7, <2>8, <2>9, <2>10
<1>10. c \in 1 .. c /\ i < c
  BY <1>8
<1>11. B(c) = A(c) + more
  BY <1>9, <1>10
<1>12. A(c) \in Nat
  BY <1>5, <1>10
<1> QED BY <1>1, <1>2, <1>3, <1>4, <1>11, <1>12 DEF A, B, more

LEMMA FlatCounts ==
  ASSUME NEW S, NEW c \in Nat \ {0}, NEW b \in [Buckets(c) -> Seq(S)], NEW T
  PROVE  /\ \A i \in Buckets(c) : Among(b[i], T) =< Among(Flat(b, c), T)
         /\ (\A i \in Buckets(c) : Among(b[i], T) = 0) => Among(Flat(b, c), T) = 0
<1>1. PICK f : Walks(f, b, c, S) /\ Flat(b, c) = f[c]
  BY FlatWalks
<1> DEFINE A(n) == Among(f[n], T)
           p(n) == Among(b[n], T)
           Ok(n) == /\ \A i \in 0 .. n - 1 : p(i) =< A(n)
                    /\ (\A i \in Buckets(c) : p(i) = 0) => A(n) = 0
           Bad == {n \in 1 .. c : ~Ok(n)}
<1>2. /\ A(1) = p(0) /\ p(0) \in Nat /\ \A n \in 1 .. c : A(n) \in Nat
      /\ \A n \in 2 .. c : A(n) = A(n - 1) + p(n - 1) /\ p(n - 1) \in Nat /\ A(n - 1) \in Nat
  <2>1. Counted(f, b, c, T)
    BY <1>1, WalkCounts
  <2> QED BY <2>1 DEF Counted
<1>3. \A i \in 0 .. c - 1 : i \in Buckets(c) /\ p(i) \in Nat
  <2> TAKE i \in 0 .. c - 1
  <2>1. i \in Buckets(c) /\ b[i] \in Seq(S)
    BY DEF Buckets
  <2> QED BY <2>1, AmongOf
<1> HIDE DEF A, p
<1>4. Bad = {}
  <2>1. SUFFICES ASSUME Bad # {} PROVE FALSE
    OBVIOUS
  <2>2. Bad \in SUBSET Nat
    OBVIOUS
  <2> DEFINE m == Min(Bad)
  <2>3. m \in Bad /\ \A y \in Bad : m =< y
    BY <2>1, <2>2, MinIsIn
  <2> HIDE DEF m
  <2>4. m \in 1 .. c /\ ~Ok(m)
    <3> HIDE DEF Ok
    <3> QED BY <2>3
  <2>5. m # 1
    <3>1. 0 \in 0 .. c - 1 /\ \A i \in 0 .. 1 - 1 : i = 0
      OBVIOUS
    <3>2. (\A i \in 0 .. 1 - 1 : p(i) =< A(1)) /\ ((\A i \in Buckets(c) : p(i) = 0) => A(1) = 0)
      BY <1>2, <1>3, <3>1
    <3> HIDE DEF Bad
    <3> QED BY <2>4, <3>2
  <2>6. m \in 2 .. c /\ m - 1 \in 1 .. c /\ m - 1 < m /\ m - 1 \in 0 .. c - 1
    BY <2>4, <2>5
  <2> DEFINE k == m - 1
  <2>7. (\A i \in 0 .. k - 1 : p(i) =< A(k)) /\ ((\A i \in Buckets(c) : p(i) = 0) => A(k) = 0)
    <3>1. k \notin Bad
      <4> HIDE DEF Bad
      <4> QED BY <2>3, <2>4, <2>6
    <3>2. Ok(k)
      <4> HIDE DEF Ok
      <4> QED BY <2>6, <3>1
    <3> QED BY <3>2
  <2>8. A(m) = A(k) + p(k) /\ p(k) \in Nat /\ A(k) \in Nat /\ k \in Buckets(c)
    BY <1>2, <1>3, <2>6
  <2>9. \A i \in 0 .. m - 1 : p(i) =< A(m)
    <3> TAKE i \in 0 .. m - 1
    <3>1. p(i) \in Nat
      BY <1>3, <2>6
    <3>2. CASE i = k
      BY <2>8, <3>2
    <3>3. CASE i # k
      <4>1. i \in 0 .. k - 1
        BY <2>6, <3>3
      <4>2. p(i) =< A(k)
        BY <2>7, <4>1
      <4> HIDE DEF k
      <4> QED BY <2>8, <3>1, <4>2
    <3> QED BY <3>2, <3>3
  <2>10. (\A i \in Buckets(c) : p(i) = 0) => A(m) = 0
    <3> HIDE DEF k
    <3> QED BY <2>7, <2>8
  <2> HIDE DEF Bad
  <2> QED BY <2>4, <2>9, <2>10
<1>5. c \in 1 .. c /\ Buckets(c) = 0 .. c - 1
  BY DEF Buckets
<1>6. (\A i \in 0 .. c - 1 : p(i) =< A(c)) /\ ((\A i \in Buckets(c) : p(i) = 0) => A(c) = 0)
  <2>1. Ok(c)
    <3> HIDE DEF Ok
    <3> QED BY <1>4, <1>5
  <2> QED BY <2>1
<1> QED BY <1>1, <1>5, <1>6 DEF A, p

-----------------------------------------------------------------------------
(* Dicts that keep every entry where a search for its key looks.            *)

Entry == [key : DictKeys, value : Values]
Keyed(k) == {e \in Entry : e.key = k}
Valued(v) == {e \in Entry : e.value = v}
Stored(d, T) == Among(Entries(d), T)

Shaped(d) ==
  /\ d = [buckets |-> d.buckets, capacity |-> d.capacity, size |-> d.size]
  /\ d.capacity \in Nat \ {0}
  /\ d.buckets \in [Buckets(d.capacity) -> Seq(Entry)]

WellPlaced(b, c) ==
  \A i \in Buckets(c) : \A j \in DOMAIN b[i] : hash_string(HASH_SEED, b[i][j].key) % c = i

DictKept(d) ==
  /\ HASH_SEED \in Seeds
  /\ Shaped(d) /\ WellPlaced(d.buckets, d.capacity)
  /\ d.size = Stored(d, Entry)
  /\ \A k \in DictKeys : Stored(d, Keyed(k)) =< 1

LEMMA PlaceIn ==
  ASSUME HASH_SEED \in Seeds, NEW c \in Nat \ {0}, NEW k \in DictKeys
  PROVE  hash_string(HASH_SEED, k) % c \in Buckets(c)
<1>1. hash_string(HASH_SEED, k) \in Nat
  BY DictConstants
<1> DEFINE h == hash_string(HASH_SEED, k)
<1> HIDE DEF h
<1>2. h \in Nat => h % c \in 0 .. c - 1
  OBVIOUS
<1> QED BY <1>1, <1>2 DEF Buckets, h

LEMMA EntriesAre ==
  ASSUME NEW d, Shaped(d)
  PROVE  /\ Entries(d) = Flat(d.buckets, d.capacity) /\ Entries(d) \in Seq(Entry)
         /\ \A T : Stored(d, T) \in Nat
<1>1. Entries(d) = Flat(d.buckets, d.capacity)
  BY DEF Entries, Flat
<1>2. Entries(d) \in Seq(Entry)
  BY <1>1, FlatIs DEF Shaped
<1> QED BY <1>1, <1>2, AmongOf DEF Stored

LEMMA PutFirstCounts ==
  ASSUME HASH_SEED \in Seeds,
         NEW c \in Nat \ {0}, NEW b \in [Buckets(c) -> Seq(Entry)], NEW e \in Entry,
         NEW i, i = hash_string(HASH_SEED, e.key) % c
  PROVE  /\ PutFirst(b, i, e) \in [Buckets(c) -> Seq(Entry)]
         /\ WellPlaced(b, c) => WellPlaced(PutFirst(b, i, e), c)
         /\ \A T : Among(Flat(PutFirst(b, i, e), c), T)
                     = Among(Flat(b, c), T) + (IF e \in T THEN 1 ELSE 0)
<1> DEFINE x == <<e>> \o b[i]
<1>1. i \in Buckets(c) /\ b[i] \in Seq(Entry) /\ <<e>> \in Seq(Entry)
  <2>1. i \in Buckets(c)
    BY PlaceIn DEF Entry
  <2> QED BY <2>1
<1>2. /\ x \in Seq(Entry) /\ Len(x) = Len(b[i]) + 1 /\ x[1] = e
      /\ \A j \in 1 .. Len(b[i]) : x[j + 1] = b[i][j]
  <2> DEFINE o == <<e>>
             w == b[i]
  <2>1. o \in Seq(Entry) /\ w \in Seq(Entry) /\ Len(o) = 1 /\ o[1] = e /\ Len(w) \in Nat
    BY <1>1
  <2> HIDE DEF o, w
  <2>7. o \in Seq(Entry) /\ w \in Seq(Entry)
    BY <2>1
  <2>2. o \o w \in Seq(Entry) /\ Len(o \o w) = Len(o) + Len(w)
    BY <2>7
  <2>3. \A j \in 1 .. Len(o) + Len(w) : (o \o w)[j] = IF j =< Len(o) THEN o[j] ELSE w[j - Len(o)]
    BY <2>7
  <2>4. (o \o w)[1] = e
    <3>1. 1 \in 1 .. Len(o) + Len(w) /\ 1 =< Len(o)
      BY <2>1
    <3> QED BY <2>1, <2>3, <3>1
  <2>5. ASSUME NEW j \in 1 .. Len(w) PROVE (o \o w)[j + 1] = w[j]
    <3>1. j + 1 \in 1 .. Len(o) + Len(w) /\ ~(j + 1 =< Len(o)) /\ j + 1 - Len(o) = j
      BY <2>1
    <3> QED BY <2>3, <3>1
  <2>6. Len(o \o w) = Len(w) + 1
    BY <2>1, <2>2
  <2> QED BY <2>2, <2>4, <2>5, <2>6 DEF o, w
<1>3. PutFirst(b, i, e) = [b EXCEPT ![i] = x]
  BY DEF PutFirst
<1>4. \A T : Among(x, T) = Among(b[i], T) + (IF e \in T THEN 1 ELSE 0) /\ Among(b[i], T) \in Nat
  <2> TAKE T
  <2>1. IsList(b[i]) /\ Among(b[i], T) \in Nat
    BY <1>1, AmongOf
  <2> QED BY <2>1, AmongOnTop
<1> HIDE DEF x
<1>5. [b EXCEPT ![i] = x] \in [Buckets(c) -> Seq(Entry)]
  BY <1>2
<1>6. ASSUME WellPlaced(b, c) PROVE WellPlaced([b EXCEPT ![i] = x], c)
  <2>1. ASSUME NEW j \in DOMAIN x PROVE hash_string(HASH_SEED, x[j].key) % c = i
    <3>1. Len(b[i]) \in Nat /\ DOMAIN x = 1 .. Len(b[i]) + 1 /\ DOMAIN b[i] = 1 .. Len(b[i])
      BY <1>1, <1>2
    <3>2. CASE j = 1
      BY <1>2, <3>2
    <3>3. CASE j # 1
      <4> DEFINE m == j - 1
      <4>1. m \in 1 .. Len(b[i]) /\ j = m + 1
        BY <2>1, <3>1, <3>3
      <4> HIDE DEF m
      <4>2. x[j] = b[i][m] /\ m \in DOMAIN b[i]
        BY <1>2, <3>1, <4>1
      <4> QED BY <1>1, <1>6, <4>2 DEF WellPlaced
    <3> QED BY <3>2, <3>3
  <2>2. ASSUME NEW n \in Buckets(c), n # i, NEW j \in DOMAIN b[n]
        PROVE  hash_string(HASH_SEED, b[n][j].key) % c = n
    BY <1>6, <2>2 DEF WellPlaced
  <2> QED BY <2>1, <2>2 DEF WellPlaced
<1>7. ASSUME NEW T
      PROVE  Among(Flat([b EXCEPT ![i] = x], c), T) = Among(Flat(b, c), T)
                 + (IF e \in T THEN 1 ELSE 0)
  <2>1. Among(Flat([b EXCEPT ![i] = x], c), T) = Among(Flat(b, c), T) - Among(b[i], T) + Among(x, T)
    <3>1. i \in Buckets(c) /\ x \in Seq(Entry)
      BY <1>1, <1>2
    <3> DEFINE d == [b EXCEPT ![i] = x]
    <3>2. Alters(d, b, i, x)
      BY DEF Alters
    <3> HIDE DEF d
    <3>3. Among(Flat(d, c), T) = Among(Flat(b, c), T) - Among(b[i], T) + Among(x, T)
      BY <3>1, <3>2, FlatChange
    <3> QED BY <3>3 DEF d
  <2>2. Among(Flat(b, c), T) \in Nat
    BY FlatIs, AmongOf
  <2> QED BY <1>4, <2>1, <2>2
<1> QED BY <1>3, <1>5, <1>6, <1>7

LEMMA EmptyBuckets ==
  ASSUME NEW c \in Nat \ {0}
  PROVE  /\ [i \in Buckets(c) |-> <<>>] \in [Buckets(c) -> Seq(Entry)]
         /\ WellPlaced([i \in Buckets(c) |-> <<>>], c)
         /\ \A T : Among(Flat([i \in Buckets(c) |-> <<>>], c), T) = 0
<1> DEFINE b == [i \in Buckets(c) |-> <<>>]
<1>1. b \in [Buckets(c) -> Seq(Entry)] /\ \A i \in Buckets(c) : b[i] = <<>>
  OBVIOUS
<1>2. WellPlaced(b, c)
  BY DEF WellPlaced
<1> HIDE DEF b
<1>3. ASSUME NEW T PROVE Among(Flat(b, c), T) = 0
  <2>1. Among(<<>>, T) = 0
    <3>1. Marks(<<>>, T) = {}
      BY DEF Marks
    <3> QED BY <3>1, FS_EmptySet DEF Among
  <2>2. \A i \in Buckets(c) : Among(b[i], T) = 0
    BY <1>1, <2>1
  <2> QED BY <1>1, <2>2, FlatCounts
<1> QED BY <1>1, <1>2, <1>3 DEF b

\* Doubling the buckets keeps the entries.
LEMMA ResizeKeeps ==
  ASSUME NEW d, DictKept(d)
  PROVE  /\ DictKept(dict_resize(d)) /\ \A T : Stored(dict_resize(d), T) = Stored(d, T)
         /\ dict_resize(d).size = d.size
<1> DEFINE c == d.capacity * 2
           es == Entries(d)
           N == Len(es)
           X == [Buckets(c) -> Seq(Entry)]
           x == [i \in Buckets(c) |-> <<>>]
           place(n) == hash_string(HASH_SEED, es[n].key) % c
           Rec(h) == h = [n \in 0 .. N |-> IF n = 0 THEN x ELSE PutFirst(h[n - 1], place(n), es[n])]
           F == [n \in 1 .. N |-> [y \in X |-> PutFirst(y, place(n), es[n])]]
           f == CHOOSE h : Rec(h)
<1>1. /\ Shaped(d) /\ d.capacity \in Nat \ {0} /\ c \in Nat \ {0} /\ es \in Seq(Entry) /\ N \in Nat
      /\ \A n \in 1 .. N : es[n] \in Entry
  <2>1. Shaped(d) /\ d.capacity \in Nat \ {0}
    BY DEF DictKept, Shaped
  <2>2. es \in Seq(Entry)
    BY <2>1, EntriesAre
  <2>3. c \in Nat \ {0}
    BY <2>1
  <2> HIDE DEF c, es
  <2> QED BY <2>1, <2>2, <2>3
<1>2. x \in X /\ WellPlaced(x, c) /\ \A T : Among(Flat(x, c), T) = 0
  <2> HIDE DEF c
  <2> QED BY <1>1, EmptyBuckets
<1>3. dict_resize(d) = [d EXCEPT !.capacity = c, !.buckets = f[N]]
  BY DEF dict_resize
<1> HIDE DEF c, es, N
<1>4. ASSUME NEW n \in 1 .. N, NEW y \in X
      PROVE  /\ PutFirst(y, place(n), es[n]) \in X
             /\ WellPlaced(y, c) => WellPlaced(PutFirst(y, place(n), es[n]), c)
             /\ \A T : Among(Flat(PutFirst(y, place(n), es[n]), c), T)
                         = Among(Flat(y, c), T) + (IF es[n] \in T THEN 1 ELSE 0)
  <2>1. es[n] \in Entry /\ place(n) = hash_string(HASH_SEED, es[n].key) % c
    BY <1>1
  <2>2. HASH_SEED \in Seeds
    BY DEF DictKept
  <2> HIDE DEF place
  <2> QED BY <1>1, <2>1, <2>2, PutFirstCounts
<1> HIDE DEF X, x, place
<1>5. PICK g : Loop(g, X, N, x, F)
  <2>1. F \in [1 .. N -> [X -> X]]
    BY <1>4
  <2> HIDE DEF F
  <2> QED BY <1>1, <1>2, <2>1, Loops
<1>6. /\ g \in [0 .. N -> X] /\ g[0] = x
      /\ \A n \in 1 .. N : g[n] = PutFirst(g[n - 1], place(n), es[n]) /\ g[n - 1] \in X
  <2>1. g \in [0 .. N -> X] /\ g[0] = x /\ \A n \in 1 .. N : g[n] = F[n][g[n - 1]]
    BY <1>5 DEF Loop
  <2>2. ASSUME NEW n \in 1 .. N PROVE g[n] = PutFirst(g[n - 1], place(n), es[n]) /\ g[n - 1] \in X
    <3>1. n - 1 \in 0 .. N
      BY <1>1
    <3>2. g[n - 1] \in X
      BY <2>1, <3>1
    <3> QED BY <2>1, <3>2
  <2> QED BY <2>1, <2>2
<1>7. Rec(g)
  <2> DEFINE r(n) == IF n = 0 THEN x ELSE PutFirst(g[n - 1], place(n), es[n])
  <2>1. \A n \in 0 .. N : g[n] = r(n)
    <3> TAKE n \in 0 .. N
    <3>1. n # 0 => n \in 1 .. N
      BY <1>1
    <3> QED BY <1>6, <3>1
  <2>2. g = [n \in 0 .. N |-> g[n]]
    BY <1>6
  <2> HIDE DEF r
  <2>3. g = [n \in 0 .. N |-> r(n)]
    BY <2>1, <2>2
  <2> QED BY <2>3 DEF r
<1>8. Rec(f)
  <2> HIDE DEF Rec
  <2> QED BY <1>7
<1> HIDE DEF f, F
<1>9. /\ f[0] = x
      /\ \A n \in 1 .. N : f[n] = PutFirst(f[n - 1], place(n), es[n])
  <2> DEFINE r(n) == IF n = 0 THEN x ELSE PutFirst(f[n - 1], place(n), es[n])
  <2>1. f = [n \in 0 .. N |-> r(n)]
    BY <1>8
  <2> HIDE DEF r
  <2>2. \A n \in 0 .. N : f[n] = r(n)
    BY <2>1
  <2>3. 0 \in 0 .. N /\ \A n \in 1 .. N : n \in 0 .. N /\ n # 0
    BY <1>1
  <2> QED BY <2>2, <2>3 DEF r
<1> HIDE DEF Rec
<1> DEFINE Ok(n) == /\ f[n] \in X /\ WellPlaced(f[n], c)
                    /\ \A T : Among(Flat(f[n], c), T) = Upto(es, n, T)
           Bad == {n \in 0 .. N : ~Ok(n)}
<1>10. Bad = {}
  <2>1. SUFFICES ASSUME Bad # {} PROVE FALSE
    OBVIOUS
  <2>2. Bad \in SUBSET Nat
    OBVIOUS
  <2> DEFINE m == Min(Bad)
  <2>3. m \in Bad /\ \A y \in Bad : m =< y
    BY <2>1, <2>2, MinIsIn
  <2> HIDE DEF m
  <2>4. m \in 0 .. N /\ ~Ok(m)
    <3> HIDE DEF Ok
    <3> QED BY <2>3
  <2>5. m # 0
    <3>1. \A T : Upto(es, 0, T) = 0
      BY <1>1, UptoAll
    <3>2. Ok(0)
      BY <1>2, <1>9, <3>1
    <3> HIDE DEF Ok
    <3> QED BY <2>4, <3>2
  <2> DEFINE k == m - 1
  <2>6. m \in 1 .. N /\ k \in 0 .. N /\ k < m
    BY <1>1, <2>4, <2>5
  <2>7. Ok(k)
    <3>1. k \notin Bad
      <4> HIDE DEF Bad
      <4> QED BY <1>1, <2>3, <2>4, <2>6
    <3> HIDE DEF Ok
    <3> QED BY <2>6, <3>1
  <2>8. f[m] = PutFirst(f[k], place(m), es[m])
    BY <1>9, <2>6
  <2> HIDE DEF Bad
  <2>9. \A T : Upto(es, m, T) = Upto(es, k, T) + (IF es[m] \in T THEN 1 ELSE 0)
    BY <1>1, <2>6, UptoAll DEF N
  <2> HIDE DEF k
  <2>10. Ok(m)
    BY <1>4, <2>6, <2>7, <2>8, <2>9
  <2> HIDE DEF Ok
  <2> QED BY <2>4, <2>10
<1>11. /\ f[N] \in X /\ WellPlaced(f[N], c)
       /\ \A T : Among(Flat(f[N], c), T) = Stored(d, T)
  <2>1. N \in 0 .. N
    BY <1>1
  <2>2. Ok(N)
    <3> HIDE DEF Ok
    <3> QED BY <1>10, <2>1
  <2>3. \A T : Upto(es, N, T) = Stored(d, T)
    BY <1>1, UptoAll DEF N, es, Stored
  <2> QED BY <2>2, <2>3
<1> HIDE DEF Ok, Bad
<1> DEFINE r == dict_resize(d)
<1>12. r = [buckets |-> f[N], capacity |-> c, size |-> d.size]
  BY <1>1, <1>3 DEF Shaped
<1> HIDE DEF r
<1>13. Shaped(r) /\ WellPlaced(r.buckets, r.capacity)
  BY <1>1, <1>11, <1>12 DEF Shaped, X
<1>14. \A T : Stored(r, T) = Stored(d, T)
  <2>1. Entries(r) = Flat(f[N], c)
    BY <1>12, <1>13, EntriesAre
  <2> QED BY <1>11, <2>1 DEF Stored
<1>15. DictKept(r)
  <2>1. r.size = d.size
    BY <1>12
  <2> QED BY <1>13, <1>14, <2>1 DEF DictKept
<1> QED BY <1>12, <1>14, <1>15 DEF r

\* What a search for k finds.
Item(d, k) == d.buckets[Place(d, k)][FoundFirst(d, k)]

\* A search finds the one entry of a key, wherever the walk would meet it.
LEMMA Searched ==
  ASSUME NEW d, DictKept(d), NEW k \in DictKeys
  PROVE  /\ Place(d, k) \in Buckets(d.capacity)
         /\ d.buckets[Place(d, k)] \in Seq(Entry)
         /\ Found(d, k) = {} <=> Stored(d, Keyed(k)) = 0
         /\ Found(d, k) # {} => /\ FoundFirst(d, k) \in DOMAIN d.buckets[Place(d, k)]
                                /\ Item(d, k) \in Keyed(k) /\ Stored(d, {Item(d, k)}) = 1
<1> DEFINE c == d.capacity
           b == d.buckets
           at == Place(d, k)
           s == b[at]
<1>1. /\ Shaped(d) /\ c \in Nat \ {0} /\ b \in [Buckets(c) -> Seq(Entry)] /\ WellPlaced(b, c)
      /\ Stored(d, Keyed(k)) =< 1 /\ HASH_SEED \in Seeds
  BY DEF DictKept, Shaped
<1>2. at \in Buckets(c)
  BY <1>1, PlaceIn DEF Place
<1>3. s \in Seq(Entry)
  BY <1>1, <1>2
<1>4. /\ Entries(d) = Flat(b, c) /\ Entries(d) \in Seq(Entry)
      /\ \A T : Stored(d, T) \in Nat /\ Stored(d, T) = Among(Flat(b, c), T)
  <2>1. Entries(d) = Flat(b, c) /\ Entries(d) \in Seq(Entry) /\ \A T : Stored(d, T) \in Nat
    BY <1>1, EntriesAre
  <2> QED BY <2>1 DEF Stored
<1>5. Found(d, k) = Marks(s, Keyed(k))
  <2>1. Found(d, k) = {i \in DOMAIN s : s[i].key = k}
    BY DEF Found
  <2>2. \A i \in DOMAIN s : s[i] \in Entry
    BY <1>3
  <2> HIDE DEF s
  <2> QED BY <2>1, <2>2 DEF Marks, Keyed
<1>6. \A i \in Buckets(c) : i # at => Among(b[i], Keyed(k)) = 0
  <2> TAKE i \in Buckets(c)
  <2> HAVE i # at
  <2>1. b[i] \in Seq(Entry)
    BY <1>1
  <2>2. ASSUME NEW j \in DOMAIN b[i], b[i][j] \in Keyed(k) PROVE FALSE
    <3>1. b[i][j].key = k
      BY <2>2 DEF Keyed
    <3>2. hash_string(HASH_SEED, b[i][j].key) % c = i
      BY <1>1 DEF WellPlaced
    <3>3. hash_string(HASH_SEED, k) % c = at
      BY DEF Place
    <3> HIDE DEF at, b, c
    <3> QED BY <3>1, <3>2, <3>3
  <2>3. Among(b[i], Keyed(k)) \in Nat /\ ~(Among(b[i], Keyed(k)) > 0)
    <3> HIDE DEF b
    <3> QED BY <2>1, <2>2, AmongOf
  <2> QED BY <2>3
<1> HIDE DEF b, c
<1>7. ASSUME NEW T PROVE Among(s, T) =< Stored(d, T) /\ Among(s, T) \in Nat
  <2>1. Among(b[at], T) =< Among(Flat(b, c), T)
    <3> HIDE DEF at
    <3> QED BY <1>1, <1>2, FlatCounts
  <2>2. Among(s, T) \in Nat
    <3> HIDE DEF s
    <3> QED BY <1>3, AmongOf
  <2> QED BY <1>4, <2>1, <2>2
<1>8. ASSUME Found(d, k) = {} PROVE Stored(d, Keyed(k)) = 0
  <2>1. Among(s, Keyed(k)) = 0
    BY <1>5, <1>8, FS_EmptySet DEF Among
  <2>2. \A i \in Buckets(c) : Among(b[i], Keyed(k)) = 0
    BY <1>6, <2>1
  <2>3. Among(Flat(b, c), Keyed(k)) = 0
    BY <1>1, <2>2, FlatCounts
  <2> QED BY <1>4, <2>3
<1>9. ASSUME Found(d, k) # {}
      PROVE  /\ FoundFirst(d, k) \in DOMAIN s /\ Item(d, k) \in Keyed(k) /\ Stored(d, {Item(d, k)}) = 1
             /\ Stored(d, Keyed(k)) # 0
  <2> DEFINE x == Item(d, k)
  <2>1. FoundFirst(d, k) \in Found(d, k)
    <3>1. Found(d, k) \in SUBSET Nat
      <4>1. DOMAIN s \in SUBSET Nat
        BY <1>3
      <4> QED BY <1>5, <4>1 DEF Marks
    <3> QED BY <1>9, <3>1, MinIsIn DEF FoundFirst
  <2>2. FoundFirst(d, k) \in DOMAIN s /\ x = s[FoundFirst(d, k)] /\ x \in Keyed(k)
    <3>1. x = s[FoundFirst(d, k)]
      BY DEF Item, b
    <3> QED BY <1>5, <2>1, <3>1 DEF Marks
  <2> HIDE DEF x
  <2>3. Among(s, {x}) > 0
    <3> HIDE DEF s
    <3> QED BY <1>3, <2>2, AmongOf
  <2>4. Stored(d, {x}) =< Stored(d, Keyed(k))
    <3>1. {x} \subseteq Keyed(k)
      BY <2>2
    <3> QED BY <1>4, <3>1, AmongMore DEF Stored
  <2>5. Among(s, {x}) =< Stored(d, {x}) /\ Among(s, {x}) \in Nat
    BY <1>7
  <2>6. Stored(d, {x}) \in Nat /\ Stored(d, Keyed(k)) \in Nat
    BY <1>4
  <2>7. Stored(d, {x}) = 1 /\ Stored(d, Keyed(k)) # 0
    BY <1>1, <2>3, <2>4, <2>5, <2>6
  <2> QED BY <2>2, <2>7 DEF x
<1> QED BY <1>2, <1>3, <1>8, <1>9 DEF b, c

LEMMA OnlyOne ==
  ASSUME NEW d, DictKept(d), NEW k \in DictKeys, NEW x \in Keyed(k), NEW y \in Keyed(k),
         Stored(d, {x}) > 0, Stored(d, {y}) > 0
  PROVE  x = y
<1> DEFINE s == Entries(d)
<1>1. s \in Seq(Entry)
  BY EntriesAre DEF DictKept
<1>2. Among(s, Keyed(k)) =< 1 /\ Among(s, {x}) > 0 /\ Among(s, {y}) > 0
  BY DEF DictKept, Stored
<1> HIDE DEF s
<1>3. PICK i \in DOMAIN s : s[i] \in {x}
  BY <1>1, <1>2, AmongOf
<1>4. PICK j \in DOMAIN s : s[j] \in {y}
  BY <1>1, <1>2, AmongOf
<1>5. i = j
  <2>1. s[i] \in Keyed(k) /\ s[j] \in Keyed(k)
    BY <1>3, <1>4
  <2> QED BY <1>1, <1>2, <2>1, AmongOnce
<1> QED BY <1>3, <1>4, <1>5

\* e is the entry of k in s, in the place of the one that d has, if it has one.
Replaces(d, s, k, e) ==
  \/ /\ Stored(d, Keyed(k)) = 0
     /\ \A T : Stored(s, T) = Stored(d, T) + (IF e \in T THEN 1 ELSE 0)
  \/ \E old \in Keyed(k) :
       /\ Stored(d, {old}) = 1
       /\ \A T : Stored(s, T) = Stored(d, T)
              - (IF old \in T THEN 1 ELSE 0) + (IF e \in T THEN 1 ELSE 0)

LEMMA ReplacesOnce ==
  ASSUME NEW d, DictKept(d), NEW s, NEW k \in DictKeys, NEW e \in Keyed(k), Replaces(d, s, k, e),
         NEW j \in DictKeys
  PROVE  Stored(s, Keyed(j)) =< 1
<1>1. \A T : Stored(d, T) \in Nat
  BY EntriesAre DEF DictKept
<1>2. Stored(d, Keyed(j)) =< 1 /\ Stored(d, Keyed(j)) \in Nat
  BY <1>1 DEF DictKept
<1>3. \A x \in Keyed(k) : x \in Keyed(j) <=> j = k
  BY DEF Keyed
<1>4. CASE Stored(d, Keyed(k)) = 0 /\ \A T : Stored(s, T) = Stored(d, T)
               + (IF e \in T THEN 1 ELSE 0)
  <2>1. Stored(s, Keyed(j)) = Stored(d, Keyed(j)) + (IF e \in Keyed(j) THEN 1 ELSE 0)
    BY <1>4
  <2> QED BY <1>2, <1>3, <1>4, <2>1
<1>5. ASSUME NEW old \in Keyed(k), Stored(d, {old}) = 1,
             \A T : Stored(s, T) = Stored(d, T)
                 - (IF old \in T THEN 1 ELSE 0) + (IF e \in T THEN 1 ELSE 0)
      PROVE  Stored(s, Keyed(j)) =< 1
  <2>1. Stored(s, Keyed(j)) = Stored(d, Keyed(j))
            - (IF old \in Keyed(j) THEN 1 ELSE 0) + (IF e \in Keyed(j) THEN 1 ELSE 0)
    BY <1>5
  <2> QED BY <1>2, <1>3, <2>1
<1> QED BY <1>4, <1>5 DEF Replaces

\* What dict_set does in the dict that is large enough.
SetIn(d, k, v) ==
  IF Found(d, k) # {} THEN [d EXCEPT !.buckets[Place(d, k)][FoundFirst(d, k)].value = v]
  ELSE [d EXCEPT !.buckets = PutFirst(@, Place(d, k), [key |-> k, value |-> v]), !.size = @ + 1]

LEMMA TwoFields ==
  ASSUME NEW b, NEW c, NEW n, NEW d, d = [buckets |-> b, capacity |-> c, size |-> n],
         NEW w, NEW m, NEW s, s = [d EXCEPT !.buckets = w, !.size = m]
  PROVE  s = [buckets |-> w, capacity |-> c, size |-> m]
OBVIOUS

LEMMA SetInKeeps ==
  ASSUME NEW d, DictKept(d), NEW k \in DictKeys, NEW v \in Values
  PROVE  /\ DictKept(SetIn(d, k, v)) /\ Replaces(d, SetIn(d, k, v), k, [key |-> k, value |-> v])
         /\ Found(d, k) # {} =>
              \A T : Stored(SetIn(d, k, v), T)
                = Stored(d, T) - (IF Item(d, k) \in T THEN 1 ELSE 0)
                    + (IF [key |-> k, value |-> v] \in T THEN 1 ELSE 0)
<1> DEFINE c == d.capacity
           b == d.buckets
           at == Place(d, k)
           i == FoundFirst(d, k)
           e == [key |-> k, value |-> v]
           x == Item(d, k)
           s == SetIn(d, k, v)
<1>1. /\ Shaped(d) /\ c \in Nat \ {0} /\ b \in [Buckets(c) -> Seq(Entry)] /\ WellPlaced(b, c)
      /\ d = [buckets |-> b, capacity |-> c, size |-> d.size]
  BY DEF DictKept, Shaped
<1>2. /\ at \in Buckets(c) /\ b[at] \in Seq(Entry) /\ at = hash_string(HASH_SEED, k) % c
      /\ Found(d, k) = {} <=> Stored(d, Keyed(k)) = 0
      /\ Found(d, k) # {} => i \in DOMAIN b[at] /\ x \in Keyed(k) /\ Stored(d, {x}) = 1
  BY Searched DEF Place
<1>3. e \in Entry /\ e \in Keyed(k) /\ e.key = k
  BY DEF Entry, Keyed
<1>4. /\ \A T : Stored(d, T) \in Nat /\ Stored(d, T) = Among(Flat(b, c), T)
      /\ d.size = Stored(d, Entry)
  <2>1. Entries(d) = Flat(b, c) /\ \A T : Stored(d, T) \in Nat
    BY <1>1, EntriesAre
  <2> QED BY <2>1 DEF Stored, DictKept
<1>5. CASE Found(d, k) = {}
  <2> DEFINE w == PutFirst(b, at, e)
  <2>1. s = [buckets |-> w, capacity |-> c, size |-> d.size + 1]
    <3>1. s = [d EXCEPT !.buckets = w, !.size = d.size + 1]
      BY <1>5 DEF SetIn
    <3> HIDE DEF b, c, w, s
    <3>2. d = [buckets |-> b, capacity |-> c, size |-> d.size]
      BY <1>1
    <3> DEFINE m == d.size + 1
               n == d.size
    <3>3. s = [d EXCEPT !.buckets = w, !.size = m]
      BY <3>1
    <3>4. d = [buckets |-> b, capacity |-> c, size |-> n]
      BY <3>2
    <3> HIDE DEF m, n
    <3>5. s = [buckets |-> w, capacity |-> c, size |-> m]
      BY ONLY <3>3, <3>4, TwoFields
    <3> QED BY <3>5 DEF m
  <2>2. /\ w \in [Buckets(c) -> Seq(Entry)] /\ WellPlaced(w, c)
        /\ \A T : Among(Flat(w, c), T) = Among(Flat(b, c), T) + (IF e \in T THEN 1 ELSE 0)
    <3>1. at = hash_string(HASH_SEED, e.key) % c /\ HASH_SEED \in Seeds
      BY <1>2, <1>3 DEF DictKept
    <3> HIDE DEF b, c, at, e
    <3> QED BY <1>1, <1>3, <3>1, PutFirstCounts
  <2> HIDE DEF w, s, e, b, c, at
  <2>3. Shaped(s) /\ WellPlaced(s.buckets, s.capacity)
    BY <1>1, <2>1, <2>2 DEF Shaped
  <2>4. \A T : Stored(s, T) = Stored(d, T) + (IF e \in T THEN 1 ELSE 0)
    <3>1. Entries(s) = Flat(w, c)
      BY <2>1, <2>3, EntriesAre
    <3> QED BY <1>4, <2>2, <3>1 DEF Stored
  <2>5. Replaces(d, s, k, e)
    BY <1>2, <1>5, <2>4 DEF Replaces
  <2>6. s.size = Stored(s, Entry)
    BY <1>3, <1>4, <2>1, <2>4
  <2>7. DictKept(s)
    BY <1>3, <2>3, <2>5, <2>6, ReplacesOnce DEF DictKept
  <2> QED BY <1>5, <2>5, <2>7 DEF s, e
<1>6. CASE Found(d, k) # {}
  <2> DEFINE chain == b[at]
             new == [chain EXCEPT ![i] = e]
             w == [b EXCEPT ![at] = new]
  <2>1. i \in DOMAIN chain /\ x \in Keyed(k) /\ Stored(d, {x}) = 1 /\ chain[i] = x
          /\ chain \in Seq(Entry)
    BY <1>2, <1>6 DEF Item
  <2>2. [x EXCEPT !.value = v] = e
    BY <2>1 DEF Keyed, Entry
  <2>3. s = [buckets |-> w, capacity |-> c, size |-> d.size]
    <3>1. s = [d EXCEPT !.buckets =
                 [b EXCEPT ![at] = [chain EXCEPT ![i] = [chain[i] EXCEPT !.value = v]]]]
      BY <1>6 DEF SetIn
    <3>2. s = [d EXCEPT !.buckets = w]
      BY <2>1, <2>2, <3>1
    <3> HIDE DEF b, c, s, w
    <3> QED BY <1>1, <3>2
  <2> HIDE DEF chain, x, e, s, at, i
  <2>4. /\ new \in Seq(Entry) /\ DOMAIN new = DOMAIN chain
        /\ \A T : Among(new, T) = Among(chain, T)
               - (IF x \in T THEN 1 ELSE 0) + (IF e \in T THEN 1 ELSE 0)
    <3>1. DOMAIN new = DOMAIN chain
      OBVIOUS
    <3> HIDE DEF new
    <3>2. ASSUME NEW T
          PROVE  /\ new \in Seq(Entry)
                 /\ Among(new, T) = Among(chain, T)
                        - (IF x \in T THEN 1 ELSE 0) + (IF e \in T THEN 1 ELSE 0)
      BY <1>3, <2>1, AmongPut DEF new
    <3> QED BY <3>1, <3>2
  <2>5. /\ w \in [Buckets(c) -> Seq(Entry)]
        /\ \A T : Among(Flat(w, c), T) = Among(Flat(b, c), T)
               - (IF x \in T THEN 1 ELSE 0) + (IF e \in T THEN 1 ELSE 0)
    <3>1. Alters(w, b, at, new)
      BY DEF Alters
    <3>2. new \in Seq(Entry) /\ at \in Buckets(c)
      BY <1>2, <2>4
    <3> HIDE DEF w, new, b, c
    <3>3. \A T : Among(Flat(w, c), T) = Among(Flat(b, c), T) - Among(b[at], T) + Among(new, T)
      BY <1>1, <3>1, <3>2, FlatChange
    <3>5. w \in [Buckets(c) -> Seq(Entry)]
      BY <1>1, <3>2 DEF w
    <3>4. ASSUME NEW T
          PROVE  Among(Flat(w, c), T) = Among(Flat(b, c), T)
                     - (IF x \in T THEN 1 ELSE 0) + (IF e \in T THEN 1 ELSE 0)
      <4>1. Among(Flat(b, c), T) \in Nat
        BY <1>4
      <4>2. Among(b[at], T) \in Nat
        BY <1>2, AmongOf
      <4>3. Among(new, T) = Among(b[at], T)
                - (IF x \in T THEN 1 ELSE 0) + (IF e \in T THEN 1 ELSE 0)
        BY <2>4 DEF chain
      <4> QED BY <3>3, <4>1, <4>2, <4>3
    <3> QED BY <3>5, <3>4
  <2>6. WellPlaced(w, c)
    <3>1. ASSUME NEW n \in Buckets(c), NEW j \in DOMAIN w[n]
          PROVE  hash_string(HASH_SEED, w[n][j].key) % c = n
      <4>1. CASE n # at
        <5>1. w[n] = b[n]
          BY <1>1, <4>1
        <5> HIDE DEF w
        <5> QED BY <1>1, <3>1, <5>1 DEF WellPlaced
      <4>2. CASE n = at
        <5>1. w[n] = new /\ j \in DOMAIN chain /\ chain \in Seq(Entry)
          BY <1>1, <2>1, <2>4, <3>1, <4>2
        <5>2. new[j] = IF j = i THEN e ELSE chain[j]
          BY <5>1
        <5>3. hash_string(HASH_SEED, chain[j].key) % c = at
          BY <1>1, <1>2, <5>1 DEF WellPlaced, chain
        <5>4. hash_string(HASH_SEED, e.key) % c = at
          BY <1>2, <1>3
        <5> HIDE DEF w, new
        <5> QED BY <4>2, <5>1, <5>2, <5>3, <5>4
      <4> QED BY <4>1, <4>2
    <3> HIDE DEF w
    <3> QED BY <3>1 DEF WellPlaced
  <2> HIDE DEF w, b, c
  <2>7. Shaped(s) /\ WellPlaced(s.buckets, s.capacity)
    BY <1>1, <2>3, <2>5, <2>6 DEF Shaped
  <2>8. \A T : Stored(s, T) = Stored(d, T) - (IF x \in T THEN 1 ELSE 0) + (IF e \in T THEN 1 ELSE 0)
    <3>1. Entries(s) = Flat(w, c)
      BY <2>3, <2>7, EntriesAre
    <3> QED BY <1>4, <2>5, <3>1 DEF Stored
  <2>9. Replaces(d, s, k, e)
    BY <2>1, <2>8 DEF Replaces
  <2>10. s.size = Stored(s, Entry)
    <3>1. x \in Entry /\ e \in Entry
      BY <1>3, <2>1 DEF Keyed
    <3>2. Stored(s, Entry) = Stored(d, Entry) - 1 + 1 /\ Stored(d, Entry) \in Nat
      BY <1>4, <2>8, <3>1
    <3> QED BY <1>4, <2>3, <3>2
  <2>11. DictKept(s)
    BY <1>3, <2>7, <2>9, <2>10, ReplacesOnce DEF DictKept
  <2> QED BY <2>8, <2>9, <2>11 DEF s, e, x
<1> QED BY <1>5, <1>6

-----------------------------------------------------------------------------
LEMMA SetKeeps ==
  ASSUME NEW d, DictKept(d), NEW k \in DictKeys, NEW v \in Values
  PROVE  /\ DictKept(dict_set(d, k, v))
         /\ Replaces(d, dict_set(d, k, v), k, [key |-> k, value |-> v])
         /\ Found(d, k) # {} =>
              \A T : Stored(dict_set(d, k, v), T)
                = Stored(d, T) - (IF Item(d, k) \in T THEN 1 ELSE 0)
                    + (IF [key |-> k, value |-> v] \in T THEN 1 ELSE 0)
<1> DEFINE e == [key |-> k, value |-> v]
           r == dict_resize(d)
           s == SetIn(r, k, v)
<1>1. CASE ~Overloaded(d)
  <2>1. dict_set(d, k, v) = SetIn(d, k, v)
    BY <1>1 DEF dict_set, SetIn
  <2> QED BY <2>1, SetInKeeps
<1>2. CASE Overloaded(d)
  <2>1. dict_set(d, k, v) = s
    BY <1>2 DEF dict_set, SetIn
  <2>2. DictKept(r) /\ \A T : Stored(r, T) = Stored(d, T)
    BY ResizeKeeps
  <2>3. Found(d, k) = {} <=> Found(r, k) = {}
    <3>1. Found(r, k) = {} <=> Stored(r, Keyed(k)) = 0
      BY <2>2, Searched
    <3>2. Found(d, k) = {} <=> Stored(d, Keyed(k)) = 0
      BY Searched
    <3> QED BY <2>2, <3>1, <3>2
  <2> HIDE DEF r
  <2>4. DictKept(s) /\ Replaces(r, s, k, e)
    BY <2>2, SetInKeeps
  <2>5. Replaces(d, s, k, e)
    <3> HIDE DEF s, e
    <3> QED BY <2>2, <2>4 DEF Replaces
  <2>6. ASSUME Found(d, k) # {}
        PROVE  \A T : Stored(s, T) = Stored(d, T)
                   - (IF Item(d, k) \in T THEN 1 ELSE 0) + (IF e \in T THEN 1 ELSE 0)
    <3>1. Item(r, k) \in Keyed(k) /\ Stored(r, {Item(r, k)}) = 1
      BY <2>2, <2>3, <2>6, Searched
    <3>2. Item(d, k) \in Keyed(k) /\ Stored(d, {Item(d, k)}) = 1
      BY <2>6, Searched
    <3>3. Stored(d, {Item(r, k)}) = 1
      BY <2>2, <3>1
    <3>4. Item(r, k) = Item(d, k)
      BY <3>1, <3>2, <3>3, OnlyOne
    <3>5. \A T : Stored(s, T) = Stored(r, T)
              - (IF Item(r, k) \in T THEN 1 ELSE 0) + (IF e \in T THEN 1 ELSE 0)
      BY <2>2, <2>3, <2>6, SetInKeeps
    <3> QED BY <2>2, <3>4, <3>5
  <2> QED BY <2>1, <2>4, <2>5, <2>6
<1> QED BY <1>1, <1>2

LEMMA RemoveKeeps ==
  ASSUME NEW d, DictKept(d), NEW k \in DictKeys, Found(d, k) # {}
  PROVE  /\ DictKept(UnlinkEntry(d, k))
         /\ \A T : Stored(UnlinkEntry(d, k), T) = Stored(d, T) - (IF Item(d, k) \in T THEN 1 ELSE 0)
<1> DEFINE c == d.capacity
           b == d.buckets
           at == Place(d, k)
           i == FoundFirst(d, k)
           x == Item(d, k)
           chain == b[at]
           new == RemoveAt(chain, i)
           w == [b EXCEPT ![at] = new]
           s == UnlinkEntry(d, k)
           n == d.size
           m == n - 1
<1>1. /\ Shaped(d) /\ c \in Nat \ {0} /\ b \in [Buckets(c) -> Seq(Entry)] /\ WellPlaced(b, c)
      /\ d = [buckets |-> b, capacity |-> c, size |-> n]
  BY DEF DictKept, Shaped
<1>2. /\ at \in Buckets(c) /\ chain \in Seq(Entry) /\ at = hash_string(HASH_SEED, k) % c
      /\ i \in DOMAIN chain /\ x \in Keyed(k) /\ Stored(d, {x}) = 1
  BY Searched DEF Place
<1>3. chain[i] = x
  BY DEF Item
<1>4. /\ \A T : Stored(d, T) \in Nat /\ Stored(d, T) = Among(Flat(b, c), T)
      /\ d.size = Stored(d, Entry) /\ \A j \in DictKeys : Stored(d, Keyed(j)) =< 1
  <2>1. Entries(d) = Flat(b, c) /\ \A T : Stored(d, T) \in Nat
    BY <1>1, EntriesAre
  <2> QED BY <2>1 DEF Stored, DictKept
<1>5. s = [d EXCEPT !.buckets = w, !.size = m]
  BY DEF UnlinkEntry
<1> HIDE DEF b, c, at, i, x, s, n, m, w
<1>6. s = [buckets |-> w, capacity |-> c, size |-> m]
  <2>1. d = [buckets |-> b, capacity |-> c, size |-> n]
    BY <1>1
  <2> QED BY <1>5, <2>1, TwoFields
<1>7. /\ new \in Seq(Entry) /\ Len(new) = Len(chain) - 1 /\ new = Without(chain, i)
      /\ \A T : Among(new, T) = Among(chain, T) - (IF x \in T THEN 1 ELSE 0)
  <2>1. IsList(chain)
    BY <1>2, AmongOf
  <2>2. i \in 1 .. Len(chain)
    BY <1>2
  <2>3. \A T : Among(new, T) = Among(chain, T) - (IF chain[i] \in T THEN 1 ELSE 0)
    BY <1>2, <2>1, AmongRemove
  <2>4. new \in Seq(Entry) /\ Len(new) = Len(chain) - 1 /\ new = Without(chain, i)
    <3> HIDE DEF chain
    <3> QED BY <1>2, <2>2, WithoutIn
  <2> QED BY <1>3, <2>3, <2>4
<1>8. /\ w \in [Buckets(c) -> Seq(Entry)] /\ w[at] = new /\ \A j \in Buckets(c) \ {at} : w[j] = b[j]
      /\ \A T : Among(Flat(w, c), T) = Among(Flat(b, c), T) - (IF x \in T THEN 1 ELSE 0)
  <2>1. Alters(w, b, at, new)
    BY DEF Alters, w
  <2>2. new \in Seq(Entry)
    BY <1>7
  <2>3. w \in [Buckets(c) -> Seq(Entry)] /\ w[at] = new /\ \A j \in Buckets(c) \ {at} : w[j] = b[j]
    BY <1>1, <1>2, <2>2 DEF w
  <2>4. \A T : /\ Among(new, T) = Among(b[at], T) - (IF x \in T THEN 1 ELSE 0)
              /\ Among(b[at], T) \in Nat
    <3> TAKE T
    <3>1. Among(chain, T) \in Nat
      BY <1>2, AmongOf
    <3> QED BY <1>7, <3>1
  <2> HIDE DEF new
  <2>5. \A T : Among(Flat(w, c), T) = Among(Flat(b, c), T) - Among(b[at], T) + Among(new, T)
    BY <1>1, <1>2, <2>1, <2>2, FlatChange
  <2>6. \A T : Among(Flat(b, c), T) \in Nat
    BY <1>4
  <2>7. \A T : Among(Flat(w, c), T) = Among(Flat(b, c), T) - (IF x \in T THEN 1 ELSE 0)
    <3> TAKE T
    <3>1. /\ Among(Flat(b, c), T) \in Nat /\ Among(b[at], T) \in Nat
          /\ Among(new, T) = Among(b[at], T) - (IF x \in T THEN 1 ELSE 0)
          /\ Among(Flat(w, c), T) = Among(Flat(b, c), T) - Among(b[at], T) + Among(new, T)
      BY <2>4, <2>5, <2>6
    <3> QED BY <3>1
  <2> QED BY <2>3, <2>7 DEF new
<1>9. WellPlaced(w, c)
  <2>1. ASSUME NEW l \in Buckets(c), NEW j \in DOMAIN w[l]
        PROVE  hash_string(HASH_SEED, w[l][j].key) % c = l
    <3>1. CASE l # at
      BY <1>1, <1>8, <2>1, <3>1 DEF WellPlaced
    <3>2. CASE l = at
      <4>1. w[l] = new /\ j \in 1 .. Len(chain) - 1
        BY <1>2, <1>7, <1>8, <2>1, <3>2
      <4>2. PICK p \in DOMAIN chain : new[j] = chain[p]
        <5>1. new[j] = IF j < i THEN chain[j] ELSE chain[j + 1]
          BY <1>7, <4>1 DEF Without
        <5>2. j \in DOMAIN chain /\ j + 1 \in DOMAIN chain
          BY <1>2, <4>1
        <5> QED BY <5>1, <5>2
      <4>3. hash_string(HASH_SEED, chain[p].key) % c = at
        BY <1>1, <1>2, <4>2 DEF WellPlaced
      <4> QED BY <3>2, <4>1, <4>2, <4>3
    <3> QED BY <3>1, <3>2
  <2> QED BY <2>1 DEF WellPlaced
<1> HIDE DEF new, chain
<1>10. Shaped(s) /\ WellPlaced(s.buckets, s.capacity)
  BY <1>1, <1>6, <1>8, <1>9 DEF Shaped
<1>11. \A T : Stored(s, T) = Stored(d, T) - (IF x \in T THEN 1 ELSE 0)
  <2>1. Entries(s) = Flat(w, c)
    BY <1>6, <1>10, EntriesAre
  <2> QED BY <1>4, <1>8, <2>1 DEF Stored
<1>12. s.size = Stored(s, Entry)
  <2>1. x \in Entry
    BY <1>2 DEF Keyed
  <2>2. Stored(s, Entry) = Stored(d, Entry) - 1
    BY <1>11, <2>1
  <2> QED BY <1>4, <1>6, <2>2 DEF m, n
<1>13. \A j \in DictKeys : Stored(s, Keyed(j)) =< 1
  <2> TAKE j \in DictKeys
  <2>1. Stored(d, Keyed(j)) \in Nat /\ Stored(d, Keyed(j)) =< 1
    BY <1>4
  <2>2. Stored(s, Keyed(j)) = Stored(d, Keyed(j)) - (IF x \in Keyed(j) THEN 1 ELSE 0)
    BY <1>11
  <2> QED BY <2>1, <2>2
<1>14. DictKept(s)
  BY <1>10, <1>12, <1>13 DEF DictKept
<1> QED BY <1>11, <1>14 DEF s, x

LEMMA CreateKept ==
  ASSUME HASH_SEED \in Seeds
  PROVE  DictKept(dict_create) /\ \A T : Stored(dict_create, T) = 0
<1> DEFINE c == InitialCapacity
           b == [i \in Buckets(c) |-> <<>>]
           d == dict_create
<1>1. c \in Nat \ {0}
  BY DictConstants
<1>2. d = [buckets |-> b, capacity |-> c, size |-> 0]
  BY DEF dict_create
<1> HIDE DEF c, d
<1>3. b \in [Buckets(c) -> Seq(Entry)] /\ WellPlaced(b, c) /\ \A T : Among(Flat(b, c), T) = 0
  BY <1>1, EmptyBuckets
<1> HIDE DEF b
<1>4. Shaped(d) /\ WellPlaced(d.buckets, d.capacity)
  BY <1>1, <1>2, <1>3 DEF Shaped
<1>5. \A T : Stored(d, T) = 0
  <2>1. Entries(d) = Flat(b, c)
    BY <1>2, <1>4, EntriesAre
  <2> QED BY <1>3, <2>1 DEF Stored
<1>6. DictKept(d)
  BY <1>2, <1>4, <1>5 DEF DictKept
<1> QED BY <1>5, <1>6 DEF d

\* The set of them.
KeptDicts ==
  {d \in [buckets : UNION {[Buckets(c) -> Seq(Entry)] : c \in Nat \ {0}},
          capacity : Nat \ {0}, size : Nat] : DictKept(d)}

LEMMA AKeptDict ==
  ASSUME NEW d
  PROVE  DictKept(d) <=> d \in KeptDicts
<1>1. ASSUME DictKept(d) PROVE d \in KeptDicts
  <2> DEFINE b == d.buckets
             c == d.capacity
             n == d.size
             B == UNION {[Buckets(x) -> Seq(Entry)] : x \in Nat \ {0}}
  <2>1. d = [buckets |-> b, capacity |-> c, size |-> n] /\ c \in Nat \ {0}
          /\ b \in [Buckets(c) -> Seq(Entry)]
    BY <1>1 DEF DictKept, Shaped
  <2>2. n \in Nat
    BY <1>1, EntriesAre DEF DictKept
  <2>3. b \in B
    <3> HIDE DEF b, c
    <3> QED BY <2>1
  <2> HIDE DEF b, c, n, B
  <2>4. d \in [buckets : B, capacity : Nat \ {0}, size : Nat]
    BY <2>1, <2>2, <2>3
  <2> QED BY <1>1, <2>4 DEF KeptDicts, B
<1>2. ASSUME d \in KeptDicts PROVE DictKept(d)
  BY <1>2 DEF KeptDicts
<1> QED BY <1>1, <1>2

LEMMA UptoSome ==
  ASSUME NEW S, NEW s \in Seq(S), NEW n \in 1 .. Len(s), NEW T, s[n] \in T, Among(s, T) =< 1
  PROVE  Upto(s, n - 1, T) = 0
<1>1. Upto(s, n, T) = Upto(s, n - 1, T) + 1 /\ Upto(s, n - 1, T) \in Nat
  BY UptoAll
<1>2. Upto(s, n, T) =< Among(s, T) /\ Among(s, T) \in Nat
  <2>1. {i \in 1 .. n : s[i] \in T} \subseteq Marks(s, T)
    <3>1. 1 .. n \subseteq DOMAIN s
      OBVIOUS
    <3> QED BY <3>1 DEF Marks
  <2>2. IsFiniteSet(Marks(s, T)) /\ Among(s, T) \in Nat
    BY AmongOf
  <2> QED BY <2>1, <2>2, FS_Subset DEF Upto, Among
<1> QED BY <1>1, <1>2

\* A copy has the entries of the original.
LEMMA CopyKeeps ==
  ASSUME NEW d, DictKept(d)
  PROVE  DictKept(Copied(d)) /\ \A T : Stored(Copied(d), T) = Stored(d, T)
<1> DEFINE es == Entries(d)
           N == Len(es)
           X == KeptDicts
           x == dict_create
           put(y, n) == dict_set(y, es[n].key, es[n].value)
           Rec(h) == h = [n \in 0 .. N |-> IF n = 0 THEN x ELSE put(h[n - 1], n)]
           F == [n \in 1 .. N |-> [y \in X |-> put(y, n)]]
           f == CHOOSE h : Rec(h)
<1>1. es \in Seq(Entry) /\ N \in Nat /\ \A k \in DictKeys : Among(es, Keyed(k)) =< 1
  <2>1. es \in Seq(Entry)
    BY EntriesAre DEF DictKept
  <2>2. \A k \in DictKeys : Among(es, Keyed(k)) =< 1
    BY DEF DictKept, Stored
  <2> HIDE DEF es
  <2> QED BY <2>1, <2>2
<1>2. x \in X /\ \A T : Stored(x, T) = 0
  BY CreateKept, AKeptDict DEF DictKept
<1>3. Copied(d) = f[N]
  BY DEF Copied
<1> HIDE DEF es, N
<1>4. ASSUME NEW n \in 1 .. N
      PROVE  /\ es[n] \in Entry /\ es[n].key \in DictKeys /\ es[n].value \in Values
             /\ es[n] \in Keyed(es[n].key) /\ es[n] = [key |-> es[n].key, value |-> es[n].value]
  <2> DEFINE e == es[n]
  <2>1. e \in Entry
    BY <1>1 DEF N
  <2> HIDE DEF e
  <2>2. /\ e.key \in DictKeys /\ e.value \in Values /\ e \in Keyed(e.key)
        /\ e = [key |-> e.key, value |-> e.value]
    BY <2>1 DEF Entry, Keyed
  <2> QED BY <2>1, <2>2 DEF e
<1>5. ASSUME NEW n \in 1 .. N, NEW y \in X
      PROVE  put(y, n) \in X /\ Replaces(y, put(y, n), es[n].key, es[n])
  <2>1. DictKept(y)
    BY AKeptDict
  <2> DEFINE k == es[n].key
             v == es[n].value
             z == dict_set(y, k, v)
  <2>2. k \in DictKeys /\ v \in Values /\ es[n] = [key |-> k, value |-> v]
    BY <1>4
  <2> HIDE DEF k, v
  <2>3. DictKept(z) /\ Replaces(y, z, k, [key |-> k, value |-> v])
    BY <2>1, <2>2, SetKeeps
  <2> HIDE DEF z
  <2>4. z \in X /\ Replaces(y, z, k, es[n])
    BY <2>2, <2>3, AKeptDict
  <2> QED BY <2>4 DEF z, k, v
<1> HIDE DEF X, x, put
<1>6. PICK g : Loop(g, X, N, x, F)
  <2>1. F \in [1 .. N -> [X -> X]]
    BY <1>5
  <2> HIDE DEF F
  <2> QED BY <1>1, <1>2, <2>1, Loops
<1>7. /\ g \in [0 .. N -> X] /\ g[0] = x
      /\ \A n \in 1 .. N : g[n] = put(g[n - 1], n) /\ g[n - 1] \in X
  <2>1. g \in [0 .. N -> X] /\ g[0] = x /\ \A n \in 1 .. N : g[n] = F[n][g[n - 1]]
    BY <1>6 DEF Loop
  <2>2. ASSUME NEW n \in 1 .. N PROVE g[n] = put(g[n - 1], n) /\ g[n - 1] \in X
    <3>1. n - 1 \in 0 .. N
      BY <1>1
    <3>2. g[n - 1] \in X
      BY <2>1, <3>1
    <3> QED BY <2>1, <3>2
  <2> QED BY <2>1, <2>2
<1>8. Rec(g)
  <2> DEFINE r(n) == IF n = 0 THEN x ELSE put(g[n - 1], n)
  <2>1. \A n \in 0 .. N : g[n] = r(n)
    <3> TAKE n \in 0 .. N
    <3>1. n # 0 => n \in 1 .. N
      BY <1>1
    <3> QED BY <1>7, <3>1
  <2>2. g = [n \in 0 .. N |-> g[n]]
    BY <1>7
  <2> HIDE DEF r
  <2>3. g = [n \in 0 .. N |-> r(n)]
    BY <2>1, <2>2
  <2> QED BY <2>3 DEF r
<1>9. Rec(f)
  <2> HIDE DEF Rec
  <2> QED BY <1>8
<1> HIDE DEF f, F
<1>10. /\ f[0] = x
       /\ \A n \in 1 .. N : f[n] = put(f[n - 1], n)
  <2> DEFINE r(n) == IF n = 0 THEN x ELSE put(f[n - 1], n)
  <2>1. f = [n \in 0 .. N |-> r(n)]
    BY <1>9
  <2> HIDE DEF r
  <2>2. \A n \in 0 .. N : f[n] = r(n)
    BY <2>1
  <2>3. 0 \in 0 .. N /\ \A n \in 1 .. N : n \in 0 .. N /\ n # 0
    BY <1>1
  <2> QED BY <2>2, <2>3 DEF r
<1> HIDE DEF Rec
<1> DEFINE Ok(n) == f[n] \in X /\ \A T : Stored(f[n], T) = Upto(es, n, T)
           Bad == {n \in 0 .. N : ~Ok(n)}
<1>11. Bad = {}
  <2>1. SUFFICES ASSUME Bad # {} PROVE FALSE
    OBVIOUS
  <2>2. Bad \in SUBSET Nat
    OBVIOUS
  <2> DEFINE m == Min(Bad)
  <2>3. m \in Bad /\ \A y \in Bad : m =< y
    BY <2>1, <2>2, MinIsIn
  <2> HIDE DEF m
  <2>4. m \in 0 .. N /\ ~Ok(m)
    <3> HIDE DEF Ok
    <3> QED BY <2>3
  <2>5. m # 0
    <3>1. \A T : Upto(es, 0, T) = 0
      BY <1>1, UptoAll
    <3>2. Ok(0)
      BY <1>2, <1>10, <3>1
    <3> HIDE DEF Ok
    <3> QED BY <2>4, <3>2
  <2> DEFINE k == m - 1
  <2>6. m \in 1 .. N /\ k \in 0 .. N /\ k < m
    BY <1>1, <2>4, <2>5
  <2>7. Ok(k)
    <3>1. k \notin Bad
      <4> HIDE DEF Bad
      <4> QED BY <1>1, <2>3, <2>4, <2>6
    <3> HIDE DEF Ok
    <3> QED BY <2>6, <3>1
  <2>8. f[m] = put(f[k], m)
    BY <1>10, <2>6
  <2> HIDE DEF Bad
  <2> DEFINE e == es[m]
             y == f[k]
             z == f[m]
  <2>9. /\ \A T : Upto(es, m, T) = Upto(es, k, T) + (IF e \in T THEN 1 ELSE 0)
        /\ Upto(es, k, Keyed(e.key)) = 0
    <3>1. m \in 1 .. Len(es) /\ es[m] \in Keyed(es[m].key) /\ Among(es, Keyed(es[m].key)) =< 1
      BY <1>1, <1>4, <2>6 DEF N
    <3>2. Upto(es, m - 1, Keyed(es[m].key)) = 0
      BY <1>1, <3>1, UptoSome
    <3>3. \A T : Upto(es, m, T) = Upto(es, m - 1, T) + (IF es[m] \in T THEN 1 ELSE 0)
      BY <1>1, <3>1, UptoAll
    <3> QED BY <3>2, <3>3
  <2>10. z \in X /\ Replaces(y, z, e.key, e)
    BY <1>5, <2>6, <2>7, <2>8
  <2>11. y \in X /\ Stored(y, Keyed(e.key)) = 0 /\ \A T : Stored(y, T) = Upto(es, k, T)
    BY <2>7, <2>9
  <2> HIDE DEF y, z, e, k
  <2>12. \A T : Stored(z, T) = Stored(y, T) + (IF e \in T THEN 1 ELSE 0)
    <3>1. ASSUME NEW old \in Keyed(e.key), Stored(y, {old}) = 1 PROVE FALSE
      <4>1. Entries(y) \in Seq(Entry)
        BY <2>11, AKeptDict, EntriesAre DEF DictKept, X
      <4>2. {old} \subseteq Keyed(e.key)
        BY <3>1
      <4>3. Stored(y, {old}) =< Stored(y, Keyed(e.key))
        BY <4>1, <4>2, AmongMore DEF Stored
      <4> QED BY <2>11, <3>1, <4>3
    <3> QED BY <2>10, <3>1 DEF Replaces
  <2>13. Ok(m)
    <3>1. \A T : Stored(z, T) = Upto(es, m, T)
      BY <2>9, <2>11, <2>12
    <3> QED BY <2>10, <3>1 DEF z
  <2> HIDE DEF Ok
  <2> QED BY <2>4, <2>13
<1>12. f[N] \in X /\ \A T : Stored(f[N], T) = Stored(d, T)
  <2>1. N \in 0 .. N
    BY <1>1
  <2>2. Ok(N)
    <3> HIDE DEF Ok
    <3> QED BY <1>11, <2>1
  <2>3. \A T : Upto(es, N, T) = Stored(d, T)
    BY <1>1, UptoAll DEF N, es, Stored
  <2> QED BY <2>2, <2>3
<1> HIDE DEF Ok, Bad
<1> QED BY <1>3, <1>12, AKeptDict DEF X

\* The map of a dict's entries.
MapIn(d) == LET entries == ToSet(Entries(d))
            IN [k \in {e.key : e \in entries} |-> (CHOOSE e \in entries : e.key = k).value]

\* m is that map, told by how often each entry is stored.
IsMapIn(m, d) ==
  /\ m = [k \in DOMAIN m |-> m[k]]
  /\ DOMAIN m = {k \in DictKeys : Stored(d, Keyed(k)) > 0}
  /\ \A e \in Entry : Stored(d, {e}) > 0 => e.key \in DOMAIN m /\ m[e.key] = e.value

LEMMA EntriesStored ==
  ASSUME NEW d, DictKept(d)
  PROVE  /\ ToSet(Entries(d)) = {e \in Entry : Stored(d, {e}) > 0}
         /\ \A k \in DictKeys : Stored(d, Keyed(k)) > 0 <=> \E e \in ToSet(Entries(d)) : e.key = k
<1> DEFINE es == Entries(d)
<1>1. es \in Seq(Entry)
  BY EntriesAre DEF DictKept
<1>2. ToSet(es) = {es[i] : i \in DOMAIN es}
  BY DEF ToSet
<1> HIDE DEF es
<1>3. \A T : Among(es, T) > 0 <=> \E i \in DOMAIN es : es[i] \in T
  BY <1>1, AmongOf
<1>4. \A i \in DOMAIN es : es[i] \in Entry
  BY <1>1
<1>5. ToSet(es) = {e \in Entry : Among(es, {e}) > 0}
  BY <1>2, <1>3, <1>4
<1>6. ASSUME NEW k \in DictKeys
      PROVE  Among(es, Keyed(k)) > 0 <=> \E e \in ToSet(es) : e.key = k
  <2>1. Among(es, Keyed(k)) > 0 <=> \E i \in DOMAIN es : es[i] \in Keyed(k)
    BY <1>3
  <2> QED BY <1>2, <1>4, <2>1 DEF Keyed
<1> QED BY <1>5, <1>6 DEF es, Stored

LEMMA MapInIs ==
  ASSUME NEW d, DictKept(d)
  PROVE  IsMapIn(MapIn(d), d)
<1> DEFINE entries == ToSet(Entries(d))
           of(k) == CHOOSE e \in entries : e.key = k
           keys == {e.key : e \in entries}
           m == MapIn(d)
<1>1. m = [k \in keys |-> of(k).value]
  BY DEF MapIn
<1>2. /\ entries = {e \in Entry : Stored(d, {e}) > 0}
      /\ \A k \in DictKeys : Stored(d, Keyed(k)) > 0 <=> \E e \in entries : e.key = k
  BY EntriesStored
<1>3. \A e \in entries : e \in Entry /\ e.key \in DictKeys /\ e \in Keyed(e.key)
        /\ Stored(d, {e}) > 0
  BY <1>2 DEF Entry, Keyed
<1>4. keys = {k \in DictKeys : Stored(d, Keyed(k)) > 0}
  <2> HIDE DEF entries
  <2> QED BY <1>2, <1>3
<1>5. \A e \in entries : e.key \in keys /\ of(e.key) = e
  <2> TAKE e \in entries
  <2> HIDE DEF entries
  <2>1. of(e.key) \in entries /\ of(e.key).key = e.key
    OBVIOUS
  <2> HIDE DEF of
  <2>2. of(e.key) = e
    <3> DEFINE x == of(e.key)
    <3>1. x \in entries /\ x.key = e.key
      BY <2>1
    <3> HIDE DEF x
    <3>2. x \in Keyed(e.key) /\ Stored(d, {x}) > 0
      BY <1>3, <3>1
    <3>3. x = e
      BY <1>3, <3>2, OnlyOne
    <3> QED BY <3>3 DEF x
  <2> QED BY <2>2
<1> HIDE DEF entries, keys, m, of
<1>6. DOMAIN m = keys /\ m = [k \in DOMAIN m |-> m[k]] /\ \A k \in keys : m[k] = of(k).value
  BY <1>1
<1>7. \A e \in Entry : Stored(d, {e}) > 0 => e.key \in DOMAIN m /\ m[e.key] = e.value
  BY <1>2, <1>5, <1>6
<1>8. IsMapIn(m, d)
  BY <1>4, <1>6, <1>7 DEF IsMapIn
<1> QED BY <1>8 DEF m

\* Each key of the map is that of an entry.
LEMMA MapHas ==
  ASSUME NEW d, DictKept(d), NEW m, IsMapIn(m, d), NEW k \in DOMAIN m
  PROVE  [key |-> k, value |-> m[k]] \in Entry /\ Stored(d, {[key |-> k, value |-> m[k]]}) > 0
<1>1. k \in DictKeys /\ Stored(d, Keyed(k)) > 0
  BY DEF IsMapIn
<1>2. PICK e \in Entry : e.key = k /\ Stored(d, {e}) > 0
  BY <1>1, EntriesStored
<1>3. m[k] = e.value
  BY <1>2 DEF IsMapIn
<1>4. e = [key |-> k, value |-> m[k]]
  BY <1>2, <1>3 DEF Entry
<1> QED BY <1>2, <1>4

LEMMA SameMap ==
  ASSUME NEW a, NEW b, DictKept(a), DictKept(b), \A T : Stored(b, T) = Stored(a, T)
  PROVE  MapIn(b) = MapIn(a)
<1>1. ToSet(Entries(b)) = ToSet(Entries(a))
  BY EntriesStored
<1> QED BY <1>1 DEF MapIn

\* Where no entry has key k, one with it adds k to the map, or the entry of k is replaced.
LEMMA SetMap ==
  ASSUME NEW a, NEW b, DictKept(a), DictKept(b), NEW k \in DictKeys, NEW v \in Values,
         Replaces(a, b, k, [key |-> k, value |-> v])
  PROVE  MapIn(b) = [x \in DOMAIN MapIn(a) \cup {k} |-> IF x = k THEN v ELSE MapIn(a)[x]]
<1> DEFINE m == MapIn(a)
           n == MapIn(b)
           e == [key |-> k, value |-> v]
<1>1. IsMapIn(m, a) /\ IsMapIn(n, b)
  BY MapInIs
<1>2. e \in Entry /\ e \in Keyed(k) /\ e.key = k /\ e.value = v
  BY DEF Entry, Keyed
<1>3. \A T : Stored(a, T) \in Nat /\ Stored(b, T) \in Nat
  BY EntriesAre DEF DictKept
<1>4. Replaces(a, b, k, e)
  OBVIOUS
<1> HIDE DEF m, n, e
<1>5. ASSUME NEW T, T \cap Keyed(k) = {} PROVE Stored(b, T) = Stored(a, T)
  <2>1. \A x \in Keyed(k) : x \notin T
    BY <1>5
  <2>2. Stored(a, T) \in Nat /\ e \notin T
    BY <1>2, <1>3, <2>1
  <2>3. CASE \A U : Stored(b, U) = Stored(a, U) + (IF e \in U THEN 1 ELSE 0)
    BY <2>2, <2>3
  <2>4. ASSUME NEW old \in Keyed(k),
               \A U : Stored(b, U) = Stored(a, U)
                   - (IF old \in U THEN 1 ELSE 0) + (IF e \in U THEN 1 ELSE 0)
        PROVE  Stored(b, T) = Stored(a, T)
    <3>1. Stored(b, T) = Stored(a, T) - (IF old \in T THEN 1 ELSE 0) + (IF e \in T THEN 1 ELSE 0)
      BY <2>4
    <3> QED BY <2>1, <2>2, <3>1
  <2> QED BY <1>4, <2>3, <2>4 DEF Replaces
<1>6. Stored(b, {e}) > 0
  <2>1. CASE \A T : Stored(b, T) = Stored(a, T) + (IF e \in T THEN 1 ELSE 0)
    <3>1. Stored(b, {e}) = Stored(a, {e}) + 1
      BY <2>1
    <3> QED BY <1>3, <3>1
  <2>2. ASSUME NEW old \in Keyed(k), Stored(a, {old}) = 1,
               \A T : Stored(b, T) = Stored(a, T)
                   - (IF old \in T THEN 1 ELSE 0) + (IF e \in T THEN 1 ELSE 0)
        PROVE  Stored(b, {e}) > 0
    <3>1. Stored(b, {e}) = Stored(a, {e}) - (IF old \in {e} THEN 1 ELSE 0) + 1
      BY <2>2
    <3>2. old \in {e} => Stored(a, {e}) = 1
      BY <2>2
    <3>3. Stored(a, {e}) \in Nat
      BY <1>3
    <3> QED BY <3>1, <3>2, <3>3
  <2> QED BY <1>4, <2>1, <2>2 DEF Replaces
<1>7. k \in DOMAIN n /\ n[k] = v
  BY <1>1, <1>2, <1>6 DEF IsMapIn
<1>8. ASSUME NEW x \in DictKeys, x # k PROVE x \in DOMAIN n <=> x \in DOMAIN m
  <2>1. Keyed(x) \cap Keyed(k) = {}
    BY <1>8 DEF Keyed
  <2>2. Stored(b, Keyed(x)) = Stored(a, Keyed(x))
    BY <1>5, <2>1
  <2> QED BY <1>1, <2>2 DEF IsMapIn
<1>9. DOMAIN n = DOMAIN m \cup {k}
  <2>1. DOMAIN n \subseteq DictKeys /\ DOMAIN m \subseteq DictKeys
    BY <1>1 DEF IsMapIn
  <2> QED BY <1>7, <1>8, <2>1
<1>10. ASSUME NEW x \in DOMAIN m, x # k PROVE n[x] = m[x]
  <2> DEFINE y == [key |-> x, value |-> m[x]]
  <2>1. y \in Entry /\ Stored(a, {y}) > 0
    BY <1>1, MapHas
  <2>2. {y} \cap Keyed(k) = {}
    BY <1>10 DEF Keyed
  <2>3. y.key = x /\ y.value = m[x]
    OBVIOUS
  <2> HIDE DEF y
  <2>4. Stored(b, {y}) > 0
    BY <1>5, <2>1, <2>2
  <2> QED BY <1>1, <2>1, <2>3, <2>4 DEF IsMapIn
<1> DEFINE at(x) == IF x = k THEN v ELSE m[x]
<1>11. \A x \in DOMAIN n : n[x] = at(x)
  BY <1>7, <1>9, <1>10
<1>12. n = [x \in DOMAIN n |-> n[x]]
  BY <1>1 DEF IsMapIn
<1> HIDE DEF at
<1>13. n = [x \in DOMAIN m \cup {k} |-> at(x)]
  BY <1>9, <1>11, <1>12
<1> QED BY <1>13 DEF at, n, m

LEMMA RemoveMap ==
  ASSUME NEW a, NEW b, DictKept(a), DictKept(b), NEW k \in DictKeys, NEW old \in Keyed(k),
         Stored(a, {old}) = 1, \A T : Stored(b, T) = Stored(a, T) - (IF old \in T THEN 1 ELSE 0)
  PROVE  MapIn(b) = Restrict(MapIn(a), DOMAIN MapIn(a) \ {k})
<1> DEFINE m == MapIn(a)
           n == MapIn(b)
<1>1. IsMapIn(m, a) /\ IsMapIn(n, b)
  BY MapInIs
<1>2. \A T : Stored(a, T) \in Nat /\ Stored(b, T) \in Nat
  BY EntriesAre DEF DictKept
<1> HIDE DEF m, n
<1>3. ASSUME NEW T, T \cap Keyed(k) = {} PROVE Stored(b, T) = Stored(a, T)
  <2>1. old \notin T
    BY <1>3
  <2> QED BY <1>2, <2>1
<1>4. k \notin DOMAIN n
  <2>1. Stored(b, Keyed(k)) = Stored(a, Keyed(k)) - 1 /\ Stored(a, Keyed(k)) \in Nat
    BY <1>2
  <2>2. Stored(a, Keyed(k)) =< 1
    BY DEF DictKept
  <2> QED BY <1>1, <2>1, <2>2 DEF IsMapIn
<1>5. ASSUME NEW x \in DictKeys, x # k PROVE x \in DOMAIN n <=> x \in DOMAIN m
  <2>1. Keyed(x) \cap Keyed(k) = {}
    BY <1>5 DEF Keyed
  <2>2. Stored(b, Keyed(x)) = Stored(a, Keyed(x))
    BY <1>3, <2>1
  <2> QED BY <1>1, <2>2 DEF IsMapIn
<1>6. DOMAIN n = DOMAIN m \ {k}
  <2>1. DOMAIN n \subseteq DictKeys /\ DOMAIN m \subseteq DictKeys
    BY <1>1 DEF IsMapIn
  <2> QED BY <1>4, <1>5, <2>1
<1>7. ASSUME NEW x \in DOMAIN m, x # k PROVE n[x] = m[x]
  <2> DEFINE y == [key |-> x, value |-> m[x]]
  <2>1. y \in Entry /\ Stored(a, {y}) > 0
    BY <1>1, MapHas
  <2>2. {y} \cap Keyed(k) = {}
    BY <1>7 DEF Keyed
  <2>3. y.key = x /\ y.value = m[x]
    OBVIOUS
  <2> HIDE DEF y
  <2>4. Stored(b, {y}) > 0
    BY <1>3, <2>1, <2>2
  <2> QED BY <1>1, <2>1, <2>3, <2>4 DEF IsMapIn
<1>8. n = [x \in DOMAIN n |-> n[x]]
  BY <1>1 DEF IsMapIn
<1>9. n = [x \in DOMAIN m \ {k} |-> m[x]]
  BY <1>6, <1>7, <1>8
<1> QED BY <1>9 DEF Restrict, n, m

\* A walk over the dict meets each key once.
LEMMA KeysListed ==
  ASSUME NEW d, DictKept(d), NEW keys, keys = [i \in DOMAIN Entries(d) |-> Entries(d)[i].key]
  PROVE  ToSet(keys) = DOMAIN MapIn(d) /\ Len(keys) = Cardinality(DOMAIN MapIn(d))
<1> DEFINE es == Entries(d)
           N == Len(es)
           D == DOMAIN MapIn(d)
<1>1. es \in Seq(Entry) /\ \A k \in DictKeys : Among(es, Keyed(k)) =< 1
  BY EntriesAre DEF DictKept, Stored
<1>2. N \in Nat /\ DOMAIN es = 1 .. N /\ \A i \in 1 .. N : es[i] \in Entry
  BY <1>1
<1>3. D = {e.key : e \in ToSet(es)}
  BY DEF MapIn
<1>4. ToSet(es) = {es[i] : i \in 1 .. N}
  BY <1>2 DEF ToSet
<1> HIDE DEF es, N, D
<1>5. keys = [i \in 1 .. N |-> es[i].key]
  BY <1>2 DEF es
<1>6. DOMAIN keys = 1 .. N /\ Len(keys) = N
  BY <1>2, <1>5
<1>7. ToSet(keys) = D
  <2>1. ToSet(keys) = {keys[i] : i \in 1 .. N}
    BY <1>6 DEF ToSet
  <2> QED BY <1>3, <1>4, <1>5, <2>1
<1>8. \A i \in 1 .. N : keys[i] \in D
  BY <1>3, <1>4, <1>5
<1>9. \A x \in D : \E i \in 1 .. N : keys[i] = x
  BY <1>3, <1>4, <1>5
<1>10. ASSUME NEW i \in 1 .. N, NEW j \in 1 .. N, keys[i] = keys[j] PROVE i = j
  <2> DEFINE k == es[i].key
  <2>1. es[i] \in Keyed(k) /\ es[j] \in Keyed(k) /\ k \in DictKeys
    <3>1. es[i] \in Entry /\ es[j] \in Entry /\ es[i].key = es[j].key
      BY <1>2, <1>5, <1>10
    <3> QED BY <3>1 DEF Keyed, Entry
  <2> HIDE DEF k
  <2>2. Among(es, Keyed(k)) =< 1 /\ i \in DOMAIN es /\ j \in DOMAIN es
    BY <1>1, <1>2, <2>1
  <2> QED BY <1>1, <2>1, <2>2, AmongOnce
<1>11. keys \in Bijection(1 .. N, D)
  <2>1. keys \in [1 .. N -> D]
    BY <1>5, <1>8
  <2>2. keys \in Injection(1 .. N, D)
    BY <1>10, <2>1 DEF Injection, IsInjective
  <2>3. keys \in Surjection(1 .. N, D)
    BY <1>9, <2>1 DEF Surjection
  <2> QED BY <2>2, <2>3 DEF Bijection
<1>12. Cardinality(D) = N
  <2>1. IsFiniteSet(1 .. N) /\ Cardinality(1 .. N) = N
    <3>1. 1 \in Int /\ N \in Int /\ 1 - 1 =< N
      BY <1>2
    <3> QED BY <1>2, FS_Interval
  <2>2. IsFiniteSet(D) /\ Cardinality(D) = Cardinality(1 .. N)
    <3>1. ExistsBijection(1 .. N, D)
      BY <1>11 DEF ExistsBijection
    <3> QED BY <2>1, <3>1, FS_Bijection
  <2> QED BY <2>1, <2>2
<1> QED BY <1>6, <1>7, <1>12 DEF D

-----------------------------------------------------------------------------
(* Every operation of a dict is that of the map.                            *)

\* The dict holds a reference for each entry that has a value.
DictInv ==
  /\ DictKept(dict)
  /\ dict_refs \in [Values -> Int] /\ \A v \in Values : dict_refs[v] = Stored(dict, Valued(v))

DictStays == DictInv' /\ [DictScript!Next]_DictScript!vars

LEMMA DictInvLater ==
  ASSUME HASH_SEED' = HASH_SEED, DictKept(dict'), dict_refs' \in [Values -> Int],
         \A v \in Values : dict_refs'[v] = Stored(dict', Valued(v))
  PROVE  DictInv'
BY DEF DictInv, DictKept, WellPlaced

LEMMA DictInvSame ==
  ASSUME DictInv, HASH_SEED' = HASH_SEED, dict' = dict, dict_refs' = dict_refs
  PROVE  DictInv'
BY DEF DictInv, DictKept, WellPlaced

LEMMA ScriptDoes ==
  ASSUME NEW k \in DictKeys,
         DictScript!Forget(k) \/ DictScript!Get(k) \/ \E v \in Values : DictScript!Set(k, v)
  PROVE  DictScript!Next
BY DEF DictScript!Next

LEMMA SameCount ==
  ASSUME NEW S
  PROVE  DictScript!Cardinality(S) = Cardinality(S)
BY DEF DictScript!Cardinality, Cardinality

LEMMA HeldIs ==
  ASSUME NEW d, DictKept(d), NEW v \in Values
  PROVE  Held(d, v) = Stored(d, Valued(v))
<1> DEFINE es == Entries(d)
<1>1. es \in Seq(Entry)
  BY EntriesAre DEF DictKept
<1>2. Held(d, v) = Cardinality({i \in DOMAIN es : es[i].value = v})
  BY DEF Held
<1> HIDE DEF es
<1>3. {i \in DOMAIN es : es[i].value = v} = Marks(es, Valued(v))
  <2>1. \A i \in DOMAIN es : es[i] \in Entry
    BY <1>1
  <2> QED BY <2>1 DEF Marks, Valued
<1> QED BY <1>2, <1>3 DEF Among, Stored, es

LEMMA OldIs ==
  ASSUME NEW k
  PROVE  Old(k) = Item(dict, k).value
BY DEF Old, Item

LEMMA DictInvIndexed == DictInv => Indexed
<1>1. SUFFICES ASSUME DictInv PROVE Indexed
  OBVIOUS
<1> DEFINE c == dict.capacity
           b == dict.buckets
           es == Entries(dict)
<1>2. /\ DictKept(dict) /\ b \in [Buckets(c) -> Seq(Entry)] /\ WellPlaced(b, c) /\ es \in Seq(Entry)
      /\ dict.size = Among(es, Entry) /\ \A k \in DictKeys : Among(es, Keyed(k)) =< 1
      /\ \A v \in Values : dict_refs[v] = Stored(dict, Valued(v))
  BY <1>1, EntriesAre DEF DictInv, DictKept, Shaped, Stored
<1>3. ASSUME NEW i \in Buckets(dict.capacity), NEW j \in DOMAIN dict.buckets[i]
      PROVE  Place(dict, dict.buckets[i][j].key) = i
  BY <1>2, <1>3 DEF WellPlaced, Place
<1>4. \A k \in DictKeys : Cardinality({i \in DOMAIN es : es[i].key = k}) =< 1
  <2> TAKE k \in DictKeys
  <2>1. {i \in DOMAIN es : es[i].key = k} = Marks(es, Keyed(k))
    <3>1. \A i \in DOMAIN es : es[i] \in Entry
      BY <1>2
    <3> HIDE DEF es
    <3> QED BY <3>1 DEF Marks, Keyed
  <2> QED BY <1>2, <2>1 DEF Among
<1>5. dict.size = Len(es)
  <2>1. Marks(es, Entry) = 1 .. Len(es) /\ Len(es) \in Nat
    <3> HIDE DEF es
    <3>1. DOMAIN es = 1 .. Len(es) /\ Len(es) \in Nat /\ \A i \in DOMAIN es : es[i] \in Entry
      BY <1>2
    <3> QED BY <3>1 DEF Marks
  <2> DEFINE n == Len(es)
  <2> HIDE DEF n
  <2>2. n \in Nat => Cardinality(1 .. n) = n
    <3>1. SUFFICES ASSUME n \in Nat PROVE Cardinality(1 .. n) = n
      OBVIOUS
    <3>2. 1 \in Int /\ n \in Int /\ 1 - 1 =< n
      BY <3>1
    <3> QED BY <3>1, <3>2, FS_Interval
  <2>3. n \in Nat /\ Among(es, Entry) = Cardinality(1 .. n)
    BY <2>1 DEF n, Among
  <2> QED BY <1>2, <2>2, <2>3 DEF n
<1>6. \A v \in Values : dict_refs[v] = Held(dict, v)
  BY <1>2, HeldIs
<1> QED BY <1>3, <1>4, <1>5, <1>6 DEF Indexed

LEMMA DictBegins ==
  ASSUME DictInit
  PROVE  DictInv /\ DictScript!Init
<1>1. /\ HASH_SEED \in Seeds /\ dict = dict_create
      /\ dict_refs = [v \in Values |-> 0] /\ dict_answer = <<>>
  BY DictConstants DEF DictInit
<1>2. DictKept(dict) /\ \A T : Stored(dict, T) = 0
  BY <1>1, CreateKept
<1>3. DictInv
  BY <1>1, <1>2 DEF DictInv
<1>4. MapIn(dict) = <<>>
  <2>1. \A e \in Entry : ~(Stored(dict, {e}) > 0)
    BY <1>2
  <2>2. ToSet(Entries(dict)) = {}
    BY <1>2, <2>1, EntriesStored
  <2> QED BY <2>2 DEF MapIn
<1>5. MapOf = <<>> /\ Told = <<>>
  BY <1>1, <1>4 DEF MapOf, MapIn, Told
<1> QED BY <1>3, <1>5 DEF DictScript!Init

\* set d[k] = v.
LEMMA DictSetStep ==
  ASSUME DictInv, NEW k \in DictKeys, NEW v \in Values, set_dict(k, v)
  PROVE  DictStays
<1> DEFINE e == [key |-> k, value |-> v]
           x == Item(dict, k)
           left == IF Found(dict, k) = {} THEN dict_refs ELSE [dict_refs EXCEPT ![Old(k)] = @ - 1]
<1>1. /\ dict' = dict_set(dict, k, v) /\ dict_refs' = [left EXCEPT ![v] = @ + 1]
      /\ dict_answer' = <<"set", k, v>> /\ HASH_SEED' = HASH_SEED
  BY DEF set_dict
<1>2. /\ DictKept(dict) /\ dict_refs \in [Values -> Int]
      /\ \A u \in Values : dict_refs[u] = Stored(dict, Valued(u))
      /\ \A T : Stored(dict, T) \in Nat
  BY EntriesAre DEF DictInv, DictKept
<1>3. /\ DictKept(dict') /\ Replaces(dict, dict', k, e)
      /\ Found(dict, k) # {} =>
           \A T : Stored(dict', T)
             = Stored(dict, T) - (IF x \in T THEN 1 ELSE 0) + (IF e \in T THEN 1 ELSE 0)
  BY <1>1, <1>2, SetKeeps
<1>4. /\ Found(dict, k) = {} <=> Stored(dict, Keyed(k)) = 0
      /\ Found(dict, k) # {} => x \in Keyed(k)
  BY <1>2, Searched
<1>5. e \in Entry /\ e.value = v
  BY DEF Entry
<1>6. Old(k) = x.value
  BY OldIs
<1> HIDE DEF e, x
<1>7. ASSUME NEW u \in Values PROVE e \in Valued(u) <=> u = v
  BY <1>5 DEF Valued
<1>8. dict_refs' \in [Values -> Int] /\ \A u \in Values : dict_refs'[u] = Stored(dict', Valued(u))
  <2>1. CASE Found(dict, k) = {}
    <3>1. \A T : Stored(dict', T) = Stored(dict, T) + (IF e \in T THEN 1 ELSE 0)
      <4>1. ASSUME NEW old \in Keyed(k), Stored(dict, {old}) = 1 PROVE FALSE
        <5>1. Entries(dict) \in Seq(Entry) /\ {old} \subseteq Keyed(k)
          BY <1>2, <4>1, EntriesAre DEF DictKept
        <5>2. Stored(dict, {old}) =< Stored(dict, Keyed(k))
          BY <5>1, AmongMore DEF Stored
        <5> QED BY <1>4, <2>1, <4>1, <5>2
      <4> QED BY <1>3, <4>1 DEF Replaces
    <3>2. dict_refs' = [dict_refs EXCEPT ![v] = @ + 1]
      BY <1>1, <2>1
    <3>3. dict_refs' \in [Values -> Int]
            /\ \A u \in Values : dict_refs'[u] = dict_refs[u] + (IF u = v THEN 1 ELSE 0)
      BY <1>2, <3>2
    <3>4. \A u \in Values : Stored(dict', Valued(u)) = Stored(dict, Valued(u))
              + (IF u = v THEN 1 ELSE 0)
      BY <1>7, <3>1
    <3> QED BY <1>2, <3>3, <3>4
  <2>2. CASE Found(dict, k) # {}
    <3>1. \A T : Stored(dict', T) = Stored(dict, T)
              - (IF x \in T THEN 1 ELSE 0) + (IF e \in T THEN 1 ELSE 0)
      BY <1>3, <2>2
    <3>2. left = [dict_refs EXCEPT ![Old(k)] = @ - 1]
      BY <2>2
    <3> HIDE DEF left
    <3>3. x \in Entry /\ Old(k) \in Values /\ \A u \in Values : x \in Valued(u) <=> u = Old(k)
      BY <1>4, <1>6, <2>2 DEF Keyed, Entry, Valued
    <3>4. left \in [Values -> Int]
            /\ \A u \in Values : left[u] = dict_refs[u] - (IF u = Old(k) THEN 1 ELSE 0)
      BY <1>2, <3>2, <3>3
    <3>5. dict_refs' \in [Values -> Int]
            /\ \A u \in Values : dict_refs'[u] = left[u] + (IF u = v THEN 1 ELSE 0)
      BY <1>1, <3>4
    <3>6. \A u \in Values : Stored(dict', Valued(u))
            = Stored(dict, Valued(u)) - (IF u = Old(k) THEN 1 ELSE 0) + (IF u = v THEN 1 ELSE 0)
      BY <1>7, <3>1, <3>3
    <3> QED BY <1>2, <3>4, <3>5, <3>6
  <2> QED BY <2>1, <2>2
<1>9. DictInv'
  BY <1>1, <1>3, <1>8, DictInvLater
<1>10. MapOf' = [y \in DOMAIN MapOf \cup {k} |-> IF y = k THEN v ELSE MapOf[y]]
  <2>1. MapIn(dict') = [y \in DOMAIN MapIn(dict) \cup {k} |-> IF y = k THEN v ELSE MapIn(dict)[y]]
    BY <1>2, <1>3, SetMap DEF e
  <2> QED BY <2>1 DEF MapOf, MapIn
<1>11. Told' = <<"set", k, v>>
  BY <1>1 DEF Told
<1>12. DictScript!Set(k, v)
  BY <1>10, <1>11 DEF DictScript!Set
<1>13. DictScript!Next
  BY <1>12, ScriptDoes
<1> QED BY <1>9, <1>13 DEF DictStays

\* A search answers what the map has for the key.
LEMMA DictGetStep ==
  ASSUME DictInv, NEW k \in DictKeys, get_dict(k)
  PROVE  DictStays
<1>1. /\ dict_answer' = <<"get", k, IF Found(dict, k) = {} THEN None ELSE Old(k)>>
      /\ HASH_SEED' = HASH_SEED /\ dict' = dict /\ dict_refs' = dict_refs
  BY DEF get_dict
<1>2. DictKept(dict) /\ DictInv'
  BY <1>1, DictInvSame DEF DictInv
<1>3. MapOf' = MapOf /\ MapOf = MapIn(dict)
  BY <1>1 DEF MapOf, MapIn
<1>4. IsMapIn(MapOf, dict)
  BY <1>2, <1>3, MapInIs
<1>5. /\ Found(dict, k) = {} <=> k \notin DOMAIN MapOf
      /\ Found(dict, k) # {} => Old(k) = MapOf[k]
  <2> DEFINE x == Item(dict, k)
  <2>1. /\ Found(dict, k) = {} <=> Stored(dict, Keyed(k)) = 0
        /\ Found(dict, k) # {} => x \in Keyed(k) /\ Stored(dict, {x}) = 1
    BY <1>2, Searched
  <2>2. Stored(dict, Keyed(k)) \in Nat
    BY <1>2, EntriesAre DEF DictKept
  <2>3. Old(k) = x.value
    BY OldIs
  <2> HIDE DEF x
  <2>4. k \in DOMAIN MapOf <=> Stored(dict, Keyed(k)) > 0
    BY <1>4 DEF IsMapIn
  <2>5. ASSUME Found(dict, k) # {} PROVE MapOf[k] = x.value
    <3>1. x \in Entry /\ x.key = k /\ Stored(dict, {x}) > 0
      BY <2>1, <2>5 DEF Keyed
    <3> QED BY <1>4, <3>1 DEF IsMapIn
  <2> QED BY <2>1, <2>2, <2>3, <2>4, <2>5
<1>6. Told' = <<"get", k, IF k \in DOMAIN MapOf THEN MapOf[k] ELSE None>>
  BY <1>1, <1>5 DEF Told
<1>7. DictScript!Get(k)
  BY <1>3, <1>6 DEF DictScript!Get
<1>8. DictScript!Next
  BY <1>7, ScriptDoes
<1> QED BY <1>2, <1>8 DEF DictStays

\* The removed key leaves the map, and the rest of its chain stays.
LEMMA DictRemoveStep ==
  ASSUME DictInv, NEW k \in DictKeys, native_rem_dict(k)
  PROVE  DictStays
<1> DEFINE x == Item(dict, k)
<1>1. dict_answer' = <<"remove", k>> /\ HASH_SEED' = HASH_SEED
  BY DEF native_rem_dict
<1>2. /\ DictKept(dict) /\ dict_refs \in [Values -> Int]
      /\ \A u \in Values : dict_refs[u] = Stored(dict, Valued(u))
      /\ \A T : Stored(dict, T) \in Nat
  BY EntriesAre DEF DictInv, DictKept
<1>3. /\ Found(dict, k) = {} <=> Stored(dict, Keyed(k)) = 0
      /\ Found(dict, k) # {} => x \in Keyed(k) /\ Stored(dict, {x}) = 1
  BY <1>2, Searched
<1>4. MapOf = MapIn(dict) /\ MapOf' = MapIn(dict')
  BY DEF MapOf, MapIn
<1>5. IsMapIn(MapOf, dict)
  BY <1>2, <1>4, MapInIs
<1>6. Told' = <<"remove", k>>
  BY <1>1 DEF Told
<1>7. CASE Found(dict, k) = {}
  <2>1. dict' = dict /\ dict_refs' = dict_refs
    BY <1>7 DEF native_rem_dict
  <2>2. DictInv'
    BY <1>1, <2>1, DictInvSame
  <2>3. k \notin DOMAIN MapOf /\ MapOf = [y \in DOMAIN MapOf |-> MapOf[y]]
    BY <1>3, <1>5, <1>7 DEF IsMapIn
  <2>4. MapOf' = Restrict(MapOf, DOMAIN MapOf \ {k})
    <3>1. MapOf' = MapOf /\ DOMAIN MapOf \ {k} = DOMAIN MapOf
      BY <1>4, <2>1, <2>3
    <3> QED BY <2>3, <3>1 DEF Restrict
  <2>5. DictScript!Forget(k)
    BY <1>6, <2>4 DEF DictScript!Forget, DictScript!Restrict, Restrict
  <2> QED BY <2>2, <2>5 DEF DictStays, DictScript!Next
<1>8. CASE Found(dict, k) # {}
  <2>1. dict' = UnlinkEntry(dict, k) /\ dict_refs' = [dict_refs EXCEPT ![Old(k)] = @ - 1]
    BY <1>8 DEF native_rem_dict
  <2>2. DictKept(dict') /\ \A T : Stored(dict', T) = Stored(dict, T) - (IF x \in T THEN 1 ELSE 0)
    BY <1>2, <1>8, <2>1, RemoveKeeps
  <2>3. Old(k) = x.value
    BY OldIs
  <2> HIDE DEF x
  <2>4. Old(k) \in Values /\ \A u \in Values : x \in Valued(u) <=> u = Old(k)
    BY <1>3, <1>8, <2>3 DEF Keyed, Entry, Valued
  <2>5. dict_refs' \in [Values -> Int]
          /\ \A u \in Values : dict_refs'[u] = dict_refs[u] - (IF u = Old(k) THEN 1 ELSE 0)
    BY <1>2, <2>1, <2>4
  <2>6. \A u \in Values : dict_refs'[u] = Stored(dict', Valued(u))
    BY <1>2, <2>2, <2>4, <2>5
  <2>7. DictInv'
    BY <1>1, <2>2, <2>5, <2>6, DictInvLater
  <2>8. MapOf' = Restrict(MapOf, DOMAIN MapOf \ {k})
    BY <1>2, <1>3, <1>4, <1>8, <2>2, RemoveMap
  <2>9. DictScript!Forget(k)
    BY <1>6, <2>8 DEF DictScript!Forget, DictScript!Restrict, Restrict
  <2> QED BY <2>7, <2>9 DEF DictStays, DictScript!Next
<1> QED BY <1>7, <1>8

LEMMA DictKeysStep ==
  ASSUME DictInv, native_keys_dict
  PROVE  DictStays
<1> DEFINE keys == [i \in DOMAIN Entries(dict) |-> Entries(dict)[i].key]
<1>1. /\ dict_answer' = <<"keys", keys>>
      /\ HASH_SEED' = HASH_SEED /\ dict' = dict /\ dict_refs' = dict_refs
  BY DEF native_keys_dict
<1>2. DictKept(dict) /\ DictInv'
  BY <1>1, DictInvSame DEF DictInv
<1>3. MapOf' = MapOf /\ MapOf = MapIn(dict)
  BY <1>1 DEF MapOf, MapIn
<1>4. ToSet(keys) = DOMAIN MapOf /\ Len(keys) = Cardinality(DOMAIN MapOf)
  BY <1>2, <1>3, KeysListed
<1> HIDE DEF keys
<1>5. Told' = <<"keys", DOMAIN MapOf, Cardinality(DOMAIN MapOf)>>
  <2>1. dict_answer' # <<>> /\ dict_answer'[1] = "keys" /\ dict_answer'[2] = keys
    BY <1>1
  <2> QED BY <1>4, <2>1 DEF Told
<1>6. DictScript!AllKeys
  BY <1>3, <1>5, SameCount DEF DictScript!AllKeys
<1> QED BY <1>2, <1>6 DEF DictStays, DictScript!Next

LEMMA DictCopyStep ==
  ASSUME DictInv, dict_copy
  PROVE  DictStays
<1>1. /\ dict' = Copied(dict) /\ dict_answer' = <<"copy">>
      /\ HASH_SEED' = HASH_SEED /\ dict_refs' = dict_refs
  BY DEF dict_copy
<1>2. DictKept(dict) /\ DictKept(dict') /\ \A T : Stored(dict', T) = Stored(dict, T)
  BY <1>1, CopyKeeps DEF DictInv
<1>3. DictInv'
  <2>1. /\ dict_refs' \in [Values -> Int]
        /\ \A v \in Values : dict_refs'[v] = Stored(dict', Valued(v))
    BY <1>1, <1>2 DEF DictInv
  <2> QED BY <1>1, <1>2, <2>1, DictInvLater
<1>4. MapOf' = MapOf
  <2>1. MapIn(dict') = MapIn(dict)
    BY <1>2, SameMap
  <2> QED BY <2>1 DEF MapOf, MapIn
<1>5. Told' = <<"copy">>
  BY <1>1 DEF Told
<1>6. DictScript!CopyOf
  BY <1>4, <1>5 DEF DictScript!CopyOf
<1> QED BY <1>3, <1>6 DEF DictStays, DictScript!Next

LEMMA DictFreeStep ==
  ASSUME DictInv, dict_free
  PROVE  DictStays
<1>1. /\ dict' = dict_create /\ dict_answer' = <<"clear">> /\ HASH_SEED' = HASH_SEED
      /\ dict_refs' = [v \in Values |-> dict_refs[v] - Held(dict, v)]
  BY DEF dict_free
<1>2. /\ DictKept(dict) /\ \A v \in Values : dict_refs[v] = Stored(dict, Valued(v))
      /\ \A T : Stored(dict, T) \in Nat
  BY EntriesAre DEF DictInv, DictKept
<1>3. DictKept(dict') /\ \A T : Stored(dict', T) = 0
  BY <1>1, <1>2, CreateKept DEF DictKept
<1>4. \A v \in Values : dict_refs[v] - Held(dict, v) = 0
  <2> TAKE v \in Values
  <2>1. dict_refs[v] = Stored(dict, Valued(v)) /\ Stored(dict, Valued(v)) \in Nat
    BY <1>2
  <2>2. Held(dict, v) = Stored(dict, Valued(v))
    BY <1>2, HeldIs
  <2> QED BY <2>1, <2>2
<1>5. DictInv'
  <2>1. /\ dict_refs' \in [Values -> Int]
        /\ \A v \in Values : dict_refs'[v] = Stored(dict', Valued(v))
    BY <1>1, <1>3, <1>4
  <2> QED BY <1>1, <1>3, <2>1, DictInvLater
<1>6. MapIn(dict') = <<>>
  <2>1. \A e \in Entry : ~(Stored(dict', {e}) > 0)
    BY <1>3
  <2>2. ToSet(Entries(dict')) = {}
    BY <1>3, <2>1, EntriesStored
  <2> QED BY <2>2 DEF MapIn
<1>7. MapOf' = <<>> /\ Told' = <<"clear">>
  BY <1>1, <1>6 DEF MapOf, MapIn, Told
<1>8. DictScript!Clear
  BY <1>7 DEF DictScript!Clear
<1> QED BY <1>5, <1>8 DEF DictStays, DictScript!Next

\* Where no key is stored, another seed finds them all.
LEMMA DictSeedStep ==
  ASSUME ~Reseeds, DictInv, NEW seed \in Seeds, native_hash_set_seed(seed)
  PROVE  DictStays
<1> DEFINE c == dict.capacity
           b == dict.buckets
<1>1. /\ dict.size = 0 /\ HASH_SEED' = seed
      /\ dict' = dict /\ dict_refs' = dict_refs /\ dict_answer' = dict_answer
  BY DEF native_hash_set_seed
<1>2. Shaped(dict) /\ c \in Nat \ {0} /\ b \in [Buckets(c) -> Seq(Entry)] /\ Stored(dict, Entry) = 0
  BY <1>1 DEF DictInv, DictKept, Shaped
<1>3. Entries(dict) = Flat(b, c)
  BY <1>2, EntriesAre
<1>4. \A i \in Buckets(c) : DOMAIN b[i] = {}
  <2> TAKE i \in Buckets(c)
  <2>1. b[i] \in Seq(Entry)
    BY <1>2
  <2>2. Among(b[i], Entry) =< Among(Flat(b, c), Entry) /\ Among(Flat(b, c), Entry) = 0
    <3>1. Among(Flat(b, c), Entry) = 0
      BY <1>2, <1>3 DEF Stored
    <3> HIDE DEF b, c
    <3> QED BY <1>2, <3>1, FlatCounts
  <2> HIDE DEF b
  <2>3. \A j \in DOMAIN b[i] : b[i][j] \in Entry
    BY <2>1
  <2>4. /\ Among(b[i], Entry) \in Nat
        /\ Among(b[i], Entry) > 0 <=> \E j \in DOMAIN b[i] : b[i][j] \in Entry
    BY <2>1, AmongOf
  <2> QED BY <2>2, <2>3, <2>4
<1>5. WellPlaced(b, c)'
  BY <1>1, <1>4 DEF WellPlaced
<1>6. DictInv'
  BY <1>1, <1>5 DEF DictInv, DictKept
<1>7. MapOf' = MapOf /\ Told' = Told
  BY <1>1 DEF MapOf, Told
<1> QED BY <1>6, <1>7 DEF DictStays, DictScript!vars

LEMMA DictStep == ASSUME ~Reseeds PROVE DictInv /\ [DictNext]_dict_vars => DictStays
<1>1. SUFFICES ASSUME DictInv, [DictNext]_dict_vars PROVE DictStays
  OBVIOUS
<1>2. CASE dict_answer = <<>> /\ AskDict
  <2>1. ASSUME NEW k \in DictKeys,
               get_dict(k) \/ native_rem_dict(k) \/ \E v \in Values : set_dict(k, v)
        PROVE  DictStays
    <3>1. CASE get_dict(k)
      BY <1>1, <3>1, DictGetStep
    <3>2. CASE native_rem_dict(k)
      BY <1>1, <3>2, DictRemoveStep
    <3>3. ASSUME NEW v \in Values, set_dict(k, v) PROVE DictStays
      BY <1>1, <3>3, DictSetStep
    <3> QED BY <2>1, <3>1, <3>2, <3>3
  <2>2. ASSUME native_keys_dict \/ dict_copy \/ dict_free PROVE DictStays
    BY <1>1, <2>2, DictKeysStep, DictCopyStep, DictFreeStep
  <2>3. ASSUME NEW seed \in Seeds, native_hash_set_seed(seed) PROVE DictStays
    BY <1>1, <2>3, DictSeedStep
  <2> QED BY <1>2, <2>1, <2>2, <2>3 DEF AskDict
<1>3. CASE TakeDict
  <2>1. dict_answer' = <<>> /\ HASH_SEED' = HASH_SEED /\ dict' = dict /\ dict_refs' = dict_refs
    BY <1>3 DEF TakeDict
  <2>2. DictInv'
    BY <1>1, <2>1, DictInvSame
  <2>3. MapOf' = MapOf /\ Told' = <<>>
    BY <2>1 DEF MapOf, Told
  <2>4. DictScript!Take
    BY <2>3 DEF DictScript!Take
  <2> QED BY <2>2, <2>4 DEF DictStays, DictScript!Next
<1>4. CASE UNCHANGED dict_vars
  <2>1. /\ dict_answer' = dict_answer /\ HASH_SEED' = HASH_SEED
        /\ dict' = dict /\ dict_refs' = dict_refs
    BY <1>4 DEF dict_vars
  <2>2. DictInv'
    BY <1>1, <2>1, DictInvSame
  <2>3. MapOf' = MapOf /\ Told' = Told
    BY <2>1 DEF MapOf, Told
  <2> QED BY <2>2, <2>3 DEF DictStays, DictScript!vars
<1> QED BY <1>1, <1>2, <1>3, <1>4 DEF DictNext

\* To a script the dict is a map: through collisions, resizes, removals and copies a key is
\* found with the value that was set last, and listed once (ml_dict.c), for every hash
\* function and every capacity - as long as no script sets the seed when it has stored keys.
THEOREM DictImplementsMap == ASSUME ~Reseeds PROVE DictSpec => ImplementsValueMap
<1>1. DictInit => DictInv /\ DictScript!Init
  BY DictBegins
<1>2. DictInv /\ [DictNext]_dict_vars => DictInv' /\ [DictScript!Next]_DictScript!vars
  BY DictStep DEF DictStays
<1> QED BY <1>1, <1>2, PTL DEF DictSpec, ImplementsValueMap, DictScript!Spec

\* A list and a dict that a script uses are both sound: the links, the tail and the size of
\* the list agree, every entry of the dict is where a search for its key looks, once, and
\* counted, and neither keeps a reference that it has not got (ml_ll.c, ml_dict.c) - as
\* long as no script does what ListSlips names, or sets the seed when it has stored keys.
THEOREM ContainersAreSound ==
  ASSUME ListSlips = {}, ~Reseeds PROVE ListSpec /\ DictSpec => []ContainersSound
<1>1. DictInit => DictInv
  BY DictBegins
<1>2. DictInv /\ [DictNext]_dict_vars => DictInv'
  BY DictStep DEF DictStays
<1>3. DictInv => Indexed
  BY DictInvIndexed
<1>4. DictSpec => []Indexed
  BY <1>1, <1>2, <1>3, PTL DEF DictSpec
<1>5. ListSpec => []Sound
  BY ListIsSound
<1>6. Sound /\ Indexed => ContainersSound
  BY DEF ContainersSound
<1> QED BY <1>4, <1>5, <1>6, PTL
=============================================================================

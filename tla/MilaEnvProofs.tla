--------------------------- MODULE MilaEnvProofs ----------------------------
(***************************************************************************)
(* Proofs about MilaEnv, for every number of cells, names, slots, nested   *)
(* Envs and references.  The state splits in two: the heap, whose counts   *)
(* must agree with a census of the places, and the places themselves.      *)
(* A step changes a few places; the lemmas on Count say what that does to  *)
(* the census, the lemmas on the heap operators say that the calls the     *)
(* handler makes do the same to the counts.                                *)
(*                                                                         *)
(* Then, that MilaEnv implements MilaScopes and constants keep their       *)
(* values: a handler changes the contents of a cell only when it takes it  *)
(* or when nothing refers to it any more, so a place that refers after a   *)
(* step to what a place referred to before has the same contents.          *)
(***************************************************************************)
EXTENDS MilaEnv, FiniteSetTheorems, TLAPS

-----------------------------------------------------------------------------
(* The census.                                                              *)

Refs == Cells \cup {NoVar, Null}

\* How many places of f refer to each cell.
Count(f) == [c \in Cells |-> Cardinality({q \in Places : f[q] = c})]

Plus(u, v)  == IF v \in Cells THEN [u EXCEPT ![v] = @ + 1] ELSE u
Minus(u, v) == IF v \in Cells THEN [u EXCEPT ![v] = @ - 1] ELSE u

LEMMA PlacesFinite == IsFiniteSet(Places)
<1>1. IsFiniteSet(Depths)
  BY FS_Interval, EnvAssumption DEF Depths
<1>2. IsFiniteSet(Locals)
  BY FS_Union, EnvAssumption DEF Locals
<1> QED
  BY <1>1, <1>2, FS_Product DEF Places

LEMMA CountType ==
  ASSUME NEW f
  PROVE  Count(f) \in [Cells -> Nat]
<1>1. \A c \in Cells : IsFiniteSet({q \in Places : f[q] = c})
  BY PlacesFinite, FS_Subset
<1> QED
  BY <1>1, FS_CardinalityType DEF Count

\* One place changes: one cell loses a holder, another gains one.
LEMMA CountMove ==
  ASSUME NEW f \in [Places -> Refs], NEW p \in Places, NEW v \in Refs
  PROVE  Count([f EXCEPT ![p] = v]) = Plus(Minus(Count(f), f[p]), v)
<1> DEFINE g == [f EXCEPT ![p] = v]
           H(c) == {q \in Places : f[q] = c}
           G(c) == {q \in Places : g[q] = c}
<1>1. ASSUME NEW c \in Cells
      PROVE  Cardinality(G(c)) = Plus(Minus(Count(f), f[p]), v)[c]
  <2>1. IsFiniteSet(H(c)) /\ IsFiniteSet(H(c) \ {p})
    BY PlacesFinite, FS_Subset
  <2>2. Cardinality(H(c)) \in Nat /\ Cardinality(H(c) \ {p}) \in Nat
    BY <2>1, FS_CardinalityType
  <2>3. Cardinality(H(c) \ {p}) = IF f[p] = c THEN Cardinality(H(c)) - 1 ELSE Cardinality(H(c))
    BY <2>1, FS_RemoveElement
  <2>4. G(c) = IF v = c THEN (H(c) \ {p}) \cup {p} ELSE H(c) \ {p}
    OBVIOUS
  <2>5. Cardinality((H(c) \ {p}) \cup {p}) = Cardinality(H(c) \ {p}) + 1
    BY <2>1, FS_AddElement
  <2>6. Cardinality(G(c)) = (IF f[p] = c THEN Cardinality(H(c)) - 1 ELSE Cardinality(H(c)))
                              + (IF v = c THEN 1 ELSE 0)
    <3> HIDE DEF H, G
    <3> QED BY <2>2, <2>3, <2>4, <2>5
  <2>7. Count(f)[c] = Cardinality(H(c)) /\ Count(f) \in [Cells -> Nat]
    BY CountType DEF Count
  <2>8. Minus(Count(f), f[p])[c] = IF f[p] = c THEN Cardinality(H(c)) - 1 ELSE Cardinality(H(c))
    BY <2>7 DEF Minus
  <2>9. Minus(Count(f), f[p]) \in [Cells -> Int]
    BY <2>7 DEF Minus
  <2> HIDE DEF H, G
  <2> QED
    BY <2>2, <2>6, <2>8, <2>9 DEF Plus
<1>2. Count(g) = [c \in Cells |-> Cardinality(G(c))]
  BY DEF Count
<1>3. Plus(Minus(Count(f), f[p]), v) = [c \in Cells |-> Plus(Minus(Count(f), f[p]), v)[c]]
  BY CountType DEF Plus, Minus
<1> QED
  BY <1>1, <1>2, <1>3

LEMMA CountHeld ==
  ASSUME NEW f \in [Places -> Refs], NEW p \in Places, f[p] \in Cells
  PROVE  Count(f)[f[p]] > 0
<1> DEFINE H == {q \in Places : f[q] = f[p]}
<1>1. IsFiniteSet(H) /\ p \in H
  BY PlacesFinite, FS_Subset
<1>2. Cardinality(H) # 0 /\ Cardinality(H) \in Nat
  BY <1>1, FS_EmptySet, FS_CardinalityType
<1> QED
  BY <1>2 DEF Count

\* What another place refers to is still held when one place changes.
LEMMA CountOther ==
  ASSUME NEW f \in [Places -> Refs], NEW p \in Places, NEW r \in Places, p # r,
         f[r] \in Cells
  PROVE  Minus(Count(f), f[p])[f[r]] > 0
<1> DEFINE g == [f EXCEPT ![p] = NoVar]
<1>1. g \in [Places -> Refs] /\ g[r] = f[r]
  BY DEF Refs
<1>2. Count(g)[f[r]] > 0
  BY <1>1, CountHeld
<1>3. Count(g) = Plus(Minus(Count(f), f[p]), NoVar)
  BY CountMove DEF Refs
<1> QED
  BY <1>2, <1>3, EnvAssumption DEF Plus

-----------------------------------------------------------------------------
(* The heap.                                                                *)

HeapType == [refs : [Cells -> Nat], data : [Cells -> Payloads \cup {NoVar}],
             lost : [Cells -> Nat], fault : BOOLEAN, aborted : BOOLEAN]

\* The counts of h agree with the census u, and nothing has gone wrong.
Sound(h, u) ==
  /\ h \in HeapType
  /\ u \in [Cells -> Nat]
  /\ ~h.fault
  /\ \A c \in Cells : h.refs[c] = u[c] + h.lost[c]
  /\ \A c \in Cells : h.data[c] = NoVar <=> h.refs[c] = 0
  /\ \A c \in Cells : h.refs[c] <= MaxRefs /\ (h.refs[c] = MaxRefs => h.aborted)

LEMMA RetainSound ==
  ASSUME NEW h, NEW u, Sound(h, u), ~h.aborted, NEW v, v \in Cells => u[v] > 0
  PROVE  Sound(Retain(h, v), Plus(u, v))
<1>1. CASE v \notin Cells
  BY <1>1 DEF Plus, Retain, Counted
<1>2. CASE v \in Cells
  <2>1. /\ h.refs[v] \in Nat /\ h.refs[v] > 0 /\ h.refs[v] < MaxRefs /\ MaxRefs \in Nat
        /\ h \in HeapType /\ h.refs \in [Cells -> Nat] /\ h.lost \in [Cells -> Nat]
    BY <1>2, EnvAssumption DEF Sound, HeapType
  <2> DEFINE k == Retain(h, v)
             r == [h.refs EXCEPT ![v] = @ + 1]
             f == (h.fault \/ h.refs[v] = 0)
             a == (h.aborted \/ h.refs[v] + 1 >= MaxRefs)
  <2>2. k = [h EXCEPT !.refs = r, !.fault = f, !.aborted = a]
    BY <1>2, <2>1 DEF Retain, Counted, WeakTrigger
  <2>3. r \in [Cells -> Nat]
    BY <1>2, <2>1
  <2>4. ~f /\ (a <=> h.refs[v] + 1 >= MaxRefs)
    BY <2>1 DEF Sound
  <2>5. \A c \in Cells : r[c] = IF c = v THEN h.refs[c] + 1 ELSE h.refs[c]
    BY <2>1
  <2>6. Plus(u, v) = [u EXCEPT ![v] = @ + 1]
    BY <1>2 DEF Plus
  <2> HIDE DEF k, r, f, a
  <2>a. f \in BOOLEAN /\ a \in BOOLEAN
    BY Zenon DEF f, a
  <2>7. /\ k \in HeapType
        /\ k.refs = r /\ k.data = h.data /\ k.lost = h.lost /\ k.fault = f /\ k.aborted = a
    BY <2>1, <2>2, <2>3, <2>a DEF HeapType
  <2>8. Sound(k, Plus(u, v))
    BY <1>2, <2>1, <2>4, <2>5, <2>6, <2>7 DEF Sound
  <2> QED BY <2>8 DEF k
<1> QED BY <1>1, <1>2

LEMMA ReleaseSound ==
  ASSUME NEW h, NEW u, Sound(h, u), ~h.aborted, NEW v, v \in Cells => u[v] > 0
  PROVE  Sound(Release(h, v), Minus(u, v)) /\ ~Release(h, v).aborted
<1>1. CASE v \notin Cells
  BY <1>1 DEF Minus, Release, Counted
<1>2. CASE v \in Cells
  <2>1. /\ h.refs[v] \in Nat /\ h.refs[v] > 0 /\ h.refs[v] < MaxRefs /\ MaxRefs \in Nat
        /\ h \in HeapType /\ h.refs \in [Cells -> Nat] /\ h.lost \in [Cells -> Nat]
    BY <1>2, EnvAssumption DEF Sound, HeapType
  <2>b. h.data \in [Cells -> Payloads \cup {NoVar}]
    BY DEF Sound, HeapType
  <2> DEFINE k == Release(h, v)
             r == [h.refs EXCEPT ![v] = IF @ = 0 THEN 0 ELSE @ - 1]
             d == [h.data EXCEPT ![v] = IF h.refs[v] <= 1 THEN NoVar ELSE @]
             f == (h.fault \/ h.refs[v] = 0)
  <2>2. k = [h EXCEPT !.refs = r, !.data = d, !.fault = f]
    BY <1>2, <2>1 DEF Release, Counted, WeakTrigger
  <2>3. r \in [Cells -> Nat] /\ d \in [Cells -> Payloads \cup {NoVar}]
    BY <1>2, <2>1, <2>b
  <2>4. ~f
    BY <2>1 DEF Sound
  <2>5. \A c \in Cells : /\ r[c] = IF c = v THEN h.refs[c] - 1 ELSE h.refs[c]
                         /\ d[c] = IF c = v /\ h.refs[c] = 1 THEN NoVar ELSE h.data[c]
    BY <2>1, <2>b
  <2>6. Minus(u, v) = [u EXCEPT ![v] = @ - 1]
    BY <1>2 DEF Minus
  <2> HIDE DEF k, r, d, f
  <2>a. f \in BOOLEAN
    BY Zenon DEF f
  <2>7. /\ k \in HeapType
        /\ k.refs = r /\ k.data = d /\ k.lost = h.lost /\ k.fault = f /\ k.aborted = h.aborted
    BY <2>b, <2>1, <2>2, <2>3, <2>a DEF HeapType
  <2>8. Sound(k, Minus(u, v))
    BY <1>2, <2>1, <2>b, <2>4, <2>5, <2>6, <2>7 DEF Sound
  <2> QED BY <2>7, <2>8 DEF k
<1> QED BY <1>1, <1>2

LEMMA AllocSound ==
  ASSUME NEW h, NEW u, Sound(h, u), ~h.aborted, NEW c \in Cells, NEW x \in Payloads, Free(h, c)
  PROVE  Sound(Alloc(h, c, x), Plus(u, c)) /\ ~Alloc(h, c, x).aborted
<1>1. /\ u[c] = 0 /\ h.lost[c] = 0
      /\ h \in HeapType /\ h.refs \in [Cells -> Nat] /\ h.lost \in [Cells -> Nat]
      /\ h.data \in [Cells -> Payloads \cup {NoVar}]
  BY DEF Sound, HeapType, Free
<1> DEFINE k == Alloc(h, c, x)
           r == [h.refs EXCEPT ![c] = 1]
           d == [h.data EXCEPT ![c] = x]
<1>2. k = [h EXCEPT !.refs = r, !.data = d]
  BY DEF Alloc
<1>3. r \in [Cells -> Nat] /\ d \in [Cells -> Payloads \cup {NoVar}]
  BY <1>1
<1>4. \A e \in Cells : /\ r[e] = IF e = c THEN 1 ELSE h.refs[e]
                       /\ d[e] = IF e = c THEN x ELSE h.data[e]
  BY <1>1
<1>5. Plus(u, c) = [u EXCEPT ![c] = @ + 1]
  BY DEF Plus
<1> HIDE DEF k, r, d
<1>6. /\ k \in HeapType
      /\ k.refs = r /\ k.data = d /\ k.lost = h.lost /\ k.fault = h.fault /\ k.aborted = h.aborted
  BY <1>1, <1>2, <1>3 DEF HeapType
<1>a. 1 < MaxRefs /\ MaxRefs \in Nat /\ x # NoVar
  BY EnvAssumption
<1>7. Sound(k, Plus(u, c))
  BY <1>1, <1>4, <1>5, <1>6, <1>a DEF Sound
<1> QED BY <1>6, <1>7 DEF k

LEMMA LoseSound ==
  ASSUME NEW h, NEW u, Sound(h, u), NEW c \in Cells, u[c] > 0
  PROVE  Sound(Lose(h, c), Minus(u, c))
<1>1. h \in HeapType /\ h.lost \in [Cells -> Nat] /\ h.refs \in [Cells -> Nat]
  BY DEF Sound, HeapType
<1> DEFINE k == Lose(h, c)
           l == [h.lost EXCEPT ![c] = @ + 1]
<1>2. k = [h EXCEPT !.lost = l]
  BY DEF Lose
<1>3. l \in [Cells -> Nat]
  BY <1>1
<1>4. \A e \in Cells : l[e] = IF e = c THEN h.lost[e] + 1 ELSE h.lost[e]
  BY <1>1
<1>5. Minus(u, c) = [u EXCEPT ![c] = @ - 1]
  BY DEF Minus
<1> HIDE DEF k, l
<1>6. /\ k \in HeapType
      /\ k.refs = h.refs /\ k.data = h.data /\ k.lost = l /\ k.fault = h.fault
      /\ k.aborted = h.aborted
  BY <1>1, <1>2, <1>3 DEF HeapType
<1>7. Sound(k, Minus(u, c))
  BY <1>1, <1>4, <1>5, <1>6 DEF Sound
<1> QED BY <1>7 DEF k

-----------------------------------------------------------------------------
(* The places, and the invariant.                                           *)

Shape(f, k, d, g) ==
  /\ f \in [Places -> Refs]
  /\ \A p \in Places : f[p] # NoVar => p[1] <= d
  /\ \A p \in Places : f[p] = Null => p[2] \in Names
  /\ k \in SUBSET {p \in Places : p[2] \in Names /\ f[p] # NoVar}
  /\ d \in Depths
  /\ g \in [Depths -> SUBSET Slots]
  /\ \A e \in Depths : g[e] # {} => e \in 2 .. d
  /\ \A e \in 2 .. d : \A a \in g[e] : f[<<e - 1, a>>] \in Cells

Inv == Sound(heap, Count(at)) /\ Shape(at, konst, depth, args)

\* One place of a live Env changes.
LEMMA ShapeMove ==
  ASSUME NEW f, NEW k, NEW d, NEW g, Shape(f, k, d, g),
         NEW p \in Places, NEW v \in Refs, p[1] <= d,
         p[2] \in Names \/ p[1] = d,
         v = Null => p[2] \in Names,
         NEW l, l \in SUBSET (k \cup {p}),
         p \in l => p[2] \in Names /\ v # NoVar
  PROVE  Shape([f EXCEPT ![p] = v], l, d, g)
<1> DEFINE h == [f EXCEPT ![p] = v]
<1>1. h \in [Places -> Refs] /\ \A q \in Places : h[q] = IF q = p THEN v ELSE f[q]
  BY DEF Shape
<1>2. d \in Nat /\ g \in [Depths -> SUBSET Slots] /\ d \in Depths /\ Depths = 1 .. MaxDepth
      /\ MaxDepth \in Nat
  BY EnvAssumption DEF Shape, Depths
<1>3. ASSUME NEW e \in 2 .. d, NEW a \in g[e]
      PROVE  h[<<e - 1, a>>] \in Cells
  <2>1. e \in Depths /\ e - 1 \in Depths /\ a \in Slots /\ e - 1 # d
    BY <1>2
  <2>2. <<e - 1, a>> \in Places /\ a \notin Names
    BY <2>1, EnvAssumption DEF Places, Locals
  <2>3. <<e - 1, a>> # p
    BY <2>1, <2>2
  <2>4. f[<<e - 1, a>>] \in Cells
    BY DEF Shape
  <2> HIDE DEF h
  <2> QED
    BY <1>1, <2>2, <2>3, <2>4
<1>4. l \in SUBSET {q \in Places : q[2] \in Names /\ h[q] # NoVar}
  <2> HIDE DEF h
  <2> QED BY <1>1 DEF Shape
<1> HIDE DEF h
<1>5. Shape(h, l, d, g)
  BY <1>1, <1>2, <1>3, <1>4 DEF Shape
<1> QED
  BY <1>5 DEF h

LEMMA Commute ==
  ASSUME NEW u \in [Cells -> Int], NEW v, NEW w
  PROVE  Plus(Minus(u, v), w) = Minus(Plus(u, w), v)
<1>1. CASE v \notin Cells \/ w \notin Cells
  BY <1>1 DEF Plus, Minus
<1>2. CASE v \in Cells /\ w \in Cells
  <2> DEFINE l == Plus(Minus(u, v), w)
             r == Minus(Plus(u, w), v)
  <2>1. l \in [Cells -> Int] /\ r \in [Cells -> Int]
    BY <1>2 DEF Plus, Minus
  <2>2. ASSUME NEW c \in Cells PROVE l[c] = r[c]
    BY <1>2 DEF Plus, Minus
  <2> HIDE DEF l, r
  <2>3. l = r
    BY <2>1, <2>2
  <2> QED BY <2>3 DEF l, r
<1> QED BY <1>1, <1>2

LEMMA HereFacts ==
  ASSUME Shape(at, konst, depth, args), NEW l \in Locals
  PROVE  /\ Here(l) \in Places /\ Here(l)[1] = depth /\ Here(l)[2] = l
         /\ Here(l)[1] <= depth /\ at[Here(l)] \in Refs
BY EnvAssumption DEF Shape, Here, Places, Depths

\* A handler allocates c and stores it, unretained, where it releases the old value.
LEMMA FreshInv ==
  ASSUME Inv, Running, NEW c \in Cells, NEW x \in Payloads, Free(heap, c),
         NEW p \in Places, p[1] = depth,
         heap' = Release(Alloc(heap, c, x), at[p]),
         at' = [at EXCEPT ![p] = c],
         UNCHANGED <<konst, depth, args>>
  PROVE  Inv'
<1> DEFINE u == Count(at)
<1>1. at \in [Places -> Refs] /\ at[p] \in Refs /\ c \in Refs /\ depth \in Nat
  BY EnvAssumption DEF Inv, Shape, Refs, Depths
<1>2. u \in [Cells -> Nat]
  BY CountType
<1>3. Sound(Alloc(heap, c, x), Plus(u, c)) /\ ~Alloc(heap, c, x).aborted
  BY AllocSound DEF Inv, Running
<1>4. at[p] \in Cells => Plus(u, c)[at[p]] > 0
  BY <1>1, <1>2, CountHeld DEF Plus
<1>5. Sound(heap', Minus(Plus(u, c), at[p]))
  BY <1>3, <1>4, ReleaseSound
<1>6. Count(at') = Minus(Plus(u, c), at[p])
  <2>1. Count(at') = Plus(Minus(u, at[p]), c)
    BY <1>1, CountMove
  <2>2. u \in [Cells -> Int]
    BY <1>2
  <2> HIDE DEF u
  <2> QED BY <2>1, <2>2, Commute
<1>7. Shape(at', konst', depth', args')
  <2>1. c # Null /\ c # NoVar /\ p[1] <= depth /\ konst \in SUBSET (konst \cup {p})
    BY <1>1, EnvAssumption
  <2>2. p \in konst => p[2] \in Names
    BY DEF Inv, Shape
  <2> QED
    BY <1>1, <2>1, <2>2, ShapeMove DEF Inv
<1> QED
  BY <1>5, <1>6, <1>7 DEF Inv

\* A handler releases what p refers to and retains there what r refers to.
LEMMA CopyInv ==
  ASSUME Inv, Running, NEW p \in Places, NEW r \in Places, p # r,
         p[1] <= depth, p[2] \in Names \/ p[1] = depth,
         at[r] # NoVar, at[r] = Null => p[2] \in Names,
         heap' = Retain(Release(heap, at[p]), at[r]),
         at' = [at EXCEPT ![p] = at[r]],
         konst' \in SUBSET (konst \cup {p}), p \in konst' => p[2] \in Names,
         UNCHANGED <<depth, args>>
  PROVE  Inv'
<1> DEFINE u == Count(at)
<1>1. at \in [Places -> Refs] /\ at[p] \in Refs /\ at[r] \in Refs
  BY DEF Inv, Shape
<1>2. at[p] \in Cells => u[at[p]] > 0
  BY <1>1, CountHeld
<1>3. Sound(Release(heap, at[p]), Minus(u, at[p])) /\ ~Release(heap, at[p]).aborted
  BY <1>2, ReleaseSound DEF Inv, Running
<1>4. at[r] \in Cells => Minus(u, at[p])[at[r]] > 0
  BY <1>1, CountOther
<1>5. Sound(heap', Plus(Minus(u, at[p]), at[r]))
  BY <1>3, <1>4, RetainSound
<1>6. Count(at') = Plus(Minus(u, at[p]), at[r])
  BY <1>1, CountMove
<1>7. Shape(at', konst', depth', args')
  BY <1>1, ShapeMove DEF Inv
<1> QED
  BY <1>5, <1>6, <1>7 DEF Inv

\* A handler releases what p refers to; p is emptied, or refers to NULL.
LEMMA ClearInv ==
  ASSUME Inv, Running, NEW p \in Places, p[1] = depth, NEW v \in {NoVar, Null},
         v = Null => p[2] \in Names,
         heap' = Release(heap, at[p]),
         at' = [at EXCEPT ![p] = v],
         konst' \in SUBSET konst, p \notin konst',
         UNCHANGED <<depth, args>>
  PROVE  Inv'
<1> DEFINE u == Count(at)
<1>1. at \in [Places -> Refs] /\ at[p] \in Refs /\ v \in Refs /\ v \notin Cells /\ depth \in Nat
  BY EnvAssumption DEF Inv, Shape, Refs, Depths
<1>2. at[p] \in Cells => u[at[p]] > 0
  BY <1>1, CountHeld
<1>3. Sound(heap', Minus(u, at[p]))
  BY <1>2, ReleaseSound DEF Inv, Running
<1>4. Count(at') = Minus(u, at[p])
  BY <1>1, CountMove DEF Plus
<1>5. Shape(at', konst', depth', args')
  <2>1. Shape(at, konst, depth, args) /\ p[1] <= depth /\ konst' \in SUBSET (konst \cup {p})
    BY <1>1 DEF Inv
  <2>2. Shape([at EXCEPT ![p] = v], konst', depth, args)
    BY <1>1, <2>1, ShapeMove
  <2> QED BY <2>2
<1> QED
  BY <1>3, <1>4, <1>5 DEF Inv

-----------------------------------------------------------------------------
(* The actions.                                                             *)

LEMMA InPlaceInv ==
  ASSUME Inv, NEW n \in Names, NEW s \in Slots, NEW c \in Cells, NEW x \in Payloads,
         InPlace(n, s, c, x)
  PROVE  Inv'
<1> DEFINE p == Here(s)
           u == Count(at)
<1>1. /\ at \in [Places -> Refs] /\ p \in Places /\ p[1] = depth /\ p[2] \in Slots /\ p[2] \notin Names
      /\ at[p] \in Cells /\ c \in Refs /\ c # NoVar /\ c # Null /\ depth \in Nat
      /\ Shape(at, konst, depth, args) /\ Running /\ Free(heap, c) /\ p \notin konst
      /\ UNCHANGED <<konst, depth, args>>
  BY HereFacts, EnvAssumption DEF InPlace, Held, Inv, Shape, Refs, Depths, Locals
<1>2. u \in [Cells -> Nat]
  BY CountType
<1>3. Sound(Alloc(heap, c, x), Plus(u, c)) /\ ~Alloc(heap, c, x).aborted
  BY <1>1, AllocSound DEF Inv, Running
<1>4. ASSUME Fail(s, c, x)
      PROVE  Inv'
  BY <1>1, <1>4, FreshInv DEF Fail, Inv
<1>5. ASSUME heap' = Lose(Retain(Release(Alloc(heap, c, x), at[p]), c), c),
             at' = [at EXCEPT ![p] = c]
      PROVE  Inv'
  <2> DEFINE w == Minus(Plus(u, c), at[p])
  <2>1. u[at[p]] > 0
    BY <1>1, CountHeld
  <2>2. u[c] = 0
    BY <1>1, <1>2 DEF Inv, Sound, HeapType, Free
  <2>3. Plus(u, c)[at[p]] > 0 /\ w \in [Cells -> Int] /\ w[c] = 1
    BY <1>1, <1>2, <2>1, <2>2 DEF Plus, Minus
  <2>4. Sound(Release(Alloc(heap, c, x), at[p]), w) /\ ~Release(Alloc(heap, c, x), at[p]).aborted
    BY <1>3, <2>3, ReleaseSound
  <2>5. Sound(Retain(Release(Alloc(heap, c, x), at[p]), c), Plus(w, c))
    BY <2>3, <2>4, RetainSound
  <2>6. Plus(w, c)[c] > 0 /\ Minus(Plus(w, c), c) = w
    <3> HIDE DEF w
    <3>1. Plus(w, c) \in [Cells -> Int] /\ Plus(w, c)[c] > 0
      BY <2>3 DEF Plus
    <3>2. \A e \in Cells : Minus(Plus(w, c), c)[e] = w[e]
      BY <2>3 DEF Plus, Minus
    <3>3. Minus(Plus(w, c), c) \in [Cells -> Int]
      BY <3>1 DEF Minus
    <3>4. Minus(Plus(w, c), c) = w
      BY <2>3, <3>2, <3>3
    <3> QED BY <3>1, <3>4
  <2>7. Sound(heap', w)
    BY <1>5, <2>5, <2>6, LoseSound
  <2>8. Count(at') = w
    <3>1. Count(at') = Plus(Minus(u, at[p]), c)
      BY <1>1, <1>5, CountMove
    <3>2. u \in [Cells -> Int]
      BY <1>2
    <3> HIDE DEF u
    <3> QED BY <3>1, <3>2, Commute
  <2>9. Shape(at', konst', depth', args')
    <3>1. konst \in SUBSET (konst \cup {p}) /\ p[1] <= depth
      BY <1>1
    <3>2. Shape([at EXCEPT ![p] = c], konst, depth, args)
      BY <1>1, <3>1, ShapeMove
    <3> QED BY <1>1, <1>5, <3>2
  <2> QED
    BY <2>7, <2>8, <2>9 DEF Inv
<1>6. ASSUME NEW d \in Depths, Nearest(n, d),
             heap' = Retain(Release(Release(Alloc(heap, c, x), at[<<d, n>>]), at[p]), c),
             at' = [at EXCEPT ![<<d, n>>] = c, ![p] = c]
      PROVE  Inv'
  <2> DEFINE q == <<d, n>>
             f == [at EXCEPT ![q] = c]
  <2>1. q \in Places /\ q[2] \in Names /\ q # p /\ q[1] <= depth /\ at[q] \in Refs
    BY <1>1, <1>6 DEF Nearest, Places, Locals
  <2>2. f \in [Places -> Refs] /\ f[p] = at[p] /\ f[q] = c /\ at' = [f EXCEPT ![p] = c]
    BY <1>1, <1>6, <2>1
  <2>3. Count(f) = Minus(Plus(u, c), at[q])
    <3>1. Count(f) = Plus(Minus(u, at[q]), c)
      BY <1>1, <2>1, CountMove
    <3>2. u \in [Cells -> Int]
      BY <1>2
    <3> HIDE DEF u
    <3> QED BY <3>1, <3>2, Commute
  <2>4. at[q] \in Cells => Plus(u, c)[at[q]] > 0
    BY <1>1, <1>2, <2>1, CountHeld DEF Plus
  <2> HIDE DEF f
  <2>5. Sound(Release(Alloc(heap, c, x), at[q]), Count(f))
        /\ ~Release(Alloc(heap, c, x), at[q]).aborted
    BY <1>3, <2>3, <2>4, ReleaseSound
  <2>6. Count(f)[at[p]] > 0
    BY <1>1, <2>2, CountHeld
  <2>7. /\ Sound(Release(Release(Alloc(heap, c, x), at[q]), at[p]), Minus(Count(f), at[p]))
        /\ ~Release(Release(Alloc(heap, c, x), at[q]), at[p]).aborted
    BY <2>5, <2>6, ReleaseSound
  <2>8. Minus(Count(f), at[p])[c] > 0
    BY <1>1, <2>1, <2>2, CountOther
  <2>9. Sound(heap', Plus(Minus(Count(f), at[p]), c))
    BY <1>6, <2>7, <2>8, RetainSound
  <2>10. Count(at') = Plus(Minus(Count(f), at[p]), c)
    BY <1>1, <2>2, CountMove
  <2>11. Shape(at', konst', depth', args')
    <3>1. /\ konst \in SUBSET (konst \cup {q}) /\ konst \in SUBSET (konst \cup {p})
          /\ p[1] <= depth
      BY <1>1
    <3>2. Shape(f, konst, depth, args)
      BY <1>1, <2>1, <3>1, ShapeMove DEF f
    <3>3. Shape([f EXCEPT ![p] = c], konst, depth, args)
      BY <1>1, <3>1, <3>2, ShapeMove
    <3> QED BY <1>1, <2>2, <3>3
  <2> QED
    BY <2>9, <2>10, <2>11 DEF Inv
<1> QED
  BY <1>4, <1>5, <1>6 DEF InPlace

LEMMA CallInv ==
  ASSUME Inv, NEW P \in SUBSET Names, NEW bind \in [P -> Slots], Call(bind)
  PROVE  Inv'
<1> DEFINE u       == Count(at)
           N(c)    == {n \in DOMAIN bind : at[Here(bind[n])] = c}
           uses(c) == Cardinality(N(c))
           B(c)    == {<<depth + 1, n>> : n \in N(c)}
           H(c)    == {q \in Places : at[q] = c}
           G(c)    == {q \in Places : at'[q] = c}
<1>1. /\ Shape(at, konst, depth, args) /\ Running /\ depth < MaxDepth /\ depth \in Nat
      /\ at \in [Places -> Refs] /\ u \in [Cells -> Nat] /\ DOMAIN bind = P
      /\ heap \in HeapType /\ heap.refs \in [Cells -> Nat] /\ Sound(heap, u)
  BY EnvAssumption, CountType DEF Call, Inv, Shape, Depths, Sound, HeapType
<1>2. depth + 1 \in Depths /\ \A n \in Names : <<depth + 1, n>> \in Places /\ at[<<depth + 1, n>>] = NoVar
  BY <1>1, EnvAssumption DEF Shape, Depths, Places, Locals
<1>3. \A n \in P : Here(bind[n]) \in Places /\ at[Here(bind[n])] \in Cells
  BY <1>1, HereFacts DEF Call, Held, Locals
<1>4. CASE \E c \in Cells : uses(c) > 0 /\ heap.refs[c] + uses(c) >= MaxRefs
  <2>1. heap' = [heap EXCEPT !.aborted = TRUE] /\ UNCHANGED <<at, konst, depth, args>>
    BY <1>4 DEF Call
  <2>2. /\ heap' \in HeapType /\ heap'.refs = heap.refs /\ heap'.data = heap.data
        /\ heap'.lost = heap.lost /\ heap'.fault = heap.fault /\ heap'.aborted = TRUE
    BY <1>1, <2>1 DEF HeapType
  <2>3. Sound(heap', u)
    BY <1>1, <2>2 DEF Sound
  <2> QED
    BY <1>1, <2>1, <2>3 DEF Inv
<1>5. CASE ~ \E c \in Cells : uses(c) > 0 /\ heap.refs[c] + uses(c) >= MaxRefs
  <2>1. /\ heap' = [heap EXCEPT
             !.refs = [c \in Cells |-> heap.refs[c] + uses(c)],
             !.fault = \E c \in Cells : uses(c) > 0 /\ heap.refs[c] = 0]
        /\ at' = [p \in Places |-> IF p[1] = depth + 1 /\ p[2] \in DOMAIN bind
                                   THEN at[Here(bind[p[2]])] ELSE at[p]]
        /\ args' = [args EXCEPT ![depth + 1] = {bind[n] : n \in DOMAIN bind}]
        /\ depth' = depth + 1
        /\ UNCHANGED konst
    BY <1>5 DEF Call
  <2>2. ASSUME NEW c \in Cells
        PROVE  /\ uses(c) \in Nat
               /\ uses(c) > 0 => heap.refs[c] > 0
               /\ Count(at')[c] = u[c] + uses(c)
    <3>1. IsFiniteSet(N(c)) /\ IsFiniteSet(H(c))
      BY <1>1, PlacesFinite, FS_Subset, EnvAssumption
    <3>2. uses(c) \in Nat /\ Cardinality(H(c)) \in Nat
      BY <3>1, FS_CardinalityType
    <3>3. uses(c) > 0 => heap.refs[c] > 0
      <4> SUFFICES ASSUME uses(c) > 0 PROVE heap.refs[c] > 0
        OBVIOUS
      <4>1. PICK n \in P : at[Here(bind[n])] = c
        <5>1. N(c) # {}
          BY FS_EmptySet
        <5> QED BY <1>1, <5>1
      <4>2. u[c] > 0
        BY <1>1, <1>3, <4>1, CountHeld
      <4> QED
        BY <1>1, <4>2 DEF Sound, HeapType
    <3>4. IsFiniteSet(B(c)) /\ Cardinality(B(c)) = uses(c)
      <4> DEFINE f == [n \in N(c) |-> <<depth + 1, n>>]
      <4>1. f \in Bijection(N(c), B(c))
        BY DEF Bijection, Injection, Surjection, IsInjective
      <4>2. ExistsBijection(N(c), B(c))
        BY <4>1 DEF ExistsBijection
      <4> HIDE DEF N, B
      <4> QED BY <3>1, <4>2, FS_Bijection
    <3>5. G(c) = H(c) \cup B(c) /\ H(c) \cap B(c) = {}
      <4>1. G(c) \subseteq H(c) \cup B(c)
        <5> SUFFICES ASSUME NEW q \in Places, at'[q] = c PROVE q \in H(c) \cup B(c)
          OBVIOUS
        <5>1. CASE q[1] = depth + 1 /\ q[2] \in P
          BY <1>1, <2>1, <5>1 DEF Places
        <5>2. CASE ~(q[1] = depth + 1 /\ q[2] \in P)
          BY <1>1, <2>1, <5>2
        <5> QED BY <5>1, <5>2
      <4>2. B(c) \subseteq G(c)
        BY <1>1, <1>2, <2>1
      <4>3. H(c) \subseteq G(c)
        <5> SUFFICES ASSUME NEW q \in Places, at[q] = c PROVE at'[q] = c
          OBVIOUS
        <5>1. q[1] <= depth
          BY <1>1, EnvAssumption DEF Shape
        <5> QED BY <1>1, <2>1, <5>1
      <4>4. H(c) \cap B(c) = {}
        BY <1>1, <1>2, EnvAssumption
      <4> QED BY <4>1, <4>2, <4>3, <4>4
    <3>6. Cardinality(G(c)) = Cardinality(H(c)) + uses(c)
      <4> HIDE DEF H, B, G, N
      <4>1. Cardinality(H(c) \cup B(c))
              = Cardinality(H(c)) + Cardinality(B(c)) - Cardinality(H(c) \cap B(c))
        BY <3>1, <3>4, FS_Union
      <4>2. Cardinality(H(c) \cap B(c)) = 0
        BY <3>5, FS_EmptySet
      <4> QED BY <3>2, <3>4, <3>5, <4>1, <4>2
    <3> QED
      BY <3>2, <3>3, <3>6 DEF Count
  <2> DEFINE r == [c \in Cells |-> heap.refs[c] + uses(c)]
             f == \E c \in Cells : uses(c) > 0 /\ heap.refs[c] = 0
  <2> HIDE DEF uses, N, B, H, G
  <2>3. r \in [Cells -> Nat] /\ \A c \in Cells : r[c] = heap.refs[c] + uses(c)
    BY <1>1, <2>2
  <2>4. ~f
    BY <2>2
  <2>5. heap' = [heap EXCEPT !.refs = r, !.fault = f]
    BY <2>1
  <2>6. f \in BOOLEAN
    BY Zenon DEF f
  <2>7. \A c \in Cells : r[c] < MaxRefs
    BY <1>1, <1>5, <2>2, <2>3, EnvAssumption DEF Sound, Running
  <2> HIDE DEF r, f
  <2>8. /\ heap' \in HeapType /\ heap'.refs = r /\ heap'.data = heap.data
        /\ heap'.lost = heap.lost /\ heap'.fault = f /\ heap'.aborted = heap.aborted
    BY <1>1, <2>3, <2>5, <2>6 DEF HeapType
  <2>9. heap.lost \in [Cells -> Nat] /\ Count(at') \in [Cells -> Nat]
    BY <1>1, CountType DEF HeapType
  <2>10. Sound(heap', Count(at'))
    <3>1. \A c \in Cells : heap'.refs[c] = Count(at')[c] + heap'.lost[c]
      BY <1>1, <2>2, <2>3, <2>8, <2>9 DEF Sound
    <3>2. \A c \in Cells : heap'.data[c] = NoVar <=> heap'.refs[c] = 0
      BY <1>1, <2>2, <2>3, <2>8 DEF Sound
    <3>3. \A c \in Cells : heap'.refs[c] <= MaxRefs /\ (heap'.refs[c] = MaxRefs => heap'.aborted)
      BY <2>3, <2>7, <2>8, EnvAssumption
    <3> QED
      BY <2>4, <2>8, <2>9, <3>1, <3>2, <3>3 DEF Sound
  <2>11. Shape(at', konst', depth', args')
    <3>1. at' \in [Places -> Refs]
      BY <1>1, <1>3, <2>1 DEF Refs
    <3>2. \A p \in Places : at'[p] # NoVar => p[1] <= depth'
      BY <1>1, <2>1 DEF Shape, Places, Depths
    <3>3. \A p \in Places : at'[p] = Null => p[2] \in Names
      BY <1>1, <1>3, <2>1, EnvAssumption DEF Shape
    <3>4. konst' \in SUBSET {p \in Places : p[2] \in Names /\ at'[p] # NoVar}
      BY <1>1, <1>3, <2>1, EnvAssumption DEF Shape
    <3>5. depth' \in Depths /\ args' \in [Depths -> SUBSET Slots]
      BY <1>1, <1>2, <2>1 DEF Shape
    <3>6. \A e \in Depths : args'[e] # {} => e \in 2 .. depth'
      BY <1>1, <1>2, <2>1, EnvAssumption DEF Shape, Depths
    <3>7. ASSUME NEW e \in 2 .. depth', NEW a \in args'[e]
          PROVE  at'[<<e - 1, a>>] \in Cells
      <4>1. e \in Depths /\ e - 1 \in Depths /\ e - 1 # depth + 1 /\ a \in Slots
        BY <1>1, <1>2, <2>1, <3>5, EnvAssumption DEF Depths
      <4>2. at'[<<e - 1, a>>] = at[<<e - 1, a>>]
        BY <2>1, <4>1 DEF Places, Locals
      <4>3. CASE e = depth + 1
        BY <1>1, <1>2, <1>3, <2>1, <4>2, <4>3 DEF Shape, Here
      <4>4. CASE e # depth + 1
        BY <1>1, <1>2, <2>1, <4>1, <4>2, <4>4 DEF Shape
      <4> QED BY <4>3, <4>4
    <3> QED
      BY <3>1, <3>2, <3>3, <3>4, <3>5, <3>6, <3>7 DEF Shape
  <2> QED
    BY <2>10, <2>11 DEF Inv
<1> QED
  BY <1>4, <1>5

LEMMA LeaveInv ==
  ASSUME Inv, NEW s \in Slots, NEW t \in Slots, Leave(s, t)
  PROVE  Inv'
<1> DEFINE u     == Count(at)
           given == {<<depth - 1, a>> : a \in args[depth]}
           gone  == {<<depth, n>> : n \in Names} \cup given
           dest  == <<depth - 1, t>>
           B(c)  == {p \in gone : at[p] = c}
           H(c)  == {q \in Places : at[q] = c}
           G(c)  == {q \in Places : at'[q] = c}
<1>1. /\ Shape(at, konst, depth, args) /\ Running /\ depth > 1 /\ depth \in Depths
      /\ depth \in Nat /\ MaxDepth \in Nat /\ depth <= MaxDepth
      /\ at \in [Places -> Refs] /\ u \in [Cells -> Nat]
      /\ heap \in HeapType /\ heap.refs \in [Cells -> Nat] /\ Sound(heap, u)
      /\ args[depth] \subseteq Slots /\ heap.lost \in [Cells -> Nat]
      /\ heap.data \in [Cells -> Payloads \cup {NoVar}]
  BY EnvAssumption, CountType DEF Leave, Inv, Shape, Depths, Sound, HeapType
<1>2. /\ depth - 1 \in Depths /\ depth - 1 # depth
      /\ dest \in Places /\ given \subseteq Places /\ gone \subseteq Places
      /\ Here(s) \in Places /\ Here(s) \notin gone /\ Here(s) # dest
  BY <1>1, EnvAssumption DEF Depths, Places, Locals, Here
<1>3. /\ \A r \in Slots \ {s} : at[<<depth, r>>] = NoVar
      /\ at[dest] = NoVar \/ dest \in given
      /\ heap' = ReleaseAll(heap, gone)
      /\ at' = [p \in Places |-> IF p = dest THEN at[Here(s)]
                                 ELSE IF p[1] = depth \/ p \in given THEN NoVar
                                 ELSE at[p]]
      /\ konst' = {p \in konst : p[1] # depth}
      /\ depth' = depth - 1
      /\ args' = [args EXCEPT ![depth] = {}]
  BY DEF Leave, Unused, Here
<1>4. ASSUME NEW c \in Cells
      PROVE  /\ Cardinality(B(c)) \in Nat
             /\ u[c] >= Cardinality(B(c))
             /\ Count(at')[c] = u[c] - Cardinality(B(c))
  <2>1. IsFiniteSet(H(c)) /\ B(c) \subseteq H(c)
    BY <1>2, PlacesFinite, FS_Subset
  <2>2. /\ IsFiniteSet(B(c)) /\ Cardinality(B(c)) \in Nat /\ Cardinality(H(c)) \in Nat
        /\ Cardinality(B(c)) <= Cardinality(H(c))
    <3> HIDE DEF B, H
    <3> QED BY <2>1, FS_Subset, FS_CardinalityType
  <2>3. IsFiniteSet(H(c) \ B(c)) /\ Cardinality(H(c) \ B(c)) = Cardinality(H(c)) - Cardinality(B(c))
    <3> HIDE DEF B, H
    <3>1. H(c) \cap B(c) = B(c)
      BY <2>1
    <3> QED BY <2>1, <3>1, FS_Difference
  <2>4. u[c] = Cardinality(H(c))
    BY DEF Count
  <2>5. \A q \in Places : q # dest /\ q # Here(s) =>
          (at'[q] = c <=> (at[q] = c /\ q \notin gone))
    <3> SUFFICES ASSUME NEW q \in Places, q # dest, q # Here(s)
                 PROVE  at'[q] = c <=> (at[q] = c /\ q \notin gone)
      OBVIOUS
    <3>1. CASE q[1] = depth
      <4>1. PICK l \in Locals : q = <<depth, l>>
        BY <3>1 DEF Places
      <4>2. CASE l \in Names
        BY <1>3, <3>1, <4>1, <4>2, EnvAssumption
      <4>3. CASE l \in Slots
        BY <1>3, <3>1, <4>1, <4>3, EnvAssumption DEF Here
      <4> QED BY <4>2, <4>3 DEF Locals
    <3>2. CASE q[1] # depth
      BY <1>3, <3>2, EnvAssumption
    <3> QED BY <3>1, <3>2
  <2>6. at'[dest] = at[Here(s)] /\ at'[Here(s)] = NoVar
    BY <1>2, <1>3 DEF Here
  <2>7. dest \notin H(c) \ B(c)
    BY <1>3, EnvAssumption
  <2>8. CASE at[Here(s)] = c
    <3>1. Here(s) \in H(c) \ B(c) /\ c # NoVar
      BY <1>2, <2>8, EnvAssumption
    <3>2. G(c) = ((H(c) \ B(c)) \ {Here(s)}) \cup {dest}
      BY <1>2, <2>5, <2>6, <2>7, <2>8, <3>1
    <3> DEFINE K == H(c) \ B(c)
    <3>3. IsFiniteSet(K \ {Here(s)}) /\ Cardinality(K \ {Here(s)}) = Cardinality(K) - 1
      <4> HIDE DEF B, H
      <4> QED BY <2>3, <3>1, FS_RemoveElement
    <3>4. Cardinality(G(c)) = Cardinality(K \ {Here(s)}) + 1
      <4> HIDE DEF B, H, G, dest
      <4> QED BY <2>7, <3>2, <3>3, FS_AddElement
    <3> HIDE DEF B, H, G
    <3>5. Cardinality(G(c)) = u[c] - Cardinality(B(c))
      BY <2>2, <2>3, <2>4, <3>3, <3>4
    <3> QED
      BY <2>2, <2>4, <3>5 DEF Count, G
  <2>9. CASE at[Here(s)] # c
    <3>1. G(c) = H(c) \ B(c)
      BY <1>2, <2>5, <2>6, <2>7, <2>9, EnvAssumption
    <3> HIDE DEF B, H, G
    <3>2. Cardinality(G(c)) = u[c] - Cardinality(B(c))
      BY <2>2, <2>3, <2>4, <3>1
    <3> QED
      BY <2>2, <2>4, <3>2 DEF Count, G
  <2> QED BY <2>8, <2>9
<1> DEFINE left == [c \in Cells |-> IF heap.refs[c] >= Cardinality(B(c))
                                    THEN heap.refs[c] - Cardinality(B(c)) ELSE 0]
           d == [c \in Cells |-> IF left[c] = 0 THEN NoVar ELSE heap.data[c]]
           f == heap.fault \/ \E c \in Cells : heap.refs[c] < Cardinality(B(c))
<1>5. heap' = [heap EXCEPT !.refs = left, !.data = d, !.fault = f]
  BY <1>3 DEF ReleaseAll, Holders
<1> HIDE DEF B, H, G
<1>6. \A c \in Cells : /\ heap.refs[c] >= Cardinality(B(c))
                       /\ left[c] = heap.refs[c] - Cardinality(B(c))
                       /\ heap.refs[c] = u[c] + heap.lost[c]
  BY <1>1, <1>4 DEF Sound
<1>7. left \in [Cells -> Nat]
  BY <1>1, <1>4
<1> HIDE DEF left
<1>8. d \in [Cells -> Payloads \cup {NoVar}]
      /\ \A c \in Cells : d[c] = IF left[c] = 0 THEN NoVar ELSE heap.data[c]
  BY <1>1
<1>9. ~f
  BY <1>1, <1>4, <1>6 DEF Sound
<1>10. f \in BOOLEAN
  BY Zenon DEF f
<1> HIDE DEF d, f
<1>11. /\ heap' \in HeapType /\ heap'.refs = left /\ heap'.data = d
       /\ heap'.lost = heap.lost /\ heap'.fault = f /\ heap'.aborted = heap.aborted
  BY <1>1, <1>5, <1>7, <1>8, <1>10 DEF HeapType
<1>12. Sound(heap', Count(at'))
  <2>1. Count(at') \in [Cells -> Nat]
    BY CountType
  <2>2. \A c \in Cells : heap'.refs[c] = Count(at')[c] + heap'.lost[c]
    BY <1>1, <1>4, <1>6, <1>11, <2>1
  <2>3. \A c \in Cells : heap'.data[c] = NoVar <=> heap'.refs[c] = 0
    BY <1>1, <1>4, <1>6, <1>8, <1>11 DEF Sound
  <2>4. \A c \in Cells : heap'.refs[c] <= MaxRefs /\ (heap'.refs[c] = MaxRefs => heap'.aborted)
    BY <1>1, <1>4, <1>6, <1>7, <1>11, EnvAssumption DEF Sound
  <2> QED
    BY <1>9, <1>11, <2>1, <2>2, <2>3, <2>4 DEF Sound
<1>13. Shape(at', konst', depth', args')
  <2>1. at' \in [Places -> Refs]
    BY <1>1, <1>2, <1>3 DEF Refs
  <2>2. \A p \in Places : at'[p] # NoVar => p[1] <= depth'
    <3> SUFFICES ASSUME NEW p \in Places, at'[p] # NoVar PROVE p[1] <= depth - 1
      BY <1>3
    <3>1. p = dest \/ (p[1] # depth /\ at[p] # NoVar)
      BY <1>3
    <3>2. p[1] \in Nat /\ (p = dest \/ p[1] <= depth)
      BY <1>1, <3>1, EnvAssumption DEF Shape, Places, Depths
    <3> QED BY <1>1, <3>1, <3>2
  <2>3. \A p \in Places : at'[p] = Null => p[2] \in Names
    BY <1>1, <1>2, <1>3, EnvAssumption DEF Shape, Here
  <2>4. konst' \in SUBSET {p \in Places : p[2] \in Names /\ at'[p] # NoVar}
    <3> SUFFICES ASSUME NEW p \in konst, p[1] # depth
                 PROVE  p \in Places /\ p[2] \in Names /\ at'[p] # NoVar
      BY <1>3
    <3>1. p \in Places /\ p[2] \in Names /\ at[p] # NoVar
      BY <1>1 DEF Shape
    <3>2. p # dest /\ p \notin given
      BY <1>1, <3>1, EnvAssumption
    <3> QED BY <1>3, <3>1, <3>2
  <2>5. depth' \in Depths /\ args' \in [Depths -> SUBSET Slots]
    BY <1>1, <1>2, <1>3 DEF Shape
  <2>6. \A e \in Depths : args'[e] # {} => e \in 2 .. depth'
    BY <1>1, <1>3 DEF Shape, Depths
  <2>7. ASSUME NEW e \in 2 .. depth', NEW a \in args'[e]
        PROVE  at'[<<e - 1, a>>] \in Cells
    <3>1. e \in Depths /\ e \in 2 .. depth /\ e # depth /\ a \in args[e] /\ a \in Slots /\ e - 1 \in Depths
          /\ e - 1 # depth /\ e - 1 # depth - 1
      BY <1>1, <1>3, <2>5 DEF Shape, Depths
    <3>2. <<e - 1, a>> \in Places /\ <<e - 1, a>> # dest /\ <<e - 1, a>> \notin given
      BY <3>1 DEF Places, Locals
    <3> QED
      BY <1>1, <1>3, <3>1, <3>2 DEF Shape
  <2> QED
    BY <2>1, <2>2, <2>3, <2>4, <2>5, <2>6, <2>7 DEF Shape
<1> QED
  BY <1>12, <1>13 DEF Inv

LEMMA InitInv == Init => Inv
<1> SUFFICES ASSUME Init PROVE Inv
  OBVIOUS
<1>1. \A c \in Cells : Count(at)[c] = 0
  <2> SUFFICES ASSUME NEW c \in Cells PROVE Count(at)[c] = 0
    OBVIOUS
  <2>1. {q \in Places : at[q] = c} = {}
    BY EnvAssumption DEF Init
  <2> QED BY <2>1, FS_EmptySet DEF Count
<1>2. Sound(heap, Count(at))
  <2>1. heap \in HeapType
    BY DEF Init, HeapType
  <2> QED
    BY <1>1, <2>1, CountType, EnvAssumption DEF Init, Sound
<1>3. Shape(at, konst, depth, args)
  BY EnvAssumption DEF Init, Shape, Refs, Depths
<1> QED BY <1>2, <1>3 DEF Inv

LEMMA NextInv ==
  ASSUME Slips = {}, Inv, Next
  PROVE  Inv'
<1>1. Shape(at, konst, depth, args) /\ depth \in Depths /\ depth \in Nat
  BY EnvAssumption DEF Inv, Shape, Depths
<1>2. /\ \A l \in Locals : Here(l) \in Places /\ Here(l)[1] = depth /\ Here(l)[2] = l
      /\ \A n \in Names : n \in Locals /\ n \notin Slots
      /\ \A s \in Slots : s \in Locals /\ s \notin Names
  BY <1>1, HereFacts, EnvAssumption DEF Locals
<1>3. \A d \in Depths, n \in Names : Nearest(n, d) =>
        <<d, n>> \in Places /\ d <= depth /\ at[<<d, n>>] # NoVar
  BY DEF Nearest, Places, Locals
<1>4. ASSUME NEW s \in Slots, NEW c \in Cells, NEW x \in Payloads, EvalNew(s, c, x)
      PROVE  Inv'
  <2>1. Release(Alloc(heap, c, x), at[Here(s)]) = Alloc(heap, c, x)
    BY <1>4, EnvAssumption DEF EvalNew, Unused, Release, Counted
  <2> QED
    BY <1>2, <1>4, <2>1, FreshInv DEF EvalNew, Unused
<1>5. ASSUME NEW s \in Slots, NEW n \in Names, EvalName(s, n)
      PROVE  Inv'
  <2>1. PICK d \in Depths : /\ Nearest(n, d) /\ at[<<d, n>>] \in Cells
                            /\ heap' = Retain(heap, at[<<d, n>>])
                            /\ at' = [at EXCEPT ![Here(s)] = at[<<d, n>>]]
    BY <1>5 DEF EvalName
  <2>2. Release(heap, at[Here(s)]) = heap /\ <<d, n>> # Here(s)
    BY <1>2, <1>5, EnvAssumption DEF EvalName, Unused, Release, Counted, Here
  <2>3. /\ konst' \in SUBSET (konst \cup {Here(s)}) /\ Here(s) \notin konst
        /\ at[<<d, n>>] # NoVar /\ at[<<d, n>>] # Null /\ Here(s)[1] <= depth
        /\ UNCHANGED <<konst, depth, args>>
    BY <1>1, <1>2, <1>5, <2>1, EnvAssumption DEF EvalName, Shape
  <2> QED
    BY <1>2, <1>3, <1>5, <2>1, <2>2, <2>3, CopyInv DEF EvalName
<1>6. ASSUME NEW s \in Slots, Drop(s)
      PROVE  Inv'
  <2>1. NoVar # Null /\ konst' = konst /\ Here(s) \notin konst
    BY <1>1, <1>2, <1>6, EnvAssumption DEF Drop, Shape
  <2> QED
    BY <1>2, <1>6, <2>1, ClearInv DEF Drop
<1>7. ASSUME NEW p \in Places, NEW s \in Slots, p[1] <= depth, p[2] \in Names,
             Running, Held(s), Assign(p, s),
             konst' \in SUBSET (konst \cup {p}), UNCHANGED <<depth, args>>
      PROVE  Inv'
  <2>1. p # Here(s) /\ at[Here(s)] # NoVar /\ at[Here(s)] # Null
    BY <1>2, <1>7, EnvAssumption DEF Held
  <2> QED
    BY <1>2, <1>7, <2>1, CopyInv DEF Assign
<1>8. ASSUME NEW s \in Slots, NEW c \in Cells, NEW x \in Payloads,
             Running, Fail(s, c, x), UNCHANGED <<konst, depth, args>>
      PROVE  Inv'
  BY <1>2, <1>8, FreshInv DEF Fail
<1>9. ASSUME NEW n \in Names, NEW s \in Slots, SetStmt(n, s)
      PROVE  Inv'
  <2>1. Here(n) \in Places /\ Here(n)[1] <= depth /\ Here(n)[2] \in Names
    BY <1>1, <1>2
  <2>2. konst' \in SUBSET (konst \cup {Here(n)}) /\ Running /\ Held(s)
        /\ \A p : konst' \in SUBSET (konst \cup {p})
    BY <1>9 DEF SetStmt
  <2>3. ASSUME NEW d \in Depths, Nearest(n, d), Assign(<<d, n>>, s)
        PROVE  Inv'
    BY <1>3, <1>7, <1>9, <2>2, <2>3 DEF SetStmt
  <2> QED
    BY <1>7, <1>8, <1>9, <2>1, <2>2, <2>3 DEF SetStmt
<1>10. ASSUME NEW n \in Names, NEW s \in Slots, VarStmt(n, s)
       PROVE  Inv'
  <2>1. Here(n) \in Places /\ Here(n)[1] <= depth /\ Here(n)[2] \in Names
    BY <1>1, <1>2
  <2> QED
    BY <1>7, <1>8, <1>10, <2>1 DEF VarStmt
<1>11. ASSUME NEW n \in Names, NEW s \in Slots, ConstStmt(n, s)
       PROVE  Inv'
  <2>1. Here(n) \in Places /\ Here(n)[1] <= depth /\ Here(n)[2] \in Names
    BY <1>1, <1>2
  <2> QED
    BY <1>7, <1>8, <1>11, <2>1 DEF ConstStmt
<1>12. ASSUME NEW n \in Names, NEW c \in Cells, NEW x \in Payloads, Declare(n, c, x)
       PROVE  Inv'
  BY <1>2, <1>12, FreshInv DEF Declare
<1>13. ASSUME NEW m \in Names, NEW n \in Names, Alias(m, n)
       PROVE  Inv'
  <2>1. /\ Here(n) \in Places /\ Here(n)[1] = depth /\ Here(n)[1] <= depth /\ Here(n)[2] \in Names
        /\ Here(n) \notin konst /\ UNCHANGED <<konst, depth, args>> /\ Running
    BY <1>1, <1>2, <1>13 DEF Alias
  <2>2. ASSUME NEW d \in Depths, Nearest(m, d), <<d, m>> # Here(n),
               heap' = Retain(Release(heap, at[Here(n)]), at[<<d, m>>]),
               at' = [at EXCEPT ![Here(n)] = at[<<d, m>>]]
        PROVE  Inv'
    BY <1>3, <2>1, <2>2, CopyInv
  <2>3. ASSUME heap' = Release(heap, at[Here(n)]), at' = [at EXCEPT ![Here(n)] = Null]
        PROVE  Inv'
    BY <2>1, <2>3, ClearInv
  <2> QED
    BY <1>13, <2>2, <2>3 DEF Alias
<1>14. ASSUME NEW n \in Names, Forget(n)
       PROVE  Inv'
  <2>1. PICK d \in Depths : Nearest(n, d) /\ d = depth /\ heap' = Release(heap, at[<<d, n>>])
    BY <1>14 DEF Forget
  <2>2. <<d, n>> = Here(n) /\ NoVar # Null
    BY <2>1, EnvAssumption DEF Here
  <2> QED
    BY <1>2, <1>14, <2>1, <2>2, ClearInv DEF Forget
<1>15. ASSUME EnterBlock
       PROVE  Inv'
  <2>1. /\ heap' = heap /\ at' = at /\ konst' = konst /\ depth' = depth + 1
        /\ args' = [args EXCEPT ![depth + 1] = {}] /\ depth + 1 \in Depths
    BY <1>1, <1>15, EnvAssumption DEF EnterBlock, Depths
  <2>2. Shape(at', konst', depth', args')
    <3>1. \A p \in Places : at[p] # NoVar => p[1] <= depth + 1
      BY <1>1, EnvAssumption DEF Shape, Places, Depths
    <3>2. args' \in [Depths -> SUBSET Slots]
      BY <1>1, <2>1 DEF Shape
    <3>3. \A e \in Depths : args'[e] # {} => e \in 2 .. depth + 1
      BY <1>1, <2>1 DEF Shape, Depths
    <3>4. ASSUME NEW e \in 2 .. depth + 1, NEW a \in args'[e]
          PROVE  at[<<e - 1, a>>] \in Cells
      <4>1. args \in [Depths -> SUBSET Slots] /\ e \in Depths
        BY <1>1, <2>1, EnvAssumption DEF Shape, Depths
      <4>2. e # depth + 1 /\ args'[e] = args[e]
        BY <2>1, <4>1
      <4>3. e \in 2 .. depth
        BY <1>1, <4>2
      <4> QED BY <1>1, <4>2, <4>3 DEF Shape
    <3> QED BY <1>1, <2>1, <3>1, <3>2, <3>3, <3>4 DEF Shape
  <2> QED BY <2>1, <2>2 DEF Inv
<1> QED
  BY <1>4, <1>5, <1>6, <1>9, <1>10, <1>11, <1>12, <1>13, <1>14, <1>15,
     InPlaceInv, CallInv, LeaveInv DEF Next

-----------------------------------------------------------------------------
(* The theorems.                                                            *)

LEMMA InvImplies == Inv => TypeOK /\ NoUseAfterFree /\ Accounting /\ NeverWeak
<1> SUFFICES ASSUME Inv PROVE TypeOK /\ NoUseAfterFree /\ Accounting /\ NeverWeak
  OBVIOUS
<1>1. TypeOK
  BY DEF Inv, Sound, Shape, HeapType, Refs, TypeOK
<1>2. NoUseAfterFree
  BY DEF Inv, Sound, NoUseAfterFree
<1>3. Accounting
  BY DEF Inv, Sound, Count, Accounting, Holders
<1>4. NeverWeak
  BY EnvAssumption DEF Inv, Sound, HeapType, NeverWeak, WeakTrigger
<1> QED BY <1>1, <1>2, <1>3, <1>4

\* The invariant holds of every run in which scripts neither forget an outer
\* name nor alias a variable to itself.
LEMMA InvariantHolds == ASSUME Slips = {} PROVE Spec => []Inv
<1>1. Inv /\ UNCHANGED vars => Inv'
  BY DEF Inv, vars, Count
<1> QED
  BY <1>1, InitInv, NextInv, PTL DEF Spec

\* mila.c keeps the state well formed: see TypeOK.
THEOREM TypeCorrect == ASSUME Slips = {} PROVE Spec => []TypeOK
BY InvariantHolds, InvImplies, PTL

\* No statement, block or call of a script touches a Value that was freed,
\* whatever the script does otherwise (mila.c, the uses of val_release).
THEOREM UsesLiveValuesOnly == ASSUME Slips = {} PROVE Spec => []NoUseAfterFree
BY InvariantHolds, InvImplies, PTL

\* refcount is exact, up to the references that updates of constants lose.
THEOREM CountsAreExact == ASSUME Slips = {} PROVE Spec => []Accounting
BY InvariantHolds, InvImplies, PTL

\* A counted Value never turns into a weak one by being referred to too often.
THEOREM StrongStaysStrong == ASSUME Slips = {} PROVE Spec => []NeverWeak
BY InvariantHolds, InvImplies, PTL

-----------------------------------------------------------------------------
(* The contents of cells.                                                   *)

\* What the places hold, as MilaScopes sees it.
Val == [p \in Places |-> Contents(p)]

\* k keeps the contents of d, but for what is freed.
Fades(d, k) == \A c \in Cells : k[c] \in {d[c], NoVar}

LEMMA RetainKeeps ==
  ASSUME NEW h \in HeapType, NEW v
  PROVE  Retain(h, v) \in HeapType /\ Retain(h, v).data = h.data
<1>1. CASE ~Counted(h, v)
  BY <1>1 DEF Retain
<1>2. CASE Counted(h, v)
  <2> DEFINE r == [h.refs EXCEPT ![v] = @ + 1]
             f == (h.fault \/ h.refs[v] = 0)
             a == (h.aborted \/ h.refs[v] + 1 >= MaxRefs)
             k == [h EXCEPT !.refs = r, !.fault = f, !.aborted = a]
  <2>1. Retain(h, v) = k
    BY <1>2 DEF Retain
  <2>2. r \in [Cells -> Nat]
    BY <1>2 DEF Counted, HeapType
  <2>3. f \in BOOLEAN /\ a \in BOOLEAN
    BY Zenon
  <2> HIDE DEF r, f, a
  <2>4. k \in HeapType /\ k.data = h.data
    BY <2>2, <2>3 DEF HeapType
  <2> QED BY <2>1, <2>4
<1> QED BY <1>1, <1>2

LEMMA ReleaseKeeps ==
  ASSUME NEW h \in HeapType, NEW v
  PROVE  Release(h, v) \in HeapType /\ Fades(h.data, Release(h, v).data)
<1>1. CASE ~Counted(h, v)
  BY <1>1 DEF Release, Fades
<1>2. CASE Counted(h, v)
  <2> DEFINE r == [h.refs EXCEPT ![v] = IF @ = 0 THEN 0 ELSE @ - 1]
             d == [h.data EXCEPT ![v] = IF h.refs[v] <= 1 THEN NoVar ELSE @]
             f == (h.fault \/ h.refs[v] = 0)
             k == [h EXCEPT !.refs = r, !.data = d, !.fault = f]
  <2>1. Release(h, v) = k
    BY <1>2 DEF Release
  <2>2. /\ r \in [Cells -> Nat]
        /\ d \in [Cells -> Payloads \cup {NoVar}]
        /\ Fades(h.data, d)
    BY <1>2 DEF Counted, HeapType, Fades
  <2>3. f \in BOOLEAN
    BY Zenon
  <2> HIDE DEF r, d, f
  <2>4. k \in HeapType /\ k.data = d
    BY <2>2, <2>3 DEF HeapType
  <2> QED BY <2>1, <2>2, <2>4
<1> QED BY <1>1, <1>2

LEMMA AllocKeeps ==
  ASSUME NEW h \in HeapType, NEW c \in Cells, NEW x \in Payloads
  PROVE  Alloc(h, c, x) \in HeapType /\ Alloc(h, c, x).data = [h.data EXCEPT ![c] = x]
<1> DEFINE r == [h.refs EXCEPT ![c] = 1]
           d == [h.data EXCEPT ![c] = x]
<1>1. r \in [Cells -> Nat] /\ d \in [Cells -> Payloads \cup {NoVar}]
  BY DEF HeapType
<1>2. Alloc(h, c, x) = [h EXCEPT !.refs = r, !.data = d]
  BY DEF Alloc
<1> HIDE DEF r
<1> QED BY <1>1, <1>2 DEF HeapType

LEMMA LoseKeeps ==
  ASSUME NEW h \in HeapType, NEW c \in Cells
  PROVE  Lose(h, c).data = h.data
BY DEF Lose, HeapType

LEMMA FadesOn ==
  ASSUME NEW d, NEW k, NEW l, Fades(d, k), Fades(k, l)
  PROVE  Fades(d, l)
BY DEF Fades

-----------------------------------------------------------------------------
(* The values of the places.                                                *)

\* What a place refers to has contents: a variable or a slot is empty, NULL, or a value.
LEMMA ValNow ==
  ASSUME Inv
  PROVE  /\ Val \in [Places -> Payloads \cup {NoVar, Null}]
         /\ \A p \in Places : /\ Val[p] = NoVar <=> at[p] = NoVar
                              /\ Val[p] = Null <=> at[p] = Null
                              /\ Values!IsValue(Val[p]) <=> at[p] \in Cells
                              /\ at[p] \in Cells => heap.refs[at[p]] # 0 /\ Val[p] \in Payloads
<1>1. /\ at \in [Places -> Refs] /\ heap.data \in [Cells -> Payloads \cup {NoVar}]
      /\ heap.refs \in [Cells -> Nat] /\ heap.lost \in [Cells -> Nat]
  BY DEF Inv, Shape, Sound, HeapType
<1>2. ASSUME NEW p \in Places, at[p] \in Cells
      PROVE  heap.refs[at[p]] # 0 /\ heap.data[at[p]] \in Payloads
  <2>1. Count(at)[at[p]] > 0
    BY <1>1, <1>2, CountHeld
  <2>2. heap.refs[at[p]] # 0
    BY <1>1, <1>2, <2>1, CountType DEF Inv, Sound
  <2> QED BY <1>1, <1>2, <2>2 DEF Inv, Sound
<1>3. \A p \in Places : Val[p] = IF at[p] \in Cells THEN heap.data[at[p]] ELSE at[p]
  BY DEF Val, Contents
<1>4. \A p \in Places : at[p] \in Cells \cup {NoVar, Null}
  BY <1>1 DEF Refs
<1> HIDE DEF Inv
<1>5. \A p \in Places : /\ Val[p] = NoVar <=> at[p] = NoVar
                        /\ Val[p] = Null <=> at[p] = Null
                        /\ Val[p] \in Payloads \cup {NoVar, Null}
  BY <1>2, <1>3, <1>4, EnvAssumption
<1>6. Val \in [Places -> Payloads \cup {NoVar, Null}]
  BY <1>5 DEF Val
<1> QED BY <1>2, <1>3, <1>4, <1>5, <1>6, EnvAssumption DEF Values!IsValue

\* A step that takes one free cell at most, gives it contents, and frees others: d is
\* what the cells would hold if it freed none.
LEMMA SameVal ==
  ASSUME Inv, Inv', NEW d, \A c \in Cells : heap.refs[c] # 0 => d[c] = heap.data[c],
         Fades(d, heap'.data)
  PROVE  /\ \A q, r \in Places : at'[q] = at[r] => Val'[q] = Val[r]
         /\ \A q \in Places : at'[q] \in Cells => Val'[q] = d[at'[q]]
         /\ \A q \in Places : at'[q] \notin Cells => Val'[q] = at'[q]
<1>1. \A p \in Places : /\ Val[p] = IF at[p] \in Cells THEN heap.data[at[p]] ELSE at[p]
                        /\ Val'[p] = IF at'[p] \in Cells THEN heap'.data[at'[p]] ELSE at'[p]
  BY DEF Val, Contents
<1>2. ASSUME NEW q \in Places, at'[q] \in Cells PROVE Val'[q] = d[at'[q]]
  <2>1. heap'.data[at'[q]] # NoVar
    <3>1. /\ heap' \in HeapType /\ at' \in [Places -> Refs]
          /\ \A c \in Cells : heap'.refs[c] = Count(at')[c] + heap'.lost[c]
          /\ \A c \in Cells : heap'.data[c] = NoVar <=> heap'.refs[c] = 0
      BY DEF Inv, Sound, Shape
    <3>2. Count(at')[at'[q]] > 0
      BY <1>2, <3>1, CountHeld
    <3>3. Count(at') \in [Cells -> Nat] /\ heap'.lost \in [Cells -> Nat]
      BY <3>1, CountType DEF HeapType
    <3> QED BY <1>2, <3>1, <3>2, <3>3
  <2> QED BY <1>1, <1>2, <2>1 DEF Fades
<1>3. ASSUME NEW q \in Places, NEW r \in Places, at'[q] = at[r] PROVE Val'[q] = Val[r]
  <2>1. CASE at[r] \in Cells
    BY <1>1, <1>2, <1>3, <2>1, ValNow
  <2>2. CASE at[r] \notin Cells
    BY <1>1, <1>3, <2>2
  <2> QED BY <2>1, <2>2
<1> QED BY <1>1, <1>2, <1>3

\* One place changes.
LEMMA OneVal ==
  ASSUME Inv, Inv', NEW d, \A c \in Cells : heap.refs[c] # 0 => d[c] = heap.data[c],
         Fades(d, heap'.data), NEW p \in Places, NEW v, at' = [at EXCEPT ![p] = v]
  PROVE  /\ Val' = [Val EXCEPT ![p] = Val'[p]]
         /\ \A r \in Places : v = at[r] => Val'[p] = Val[r]
         /\ v \in Cells => Val'[p] = d[v]
         /\ v \notin Cells => Val'[p] = v
<1>1. at \in [Places -> Refs]
  BY DEF Inv, Shape
<1>2. at'[p] = v /\ \A q \in Places : q # p => at'[q] = at[q]
  BY <1>1
<1>3. Val \in [Places -> Payloads \cup {NoVar, Null}] /\ Val' = [q \in Places |-> Val'[q]]
  BY ValNow DEF Val
<1>4. \A q \in Places : q # p => Val'[q] = Val[q]
  BY <1>2, SameVal
<1> HIDE DEF Inv
<1>5. Val' = [Val EXCEPT ![p] = Val'[p]]
  BY <1>3, <1>4
<1> QED BY <1>2, <1>5, SameVal

\* Names mean the same places.
LEMMA SameMeaning ==
  ASSUME Inv, NEW n \in Names
  PROVE  /\ Undefined(n) => Values!Bound(n) = {} /\ Values!Meant(n) = Here(n)
         /\ \A e \in Depths : Nearest(n, e) => Values!Bound(n) # {} /\ Values!Meant(n) = <<e, n>>
<1>1. depth \in Depths /\ \A e \in 1 .. depth : e \in Nat /\ <<e, n>> \in Places
  BY EnvAssumption DEF Inv, Shape, Depths, Places, Locals
<1>2. Values!Bound(n) = {e \in 1 .. depth : at[<<e, n>>] # NoVar}
  BY <1>1, ValNow DEF Values!Bound, Val
<1>3. ASSUME Undefined(n) PROVE Values!Bound(n) = {} /\ Values!Meant(n) = Here(n)
  BY <1>2, <1>3 DEF Undefined, Values!Meant, Values!Here, Here
<1>4. ASSUME NEW e \in Depths, Nearest(n, e)
      PROVE  Values!Bound(n) # {} /\ Values!Meant(n) = <<e, n>>
  <2> DEFINE B == Values!Bound(n)
  <2>1. e \in B /\ \A f \in B : f \in Nat /\ f <= e
    BY <1>1, <1>2, <1>4, EnvAssumption DEF Nearest, Depths
  <2> HIDE DEF B
  <2>2. \A g \in B : (\A f \in B : f <= g) => g = e
    BY <2>1
  <2>3. (CHOOSE g \in B : \A f \in B : f <= g) = e
    BY <2>1, <2>2
  <2> QED BY <2>1, <2>3 DEF Values!Meant, B
<1> QED BY <1>3, <1>4

-----------------------------------------------------------------------------
(* Each handler is a step of MilaScopes.                                    *)

\* The cells hold d, but for those that are freed, and one place changes.
Moves(d, p, v) ==
  /\ \A c \in Cells : heap.refs[c] # 0 => d[c] = heap.data[c]
  /\ Fades(d, heap'.data)
  /\ at' = [at EXCEPT ![p] = v]

LEMMA MovesVal ==
  ASSUME Inv, Inv', NEW d, NEW p \in Places, NEW v, Moves(d, p, v)
  PROVE  /\ Val' = [Val EXCEPT ![p] = Val'[p]]
         /\ \A r \in Places : v = at[r] => Val'[p] = Val[r]
         /\ v \in Cells => Val'[p] = d[v]
         /\ v \notin Cells => Val'[p] = v
<1> HIDE DEF Inv
<1> QED BY OneVal DEF Moves

LEMMA MovesCopy ==
  ASSUME Inv, Inv', NEW d, NEW p \in Places, NEW r \in Places, Moves(d, p, at[r])
  PROVE  Val' = [Val EXCEPT ![p] = Val[r]]
<1> DEFINE v == at[r]
<1>1. v = at[r] /\ Moves(d, p, v)
  OBVIOUS
<1> HIDE DEF Inv, v
<1>2. Val' = [Val EXCEPT ![p] = Val'[p]] /\ Val'[p] = Val[r]
  BY <1>1, MovesVal
<1> QED BY <1>2

LEMMA MovesEmpty ==
  ASSUME Inv, Inv', NEW d, NEW p \in Places, NEW v, v \notin Cells, Moves(d, p, v)
  PROVE  Val' = [Val EXCEPT ![p] = v]
<1> HIDE DEF Inv
<1>1. Val' = [Val EXCEPT ![p] = Val'[p]] /\ Val'[p] = v
  BY MovesVal
<1> QED BY <1>1

\* A handler that releases what p refers to, and retains v.
LEMMA MovesRetained ==
  ASSUME Inv, NEW p \in Places, NEW v,
         heap' = Retain(Release(heap, at[p]), v), at' = [at EXCEPT ![p] = v]
  PROVE  Moves(heap.data, p, v)
<1>1. heap \in HeapType
  BY DEF Inv, Sound
<1> QED BY <1>1, ReleaseKeeps, RetainKeeps DEF Moves

\* One that releases it only.
LEMMA MovesReleased ==
  ASSUME Inv, NEW p \in Places, NEW v, heap' = Release(heap, at[p]), at' = [at EXCEPT ![p] = v]
  PROVE  Moves(heap.data, p, v)
<1>1. heap \in HeapType
  BY DEF Inv, Sound
<1> QED BY <1>1, ReleaseKeeps DEF Moves

\* One that takes a free cell and stores it where it releases the old value.
LEMMA MovesFresh ==
  ASSUME Inv, Inv', NEW p \in Places, NEW c \in Cells, NEW x \in Payloads, Free(heap, c),
         heap' = Release(Alloc(heap, c, x), at[p]), at' = [at EXCEPT ![p] = c]
  PROVE  Val' = [Val EXCEPT ![p] = x]
<1> DEFINE d == [heap.data EXCEPT ![c] = x]
<1>1. heap \in HeapType
  BY DEF Inv, Sound
<1>2. Fades(d, heap'.data)
  BY <1>1, AllocKeeps, ReleaseKeeps
<1>3. d[c] = x /\ \A e \in Cells : heap.refs[e] # 0 => d[e] = heap.data[e]
  BY <1>1 DEF HeapType, Free
<1> HIDE DEF Inv, d
<1>4. Moves(d, p, c)
  BY <1>2, <1>3 DEF Moves
<1> QED BY <1>3, <1>4, MovesVal

LEMMA SlotsAndNames ==
  ASSUME Inv
  PROVE  /\ \A l \in Locals : Here(l) \in Places /\ Values!Here(l) = Here(l)
         /\ \A n \in Names : n \in Locals /\ Here(n)[2] \in Names
         /\ \A s \in Slots : s \in Locals /\ Here(s) \notin konst
         /\ \A s \in Slots, e \in Depths, n \in Names : <<e, n>> # Here(s) /\ <<e, n>> \in Places
BY HereFacts, EnvAssumption DEF Inv, Shape, Here, Values!Here, Places, Locals

LEMMA EvalNewStep ==
  ASSUME Inv, Inv', NEW s \in Slots, NEW c \in Cells, NEW x \in Payloads, EvalNew(s, c, x)
  PROVE  Values!Eval(s, x)
<1>1. Release(Alloc(heap, c, x), at[Here(s)]) = Alloc(heap, c, x)
  BY EnvAssumption DEF EvalNew, Unused, Release, Counted
<1> HIDE DEF Inv
<1>2. Val' = [Val EXCEPT ![Here(s)] = x]
  BY <1>1, SlotsAndNames, MovesFresh DEF EvalNew
<1>3. Val[Here(s)] = NoVar
  BY SlotsAndNames, ValNow DEF EvalNew, Unused
<1> QED BY <1>2, <1>3, SlotsAndNames DEF Values!Eval, EvalNew, Val

LEMMA EvalNameStep ==
  ASSUME Inv, Inv', NEW s \in Slots, NEW n \in Names, EvalName(s, n)
  PROVE  Values!Read(s, n)
<1>1. PICK e \in Depths : /\ Nearest(n, e) /\ at[<<e, n>>] \in Cells
                          /\ heap' = Retain(heap, at[<<e, n>>])
                          /\ at' = [at EXCEPT ![Here(s)] = at[<<e, n>>]]
  BY DEF EvalName
<1>2. Release(heap, at[Here(s)]) = heap
  BY EnvAssumption DEF EvalName, Unused, Release, Counted
<1> HIDE DEF Inv
<1>3. Moves(heap.data, Here(s), at[<<e, n>>])
  BY <1>1, <1>2, SlotsAndNames, MovesRetained
<1>4. Val' = [Val EXCEPT ![Here(s)] = Val[<<e, n>>]]
  <2>1. Here(s) \in Places /\ <<e, n>> \in Places
    BY SlotsAndNames
  <2> QED BY <1>3, <2>1, MovesCopy
<1>5. Val[Here(s)] = NoVar /\ Values!IsValue(Val[<<e, n>>])
  BY <1>1, SlotsAndNames, ValNow DEF EvalName, Unused
<1>6. Values!Meant(n) = <<e, n>>
  BY <1>1, SameMeaning
<1> QED BY <1>4, <1>5, <1>6, SlotsAndNames DEF Values!Read, Values!Eval, EvalName, Val

LEMMA DropStep ==
  ASSUME Inv, Inv', NEW s \in Slots, Drop(s)
  PROVE  Values!Drop(s)
<1> HIDE DEF Inv
<1>1. Moves(heap.data, Here(s), NoVar)
  BY SlotsAndNames, MovesReleased DEF Drop
<1>2. Val' = [Val EXCEPT ![Here(s)] = NoVar]
  BY <1>1, SlotsAndNames, MovesVal, EnvAssumption, ZenonT(30)
<1>3. Values!IsValue(Val[Here(s)])
  BY SlotsAndNames, ValNow DEF Drop, Held
<1> QED BY <1>2, <1>3, SlotsAndNames DEF Values!Drop, Drop, Val

\* The value in a slot is bound at p, which is not a constant.
LEMMA AssignStep ==
  ASSUME Inv, Inv', NEW p \in Places, NEW s \in Slots, p \notin konst, Held(s), Assign(p, s),
         UNCHANGED <<depth, args>>
  PROVE  \E x \in Payloads : Values!Store(p, s, x)
<1> HIDE DEF Inv
<1>1. Moves(heap.data, p, at[Here(s)])
  BY MovesRetained DEF Assign
<1>2. Val' = [Val EXCEPT ![p] = Val[Here(s)]]
  <2>1. Here(s) \in Places
    BY SlotsAndNames
  <2> QED BY <1>1, <2>1, MovesCopy
<1>3. Values!IsValue(Val[Here(s)]) /\ Val[Here(s)] \in Payloads
  BY SlotsAndNames, ValNow DEF Held
<1>4. Values!Store(p, s, Val[Here(s)])
  BY <1>2, <1>3, SlotsAndNames DEF Values!Store, Val
<1> QED BY <1>3, <1>4

\* The statement fails on a constant p.
LEMMA FailStep ==
  ASSUME Inv, Inv', NEW p \in konst, NEW s \in Slots, NEW c \in Cells, NEW x \in Payloads,
         Held(s), Fail(s, c, x), UNCHANGED <<depth, args>>
  PROVE  Values!Store(p, s, x)
<1> HIDE DEF Inv
<1>1. Val' = [Val EXCEPT ![Here(s)] = x]
  BY SlotsAndNames, MovesFresh DEF Fail
<1>2. Values!IsValue(Val[Here(s)])
  BY SlotsAndNames, ValNow DEF Held
<1> QED BY <1>1, <1>2, SlotsAndNames DEF Values!Store, Val

LEMMA SetStep ==
  ASSUME Inv, Inv', NEW n \in Names, NEW s \in Slots, SetStmt(n, s)
  PROVE  \E x \in Payloads : Values!Set(n, s, x)
<1> HIDE DEF Inv
<1>1. Held(s) /\ UNCHANGED <<konst, depth, args>>
  BY DEF SetStmt
<1>2. ASSUME NEW e \in Depths, Nearest(n, e), <<e, n>> \notin konst, Assign(<<e, n>>, s)
      PROVE  \E x \in Payloads : Values!Set(n, s, x)
  BY <1>1, <1>2, SlotsAndNames, SameMeaning, AssignStep DEF Values!Set
<1>3. ASSUME NEW e \in Depths, Nearest(n, e), <<e, n>> \in konst,
             NEW c \in Cells, NEW x \in Payloads, Fail(s, c, x)
      PROVE  \E y \in Payloads : Values!Set(n, s, y)
  BY <1>1, <1>3, SameMeaning, FailStep DEF Values!Set
<1>4. ASSUME Undefined(n), Assign(Here(n), s)
      PROVE  \E x \in Payloads : Values!Set(n, s, x)
  <2>1. Here(n) \notin konst
    BY <1>4, EnvAssumption DEF Inv, Shape, Undefined, Here, Depths
  <2> QED BY <1>1, <1>4, <2>1, SlotsAndNames, SameMeaning, AssignStep DEF Values!Set
<1> QED BY <1>2, <1>3, <1>4 DEF SetStmt

LEMMA VarStep ==
  ASSUME Inv, Inv', NEW n \in Names, NEW s \in Slots, VarStmt(n, s)
  PROVE  \E x \in Payloads : Values!Var(n, s, x)
<1> HIDE DEF Inv
<1>1. Held(s) /\ UNCHANGED <<konst, depth, args>>
  BY DEF VarStmt
<1>2. Here(n) \in Places /\ Values!Here(n) = Here(n)
  BY SlotsAndNames
<1>3. CASE Here(n) \notin konst /\ Assign(Here(n), s)
  BY <1>1, <1>2, <1>3, AssignStep DEF Values!Var
<1>4. ASSUME Here(n) \in konst, NEW c \in Cells, NEW x \in Payloads, Fail(s, c, x)
      PROVE  \E y \in Payloads : Values!Var(n, s, y)
  BY <1>1, <1>2, <1>4, FailStep DEF Values!Var
<1> QED BY <1>3, <1>4 DEF VarStmt

LEMMA ConstStep ==
  ASSUME Inv, Inv', NEW n \in Names, NEW s \in Slots, ConstStmt(n, s)
  PROVE  \E x \in Payloads : Values!Const(n, s, x)
<1> HIDE DEF Inv
<1>1. Held(s) /\ UNCHANGED <<depth, args>>
  BY DEF ConstStmt
<1>2. Here(n) \in Places /\ Values!Here(n) = Here(n)
  BY SlotsAndNames
<1>3. Val[Here(n)] = NoVar <=> at[Here(n)] = NoVar
  BY <1>2, ValNow
<1>4. CASE /\ Here(n) \notin konst /\ Assign(Here(n), s)
           /\ konst' = IF at[Here(n)] = NoVar THEN konst \cup {Here(n)} ELSE konst
  BY <1>1, <1>2, <1>3, <1>4, AssignStep DEF Values!Const, Val
<1>5. ASSUME Here(n) \in konst, NEW c \in Cells, NEW x \in Payloads, Fail(s, c, x),
             UNCHANGED konst
      PROVE  \E y \in Payloads : Values!Const(n, s, y)
  <2>1. konst' = IF Val[Here(n)] = NoVar THEN konst \cup {Here(n)} ELSE konst
    BY <1>5
  <2> QED BY <1>1, <1>2, <1>5, <2>1, FailStep DEF Values!Const, Val
<1> QED BY <1>4, <1>5 DEF ConstStmt

LEMMA DeclareStep ==
  ASSUME Inv, Inv', NEW n \in Names, NEW c \in Cells, NEW x \in Payloads, Declare(n, c, x)
  PROVE  Values!Declare(n, x)
<1> HIDE DEF Inv
<1>1. Val' = [Val EXCEPT ![Here(n)] = x]
  BY SlotsAndNames, MovesFresh DEF Declare
<1> QED BY <1>1, SlotsAndNames DEF Values!Declare, Declare, Val

LEMMA InPlaceStep ==
  ASSUME Inv, Inv', NEW n \in Names, NEW s \in Slots, NEW c \in Cells, NEW x \in Payloads,
         InPlace(n, s, c, x)
  PROVE  Values!Update(n, s, x)
<1> DEFINE d == [heap.data EXCEPT ![c] = x]
<1>1. /\ heap \in HeapType /\ d[c] = x
      /\ \A e \in Cells : heap.refs[e] # 0 => d[e] = heap.data[e]
  BY DEF Inv, Sound, HeapType, InPlace, Free
<1>2. /\ Alloc(heap, c, x) \in HeapType /\ Alloc(heap, c, x).data = d
  BY <1>1, AllocKeeps
<1>3. Here(s) \in Places /\ Values!Here(s) = Here(s) /\ at[Here(s)] \in Cells
  BY SlotsAndNames DEF InPlace, Held
<1>4. Values!IsValue(Val[Here(s)]) /\ UNCHANGED <<konst, depth, args>>
  BY <1>3, ValNow DEF InPlace
<1> HIDE DEF Inv, d
<1>5. ASSUME NEW e \in Depths, Nearest(n, e), at[<<e, n>>] # Null, <<e, n>> \notin konst,
             heap' = Retain(Release(Release(Alloc(heap, c, x), at[<<e, n>>]), at[Here(s)]), c),
             at' = [at EXCEPT ![<<e, n>>] = c, ![Here(s)] = c]
      PROVE  Values!Update(n, s, x)
  <2>1. <<e, n>> \in Places /\ <<e, n>> # Here(s) /\ Values!Meant(n) = <<e, n>>
    BY <1>5, SlotsAndNames, SameMeaning
  <2>2. Values!IsValue(Val[<<e, n>>])
    BY <1>5, <2>1, ValNow, EnvAssumption DEF Nearest, Values!IsValue
  <2>3. Fades(d, heap'.data)
    <3> DEFINE h == Release(Alloc(heap, c, x), at[<<e, n>>])
               k == Release(h, at[Here(s)])
    <3>1. h \in HeapType /\ Fades(d, h.data)
      BY <1>2, ReleaseKeeps
    <3>2. k \in HeapType /\ Fades(h.data, k.data)
      BY <3>1, ReleaseKeeps
    <3>3. heap'.data = k.data
      BY <1>5, <3>2, RetainKeeps
    <3> HIDE DEF h, k
    <3> QED BY <3>1, <3>2, <3>3, FadesOn
  <2>4. /\ at'[<<e, n>>] = c /\ at'[Here(s)] = c
        /\ \A q \in Places \ {<<e, n>>, Here(s)} : at'[q] = at[q]
    <3>1. at \in [Places -> Refs]
      BY DEF Inv, Shape
    <3> QED BY <1>3, <1>5, <2>1, <3>1
  <2>5. /\ Val'[<<e, n>>] = x /\ Val'[Here(s)] = x
        /\ \A q \in Places \ {<<e, n>>, Here(s)} : Val'[q] = Val[q]
    BY <1>1, <1>3, <2>1, <2>3, <2>4, SameVal
  <2>6. Val' = [Val EXCEPT ![<<e, n>>] = x, ![Here(s)] = x]
    <3>1. /\ Val \in [Places -> Payloads \cup {NoVar, Null}]
          /\ Val' = [q \in Places |-> Val'[q]]
      BY ValNow DEF Val
    <3> QED BY <1>3, <2>1, <2>5, <3>1
  <2> QED BY <1>3, <1>4, <1>5, <2>1, <2>2, <2>6 DEF Values!Update, Val
<1>6. ASSUME NEW e \in Depths, Nearest(n, e), <<e, n>> \in konst,
             heap' = Lose(Retain(Release(Alloc(heap, c, x), at[Here(s)]), c), c),
             at' = [at EXCEPT ![Here(s)] = c]
      PROVE  Values!Update(n, s, x)
  <2>1. Fades(d, heap'.data)
    <3> DEFINE h == Release(Alloc(heap, c, x), at[Here(s)])
    <3>1. h \in HeapType /\ Fades(d, h.data)
      BY <1>2, ReleaseKeeps
    <3>2. heap'.data = h.data
      BY <1>6, <3>1, RetainKeeps, LoseKeeps
    <3> QED BY <3>1, <3>2
  <2>2. Moves(d, Here(s), c)
    BY <1>1, <1>6, <2>1 DEF Moves
  <2>3. Val' = [Val EXCEPT ![Here(s)] = x]
    BY <1>1, <1>3, <2>2, MovesVal
  <2> QED BY <1>3, <1>4, <1>6, <2>3, SameMeaning DEF Values!Update, Val
<1>7. ASSUME Fail(s, c, x), Undefined(n) \/ \E e \in Depths : Nearest(n, e) /\ at[<<e, n>>] = Null
      PROVE  Values!Update(n, s, x)
  <2>1. Val' = [Val EXCEPT ![Here(s)] = x]
    BY <1>3, <1>7, MovesFresh DEF Fail
  <2>2. ~Values!IsValue(Val[Values!Meant(n)])
    <3>1. CASE Undefined(n)
      <4>1. Here(n) \in Places /\ Values!Meant(n) = Here(n)
        BY <3>1, SlotsAndNames, SameMeaning
      <4>2. at[Here(n)] = NoVar
        BY <3>1, EnvAssumption DEF Inv, Shape, Undefined, Here, Depths
      <4> QED BY <4>1, <4>2, ValNow DEF Values!IsValue
    <3>2. ASSUME NEW e \in Depths, Nearest(n, e), at[<<e, n>>] = Null
          PROVE  ~Values!IsValue(Val[Values!Meant(n)])
      <4>1. <<e, n>> \in Places /\ Values!Meant(n) = <<e, n>>
        BY <3>2, SlotsAndNames, SameMeaning
      <4> QED BY <3>2, <4>1, ValNow DEF Values!IsValue
    <3> QED BY <1>7, <3>1, <3>2
  <2> QED BY <1>3, <1>4, <2>1, <2>2 DEF Values!Update, Val
<1> QED BY <1>5, <1>6, <1>7 DEF InPlace

LEMMA AliasStep ==
  ASSUME Inv, Inv', NEW m \in Names, NEW n \in Names, Alias(m, n)
  PROVE  Values!Alias(m, n)
<1> HIDE DEF Inv
<1>1. /\ Here(n) \in Places /\ Values!Here(n) = Here(n) /\ Here(n) \notin konst
      /\ UNCHANGED <<konst, depth, args>>
  BY SlotsAndNames DEF Alias
<1>2. ASSUME NEW e \in Depths, Nearest(m, e),
             heap' = Retain(Release(heap, at[Here(n)]), at[<<e, m>>]),
             at' = [at EXCEPT ![Here(n)] = at[<<e, m>>]]
      PROVE  Values!Alias(m, n)
  <2>1. <<e, m>> \in Places /\ Values!Meant(m) = <<e, m>> /\ Values!Bound(m) # {}
    BY <1>2, SameMeaning DEF Places, Locals
  <2>2. Val' = [Val EXCEPT ![Here(n)] = Val[<<e, m>>]]
    BY <1>1, <1>2, <2>1, MovesRetained, MovesCopy
  <2> QED BY <1>1, <2>1, <2>2 DEF Values!Alias, Val
<1>3. ASSUME Undefined(m), heap' = Release(heap, at[Here(n)]), at' = [at EXCEPT ![Here(n)] = Null]
      PROVE  Values!Alias(m, n)
  <2>1. Values!Bound(m) = {}
    BY <1>3, SameMeaning
  <2>2. Moves(heap.data, Here(n), Null)
    BY <1>1, <1>3, MovesReleased
  <2>3. Val' = [Val EXCEPT ![Here(n)] = Null]
    BY <1>1, <2>2, MovesEmpty, EnvAssumption
  <2> QED BY <1>1, <2>1, <2>3 DEF Values!Alias, Val
<1> QED BY <1>2, <1>3 DEF Alias

LEMMA ForgetStep ==
  ASSUME Slips = {}, Inv, Inv', NEW n \in Names, Forget(n)
  PROVE  Values!Forget(n)
<1> HIDE DEF Inv
<1>1. Nearest(n, depth) /\ heap' = Release(heap, at[Here(n)])
  BY DEF Forget, Here
<1>2. Here(n) \in Places /\ Values!Meant(n) = Here(n) /\ Values!Bound(n) # {}
  <2>1. depth \in Depths
    BY DEF Inv, Shape
  <2> QED BY <1>1, <2>1, SlotsAndNames, SameMeaning DEF Here
<1>3. Val' = [Val EXCEPT ![Here(n)] = NoVar]
  <2>1. Moves(heap.data, Here(n), NoVar)
    BY <1>1, <1>2, MovesReleased DEF Forget
  <2> QED BY <1>2, <2>1, MovesEmpty, EnvAssumption
<1> QED BY <1>2, <1>3 DEF Values!Forget, Forget, Val

-----------------------------------------------------------------------------
(* Envs.                                                                    *)

\* The contents stay, and every place refers to what a place referred to.
LEMMA AllVal ==
  ASSUME Inv, Inv', Fades(heap.data, heap'.data)
  PROVE  \A q, r \in Places : at'[q] = at[r] => Val'[q] = Val[r]
<1> HIDE DEF Inv
<1>1. \A c \in Cells : heap.refs[c] # 0 => heap.data[c] = heap.data[c]
  OBVIOUS
<1> QED BY <1>1, SameVal

LEMMA EnterBlockStep ==
  ASSUME Inv, Inv', EnterBlock
  PROVE  \E P \in SUBSET Names : \E bind \in [P -> Slots] : Values!Enter(bind)
<1> DEFINE bind == [n \in {} |-> n]
<1>1. Fades(heap.data, heap'.data)
  BY DEF EnterBlock, Fades
<1> HIDE DEF Inv
<1>2. \A p \in Places : Val'[p] = Val[p]
  BY <1>1, AllVal DEF EnterBlock
<1>3. Val' = [p \in Places |-> IF p[1] = depth + 1 /\ p[2] \in DOMAIN bind
                               THEN Val[Values!Here(bind[p[2]])] ELSE Val[p]]
  <2>1. Val' = [p \in Places |-> Val'[p]]
    BY DEF Val
  <2>2. \A p \in Places : Val'[p] = IF p[1] = depth + 1 /\ p[2] \in DOMAIN bind
                               THEN Val[Values!Here(bind[p[2]])] ELSE Val[p]
    BY <1>2
  <2> HIDE DEF bind
  <2> QED BY <2>1, <2>2
<1>4. /\ DOMAIN bind = {} /\ {bind[n] : n \in DOMAIN bind} = {}
      /\ {} \in SUBSET Names /\ bind \in [{} -> Slots]
  OBVIOUS
<1> HIDE DEF bind
<1>5. Values!Enter(bind)
  BY <1>3, <1>4 DEF Values!Enter, EnterBlock, Val, Places, Depths, Locals, Values!Places,
     Values!Depths, Values!Locals
<1> QED BY <1>4, <1>5

LEMMA CallStep ==
  ASSUME Inv, Inv', NEW P \in SUBSET Names, NEW bind \in [P -> Slots], Call(bind)
  PROVE  Values!Enter(bind) \/ UNCHANGED <<Val, konst, depth, args>>
<1> DEFINE uses(c) == Cardinality({n \in DOMAIN bind : at[Here(bind[n])] = c})
           overflow == \E c \in Cells : uses(c) > 0 /\ heap.refs[c] + uses(c) >= MaxRefs
           refs == [c \in Cells |-> heap.refs[c] + uses(c)]
           fault == \E c \in Cells : uses(c) > 0 /\ heap.refs[c] = 0
<1>1. heap \in HeapType
  BY DEF Inv, Sound
<1>2. CASE overflow
  <2>1. heap' = [heap EXCEPT !.aborted = TRUE] /\ UNCHANGED <<at, konst, depth, args>>
    BY <1>2 DEF Call
  <2>2. Fades(heap.data, heap'.data)
    BY <1>1, <2>1 DEF HeapType, Fades
  <2> HIDE DEF Inv
  <2>3. \A p \in Places : Val'[p] = Val[p]
    BY <2>1, <2>2, AllVal
  <2>4. Val' = [p \in Places |-> Val'[p]] /\ Val = [p \in Places |-> Val[p]]
    BY DEF Val
  <2> QED BY <2>1, <2>3, <2>4
<1>3. CASE ~overflow
  <2>1. /\ depth < MaxDepth /\ \A n \in DOMAIN bind : Held(bind[n])
        /\ heap' = [heap EXCEPT !.refs = refs, !.fault = fault]
        /\ at' = [p \in Places |-> IF p[1] = depth + 1 /\ p[2] \in DOMAIN bind
                                   THEN at[Here(bind[p[2]])] ELSE at[p]]
        /\ args' = [args EXCEPT ![depth + 1] = {bind[n] : n \in DOMAIN bind}]
        /\ depth' = depth + 1
        /\ UNCHANGED konst
    BY <1>3 DEF Call
  <2>2. Fades(heap.data, heap'.data)
    <3> HIDE DEF refs, fault
    <3> QED BY <1>1, <2>1 DEF HeapType, Fades
  <2> HIDE DEF Inv, refs, fault, overflow
  <2>3. \A n \in DOMAIN bind : Here(bind[n]) \in Places /\ Values!Here(bind[n]) = Here(bind[n])
    BY SlotsAndNames
  <2>4. \A n \in DOMAIN bind : Values!IsValue(Val[Values!Here(bind[n])])
    BY <2>1, <2>3, ValNow DEF Held
  <2>5. \A p \in Places : Val'[p] = IF p[1] = depth + 1 /\ p[2] \in DOMAIN bind
                                    THEN Val[Values!Here(bind[p[2]])] ELSE Val[p]
    <3>1. \A q, r \in Places : at'[q] = at[r] => Val'[q] = Val[r]
      BY <2>2, AllVal
    <3>2. ASSUME NEW p \in Places, p[1] = depth + 1, p[2] \in DOMAIN bind
          PROVE  Val'[p] = Val[Values!Here(bind[p[2]])]
      BY <2>1, <2>3, <3>1, <3>2
    <3>3. ASSUME NEW p \in Places, ~(p[1] = depth + 1 /\ p[2] \in DOMAIN bind)
          PROVE  Val'[p] = Val[p]
      BY <2>1, <3>1, <3>3
    <3> QED BY <3>2, <3>3
  <2>6. Val' = [p \in Places |-> IF p[1] = depth + 1 /\ p[2] \in DOMAIN bind
                                 THEN Val[Values!Here(bind[p[2]])] ELSE Val[p]]
    <3>1. Val' = [p \in Places |-> Val'[p]]
      BY DEF Val
    <3> QED BY <2>5, <3>1
  <2>7. Values!Enter(bind)
    BY <2>1, <2>4, <2>6 DEF Values!Enter, Val, Places, Depths, Locals, Values!Places,
       Values!Depths, Values!Locals
  <2> QED BY <2>7
<1> QED BY <1>2, <1>3

LEMMA LeaveStep ==
  ASSUME Inv, Inv', NEW s \in Slots, NEW t \in Slots, Leave(s, t)
  PROVE  Values!Leave(s, t)
<1> DEFINE given == {<<depth - 1, a>> : a \in args[depth]}
           dest == <<depth - 1, t>>
           gone == {<<depth, n>> : n \in Names} \cup given
<1>1. /\ depth > 1
      /\ at[dest] = NoVar \/ dest \in given
      /\ heap' = ReleaseAll(heap, gone)
      /\ at' = [p \in Places |-> IF p = dest THEN at[Here(s)]
                                 ELSE IF p[1] = depth \/ p \in given THEN NoVar
                                 ELSE at[p]]
      /\ konst' = {p \in konst : p[1] # depth}
      /\ depth' = depth - 1
      /\ args' = [args EXCEPT ![depth] = {}]
  BY DEF Leave
<1>2. Fades(heap.data, heap'.data)
  <2>1. heap \in HeapType
    BY DEF Inv, Sound
  <2> HIDE DEF gone
  <2> QED BY <1>1, <2>1 DEF ReleaseAll, HeapType, Fades
<1> HIDE DEF Inv, gone
<1>3. dest \in Places /\ Here(s) \in Places /\ Values!Here(s) = Here(s)
  <2>1. depth \in Depths
    BY DEF Inv, Shape
  <2>2. depth - 1 \in Depths
    BY <1>1, <2>1, EnvAssumption DEF Depths
  <2> QED BY <2>2, SlotsAndNames DEF Places, Locals
<1>4. Val[dest] = NoVar \/ t \in args[depth]
  BY <1>1, <1>3, ValNow
<1>5. \A p \in Places : p \in given <=> p[1] = depth - 1 /\ p[2] \in args[depth]
  BY DEF Places
<1>6. \A p \in Places : Val'[p] = IF p = dest THEN Val[Values!Here(s)]
                                  ELSE IF p[1] = depth \/ (p[1] = depth - 1 /\ p[2] \in args[depth])
                                  THEN NoVar
                                  ELSE Val[p]
  <2>1. \A q, r \in Places : at'[q] = at[r] => Val'[q] = Val[r]
    BY <1>2, AllVal
  <2>2. \A q \in Places : at'[q] = NoVar => Val'[q] = NoVar
    BY EnvAssumption DEF Val, Contents
  <2>3. \A p \in Places : at'[p] = IF p = dest THEN at[Here(s)]
                                   ELSE IF p[1] = depth \/ p \in given THEN NoVar
                                   ELSE at[p]
    BY <1>1
  <2> HIDE DEF dest, given
  <2> QED BY <1>3, <1>5, <2>1, <2>2, <2>3
<1>7. Val' = [p \in Places |-> Val'[p]]
  BY DEF Val
<1> HIDE DEF given
<1>8. Val' = [p \in Places |-> IF p = dest THEN Val[Values!Here(s)]
                               ELSE IF p[1] = depth \/ (p[1] = depth - 1 /\ p[2] \in args[depth])
                               THEN NoVar
                               ELSE Val[p]]
  <2> HIDE DEF dest
  <2> QED BY <1>6, <1>7
<1> QED BY <1>1, <1>4, <1>8 DEF Values!Leave, Val, Places, Depths, Locals, Values!Places,
        Values!Depths, Values!Locals

-----------------------------------------------------------------------------
(* The theorems.                                                            *)

LEMMA StepIsStep ==
  ASSUME Slips = {}, Inv, Inv', Next
  PROVE  Values!Next \/ UNCHANGED <<Val, konst, depth, args>>
<1> HIDE DEF Inv
<1>1. ASSUME NEW s \in Slots, NEW c \in Cells, NEW x \in Payloads, EvalNew(s, c, x)
      PROVE  Values!Next
  BY <1>1, EvalNewStep DEF Values!Next
<1>2. ASSUME NEW s \in Slots, NEW n \in Names, EvalName(s, n) PROVE Values!Next
  BY <1>2, EvalNameStep DEF Values!Next
<1>3. ASSUME NEW s \in Slots, NEW n \in Names, SetStmt(n, s) \/ VarStmt(n, s) \/ ConstStmt(n, s)
      PROVE  Values!Next
  BY <1>3, SetStep, VarStep, ConstStep DEF Values!Next
<1>4. ASSUME NEW s \in Slots, NEW n \in Names, NEW c \in Cells, NEW x \in Payloads,
             InPlace(n, s, c, x)
      PROVE  Values!Next
  BY <1>4, InPlaceStep DEF Values!Next
<1>5. ASSUME NEW s \in Slots, Drop(s) PROVE Values!Next
  BY <1>5, DropStep DEF Values!Next
<1>6. ASSUME NEW s \in Slots, NEW t \in Slots, Leave(s, t) PROVE Values!Next
  BY <1>6, LeaveStep DEF Values!Next
<1>7. ASSUME NEW n \in Names, NEW c \in Cells, NEW x \in Payloads, Declare(n, c, x)
      PROVE  Values!Next
  BY <1>7, DeclareStep DEF Values!Next
<1>8. ASSUME NEW m \in Names, NEW n \in Names, Alias(m, n) PROVE Values!Next
  BY <1>8, AliasStep DEF Values!Next
<1>9. ASSUME NEW n \in Names, Forget(n) PROVE Values!Next
  BY <1>9, ForgetStep DEF Values!Next
<1>10. ASSUME EnterBlock PROVE Values!Next
  BY <1>10, EnterBlockStep DEF Values!Next
<1>11. ASSUME NEW P \in SUBSET Names, NEW bind \in [P -> Slots], Call(bind)
       PROVE  Values!Next \/ UNCHANGED <<Val, konst, depth, args>>
  BY <1>11, CallStep DEF Values!Next
<1> QED
  BY <1>1, <1>2, <1>3, <1>4, <1>5, <1>6, <1>7, <1>8, <1>9, <1>10, <1>11 DEF Next

\* The variables of a script behave as if every one held a value of its own, for any number
\* of cells, names, slots, nested Envs and references: counting, sharing and freeing never
\* shows (mila.c, without the two Slips).
THEOREM EnvImplementsScopes == ASSUME Slips = {} PROVE Spec => ImplementsScopes
<1>1. Init => Values!Init
  BY DEF Init, Values!Init, Contents, Places, Depths, Locals, Values!Places, Values!Depths,
       Values!Locals
<1>2. Inv /\ Inv' /\ [Next]_vars => [Values!Next]_(Values!vars)
  <2>1. ASSUME Inv, Inv', Next PROVE [Values!Next]_(Values!vars)
    BY <2>1, StepIsStep DEF Values!vars, Val
  <2>2. ASSUME UNCHANGED vars PROVE UNCHANGED Values!vars
    BY <2>2 DEF vars, Values!vars, Contents
  <2> QED BY <2>1, <2>2
<1> QED BY <1>1, <1>2, InvariantHolds, PTL DEF Spec, ImplementsScopes, Values!Spec

\* A step of MilaScopes keeps what is a constant before and after it.
LEMMA ConstantStays ==
  ASSUME Inv, Values!Next, NEW p \in konst \cap konst'
  PROVE  Val'[p] = Val[p]
<1>1. /\ p \in Places /\ p[2] \in Names /\ p[1] <= depth /\ depth \in Nat
      /\ args[depth] \subseteq Slots
  BY EnvAssumption DEF Inv, Shape, Depths
<1>2. Val \in [Places -> Payloads \cup {NoVar, Null}]
  BY ValNow
<1>3. \A s \in Slots : Values!Here(s) # p /\ \A e : <<e, s>> # p
  BY <1>1, EnvAssumption DEF Values!Here
<1> HIDE DEF Inv
<1>4. ASSUME NEW q, q # p, NEW v, Val' = [Val EXCEPT ![q] = v] PROVE Val'[p] = Val[p]
  BY <1>1, <1>2, <1>4
<1>5. ASSUME NEW s \in Slots, NEW x, Values!Eval(s, x) PROVE Val'[p] = Val[p]
  BY <1>3, <1>4, <1>5 DEF Values!Eval, Val
<1>6. ASSUME NEW s \in Slots, NEW n \in Names, Values!Read(s, n) PROVE Val'[p] = Val[p]
  BY <1>5, <1>6 DEF Values!Read
<1>7. ASSUME NEW s \in Slots, NEW q, NEW x, Values!Store(q, s, x) PROVE Val'[p] = Val[p]
  <2>1. CASE q \in konst
    BY <1>3, <1>4, <1>7, <2>1 DEF Values!Store, Val
  <2>2. CASE q \notin konst
    BY <1>4, <1>7, <2>2 DEF Values!Store, Val
  <2> QED BY <2>1, <2>2
<1>8. ASSUME NEW s \in Slots, NEW n \in Names, NEW x \in Payloads,
             Values!Set(n, s, x) \/ Values!Var(n, s, x) \/ Values!Const(n, s, x)
      PROVE  Val'[p] = Val[p]
  BY <1>7, <1>8 DEF Values!Set, Values!Var, Values!Const
<1>9. ASSUME NEW s \in Slots, NEW n \in Names, NEW x \in Payloads, Values!Update(n, s, x)
      PROVE  Val'[p] = Val[p]
  <2>1. CASE /\ Values!Meant(n) \notin konst
             /\ Val' = [Val EXCEPT ![Values!Meant(n)] = x, ![Values!Here(s)] = x]
    BY <1>1, <1>2, <1>3, <2>1
  <2>2. CASE Val' = [Val EXCEPT ![Values!Here(s)] = x]
    BY <1>3, <1>4, <2>2
  <2> QED BY <1>9, <2>1, <2>2 DEF Values!Update, Val
<1>10. ASSUME NEW s \in Slots, Values!Drop(s) PROVE Val'[p] = Val[p]
  BY <1>3, <1>4, <1>10 DEF Values!Drop, Val
<1>11. ASSUME NEW s \in Slots, NEW t \in Slots, Values!Leave(s, t) PROVE Val'[p] = Val[p]
  <2>1. p[1] # depth /\ p # <<depth - 1, t>> /\ p[2] \notin args[depth]
    BY <1>1, <1>3, <1>11, EnvAssumption DEF Values!Leave
  <2> QED BY <1>1, <1>11, <2>1 DEF Values!Leave, Val, Places, Depths, Locals, Values!Places,
          Values!Depths, Values!Locals
<1>12. ASSUME NEW n \in Names, NEW x \in Payloads, Values!Declare(n, x) PROVE Val'[p] = Val[p]
  BY <1>4, <1>12 DEF Values!Declare, Val
<1>13. ASSUME NEW m \in Names, NEW n \in Names, Values!Alias(m, n) PROVE Val'[p] = Val[p]
  BY <1>4, <1>13 DEF Values!Alias, Val
<1>14. ASSUME NEW n \in Names, Values!Forget(n) PROVE Val'[p] = Val[p]
  BY <1>4, <1>14 DEF Values!Forget, Val
<1>15. ASSUME NEW P \in SUBSET Names, NEW bind \in [P -> Slots], Values!Enter(bind)
       PROVE  Val'[p] = Val[p]
  <2>1. p[1] # depth + 1
    BY <1>1, EnvAssumption DEF Places, Depths
  <2> QED BY <1>1, <1>15, <2>1 DEF Values!Enter, Val, Places, Depths, Locals, Values!Places,
          Values!Depths, Values!Locals
<1> QED
  BY <1>5, <1>6, <1>8, <1>9, <1>10, <1>11, <1>12, <1>13, <1>14, <1>15 DEF Values!Next

\* A constant keeps its value for as long as its binding exists, for any number of cells,
\* names, slots, nested Envs and references (mila.c: VAR_CONST, without the two Slips).
THEOREM ConstantsStayConstant == ASSUME Slips = {} PROVE Spec => ConstantsKeepTheirValue
<1>1. ASSUME Slips = {}, Inv, Inv', [Next]_vars, NEW p \in konst \cap konst'
      PROVE  Contents(p)' = Contents(p)
  <2>1. p \in Places /\ Contents(p) = Val[p] /\ Contents(p)' = Val'[p]
    BY <1>1 DEF Val, Inv, Shape
  <2>2. CASE Next
    <3> HIDE DEF Inv
    <3>1. Values!Next \/ UNCHANGED Val
      BY <1>1, <2>2, StepIsStep
    <3> QED BY <1>1, <2>1, <3>1, ConstantStays
  <2>3. CASE UNCHANGED vars
    BY <2>3 DEF vars, Contents
  <2> QED BY <1>1, <2>2, <2>3
<1>2. /\ Inv /\ Inv' /\ [Next]_vars
      => [\A p \in konst \cap konst' : Contents(p)' = Contents(p)]_vars
  BY <1>1
<1> QED BY <1>2, InvariantHolds, PTL DEF Spec, ConstantsKeepTheirValue
=============================================================================

-------------------------- MODULE EvaluatorProofs ---------------------------
(***************************************************************************)
(* Theorems about what the evaluator does: for every text, however deep    *)
(* its statements nest and however they end, handlers own what they        *)
(* allocate, once (ControlFlow); for every width of the integers and       *)
(* whatever was computed before, operators order numbers and undo each     *)
(* other (Operators); and every argument of a call reaches its parameter   *)
(* (Parameters).                                                           *)
(***************************************************************************)
EXTENDS ControlFlow, Operators, Parameters, ListLemmas

-----------------------------------------------------------------------------
(* Stacks of handlers, and what the handlers on one hold.                   *)

Iterates(f) == f.fn = "foreach" /\ f.kind = "iterator"

\* The Env that the handler f at k has while another handler runs in it.
HoldsEnv(f, k) ==
  \/ f.fn = "block" /\ f.own
  \/ f.fn \in {"scope", "foreach"}
  \/ f.fn = "source" /\ k # 1

HoldingIn(s) == {k \in DOMAIN s : HoldsEnv(s[k], k)}
SourcesIn(s) == {k \in DOMAIN s : s[k].fn = "source"}
IteratingIn(s) == {k \in DOMAIN s : Iterates(s[k])}

\* A foreach keeps its kind when its index changes.
Handler(f) == f.fn = "foreach" =>
  f = [fn |-> f.fn, kind |-> f.kind, i |-> f.i, max |-> f.max, body |-> f.body, end |-> f.end]

Stack(s) ==
  /\ IsList(s)
  /\ \A k \in DOMAIN s : Handler(s[k])
  /\ s # <<>> => s[1].fn = "source"

One(condition) == IF condition THEN 1 ELSE 0

LEMMA AddOne ==
  ASSUME NEW S, IsFiniteSet(S), NEW x, x \notin S, NEW c \in BOOLEAN
  PROVE  Cardinality(S \cup (IF c THEN {x} ELSE {})) = Cardinality(S) + One(c)
<1>1. Cardinality(S) \in Nat
  BY FS_CardinalityType
<1>2. CASE c
  BY <1>1, <1>2, FS_AddElement DEF One
<1>3. CASE ~c
  <2>1. S \cup (IF c THEN {x} ELSE {}) = S
    BY <1>3
  <2> QED BY <1>1, <1>3, <2>1 DEF One
<1> QED BY <1>2, <1>3

LEMMA StackCounts ==
  ASSUME NEW s, Stack(s)
  PROVE  /\ Cardinality(HoldingIn(s)) \in Nat /\ IsFiniteSet(HoldingIn(s))
         /\ Cardinality(SourcesIn(s)) \in Nat /\ IsFiniteSet(SourcesIn(s))
         /\ Cardinality(IteratingIn(s)) \in Nat /\ IsFiniteSet(IteratingIn(s))
         /\ s # <<>> => Cardinality(SourcesIn(s)) # 0
<1>1. Len(s) \in Nat /\ DOMAIN s = 1 .. Len(s) /\ (s # <<>> => Len(s) # 0)
  BY DEF Stack, IsList
<1>2. IsFiniteSet(1 .. Len(s))
  BY <1>1, FS_Interval
<1>3. IsFiniteSet(HoldingIn(s)) /\ IsFiniteSet(SourcesIn(s)) /\ IsFiniteSet(IteratingIn(s))
  BY <1>1, <1>2, FS_Subset DEF HoldingIn, SourcesIn, IteratingIn
<1>4. s # <<>> => 1 \in SourcesIn(s)
  BY <1>1 DEF SourcesIn, Stack
<1> QED BY <1>3, <1>4, FS_CardinalityType, FS_EmptySet

LEMMA StackPush ==
  ASSUME NEW s, Stack(s), NEW f, Handler(f), s = <<>> => f.fn = "source"
  PROVE  /\ Stack(Append(s, f)) /\ Append(s, f) # <<>> /\ Last(Append(s, f)) = f
         /\ Cardinality(HoldingIn(Append(s, f)))
              = Cardinality(HoldingIn(s)) + One(HoldsEnv(f, Len(s) + 1))
         /\ Cardinality(SourcesIn(Append(s, f)))
              = Cardinality(SourcesIn(s)) + One(f.fn = "source")
         /\ Cardinality(IteratingIn(Append(s, f)))
              = Cardinality(IteratingIn(s)) + One(Iterates(f))
<1> DEFINE t == Append(s, f)
           n == Len(s)
<1>1. /\ IsList(t) /\ n \in Nat /\ DOMAIN s = 1 .. n /\ Len(t) = n + 1
      /\ \A i \in 1 .. n : t[i] = s[i]
      /\ t[n + 1] = f
      /\ DOMAIN t = 1 .. n + 1
  BY ListAppend DEF Stack
<1>2. t # <<>> /\ Last(t) = f
  BY <1>1 DEF Last
<1>3. s = <<>> <=> n = 0
  BY DEF Stack, IsList
<1> HIDE DEF t, n
<1>4. 1 .. n + 1 = (1 .. n) \cup {n + 1} /\ n + 1 \notin 1 .. n
  BY <1>1
<1>5. Stack(t)
  <2>1. \A k \in DOMAIN t : Handler(t[k])
    BY <1>1, <1>4 DEF Stack
  <2>2. t[1].fn = "source"
    <3>1. CASE n = 0
      BY <1>1, <1>3, <3>1
    <3>2. CASE n # 0
      <4>1. 1 \in 1 .. n
        BY <1>1, <3>2
      <4> QED BY <1>1, <1>3, <3>2, <4>1 DEF Stack
    <3> QED BY <3>1, <3>2
  <2> QED BY <1>1, <2>1, <2>2 DEF Stack
<1>6. IsFiniteSet(HoldingIn(s)) /\ IsFiniteSet(SourcesIn(s)) /\ IsFiniteSet(IteratingIn(s))
  BY StackCounts
<1>7. Cardinality(HoldingIn(t)) = Cardinality(HoldingIn(s)) + One(HoldsEnv(f, n + 1))
  <2> DEFINE S == HoldingIn(s)
  <2>1. HoldingIn(t) = HoldingIn(s) \cup (IF HoldsEnv(f, n + 1) THEN {n + 1} ELSE {})
    BY <1>1, <1>4 DEF HoldingIn
  <2>2. n + 1 \notin HoldingIn(s)
    BY <1>1, <1>4 DEF HoldingIn
  <2> DEFINE c == HoldsEnv(f, n + 1)
  <2>3. c \in BOOLEAN
    BY DEF HoldsEnv, Iterates
  <2> HIDE DEF c
  <2>4. Cardinality(S \cup (IF c THEN {n + 1} ELSE {})) = Cardinality(S) + One(c)
    BY <1>6, <2>2, <2>3, AddOne
  <2> QED BY <2>1, <2>4 DEF c, S
<1>8. Cardinality(SourcesIn(t)) = Cardinality(SourcesIn(s)) + One(f.fn = "source")
  <2> DEFINE S == SourcesIn(s)
  <2>1. SourcesIn(t) = SourcesIn(s) \cup (IF f.fn = "source" THEN {n + 1} ELSE {})
    BY <1>1, <1>4 DEF SourcesIn
  <2>2. n + 1 \notin SourcesIn(s)
    BY <1>1, <1>4 DEF SourcesIn
  <2> DEFINE c == f.fn = "source"
  <2>3. c \in BOOLEAN
    BY DEF HoldsEnv, Iterates
  <2> HIDE DEF c
  <2>4. Cardinality(S \cup (IF c THEN {n + 1} ELSE {})) = Cardinality(S) + One(c)
    BY <1>6, <2>2, <2>3, AddOne
  <2> QED BY <2>1, <2>4 DEF c, S
<1>9. Cardinality(IteratingIn(t)) = Cardinality(IteratingIn(s)) + One(Iterates(f))
  <2> DEFINE S == IteratingIn(s)
  <2>1. IteratingIn(t) = IteratingIn(s) \cup (IF Iterates(f) THEN {n + 1} ELSE {})
    BY <1>1, <1>4 DEF IteratingIn
  <2>2. n + 1 \notin IteratingIn(s)
    BY <1>1, <1>4 DEF IteratingIn
  <2> DEFINE c == Iterates(f)
  <2>3. c \in BOOLEAN
    BY DEF HoldsEnv, Iterates
  <2> HIDE DEF c
  <2>4. Cardinality(S \cup (IF c THEN {n + 1} ELSE {})) = Cardinality(S) + One(c)
    BY <1>6, <2>2, <2>3, AddOne
  <2> QED BY <2>1, <2>4 DEF c, S
<1> QED BY <1>2, <1>5, <1>7, <1>8, <1>9 DEF t, n

LEMMA StackPop ==
  ASSUME NEW s, Stack(s), s # <<>>
  PROVE  /\ Stack(Front(s)) /\ Handler(Last(s))
         /\ Front(s) = <<>> => Last(s).fn = "source"
         /\ Front(s) = <<>> <=> Len(s) = 1
         /\ Cardinality(HoldingIn(s))
              = Cardinality(HoldingIn(Front(s))) + One(HoldsEnv(Last(s), Len(s)))
         /\ Cardinality(SourcesIn(s))
              = Cardinality(SourcesIn(Front(s))) + One(Last(s).fn = "source")
         /\ Cardinality(IteratingIn(s))
              = Cardinality(IteratingIn(Front(s))) + One(Iterates(Last(s)))
<1> DEFINE t == Front(s)
<1>1. /\ IsList(t) /\ Len(s) \in Nat \ {0} /\ DOMAIN s = 1 .. Len(s)
      /\ Len(t) = Len(s) - 1 /\ DOMAIN t = 1 .. Len(s) - 1
      /\ \A i \in 1 .. Len(s) - 1 : t[i] = s[i]
      /\ Last(s) = s[Len(s)]
  BY ListFront DEF Stack
<1>2. s = Append(t, Last(s))
  BY FrontAndLast DEF Stack
<1>3. t = <<>> <=> Len(t) = 0
  BY <1>1 DEF IsList
<1> HIDE DEF t
<1>4. Handler(Last(s)) /\ (Len(s) = 1 => Last(s).fn = "source")
  BY <1>1 DEF Stack
<1>5. Stack(t)
  <2>1. \A k \in DOMAIN t : Handler(t[k])
    <3>1. \A k \in 1 .. Len(s) - 1 : k \in DOMAIN s
      BY <1>1
    <3> QED BY <1>1, <3>1 DEF Stack
  <2>2. t # <<>> => t[1].fn = "source"
    <3> SUFFICES ASSUME t # <<>> PROVE t[1].fn = "source"
      OBVIOUS
    <3>1. 1 \in 1 .. Len(s) - 1
      BY <1>1, <1>3
    <3> QED BY <1>1, <3>1 DEF Stack
  <2> QED BY <1>1, <2>1, <2>2 DEF Stack
<1>6. Len(t) + 1 = Len(s) /\ (t = <<>> <=> Len(s) = 1)
  BY <1>1, <1>3
<1> DEFINE f == Last(s)
<1> HIDE DEF f
<1>7. /\ Cardinality(HoldingIn(Append(t, f)))
           = Cardinality(HoldingIn(t)) + One(HoldsEnv(f, Len(t) + 1))
      /\ Cardinality(SourcesIn(Append(t, f)))
           = Cardinality(SourcesIn(t)) + One(f.fn = "source")
      /\ Cardinality(IteratingIn(Append(t, f)))
           = Cardinality(IteratingIn(t)) + One(Iterates(f))
  BY <1>4, <1>5, <1>6, StackPush DEF f
<1> QED BY <1>2, <1>4, <1>5, <1>6, <1>7 DEF f, t

-----------------------------------------------------------------------------
(* The inductive invariant: as many sources are read as handlers read one, *)
(* every handler holds what it allocated, and only a foreach that has not  *)
(* entered its body yet holds no Env.                                       *)

Pending(s, v) == s # <<>> /\ v = "loop" /\ Last(s).fn = "foreach"

Right(s, v, sources, es, its) ==
  /\ Stack(s)
  /\ sources = Cardinality(SourcesIn(s))
  /\ es = Cardinality(HoldingIn(s)) - One(Pending(s, v))
  /\ its = Cardinality(IteratingIn(s))

ControlInv == IsList(at) /\ Right(stack, val, Len(at), envs, iters)

\* The Env of f, on a stack of n handlers, when the innermost handler is told v.
Takes(f, n, v) == One(HoldsEnv(f, n) /\ ~(f.fn = "foreach" /\ v = "loop"))

LEMMA RightTold ==
  ASSUME NEW s, NEW v, NEW n, NEW e, NEW i, Right(s, v, n, e, i), NEW w,
         ~Pending(s, v), ~Pending(s, w)
  PROVE  Right(s, w, n, e, i)
BY DEF Right, One

LEMMA RightPush ==
  ASSUME NEW s, NEW v, NEW n, NEW e, NEW i, Right(s, v, n, e, i), ~Pending(s, v), s # <<>>,
         NEW f, Handler(f), NEW w
  PROVE  Right(Append(s, f), w, n + One(f.fn = "source"), e + Takes(f, 2, w), i + One(Iterates(f)))
<1>1. Len(s) \in Nat \ {0}
  BY DEF Right, Stack, IsList
<1>2. HoldsEnv(f, Len(s) + 1) <=> HoldsEnv(f, 2)
  BY <1>1 DEF HoldsEnv
<1>3. f.fn = "foreach" => HoldsEnv(f, 2)
  BY DEF HoldsEnv
<1>4. /\ Cardinality(HoldingIn(s)) \in Nat /\ Cardinality(SourcesIn(s)) \in Nat
      /\ Cardinality(IteratingIn(s)) \in Nat
  BY StackCounts DEF Right
<1>5. /\ Stack(Append(s, f)) /\ Append(s, f) # <<>> /\ Last(Append(s, f)) = f
      /\ Cardinality(HoldingIn(Append(s, f)))
           = Cardinality(HoldingIn(s)) + One(HoldsEnv(f, 2))
      /\ Cardinality(SourcesIn(Append(s, f)))
           = Cardinality(SourcesIn(s)) + One(f.fn = "source")
      /\ Cardinality(IteratingIn(Append(s, f)))
           = Cardinality(IteratingIn(s)) + One(Iterates(f))
  BY <1>2, StackPush DEF Right, One
<1>6. e + Takes(f, 2, w)
        = Cardinality(HoldingIn(Append(s, f))) - One(Pending(Append(s, f), w))
  BY <1>3, <1>4, <1>5 DEF Right, Takes, One, Pending
<1> QED BY <1>5, <1>6 DEF Right

LEMMA RightPop ==
  ASSUME NEW s, NEW v, NEW n, NEW e, NEW i, Right(s, v, n, e, i), s # <<>>, NEW w, w # "loop"
  PROVE  /\ Right(Front(s), w, n - One(Last(s).fn = "source"), e - Takes(Last(s), Len(s), v),
                  i - One(Iterates(Last(s))))
         /\ n \in Nat /\ e \in Int /\ i \in Nat
         /\ ~Pending(Front(s), w)
         /\ Handler(Last(s))
         /\ Front(s) = <<>> => Last(s).fn = "source"
<1> DEFINE f == Last(s)
           t == Front(s)
<1>1. /\ Stack(t) /\ Handler(f)
      /\ t = <<>> => f.fn = "source"
      /\ Cardinality(HoldingIn(s)) = Cardinality(HoldingIn(t)) + One(HoldsEnv(f, Len(s)))
      /\ Cardinality(SourcesIn(s)) = Cardinality(SourcesIn(t)) + One(f.fn = "source")
      /\ Cardinality(IteratingIn(s)) = Cardinality(IteratingIn(t)) + One(Iterates(f))
  BY StackPop DEF Right
<1>2. /\ Cardinality(HoldingIn(t)) \in Nat /\ Cardinality(SourcesIn(t)) \in Nat
      /\ Cardinality(IteratingIn(t)) \in Nat
  BY <1>1, StackCounts
<1>3. Pending(s, v) <=> v = "loop" /\ f.fn = "foreach"
  BY DEF Pending
<1>4. f.fn = "foreach" => HoldsEnv(f, Len(s))
  BY DEF HoldsEnv
<1> HIDE DEF f, t
<1>5. ~Pending(t, w)
  BY DEF Pending
<1>6. e - Takes(f, Len(s), v) = Cardinality(HoldingIn(t)) - One(Pending(t, w))
  BY <1>1, <1>2, <1>3, <1>4, <1>5 DEF Right, Takes, One
<1>7. Right(t, w, n - One(f.fn = "source"), e - Takes(f, Len(s), v), i - One(Iterates(f)))
  BY <1>1, <1>2, <1>6 DEF Right, One
<1>8. n \in Nat /\ e \in Int /\ i \in Nat
  BY <1>1, <1>2 DEF Right, One
<1> QED BY <1>1, <1>5, <1>7, <1>8 DEF f, t

LEMMA RightTypes ==
  ASSUME NEW s, NEW v, NEW n, NEW e, NEW i, Right(s, v, n, e, i), s # <<>>
  PROVE  n \in Nat /\ e \in Int /\ i \in Nat /\ Handler(Last(s))
<1>1. /\ Cardinality(HoldingIn(s)) \in Nat /\ Cardinality(SourcesIn(s)) \in Nat
      /\ Cardinality(IteratingIn(s)) \in Nat
  BY StackCounts DEF Right
<1>2. Handler(Last(s))
  BY StackPop DEF Right
<1> QED BY <1>1, <1>2 DEF Right, One

\* The innermost handler is replaced by one that waits for another.
LEMMA RightSwap ==
  ASSUME NEW s, NEW v, NEW n, NEW e, NEW i, Right(s, v, n, e, i), s # <<>>,
         Last(s).fn # "source", NEW f, Handler(f), f.fn # "source", NEW w
  PROVE  Right(Append(Front(s), f), w, n, e - Takes(Last(s), Len(s), v) + Takes(f, 2, w),
               i - One(Iterates(Last(s))) + One(Iterates(f)))
<1>1. /\ Right(Front(s), "stmt", n - One(Last(s).fn = "source"),
               e - Takes(Last(s), Len(s), v), i - One(Iterates(Last(s))))
      /\ n \in Nat
      /\ ~Pending(Front(s), "stmt")
      /\ Front(s) # <<>>
  BY RightPop
<1>2. n - One(Last(s).fn = "source") = n /\ n + One(f.fn = "source") = n
  BY <1>1 DEF One
<1>3. Right(Front(s), "stmt", n, e - Takes(Last(s), Len(s), v), i - One(Iterates(Last(s))))
  BY <1>1, <1>2
<1> QED BY <1>1, <1>2, <1>3, RightPush

-----------------------------------------------------------------------------
(* The steps of the handlers.                                               *)

Live == ControlInv /\ ~Finished

LEMMA LiveFacts ==
  ASSUME Live
  PROVE  /\ IsList(at) /\ Len(at) \in Nat \ {0}
         /\ Right(stack, val, Len(at), envs, iters)
         /\ stack # <<>> /\ Handler(Top)
         /\ envs \in Int /\ iters \in Nat
         /\ Top.fn = "source" => (Len(at) = 1 <=> Len(stack) = 1)
<1>1. stack # <<>> /\ Right(stack, val, Len(at), envs, iters) /\ IsList(at) /\ Stack(stack)
  BY DEF Live, ControlInv, Finished, Right
<1>2. Handler(Top) /\ Len(at) \in Nat /\ envs \in Int /\ iters \in Nat
  BY <1>1, RightTypes DEF Top
<1>3. Len(at) # 0
  BY <1>1, StackCounts DEF Right
<1>4. ASSUME Top.fn = "source" PROVE Len(at) = 1 <=> Len(stack) = 1
  <2>1. /\ Stack(Front(stack))
        /\ Front(stack) = <<>> <=> Len(stack) = 1
        /\ Cardinality(SourcesIn(stack))
             = Cardinality(SourcesIn(Front(stack))) + One(Top.fn = "source")
    BY <1>1, StackPop DEF Top
  <2>2. Len(at) = Cardinality(SourcesIn(Front(stack))) + 1
    BY <1>1, <1>4, <2>1 DEF Right, One
  <2>3. CASE Len(stack) = 1
    <3>1. SourcesIn(Front(stack)) = {}
      BY <2>1, <2>3 DEF SourcesIn
    <3> QED BY <2>2, <2>3, <3>1, FS_EmptySet
  <2>4. CASE Len(stack) # 1
    <3>1. /\ Cardinality(SourcesIn(Front(stack))) \in Nat
          /\ Cardinality(SourcesIn(Front(stack))) # 0
      BY <2>1, <2>4, StackCounts
    <3> QED BY <2>2, <2>4, <3>1
  <2> QED BY <2>3, <2>4
<1> QED BY <1>1, <1>2, <1>3, <1>4

\* The position of the source that is read changes, and nothing else of the sources.
LEMMA Moved ==
  ASSUME Live, NEW p
  PROVE  /\ IsList([at EXCEPT ![Len(at)].pos = p])
         /\ Len([at EXCEPT ![Len(at)].pos = p]) = Len(at)
<1> DEFINE b == [at EXCEPT ![Len(at)].pos = p]
<1>1. at \in [1 .. Len(at) -> Range(at)] /\ Len(at) \in Nat
  BY LiveFacts DEF IsList
<1>2. DOMAIN b = 1 .. Len(at) /\ b = [k \in 1 .. Len(at) |-> b[k]]
  BY <1>1
<1> HIDE DEF b
<1>3. b \in [1 .. Len(at) -> Range(b)]
  BY <1>2 DEF Range
<1>4. b \in Seq(Range(b)) /\ Len(b) = Len(at)
  BY <1>1, <1>3
<1> QED BY <1>4 DEF IsList, b

\* A step that tells the innermost handler something else.
LEMMA Tells ==
  ASSUME Live, NEW w, val' = w, w # "loop", ~Pending(stack, val),
         stack' = stack, IsList(at'), Len(at') = Len(at), envs' = envs, iters' = iters
  PROVE  ControlInv'
<1>1. Right(stack, w, Len(at), envs, iters)
  BY LiveFacts, RightTold DEF Pending
<1> QED BY <1>1 DEF ControlInv

\* A handler that returns gives back what it holds.
LEMMA Returns ==
  ASSUME Live, NEW w, Return(w), w # "loop",
         IsList(at'), Len(at') = Len(at) - One(Top.fn = "source"),
         envs' = envs - Takes(Top, Len(stack), val), iters' = iters - One(Iterates(Top))
  PROVE  ControlInv'
<1>1. Right(stack, val, Len(at), envs, iters) /\ stack # <<>>
  BY LiveFacts
<1>2. Right(Front(stack), w, Len(at) - One(Last(stack).fn = "source"),
            envs - Takes(Last(stack), Len(stack), val), iters - One(Iterates(Last(stack))))
  BY <1>1, RightPop
<1>3. Right(Front(stack), w, Len(at'), envs', iters')
  BY <1>2 DEF Top
<1> QED BY <1>3 DEF ControlInv, Return, Pop

\* A handler that is called holds what it takes.
LEMMA Calls ==
  ASSUME Live, ~Pending(stack, val), NEW f, Handler(f), NEW w, Push(f), val' = w,
         IsList(at'), Len(at') = Len(at) + One(f.fn = "source"),
         envs' = envs + Takes(f, 2, w), iters' = iters + One(Iterates(f))
  PROVE  ControlInv'
<1>1. Right(Append(stack, f), w, Len(at'), envs', iters')
  BY LiveFacts, RightPush
<1> QED BY <1>1 DEF ControlInv, Push

\* A block is entered on a stack that is right.
LEMMA Enters ==
  ASSUME Live, NEW s, NEW v, NEW e, NEW i, Right(s, v, Len(at), e, i), ~Pending(s, v), s # <<>>,
         e \in Int, i \in Int, NEW p, NEW own \in BOOLEAN, EnterBlock(s, p, own),
         envs' = e + One(own), iters' = i
  PROVE  ControlInv'
<1> DEFINE f == [fn |-> "block", own |-> own]
<1>1. /\ Handler(f) /\ f.fn # "source"
      /\ Takes(f, 2, "loop") = One(own)
      /\ One(Iterates(f)) = 0 /\ One(f.fn = "source") = 0
  BY DEF Handler, Takes, HoldsEnv, Iterates, One
<1>2. stack' = Append(s, f) /\ val' = "loop"
  BY DEF EnterBlock
<1>3. IsList(at') /\ Len(at') = Len(at)
  BY Moved DEF EnterBlock, MoveTo
<1> HIDE DEF f
<1>4. Right(Append(s, f), "loop", Len(at) + One(f.fn = "source"), e + Takes(f, 2, "loop"),
            i + One(Iterates(f)))
  BY <1>1, RightPush
<1>5. Right(Append(s, f), "loop", Len(at), e + One(own), i)
  BY <1>1, <1>4, LiveFacts
<1> QED BY <1>2, <1>3, <1>5 DEF ControlInv

LEMMA EntersClause ==
  ASSUME Live, NEW s, s # <<>>, Right(s, "stmt", Len(at), envs, iters), NEW p, EnterClause(s, p),
         envs' = envs, iters' = iters
  PROVE  ControlInv'
<1>1. ~Pending(s, "stmt")
  BY DEF Pending
<1>2. envs + One(FALSE) = envs /\ envs \in Int /\ iters \in Int
  BY LiveFacts DEF One
<1>3. CASE EnterBlock(s, p, FALSE)
  BY <1>1, <1>2, <1>3, Enters
<1>4. CASE MoveTo(p) /\ stack' = s /\ val' = "stmt"
  BY <1>4, Moved DEF MoveTo, ControlInv
<1> QED BY <1>3, <1>4 DEF EnterClause

LEMMA SourceStep == ASSUME Live, EvalSource PROVE ControlInv'
<1>1. Top.fn = "source" /\ IsList(at) /\ Len(at) \in Nat \ {0} /\ envs \in Int /\ iters \in Nat
  BY LiveFacts DEF EvalSource
<1>2. ~Pending(stack, val)
  BY <1>1 DEF Pending, Top
<1>3. ASSUME NEW w, w # "loop", EndSource(w) PROVE ControlInv'
  <2>1. Takes(Top, Len(stack), val) = (IF Len(at) = 1 THEN 0 ELSE 1)
    BY <1>1, LiveFacts DEF Takes, HoldsEnv, One
  <2>2. One(Top.fn = "source") = 1 /\ iters - One(Iterates(Top)) = iters
    BY <1>1 DEF One, Iterates
  <2>3. IsList(Front(at)) /\ Len(Front(at)) = Len(at) - 1
    <3>1. at # <<>>
      BY <1>1
    <3> QED BY <1>1, <3>1, ListFront
  <2> QED BY <1>3, <2>1, <2>2, <2>3, Returns DEF EndSource
<1>4. CASE val' = "stmt" /\ UNCHANGED <<program, at, stack, trace, envs, iters>>
  BY <1>1, <1>2, <1>4, Tells
<1>5. CASE EndSource(IF val = "loop" THEN "value" ELSE val)
  BY <1>3, <1>5
<1>6. CASE EndSource("value")
  BY <1>3, <1>6
<1>7. CASE val \in Errors /\ EndSource(val)
  BY <1>3, <1>7 DEF Errors
<1> QED BY <1>4, <1>5, <1>6, <1>7 DEF EvalSource

LEMMA BlockSteps == ASSUME Live, EvalBlock PROVE ControlInv'
<1>1. /\ Top.fn = "block" /\ IsList(at) /\ Len(at) \in Nat \ {0}
      /\ envs \in Int /\ iters \in Nat
  BY LiveFacts DEF EvalBlock
<1>2. ~Pending(stack, val)
  BY <1>1 DEF Pending, Top
<1>3. ASSUME NEW w, w # "loop", Leave(w), IsList(at'), Len(at') = Len(at) PROVE ControlInv'
  <2>1. Takes(Top, Len(stack), val) = (IF Top.own THEN 1 ELSE 0)
    BY <1>1 DEF Takes, HoldsEnv, One
  <2>2. One(Top.fn = "source") = 0 /\ iters - One(Iterates(Top)) = iters
    BY <1>1 DEF One, Iterates
  <2> QED BY <1>1, <1>3, <2>1, <2>2, Returns DEF Leave
<1>4. CASE val' = "stmt" /\ UNCHANGED <<program, at, stack, trace, envs, iters>>
  BY <1>1, <1>2, <1>4, Tells
<1>5. CASE MoveTo(Pos + 1) /\ Leave("value")
  <2>1. IsList(at') /\ Len(at') = Len(at)
    BY <1>5, Moved DEF MoveTo
  <2> QED BY <1>3, <1>5, <2>1
<1>6. CASE val \in Errors \cup Controls /\ UNCHANGED at /\ Leave(val)
  BY <1>1, <1>3, <1>6 DEF Errors, Controls
<1> QED BY <1>4, <1>5, <1>6 DEF EvalBlock

\* A statement starts: the handler that asked for it waits.
LEMMA Starts ==
  ASSUME Live, val = "stmt"
  PROVE  /\ ~Pending(stack, val) /\ stack # <<>>
         /\ Right(stack, "stmt", Len(at), envs, iters)
         /\ envs \in Int /\ iters \in Nat /\ IsList(at) /\ Len(at) \in Nat \ {0}
BY LiveFacts DEF Pending

LEMMA ExpressionSteps == ASSUME Live, Expression \/ Jump PROVE ControlInv'
<1>1. val = "stmt" /\ \E p : MoveTo(p)
  BY DEF Expression, Jump
<1>2. IsList(at') /\ Len(at') = Len(at)
  BY <1>1, Moved DEF MoveTo
<1>3. val' # "loop"
  BY DEF Expression, Jump, Controls
<1>4. stack' = stack /\ envs' = envs /\ iters' = iters
  BY DEF Expression, Jump
<1> QED BY <1>1, <1>2, <1>3, <1>4, Starts, Tells

LEMMA CallStep == ASSUME Live, Call PROVE ControlInv'
<1> DEFINE f == [fn |-> "source"]
           b == [at EXCEPT ![Len(at)].pos = Pos + 1]
<1>1. val = "stmt" /\ Push(f) /\ val' = "loop" /\ envs' = envs + 1 /\ iters' = iters
  BY DEF Call, At
<1>2. IsList(b) /\ Len(b) = Len(at)
  BY Moved
<1>3. at' = Append(b, [src |-> "fun", pos |-> 1])
  BY DEF Call
<1> HIDE DEF b
<1>4. IsList(at') /\ Len(at') = Len(at) + 1
  BY <1>2, <1>3, ListAppend
<1>5. /\ Handler(f)
      /\ Takes(f, 2, "loop") = 1 /\ One(Iterates(f)) = 0 /\ One(f.fn = "source") = 1
  BY DEF Handler, Takes, HoldsEnv, Iterates, One
<1> HIDE DEF f
<1>6. iters + 0 = iters
  BY <1>1, Starts
<1> QED BY <1>1, <1>4, <1>5, <1>6, Starts, Calls

LEMMA BlockStep == ASSUME Live, Block PROVE ControlInv'
<1> DEFINE f == [fn |-> "scope"]
<1>1. /\ val = "stmt" /\ EnterBlock(Append(stack, f), Pos, TRUE)
      /\ envs' = envs + 2 /\ iters' = iters
  BY DEF Block, At
<1>2. /\ Handler(f) /\ f.fn # "source"
      /\ Takes(f, 2, "stmt") = 1 /\ One(Iterates(f)) = 0 /\ One(f.fn = "source") = 0
  BY DEF Handler, Takes, HoldsEnv, Iterates, One
<1> HIDE DEF f
<1>3. /\ ~Pending(stack, "stmt") /\ stack # <<>> /\ Right(stack, "stmt", Len(at), envs, iters)
      /\ Len(at) + 0 = Len(at) /\ iters + 0 = iters
      /\ envs + 1 \in Int /\ envs + 2 = envs + 1 + 1 /\ iters \in Int
  BY <1>1, Starts
<1>4. Right(Append(stack, f), "stmt", Len(at), envs + 1, iters)
  <2>1. Right(Append(stack, f), "stmt", Len(at) + One(f.fn = "source"),
              envs + Takes(f, 2, "stmt"), iters + One(Iterates(f)))
    BY <1>2, <1>3, RightPush
  <2> QED BY <1>2, <1>3, <2>1
<1>5. ~Pending(Append(stack, f), "stmt") /\ Append(stack, f) # <<>>
  <2>1. IsList(stack)
    BY <1>3 DEF Right, Stack
  <2>2. Len(Append(stack, f)) = Len(stack) + 1 /\ Len(stack) \in Nat
    BY <2>1, ListAppend
  <2> QED BY <2>2 DEF Pending
<1>6. One(TRUE) = 1
  BY DEF One
<1> QED BY <1>1, <1>3, <1>4, <1>5, <1>6, Enters

\* What holds nothing and returns.
LEMMA ReturnsNothing ==
  ASSUME Live, Top.fn \notin {"source", "block", "scope", "foreach"},
         NEW w, Return(w), w # "loop", IsList(at'), Len(at') = Len(at),
         envs' = envs, iters' = iters
  PROVE  ControlInv'
<1>1. Takes(Top, Len(stack), val) = 0 /\ One(Top.fn = "source") = 0 /\ One(Iterates(Top)) = 0
  BY DEF Takes, HoldsEnv, One, Iterates
<1>2. envs - 0 = envs /\ iters - 0 = iters /\ Len(at) - 0 = Len(at)
  BY LiveFacts
<1> QED BY <1>1, <1>2, Returns

LEMMA EndScopeStep == ASSUME Live, EndScope PROVE ControlInv'
<1>1. /\ Top.fn = "scope" /\ Return(val) /\ val # "loop" /\ envs' = envs - 1
      /\ at' = at /\ iters' = iters
  BY DEF EndScope
<1>2. Takes(Top, Len(stack), val) = 1 /\ One(Top.fn = "source") = 0 /\ One(Iterates(Top)) = 0
  BY <1>1 DEF Takes, HoldsEnv, One, Iterates
<1>3. iters - 0 = iters /\ Len(at) - 0 = Len(at) /\ IsList(at)
  BY LiveFacts
<1> QED BY <1>1, <1>2, <1>3, Returns

\* On top of what waits when a statement starts, a handler that holds nothing.
LEMMA WaitsToo ==
  ASSUME Live, NEW s, NEW e, Right(s, "stmt", Len(at), e, iters), s # <<>>, e \in Int,
         NEW f, Handler(f), f.fn \notin {"source", "block", "scope", "foreach"}, NEW w
  PROVE  /\ Right(Append(s, f), w, Len(at), e, iters)
         /\ ~Pending(Append(s, f), w)
         /\ Append(s, f) # <<>>
<1>1. Takes(f, 2, w) = 0 /\ One(f.fn = "source") = 0 /\ One(Iterates(f)) = 0
  BY DEF Takes, HoldsEnv, One, Iterates
<1>2. e + 0 = e /\ iters + 0 = iters /\ Len(at) + 0 = Len(at)
  BY LiveFacts
<1>3. ~Pending(s, "stmt")
  BY DEF Pending
<1>4. Right(Append(s, f), w, Len(at) + One(f.fn = "source"), e + Takes(f, 2, w),
            iters + One(Iterates(f)))
  BY <1>3, RightPush
<1>5. Append(s, f) # <<>> /\ Last(Append(s, f)) = f
  BY StackPush DEF Right
<1> QED BY <1>1, <1>2, <1>4, <1>5 DEF Pending

LEMMA TestSteps ==
  ASSUME Live, NEW s, Right(s, "stmt", Len(at), envs, iters), s # <<>>, NEW p, Test(p, s)
  PROVE  ControlInv'
<1> DEFINE f == [fn |-> "clause", chain |-> TRUE]
           g == [fn |-> "elif"]
<1>1. /\ Handler(f) /\ f.fn \notin {"source", "block", "scope", "foreach"}
      /\ Handler(g) /\ g.fn \notin {"source", "block", "scope", "foreach"}
  BY DEF Handler
<1>2. /\ envs' = envs /\ iters' = iters
      /\ \/ EnterClause(Append(s, f), p + 1)
         \/ (\E q : MoveTo(q)) /\ stack' = Append(s, g) /\ val' = "loop"
  BY DEF Test
<1> HIDE DEF f, g
<1>3. envs \in Int
  BY LiveFacts
<1>4. /\ Right(Append(s, f), "stmt", Len(at), envs, iters) /\ Append(s, f) # <<>>
      /\ Right(Append(s, g), "loop", Len(at), envs, iters)
  BY <1>1, <1>3, WaitsToo
<1>5. CASE EnterClause(Append(s, f), p + 1)
  BY <1>2, <1>4, <1>5, EntersClause
<1>6. CASE (\E q : MoveTo(q)) /\ stack' = Append(s, g) /\ val' = "loop"
  BY <1>2, <1>4, <1>6, Moved DEF MoveTo, ControlInv
<1> QED BY <1>2, <1>5, <1>6

LEMMA IfStep == ASSUME Live, If PROVE ControlInv'
<1>1. val = "stmt" /\ Test(Pos + 1, stack)
  BY DEF If, At
<1> QED BY <1>1, Starts, TestSteps

LEMMA ElifSteps == ASSUME Live, Elif PROVE ControlInv'
<1> DEFINE f == [fn |-> "clause", chain |-> FALSE]
<1>1. /\ Top.fn = "elif"
      /\ Right(stack, val, Len(at), envs, iters) /\ stack # <<>>
      /\ Len(at) \in Nat /\ envs \in Int /\ iters \in Nat /\ IsList(at)
  BY LiveFacts DEF Elif
<1>2. Takes(Top, Len(stack), val) = 0 /\ One(Top.fn = "source") = 0 /\ One(Iterates(Top)) = 0
  BY <1>1 DEF Takes, HoldsEnv, One, Iterates
<1>3. Right(Front(stack), "stmt", Len(at), envs, iters) /\ Front(stack) # <<>>
  <2>1. /\ Right(Front(stack), "stmt", Len(at) - One(Last(stack).fn = "source"),
                  envs - Takes(Last(stack), Len(stack), val), iters - One(Iterates(Last(stack))))
        /\ Front(stack) = <<>> => Last(stack).fn = "source"
    BY <1>1, RightPop
  <2>2. Len(at) - 0 = Len(at) /\ envs - 0 = envs /\ iters - 0 = iters
    BY <1>1
  <2> QED BY <1>1, <1>2, <2>1, <2>2 DEF Top
<1>4. CASE Test(Pos + 1, Front(stack))
  BY <1>3, <1>4, TestSteps
<1>5. CASE EnterClause(Append(Front(stack), f), Pos + 1) /\ UNCHANGED <<program, trace, envs, iters>>
  <2>1. Handler(f) /\ f.fn \notin {"source", "block", "scope", "foreach"}
    BY DEF Handler
  <2> HIDE DEF f
  <2>2. /\ Right(Append(Front(stack), f), "stmt", Len(at), envs, iters)
        /\ Append(Front(stack), f) # <<>>
    BY <1>1, <1>3, <2>1, WaitsToo
  <2> QED BY <1>5, <2>2, EntersClause
<1>6. CASE Return("value") /\ UNCHANGED <<program, at, trace, envs, iters>>
  BY <1>1, <1>6, ReturnsNothing
<1> QED BY <1>4, <1>5, <1>6 DEF Elif

LEMMA EndClauseStep == ASSUME Live, EndClause PROVE ControlInv'
<1>1. /\ Top.fn = "clause" /\ Return(val) /\ val # "loop" /\ (\E p : MoveTo(p))
      /\ envs' = envs /\ iters' = iters
  BY DEF EndClause
<1>2. IsList(at') /\ Len(at') = Len(at)
  BY <1>1, Moved DEF MoveTo
<1> QED BY <1>1, <1>2, ReturnsNothing

LEMMA WhileStep == ASSUME Live, While PROVE ControlInv'
<1> DEFINE f == [fn |-> "while", cond |-> Pos + 1, body |-> Pos + 2, end |-> SkipBlock(Src, Pos + 2)]
<1>1. /\ val = "stmt" /\ stack' = Append(stack, f) /\ val' = "loop"
      /\ at' = at /\ envs' = envs /\ iters' = iters
  BY DEF While, At, Push
<1>2. Handler(f) /\ f.fn \notin {"source", "block", "scope", "foreach"}
  BY DEF Handler
<1> HIDE DEF f
<1>3. Right(Append(stack, f), "loop", Len(at), envs, iters)
  BY <1>1, <1>2, Starts, WaitsToo
<1> QED BY <1>1, <1>3, Starts DEF ControlInv

LEMMA WhileTestSteps == ASSUME Live, WhileTest PROVE ControlInv'
<1>1. /\ Top.fn = "while" /\ iters' = iters
      /\ Right(stack, val, Len(at), envs, iters) /\ stack # <<>>
      /\ envs \in Int /\ iters \in Int
  BY LiveFacts DEF WhileTest
<1>2. ~Pending(stack, val)
  BY <1>1 DEF Pending, Top
<1>3. CASE EnterBlock(stack, Top.body, TRUE) /\ envs' = envs + 1
  <2>1. One(TRUE) = 1
    BY DEF One
  <2> QED BY <1>1, <1>2, <1>3, <2>1, Enters
<1>4. ASSUME NEW p, NEW w \in {"value", "error"}, MoveTo(p), Return(w), envs' = envs
      PROVE  ControlInv'
  <2>1. IsList(at') /\ Len(at') = Len(at)
    BY <1>4, Moved DEF MoveTo
  <2> QED BY <1>1, <1>4, <2>1, ReturnsNothing
<1>5. CASE MoveTo(Top.end) /\ Return("value") /\ UNCHANGED envs
  BY <1>4, <1>5
<1>6. CASE MoveTo(Top.cond) /\ Return("error") /\ UNCHANGED envs
  BY <1>4, <1>6
<1> QED BY <1>3, <1>5, <1>6 DEF WhileTest

LEMMA EndWhileStep == ASSUME Live, EndWhile PROVE ControlInv'
<1> DEFINE w == IF val = "break" THEN "value" ELSE val
<1>1. Top.fn = "while" /\ Return(w) /\ w # "loop" /\ envs' = envs /\ iters' = iters
  BY DEF EndWhile, Errors
<1>2. IsList(at') /\ Len(at') = Len(at)
  BY Moved DEF EndWhile, MoveTo
<1> HIDE DEF w
<1> QED BY <1>1, <1>2, ReturnsNothing

LEMMA ForeachSteps == ASSUME Live, Foreach PROVE ControlInv'
<1>1. /\ val = "stmt" /\ envs' = envs
      /\ ~Pending(stack, val) /\ envs \in Int /\ iters \in Nat /\ IsList(at)
      /\ Len(at) \in Nat \ {0}
  BY Starts DEF Foreach, At
<1>2. ASSUME NEW kind \in {"iterator", "array"}, NEW n \in 0 .. MaxItems,
             Push([fn |-> "foreach", kind |-> kind, i |-> 1, max |-> n + 1,
                   body |-> Pos + 1, end |-> SkipBlock(Src, Pos + 1)]),
             iters' = iters + (IF kind = "iterator" THEN 1 ELSE 0), val' = "loop", UNCHANGED at
      PROVE  ControlInv'
  <2> DEFINE f == [fn |-> "foreach", kind |-> kind, i |-> 1, max |-> n + 1,
                   body |-> Pos + 1, end |-> SkipBlock(Src, Pos + 1)]
  <2>1. /\ Handler(f) /\ Takes(f, 2, "loop") = 0 /\ One(f.fn = "source") = 0
        /\ One(Iterates(f)) = (IF kind = "iterator" THEN 1 ELSE 0)
    BY DEF Handler, Takes, One, Iterates
  <2>2. Push(f)
    BY <1>2
  <2> HIDE DEF f
  <2>3. envs + 0 = envs /\ Len(at) + 0 = Len(at)
    BY <1>1
  <2> QED BY <1>1, <1>2, <2>1, <2>2, <2>3, Calls
<1>3. CASE val' = "error" /\ MoveTo(Pos + 1) /\ UNCHANGED <<stack, iters>>
  <2>1. IsList(at') /\ Len(at') = Len(at)
    BY <1>3, Moved DEF MoveTo
  <2> QED BY <1>1, <1>3, <2>1, Tells
<1> QED BY <1>2, <1>3 DEF Foreach

\* A foreach that has run an item, or not yet, ends, or runs the item i.
LEMMA ItemSteps ==
  ASSUME Live, Top.fn = "foreach", NEW held, held = One(val # "loop"), NEW i, LoopItem(i, held)
  PROVE  ControlInv'
<1>1. /\ Handler(Top) /\ Right(stack, val, Len(at), envs, iters) /\ stack # <<>>
      /\ envs \in Int /\ iters \in Nat /\ Len(at) \in Nat
  BY LiveFacts
<1>2. Takes(Top, Len(stack), val) = held
  BY DEF Takes, HoldsEnv, One
<1> DEFINE f == [Top EXCEPT !.i = i]
           s == Append(Front(stack), f)
<1>3. CASE EnterBlock(s, Top.body, FALSE) /\ envs' = envs - held + 1 /\ iters' = iters
  <2>1. Handler(f) /\ f.fn = "foreach" /\ f.kind = Top.kind
    BY <1>1 DEF Handler
  <2> HIDE DEF f
  <2>2. Takes(f, 2, "stmt") = 1 /\ One(Iterates(f)) = One(Iterates(Top))
    BY <2>1 DEF Takes, HoldsEnv, One, Iterates
  <2>3. Right(s, "stmt", Len(at), envs - held + 1, iters)
    <3>1. Right(s, "stmt", Len(at), envs - Takes(Last(stack), Len(stack), val) + Takes(f, 2, "stmt"),
                iters - One(Iterates(Last(stack))) + One(Iterates(f)))
      BY <1>1, <2>1, RightSwap DEF Top
    <3>2. One(Iterates(Top)) \in {0, 1}
      BY DEF One
    <3>3. iters - One(Iterates(Top)) + One(Iterates(f)) = iters
      BY <1>1, <2>2, <3>2
    <3> QED BY <1>2, <2>2, <3>1, <3>3 DEF Top
  <2>4. s # <<>> /\ ~Pending(s, "stmt")
    <3>1. Stack(Front(stack)) /\ (Front(stack) = <<>> => Top.fn = "source")
      BY <1>1, StackPop DEF Right, Top
    <3>2. Append(Front(stack), f) # <<>>
      BY <2>1, <3>1, StackPush
    <3> QED BY <3>2 DEF Pending
  <2>5. envs - held + 1 \in Int /\ envs - held + 1 + One(FALSE) = envs - held + 1 /\ iters \in Int
    BY <1>1 DEF One
  <2> HIDE DEF s
  <2> QED BY <1>3, <2>3, <2>4, <2>5, Enters
<1>4. CASE EndLoop("value", held)
  <2>1. One(Iterates(Top)) = (IF Top.kind = "iterator" THEN 1 ELSE 0) /\ One(Top.fn = "source") = 0
    BY DEF Iterates, One
  <2>2. IsList(at') /\ Len(at') = Len(at)
    BY <1>4, Moved DEF EndLoop, MoveTo
  <2>3. Len(at) - 0 = Len(at)
    BY <1>1
  <2> QED BY <1>2, <1>4, <2>1, <2>2, <2>3, Returns DEF EndLoop
<1> QED BY <1>3, <1>4 DEF LoopItem

LEMMA LoopEnds ==
  ASSUME Live, Top.fn = "foreach", val # "loop", NEW w, w # "loop", EndLoop(w, 1)
  PROVE  ControlInv'
<1>1. Takes(Top, Len(stack), val) = 1
  BY DEF Takes, HoldsEnv, One
<1>2. One(Iterates(Top)) = (IF Top.kind = "iterator" THEN 1 ELSE 0) /\ One(Top.fn = "source") = 0
  BY DEF Iterates, One
<1>3. IsList(at') /\ Len(at') = Len(at)
  BY Moved DEF EndLoop, MoveTo
<1>4. Len(at) - 0 = Len(at)
  BY LiveFacts
<1> QED BY <1>1, <1>2, <1>3, <1>4, Returns DEF EndLoop

LEMMA ItemsSteps == ASSUME Live, FirstItem \/ AfterItem PROVE ControlInv'
<1>1. Top.fn = "foreach"
  BY DEF FirstItem, AfterItem
<1>2. CASE val = "loop" /\ LoopItem(1, 0)
  <2>1. 0 = One(val # "loop")
    BY <1>2 DEF One
  <2> QED BY <1>1, <1>2, <2>1, ItemSteps
<1>3. ASSUME val # "loop", NEW i, LoopItem(i, 1) PROVE ControlInv'
  <2>1. 1 = One(val # "loop")
    BY <1>3 DEF One
  <2> QED BY <1>1, <1>3, <2>1, ItemSteps
<1>4. CASE val \in {"value", "continue"} /\ LoopItem(Top.i + 1, 1)
  BY <1>3, <1>4
<1>5. CASE val = "skip2" /\ LoopItem(Top.i + 2, 1)
  BY <1>3, <1>5
<1>6. CASE val = "break" /\ EndLoop("value", 1)
  BY <1>1, <1>6, LoopEnds
<1>7. CASE val \in Errors \cup {"return"} /\ EndLoop(val, 1)
  BY <1>1, <1>7, LoopEnds DEF Errors
<1> QED BY <1>2, <1>4, <1>5, <1>6, <1>7 DEF FirstItem, AfterItem

LEMMA CatchStep == ASSUME Live, Catch PROVE ControlInv'
<1> DEFINE f == [fn |-> Peek(Src, Pos), end |-> SkipParseBlock(Src, Pos + 1)]
<1>1. /\ val = "stmt" /\ f.fn \in Catches /\ EnterBlock(Append(stack, f), Pos + 1, FALSE)
      /\ envs' = envs /\ iters' = iters
  BY DEF Catch
<1>2. Handler(f) /\ f.fn \notin {"source", "block", "scope", "foreach"}
  BY <1>1 DEF Handler, Catches
<1> HIDE DEF f
<1>3. envs \in Int /\ iters \in Int /\ envs + One(FALSE) = envs
  BY LiveFacts DEF One
<1>4. /\ Right(Append(stack, f), "stmt", Len(at), envs, iters)
      /\ ~Pending(Append(stack, f), "stmt") /\ Append(stack, f) # <<>>
  BY <1>1, <1>2, <1>3, Starts, WaitsToo
<1> QED BY <1>1, <1>3, <1>4, Enters

LEMMA EndCatchStep == ASSUME Live, EndCatch PROVE ControlInv'
<1>1. PICK w : Return(w) /\ w # "loop"
  BY DEF EndCatch
<1>2. Top.fn \notin {"source", "block", "scope", "foreach"} /\ envs' = envs /\ iters' = iters
  BY DEF EndCatch, Catches
<1>3. IsList(at') /\ Len(at') = Len(at)
  BY Moved DEF EndCatch, MoveTo
<1> QED BY <1>1, <1>2, <1>3, ReturnsNothing

-----------------------------------------------------------------------------

LEMMA ControlStarts == ASSUME ControlInit PROVE ControlInv
<1> DEFINE f == [fn |-> "source"]
<1>1. Stack(<<>>) /\ SourcesIn(<<>>) = {} /\ HoldingIn(<<>>) = {} /\ IteratingIn(<<>>) = {}
  BY DEF Stack, IsList, SourcesIn, HoldingIn, IteratingIn
<1>2. Handler(f) /\ f.fn = "source" /\ ~HoldsEnv(f, 1) /\ ~Iterates(f)
  BY DEF Handler, HoldsEnv, Iterates
<1> HIDE DEF f
<1>3. Append(<<>>, f) = <<f>> /\ Len(<<>>) + 1 = 1
  OBVIOUS
<1>4. /\ Stack(<<f>>) /\ Last(<<f>>) = f
      /\ Cardinality(HoldingIn(<<f>>)) = 0 + One(FALSE)
      /\ Cardinality(SourcesIn(<<f>>)) = 0 + One(TRUE)
      /\ Cardinality(IteratingIn(<<f>>)) = 0 + One(FALSE)
  <2>1. /\ Stack(Append(<<>>, f)) /\ Last(Append(<<>>, f)) = f
        /\ Cardinality(HoldingIn(Append(<<>>, f)))
             = Cardinality(HoldingIn(<<>>)) + One(HoldsEnv(f, Len(<<>>) + 1))
        /\ Cardinality(SourcesIn(Append(<<>>, f)))
             = Cardinality(SourcesIn(<<>>)) + One(f.fn = "source")
        /\ Cardinality(IteratingIn(Append(<<>>, f)))
             = Cardinality(IteratingIn(<<>>)) + One(Iterates(f))
    BY <1>1, <1>2, StackPush
  <2> QED BY <1>1, <1>2, <1>3, <2>1, FS_EmptySet DEF One
<1>5. stack = <<f>> /\ val = "loop" /\ envs = 0 /\ iters = 0 /\ Len(at) = 1 /\ IsList(at)
  BY OneIsList DEF ControlInit, f
<1>6. ~Pending(stack, val)
  BY <1>2, <1>4, <1>5 DEF Pending
<1> QED BY <1>4, <1>5, <1>6 DEF ControlInv, Right, One

LEMMA ControlSteps == ASSUME ControlInv, [ControlNext]_control_vars PROVE ControlInv'
<1>1. CASE UNCHANGED control_vars
  BY <1>1 DEF control_vars, ControlInv
<1>2. CASE Step
  <2>1. Live
    BY <1>2 DEF Live, Step, EvalSource, EvalBlock, Expression, Jump, Call, Block, EndScope, If,
       Elif, EndClause, While, WhileTest, EndWhile, Foreach, FirstItem, AfterItem, Catch,
       EndCatch, At
  <2> QED BY <1>2, <2>1, SourceStep, BlockSteps, ExpressionSteps, CallStep, BlockStep,
             EndScopeStep, IfStep, ElifSteps, EndClauseStep, WhileStep, WhileTestSteps,
             EndWhileStep, ForeachSteps, ItemsSteps, CatchStep, EndCatchStep DEF Step
<1> QED BY <1>1, <1>2 DEF ControlNext, Idle

LEMMA ControlInvOwns == ASSUME ControlInv PROVE HandlersOwn
<1> DEFINE last == IF Pending(stack, val) THEN {Len(stack)} ELSE {}
<1>1. /\ Stack(stack) /\ envs = Cardinality(HoldingIn(stack)) - One(Pending(stack, val))
      /\ iters = Cardinality(IteratingIn(stack))
      /\ Cardinality(HoldingIn(stack)) \in Nat /\ IsFiniteSet(HoldingIn(stack))
  BY StackCounts DEF ControlInv, Right
<1>2. DOMAIN stack = 1 .. Len(stack) /\ Len(stack) \in Nat
  BY <1>1 DEF Stack, IsList
<1>3. stack # <<>> => Len(stack) \in DOMAIN stack /\ Last(stack) = stack[Len(stack)]
  BY <1>1, <1>2 DEF Stack, IsList, Last
<1>4. {k \in DOMAIN stack : OwnsEnv(k)} = HoldingIn(stack) \ last
  <2>1. ASSUME NEW k \in DOMAIN stack PROVE OwnsEnv(k) <=> HoldsEnv(stack[k], k) /\ k \notin last
    <3>1. CASE Pending(stack, val) /\ k = Len(stack)
      BY <1>3, <3>1 DEF Pending, OwnsEnv, RunsItem
    <3>2. CASE ~(Pending(stack, val) /\ k = Len(stack))
      <4>1. stack # <<>>
        BY <1>2
      <4>2. ~(stack[k].fn = "foreach" /\ k = Len(stack) /\ val = "loop")
        BY <1>3, <3>2, <4>1 DEF Pending
      <4> QED BY <3>2, <4>2 DEF OwnsEnv, RunsItem, HoldsEnv
    <3> QED BY <3>1, <3>2
  <2> HIDE DEF last
  <2> QED BY <2>1 DEF HoldingIn
<1>5. Cardinality(HoldingIn(stack) \ last)
        = Cardinality(HoldingIn(stack)) - One(Pending(stack, val))
  <2>1. CASE Pending(stack, val)
    <3>1. Len(stack) \in HoldingIn(stack)
      BY <1>3, <2>1 DEF Pending, HoldingIn, HoldsEnv
    <3> QED BY <1>1, <2>1, <3>1, FS_RemoveElement DEF One
  <2>2. CASE ~Pending(stack, val)
    <3>1. HoldingIn(stack) \ last = HoldingIn(stack)
      BY <2>2
    <3> QED BY <1>1, <2>2, <3>1 DEF One
  <2> QED BY <2>1, <2>2
<1>6. EnvsOwned
  BY <1>1, <1>4, <1>5 DEF EnvsOwned
<1>7. IteratorsClosed
  BY <1>1 DEF IteratorsClosed, IteratingIn, Iterates
<1> QED BY <1>6, <1>7 DEF HandlersOwn

\* Whatever a text nests and however its handlers end, the Envs and the iterators that
\* are there are the ones of the handlers that wait (the handlers of mila.c).
THEOREM WaitingOwn == ControlSpec => []HandlersOwn
<1>1. ControlInit => ControlInv
  BY ControlStarts
<1>2. ControlInv /\ [ControlNext]_control_vars => ControlInv'
  BY ControlSteps
<1>3. ControlInv => HandlersOwn
  BY ControlInvOwns
<1> QED BY <1>1, <1>2, <1>3, PTL DEF ControlSpec

-----------------------------------------------------------------------------
(* Operators: the powers of two, and what wraps round.                       *)

LEMMA Powers ==
  /\ DOMAIN TwoTo = 0 .. Width /\ TwoTo[0] = 1
  /\ \A k \in 0 .. Width : TwoTo[k] \in Nat \ {0}
  /\ \A k \in 1 .. Width : TwoTo[k] = 2 * TwoTo[k - 1]
<1> USE OperatorConstants
<1> DEFINE Rec(h) == h = [k \in 0 .. Width |-> IF k = 0 THEN 1 ELSE 2 * h[k - 1]]
           X == Nat \ {0}
           F == [k \in 1 .. Width |-> [y \in X |-> 2 * y]]
<1>1. PICK f : Loop(f, X, Width, 1, F)
  <2>1. F \in [1 .. Width -> [X -> X]] /\ 1 \in X /\ Width \in Nat
    OBVIOUS
  <2> HIDE DEF X, F
  <2> QED BY <2>1, Loops
<1>2. f \in [0 .. Width -> X] /\ f[0] = 1 /\ \A k \in 1 .. Width : f[k] = F[k][f[k - 1]]
  <2> HIDE DEF X, F
  <2> QED BY <1>1 DEF Loop
<1>3. \A k \in 1 .. Width : f[k - 1] \in X /\ f[k] = 2 * f[k - 1]
  <2> TAKE k \in 1 .. Width
  <2>1. k - 1 \in 0 .. Width
    OBVIOUS
  <2>2. f[k - 1] \in X
    <3> HIDE DEF X, F
    <3> QED BY <1>2, <2>1
  <2> QED BY <1>2, <2>2
<1>4. Rec(f)
  <2>1. \A k \in 0 .. Width : f[k] = IF k = 0 THEN 1 ELSE 2 * f[k - 1]
    BY <1>2, <1>3
  <2> QED BY <1>2, <2>1
<1>5. TwoTo = CHOOSE h : Rec(h)
  BY DEF TwoTo
<1>6. Rec(TwoTo)
  <2> HIDE DEF Rec
  <2> QED BY <1>4, <1>5
<1>7. DOMAIN TwoTo = 0 .. Width /\ \A k \in 0 .. Width : TwoTo[k] = IF k = 0 THEN 1 ELSE 2 * TwoTo[k - 1]
  BY <1>6
<1>8. TwoTo[0] = 1 /\ \A k \in 1 .. Width : TwoTo[k] = 2 * TwoTo[k - 1]
  BY <1>7
<1> DEFINE Bad == {k \in 0 .. Width : TwoTo[k] \notin X}
<1>9. Bad = {}
  <2>1. Bad \in SUBSET (0 .. Width) /\ 0 \notin Bad
    BY <1>8
  <2>2. ASSUME NEW k \in 1 .. Width, k - 1 \notin Bad PROVE k \notin Bad
    <3>1. k - 1 \in 0 .. Width /\ TwoTo[k - 1] \in X
      BY <2>2
    <3> QED BY <1>8, <3>1
  <2> HIDE DEF Bad
  <2> QED BY <2>1, <2>2, NoFirst
<1> QED BY <1>7, <1>8, <1>9

LEMMA Halves == Half \in Nat \ {0} /\ Mod = 2 * Half
<1>1. Width \in 1 .. Width /\ Width - 1 \in 0 .. Width
  BY OperatorConstants
<1> QED BY <1>1, Powers DEF Half, Mod

\* What was reduced can be taken away again.
LEMMA Reduced ==
  ASSUME NEW m \in Nat \ {0}, NEW x \in Int, NEW d \in Int
  PROVE  ((x % m) + d) % m = (x + d) % m
<1> DEFINE p == x \div m
           z == x % m
<1>1. z \in 0 .. m - 1 /\ p \in Int /\ x = m * p + z
  OBVIOUS
<1> DEFINE u == z + d
<1>2. u \in Int
  BY <1>1
<1> DEFINE q == u \div m
           y == u % m
<1> HIDE DEF p, z, u
<1>3. y \in 0 .. m - 1 /\ q \in Int /\ u = m * q + y
  BY <1>2
<1> HIDE DEF q, y
<1>4. x + d = m * (p + q) + y
  <2>1. m * (p + q) = m * p + m * q /\ m * p \in Int /\ m * q \in Int
    BY <1>1, <1>3
  <2> QED BY <1>1, <1>3, <2>1 DEF u
<1>5. (m * (p + q) + y) % m = y
  <2>1. p + q \in Int
    BY <1>1, <1>3
  <2> QED BY <1>3, <2>1, Remainder
<1> QED BY <1>4, <1>5 DEF y, u, z

LEMMA Wraps ==
  ASSUME NEW x \in Int
  PROVE  /\ Wrap(x) \in -Half .. Half - 1
         /\ x \in -Half .. Half - 1 => Wrap(x) = x
         /\ \A d \in Int : Wrap(Wrap(x) + d) = Wrap(x + d)
<1> DEFINE y == x + Half
<1>1. /\ Half \in Nat \ {0} /\ Mod = 2 * Half /\ Mod \in Nat \ {0}
      /\ y \in Int /\ y % Mod \in 0 .. Mod - 1
  BY Halves
<1>2. Wrap(x) \in -Half .. Half - 1
  BY <1>1 DEF Wrap
<1>3. ASSUME x \in -Half .. Half - 1 PROVE Wrap(x) = x
  <2>1. y \in 0 .. Mod - 1
    BY <1>1, <1>3
  <2> HIDE DEF y
  <2>2. Mod * 0 + y = y
    BY <1>1
  <2>3. y % Mod = y
    BY <1>1, <2>1, <2>2, Remainder
  <2> QED BY <1>1, <2>3 DEF Wrap, y
<1>4. ASSUME NEW d \in Int PROVE Wrap(Wrap(x) + d) = Wrap(x + d)
  <2>1. ((y % Mod) + d) % Mod = (y + d) % Mod
    <3> HIDE DEF y
    <3> QED BY <1>1, Reduced
  <2>2. y + d = (x + d) + Half
    BY <1>1
  <2> DEFINE r == y % Mod
  <2>3. r \in Int /\ Wrap(x) = r - Half
    BY <1>1 DEF Wrap
  <2> HIDE DEF r, y
  <2>4. (Wrap(x) + d) + Half = r + d
    BY <1>1, <2>3
  <2>5. Wrap(Wrap(x) + d) = ((r + d) % Mod) - Half
    BY <2>4 DEF Wrap
  <2>6. Wrap(x + d) = ((y + d) % Mod) - Half
    BY <2>2 DEF Wrap
  <2> QED BY <2>1, <2>5, <2>6 DEF r
<1> QED BY <1>2, <1>3, <1>4

-----------------------------------------------------------------------------
(* What the operators give.                                                 *)

Finite(v) == v.ty = "float" => v.d > 0
Number(v) == v.ty \in Numeric /\ IsItem(v) /\ Finite(v)

LEMMA Makes ==
  ASSUME NEW x \in Int
  PROVE  /\ vint(x) = [ty |-> "int", n |-> Wrap(x)] /\ IsItem(vint(x))
         /\ vuint(x) = [ty |-> "uint", n |-> x % Mod] /\ IsItem(vuint(x))
         /\ x % Mod \in 0 .. Mod - 1
<1>1. x % Mod \in 0 .. Mod - 1
  BY Halves
<1>2. vint(x) = [ty |-> "int", n |-> Wrap(x)] /\ IsItem(vint(x))
  BY Wraps DEF vint, IsItem
<1>3. vuint(x) = [ty |-> "uint", n |-> x % Mod] /\ IsItem(vuint(x))
  BY <1>1 DEF vuint, IsItem
<1> QED BY <1>1, <1>2, <1>3

LEMMA MakesFloat ==
  ASSUME NEW n \in Int, NEW d \in Int
  PROVE  /\ IsItem(vfloat(n, d)) /\ vfloat(n, d).ty = "float" /\ vfloat(n, d).n \in Int
         /\ d > 0 => vfloat(n, d).n = n /\ vfloat(n, d).d = d
BY DEF vfloat, IsItem, Abs

LEMMA AsDouble ==
  ASSUME NEW v, Number(v), v.ty # "uint"
  PROVE  /\ to_double(v).n \in Int /\ to_double(v).n = v.n /\ to_double(v).d \in Nat \ {0}
         /\ v.ty = "int" => to_double(v).d = 1
<1>1. Half \in Nat
  BY Halves
<1>2. CASE v.ty = "float"
  BY <1>2 DEF to_double, Number, IsItem, Finite
<1>3. CASE v.ty = "int"
  <2>1. v.n \in Int
    BY <1>1, <1>3 DEF Number, IsItem
  <2> QED BY <1>3, <2>1, MakesFloat DEF to_double
<1> QED BY <1>2, <1>3 DEF Number, Numeric

LEMMA AsUInt ==
  ASSUME NEW v, Number(v) PROVE to_uint(v) \in 0 .. Mod - 1
<1>1. Half \in Nat /\ Mod \in Nat \ {0}
  BY Halves
<1>2. CASE v.ty = "float"
  <2>1. v.n \in Int /\ v.d \in Nat \ {0}
    BY <1>2 DEF Number, IsItem, Finite
  <2>2. Abs(v.n) \in Int /\ Sign(v.n) \in Int
    BY <2>1 DEF Abs, Sign
  <2>3. Abs(v.n) \div v.d \in Int
    BY <2>1, <2>2
  <2>4. Sign(v.n) * (Abs(v.n) \div v.d) \in Int
    BY <2>2, <2>3
  <2> DEFINE x == Sign(v.n) * (Abs(v.n) \div v.d)
  <2>5. to_uint(v) = x % Mod
    BY <1>2 DEF to_uint
  <2> HIDE DEF x
  <2> QED BY <2>4, <2>5, Makes DEF x
<1>3. CASE v.ty # "float"
  <2>1. v.n \in Int
    BY <1>1, <1>3 DEF Number, IsItem, Numeric
  <2> QED BY <1>3, <2>1, Makes DEF to_uint
<1> QED BY <1>2, <1>3

LEMMA OnNumbersIs ==
  ASSUME NEW a, NEW b, Number(a), Number(b), NEW op
  PROVE  \/ OnNumbers(op, a, b) = OnUInts(op, to_uint(a), to_uint(b)) /\ "uint" \in {a.ty, b.ty}
         \/ /\ OnNumbers(op, a, b) = OnFloats(op, to_double(a), to_double(b))
            /\ "uint" \notin {a.ty, b.ty} /\ "float" \in {a.ty, b.ty}
         \/ OnNumbers(op, a, b) = OnInts(op, a.n, b.n) /\ a.ty = "int" /\ b.ty = "int"
<1>1. CASE "uint" \in {a.ty, b.ty}
  BY <1>1 DEF OnNumbers
<1>2. CASE "uint" \notin {a.ty, b.ty} /\ "float" \in {a.ty, b.ty}
  BY <1>2 DEF OnNumbers
<1>3. CASE "uint" \notin {a.ty, b.ty} /\ "float" \notin {a.ty, b.ty}
  BY <1>3 DEF OnNumbers, Number, Numeric
<1> QED BY <1>1, <1>2, <1>3

\* A result that is no number needs no more to be a value.
Plain(v) == v.ty \notin Numeric \cup {"list"}

LEMMA PlainResults ==
  /\ \A b : Plain(vbool(b)) /\ Plain(vnull) /\ Plain(crashed) /\ Plain(Error)
  /\ \A s : Plain(vstring(s)) /\ \A id, op : Plain(Called(id, op))
BY DEF Plain, vbool, vnull, crashed, Error, vstring, Called, Numeric

LEMMA PlainIsItem == ASSUME NEW v, Plain(v) PROVE IsItem(v) /\ v.ty # "list"
BY DEF Plain, IsItem, Numeric

Item(v) == IsItem(v) /\ v.ty # "list"

LEMMA UIntsGive ==
  ASSUME NEW a \in 0 .. Mod - 1, NEW b \in 0 .. Mod - 1, NEW op PROVE Item(OnUInts(op, a, b))
<1>1. /\ a \in Int /\ b \in Int /\ b >= 0 /\ Width \in Nat \ {0} /\ b % Width \in 0 .. Width - 1
      /\ \A x \in Int : Item(vuint(x)) /\ IsItem(vnull) /\ vnull.ty # "list"
  <2>1. a \in Int /\ b \in Int /\ b >= 0 /\ Width \in Nat \ {0} /\ b % Width \in 0 .. Width - 1
    BY Halves, OperatorConstants
  <2>2. \A x \in Int : vuint(x).ty = "uint"
    BY DEF vuint
  <2> QED BY <2>1, <2>2, Makes, PlainResults, PlainIsItem DEF Item
<1>2. TwoTo[b % Width] \in Nat \ {0}
  <2>1. b % Width \in 0 .. Width
    BY <1>1
  <2> QED BY <2>1, Powers
<1>3. /\ Item(vuint(a + b)) /\ Item(vuint(a - b)) /\ Item(vuint(a * b))
      /\ b # 0 => Item(vuint(a \div b)) /\ Item(vuint(a % b))
  BY <1>1
<1>4. Item(vuint(a * TwoTo[b % Width])) /\ Item(vuint(a \div TwoTo[b % Width]))
  <2> DEFINE t == TwoTo[b % Width]
  <2>1. t \in Nat \ {0}
    BY <1>2
  <2> HIDE DEF t
  <2>2. a * t \in Int /\ a \div t \in Int
    BY <1>1, <2>1
  <2> QED BY <1>1, <2>2 DEF t
<1>5. Item(crashed) /\ Item(vnull) /\ \A p : Item(vbool(p))
  BY PlainResults, PlainIsItem DEF Item
<1> QED BY <1>3, <1>4, <1>5 DEF OnUInts

LEMMA IntsGive ==
  ASSUME NEW a \in Int, NEW b \in Int, NEW op PROVE Item(OnInts(op, a, b))
<1>1. \A x \in Int : Item(vint(x))
  <2>1. \A x \in Int : vint(x).ty = "int"
    BY DEF vint
  <2> QED BY <2>1, Makes DEF Item
<1>2. TwoTo[b % Width] \in Nat \ {0}
  <2>1. b % Width \in 0 .. Width
    BY OperatorConstants
  <2> QED BY <2>1, Powers
<1>3. Item(vint(a + b)) /\ Item(vint(a - b)) /\ Item(vint(a * b))
  BY <1>1
<1>4. Item(vint(a * TwoTo[b % Width])) /\ Item(vint(a \div TwoTo[b % Width]))
  <2> DEFINE t == TwoTo[b % Width]
  <2>1. t \in Nat \ {0}
    BY <1>2
  <2> HIDE DEF t
  <2>2. a * t \in Int /\ a \div t \in Int
    BY <2>1
  <2> QED BY <1>1, <2>2 DEF t
<1>5. Item(crashed) /\ Item(vnull) /\ \A p : Item(vbool(p))
  BY PlainResults, PlainIsItem DEF Item
<1>6. b # 0 => Item(vint(Rem(a, b)))
  <2>1. b # 0 => Rem(a, b) \in Int
    <3>1. Abs(a) \in Int /\ Abs(b) \in Nat /\ (b # 0 => Abs(b) # 0) /\ Sign(a) \in Int
      BY DEF Abs, Sign
    <3>2. b # 0 => Abs(a) % Abs(b) \in Int
      BY <3>1
    <3> QED BY <3>1, <3>2 DEF Rem
  <2> QED BY <1>1, <2>1
<1>7. Item(vfloat(a, b))
  BY MakesFloat DEF Item
<1> QED BY <1>3, <1>4, <1>5, <1>6, <1>7 DEF OnInts

LEMMA FloatsGive ==
  ASSUME NEW a, NEW b, a.n \in Int, a.d \in Int, b.n \in Int, b.d \in Int, NEW op
  PROVE  Item(OnFloats(op, a, b))
<1>1. \A n, d \in Int : Item(vfloat(n, d))
  BY MakesFloat DEF Item
<1>2. Item(crashed) /\ Item(vnull) /\ \A p : Item(vbool(p))
  BY PlainResults, PlainIsItem DEF Item
<1>3. /\ a.n * b.d \in Int /\ b.n * a.d \in Int /\ a.d * b.d \in Int /\ a.n * b.n \in Int
      /\ a.d * b.n \in Int
  OBVIOUS
<1>4. a.n * b.d + b.n * a.d \in Int /\ a.n * b.d - b.n * a.d \in Int
  BY <1>3
<1> QED BY <1>1, <1>2, <1>3, <1>4 DEF OnFloats

-----------------------------------------------------------------------------
(* Comparisons: two operands stand for two integers x and y, whichever way   *)
(* round they are compared.                                                 *)

Comparisons == Orders \cup {"==", "!="}
Compares(op, a, b, x, y) == OnNumbers(op, a, b) = vbool(Compare(op, x < y, x = y))

LEMMA NumbersCompare ==
  ASSUME NEW a, NEW b, Number(a), Number(b)
  PROVE  \E x, y \in Int : \A op \in Comparisons : Compares(op, a, b, x, y) /\ Compares(op, b, a, y, x)
<1>1. Mod \in Nat /\ Half \in Nat
  BY Halves
<1>2. CASE "uint" \in {a.ty, b.ty}
  <2> DEFINE x == to_uint(a)
             y == to_uint(b)
  <2>1. x \in Int /\ y \in Int
    BY <1>1, AsUInt
  <2>2. \A op \in Comparisons : OnNumbers(op, a, b) = OnUInts(op, x, y) /\ OnNumbers(op, b, a) = OnUInts(op, y, x)
    BY <1>2 DEF OnNumbers
  <2> HIDE DEF x, y
  <2>3. \A op \in Comparisons : /\ OnUInts(op, x, y) = vbool(Compare(op, x < y, x = y))
                                /\ OnUInts(op, y, x) = vbool(Compare(op, y < x, y = x))
    BY DEF OnUInts, Comparisons, Orders
  <2> QED BY <2>1, <2>2, <2>3 DEF Compares
<1>3. CASE "uint" \notin {a.ty, b.ty} /\ "float" \in {a.ty, b.ty}
  <2> DEFINE p == to_double(a)
             q == to_double(b)
             x == p.n * q.d
             y == q.n * p.d
  <2>1. p.n \in Int /\ p.d \in Int /\ q.n \in Int /\ q.d \in Int
    BY <1>3, AsDouble
  <2>2. \A op \in Comparisons : OnNumbers(op, a, b) = OnFloats(op, p, q) /\ OnNumbers(op, b, a) = OnFloats(op, q, p)
    BY <1>3 DEF OnNumbers
  <2> HIDE DEF p, q
  <2>3. x \in Int /\ y \in Int
    BY <2>1
  <2>4. \A op \in Comparisons : /\ OnFloats(op, p, q) = vbool(Compare(op, x < y, x = y))
                                /\ OnFloats(op, q, p) = vbool(Compare(op, y < x, y = x))
    BY DEF OnFloats, Comparisons, Orders
  <2> HIDE DEF x, y
  <2> QED BY <2>2, <2>3, <2>4 DEF Compares
<1>4. CASE "uint" \notin {a.ty, b.ty} /\ "float" \notin {a.ty, b.ty}
  <2> DEFINE x == a.n
             y == b.n
  <2>1. a.ty = "int" /\ b.ty = "int"
    BY <1>4 DEF Number, Numeric
  <2>2. x \in Int /\ y \in Int
    BY <1>1, <2>1 DEF Number, IsItem
  <2>3. \A op \in Comparisons : OnNumbers(op, a, b) = OnInts(op, x, y) /\ OnNumbers(op, b, a) = OnInts(op, y, x)
    BY <1>4 DEF OnNumbers
  <2> HIDE DEF x, y
  <2>4. \A op \in Comparisons : /\ OnInts(op, x, y) = vbool(Compare(op, x < y, x = y))
                                /\ OnInts(op, y, x) = vbool(Compare(op, y < x, y = x))
    BY DEF OnInts, Comparisons, Orders
  <2> QED BY <2>2, <2>3, <2>4 DEF Compares
<1> QED BY <1>2, <1>3, <1>4

\* Two numbers that are no unsigned ones are equal when they are the same fraction.
Cross(a, b) == to_double(a).n * to_double(b).d

LEMMA Truthy == ASSUME NEW v, v.ty = "bool" PROVE is_truthy(v) <=> v.n # 0
BY DEF is_truthy, Blank

LEMMA SameFraction ==
  ASSUME NEW a, NEW b, Number(a), Number(b), a.ty # "uint", b.ty # "uint"
  PROVE  /\ is_truthy(binary_op_items(a, "==", b)) <=> Cross(a, b) = Cross(b, a)
         /\ Cross(a, b) \in Int /\ Cross(b, a) \in Int
         /\ OnFloats("<", to_double(a), to_double(b)).n = 1 <=> Cross(a, b) < Cross(b, a)
<1>1. Cross(a, b) \in Int /\ Cross(b, a) \in Int
  BY AsDouble DEF Cross
<1>2. binary_op_items(a, "==", b) = OnNumbers("==", a, b)
  BY DEF binary_op_items, Logical, Number, Numeric, Blank
<1>3. OnFloats("<", to_double(a), to_double(b)).n = 1 <=> Cross(a, b) < Cross(b, a)
  BY DEF OnFloats, Cross, Compare, Orders, vbool
<1>4. /\ is_truthy(vbool(Cross(a, b) = Cross(b, a))) <=> Cross(a, b) = Cross(b, a)
      /\ is_truthy(vbool(a.n = b.n)) <=> a.n = b.n
  BY Truthy DEF vbool
<1>5. CASE "float" \in {a.ty, b.ty}
  <2>1. OnNumbers("==", a, b) = OnFloats("==", to_double(a), to_double(b))
    BY <1>5 DEF OnNumbers
  <2>2. OnFloats("==", to_double(a), to_double(b)) = vbool(Cross(a, b) = Cross(b, a))
    BY DEF OnFloats, Cross, Compare
  <2> QED BY <1>1, <1>2, <1>3, <1>4, <2>1, <2>2
<1>6. CASE "float" \notin {a.ty, b.ty}
  <2>1. a.ty = "int" /\ b.ty = "int"
    BY <1>6 DEF Number, Numeric
  <2>2. Cross(a, b) = a.n /\ Cross(b, a) = b.n
    <3>1. /\ to_double(a).n = a.n /\ to_double(b).n = b.n /\ to_double(a).d = 1 /\ to_double(b).d = 1
          /\ to_double(a).n \in Int /\ to_double(b).n \in Int
      BY <2>1, AsDouble
    <3> QED BY <3>1 DEF Cross
  <2>3. OnNumbers("==", a, b) = vbool(a.n = b.n)
    BY <1>6 DEF OnNumbers, OnInts, Compare
  <2> QED BY <1>1, <1>2, <1>3, <1>4, <2>2, <2>3
<1> QED BY <1>5, <1>6

Differ(a, b) == {i \in DOMAIN a : Cross(a[i], b[i]) # Cross(b[i], a[i])}
Before(a, b) == OnFloats("<", to_double(a), to_double(b)).n = 1

\* Items that a list of numbers may have.
Signed(a) ==
  /\ IsList(a)
  /\ \A i \in DOMAIN a : Number(a[i]) /\ a[i].ty # "uint"

LEMMA OrderOfLists ==
  ASSUME NEW a, NEW b
  PROVE  ListOrder(a, b) =
           (IF Len(a) # Len(b) THEN IF Len(a) < Len(b) THEN -1 ELSE 1
            ELSE IF Differ(a, b) = {} THEN 0
            ELSE IF Before(a[Min(Differ(a, b))], b[Min(Differ(a, b))]) THEN -1 ELSE 1)
<1>1. CASE Len(a) # Len(b)
  BY <1>1 DEF ListOrder
<1>2. CASE Len(a) = Len(b) /\ Differ(a, b) = {}
  BY <1>2 DEF ListOrder, Differ, Cross
<1>3. CASE Len(a) = Len(b) /\ Differ(a, b) # {}
  BY <1>3 DEF ListOrder, Differ, Cross, Before
<1> QED BY <1>1, <1>2, <1>3

LEMMA ListsCompare ==
  ASSUME NEW a, NEW b, Signed(a), Signed(b)
  PROVE  /\ \/ ListOrder(a, b) = 0 /\ ListOrder(b, a) = 0
            \/ ListOrder(a, b) = -1 /\ ListOrder(b, a) = 1
            \/ ListOrder(a, b) = 1 /\ ListOrder(b, a) = -1
         /\ ListOrder(a, b) = 0 <=> Len(a) = Len(b) /\ Differ(a, b) = {}
<1>0. Len(a) \in Nat /\ Len(b) \in Nat
  BY DEF Signed, IsList
<1>1. DOMAIN a = 1 .. Len(a) /\ DOMAIN b = 1 .. Len(b)
  BY DEF Signed, IsList
<1>2. CASE Len(a) # Len(b)
  <2>1. ListOrder(a, b) = (IF Len(a) < Len(b) THEN -1 ELSE 1)
    BY <1>2, OrderOfLists
  <2>2. ListOrder(b, a) = (IF Len(b) < Len(a) THEN -1 ELSE 1)
    BY <1>2, OrderOfLists
  <2>3. CASE Len(a) < Len(b)
    <3>1. ListOrder(a, b) = -1 /\ ListOrder(b, a) = 1
      BY <1>0, <2>1, <2>2, <2>3
    <3> QED BY <1>2, <3>1
  <2>4. CASE Len(b) < Len(a)
    <3>1. ListOrder(a, b) = 1 /\ ListOrder(b, a) = -1
      BY <1>0, <2>1, <2>2, <2>4
    <3> QED BY <1>2, <3>1
  <2>5. Len(a) < Len(b) \/ Len(b) < Len(a)
    BY <1>0, <1>2
  <2> QED BY <2>3, <2>4, <2>5
<1>3. CASE Len(a) = Len(b)
  <2> DEFINE D == Differ(a, b)
             m == Min(D)
  <2>1. D = Differ(b, a) /\ D \in SUBSET (1 .. Len(a))
    BY <1>1, <1>3 DEF Differ
  <2>2. CASE D = {}
    <3>1. ListOrder(a, b) = 0
      BY <1>3, <2>2, OrderOfLists
    <3>2. ListOrder(b, a) = 0
      BY <1>3, <2>1, <2>2, OrderOfLists
    <3> QED BY <1>3, <2>2, <3>1, <3>2
  <2>3. CASE D # {}
    <3>1. D \in SUBSET Nat
      BY <1>1, <2>1
    <3>2. m \in D
      <4> HIDE DEF D
      <4> QED BY <2>3, <3>1, MinIsIn
    <3>3. m \in DOMAIN a /\ m \in DOMAIN b /\ Cross(a[m], b[m]) # Cross(b[m], a[m])
      <4> HIDE DEF m
      <4> QED BY <1>1, <1>3, <3>2 DEF Differ
    <3> DEFINE p == a[m]
               q == b[m]
    <3>4. Number(p) /\ Number(q) /\ p.ty # "uint" /\ q.ty # "uint"
      <4> HIDE DEF m
      <4> QED BY <3>3 DEF Signed
    <3>5. ListOrder(a, b) = (IF Before(p, q) THEN -1 ELSE 1)
      BY <1>3, <2>3, OrderOfLists
    <3>6. ListOrder(b, a) = (IF Before(q, p) THEN -1 ELSE 1)
      <4>1. Len(b) = Len(a) /\ Differ(b, a) # {} /\ m = Min(Differ(b, a))
        BY <1>3, <2>1, <2>3
      <4> HIDE DEF m
      <4> QED BY <4>1, OrderOfLists
    <3>7. Cross(p, q) # Cross(q, p)
      BY <3>3
    <3> HIDE DEF p, q, D, m
    <3>8. /\ Cross(p, q) \in Int /\ Cross(q, p) \in Int
          /\ Before(p, q) <=> Cross(p, q) < Cross(q, p)
          /\ Before(q, p) <=> Cross(q, p) < Cross(p, q)
      BY <3>4, SameFraction DEF Before
    <3>9. Before(p, q) <=> ~Before(q, p)
      BY <3>7, <3>8
    <3> QED BY <2>3, <3>5, <3>6, <3>9 DEF D
  <2> QED BY <2>2, <2>3
<1> QED BY <1>2, <1>3

LEMMA EqualLists ==
  ASSUME NEW a, NEW b, Signed(a), Signed(b)
  PROVE  OnLists("==", a, b) = vbool(ListOrder(a, b) = 0)
<1>1. DOMAIN a = 1 .. Len(a) /\ DOMAIN b = 1 .. Len(b)
  BY DEF Signed, IsList
<1>2. OnLists("==", a, b) =
        vbool(Len(a) = Len(b) /\ \A i \in DOMAIN a : is_truthy(binary_op_items(a[i], "==", b[i])))
  BY DEF OnLists, vbool, Orders
<1>3. Len(a) = Len(b) =>
        ((\A i \in DOMAIN a : is_truthy(binary_op_items(a[i], "==", b[i]))) <=> Differ(a, b) = {})
  <2> SUFFICES ASSUME Len(a) = Len(b)
               PROVE  \A i \in DOMAIN a : is_truthy(binary_op_items(a[i], "==", b[i]))
                                          <=> Cross(a[i], b[i]) = Cross(b[i], a[i])
    BY DEF Differ
  <2> TAKE i \in DOMAIN a
  <2>1. /\ Number(a[i]) /\ Number(b[i]) /\ a[i].ty # "uint" /\ b[i].ty # "uint"
    BY <1>1 DEF Signed
  <2> HIDE DEF Signed
  <2> QED BY <2>1, SameFraction
<1>4. (Len(a) = Len(b) /\ \A i \in DOMAIN a : is_truthy(binary_op_items(a[i], "==", b[i])))
        <=> ListOrder(a, b) = 0
  <2> HIDE DEF Signed
  <2> QED BY <1>3, ListsCompare
<1> QED BY <1>2, <1>4 DEF vbool

LEMMA OrderedLists ==
  ASSUME NEW a, NEW b, Signed(a), Signed(b), NEW op \in Orders
  PROVE  OnLists(op, a, b) = vbool(Compare(op, ListOrder(a, b) = -1, ListOrder(a, b) = 0))
<1>1. DOMAIN a = 1 .. Len(a) /\ DOMAIN b = 1 .. Len(b)
  BY DEF Signed, IsList
<1>2. Len(a) = Len(b) => \A i \in DOMAIN a : {a[i].ty, b[i].ty} \ Numeric = {}
  BY <1>1 DEF Signed, Number
<1>3. op # "==" /\ op # "!="
  BY DEF Orders
<1> QED BY <1>2, <1>3 DEF OnLists

-----------------------------------------------------------------------------
(* The accumulator stays a value, and its properties.                        *)

LEMMA GivenAreValues ==
  ASSUME NEW v \in Start \cup Given PROVE IsValue(v) /\ Finite(v)
BY OperatorConstants DEF Finite

LEMMA NumbersGive ==
  ASSUME NEW a, NEW b, Number(a), Number(b), NEW op PROVE Item(OnNumbers(op, a, b))
<1>1. Mod \in Nat /\ Half \in Nat
  BY Halves
<1>2. CASE OnNumbers(op, a, b) = OnUInts(op, to_uint(a), to_uint(b))
  <2>1. to_uint(a) \in 0 .. Mod - 1 /\ to_uint(b) \in 0 .. Mod - 1
    BY AsUInt
  <2> QED BY <1>2, <2>1, UIntsGive
<1>3. CASE /\ OnNumbers(op, a, b) = OnFloats(op, to_double(a), to_double(b))
           /\ "uint" \notin {a.ty, b.ty} /\ "float" \in {a.ty, b.ty}
  <2>1. /\ to_double(a).n \in Int /\ to_double(a).d \in Int
        /\ to_double(b).n \in Int /\ to_double(b).d \in Int
    BY <1>3, AsDouble
  <2> QED BY <1>3, <2>1, FloatsGive
<1>4. CASE OnNumbers(op, a, b) = OnInts(op, a.n, b.n) /\ a.ty = "int" /\ b.ty = "int"
  <2>1. a.n \in Int /\ b.n \in Int
    BY <1>1, <1>4 DEF Number, IsItem
  <2> QED BY <1>4, <2>1, IntsGive
<1> QED BY <1>2, <1>3, <1>4, OnNumbersIs

LEMMA OperatorsGive ==
  ASSUME NEW a, NEW b, IsValue(a), IsValue(b), Finite(a), Finite(b), NEW op
  PROVE  IsValue(binary_op(a, op, b))
<1>1. \A v : Item(v) => IsValue(v)
  BY DEF Item, IsValue
<1>2. \A p : Item(vbool(p))
  BY PlainResults, PlainIsItem DEF Item
<1>3. Item(vnull) /\ Item(Error) /\ (\A s : Item(vstring(s))) /\ \A id, k : Item(Called(id, k))
  BY PlainResults, PlainIsItem DEF Item
<1>6. \A n : Item([ty |-> "bool", n |-> n])
  BY DEF Item, IsItem
<1>4. CASE a.ty = "list" /\ b.ty = "list" /\ op \notin Logical
  <2>1. binary_op(a, op, b) = OnLists(op, a.items, b.items)
    BY <1>4 DEF binary_op
  <2>2. Item(OnLists(op, a.items, b.items))
    BY <1>2, <1>3 DEF OnLists
  <2> QED BY <1>1, <2>1, <2>2
<1>5. CASE ~(a.ty = "list" /\ b.ty = "list" /\ op \notin Logical)
  <2> DEFINE r == binary_op_items(a, op, b)
  <2>1. binary_op(a, op, b) = r
    BY <1>5 DEF binary_op
  <2>2. CASE a.ty \in Blank /\ b.ty \in Blank
    <3>1. r = IF op \in {"==", "!="} THEN vbool((a.ty = b.ty) = (op = "==")) ELSE vnull
      BY <2>2 DEF binary_op_items, Logical, Blank, Numeric
    <3>2. Item(r)
      <4> HIDE DEF r
      <4> QED BY <1>2, <1>3, <3>1
    <3> QED BY <1>1, <2>1, <3>2
  <2>3. CASE ~(a.ty \in Blank /\ b.ty \in Blank) /\ op \in Logical
    <3>1. op = "??" => r = IF is_truthy(a) THEN a ELSE b
      BY <2>3 DEF binary_op_items, Logical
    <3>2. op = "||" => r = vbool(is_truthy(a) \/ is_truthy(b))
      BY <2>3 DEF binary_op_items, Logical
    <3>3. op = "&&" => r = vbool(is_truthy(a) /\ is_truthy(b))
      BY <2>3 DEF binary_op_items, Logical
    <3> HIDE DEF r
    <3>4. r = a \/ r = b \/ Item(r)
      BY <1>2, <2>3, <3>1, <3>2, <3>3 DEF Logical
    <3> QED BY <1>1, <2>1, <3>4
  <2>4. CASE a.ty \in Numeric /\ b.ty \in Numeric /\ op \notin Logical
    <3>1. r = OnNumbers(op, a, b)
      BY <2>4 DEF binary_op_items, Logical, Numeric, Blank
    <3>2. Number(a) /\ Number(b)
      BY <2>4 DEF Number, IsValue, Numeric
    <3> QED BY <1>1, <2>1, <3>1, <3>2, NumbersGive
  <2>5. CASE /\ ~(a.ty \in Blank /\ b.ty \in Blank) /\ op \notin Logical
             /\ ~(a.ty \in Numeric /\ b.ty \in Numeric)
    <3>1. r = OnOthers(op, a, b)
      BY <2>5 DEF binary_op_items, Logical
    <3>2. Item(OnOthers(op, a, b))
      BY <1>2, <1>3 DEF OnOthers, binary_op_objects
    <3> QED BY <1>1, <2>1, <3>1, <3>2
  <2> QED BY <2>2, <2>3, <2>4, <2>5
<1> QED BY <1>4, <1>5

LEMMA OperatorsKeep == OperatorSpec => []IsValue(acc)
<1>1. OperatorInit => IsValue(acc)
  BY GivenAreValues DEF OperatorInit
<1>2. IsValue(acc) /\ [OperatorNext]_operator_vars => IsValue(acc)'
  <2> SUFFICES ASSUME IsValue(acc), [OperatorNext]_operator_vars PROVE IsValue(acc')
    BY DEF IsValue, IsItem
  <2>1. CASE UNCHANGED operator_vars
    BY <2>1 DEF operator_vars
  <2>2. CASE OperatorNext
    <3>1. PICK op \in AllOps, v \in Given : Usable(acc) /\ acc' = binary_op(acc, op, v)
      BY <2>2 DEF OperatorNext, Apply
    <3>2. IsValue(v) /\ Finite(v)
      BY GivenAreValues
    <3>3. Finite(acc)
      BY <3>1 DEF Usable, Finite
    <3> QED BY <3>1, <3>2, <3>3, OperatorsGive
  <2> QED BY <2>1, <2>2
<1> QED BY <1>1, <1>2, PTL DEF OperatorSpec

\* What one of two operands that can be compared stands for.
LEMMA OperandsCompare ==
  ASSUME NEW a, NEW b, IsValue(a), IsValue(b), Finite(a), Finite(b), Comparable(a, b)
  PROVE  \E x, y \in Int : \A op \in Orders \cup {"=="} :
           /\ binary_op(a, op, b) = vbool(Compare(op, x < y, x = y))
           /\ binary_op(b, op, a) = vbool(Compare(op, y < x, y = x))
<1>1. CASE a.ty \in Numeric /\ b.ty \in Numeric
  <2>1. Number(a) /\ Number(b)
    BY <1>1 DEF Number, IsValue, Numeric
  <2>2. \A op \in Orders \cup {"=="} :
          binary_op(a, op, b) = OnNumbers(op, a, b) /\ binary_op(b, op, a) = OnNumbers(op, b, a)
    BY <1>1 DEF binary_op, binary_op_items, Logical, Numeric, Blank, Orders
  <2>3. PICK x, y \in Int : \A op \in Comparisons : Compares(op, a, b, x, y) /\ Compares(op, b, a, y, x)
    BY <2>1, NumbersCompare
  <2>4. Orders \cup {"=="} \subseteq Comparisons
    BY DEF Comparisons
  <2> QED BY <2>2, <2>3, <2>4 DEF Compares
<1>2. CASE NumberList(a) /\ NumberList(b)
  <2> DEFINE s == a.items
             t == b.items
             n == ListOrder(s, t)
             m == ListOrder(t, s)
  <2>1. Signed(s) /\ Signed(t)
    <3>1. ASSUME NEW v, IsValue(v), NumberList(v) PROVE Signed(v.items)
      <4>1. /\ v.items \in Seq(Range(v.items))
            /\ \A item \in Range(v.items) : item.ty # "list" /\ IsItem(item) /\ Finite(item)
        BY <3>1 DEF IsValue, NumberList, Finite
      <4>2. \A i \in DOMAIN v.items : v.items[i] \in Range(v.items) /\ v.items[i].ty \in {"int", "float"}
        BY <3>1 DEF NumberList, Range
      <4> QED BY <4>1, <4>2 DEF Signed, IsList, Number, Numeric
    <3> QED BY <1>2, <3>1
  <2>2. \A op \in Orders \cup {"=="} :
          binary_op(a, op, b) = OnLists(op, s, t) /\ binary_op(b, op, a) = OnLists(op, t, s)
    BY <1>2 DEF binary_op, Logical, NumberList, Orders
  <2> HIDE DEF s, t, n, m
  <2>3. \/ n = 0 /\ m = 0
        \/ n = -1 /\ m = 1
        \/ n = 1 /\ m = -1
    BY <2>1, ListsCompare DEF n, m
  <2>4. OnLists("==", s, t) = vbool(n = 0) /\ OnLists("==", t, s) = vbool(m = 0)
    BY <2>1, EqualLists DEF n, m
  <2>5. \A op \in Orders : /\ OnLists(op, s, t) = vbool(Compare(op, n = -1, n = 0))
                           /\ OnLists(op, t, s) = vbool(Compare(op, m = -1, m = 0))
    BY <2>1, OrderedLists DEF n, m
  <2>6. n \in Int /\ (n = -1 <=> n < 0) /\ (m = -1 <=> 0 < n) /\ (m = 0 <=> 0 = n)
    BY <2>3
  <2>7. OnLists("==", s, t) = vbool(Compare("==", n < 0, n = 0)) /\ OnLists("==", t, s) = vbool(Compare("==", 0 < n, 0 = n))
    BY <2>4, <2>6 DEF vbool, Compare
  <2>8. \A op \in Orders : /\ OnLists(op, s, t) = vbool(Compare(op, n < 0, n = 0))
                           /\ OnLists(op, t, s) = vbool(Compare(op, 0 < n, 0 = n))
    BY <2>5, <2>6 DEF vbool, Compare, Orders
  <2> QED BY <2>2, <2>6, <2>7, <2>8
<1> QED BY <1>1, <1>2 DEF Comparable

LEMMA Compared ==
  ASSUME NEW x \in Int, NEW y \in Int
  PROVE  /\ Holds(vbool(Compare("<", x < y, x = y))) <=> x < y
         /\ Holds(vbool(Compare("==", x < y, x = y))) <=> x = y
         /\ Holds(vbool(Compare(">", x < y, x = y))) <=> y < x
         /\ Holds(vbool(Compare("<=", x < y, x = y))) <=> x =< y
         /\ Holds(vbool(Compare(">=", x < y, x = y))) <=> y =< x
<1>1. /\ Compare("<", x < y, x = y) <=> x < y
      /\ Compare("==", x < y, x = y) <=> x = y
      /\ Compare(">", x < y, x = y) <=> y < x
      /\ Compare("<=", x < y, x = y) <=> x =< y
      /\ Compare(">=", x < y, x = y) <=> y =< x
  BY DEF Compare
<1> QED BY <1>1 DEF Holds, vbool

\* Of two numbers of any types and width, or two lists of signed numbers, exactly one is
\* less, equal or greater, whatever was computed before (binary_op in mila.c).
THEOREM NumbersAreOrdered == OperatorSpec => []OrderIsTotal
<1>1. IsValue(acc) => OrderIsTotal
  <2> SUFFICES ASSUME IsValue(acc), NEW v \in Given, Usable(acc), Comparable(acc, v)
               PROVE  LET Is(op) == Holds(binary_op(acc, op, v))
                          Back(op) == Holds(binary_op(v, op, acc))
                      IN /\ OneOf(Is("<"), Is("=="), Is(">"))
                         /\ Is("<=") = (Is("<") \/ Is("=="))
                         /\ Is(">=") = (Is(">") \/ Is("=="))
                         /\ Is("<") = Back(">") /\ Is("==") = Back("==")
    BY DEF OrderIsTotal
  <2>1. IsValue(v) /\ Finite(v)
    BY GivenAreValues
  <2>2. Finite(acc)
    BY DEF Usable, Finite
  <2>3. PICK x, y \in Int : \A op \in Orders \cup {"=="} :
           /\ binary_op(acc, op, v) = vbool(Compare(op, x < y, x = y))
           /\ binary_op(v, op, acc) = vbool(Compare(op, y < x, y = x))
    BY <2>1, <2>2, OperandsCompare
  <2>4. {"<", ">", "<=", ">=", "=="} \subseteq Orders \cup {"=="}
    BY DEF Orders
  <2>5. Holds(binary_op(acc, "<", v)) <=> x < y
    BY <2>3, <2>4, Compared
  <2>6. Holds(binary_op(acc, "==", v)) <=> x = y
    BY <2>3, <2>4, Compared
  <2>7. Holds(binary_op(acc, ">", v)) <=> y < x
    BY <2>3, <2>4, Compared
  <2>8. Holds(binary_op(acc, "<=", v)) <=> x =< y
    BY <2>3, <2>4, Compared
  <2>9. Holds(binary_op(acc, ">=", v)) <=> y =< x
    BY <2>3, <2>4, Compared
  <2>10. Holds(binary_op(v, ">", acc)) <=> x < y
    BY <2>3, <2>4, Compared
  <2>11. Holds(binary_op(v, "==", acc)) <=> x = y
    BY <2>3, <2>4, Compared
  <2>12. /\ x < y \/ x = y \/ y < x
         /\ x < y => x # y /\ ~(y < x)
         /\ y < x => x # y
         /\ x =< y <=> x < y \/ x = y
         /\ y =< x <=> y < x \/ x = y
    OBVIOUS
  <2>13. OneOf(Holds(binary_op(acc, "<", v)), Holds(binary_op(acc, "==", v)), Holds(binary_op(acc, ">", v)))
    BY <2>5, <2>6, <2>7, <2>12, Zenon DEF OneOf
  <2>14. /\ Holds(binary_op(acc, "<=", v)) <=> Holds(binary_op(acc, "<", v)) \/ Holds(binary_op(acc, "==", v))
         /\ Holds(binary_op(acc, ">=", v)) <=> Holds(binary_op(acc, ">", v)) \/ Holds(binary_op(acc, "==", v))
         /\ Holds(binary_op(acc, "<", v)) <=> Holds(binary_op(v, ">", acc))
         /\ Holds(binary_op(acc, "==", v)) <=> Holds(binary_op(v, "==", acc))
    BY <2>5, <2>6, <2>7, <2>8, <2>9, <2>10, <2>11, <2>12, Zenon
  <2> QED BY <2>13, <2>14 DEF Holds
<1> QED BY <1>1, OperatorsKeep, PTL

-----------------------------------------------------------------------------
(* Integers wrap, and != negates ==.                                         *)

Integer(v, ty) == v.ty = ty /\ IsItem(v)

LEMMA IntegerGives ==
  ASSUME NEW a, NEW b, NEW ty \in {"int", "uint"}, Integer(a, ty), Integer(b, ty), NEW op, op \notin Logical
  PROVE  /\ a.n \in Int /\ b.n \in Int
         /\ ty = "int" => /\ binary_op(a, op, b) = OnInts(op, a.n, b.n)
                          /\ a.n \in -Half .. Half - 1 /\ b.n \in -Half .. Half - 1
                          /\ a = [ty |-> "int", n |-> a.n]
         /\ ty = "uint" => /\ binary_op(a, op, b) = OnUInts(op, a.n, b.n)
                           /\ a.n \in 0 .. Mod - 1 /\ b.n \in 0 .. Mod - 1
                           /\ a = [ty |-> "uint", n |-> a.n]
<1>1. Half \in Nat \ {0} /\ Mod \in Nat \ {0} /\ Mod = 2 * Half
  BY Halves
<1>2. binary_op(a, op, b) = OnNumbers(op, a, b)
  BY DEF Integer, binary_op, binary_op_items, Logical, Numeric, Blank
<1>3. CASE ty = "int"
  <2>1. OnNumbers(op, a, b) = OnInts(op, a.n, b.n)
    BY <1>3 DEF OnNumbers, Integer
  <2> QED BY <1>1, <1>2, <1>3, <2>1 DEF Integer, IsItem
<1>4. CASE ty = "uint"
  <2>1. a.n \in 0 .. Mod - 1 /\ b.n \in 0 .. Mod - 1 /\ a = [ty |-> "uint", n |-> a.n]
    BY <1>4 DEF Integer, IsItem
  <2>2. a.n % Mod = a.n /\ b.n % Mod = b.n
    <3>1. ASSUME NEW x \in 0 .. Mod - 1 PROVE x % Mod = x
      <4>1. (Mod * 0 + x) % Mod = x
        BY <1>1, Remainder
      <4> QED BY <1>1, <4>1
    <3> QED BY <2>1, <3>1
  <2>3. OnNumbers(op, a, b) = OnUInts(op, to_uint(a), to_uint(b))
    BY <1>4 DEF OnNumbers, Integer
  <2>4. to_uint(a) = a.n /\ to_uint(b) = b.n
    BY <1>4, <2>2 DEF to_uint, Integer
  <2> QED BY <1>1, <1>2, <1>4, <2>1, <2>3, <2>4
<1> QED BY <1>3, <1>4

LEMMA SignedGives ==
  ASSUME NEW a, NEW b, Integer(a, "int"), Integer(b, "int")
  PROVE  /\ binary_op(a, "+", b) = vint(a.n + b.n)
         /\ binary_op(a, "-", b) = vint(a.n - b.n)
         /\ binary_op(a, "%", b) = IF b.n = 0 \/ (a.n = -Half /\ b.n = -1) THEN crashed
                                   ELSE vint(Rem(a.n, b.n))
<1>1. "+" \notin Logical /\ "-" \notin Logical /\ "%" \notin Logical
  BY DEF Logical
<1>2. \A op : op \notin Logical => binary_op(a, op, b) = OnInts(op, a.n, b.n)
  BY IntegerGives
<1>3. /\ OnInts("+", a.n, b.n) = vint(a.n + b.n)
      /\ OnInts("-", a.n, b.n) = vint(a.n - b.n)
      /\ OnInts("%", a.n, b.n) = IF b.n = 0 \/ (a.n = -Half /\ b.n = -1) THEN crashed
                                 ELSE vint(Rem(a.n, b.n))
  BY DEF OnInts, Orders
<1> QED BY <1>1, <1>2, <1>3

LEMMA UnsignedGives ==
  ASSUME NEW a, NEW b, Integer(a, "uint"), Integer(b, "uint")
  PROVE  /\ binary_op(a, "+", b) = vuint(a.n + b.n)
         /\ binary_op(a, "-", b) = vuint(a.n - b.n)
         /\ binary_op(a, "%", b) = IF b.n = 0 THEN crashed ELSE vuint(a.n % b.n)
<1>1. "+" \notin Logical /\ "-" \notin Logical /\ "%" \notin Logical
  BY DEF Logical
<1>2. \A op : op \notin Logical => binary_op(a, op, b) = OnUInts(op, a.n, b.n)
  BY IntegerGives
<1>3. /\ OnUInts("+", a.n, b.n) = vuint(a.n + b.n)
      /\ OnUInts("-", a.n, b.n) = vuint(a.n - b.n)
      /\ OnUInts("%", a.n, b.n) = IF b.n = 0 THEN crashed ELSE vuint(a.n % b.n)
  BY DEF OnUInts, Orders
<1> QED BY <1>1, <1>2, <1>3

LEMMA Fits ==
  /\ \A v : Integer(v, "int") => /\ v.n \in -Half .. Half - 1 /\ v.n \in Int
                                /\ v = [ty |-> "int", n |-> v.n] /\ Wrap(v.n) = v.n
  /\ \A v : Integer(v, "uint") => /\ v.n \in 0 .. Mod - 1 /\ v.n \in Int
                                 /\ v = [ty |-> "uint", n |-> v.n] /\ v.n % Mod = v.n
<1>1. Half \in Nat \ {0} /\ Mod \in Nat \ {0}
  BY Halves
<1>2. ASSUME NEW v, Integer(v, "int")
      PROVE  /\ v.n \in -Half .. Half - 1 /\ v.n \in Int
             /\ v = [ty |-> "int", n |-> v.n] /\ Wrap(v.n) = v.n
  <2>1. v.n \in -Half .. Half - 1 /\ v.n \in Int /\ v = [ty |-> "int", n |-> v.n]
    BY <1>1, <1>2 DEF Integer, IsItem
  <2> QED BY <2>1, Wraps
<1>3. ASSUME NEW v, Integer(v, "uint")
      PROVE  /\ v.n \in 0 .. Mod - 1 /\ v.n \in Int
             /\ v = [ty |-> "uint", n |-> v.n] /\ v.n % Mod = v.n
  <2>1. v.n \in 0 .. Mod - 1 /\ v.n \in Int /\ v = [ty |-> "uint", n |-> v.n]
    BY <1>1, <1>3 DEF Integer, IsItem
  <2> DEFINE x == v.n
  <2>2. x \in 0 .. Mod - 1 /\ Mod * 0 + x = x
    BY <1>1, <2>1
  <2> HIDE DEF x
  <2>3. x % Mod = x
    BY <1>1, <2>2, Remainder
  <2> QED BY <2>1, <2>3 DEF x
<1> QED BY <1>2, <1>3

\* What was added can be taken away again.
LEMMA TakenAway ==
  ASSUME NEW a, NEW b, NEW ty \in {"int", "uint"}, Integer(a, ty), Integer(b, ty)
  PROVE  /\ binary_op(binary_op(a, "+", b), "-", b) = a
         /\ binary_op(binary_op(a, "-", b), "+", b) = a
<1> DEFINE x == a.n
           y == b.n
           p == x + y
           q == x - y
<1>1. Half \in Nat \ {0} /\ Mod \in Nat \ {0}
  BY Halves
<1>2. CASE ty = "int"
  <2>1. x \in Int /\ y \in Int /\ a = [ty |-> "int", n |-> x] /\ Wrap(x) = x
    BY <1>2, Fits
  <2>2. binary_op(a, "+", b) = vint(p) /\ binary_op(a, "-", b) = vint(q)
    BY <1>2, SignedGives
  <2>3. p \in Int /\ q \in Int /\ p + (-y) = x /\ q + y = x
    BY <2>1
  <2>4. ASSUME NEW z \in Int
        PROVE  /\ binary_op(vint(z), "+", b) = vint(Wrap(z) + y)
               /\ binary_op(vint(z), "-", b) = vint(Wrap(z) - y)
    <3>1. Integer(vint(z), "int") /\ vint(z).n = Wrap(z)
      BY Makes DEF Integer
    <3> HIDE DEF x, y
    <3> QED BY <1>2, <3>1, SignedGives DEF x, y
  <2>5. Wrap(p) \in Int /\ Wrap(q) \in Int
    <3> HIDE DEF p, q
    <3> QED BY <1>1, <2>3, Wraps
  <2>6. Wrap(Wrap(p) + (-y)) = Wrap(p + (-y)) /\ Wrap(Wrap(q) + y) = Wrap(q + y)
    <3>1. -y \in Int
      BY <2>1
    <3> HIDE DEF p, q, x, y
    <3> QED BY <2>1, <2>3, <3>1, Wraps
  <2> HIDE DEF x, y, p, q
  <2>7. Wrap(Wrap(p) - y) = x /\ Wrap(Wrap(q) + y) = x
    <3>1. Wrap(p) + (-y) = Wrap(p) - y
      BY <2>1, <2>5
    <3> QED BY <2>1, <2>3, <2>6, <3>1
  <2>8. vint(Wrap(p) - y) = a /\ vint(Wrap(q) + y) = a
    BY <2>1, <2>7 DEF vint
  <2> QED BY <2>2, <2>3, <2>4, <2>8
<1>3. CASE ty = "uint"
  <2>1. x \in Int /\ y \in Int /\ a = [ty |-> "uint", n |-> x] /\ x % Mod = x
    BY <1>3, Fits
  <2>2. binary_op(a, "+", b) = vuint(p) /\ binary_op(a, "-", b) = vuint(q)
    BY <1>3, UnsignedGives
  <2>3. p \in Int /\ q \in Int /\ p + (-y) = x /\ q + y = x
    BY <2>1
  <2>4. ASSUME NEW z \in Int
        PROVE  /\ binary_op(vuint(z), "+", b) = vuint((z % Mod) + y)
               /\ binary_op(vuint(z), "-", b) = vuint((z % Mod) - y)
    <3>1. Integer(vuint(z), "uint") /\ vuint(z).n = z % Mod
      BY Makes DEF Integer
    <3> HIDE DEF x, y
    <3> QED BY <1>3, <3>1, UnsignedGives DEF x, y
  <2> HIDE DEF x, y, p, q
  <2>5. p % Mod \in Int /\ q % Mod \in Int
    BY <1>1, <2>3
  <2>6. ((p % Mod) + (-y)) % Mod = (p + (-y)) % Mod /\ ((q % Mod) + y) % Mod = (q + y) % Mod
    <3>1. -y \in Int
      BY <2>1
    <3>2. ((p % Mod) + (-y)) % Mod = (p + (-y)) % Mod
      BY <1>1, <2>3, <3>1, Reduced
    <3>3. ((q % Mod) + y) % Mod = (q + y) % Mod
      BY <1>1, <2>1, <2>3, Reduced
    <3> QED BY <3>2, <3>3
  <2>7. ((p % Mod) - y) % Mod = x /\ ((q % Mod) + y) % Mod = x
    <3>1. (p % Mod) + (-y) = (p % Mod) - y
      BY <2>1, <2>5
    <3> QED BY <2>1, <2>3, <2>6, <3>1
  <2>8. vuint((p % Mod) - y) = a /\ vuint((q % Mod) + y) = a
    BY <2>1, <2>7 DEF vuint
  <2> QED BY <2>2, <2>3, <2>4, <2>8
<1> QED BY <1>2, <1>3

\* Division with remainder of numbers that are not negative.
LEMMA Division ==
  ASSUME NEW u \in Nat, NEW m \in Nat \ {0}
  PROVE  /\ u % m \in 0 .. m - 1 /\ u % m =< u /\ u \div m \in 0 .. u
         /\ u = m * (u \div m) + (u % m)
<1> DEFINE p == u \div m
           k == u % m
<1>1. k \in 0 .. m - 1 /\ p \in Int /\ u = m * p + k
  OBVIOUS
<1> HIDE DEF p, k
<1>2. p >= 0
  <2> SUFFICES ASSUME p < 0 PROVE FALSE
    BY <1>1
  <2>1. (-1 - p) \in Nat /\ m * (-1 - p) \in Nat
    BY <1>1
  <2>2. m * (-1 - p) = -m - m * p /\ m * p \in Int
    BY <1>1
  <2> QED BY <1>1, <2>1, <2>2
<1>3. m * p \in Nat /\ p =< m * p
  <2>1. m - 1 \in Nat /\ p \in Nat
    BY <1>1, <1>2
  <2>2. (m - 1) * p \in Nat
    BY <2>1
  <2>3. (m - 1) * p = m * p - p /\ m * p \in Int
    BY <2>1
  <2> QED BY <2>1, <2>2, <2>3
<1>4. p \in 0 .. u /\ k =< u
  BY <1>1, <1>2, <1>3
<1> QED BY <1>1, <1>4 DEF p, k

\* C's remainder: of the sign of the dividend, and smaller than the divisor.
LEMMA RemainderOfC ==
  ASSUME NEW x \in Int, NEW y \in Int \ {0}
  PROVE  /\ Rem(x, y) \in Int /\ Abs(Rem(x, y)) < Abs(y)
         /\ Rem(x, y) = 0 \/ Sign(Rem(x, y)) = Sign(x)
         /\ \E q \in -Abs(x) .. Abs(x) : x = q * y + Rem(x, y)
<1> DEFINE u == Abs(x)
           m == Abs(y)
           k == u % m
           p == u \div m
<1>1. u \in Nat /\ m \in Nat \ {0}
  BY DEF Abs
<1>2. Rem(x, y) = Sign(x) * k
  BY DEF Rem
<1>3. (x >= 0 => u = x) /\ (x < 0 => u = -x) /\ (y > 0 => m = y) /\ (y < 0 => m = -y)
  BY DEF Abs
<1> HIDE DEF u, m
<1>4. k \in 0 .. m - 1 /\ p \in 0 .. u /\ u = m * p + k
  BY <1>1, Division
<1> HIDE DEF k, p
<1>5. Rem(x, y) = IF x < 0 THEN -k ELSE k
  <2>1. CASE x < 0
    BY <1>2, <1>4, <2>1 DEF Sign
  <2>2. CASE x > 0
    BY <1>2, <1>4, <2>2 DEF Sign
  <2>3. CASE x = 0
    <3>1. u = 0
      BY <1>3, <2>3
    <3>2. m * p \in Nat
      BY <1>1, <1>4
    <3>3. k = 0
      BY <1>1, <1>4, <3>1, <3>2
    <3> QED BY <1>2, <2>3, <3>3 DEF Sign
  <2> QED BY <2>1, <2>2, <2>3
<1>6. Rem(x, y) \in Int /\ Abs(Rem(x, y)) < m
  BY <1>1, <1>4, <1>5 DEF Abs
<1>7. Rem(x, y) = 0 \/ Sign(Rem(x, y)) = Sign(x)
  <2>1. CASE x < 0
    BY <1>4, <1>5, <2>1 DEF Sign
  <2>2. CASE x > 0
    BY <1>4, <1>5, <2>2 DEF Sign
  <2>3. CASE x = 0
    BY <1>2, <1>4, <2>3 DEF Sign
  <2> QED BY <2>1, <2>2, <2>3
<1>8. \E q \in -u .. u : x = q * y + Rem(x, y)
  <2> DEFINE q == IF (x < 0) = (y < 0) THEN p ELSE -p
  <2>1. q \in -u .. u
    BY <1>1, <1>4
  <2>2. q * y = IF x < 0 THEN -(m * p) ELSE m * p
    <3>1. CASE y > 0
      <4>1. m = y /\ p * y = m * p /\ (-p) * y = -(m * p)
        BY <1>3, <1>4, <3>1
      <4> QED BY <3>1, <4>1
    <3>2. CASE y < 0
      <4>1. m = -y /\ y = -m /\ p * (-m) = -(m * p) /\ (-p) * (-m) = m * p
        BY <1>1, <1>3, <1>4, <3>2
      <4> QED BY <3>2, <4>1
    <3> QED BY <3>1, <3>2
  <2> HIDE DEF q
  <2>3. m * p \in Int
    BY <1>1, <1>4
  <2>4. x = q * y + Rem(x, y)
    BY <1>3, <1>4, <1>5, <2>2, <2>3
  <2> QED BY <2>1, <2>4
<1> QED BY <1>6, <1>7, <1>8 DEF u, m

LEMMA RemaindersGive ==
  ASSUME NEW a, NEW b, NEW ty \in {"int", "uint"}, Integer(a, ty), Integer(b, ty),
         binary_op(a, "%", b) # crashed
  PROVE  LET r == binary_op(a, "%", b)
         IN /\ Abs(r.n) < Abs(b.n)
            /\ r.n = 0 \/ Sign(r.n) = Sign(a.n)
            /\ \E q \in -Mod .. Mod : a.n = q * b.n + r.n
<1> DEFINE x == a.n
           y == b.n
           r == binary_op(a, "%", b)
<1>1. Half \in Nat \ {0} /\ Mod \in Nat \ {0} /\ Mod = 2 * Half
  BY Halves
<1>2. CASE ty = "int"
  <2>1. x \in -Half .. Half - 1 /\ y \in -Half .. Half - 1 /\ x \in Int /\ y \in Int
    BY <1>2, Fits
  <2>2. y # 0 /\ r = vint(Rem(x, y))
    BY <1>2, SignedGives
  <2> HIDE DEF x, y
  <2>3. /\ Rem(x, y) \in Int /\ Abs(Rem(x, y)) < Abs(y)
        /\ Rem(x, y) = 0 \/ Sign(Rem(x, y)) = Sign(x)
        /\ \E q \in -Abs(x) .. Abs(x) : x = q * y + Rem(x, y)
    BY <2>1, <2>2, RemainderOfC
  <2>4. Rem(x, y) \in -Half .. Half - 1
    BY <1>1, <2>1, <2>3 DEF Abs
  <2>5. r.n = Rem(x, y)
    BY <2>2, <2>4, Wraps, Makes
  <2>6. -Abs(x) .. Abs(x) \subseteq -Mod .. Mod
    BY <1>1, <2>1 DEF Abs
  <2> HIDE DEF r
  <2> QED BY <2>3, <2>5, <2>6 DEF r, x, y
<1>3. CASE ty = "uint"
  <2>1. x \in 0 .. Mod - 1 /\ y \in 0 .. Mod - 1 /\ x \in Int /\ y \in Int
    BY <1>3, Fits
  <2>2. y # 0 /\ r = vuint(x % y)
    BY <1>3, UnsignedGives
  <2> HIDE DEF x, y
  <2> DEFINE z == x % y
             p == x \div y
  <2>3. z \in 0 .. y - 1 /\ p \in 0 .. x /\ x = y * p + z
    <3>1. x \in Nat /\ y \in Nat \ {0}
      BY <1>1, <2>1, <2>2
    <3> QED BY <3>1, Division
  <2>4. r.n = z % Mod
    BY <2>2 DEF vuint
  <2> HIDE DEF z, p, r
  <2>5. z % Mod = z
    <3>1. z \in 0 .. Mod - 1 /\ Mod * 0 + z = z
      BY <1>1, <2>1, <2>3
    <3> QED BY <1>1, <3>1, Remainder
  <2>6. Abs(z) < Abs(y) /\ (z = 0 \/ Sign(z) = Sign(x))
    <3>1. z > 0 => x > 0
      <4>1. y * p \in Nat
        BY <2>1, <2>3
      <4> QED BY <2>3, <4>1
    <3> QED BY <2>1, <2>3, <3>1 DEF Abs, Sign
  <2>7. p \in -Mod .. Mod /\ x = p * y + z
    BY <1>1, <2>1, <2>3
  <2> QED BY <2>4, <2>5, <2>6, <2>7 DEF r, x, y
<1> QED BY <1>2, <1>3

\* != negates == of anything but two lists.
LEMMA Negates ==
  ASSUME NEW a, NEW b, IsValue(a), IsValue(b), Finite(a), Finite(b), a.ty # "list"
  PROVE  Holds(binary_op(a, "!=", b)) = ~Holds(binary_op(a, "==", b))
<1>1. \A p : (Holds(vbool(p)) <=> p = TRUE) /\ (p \in BOOLEAN => (Holds(vbool(p)) <=> p))
  BY DEF Holds, vbool
<1>2. \A op \in {"==", "!="} : op \notin Logical /\ binary_op(a, op, b) = binary_op_items(a, op, b)
  BY DEF binary_op, Logical
<1>3. CASE a.ty \in Blank /\ b.ty \in Blank
  <2>1. /\ binary_op_items(a, "!=", b) = vbool((a.ty = b.ty) = ("!=" = "=="))
        /\ binary_op_items(a, "==", b) = vbool((a.ty = b.ty) = ("==" = "=="))
    BY <1>3 DEF binary_op_items, Blank, Numeric, Logical
  <2> QED BY <1>2, <2>1 DEF Holds, vbool
<1>4. CASE a.ty \in Numeric /\ b.ty \in Numeric
  <2>1. Number(a) /\ Number(b)
    BY <1>4 DEF Number, IsValue, Numeric
  <2>2. \A op \in {"==", "!="} : binary_op_items(a, op, b) = OnNumbers(op, a, b)
    BY <1>4 DEF binary_op_items, Blank, Numeric, Logical
  <2>3. PICK x, y \in Int : \A op \in Comparisons : Compares(op, a, b, x, y)
    BY <2>1, NumbersCompare
  <2>4. OnNumbers("==", a, b) = vbool(Compare("==", x < y, x = y))
    BY <2>3 DEF Compares, Comparisons
  <2>5. OnNumbers("!=", a, b) = vbool(Compare("!=", x < y, x = y))
    BY <2>3 DEF Compares, Comparisons
  <2>6. (Compare("==", x < y, x = y) <=> x = y) /\ (Compare("!=", x < y, x = y) <=> ~(x = y))
    BY DEF Compare
  <2>7. Holds(OnNumbers("==", a, b)) <=> x = y
    BY <2>4, <2>6 DEF Holds, vbool
  <2>8. Holds(OnNumbers("!=", a, b)) <=> ~(x = y)
    BY <2>5, <2>6 DEF Holds, vbool
  <2> QED BY <1>2, <2>2, <2>7, <2>8 DEF Holds
<1>5. CASE ~(a.ty \in Blank /\ b.ty \in Blank) /\ ~(a.ty \in Numeric /\ b.ty \in Numeric)
  <2> DEFINE e == IF a.ty = "string" /\ b.ty = "string" THEN a.s = b.s ELSE Same(a, b)
  <2>1. \A op \in {"==", "!="} : binary_op_items(a, op, b) = OnOthers(op, a, b)
    BY <1>5 DEF binary_op_items, Logical
  <2>2. OnOthers("==", a, b) = vbool(e) /\ OnOthers("!=", a, b) = vbool(~e)
    BY DEF OnOthers
  <2>3. e \in BOOLEAN
    BY DEF Same
  <2> HIDE DEF e
  <2> QED BY <1>2, <2>1, <2>2, <2>3 DEF Holds, vbool
<1> QED BY <1>3, <1>4, <1>5

\* Integers of every width wrap round, and the remainder is the one of C; == and != are
\* opposites for everything but a list (binary_op in mila.c).
THEOREM ArithmeticInverts == OperatorSpec => []OperatorsInvert
<1>1. IsValue(acc) => ArithmeticWraps
  <2> SUFFICES ASSUME IsValue(acc), NEW v \in Given, acc.ty \in {"int", "uint"}, v.ty = acc.ty
               PROVE  /\ binary_op(binary_op(acc, "+", v), "-", v) = acc
                      /\ binary_op(binary_op(acc, "-", v), "+", v) = acc
                      /\ LET r == binary_op(acc, "%", v)
                         IN r # crashed => /\ Abs(r.n) < Abs(v.n)
                                           /\ r.n = 0 \/ Sign(r.n) = Sign(acc.n)
                                           /\ \E q \in -Mod .. Mod : acc.n = q * v.n + r.n
    BY DEF ArithmeticWraps
  <2>1. Integer(acc, acc.ty) /\ Integer(v, acc.ty)
    BY GivenAreValues DEF Integer, IsValue
  <2> QED BY <2>1, TakenAway, RemaindersGive
<1>2. IsValue(acc) => NotEqualIsNotExceptLists
  <2> SUFFICES ASSUME IsValue(acc), acc.ty # "list", NEW v \in Given, Usable(acc)
               PROVE  Holds(binary_op(acc, "!=", v)) = ~Holds(binary_op(acc, "==", v))
    BY DEF NotEqualIsNotExceptLists, NotEqualIsNot
  <2>1. IsValue(v) /\ Finite(v) /\ Finite(acc)
    BY GivenAreValues DEF Usable, Finite
  <2> QED BY <2>1, Negates
<1> QED BY <1>1, <1>2, OperatorsKeep, PTL DEF OperatorsInvert

-----------------------------------------------------------------------------
(* The parameters and the arguments that there are.                          *)

CallsInv ==
  /\ params \in Seq([name : Range(ParamNames), default : BOOLEAN, rest : BOOLEAN])
  /\ Len(params) =< Len(ParamNames)
  /\ \A i \in DOMAIN params : params[i].name = ParamNames[i]
  /\ argc \in Nat /\ outer \in Outers

LEMMA CallsKeep == CallsSpec => []CallsInv
<1>1. CallsInit => CallsInv
  BY CallConstants DEF CallsInit, CallsInv
<1>2. CallsInv /\ [CallsNext]_call_vars => CallsInv'
  <2> SUFFICES ASSUME CallsInv, [CallsNext]_call_vars PROVE CallsInv'
    OBVIOUS
  <2>1. CASE parse_param_list
    <3> DEFINE P == [name : Range(ParamNames), default : BOOLEAN, rest : BOOLEAN]
               n == Len(params) + 1
    <3>1. PICK default \in BOOLEAN, rest \in BOOLEAN :
            params' = Append(params, [name |-> ParamNames[n], default |-> default, rest |-> rest])
      BY <2>1 DEF parse_param_list
    <3>2. /\ params \in Seq(P) /\ Len(params) \in Nat /\ Len(ParamNames) \in Nat
          /\ n \in 1 .. Len(ParamNames) /\ DOMAIN ParamNames = 1 .. Len(ParamNames)
          /\ UNCHANGED <<argc, outer>>
      BY <2>1, CallConstants DEF CallsInv, parse_param_list
    <3>3. ParamNames[n] \in Range(ParamNames)
      BY <3>2 DEF Range
    <3> DEFINE p == [name |-> ParamNames[n], default |-> default, rest |-> rest]
    <3>4. p \in P /\ p.name = ParamNames[n]
      BY <3>3
    <3> HIDE DEF P, p
    <3>5. /\ params' \in Seq(P) /\ Len(params') = n /\ DOMAIN params' = 1 .. n
          /\ \A i \in 1 .. n : params'[i] = IF i = n THEN p ELSE params[i]
      BY <3>1, <3>2, <3>4 DEF p
    <3>6. \A i \in DOMAIN params' : params'[i].name = ParamNames[i]
      BY <3>2, <3>4, <3>5 DEF CallsInv
    <3> QED BY <3>2, <3>5, <3>6 DEF CallsInv, P
  <2>2. CASE Give
    BY <2>2 DEF Give, CallsInv
  <2>3. CASE UNCHANGED call_vars
    BY <2>3 DEF call_vars, CallsInv
  <2> QED BY <2>1, <2>2, <2>3 DEF CallsNext
<1> QED BY <1>1, <1>2, PTL DEF CallsSpec

\* The parameters have different names.
LEMMA Slots ==
  ASSUME CallsInv
  PROVE  /\ Len(params) \in Nat /\ DOMAIN params = 1 .. Len(params) /\ argc \in Nat
         /\ \A i \in 1 .. Len(params) :
              /\ params[i].name \in NamesOf(params)
              /\ params[i].default \in BOOLEAN /\ params[i].rest \in BOOLEAN
         /\ \A i, j \in 1 .. Len(params) : params[i].name = params[j].name => i = j
         /\ \A n \in DOMAIN outer : outer[n] = "const" \/ outer[n] = "var"
<1>1. /\ Len(params) \in Nat /\ DOMAIN params = 1 .. Len(params) /\ argc \in Nat
      /\ \A i \in 1 .. Len(params) : params[i].default \in BOOLEAN /\ params[i].rest \in BOOLEAN
  <2> DEFINE P == [name : Range(ParamNames), default : BOOLEAN, rest : BOOLEAN]
  <2>1. \A p \in P : p.default \in BOOLEAN /\ p.rest \in BOOLEAN
    OBVIOUS
  <2>2. params \in Seq(P) /\ argc \in Nat
    BY DEF CallsInv
  <2> HIDE DEF P
  <2> QED BY <2>1, <2>2
<1>2. \A i \in 1 .. Len(params) : i \in DOMAIN ParamNames /\ params[i].name = ParamNames[i]
  BY <1>1, CallConstants DEF CallsInv
<1>3. \A i, j \in 1 .. Len(params) : params[i].name = params[j].name => i = j
  BY <1>2, CallConstants
<1>4. \A n \in DOMAIN outer : outer[n] = "const" \/ outer[n] = "var"
  BY CallConstants DEF CallsInv
<1> QED BY <1>1, <1>3, <1>4 DEF NamesOf

-----------------------------------------------------------------------------
(* What a call may make of its Envs.                                         *)

Bindable == {Arg(i) : i \in 1 .. Len(params)} \cup {Default(i) : i \in 1 .. Len(params)}
Frames == UNION {[S -> Bindable] : S \in SUBSET NamesOf(params)}
Envs == [frame : Frames, written : Frames]

LEMMA Stores ==
  ASSUME NEW f \in Frames, NEW x \in NamesOf(params), NEW y \in Bindable
  PROVE  Stored(f, x, y) \in Frames
<1>1. PICK S \in SUBSET NamesOf(params) : f \in [S -> Bindable]
  BY DEF Frames
<1>2. Stored(f, x, y) \in [S \cup {x} -> Bindable] /\ S \cup {x} \in SUBSET NamesOf(params)
  BY <1>1 DEF Stored
<1> QED BY <1>2 DEF Frames

LEMMA Sets ==
  ASSUME NEW e \in Envs, NEW x \in NamesOf(params), NEW y \in Bindable
  PROVE  /\ env_set_local_raw(e, x, y) \in Envs
         /\ env_set_local_raw(e, x, y) = [frame |-> Stored(e.frame, x, y), written |-> e.written]
         /\ env_set_raw(e, x, y) \in Envs
         /\ \/ env_set_raw(e, x, y) = env_set_local_raw(e, x, y)
            \/ env_set_raw(e, x, y) = e /\ x \in DOMAIN outer
            \/ /\ env_set_raw(e, x, y) = [frame |-> e.frame, written |-> Stored(e.written, x, y)]
               /\ x \in DOMAIN outer /\ outer[x] # "const"
<1>1. /\ e.frame \in Frames /\ e.written \in Frames /\ e = [frame |-> e.frame, written |-> e.written]
  BY DEF Envs
<1>2. Stored(e.frame, x, y) \in Frames /\ Stored(e.written, x, y) \in Frames
  BY <1>1, Stores
<1>3. /\ env_set_local_raw(e, x, y) = [frame |-> Stored(e.frame, x, y), written |-> e.written]
      /\ env_set_local_raw(e, x, y) \in Envs
  BY <1>1, <1>2 DEF env_set_local_raw, Envs
<1>4. [e EXCEPT !.written = Stored(@, x, y)] = [frame |-> e.frame, written |-> Stored(e.written, x, y)]
  BY <1>1
<1>5. [frame |-> e.frame, written |-> Stored(e.written, x, y)] \in Envs
  BY <1>1, <1>2 DEF Envs
<1> HIDE DEF Envs
<1> QED BY <1>3, <1>4, <1>5 DEF env_set_raw

LEMMA Empties == NoEnv \in Envs /\ NoEnv.written = <<>> /\ DOMAIN NoEnv.written = {}
<1>1. <<>> \in [{} -> Bindable]
  OBVIOUS
<1>2. <<>> \in Frames
  BY <1>1 DEF Frames
<1> QED BY <1>2 DEF NoEnv, Envs

LEMMA BoundIs ==
  ASSUME CallsInv
  PROVE  /\ Bound[0] = NoEnv
         /\ \A i \in 0 .. Len(params) : Bound[i] \in Envs
         /\ \A i \in 1 .. Len(params) : Bound[i] = env_set_local_raw(Bound[i - 1], params[i].name, Arg(i))
<1> DEFINE n == Len(params)
           NextEnv(e, i) == env_set_local_raw(e, params[i].name, Arg(i))
           F == [i \in 1 .. n |-> [e \in Envs |-> NextEnv(e, i)]]
           Rec(h) == h = [i \in 0 .. n |-> IF i = 0 THEN NoEnv ELSE NextEnv(h[i - 1], i)]
<1>1. n \in Nat /\ NoEnv \in Envs
  BY Slots, Empties
<1>2. \A i \in 1 .. n, e \in Envs : NextEnv(e, i) \in Envs
  BY Slots, Sets DEF Bindable
<1> HIDE DEF n, NextEnv
<1>3. F \in [1 .. n -> [Envs -> Envs]]
  BY <1>2
<1>4. PICK f : Loop(f, Envs, n, NoEnv, F)
  <2> HIDE DEF F
  <2> QED BY <1>1, <1>3, Loops
<1>5. f \in [0 .. n -> Envs] /\ f[0] = NoEnv /\ \A i \in 1 .. n : f[i] = F[i][f[i - 1]]
  <2> HIDE DEF F
  <2> QED BY <1>4 DEF Loop
<1>6. \A i \in 1 .. n : f[i - 1] \in Envs /\ f[i] = NextEnv(f[i - 1], i)
  <2> TAKE i \in 1 .. n
  <2>1. i - 1 \in 0 .. n
    BY <1>1
  <2> QED BY <1>5, <2>1
<1>7. Rec(f)
  <2>1. \A i \in 0 .. n : f[i] = IF i = 0 THEN NoEnv ELSE NextEnv(f[i - 1], i)
    BY <1>1, <1>5, <1>6
  <2> QED BY <1>5, <2>1
<1>8. Bound = CHOOSE h : Rec(h)
  BY DEF Bound, n, NextEnv
<1>9. Rec(Bound)
  <2> HIDE DEF Rec
  <2> QED BY <1>7, <1>8
<1>10. /\ DOMAIN Bound = 0 .. n
       /\ \A i \in 0 .. n : Bound[i] = IF i = 0 THEN NoEnv ELSE NextEnv(Bound[i - 1], i)
  BY <1>9
<1>11. Bound[0] = NoEnv /\ \A i \in 1 .. n : Bound[i] = NextEnv(Bound[i - 1], i)
  BY <1>1, <1>10
<1> DEFINE Bad == {i \in 0 .. n : Bound[i] \notin Envs}
<1>12. Bad = {}
  <2>1. Bad \in SUBSET (0 .. n) /\ 0 \notin Bad
    BY <1>1, <1>11
  <2>2. ASSUME NEW i \in 1 .. n, i - 1 \notin Bad PROVE i \notin Bad
    <3>1. i - 1 \in 0 .. n
      BY <1>1
    <3> QED BY <1>2, <1>11, <2>2, <3>1
  <2> HIDE DEF Bad
  <2> QED BY <1>1, <2>1, <2>2, NoFirst
<1> QED BY <1>11, <1>12 DEF n, NextEnv

LEMMA DefaultsAre ==
  ASSUME CallsInv, NEW e \in Envs, NEW i \in 1 .. Len(params)
  PROVE  LET last == Min({j \in i .. Len(params) : ~params[j].default} \cup {Len(params) + 1}) - 1
         IN \E S \in [0 .. Len(params) -> Envs] :
              /\ Defaults(e, i) = S[last] /\ S[i - 1] = e
              /\ \A j \in i .. Len(params) : S[j] = env_set_raw(S[j - 1], params[j].name, Default(j))
<1> DEFINE n == Len(params)
           last == Min({j \in i .. n : ~params[j].default} \cup {n + 1}) - 1
           NextEnv(x, j) == IF j < i THEN e ELSE env_set_raw(x, params[j].name, Default(j))
           F == [j \in 1 .. n |-> [x \in Envs |-> NextEnv(x, j)]]
           Rec(h) == h = [j \in 0 .. n |-> IF j < i THEN e ELSE env_set_raw(h[j - 1], params[j].name, Default(j))]
<1>1. n \in Nat /\ i \in 1 .. n
  BY Slots
<1>2. \A j \in 1 .. n, x \in Envs : NextEnv(x, j) \in Envs
  BY Slots, Sets DEF Bindable
<1>3. Defaults(e, i) = (CHOOSE h : Rec(h))[last]
  BY DEF Defaults
<1> HIDE DEF last
<1> HIDE DEF n
<1>4. F \in [1 .. n -> [Envs -> Envs]]
  <2> HIDE DEF NextEnv
  <2> QED BY <1>2
<1>5. PICK f : Loop(f, Envs, n, e, F)
  <2> HIDE DEF F
  <2> QED BY <1>1, <1>4, Loops
<1>6. f \in [0 .. n -> Envs] /\ f[0] = e /\ \A j \in 1 .. n : f[j] = F[j][f[j - 1]]
  <2> HIDE DEF F
  <2> QED BY <1>5 DEF Loop
<1>7. \A j \in 1 .. n : f[j - 1] \in Envs /\ f[j] = NextEnv(f[j - 1], j)
  <2> TAKE j \in 1 .. n
  <2>1. j - 1 \in 0 .. n
    BY <1>1
  <2> HIDE DEF NextEnv
  <2> QED BY <1>6, <2>1
<1>8. Rec(f)
  <2>1. \A j \in 0 .. n : f[j] = IF j < i THEN e ELSE env_set_raw(f[j - 1], params[j].name, Default(j))
    BY <1>1, <1>6, <1>7
  <2> QED BY <1>6, <2>1
<1> DEFINE S == CHOOSE h : Rec(h)
<1>9. Rec(S)
  <2> HIDE DEF Rec
  <2> QED BY <1>8
<1> HIDE DEF S
<1>10. /\ DOMAIN S = 0 .. n /\ S = [j \in 0 .. n |-> S[j]]
       /\ \A j \in 0 .. n : S[j] = IF j < i THEN e ELSE env_set_raw(S[j - 1], params[j].name, Default(j))
  BY <1>9
<1>11. /\ S[0] = e /\ S[i - 1] = e /\ \A j \in 1 .. n : S[j] = NextEnv(S[j - 1], j)
       /\ \A j \in i .. n : S[j] = env_set_raw(S[j - 1], params[j].name, Default(j))
  BY <1>1, <1>10
<1> DEFINE Bad == {j \in 0 .. n : S[j] \notin Envs}
<1>12. Bad = {}
  <2>1. Bad \in SUBSET (0 .. n) /\ 0 \notin Bad
    BY <1>1, <1>11
  <2>2. ASSUME NEW j \in 1 .. n, j - 1 \notin Bad PROVE j \notin Bad
    <3>1. j - 1 \in 0 .. n
      BY <1>1
    <3> HIDE DEF NextEnv
    <3> QED BY <1>2, <1>11, <2>2, <3>1
  <2> HIDE DEF Bad
  <2> QED BY <1>1, <2>1, <2>2, NoFirst
<1>13. S \in [0 .. n -> Envs]
  BY <1>10, <1>12
<1>14. Defaults(e, i) = S[last]
  BY <1>3 DEF S
<1> QED BY <1>11, <1>13, <1>14 DEF n, last

-----------------------------------------------------------------------------
(* What is bound.                                                            *)

\* The first i parameters have their arguments.
Has(f, i) == \A j \in 1 .. i : params[j].name \in DOMAIN f /\ f[params[j].name] = Arg(j)

LEMMA ArgumentsHad ==
  ASSUME CallsInv
  PROVE  \A i \in 0 .. Len(params) : Has(Bound[i].frame, i) /\ Bound[i].written = <<>>
<1> DEFINE n == Len(params)
           Good(i) == Has(Bound[i].frame, i) /\ Bound[i].written = <<>>
           Bad == {i \in 0 .. n : ~Good(i)}
<1>1. n \in Nat
  BY Slots
<1>2. Good(0)
  BY BoundIs, Empties DEF Has
<1>3. ASSUME NEW i \in 1 .. n, Good(i - 1) PROVE Good(i)
  <2> DEFINE e == Bound[i - 1]
             x == params[i].name
  <2>1. i - 1 \in 0 .. n /\ i \in 0 .. n
    BY <1>1
  <2>2. e \in Envs /\ Bound[i] = env_set_local_raw(e, x, Arg(i))
    BY <2>1, BoundIs
  <2>3. x \in NamesOf(params) /\ Arg(i) \in Bindable
    BY Slots DEF Bindable
  <2>4. Bound[i].frame = Stored(e.frame, x, Arg(i)) /\ Bound[i].written = e.written
    <3> HIDE DEF e, x
    <3>1. env_set_local_raw(e, x, Arg(i)) = [frame |-> Stored(e.frame, x, Arg(i)), written |-> e.written]
      BY <2>2, <2>3, Sets
    <3> QED BY <2>2, <3>1
  <2>5. ASSUME NEW j \in 1 .. i
        PROVE  /\ params[j].name \in DOMAIN Bound[i].frame
               /\ Bound[i].frame[params[j].name] = Arg(j)
    <3>1. CASE j = i
      BY <2>4, <3>1 DEF Stored
    <3>2. CASE j # i
      <4>1. j \in 1 .. i - 1 /\ j \in 1 .. n
        BY <1>1, <3>2
      <4>2. params[j].name # x
        BY <3>2, <4>1, Slots
      <4>3. params[j].name \in DOMAIN e.frame /\ e.frame[params[j].name] = Arg(j)
        BY <1>3, <4>1 DEF Has
      <4> HIDE DEF e, x
      <4> QED BY <2>4, <4>2, <4>3 DEF Stored
    <3> QED BY <3>1, <3>2
  <2> QED BY <1>3, <2>4, <2>5 DEF Has
<1>4. Bad = {}
  <2>1. Bad \in SUBSET (0 .. n) /\ 0 \notin Bad
    BY <1>2
  <2>2. ASSUME NEW i \in 1 .. n, i - 1 \notin Bad PROVE i \notin Bad
    <3>1. i - 1 \in 0 .. n
      BY <1>1
    <3> HIDE DEF Good
    <3> QED BY <1>3, <2>2, <3>1
  <2> HIDE DEF Bad
  <2> QED BY <1>1, <2>1, <2>2, NoFirst
<1> QED BY <1>4

\* Defaults take no argument away, and write only to variables of the caller.
LEMMA DefaultsKeep ==
  ASSUME CallsInv, NEW i \in 1 .. Len(params), NEW e \in Envs, Has(e.frame, i - 1), e.written = <<>>
  PROVE  LET d == Defaults(e, i)
         IN /\ Has(d.frame, i - 1) /\ d \in Envs
            /\ \A x \in DOMAIN d.written :
                 /\ outer[x] = "var"
                 /\ \E j \in i .. Len(params) : params[j].name = x /\ params[j].default
            /\ i = Len(params) /\ params[i].default /\ params[i].name \notin DOMAIN outer =>
                 params[i].name \in DOMAIN d.frame /\ d.frame[params[i].name] = Default(i)
<1> DEFINE n == Len(params)
           Stop == {j \in i .. n : ~params[j].default} \cup {n + 1}
           last == Min(Stop) - 1
<1>1. n \in Nat /\ i \in 1 .. n
  BY Slots
<1>2. last \in i - 1 .. n /\ \A j \in i .. last : params[j].default
  <2> DEFINE m == Min(Stop)
  <2>1. Stop \in SUBSET Nat /\ Stop # {}
    BY <1>1
  <2> HIDE DEF Stop
  <2>2. m \in Stop /\ \A j \in Stop : m =< j
    BY <2>1, MinIsIn
  <2> HIDE DEF m
  <2>3. m \in i .. n + 1
    BY <1>1, <2>2 DEF Stop
  <2>4. ASSUME NEW j \in i .. m - 1 PROVE params[j].default
    <3>1. j \in i .. n /\ ~(m =< j)
      BY <1>1, <2>3
    <3> QED BY <2>2, <3>1 DEF Stop
  <2> QED BY <1>1, <2>3, <2>4 DEF m
<1>3. PICK S \in [0 .. n -> Envs] :
        /\ Defaults(e, i) = S[last] /\ S[i - 1] = e
        /\ \A j \in i .. n : S[j] = env_set_raw(S[j - 1], params[j].name, Default(j))
  BY DefaultsAre
<1> HIDE DEF last
<1> DEFINE Good(j) == /\ Has(S[j].frame, i - 1)
                      /\ \A x \in DOMAIN S[j].written :
                           outer[x] = "var" /\ \E k \in i .. j : params[k].name = x
                      /\ j = i /\ params[i].name \notin DOMAIN outer =>
                           /\ params[i].name \in DOMAIN S[j].frame
                           /\ S[j].frame[params[i].name] = Default(i)
<1>4. Good(i - 1)
  <2>1. DOMAIN e.written = {}
    OBVIOUS
  <2> QED BY <1>1, <1>3, <2>1
<1>5. ASSUME NEW j \in i .. n, Good(j - 1) PROVE Good(j)
  <2> DEFINE a == S[j - 1]
             b == S[j]
             x == params[j].name
             v == Default(j)
  <2>1. j - 1 \in 0 .. n /\ j \in 1 .. n /\ j \in 0 .. n
    BY <1>1
  <2>2. a \in Envs /\ b = env_set_raw(a, x, v) /\ x \in NamesOf(params) /\ v \in Bindable
    BY <1>3, <2>1, Slots DEF Bindable
  <2>3. \A k \in 1 .. i - 1 : params[k].name # x
    <3>1. \A k \in 1 .. i - 1 : k \in 1 .. n /\ k # j
      BY <1>1
    <3> QED BY <2>1, <3>1, Slots
  <2>4. Has(a.frame, i - 1)
    BY <1>5
  <2>5. \A y \in DOMAIN a.written : outer[y] = "var" /\ \E k \in i .. j : params[k].name = y
    <3>1. i .. j - 1 \subseteq i .. j
      BY <1>1
    <3> QED BY <1>5, <3>1
  <2>6. j \in i .. j /\ params[j].name = x
    BY <1>1
  <2> HIDE DEF a, b, x, v
  <2>7. Has(Stored(a.frame, x, v), i - 1)
    BY <2>3, <2>4 DEF Has, Stored
  <2>8. \/ b = [frame |-> Stored(a.frame, x, v), written |-> a.written]
        \/ b = a /\ x \in DOMAIN outer
        \/ /\ b = [frame |-> a.frame, written |-> Stored(a.written, x, v)]
           /\ x \in DOMAIN outer /\ outer[x] # "const"
    BY <2>2, Sets
  <2>9. CASE b = [frame |-> Stored(a.frame, x, v), written |-> a.written]
    <3>1. b.frame = Stored(a.frame, x, v) /\ b.written = a.written
      BY <2>9
    <3>2. x \in DOMAIN b.frame /\ b.frame[x] = v
      BY <3>1 DEF Stored
    <3>3. j = i => params[i].name = x /\ v = Default(i)
      BY DEF x, v
    <3> QED BY <2>5, <2>7, <3>1, <3>2, <3>3 DEF b
  <2>10. CASE b = a /\ x \in DOMAIN outer
    <3>1. j = i => params[i].name \in DOMAIN outer
      BY <2>10 DEF x
    <3> QED BY <2>4, <2>5, <2>10, <3>1 DEF b
  <2>11. CASE /\ b = [frame |-> a.frame, written |-> Stored(a.written, x, v)]
              /\ x \in DOMAIN outer /\ outer[x] # "const"
    <3>1. b.frame = a.frame /\ b.written = Stored(a.written, x, v)
      BY <2>11
    <3>2. outer[x] = "var"
      BY <2>11, Slots
    <3>3. DOMAIN b.written = DOMAIN a.written \cup {x}
      BY <3>1 DEF Stored
    <3>4. \A y \in DOMAIN b.written : outer[y] = "var" /\ \E k \in i .. j : params[k].name = y
      BY <2>5, <2>6, <3>2, <3>3
    <3>5. j = i => params[i].name \in DOMAIN outer
      BY <2>11 DEF x
    <3> QED BY <2>4, <3>1, <3>4, <3>5 DEF b
  <2> QED BY <2>8, <2>9, <2>10, <2>11
<1> DEFINE Bad == {j \in 0 .. n : j >= i - 1 /\ ~Good(j)}
<1>6. Bad = {}
  <2>1. Bad \in SUBSET (0 .. n) /\ 0 \notin Bad
    <3>1. 0 >= i - 1 => i - 1 = 0
      BY <1>1
    <3> HIDE DEF Good
    <3> QED BY <1>4, <3>1
  <2>2. ASSUME NEW j \in 1 .. n, j - 1 \notin Bad PROVE j \notin Bad
    <3>1. CASE j < i
      <4>1. j >= i - 1 => j = i - 1
        BY <1>1, <3>1
      <4> HIDE DEF Good
      <4> QED BY <1>4, <4>1
    <3>2. CASE j >= i
      <4>1. j - 1 \in 0 .. n /\ j - 1 >= i - 1 /\ j \in i .. n
        BY <1>1, <3>2
      <4> HIDE DEF Good
      <4> QED BY <1>5, <2>2, <4>1
    <3> QED BY <1>1, <3>1, <3>2
  <2> HIDE DEF Bad
  <2> QED BY <1>1, <2>1, <2>2, NoFirst
<1>7. Good(last)
  <2>1. last \in 0 .. n /\ last >= i - 1
    BY <1>1, <1>2
  <2> HIDE DEF Good
  <2> QED BY <1>6, <2>1
<1>8. i = n /\ params[i].default => last = i
  <2> SUFFICES ASSUME i = n, params[i].default PROVE last = i
    OBVIOUS
  <2>1. Stop = {n + 1}
    BY <1>1
  <2>2. Min(Stop) = n + 1
    <3>1. Min(Stop) \in Stop
      <4>1. Stop \in SUBSET Nat /\ Stop # {}
        BY <1>1, <2>1
      <4> HIDE DEF Stop
      <4> QED BY <4>1, MinIsIn
    <3> QED BY <2>1, <3>1
  <2> QED BY <1>1, <2>2 DEF last
<1>9. S[last] \in Envs
  BY <1>1, <1>2, <1>3
<1>10. \A k \in i .. last : k \in i .. n /\ params[k].default
  BY <1>1, <1>2
<1> HIDE DEF n
<1> QED BY <1>3, <1>7, <1>8, <1>9, <1>10 DEF n

LEMMA Ordinaries ==
  ASSUME CallsInv
  PROVE  /\ Ordinary \in 0 .. Len(params) /\ Ordinary =< argc
         /\ \A i \in 1 .. Ordinary : ~params[i].rest
         /\ Ordinary < Len(params) => Ordinary + 1 > argc \/ params[Ordinary + 1].rest
<1> DEFINE n == Len(params)
           Stop == {i \in DOMAIN params : i > argc \/ params[i].rest} \cup {n + 1}
           m == Min(Stop)
<1>1. n \in Nat /\ DOMAIN params = 1 .. n /\ argc \in Nat
  BY Slots
<1>2. Stop \in SUBSET Nat /\ Stop # {}
  BY <1>1
<1>3. Ordinary = m - 1
  BY DEF Ordinary
<1> HIDE DEF Stop
<1>4. m \in Stop /\ \A i \in Stop : m =< i
  BY <1>2, MinIsIn
<1> HIDE DEF m
<1>5. m \in 1 .. n + 1 /\ (m =< n => m > argc \/ params[m].rest)
  BY <1>1, <1>4 DEF Stop
<1>6. ASSUME NEW i \in 1 .. m - 1 PROVE i =< argc /\ ~params[i].rest
  <2>1. i \in DOMAIN params /\ ~(m =< i)
    BY <1>1, <1>5
  <2> QED BY <1>1, <1>4, <2>1 DEF Stop
<1>7. m - 1 =< argc
  BY <1>1, <1>5, <1>6
<1> QED BY <1>1, <1>3, <1>5, <1>6, <1>7 DEF n

LEMMA FirstRests ==
  ASSUME CallsInv
  PROVE  /\ FirstRest \in 1 .. Len(params) + 1
         /\ FirstRest =< Len(params) => params[FirstRest].rest
         /\ \A i \in 1 .. Len(params) : params[i].rest => FirstRest =< i
<1> DEFINE n == Len(params)
           Stop == {i \in DOMAIN params : params[i].rest} \cup {n + 1}
           m == Min(Stop)
<1>1. n \in Nat /\ DOMAIN params = 1 .. n
  BY Slots
<1>2. Stop \in SUBSET Nat /\ Stop # {}
  BY <1>1
<1>3. FirstRest = m
  BY DEF FirstRest
<1> HIDE DEF Stop
<1>4. m \in Stop /\ \A i \in Stop : m =< i
  BY <1>2, MinIsIn
<1> HIDE DEF m
<1> QED BY <1>1, <1>3, <1>4 DEF Stop, n

\* The call has two Envs: what NullBehind adds is behind what is bound.
LEMMA Nulls ==
  ASSUME CallsInv, NEW bound, bound.at \in 1 .. Len(params), NEW y,
         bound.env = [frame |-> bound.env.frame, written |-> bound.env.written],
         NEW i \in 1 .. Len(params), i < bound.at \/ bound.at = Len(params),
         params[i].name \in DOMAIN bound.env.frame, bound.env.frame[params[i].name] = y
  PROVE  NullBehind(bound).frame[params[i].name] = y
<1> DEFINE x == params[bound.at].name
<1>1. Len(params) \in Nat
  BY Slots
<1>2. CASE bound.at < Len(params)
  <2>1. NullBehind(bound).frame = Stored(bound.env.frame, x, null)
    <3>1. NullBehind(bound) = env_set_local_raw(bound.env, x, null)
      BY <1>2 DEF NullBehind
    <3>2. env_set_local_raw(bound.env, x, null).frame = Stored(bound.env.frame, x, null)
      BY DEF env_set_local_raw
    <3> QED BY <3>1, <3>2
  <2>2. params[i].name # x
    BY <1>1, <1>2, Slots
  <2> HIDE DEF x
  <2> QED BY <2>1, <2>2 DEF Stored
<1>3. CASE ~(bound.at < Len(params))
  BY <1>3 DEF NullBehind
<1> QED BY <1>2, <1>3

LEMMA NullsWriteNot ==
  ASSUME NEW bound, bound.env = [frame |-> bound.env.frame, written |-> bound.env.written]
  PROVE  NullBehind(bound).written = bound.env.written
<1>1. \A x : env_set_local_raw(bound.env, x, null).written = bound.env.written
  BY DEF env_set_local_raw
<1> QED BY <1>1 DEF NullBehind

LEMMA Binds ==
  ASSUME CallsInv
  PROVE  ArgumentsBound
<1> DEFINE n == Len(params)
           k == Ordinary
           i == k + 1
           e == Bound[k]
<1>1. /\ n \in Nat /\ argc \in Nat /\ k \in 0 .. n /\ k =< argc /\ DOMAIN params = 1 .. n
      /\ \A j \in 1 .. k : ~params[j].rest
      /\ k < n => i > argc \/ params[i].rest
  BY Slots, Ordinaries
<1>2. e \in Envs /\ Has(e.frame, k) /\ e.written = <<>>
  BY <1>1, BoundIs, ArgumentsHad
<1>3. \A x \in Envs : x = [frame |-> x.frame, written |-> x.written]
  BY DEF Envs
<1>4. FirstRest \in 1 .. n + 1 /\ (FirstRest =< n => params[FirstRest].rest)
  BY FirstRests
<1>5. k < FirstRest
  BY <1>1, <1>4
<1> DEFINE ForArgs == \A j \in 1 .. argc : j < FirstRest /\ j <= n => CallFrame[params[j].name] = Arg(j)
           ForRest == FirstRest = n /\ FirstRest <= argc => CallFrame[params[FirstRest].name] = RestFrom(FirstRest)
           ForLast == (n = argc + 1 /\ params[n].default /\ params[n].name \notin DOMAIN outer
                       /\ FirstRest >= n) => CallFrame[params[n].name] = Default(n)
           ForOuter == \A x \in DOMAIN call_function.written :
                         /\ outer[x] = "var"
                         /\ \E j \in argc + 1 .. n : params[j].name = x /\ params[j].default
<1>6. SUFFICES ForArgs /\ ForRest /\ ForLast /\ ForOuter
  BY DEF ArgumentsBound, ArgumentsInOrder, DefaultsUsed
<1>7. CASE i > n
  <2>1. k = n
    <3> HIDE DEF k, n
    <3> QED BY <1>1, <1>7
  <2>2. Bind = Stops(e, k)
    BY <1>1, <1>7 DEF Bind
  <2>3. call_function = e
    BY <1>1, <2>1, <2>2 DEF call_function, NullBehind, Stops
  <2>4. ForArgs
    BY <1>1, <1>2, <2>1, <2>3 DEF Has, CallFrame
  <2>5. ForRest /\ ForLast
    <3> DEFINE first == FirstRest
    <3> HIDE DEF first, n
    <3>1. n \in Nat /\ argc \in Nat /\ n =< argc /\ first \in 1 .. n + 1 /\ n < first
      BY <1>1, <1>4, <1>5, <2>1 DEF first
    <3>2. first # n /\ n # argc + 1
      BY <3>1
    <3> QED BY <3>2 DEF first
  <2>6. DOMAIN call_function.written = {}
    BY <1>2, <2>3
  <2> QED BY <2>4, <2>5, <2>6
<1>8. CASE i =< n /\ i > argc
  <2> DEFINE d == Defaults(e, i)
             bound == Stops(d, i)
  <2>1. k = argc /\ i \in 1 .. n /\ i - 1 = k
    BY <1>1, <1>8
  <2>2. Bind = bound
    BY <1>8, <2>1 DEF Bind
  <2>3. /\ Has(d.frame, k) /\ d \in Envs
        /\ \A x \in DOMAIN d.written :
             outer[x] = "var" /\ \E j \in i .. n : params[j].name = x /\ params[j].default
        /\ i = n /\ params[i].default /\ params[i].name \notin DOMAIN outer =>
             params[i].name \in DOMAIN d.frame /\ d.frame[params[i].name] = Default(i)
    BY <1>2, <2>1, DefaultsKeep
  <2>4. /\ bound.env = d /\ bound.at = i /\ d = [frame |-> d.frame, written |-> d.written]
        /\ call_function = NullBehind(bound)
    BY <1>3, <2>2, <2>3 DEF call_function, Stops
  <2> HIDE DEF bound, d
  <2>5. ForArgs
    <3> SUFFICES ASSUME NEW j \in 1 .. argc PROVE CallFrame[params[j].name] = Arg(j)
      OBVIOUS
    <3>1. j \in 1 .. n /\ j < bound.at /\ bound.at \in 1 .. n
      BY <1>1, <2>1, <2>4
    <3>2. params[j].name \in DOMAIN d.frame /\ d.frame[params[j].name] = Arg(j)
      BY <2>1, <2>3 DEF Has
    <3> QED BY <2>4, <3>1, <3>2, Nulls DEF CallFrame
  <2>6. ForRest
    BY <1>1, <1>4, <1>5, <2>1
  <2>7. ForLast
    <3> SUFFICES ASSUME n = argc + 1, params[n].default, params[n].name \notin DOMAIN outer
                 PROVE  CallFrame[params[n].name] = Default(n)
      OBVIOUS
    <3>1. i = n /\ bound.at = n /\ n \in 1 .. n
      BY <1>1, <2>1, <2>4
    <3>2. params[i].name \in DOMAIN d.frame /\ d.frame[params[i].name] = Default(i)
      BY <2>3, <3>1
    <3> QED BY <2>4, <3>1, <3>2, Nulls DEF CallFrame
  <2>8. ForOuter
    <3>1. call_function.written = d.written /\ i = argc + 1
      BY <2>1, <2>4, NullsWriteNot
    <3> QED BY <2>3, <3>1
  <2> QED BY <2>5, <2>6, <2>7, <2>8
<1>9. CASE i =< n /\ ~(i > argc)
  <2> DEFINE d == env_set_local_raw(e, params[i].name, RestFrom(i))
             bound == Stops(d, argc)
  <2>1. i \in 1 .. n /\ params[i].rest /\ i =< argc
    BY <1>1, <1>9
  <2>2. Bind = bound
    BY <1>1, <1>9 DEF Bind
  <2>3. d = [frame |-> Stored(e.frame, params[i].name, RestFrom(i)), written |-> e.written]
    BY <1>2, <1>3 DEF env_set_local_raw
  <2>4. FirstRest = i
    BY <1>1, <1>4, <1>5, <2>1, FirstRests
  <2>5. d.written = <<>> /\ d.frame = Stored(e.frame, params[i].name, RestFrom(i))
    BY <1>2, <2>3
  <2>6. bound.env = d /\ bound.at = argc /\ call_function = NullBehind(bound)
    BY <2>2 DEF call_function, Stops
  <2> HIDE DEF d, bound
  <2>7. ForArgs
    <3> SUFFICES ASSUME NEW j \in 1 .. argc, j < FirstRest, j =< n
                 PROVE  CallFrame[params[j].name] = Arg(j)
      OBVIOUS
    <3>1. j \in 1 .. k /\ j \in 1 .. n /\ j # i /\ j < argc
      BY <1>1, <2>1, <2>4
    <3>2. params[j].name # params[i].name
      BY <2>1, <3>1, Slots
    <3>3. params[j].name \in DOMAIN d.frame /\ d.frame[params[j].name] = Arg(j)
      BY <1>2, <2>5, <3>1, <3>2 DEF Has, Stored
    <3>4. CASE argc =< n
      <4>1. bound.at \in 1 .. n /\ j < bound.at
        BY <1>1, <2>6, <3>1, <3>4
      <4> QED BY <2>3, <2>5, <2>6, <3>1, <3>3, <4>1, Nulls DEF CallFrame
    <3>5. CASE ~(argc =< n)
      <4>1. call_function = d
        BY <1>1, <2>6, <3>5 DEF NullBehind
      <4> QED BY <3>3, <4>1 DEF CallFrame
    <3> QED BY <3>4, <3>5
  <2>8. ForRest
    <3> SUFFICES ASSUME FirstRest = n PROVE CallFrame[params[i].name] = RestFrom(i)
      BY <2>4
    <3>1. call_function = d
      BY <1>1, <2>1, <2>4, <2>6 DEF NullBehind
    <3> QED BY <2>5, <3>1 DEF CallFrame, Stored
  <2>9. ForLast
    <3> HIDE DEF k
    <3> QED BY <1>1, <2>1, <2>4
  <2>10. ForOuter
    <3>1. call_function.written = d.written
      BY <2>3, <2>5, <2>6, NullsWriteNot
    <3>2. DOMAIN call_function.written = {}
      BY <2>5, <3>1
    <3> QED BY <3>2
  <2> QED BY <2>7, <2>8, <2>9, <2>10
<1> HIDE DEF k, n, ForArgs, ForRest, ForLast, ForOuter
<1> QED BY <1>1, <1>7, <1>8, <1>9

\* Whatever the parameters and the arguments of a call are, each argument goes to its
\* parameter, and a call writes to its caller's variables only where a default is used
\* (call_function in mila.c).
THEOREM ArgumentsReachParameters == CallsSpec => []ArgumentsBound
<1>1. CallsInv => ArgumentsBound
  BY Binds
<1> QED BY <1>1, CallsKeep, PTL
=============================================================================

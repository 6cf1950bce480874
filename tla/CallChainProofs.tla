-------------------------- MODULE CallChainProofs ---------------------------
(***************************************************************************)
(* Proofs about CallChain, for any number of tasks, functions and frames,  *)
(* of the scripts that neither call a function that is running nor drop    *)
(* its last reference.  The invariant says, besides Linked, that a         *)
(* function appears once on all the stacks together: that is why no call   *)
(* moves the closure another call hangs from.                              *)
(***************************************************************************)
EXTENDS CallChain, SequenceTheorems, TLAPS

OnceOnly ==
  \A t, s \in Tasks : \A k \in 1 .. Height(t), l \in 1 .. Height(s) :
    stack[t][k] = stack[s][l] /\ stack[t][k] # Block => t = s /\ k = l

Inv ==
  /\ TypeOK
  /\ Linked
  /\ OnceOnly
  /\ parent[Global] = NoEnv
  /\ \A t \in Tasks : \A k \in 1 .. Height(t) : stack[t][k] # Block => stack[t][k] \in alive
  /\ StaysInOwnScopes

LEMMA StackFacts ==
  ASSUME TypeOK, NEW t \in Tasks
  PROVE  /\ Height(t) \in Nat
         /\ \A k \in 1 .. Height(t) : /\ stack[t][k] \in Funs \cup {Block}
                                      /\ <<t, k>> \in Frames
                                      /\ stack[t][k] # Block => Closure(stack[t][k]) \in Closures
BY ChainAssumption DEF TypeOK, Height, Frames, Closures, Closure

LEMMA InitInv == Init => Inv
BY EnvsDistinct, ChainAssumption
   DEF Init, Inv, TypeOK, Linked, OnceOnly, StaysInOwnScopes, Height, Envs

\* A new frame for x on the stack of t, linked by p.
LEMMA PushInv ==
  ASSUME Inv, NEW t \in Tasks, NEW x \in Funs \cup {Block}, NEW p,
         look[t] = Idle, Push(t, x, p),
         p \in [Envs -> Envs \cup {NoEnv}],
         x # Block => x \in alive /\ ~Running(x),
         \A e \in Envs : e # <<t, Height(t) + 1>> /\ (x = Block \/ e # Closure(x)) => p[e] = parent[e],
         IF x = Block THEN p[<<t, Height(t) + 1>>] = Here(t)
         ELSE p[<<t, Height(t) + 1>>] = Closure(x) /\ p[Closure(x)] = Here(t)
  PROVE  Inv'
<1> DEFINE h == Height(t)
<1>1. /\ h \in Nat /\ h < MaxFrames /\ h + 1 \in Nat /\ MaxFrames \in Nat
      /\ <<t, h + 1>> \in Frames
      /\ stack \in [Tasks -> Seq(Funs \cup {Block})] /\ TypeOK
  BY StackFacts, ChainAssumption DEF Inv, TypeOK, Push, Frames
<1>2. /\ parent' = p /\ UNCHANGED <<alive, look>>
      /\ stack' = [stack EXCEPT ![t] = Append(@, x)]
  BY DEF Push
<1>3. /\ \A s \in Tasks : s # t => stack'[s] = stack[s] /\ Height(s)' = Height(s)
      /\ stack'[t] = Append(stack[t], x) /\ Height(t)' = h + 1
      /\ \A k \in 1 .. h : stack'[t][k] = stack[t][k]
      /\ stack'[t][h + 1] = x
  BY <1>1, <1>2 DEF Height
<1>a. ASSUME NEW s \in Tasks, NEW k \in 1 .. Height(s)'
      PROVE  \/ s = t /\ k = h + 1
             \/ (k \in 1 .. Height(s) /\ stack'[s][k] = stack[s][k] /\ ~(s = t /\ k = h + 1))
  <2>1. CASE s # t
    BY <1>3, <2>1
  <2>2. CASE s = t
    <3>1. k \in 1 .. h + 1
      BY <1>3, <2>2
    <3>2. k = h + 1 \/ (k \in 1 .. h /\ k # h + 1)
      BY <1>1, <3>1
    <3> QED BY <1>3, <2>2, <3>2
  <2> QED BY <2>1, <2>2
<1>b. Here(t) = Below(t, h + 1)
  <2>1. h \in Nat
    BY <1>1
  <2>2. CASE h = 0
    BY <2>2 DEF Here, Below
  <2>3. CASE h # 0
    <3>1. h + 1 # 1 /\ h + 1 - 1 = h
      BY <2>1, <2>3
    <3> QED BY <2>1, <2>3, <3>1 DEF Here, Below
  <2> QED BY <2>2, <2>3
<1>4. TypeOK'
  <2>1. stack' \in [Tasks -> Seq(Funs \cup {Block})]
    BY <1>1, <1>2
  <2>2. \A s \in Tasks : Height(s)' <= MaxFrames
    BY <1>1, <1>3 DEF TypeOK
  <2> QED
    BY <1>1, <1>2, <2>1, <2>2 DEF TypeOK
<1>5. ASSUME NEW s \in Tasks, NEW k \in 1 .. Height(s)',
             stack'[s][k] # Block, stack'[s][k] = x
      PROVE  s = t /\ k = h + 1
  <2>1. CASE k \in 1 .. Height(s) /\ stack[s][k] = x
    BY <1>5, <2>1 DEF Running
  <2> QED BY <1>5, <1>a, <2>1
<1>6. Linked'
  <2> SUFFICES ASSUME NEW s \in Tasks, NEW k \in 1 .. Height(s)'
               PROVE  IF stack'[s][k] = Block THEN parent'[<<s, k>>] = Below(s, k)
                      ELSE /\ parent'[<<s, k>>] = Closure(stack'[s][k])
                           /\ parent'[Closure(stack'[s][k])] = Below(s, k)
    BY DEF Linked, Below, Base
  <2>1. CASE s = t /\ k = h + 1
    BY <1>2, <1>3, <1>b, <2>1
  <2>2. CASE ~(s = t /\ k = h + 1)
    <3>1. k \in 1 .. Height(s) /\ stack'[s][k] = stack[s][k]
      BY <1>a, <2>2
    <3>2. <<s, k>> \in Frames /\ <<s, k>> # <<t, h + 1>>
      BY <1>1, <2>2, <3>1, StackFacts
    <3>3. x # Block => <<s, k>> # Closure(x)
      BY <3>2, EnvsDistinct DEF Closures, Closure
    <3>4. parent'[<<s, k>>] = parent[<<s, k>>]
      BY <1>2, <3>2, <3>3 DEF Envs
    <3>5. CASE stack[s][k] = Block
      BY <3>1, <3>4, <3>5 DEF Inv, Linked
    <3>6. CASE stack[s][k] # Block
      <4>1. Closure(stack[s][k]) \in Closures /\ stack[s][k] # x
        BY <1>1, <1>5, <2>2, <3>1, <3>6, StackFacts
      <4>2. Closure(stack[s][k]) # <<t, h + 1>> /\ (x = Block \/ Closure(stack[s][k]) # Closure(x))
        BY <1>1, <4>1, EnvsDistinct DEF Closure
      <4>3. parent'[Closure(stack[s][k])] = parent[Closure(stack[s][k])]
        BY <1>2, <4>1, <4>2 DEF Envs
      <4> QED BY <3>1, <3>4, <3>6, <4>3 DEF Inv, Linked
    <3> QED BY <3>5, <3>6
  <2> QED BY <2>1, <2>2
<1>7. OnceOnly'
  <2> SUFFICES ASSUME NEW s \in Tasks, NEW r \in Tasks,
                      NEW k \in 1 .. Height(s)', NEW l \in 1 .. Height(r)',
                      stack'[s][k] = stack'[r][l], stack'[s][k] # Block
               PROVE  s = r /\ k = l
    BY DEF OnceOnly
  <2>1. CASE stack'[s][k] = x
    BY <1>5, <2>1
  <2>2. CASE stack'[s][k] # x
    <3>1. /\ k \in 1 .. Height(s) /\ stack'[s][k] = stack[s][k]
          /\ l \in 1 .. Height(r) /\ stack'[r][l] = stack[r][l]
      BY <1>3, <1>a, <2>2
    <3>2. stack[s][k] = stack[r][l] /\ stack[s][k] # Block
      BY <3>1
    <3> QED BY <3>1, <3>2 DEF Inv, OnceOnly
  <2> QED BY <2>1, <2>2
<1>8. parent'[Global] = NoEnv
  <2>1. Global # <<t, h + 1>> /\ (x # Block => Global # Closure(x))
    BY <1>1, EnvsDistinct DEF Closures, Closure
  <2> QED BY <1>2, <2>1 DEF Envs, Inv
<1>9. ASSUME NEW s \in Tasks, NEW k \in 1 .. Height(s)', stack'[s][k] # Block
      PROVE  stack'[s][k] \in alive'
  <2>1. CASE s = t /\ k = h + 1
    <3>1. stack'[s][k] = x /\ alive' = alive
      BY <1>2, <1>3, <2>1
    <3> QED BY <1>9, <3>1
  <2>2. CASE k \in 1 .. Height(s) /\ stack'[s][k] = stack[s][k]
    <3>1. stack[s][k] # Block /\ alive' = alive
      BY <1>2, <1>9, <2>2
    <3>2. stack[s][k] \in alive
      BY <2>2, <3>1 DEF Inv
    <3> QED BY <2>2, <3>1, <3>2
  <2> QED BY <1>a, <2>1, <2>2
<1>10. ASSUME NEW s \in Tasks, look'[s] \in Envs
       PROVE  Own(s, look[s])'
  <2>1. s # t /\ look[s] \in Envs
    BY <1>2, <1>10, EnvsDistinct
  <2> QED BY <1>2, <1>3, <2>1 DEF Inv, Own, Levels, StaysInOwnScopes
<1> QED
  BY <1>4, <1>6, <1>7, <1>8, <1>9, <1>10 DEF Inv, StaysInOwnScopes

LEMMA CallInv ==
  ASSUME Slips = {}, Inv, NEW t \in Tasks, NEW f \in Funs, Call(t, f)
  PROVE  Inv'
<1> DEFINE p == [parent EXCEPT ![Closure(f)] = Here(t), ![<<t, Height(t) + 1>>] = Closure(f)]
<1>1. look[t] = Idle /\ f \in alive /\ ~Running(f) /\ Push(t, f, p) /\ Height(t) < MaxFrames
  BY DEF Call, Push
<1>2. Height(t) \in Nat /\ <<t, Height(t) + 1>> \in Frames /\ Closure(f) \in Closures
  BY <1>1, StackFacts, ChainAssumption DEF Inv, Frames, Closures, Closure
<1>3. <<t, Height(t) + 1>> # Closure(f) /\ <<t, Height(t) + 1>> \in Envs /\ Closure(f) \in Envs
  BY <1>2, EnvsDistinct DEF Envs
<1>4. Here(t) \in Envs \cup {NoEnv}
  BY <1>2, StackFacts, ChainAssumption DEF Here, Base, Envs, Inv
<1>5. /\ p \in [Envs -> Envs \cup {NoEnv}]
      /\ p[<<t, Height(t) + 1>>] = Closure(f) /\ p[Closure(f)] = Here(t)
      /\ \A e \in Envs : e # <<t, Height(t) + 1>> /\ e # Closure(f) => p[e] = parent[e]
  BY <1>3, <1>4 DEF Inv, TypeOK
<1>6. f # Block
  BY ChainAssumption
<1> HIDE DEF p
<1> QED
  BY <1>1, <1>5, <1>6, PushInv

LEMMA BlockInv ==
  ASSUME Inv, NEW t \in Tasks, EnterBlock(t)
  PROVE  Inv'
<1> DEFINE p == [parent EXCEPT ![<<t, Height(t) + 1>>] = Here(t)]
<1>1. look[t] = Idle /\ Push(t, Block, p) /\ Height(t) < MaxFrames
  BY DEF EnterBlock, Push, Evaluating
<1>2. Height(t) \in Nat /\ <<t, Height(t) + 1>> \in Envs
  BY <1>1, StackFacts, ChainAssumption DEF Inv, Frames, Envs
<1>3. Here(t) \in Envs \cup {NoEnv}
  BY <1>2, StackFacts, ChainAssumption DEF Here, Base, Envs, Inv
<1>4. /\ p \in [Envs -> Envs \cup {NoEnv}]
      /\ p[<<t, Height(t) + 1>>] = Here(t)
      /\ \A e \in Envs : e # <<t, Height(t) + 1>> => p[e] = parent[e]
  BY <1>2, <1>3 DEF Inv, TypeOK
<1> HIDE DEF p
<1> QED
  BY <1>1, <1>4, PushInv

\* Where a search goes from a scope of its task: outwards, in the same task.
LEMMA Outwards ==
  ASSUME Inv, NEW t \in Tasks, look[t] \in Envs
  PROVE  LET e == parent[look[t]] IN (e \in Envs => Own(t, e)) /\ Rank(t, e) < Rank(t, look[t])
<1> DEFINE e == parent[look[t]]
<1>1. /\ TypeOK /\ Linked /\ OnceOnly /\ Own(t, look[t]) /\ parent[Global] = NoEnv
      /\ Height(t) \in Nat
  BY StackFacts DEF Inv, StaysInOwnScopes
<1>2. /\ Rank(t, NoEnv) = 1 /\ Rank(t, Global) = 2
      /\ NoEnv \notin Envs /\ Global \in Envs
  BY EnvsDistinct DEF Rank, Envs
<1>3. ASSUME NEW k \in 1 .. Height(t)
      PROVE  /\ Rank(t, <<t, k>>) = 2 * k + 2
             /\ stack[t][k] # Block => Rank(t, Closure(stack[t][k])) = 2 * k + 1
  <2>1. /\ <<t, k>> \in Frames /\ <<t, k>> # Global /\ <<t, k>> # NoEnv /\ <<t, k>> # Idle
        /\ <<t, k>> \notin Closures
    BY <1>1, StackFacts, EnvsDistinct DEF Envs
  <2>2. \A l \in 1 .. Height(t) : stack[t][l] # Block => Closure(stack[t][l]) # <<t, k>>
    BY <1>1, <2>1, StackFacts
  <2>3. Levels(t, <<t, k>>) = {k}
    BY <2>2 DEF Levels
  <2>4. Rank(t, <<t, k>>) = 2 * k + 2
    BY <2>1, <2>3 DEF Rank
  <2>5. ASSUME stack[t][k] # Block
        PROVE  Rank(t, Closure(stack[t][k])) = 2 * k + 1
    <3> DEFINE c == Closure(stack[t][k])
    <3>1. c \in Closures /\ c # Global /\ c # NoEnv /\ c # Idle
      BY <1>1, <2>5, StackFacts, EnvsDistinct DEF Envs
    <3>2. \A l \in 1 .. Height(t) : c # <<t, l>>
      BY <1>1, <3>1, StackFacts, EnvsDistinct
    <3>3. \A l \in 1 .. Height(t) : stack[t][l] # Block /\ c = Closure(stack[t][l]) => l = k
      BY <1>1, <2>5 DEF Closure, OnceOnly
    <3>4. \A l : l \in Levels(t, c) <=> l = k
      BY <2>5, <3>2, <3>3 DEF Levels
    <3>a. Levels(t, c) = {k}
      BY <3>4
    <3> HIDE DEF c
    <3>5. Rank(t, c) = 2 * k + 1
      BY <3>1, <3>2, <3>a DEF Rank
    <3> QED BY <3>5 DEF c
  <2> QED BY <2>4, <2>5
<1>4. ASSUME NEW k \in 1 .. Height(t), e = Below(t, k)
      PROVE  (e \in Envs => Own(t, e)) /\ Rank(t, e) < 2 * k + 1
  <2>1. CASE k = 1
    BY <1>2, <1>4, <2>1 DEF Below, Base, Own
  <2>2. CASE k # 1
    <3>1. k - 1 \in 1 .. Height(t) /\ e = <<t, k - 1>>
      BY <1>1, <1>4, <2>2 DEF Below
    <3>2. Rank(t, e) = 2 * (k - 1) + 2
      BY <1>3, <3>1
    <3> QED BY <3>1, <3>2 DEF Own, Levels
  <2> QED BY <2>1, <2>2
<1>5. CASE look[t] = Global
  BY <1>1, <1>2, <1>5
<1>6. ASSUME NEW k \in 1 .. Height(t), look[t] = <<t, k>>
      PROVE  (e \in Envs => Own(t, e)) /\ Rank(t, e) < Rank(t, look[t])
  <2>1. CASE stack[t][k] = Block
    <3>1. e = Below(t, k)
      BY <1>1, <1>6, <2>1 DEF Linked
    <3>2. (e \in Envs => Own(t, e)) /\ Rank(t, e) < 2 * k + 1
      BY <1>4, <3>1
    <3>3. Rank(t, look[t]) = 2 * k + 2
      BY <1>3, <1>6
    <3>4. Rank(t, e) \in Nat
      BY <1>2, <1>3, <3>1, <1>1 DEF Below, Base
    <3> QED BY <3>2, <3>3, <3>4
  <2>2. CASE stack[t][k] # Block
    <3>1. e = Closure(stack[t][k])
      BY <1>1, <1>6, <2>2 DEF Linked
    <3>2. Rank(t, e) = 2 * k + 1 /\ Rank(t, look[t]) = 2 * k + 2 /\ Own(t, e)
      BY <1>3, <1>6, <2>2, <3>1 DEF Own, Levels
    <3> QED BY <3>2
  <2> QED BY <2>1, <2>2
<1>7. ASSUME NEW k \in 1 .. Height(t), stack[t][k] # Block, look[t] = Closure(stack[t][k])
      PROVE  (e \in Envs => Own(t, e)) /\ Rank(t, e) < Rank(t, look[t])
  <2>1. e = Below(t, k)
    BY <1>1, <1>7 DEF Linked
  <2>2. Rank(t, look[t]) = 2 * k + 1
    BY <1>3, <1>7
  <2> QED BY <1>4, <2>1, <2>2
<1> QED
  BY <1>1, <1>5, <1>6, <1>7 DEF Own, Levels

LEMMA DefineInv ==
  ASSUME Inv, NEW t \in Tasks, NEW f \in Funs, Define(t, f)
  PROVE  Inv'
<1>1. /\ f \notin alive /\ alive' = alive \cup {f} /\ UNCHANGED <<stack, look>>
      /\ parent' = [parent EXCEPT ![Closure(f)] = NoEnv]
      /\ Closure(f) \in Closures
  BY DEF Define, Closures, Closure
<1>2. TypeOK'
  BY <1>1 DEF Inv, TypeOK, Height
<1>3. ASSUME NEW s \in Tasks, NEW k \in 1 .. Height(s)
      PROVE  /\ parent'[<<s, k>>] = parent[<<s, k>>]
             /\ stack[s][k] # Block => parent'[Closure(stack[s][k])] = parent[Closure(stack[s][k])]
  <2>1. <<s, k>> \in Envs /\ <<s, k>> # Closure(f)
    BY <1>1, StackFacts, EnvsDistinct DEF Inv, Envs
  <2>2. ASSUME stack[s][k] # Block
        PROVE  Closure(stack[s][k]) \in Envs /\ Closure(stack[s][k]) # Closure(f)
    <3>1. stack[s][k] # f
      BY <1>1, <2>2 DEF Inv
    <3> QED BY <2>2, <3>1, StackFacts DEF Inv, Envs, Closure
  <2> QED BY <1>1, <2>1, <2>2 DEF Inv, TypeOK
<1>4. Linked'
  <2> SUFFICES ASSUME NEW s \in Tasks, NEW k \in 1 .. Height(s)'
               PROVE  IF stack'[s][k] = Block THEN parent'[<<s, k>>] = Below(s, k)
                      ELSE /\ parent'[<<s, k>>] = Closure(stack'[s][k])
                           /\ parent'[Closure(stack'[s][k])] = Below(s, k)
    BY DEF Linked, Below, Base
  <2>1. k \in 1 .. Height(s) /\ stack' = stack
    BY <1>1 DEF Height
  <2> QED BY <1>3, <2>1 DEF Inv, Linked
<1>5. parent'[Global] = NoEnv
  BY <1>1, EnvsDistinct DEF Inv, TypeOK, Envs
<1> QED
  BY <1>1, <1>2, <1>4, <1>5 DEF Inv, OnceOnly, StaysInOwnScopes, Own, Levels, Height

\* Without the slip, what is lost is not running, so no frame hangs from it.
LEMMA LoseInv ==
  ASSUME Slips = {}, Inv, NEW t \in Tasks, NEW f \in Funs, Lose(t, f)
  PROVE  Inv'
<1>1. ~Running(f) /\ alive' = alive \ {f} /\ UNCHANGED <<parent, stack, look>>
  BY DEF Lose
<1>2. \A s \in Tasks : \A k \in 1 .. Height(s) : stack[s][k] # Block => stack[s][k] \in alive'
  BY <1>1 DEF Inv, Running
<1> QED
  BY <1>1, <1>2 DEF Inv, TypeOK, Linked, OnceOnly, StaysInOwnScopes, Own, Levels, Height, Below, Base

LEMMA LeaveInv ==
  ASSUME Inv, NEW t \in Tasks, Leave(t)
  PROVE  Inv'
<1>1. /\ look[t] = Idle /\ Height(t) > 0 /\ UNCHANGED <<parent, alive, look>>
      /\ stack' = [stack EXCEPT ![t] = SubSeq(@, 1, Len(@) - 1)]
  BY DEF Leave, Evaluating
<1>2. /\ Height(t) \in Nat /\ stack[t] \in Seq(Funs \cup {Block})
      /\ stack \in [Tasks -> Seq(Funs \cup {Block})] /\ MaxFrames \in Nat
  BY StackFacts, ChainAssumption DEF Inv, TypeOK
<1>3. /\ SubSeq(stack[t], 1, Len(stack[t]) - 1) \in Seq(Funs \cup {Block})
      /\ Len(SubSeq(stack[t], 1, Len(stack[t]) - 1)) = Height(t) - 1
      /\ \A k \in 1 .. Height(t) - 1 : SubSeq(stack[t], 1, Len(stack[t]) - 1)[k] = stack[t][k]
  <2> DEFINE q == stack[t]
  <2>1. q \in Seq(Funs \cup {Block}) /\ Len(q) \in Nat /\ Len(q) > 0
    BY <1>1, <1>2 DEF Height
  <2> HIDE DEF q
  <2> DEFINE n == Len(q) - 1
  <2>2. n \in Int /\ n - 1 + 1 = n /\ \A i \in 1 .. n : q[i] \in Funs \cup {Block} /\ 1 + i - 1 = i
    BY <2>1
  <2>3. n \in Nat
    BY <2>1
  <2> HIDE DEF n
  <2>4. /\ SubSeq(q, 1, n) \in Seq(Funs \cup {Block})
        /\ Len(SubSeq(q, 1, n)) = IF 1 <= n THEN n - 1 + 1 ELSE 0
        /\ \A i \in 1 .. n - 1 + 1 : SubSeq(q, 1, n)[i] = q[1 + i - 1]
    BY <2>2, SubSeqProperties
  <2>5. Len(SubSeq(q, 1, n)) = n /\ \A i \in 1 .. n : SubSeq(q, 1, n)[i] = q[i]
    BY <2>2, <2>3, <2>4
  <2> QED BY <2>4, <2>5 DEF Height, n, q
<1>4. /\ stack' \in [Tasks -> Seq(Funs \cup {Block})]
      /\ Height(t)' = Height(t) - 1
      /\ \A s \in Tasks : s # t => stack'[s] = stack[s] /\ Height(s)' = Height(s)
      /\ \A k \in 1 .. Height(t)' : stack'[t][k] = stack[t][k]
  BY <1>1, <1>2, <1>3 DEF Height
<1>5. ASSUME NEW s \in Tasks, NEW k \in 1 .. Height(s)'
      PROVE  k \in 1 .. Height(s) /\ stack'[s][k] = stack[s][k]
  <2>1. CASE s = t
    BY <1>2, <1>4, <2>1
  <2>2. CASE s # t
    BY <1>4, <2>2
  <2> QED BY <2>1, <2>2
<1>6. TypeOK'
  <2>1. ASSUME NEW s \in Tasks PROVE Height(s)' <= MaxFrames
    <3>1. Height(s) <= MaxFrames /\ Height(s) \in Nat
      BY StackFacts DEF Inv, TypeOK
    <3>2. CASE s = t
      BY <1>2, <1>4, <3>1, <3>2
    <3> QED BY <1>4, <3>1, <3>2
  <2> QED BY <1>1, <1>4, <2>1 DEF Inv, TypeOK
<1>7. Linked'
  <2> SUFFICES ASSUME NEW s \in Tasks, NEW k \in 1 .. Height(s)'
               PROVE  IF stack'[s][k] = Block THEN parent'[<<s, k>>] = Below(s, k)
                      ELSE /\ parent'[<<s, k>>] = Closure(stack'[s][k])
                           /\ parent'[Closure(stack'[s][k])] = Below(s, k)
    BY DEF Linked, Below, Base
  <2> QED BY <1>1, <1>5, ZenonT(30) DEF Inv, Linked
<1>8. OnceOnly'
  <2> SUFFICES ASSUME NEW s \in Tasks, NEW r \in Tasks,
                      NEW k \in 1 .. Height(s)', NEW l \in 1 .. Height(r)',
                      stack'[s][k] = stack'[r][l], stack'[s][k] # Block
               PROVE  s = r /\ k = l
    BY DEF OnceOnly
  <2> QED BY <1>5 DEF Inv, OnceOnly
<1>9. ASSUME NEW s \in Tasks, NEW k \in 1 .. Height(s)', stack'[s][k] # Block
      PROVE  stack'[s][k] \in alive'
  <2>1. stack[s][k] \in alive
    BY <1>5, <1>9 DEF Inv
  <2>2. alive' = alive /\ stack'[s][k] = stack[s][k]
    BY <1>1, <1>5
  <2> QED BY <2>1, <2>2
<1>10. StaysInOwnScopes'
  <2> SUFFICES ASSUME NEW s \in Tasks, look'[s] \in Envs PROVE Own(s, look[s])'
    BY DEF StaysInOwnScopes
  <2>1. s # t /\ look'[s] = look[s] /\ Own(s, look[s])
    BY <1>1, EnvsDistinct DEF Inv, StaysInOwnScopes
  <2> QED BY <1>4, <2>1 DEF Own, Levels
<1> QED
  BY <1>1, <1>6, <1>7, <1>8, <1>9, <1>10 DEF Inv

\* A step that moves only the search of t, to e.
LEMMA SearchInv ==
  ASSUME Inv, NEW t \in Tasks, NEW e \in Envs \cup {NoEnv, Idle}, e \in Envs => Own(t, e),
         look' = [look EXCEPT ![t] = e], UNCHANGED <<parent, stack, alive>>
  PROVE  Inv'
<1>1. TypeOK'
  BY DEF Inv, TypeOK, Height
<1>2. StaysInOwnScopes'
  BY DEF Inv, TypeOK, StaysInOwnScopes, Own, Levels, Height
<1> QED
  BY <1>1, <1>2 DEF Inv, Linked, OnceOnly, Height, Below, Base

LEMMA LookupInv ==
  ASSUME Inv, NEW t \in Tasks, Lookup(t)
  PROVE  Inv'
<1>1. Height(t) \in Nat /\ Height(t) <= MaxFrames /\ MaxFrames \in Nat
  BY StackFacts, ChainAssumption DEF Inv, TypeOK
<1>2. CASE Height(t) = 0
  <2>1. Here(t) \in Envs \cup {NoEnv, Idle} /\ (Here(t) \in Envs => Own(t, Here(t)))
    BY <1>2, EnvsDistinct DEF Here, Base, Envs, Own
  <2> QED BY <2>1, SearchInv DEF Lookup
<1>3. CASE Height(t) # 0
  <2>1. Here(t) = <<t, Height(t)>> /\ Height(t) \in 1 .. Height(t)
    BY <1>1, <1>3 DEF Here
  <2>2. Here(t) \in Envs
    BY <1>1, <2>1 DEF Envs, Frames
  <2>3. Own(t, Here(t))
    BY <2>1 DEF Own, Levels
  <2> QED BY <2>2, <2>3, SearchInv DEF Lookup
<1> QED
  BY <1>2, <1>3

LEMMA FoundInv ==
  ASSUME Inv, NEW t \in Tasks, Found(t)
  PROVE  Inv'
BY SearchInv, EnvsDistinct DEF Found

LEMMA WalkInv ==
  ASSUME Inv, NEW t \in Tasks, Walk(t)
  PROVE  Inv'
<1>1. CASE look[t] = NoEnv
  BY <1>1, SearchInv, EnvsDistinct DEF Walk, Inv, TypeOK
<1>2. CASE look[t] # NoEnv
  <2>1. look[t] \in Envs
    BY <1>2 DEF Walk, Inv, TypeOK
  <2>2. parent[look[t]] \in Envs \cup {NoEnv, Idle} /\ look' = [look EXCEPT ![t] = parent[look[t]]]
    BY <1>2, <2>1 DEF Walk, Inv, TypeOK
  <2>3. parent[look[t]] \in Envs => Own(t, parent[look[t]])
    BY <2>1, Outwards
  <2> QED BY <2>2, <2>3, SearchInv DEF Walk
<1> QED
  BY <1>1, <1>2

LEMMA NextInv ==
  ASSUME Slips = {}, Inv, [Next]_vars
  PROVE  Inv'
<1>1. CASE UNCHANGED vars
  BY <1>1 DEF vars, Inv, TypeOK, Linked, OnceOnly, StaysInOwnScopes, Own, Levels, Height, Below, Base
<1>2. CASE Next
  BY <1>2, DefineInv, LoseInv, CallInv, BlockInv, LeaveInv, LookupInv, FoundInv, WalkInv DEF Next
<1> QED
  BY <1>1, <1>2

LEMMA InvImplies == Inv => TypeOK /\ Linked /\ StaysInOwnScopes /\ SearchesLiveEnvs
<1> SUFFICES ASSUME Inv, NEW t \in Tasks, look[t] \in Envs PROVE Live(look[t])
  BY DEF Inv, SearchesLiveEnvs
<1> QED
  BY DEF Inv, StaysInOwnScopes, Own, Levels, Live

\* A search that has reached an Env of its task is not over.
LEMMA RankPositive ==
  ASSUME Inv, NEW t \in Tasks, look[t] \in Envs
  PROVE  Rank(t, look[t]) > 0
<1>1. Own(t, look[t]) /\ Height(t) \in Nat /\ look[t] # Idle /\ look[t] # NoEnv
  BY StackFacts, EnvsDistinct DEF Inv, StaysInOwnScopes
<1>2. CASE look[t] = Global
  BY <1>1, <1>2 DEF Rank
<1>3. CASE look[t] # Global
  <2>1. Levels(t, look[t]) # {} /\ Levels(t, look[t]) \subseteq 1 .. Height(t)
    BY <1>1, <1>3 DEF Own, Levels
  <2>2. DEFINE k == CHOOSE k \in Levels(t, look[t]) : TRUE
  <2>3. k \in 1 .. Height(t)
    BY <2>1
  <2> HIDE DEF k
  <2>4. Rank(t, look[t]) \in {2 * k + 2, 2 * k + 1}
    BY <1>1, <1>3, <2>1 DEF Rank, k
  <2> QED BY <1>1, <2>3, <2>4
<1> QED
  BY <1>2, <1>3

LEMMA StepGoesOut ==
  ASSUME Inv, [Next]_vars, NEW t \in Tasks, look[t] # Idle, look'[t] # look[t]
  PROVE  Rank(t, look'[t]) < Rank(t, look[t])
<1>1. look \in [Tasks -> Envs \cup {NoEnv, Idle}] /\ Next
  BY DEF Inv, TypeOK, vars
<1>2. Found(t) \/ Walk(t)
  <2>1. PICK s \in Tasks : Lookup(s) \/ Found(s) \/ Walk(s)
    BY <1>1 DEF Next, EnterBlock, Leave, Define, Lose, Call, Push
  <2>2. s = t
    BY <1>1, <2>1 DEF Lookup, Found, Walk
  <2> QED BY <2>1, <2>2 DEF Lookup, Evaluating
<1>3. Rank(t, Idle) = 0 /\ Rank(t, NoEnv) = 1
  BY EnvsDistinct DEF Rank
<1>4. CASE look[t] = NoEnv
  BY <1>1, <1>2, <1>3, <1>4, EnvsDistinct DEF Found, Walk
<1>5. CASE look[t] \in Envs
  <2>1. CASE look'[t] = parent[look[t]]
    BY <1>5, <2>1, Outwards
  <2>2. CASE look'[t] = Idle
    BY <1>3, <1>5, <2>2, RankPositive
  <2> QED BY <1>1, <1>2, <1>5, <2>1, <2>2, EnvsDistinct DEF Found, Walk
<1> QED
  BY <1>1, <1>4, <1>5

\* The inductive invariant holds in every state, whatever the constants.
LEMMA InvariantHolds == ASSUME Slips = {} PROVE Spec => []Inv
<1>1. Inv /\ [Next]_vars => Inv'
  BY NextInv
<1> QED
  BY <1>1, InitInv, PTL DEF Spec

\* The Envs, stacks and searches keep their types: no stack outgrows its bound and no
\* search leaves the Envs that env_new made (mila.c).
THEOREM TypeCorrect == ASSUME Slips = {} PROVE Spec => []TypeOK
BY InvImplies, InvariantHolds, PTL

\* Dynamic scoping: every frame leads to the Env it was called or opened in, through
\* the closure of its function (call_function, eval_block).
THEOREM FramesAreLinked == ASSUME Slips = {} PROVE Spec => []Linked
BY InvImplies, InvariantHolds, PTL

\* Isolation: a lookup visits only scopes of its own task (env_get, env_set).
THEOREM TasksAreIsolated == ASSUME Slips = {} PROVE Spec => []StaysInOwnScopes
BY InvImplies, InvariantHolds, PTL

\* No lookup searches an Env that env_free has freed.
THEOREM LookupsAreSafe == ASSUME Slips = {} PROVE Spec => []SearchesLiveEnvs
BY InvImplies, InvariantHolds, PTL

\* Every step of a search goes outwards: the measure that makes env_get end.
THEOREM SearchesGoOut == ASSUME Slips = {} PROVE Spec => SearchGoesOut
<1>1. Inv /\ [Next]_vars =>
        [\A t \in Tasks : look[t] # Idle /\ look'[t] # look[t] =>
           Rank(t, look'[t]) < Rank(t, look[t])]_vars
  BY StepGoesOut
<1> QED
  BY <1>1, InvariantHolds, PTL DEF Spec, SearchGoesOut
=============================================================================

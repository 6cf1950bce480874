----------------------------- MODULE MilaScopes -----------------------------
(***************************************************************************)
(* What MiLa's variables promise a script: every place holds a value of    *)
(* its own, and nothing is ever counted, shared or freed.  MilaEnv         *)
(* implements this module with reference-counted cells.                    *)
(***************************************************************************)
EXTENDS Naturals, FiniteSets

CONSTANTS Payloads, Names, Slots, NoVar, Null, MaxDepth

Depths == 1 .. MaxDepth
Locals == Names \cup Slots
Places == Depths \X Locals

VARIABLES
  val,    \* the value in each place, NoVar where there is none
  konst,  \* the places that are constants
  depth,  \* the innermost scope
  args    \* args[d]: the slots of scope d-1 whose values the call of scope d was given

vars == <<val, konst, depth, args>>

Here(l) == <<depth, l>>
Bound(n) == {d \in 1 .. depth : val[<<d, n>>] # NoVar}

\* The place that n names: its innermost binding, if it has one.
Meant(n) == IF Bound(n) = {} THEN Here(n)
            ELSE <<CHOOSE d \in Bound(n) : \A e \in Bound(n) : e <= d, n>>

IsValue(v) == v # NoVar /\ v # Null

Init ==
  /\ val = [p \in Places |-> NoVar]
  /\ konst = {}
  /\ depth = 1
  /\ args = [d \in Depths |-> {}]

-----------------------------------------------------------------------------
Eval(s, x) ==
  /\ val[Here(s)] = NoVar
  /\ val' = [val EXCEPT ![Here(s)] = x]
  /\ UNCHANGED <<konst, depth, args>>

Read(s, n) ==
  /\ IsValue(val[Meant(n)])
  /\ Eval(s, val[Meant(n)])

Drop(s) ==
  /\ IsValue(val[Here(s)])
  /\ val' = [val EXCEPT ![Here(s)] = NoVar]
  /\ UNCHANGED <<konst, depth, args>>

\* The value in slot s is copied into p, unless p is a constant: then the
\* statement yields an error x in the place of the value.
Store(p, s, x) ==
  /\ IsValue(val[Here(s)])
  /\ val' = IF p \in konst THEN [val EXCEPT ![Here(s)] = x]
            ELSE [val EXCEPT ![p] = val[Here(s)]]
  /\ UNCHANGED <<depth, args>>

Set(n, s, x)   == Store(Meant(n), s, x) /\ UNCHANGED konst
Var(n, s, x)   == Store(Here(n), s, x) /\ UNCHANGED konst
Const(n, s, x) ==
  /\ Store(Here(n), s, x)
  /\ konst' = IF val[Here(n)] = NoVar THEN konst \cup {Here(n)} ELSE konst

Declare(n, x) ==
  /\ Here(n) \notin konst
  /\ val' = [val EXCEPT ![Here(n)] = x]
  /\ UNCHANGED <<konst, depth, args>>

\* set n op= v: the new value x goes to n, if n may change, and is the result.
Update(n, s, x) ==
  /\ IsValue(val[Here(s)])
  /\ val' = IF IsValue(val[Meant(n)]) /\ Meant(n) \notin konst
            THEN [val EXCEPT ![Meant(n)] = x, ![Here(s)] = x]
            ELSE [val EXCEPT ![Here(s)] = x]
  /\ UNCHANGED <<konst, depth, args>>

Alias(m, n) ==
  /\ Here(n) \notin konst
  /\ val' = [val EXCEPT ![Here(n)] = IF Bound(m) = {} THEN Null ELSE val[Meant(m)]]
  /\ UNCHANGED <<konst, depth, args>>

Forget(n) ==
  /\ Bound(n) # {}
  /\ val' = [val EXCEPT ![Meant(n)] = NoVar]
  /\ konst' = konst \ {Meant(n)}
  /\ UNCHANGED <<depth, args>>

-----------------------------------------------------------------------------
\* A block or a call: bind[n] is the slot of the argument for parameter n.
Enter(bind) ==
  /\ depth < MaxDepth
  /\ \A n \in DOMAIN bind : IsValue(val[Here(bind[n])])
  /\ val' = [p \in Places |-> IF p[1] = depth + 1 /\ p[2] \in DOMAIN bind
                              THEN val[Here(bind[p[2]])] ELSE val[p]]
  /\ depth' = depth + 1
  /\ args' = [args EXCEPT ![depth + 1] = {bind[n] : n \in DOMAIN bind}]
  /\ UNCHANGED konst

\* The scope ends: it and the arguments are gone, slot t below has the result.
Leave(s, t) ==
  /\ depth > 1
  /\ val[<<depth - 1, t>>] = NoVar \/ t \in args[depth]
  /\ val' = [p \in Places |->
               IF p = <<depth - 1, t>> THEN val[Here(s)]
               ELSE IF p[1] = depth \/ (p[1] = depth - 1 /\ p[2] \in args[depth]) THEN NoVar
               ELSE val[p]]
  /\ konst' = {p \in konst : p[1] # depth}
  /\ depth' = depth - 1
  /\ args' = [args EXCEPT ![depth] = {}]

Next ==
  \/ \E s \in Slots :
       \/ \E x \in Payloads : Eval(s, x)
       \/ \E n \in Names : Read(s, n)
       \/ \E n \in Names, x \in Payloads :
            Set(n, s, x) \/ Var(n, s, x) \/ Const(n, s, x) \/ Update(n, s, x)
       \/ Drop(s)
       \/ \E t \in Slots : Leave(s, t)
  \/ \E n \in Names :
       \/ \E x \in Payloads : Declare(n, x)
       \/ \E m \in Names : Alias(m, n)
       \/ Forget(n)
  \/ \E P \in SUBSET Names : \E bind \in [P -> Slots] : Enter(bind)

Spec == Init /\ [][Next]_vars
=============================================================================

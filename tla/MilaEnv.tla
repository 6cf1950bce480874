------------------------------- MODULE MilaEnv -------------------------------
(***************************************************************************)
(* Reference-counted values and scoped variables of the MiLa interpreter   *)
(* (mila.c: val_new, val_retain, val_release, env_set*, env_remove,        *)
(* env_free, and the statement handlers that call them).                   *)
(*                                                                         *)
(* A "cell" is a heap Value; refcount 0 means that its memory is free and  *)
(* may be handed out again.  A "place" owns at most one counted reference: *)
(*   <<d, n>>, n \in Names : the variable n of the d-th Env of the stack;  *)
(*   <<d, s>>, s \in Slots : a C local of the handlers evaluating in that  *)
(*                           Env (a result, an operand, an argument).      *)
(* Env 1 is the global one; the parent of Env d is Env d-1 (a block, or a  *)
(* call whose closure captures nothing).                                   *)
(***************************************************************************)
EXTENDS Naturals, FiniteSets

CONSTANTS
  Cells,       \* heap cells malloc can hand out
  Payloads,    \* contents of a value, as far as a script can tell
  Names,       \* variable names
  Slots,       \* C locals per Env: bounds the operands held at once
  NoVar,       \* "no such variable", an unused slot, the contents of freed memory
  Null,        \* the C NULL pointer, which an alias of an unknown name binds
  MaxDepth,    \* bound on the Env stack
  MaxRefs,     \* ML_MAX_REFS
  Slips        \* what scripts may do, of what the interpreter gets wrong:
               \* "forget_outer", forget a name that only an outer Env binds;
               \* "alias_itself", alias a variable of this Env to its own name

WeakTrigger == MaxRefs + 1       \* ML_WEAK_REF_TRIGGER

Depths  == 1 .. MaxDepth
Locals  == Names \cup Slots
Places  == Depths \X Locals

ASSUME EnvAssumption ==
  /\ IsFiniteSet(Names) /\ IsFiniteSet(Slots)
  /\ Names \cap Slots = {}
  /\ NoVar \notin Cells /\ Null \notin Cells /\ NoVar # Null
  /\ MaxDepth \in Nat \ {0}
  /\ MaxRefs \in Nat \ {0, 1}
  /\ Slips \subseteq {"forget_outer", "alias_itself"}
  /\ NoVar \notin Payloads /\ Null \notin Payloads

VARIABLES
  heap,     \* [refs, data, lost, fault, aborted]: the counts, the contents, the
            \* counted references nothing will ever release (auxiliary),
            \* "freed memory was used", "abort() ran"
  at,       \* what each place refers to
  konst,    \* places whose Var carries VAR_CONST
  depth,    \* the Env the interpreter evaluates in
  args      \* args[d]: the slots of Env d-1 that hold the arguments of the call that made Env d

vars == <<heap, at, konst, depth, args>>

-----------------------------------------------------------------------------
(* The heap.  Each operator is one call, so a handler composes them in the  *)
(* order of the code: Retain(Release(heap, old), new).                      *)

Counted(h, c) == c \in Cells /\ h.refs[c] # WeakTrigger

RetainUnbounded(h, c) ==         \* mutant of Retain: the ML_MAX_REFS check is gone
  IF ~Counted(h, c) THEN h
  ELSE [h EXCEPT !.refs = [h.refs EXCEPT ![c] = @ + 1],
                 !.fault = @ \/ h.refs[c] = 0]

Retain(h, c) ==
  IF ~Counted(h, c) THEN h
  ELSE [h EXCEPT !.refs = [h.refs EXCEPT ![c] = @ + 1],
                 !.fault = @ \/ h.refs[c] = 0,
                 !.aborted = @ \/ h.refs[c] + 1 >= MaxRefs]

Release(h, c) ==
  IF ~Counted(h, c) THEN h
  ELSE [h EXCEPT !.refs = [h.refs EXCEPT ![c] = IF @ = 0 THEN 0 ELSE @ - 1],
                 !.data = [h.data EXCEPT ![c] = IF h.refs[c] <= 1 THEN NoVar ELSE @],
                 !.fault = @ \/ h.refs[c] = 0]

\* val_new, val_new_raw: a free cell, with a count of one.
Free(h, c) == h.refs[c] = 0
Alloc(h, c, x) == [h EXCEPT !.refs = [h.refs EXCEPT ![c] = 1],
                            !.data = [h.data EXCEPT ![c] = x]]

\* env_free, and the loops that release arguments: one val_release per place of P.
Holders(c, P) == {p \in P : at[p] = c}

ReleaseAll(h, P) ==
  LET uses(c) == Cardinality(Holders(c, P))
      left    == [c \in Cells |-> IF h.refs[c] >= uses(c) THEN h.refs[c] - uses(c) ELSE 0]
  IN  [h EXCEPT !.refs = left,
                !.data = [c \in Cells |-> IF left[c] = 0 THEN NoVar ELSE h.data[c]],
                !.fault = @ \/ \E c \in Cells : h.refs[c] < uses(c)]

\* The counted reference a handler holds on c is overwritten without a release.
Lose(h, c) == [h EXCEPT !.lost = [h.lost EXCEPT ![c] = @ + 1]]

-----------------------------------------------------------------------------
(* Scopes.                                                                  *)

Here(l) == <<depth, l>>

\* Env d holds the binding of n that env_get and env_set find first.
Nearest(n, d) ==
  /\ d \in 1 .. depth
  /\ at[<<d, n>>] # NoVar
  /\ \A e \in d + 1 .. depth : at[<<e, n>>] = NoVar

Undefined(n) == \A e \in 1 .. depth : at[<<e, n>>] = NoVar

\* After abort(), or once freed memory was used, nothing more is specified.
Running == ~heap.aborted /\ ~heap.fault

Held(s)   == at[Here(s)] \in Cells
Unused(s) == at[Here(s)] = NoVar

Init ==
  /\ heap = [refs |-> [c \in Cells |-> 0], data |-> [c \in Cells |-> NoVar],
             lost |-> [c \in Cells |-> 0], fault |-> FALSE, aborted |-> FALSE]
  /\ at = [p \in Places |-> NoVar]
  /\ konst = {}
  /\ depth = 1
  /\ args = [d \in Depths |-> {}]

-----------------------------------------------------------------------------
(* Expressions.                                                             *)

\* An expression builds a new value: a literal, an operator, a native's result.
EvalNew(s, c, x) ==
  /\ Running /\ Unused(s) /\ Free(heap, c)
  /\ heap' = Alloc(heap, c, x)
  /\ at' = [at EXCEPT ![Here(s)] = c]
  /\ UNCHANGED <<konst, depth, args>>

EvalNameBorrowed(s, n) ==        \* mutant of EvalName: the reader does not retain
  /\ Running /\ Unused(s)
  /\ \E d \in Depths :
       /\ Nearest(n, d) /\ at[<<d, n>>] \in Cells
       /\ at' = [at EXCEPT ![Here(s)] = at[<<d, n>>]]
  /\ UNCHANGED <<heap, konst, depth, args>>

\* A name is read: the nearest binding, retained for the reader.  (An unknown
\* name, or one bound to NULL, yields vnull(): a new value, EvalNew.)
EvalName(s, n) ==
  /\ Running /\ Unused(s)
  /\ \E d \in Depths :
       /\ Nearest(n, d) /\ at[<<d, n>>] \in Cells
       /\ heap' = Retain(heap, at[<<d, n>>])
       /\ at' = [at EXCEPT ![Here(s)] = at[<<d, n>>]]
  /\ UNCHANGED <<konst, depth, args>>

\* The holder of a result is done with it: val_release.
Drop(s) ==
  /\ Running /\ Held(s)
  /\ heap' = Release(heap, at[Here(s)])
  /\ at' = [at EXCEPT ![Here(s)] = NoVar]
  /\ UNCHANGED <<konst, depth, args>>

-----------------------------------------------------------------------------
(* Statements.  Where a handler returns a fresh vnull() nobody else can see, *)
(* the model leaves the slot unused.                                         *)

\* The value v in slot s is bound at place p: val_release(old); val_retain(v).
\* The slot keeps its own reference, which the statement returns.
Assign(p, s) ==
  /\ heap' = Retain(Release(heap, at[p]), at[Here(s)])
  /\ at' = [at EXCEPT ![p] = at[Here(s)]]

\* The statement fails: a new error value replaces v, which is released.
Fail(s, c, x) ==
  /\ Free(heap, c)
  /\ heap' = Release(Alloc(heap, c, x), at[Here(s)])
  /\ at' = [at EXCEPT ![Here(s)] = c]

\* set n = v: env_set, the nearest binding or a new local one.
SetStmt(n, s) ==
  /\ Running /\ Held(s)
  /\ \/ \E d \in Depths :
          /\ Nearest(n, d)
          /\ \/ <<d, n>> \notin konst /\ Assign(<<d, n>>, s)
             \/ <<d, n>> \in konst /\ \E c \in Cells, x \in Payloads : Fail(s, c, x)
     \/ Undefined(n) /\ Assign(Here(n), s)
  /\ UNCHANGED <<konst, depth, args>>

VarStmtUnchecked(n, s) ==        \* mutant of VarStmt: VAR_CONST is not looked at
  /\ Running /\ Held(s)
  /\ Assign(Here(n), s)
  /\ UNCHANGED <<konst, depth, args>>

\* var n = v: env_set_local.
VarStmt(n, s) ==
  /\ Running /\ Held(s)
  /\ \/ Here(n) \notin konst /\ Assign(Here(n), s)
     \/ Here(n) \in konst /\ \E c \in Cells, x \in Payloads : Fail(s, c, x)
  /\ UNCHANGED <<konst, depth, args>>

\* const n = v: env_set_local_const.  Only a new Var gets the flag.
ConstStmt(n, s) ==
  /\ Running /\ Held(s)
  /\ \/ /\ Here(n) \notin konst /\ Assign(Here(n), s)
        /\ konst' = IF at[Here(n)] = NoVar THEN konst \cup {Here(n)} ELSE konst
     \/ /\ Here(n) \in konst /\ \E c \in Cells, x \in Payloads : Fail(s, c, x)
        /\ UNCHANGED konst
  /\ UNCHANGED <<depth, args>>

\* var n; : env_set_local_raw with a fresh vnone(), which the binding owns
\* without a retain.  (On a constant only an error and the none are made and
\* released: no step.)
Declare(n, c, x) ==
  /\ Running /\ Free(heap, c) /\ Here(n) \notin konst
  /\ heap' = Release(Alloc(heap, c, x), at[Here(n)])
  /\ at' = [at EXCEPT ![Here(n)] = c]
  /\ UNCHANGED <<konst, depth, args>>

InPlaceLocal(n, s, c, x) ==      \* mutant of InPlace: env_set_local_raw, for env_set_raw
  /\ Running /\ Held(s) /\ Free(heap, c)
  /\ \E d \in Depths : Nearest(n, d) /\ at[<<d, n>>] # Null
  /\ Here(n) \notin konst
  /\ heap' = Retain(Release(Release(Alloc(heap, c, x), at[Here(n)]), at[Here(s)]), c)
  /\ at' = [at EXCEPT ![Here(n)] = c, ![Here(s)] = c]
  /\ UNCHANGED <<konst, depth, args>>

\* set n op= v: the result of the operator is given to the binding without a
\* retain, v is released, and the result is retained for the caller.  The
\* answer of env_set_raw is ignored: on a constant nothing is stored, and the
\* reference meant for the binding is lost.
InPlace(n, s, c, x) ==
  /\ Running /\ Held(s) /\ Free(heap, c)
  /\ \/ \E d \in Depths :
          /\ Nearest(n, d) /\ at[<<d, n>>] # Null
          /\ \/ /\ <<d, n>> \notin konst
                /\ heap' = Retain(Release(Release(Alloc(heap, c, x), at[<<d, n>>]),
                                          at[Here(s)]), c)
                /\ at' = [at EXCEPT ![<<d, n>>] = c, ![Here(s)] = c]
             \/ /\ <<d, n>> \in konst
                /\ heap' = Lose(Retain(Release(Alloc(heap, c, x), at[Here(s)]), c), c)
                /\ at' = [at EXCEPT ![Here(s)] = c]
     \/ /\ Undefined(n) \/ \E d \in Depths : Nearest(n, d) /\ at[<<d, n>>] = Null
        /\ Fail(s, c, x)
  /\ UNCHANGED <<konst, depth, args>>

\* alias m : "n": env_set_local(env, n, env_get(env, m)), answer ignored.
Alias(m, n) ==
  /\ Running /\ Here(n) \notin konst
  /\ \/ \E d \in Depths :
          /\ Nearest(m, d) /\ (<<d, m>> # Here(n) \/ "alias_itself" \in Slips)
          /\ heap' = Retain(Release(heap, at[Here(n)]), at[<<d, m>>])
          /\ at' = [at EXCEPT ![Here(n)] = at[<<d, m>>]]
     \/ /\ Undefined(m)
        /\ heap' = Release(heap, at[Here(n)])
        /\ at' = [at EXCEPT ![Here(n)] = Null]
  /\ UNCHANGED <<konst, depth, args>>

ForgetKeepingFlag(n) ==          \* mutant of Forget: the Var survives, emptied
  /\ Running
  /\ \E d \in Depths :
       /\ Nearest(n, d) /\ (d = depth \/ "forget_outer" \in Slips)
       /\ heap' = Release(heap, at[<<d, n>>])
  /\ at' = [at EXCEPT ![Here(n)] = NoVar]
  /\ UNCHANGED <<konst, depth, args>>

\* forget n: val_release(env_get(env, n)), which searches every Env, and then
\* env_remove(env, n), which searches the current one.
Forget(n) ==
  /\ Running
  /\ \E d \in Depths :
       /\ Nearest(n, d) /\ (d = depth \/ "forget_outer" \in Slips)
       /\ heap' = Release(heap, at[<<d, n>>])
  /\ at' = [at EXCEPT ![Here(n)] = NoVar]
  /\ konst' = konst \ {Here(n)}
  /\ UNCHANGED <<depth, args>>

-----------------------------------------------------------------------------
(* Envs.                                                                    *)

\* eval_block: a new Env.
EnterBlock ==
  /\ Running /\ depth < MaxDepth
  /\ depth' = depth + 1
  /\ args' = [args EXCEPT ![depth + 1] = {}]
  /\ UNCHANGED <<heap, at, konst>>

\* call_function: the arguments are in the slots bind[n], n a parameter; the
\* new Env binds (and retains) each of them, unless a count reaches ML_MAX_REFS.
Call(bind) ==
  LET uses(c)  == Cardinality({n \in DOMAIN bind : at[Here(bind[n])] = c})
      overflow == \E c \in Cells : uses(c) > 0 /\ heap.refs[c] + uses(c) >= MaxRefs
  IN  /\ Running /\ depth < MaxDepth
      /\ \A n \in DOMAIN bind : Held(bind[n])
      /\ \A m, n \in DOMAIN bind : bind[m] = bind[n] => m = n
      /\ \/ /\ overflow
            /\ heap' = [heap EXCEPT !.aborted = TRUE]
            /\ UNCHANGED <<at, konst, depth, args>>
         \/ /\ ~overflow
            /\ heap' = [heap EXCEPT
                 !.refs = [c \in Cells |-> heap.refs[c] + uses(c)],
                 !.fault = \E c \in Cells : uses(c) > 0 /\ heap.refs[c] = 0]
            /\ at' = [p \in Places |-> IF p[1] = depth + 1 /\ p[2] \in DOMAIN bind
                                       THEN at[Here(bind[p[2]])] ELSE at[p]]
            /\ args' = [args EXCEPT ![depth + 1] = {bind[n] : n \in DOMAIN bind}]
            /\ depth' = depth + 1
            /\ UNCHANGED konst

LeaveKeepingArgs(s, t) ==        \* mutant of Leave: the arguments are not released
  LET dest == <<depth - 1, t>>
      given == {<<depth - 1, a>> : a \in args[depth]}
  IN  /\ Running /\ depth > 1
      /\ \A r \in Slots \ {s} : Unused(r)
      /\ at[dest] = NoVar \/ dest \in given
      /\ heap' = ReleaseAll(heap, {<<depth, n>> : n \in Names})
      /\ at' = [p \in Places |-> IF p = dest THEN at[Here(s)]
                                 ELSE IF p[1] = depth \/ p \in given THEN NoVar
                                 ELSE at[p]]
      /\ konst' = {p \in konst : p[1] # depth}
      /\ depth' = depth - 1
      /\ args' = [args EXCEPT ![depth] = {}]

\* The end of a block or of a call: env_free releases the variables, the call's
\* arguments are released, and the result, in slot s, passes to slot t of the Env below.
Leave(s, t) ==
  LET vars_   == {<<depth, n>> : n \in Names}
      given   == {<<depth - 1, a>> : a \in args[depth]}
      dest    == <<depth - 1, t>>
  IN  /\ Running /\ depth > 1
      /\ \A r \in Slots \ {s} : Unused(r)
      /\ at[dest] = NoVar \/ dest \in given
      /\ heap' = ReleaseAll(heap, vars_ \cup given)
      /\ at' = [p \in Places |-> IF p = dest THEN at[Here(s)]
                                 ELSE IF p[1] = depth \/ p \in given THEN NoVar
                                 ELSE at[p]]
      /\ konst' = {p \in konst : p[1] # depth}
      /\ depth' = depth - 1
      /\ args' = [args EXCEPT ![depth] = {}]

Next ==
  \/ \E s \in Slots :
       \/ \E c \in Cells, x \in Payloads : EvalNew(s, c, x)
       \/ \E n \in Names : EvalName(s, n) \/ SetStmt(n, s) \/ VarStmt(n, s) \/ ConstStmt(n, s)
       \/ \E n \in Names, c \in Cells, x \in Payloads : InPlace(n, s, c, x)
       \/ Drop(s)
       \/ \E t \in Slots : Leave(s, t)
  \/ \E n \in Names :
       \/ \E c \in Cells, x \in Payloads : Declare(n, c, x)
       \/ \E m \in Names : Alias(m, n)
       \/ Forget(n)
  \/ EnterBlock
  \/ \E P \in SUBSET Names : \E bind \in [P -> Slots] : Call(bind)

Spec == Init /\ [][Next]_vars

-----------------------------------------------------------------------------
(* Properties.                                                              *)

\* The shape of the state: a count is a number, only live Envs have bindings,
\* a constant is a bound variable, the arguments of the running calls are
\* still held by the callers, and only a cell in use has contents.
TypeOK ==
  /\ heap \in [refs : [Cells -> Nat], data : [Cells -> Payloads \cup {NoVar}],
               lost : [Cells -> Nat], fault : BOOLEAN, aborted : BOOLEAN]
  /\ at \in [Places -> Cells \cup {NoVar, Null}]
  /\ \A p \in Places : at[p] # NoVar => p[1] <= depth
  /\ \A p \in Places : at[p] = Null => p[2] \in Names
  /\ konst \in SUBSET {p \in Places : p[2] \in Names /\ at[p] # NoVar}
  /\ depth \in Depths
  /\ args \in [Depths -> SUBSET Slots]
  /\ \A d \in Depths : args[d] # {} => d \in 2 .. depth
  /\ \A d \in 2 .. depth : \A a \in args[d] : at[<<d - 1, a>>] \in Cells
  /\ \A c \in Cells : heap.data[c] = NoVar <=> heap.refs[c] = 0

\* No handler retains, releases or reads a Value that was already freed.
NoUseAfterFree == ~heap.fault

\* The count of a Value is the number of places that refer to it, plus the
\* references `set c op= v` loses on a constant: nothing is freed while it is
\* referred to, and nothing else leaks, whatever the order of the statements.
Accounting ==
  \A c \in Cells : heap.refs[c] = Cardinality(Holders(c, Places)) + heap.lost[c]

\* A strong count never reaches the value that marks a weak reference, where it
\* would silently stop being counted: it stays below ML_MAX_REFS, or abort() ran.
NeverWeak ==
  \A c \in Cells : heap.refs[c] < WeakTrigger /\ (heap.refs[c] >= MaxRefs => heap.aborted)

Contents(p) == IF at[p] \in Cells THEN heap.data[at[p]] ELSE at[p]

\* A constant keeps its value for as long as its binding exists, whatever is
\* assigned, updated, declared or aliased meanwhile.
ConstantsKeepTheirValue ==
  [][\A p \in konst \cap konst' : Contents(p)' = Contents(p)]_vars

\* Counting, sharing and freeing cells is invisible: scripts see plain values.
Values == INSTANCE MilaScopes WITH val <- [p \in Places |-> Contents(p)]

ImplementsScopes == Values!Spec
=============================================================================

----------------------------- MODULE CallChain ------------------------------
(***************************************************************************)
(* The chain of parent pointers that env_get, env_set and env_get_context- *)
(* ual walk to resolve a name (mila.c), as blocks, calls, function         *)
(* definitions and threads build it.                                       *)
(*                                                                         *)
(* Every function value owns one closure Env.  call_function points        *)
(* closure->parent at the caller's Env and gives the new frame the closure *)
(* as parent, so the closure is shared by all the calls of the function    *)
(* that run at the same time, in the same task or in several.              *)
(***************************************************************************)
EXTENDS Naturals, Sequences

CONSTANTS
  Tasks,     \* the main program, and the threads that thread.make starts
  Main,      \* the main program: its outermost Env is the global one
  Funs,      \* function values
  Block,     \* a stack entry that is no call: the Env of a { block }
  Global,    \* the global Env
  NoEnv,     \* the C NULL pointer
  Idle,      \* no lookup is going on
  MaxFrames, \* bound on the Envs a task has on its stack
  Slips      \* what scripts may do, of what the interpreter gets wrong: "reentry",
             \* call a function that is running; "drop_running", lose its last reference

ASSUME ChainAssumption ==
  /\ Main \in Tasks
  /\ Block \notin Funs
  /\ MaxFrames \in Nat
  /\ Slips \subseteq {"reentry", "drop_running"}

Closures == Funs \X {"closure"}
Frames   == Tasks \X (1 .. MaxFrames)
Envs     == {Global} \cup Closures \cup Frames

Closure(f) == <<f, "closure">>

ASSUME EnvsDistinct ==
  /\ NoEnv \notin Envs /\ Idle \notin Envs /\ Idle # NoEnv
  /\ Global \notin Closures \cup Frames
  /\ Closures \cap Frames = {}

VARIABLES
  parent,  \* parent[e], the Env in which the search goes on after e
  stack,   \* stack[t]: what the frames <<t, 1>>, <<t, 2>>, ... of task t were made for
  alive,   \* the function values that exist
  look     \* look[t]: the Env that the lookup of task t is about to search

vars == <<parent, stack, alive, look>>

Height(t) == Len(stack[t])
Base(t)   == IF t = Main THEN Global ELSE NoEnv

\* The Env above which frame k of task t was made.
Below(t, k) == IF k = 1 THEN Base(t) ELSE <<t, k - 1>>

\* The Env in which t evaluates.
Here(t) == IF Height(t) = 0 THEN Base(t) ELSE <<t, Height(t)>>

\* Task t evaluates statements: a thread does so inside the call of its function.
Evaluating(t) == look[t] = Idle /\ (t = Main \/ Height(t) > 0)

Running(f) == \E t \in Tasks : \E k \in 1 .. Height(t) : stack[t][k] = f

\* A thread keeps a reference to the function it was made with.
Kept(f) == \E t \in Tasks \ {Main} : Height(t) > 0 /\ stack[t][1] = f

Live(e) == \/ e = Global
           \/ \E f \in alive : e = Closure(f)
           \/ \E t \in Tasks : \E k \in 1 .. Height(t) : e = <<t, k>>

Init ==
  /\ parent = [e \in Envs |-> NoEnv]
  /\ stack = [t \in Tasks |-> <<>>]
  /\ alive = {}
  /\ look = [t \in Tasks |-> Idle]

-----------------------------------------------------------------------------
\* A function literal or an fn statement: env_new(NULL), vfunction.
Define(t, f) ==
  /\ Evaluating(t) /\ f \notin alive
  /\ alive' = alive \cup {f}
  /\ parent' = [parent EXCEPT ![Closure(f)] = NoEnv]
  /\ UNCHANGED <<stack, look>>

\* The last reference goes (a rebinding, a forget, the end of a scope): the
\* closure is freed.  call_function does not retain the function it runs.
Lose(t, f) ==
  /\ Evaluating(t) /\ f \in alive
  /\ ~Running(f) \/ ("drop_running" \in Slips /\ ~Kept(f))
  /\ alive' = alive \ {f}
  /\ UNCHANGED <<parent, stack, look>>

Push(t, x, p) ==
  /\ Height(t) < MaxFrames
  /\ stack' = [stack EXCEPT ![t] = Append(@, x)]
  /\ parent' = p
  /\ UNCHANGED <<alive, look>>

\* mutant of Call: the closure is linked to the caller only the first time
CallLinkingOnce(t, f) ==
  /\ look[t] = Idle /\ f \in alive
  /\ ~Running(f) \/ "reentry" \in Slips
  /\ Push(t, f, [parent EXCEPT ![<<t, Height(t) + 1>>] = Closure(f),
                               ![Closure(f)] = IF @ = NoEnv THEN Here(t) ELSE @])

\* mutant of Call: the new frame is linked to the caller, past the closure
CallPastClosure(t, f) ==
  /\ look[t] = Idle /\ f \in alive
  /\ ~Running(f) \/ "reentry" \in Slips
  /\ Push(t, f, [parent EXCEPT ![<<t, Height(t) + 1>>] = Here(t), ![Closure(f)] = Here(t)])

\* call_function: from an expression, or, on an empty stack, from the start of a
\* thread (mila_thread_worker), which passes NULL for the caller's Env.
Call(t, f) ==
  /\ look[t] = Idle /\ f \in alive
  /\ ~Running(f) \/ "reentry" \in Slips
  /\ Push(t, f, [parent EXCEPT ![Closure(f)] = Here(t),
                               ![<<t, Height(t) + 1>>] = Closure(f)])

\* eval_block: env_new(env).
EnterBlock(t) ==
  /\ Evaluating(t)
  /\ Push(t, Block, [parent EXCEPT ![<<t, Height(t) + 1>>] = Here(t)])

\* The end of a block or call: env_free(frame).  closure->parent stays as it was.
Leave(t) ==
  /\ Evaluating(t) /\ Height(t) > 0
  /\ stack' = [stack EXCEPT ![t] = SubSeq(@, 1, Len(@) - 1)]
  /\ UNCHANGED <<parent, alive, look>>

LookupInFrame(t) ==              \* mutant of Lookup: the global Env is taken for a frame
  /\ Evaluating(t)
  /\ look' = [look EXCEPT ![t] = <<t, Height(t)>>]
  /\ UNCHANGED <<parent, stack, alive>>

\* env_get and its siblings: search this Env, then its parent, until NULL.
Lookup(t) ==
  /\ Evaluating(t)
  /\ look' = [look EXCEPT ![t] = Here(t)]
  /\ UNCHANGED <<parent, stack, alive>>

Found(t) ==
  /\ look[t] \in Envs
  /\ look' = [look EXCEPT ![t] = Idle]
  /\ UNCHANGED <<parent, stack, alive>>

Walk(t) ==
  /\ look[t] # Idle
  /\ look' = [look EXCEPT ![t] = IF @ = NoEnv THEN Idle ELSE parent[@]]
  /\ UNCHANGED <<parent, stack, alive>>

Next ==
  \E t \in Tasks :
    \/ EnterBlock(t) \/ Leave(t) \/ Lookup(t) \/ Found(t) \/ Walk(t)
    \/ \E f \in Funs : Define(t, f) \/ Lose(t, f) \/ Call(t, f)

\* A task in the middle of a search keeps searching: the loop of env_get waits
\* for nobody, and the operating system schedules every thread.
Fairness == \A t \in Tasks : WF_vars(Walk(t))

Spec     == Init /\ [][Next]_vars
FairSpec == Spec /\ Fairness

-----------------------------------------------------------------------------
(* Properties.                                                              *)

TypeOK ==
  /\ parent \in [Envs -> Envs \cup {NoEnv}]
  /\ stack \in [Tasks -> Seq(Funs \cup {Block})]
  /\ \A t \in Tasks : Height(t) <= MaxFrames
  /\ alive \subseteq Funs
  /\ look \in [Tasks -> Envs \cup {NoEnv, Idle}]

\* No lookup searches an Env that was freed: not the frame of a call that has
\* returned, nor the closure of a function that is gone.
SearchesLiveEnvs == \A t \in Tasks : look[t] \in Envs => Live(look[t])

\* Every frame leads to the Env it was called or opened in, through the closure
\* of the function it runs: what dynamic scoping promises, whatever other calls,
\* threads, definitions and losses come between.
Linked ==
  \A t \in Tasks : \A k \in 1 .. Height(t) :
    LET x == stack[t][k] IN
    IF x = Block THEN parent[<<t, k>>] = Below(t, k)
    ELSE parent[<<t, k>>] = Closure(x) /\ parent[Closure(x)] = Below(t, k)

\* The frames of t that e belongs to, as the frame itself or as the closure of the
\* function it runs.
Levels(t, e) == {k \in 1 .. Height(t) :
                   e = <<t, k>> \/ (stack[t][k] # Block /\ e = Closure(stack[t][k]))}

\* A lookup of task t visits the frames of t, the closures of the functions it
\* runs and, in the main program, the globals: never the variables of another task.
Own(t, e)        == (t = Main /\ e = Global) \/ Levels(t, e) # {}
StaysInOwnScopes == \A t \in Tasks : look[t] \in Envs => Own(t, look[t])

\* How far the search of task t is from its end when it has reached e: two steps
\* for every frame, the frame and the closure, below the innermost one.
Rank(t, e) ==
  IF e = Idle THEN 0
  ELSE IF e = NoEnv THEN 1
  ELSE IF e = Global THEN 2
  ELSE IF Levels(t, e) = {} THEN 2 * MaxFrames + 3
  ELSE LET k == CHOOSE k \in Levels(t, e) : TRUE
       IN  IF e = <<t, k>> THEN 2 * k + 2 ELSE 2 * k + 1

\* Every step of a search goes outwards, so it passes no scope twice and ends.
SearchGoesOut ==
  [][\A t \in Tasks : look[t] # Idle /\ look'[t] # look[t] =>
       Rank(t, look'[t]) < Rank(t, look[t])]_vars

\* Every lookup ends, whether the name is bound or not.
LookupEnds == \A t \in Tasks : look[t] # Idle ~> look[t] = Idle
=============================================================================

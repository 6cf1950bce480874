---------------------------- MODULE MilaThreads -----------------------------
(***************************************************************************)
(* The threads of the MiLa interpreter (ml_threading.c): the registry of   *)
(* thread contexts and its lock, the worker, thread.make, join, cancel,    *)
(* check_cancel, set_daemon, status, and the cleanup when the interpreter  *)
(* halts.  Contexts are read and written without the lock: only            *)
(* thread_registry_add, thread_registry_get and mila_threads_cleanup take  *)
(* it, the last one while it runs script code.                             *)
(***************************************************************************)
EXTENDS Naturals, Sequences

CONSTANTS
  Main,        \* the main program
  MaxThreads,  \* bound on the threads that are made
  NoId,        \* no thread is asked about
  Slips        \* what scripts and the system may do, of what the interpreter gets wrong:
               \*   "unjoined", end the main program while a thread runs;
               \*   "shared", join or cancel one thread from two places;
               \*   "hook_asks", call thread.status and the like in on_kill at the halt;
               \*   "create_fails", pthread_create refuses

Ids   == 0 .. MaxThreads - 1
Tasks == {Main} \cup Ids

ASSUME ThreadsAssumption ==
  /\ MaxThreads \in Nat
  /\ Main \notin Ids /\ NoId \notin Ids
  /\ Slips \subseteq {"unjoined", "shared", "hook_asks", "create_fails"}

VARIABLES
  ctx,      \* ctx[i]: the ThreadContext registered under i
  count,    \* thread_registry.count
  held,     \* mila_threads_cleanup holds the lock of the registry
  pc,       \* pc[t]: where task t is
  op,       \* op[t]: the thread.* call or the cleanup that t is in, and the thread it is about
  asks,     \* asks[t]: the thread t asks about, in thread_registry_get
  claimed,  \* the threads that some task has joined or cancelled
  told      \* told[i]: the causes that the on_kill of thread i was called with (auxiliary)

vars == <<ctx, count, held, pc, op, asks, claimed, told>>

\* hook: "none" when no on_kill was given, "ran" when it was set to NULL after the call.
Fresh(hook) == [status |-> 0, daemon |-> FALSE, cancelled |-> FALSE, hook |-> hook,
                freed |-> FALSE]

\* t evaluates statements of its script; a lookup in the registry blocks it.
InScript(t)   == pc[t] = "script" /\ asks[t] = NoId
Registered(i) == i < count /\ pc[i] # "none"

Goto(t, p)     == pc' = [pc EXCEPT ![t] = p]
Set(i, f, v)   == ctx' = [ctx EXCEPT ![i] = [ctx[i] EXCEPT ![f] = v]]
About(t, k, i) == op' = [op EXCEPT ![t] = [kind |-> k, id |-> i]]

Init ==
  /\ ctx = [i \in Ids |-> Fresh("none")]
  /\ count = 0
  /\ held = FALSE
  /\ pc = [t \in Tasks |-> IF t = Main THEN "script" ELSE "none"]
  /\ op = [t \in Tasks |-> [kind |-> "none", id |-> 0]]
  /\ asks = [t \in Tasks |-> NoId]
  /\ claimed = {}
  /\ told = [i \in Ids |-> <<>>]

-----------------------------------------------------------------------------
(* thread.make: the context is registered, then the thread is created.      *)

MakeIdLate(t, hook) ==           \* mutant of Make: the id is read after the increment
  /\ InScript(t) /\ ~held /\ count < MaxThreads
  /\ ctx' = [ctx EXCEPT ![count] = Fresh(hook)]
  /\ count' = count + 1
  /\ Goto(t, "make") /\ About(t, "make", count + 1)
  /\ UNCHANGED <<held, asks, claimed, told>>

Make(t, hook) ==
  /\ InScript(t) /\ ~held /\ count < MaxThreads
  /\ ctx' = [ctx EXCEPT ![count] = Fresh(hook)]
  /\ count' = count + 1
  /\ Goto(t, "make") /\ About(t, "make", count)
  /\ UNCHANGED <<held, asks, claimed, told>>

\* If pthread_create fails, the context is freed and stays in the registry.
Create(t) ==
  /\ pc[t] = "make"
  /\ LET i == op[t].id IN
       \/ pc' = [pc EXCEPT ![t] = "script", ![i] = "begin"] /\ UNCHANGED ctx
       \/ "create_fails" \in Slips /\ Set(i, "freed", TRUE) /\ Goto(t, "script")
  /\ UNCHANGED <<count, held, op, asks, claimed, told>>

-----------------------------------------------------------------------------
(* mila_thread_worker.                                                      *)

StartDone(i) ==                  \* mutant of Start: the status is final before the call
  /\ pc[i] = "begin"
  /\ Set(i, "status", 2)
  /\ Goto(i, "script")
  /\ UNCHANGED <<count, held, op, asks, claimed, told>>

Start(i) ==
  /\ pc[i] = "begin"
  /\ Set(i, "status", 1)
  /\ Goto(i, "script")
  /\ UNCHANGED <<count, held, op, asks, claimed, told>>

End(i) ==
  /\ Set(i, "status", 2)
  /\ Goto(i, "over")
  /\ UNCHANGED <<count, held, op, asks, claimed, told>>

\* The function returns.
Finish(i) == InScript(i) /\ End(i)

\* thread.check_cancel in the function of a cancelled thread: E_THREAD_HALT ends it.
Halt(i) == InScript(i) /\ ~held /\ ctx[i].cancelled /\ End(i)

-----------------------------------------------------------------------------
(* Calls about other threads, from scripts that know the id.                *)

\* A thread is joined or cancelled once, by the main program or an older thread.
MayClaim(t, i) == "shared" \notin Slips => i \notin claimed /\ (t \in Ids => t < i)

Join(t, i) ==
  /\ InScript(t) /\ ~held /\ Registered(i) /\ MayClaim(t, i)
  /\ ~ctx[i].cancelled           \* "Thread %i was already cancelled!"
  /\ Goto(t, "join") /\ About(t, "join", i)
  /\ claimed' = claimed \cup {i}
  /\ UNCHANGED <<ctx, count, held, asks, told>>

CancelUnmarked(t, i) ==          \* mutant of Cancel: is_cancelled is not set
  /\ InScript(t) /\ ~held /\ Registered(i) /\ MayClaim(t, i)
  /\ Goto(t, "join") /\ About(t, "cancel", i)
  /\ claimed' = claimed \cup {i}
  /\ UNCHANGED <<ctx, count, held, asks, told>>

Cancel(t, i) ==
  /\ InScript(t) /\ ~held /\ Registered(i) /\ MayClaim(t, i)
  /\ Set(i, "cancelled", TRUE)
  /\ Goto(t, "join") /\ About(t, "cancel", i)
  /\ claimed' = claimed \cup {i}
  /\ UNCHANGED <<count, held, asks, told>>

\* pthread_join returns: the thread is over, or joining it is undefined, because
\* it is the caller or another task joins it, and the call returns at once.
Joined(t) ==
  /\ pc[t] = "join"
  /\ LET i == op[t].id IN
       \/ pc[i] = "over"
       \/ i = t
       \/ \E u \in Tasks \ {t} : pc[u] = "join" /\ op[u].id = i
  /\ Goto(t, "hook")
  /\ UNCHANGED <<ctx, count, held, op, asks, claimed, told>>

Tell(t, i, cause) ==
  /\ told' = [told EXCEPT ![i] = Append(@, cause)]
  /\ Goto(t, "call")

\* The tail of join and of cancel: call on_kill if there is one.
RunHook(t) ==
  /\ pc[t] = "hook"
  /\ LET i == op[t].id IN
       \/ /\ ctx[i].hook = "set"
          /\ Tell(t, i, IF op[t].kind = "cancel" THEN "cancelled" ELSE "normal")
       \/ ctx[i].hook # "set" /\ Goto(t, "script") /\ UNCHANGED told
  /\ UNCHANGED <<ctx, count, held, op, asks, claimed>>

HookReturnsKeeping(t) ==         \* mutant of HookReturns: on_kill is not set to NULL
  /\ pc[t] = "call" /\ asks[t] = NoId
  /\ Goto(t, IF op[t].kind = "sweep" THEN "free" ELSE "script")
  /\ UNCHANGED <<ctx, count, held, op, asks, claimed, told>>

\* on_kill returns; it is released and set to NULL.
HookReturns(t) ==
  /\ pc[t] = "call" /\ asks[t] = NoId
  /\ Set(op[t].id, "hook", "ran")
  /\ Goto(t, IF op[t].kind = "sweep" THEN "free" ELSE "script")
  /\ UNCHANGED <<count, held, op, asks, claimed, told>>

\* thread.status, thread.dump, thread.check_cancel, in a script or in on_kill.
Ask(t, i) ==
  /\ InScript(t) \/ (pc[t] = "call" /\ asks[t] = NoId)
  /\ Registered(i)
  /\ held => t # Main \/ "hook_asks" \in Slips
  /\ asks' = [asks EXCEPT ![t] = i]
  /\ UNCHANGED <<ctx, count, held, pc, op, claimed, told>>

Answer(t) ==
  /\ asks[t] # NoId /\ ~held
  /\ asks' = [asks EXCEPT ![t] = NoId]
  /\ UNCHANGED <<ctx, count, held, pc, op, claimed, told>>

SetDaemon(t, i) ==
  /\ InScript(t) /\ ~held /\ Registered(i)
  /\ Set(i, "daemon", TRUE)
  /\ UNCHANGED <<count, held, pc, op, asks, claimed, told>>

-----------------------------------------------------------------------------
(* mila_threads_cleanup, when the main program ends.  A script that wants   *)
(* its threads to be over can see that from thread.status.                  *)

EndMain ==
  /\ InScript(Main) /\ ~held
  /\ "unjoined" \notin Slips => \A i \in Ids : Registered(i) => ctx[i].status = 2
  /\ held' = TRUE
  /\ Goto(Main, "sweep") /\ About(Main, "sweep", 0)
  /\ UNCHANGED <<ctx, count, asks, claimed, told>>

SweepLiveHooks ==                \* mutant of SweepHook: not for a daemon that is done
  LET i == op[Main].id IN
  /\ pc[Main] = "sweep" /\ i < count
  /\ \/ /\ ctx[i].hook = "set" /\ ~(ctx[i].daemon /\ ctx[i].status = 2)
        /\ ctx' = [ctx EXCEPT ![i].cancelled = @ \/ ctx[i].daemon]
        /\ Tell(Main, i, IF ctx[i].daemon THEN "interpreter halt" ELSE "normal")
     \/ /\ ctx[i].hook # "set" \/ (ctx[i].daemon /\ ctx[i].status = 2)
        /\ Goto(Main, "free") /\ UNCHANGED <<ctx, told>>
  /\ UNCHANGED <<count, held, op, asks, claimed>>

SweepHook ==
  LET i == op[Main].id IN
  /\ pc[Main] = "sweep" /\ i < count
  /\ \/ /\ ctx[i].hook = "set"
        /\ ctx' = [ctx EXCEPT ![i].cancelled = @ \/ ctx[i].daemon]
        /\ Tell(Main, i, IF ctx[i].daemon /\ ctx[i].status # 2
                         THEN "interpreter halt" ELSE "normal")
     \/ ctx[i].hook # "set" /\ Goto(Main, "free") /\ UNCHANGED <<ctx, told>>
  /\ UNCHANGED <<count, held, op, asks, claimed>>

\* The function is released, the context freed, whether its thread runs or not.
SweepFree ==
  /\ pc[Main] = "free"
  /\ Set(op[Main].id, "freed", TRUE)
  /\ Goto(Main, "sweep")
  /\ About(Main, "sweep", op[Main].id + 1)
  /\ UNCHANGED <<count, held, asks, claimed, told>>

SweepEnd ==
  /\ pc[Main] = "sweep" /\ op[Main].id = count
  /\ held' = FALSE
  /\ Goto(Main, "gone")
  /\ UNCHANGED <<ctx, count, op, asks, claimed, told>>

\* main returns, and the process with all its threads is gone.
Exited == pc[Main] = "gone" /\ UNCHANGED vars

Calls(t) ==
  \/ Create(t) \/ Joined(t) \/ RunHook(t) \/ HookReturns(t) \/ Answer(t)
  \/ \E hook \in {"none", "set"} : Make(t, hook)
  \/ \E i \in Ids : Join(t, i) \/ Cancel(t, i) \/ Ask(t, i) \/ SetDaemon(t, i)

Next ==
  \/ \E t \in Tasks : Calls(t)
  \/ \E i \in Ids : Start(i) \/ Finish(i) \/ Halt(i)
  \/ EndMain \/ SweepHook \/ SweepFree \/ SweepEnd \/ Exited

Spec == Init /\ [][Next]_vars

\* The system schedules every thread, and native code runs on until it blocks.
\* on_kill functions return.  A thread that may be cancelled keeps calling
\* check_cancel, as docs/Builtins.md asks.  Nothing makes any other thread end.
Fairness ==
  /\ \A t \in Tasks : /\ WF_vars(Create(t)) /\ WF_vars(Joined(t)) /\ WF_vars(RunHook(t))
                      /\ SF_vars(HookReturns(t)) /\ WF_vars(Answer(t))
  /\ \A i \in Ids : WF_vars(Start(i)) /\ SF_vars(Halt(i))
  /\ WF_vars(SweepHook) /\ WF_vars(SweepFree) /\ WF_vars(SweepEnd)

FairSpec == Spec /\ Fairness

-----------------------------------------------------------------------------
(* Properties.                                                              *)

Causes == {"normal", "cancelled", "interpreter halt"}

TypeOK ==
  /\ ctx \in [Ids -> [status : 0 .. 2, daemon : BOOLEAN, cancelled : BOOLEAN,
                      hook : {"none", "set", "ran"}, freed : BOOLEAN]]
  /\ count \in 0 .. MaxThreads
  /\ held \in BOOLEAN
  /\ pc \in [Tasks -> {"none", "begin", "script", "make", "join", "hook", "call",
                       "over", "sweep", "free", "gone"}]
  /\ op \in [Tasks -> [kind : {"none", "make", "join", "cancel", "sweep"}, id : 0 .. MaxThreads]]
  /\ asks \in [Tasks -> Ids \cup {NoId}]
  /\ claimed \subseteq Ids
  /\ told \in [Ids -> Seq(Causes)]
  /\ \A i \in Ids : pc[i] # "none" => i < count

\* The context that task t reads or writes in one of its next steps.
Uses(t) ==
  {i \in Ids : \/ t = i /\ pc[i] \notin {"none", "over"}
               \/ asks[t] = i
               \/ op[t].id = i /\ pc[t] \in {"make", "join", "hook", "call", "free"}
               \/ t = Main /\ pc[t] = "sweep" /\ op[t].id <= i /\ i < count}

\* A context outlives its use: none is freed that a worker, a join or a cleanup
\* in progress is still to read or write.
ContextsOutliveUse == \A i \in Ids : ctx[i].freed => \A t \in Tasks : i \notin Uses(t)

\* on_kill is called when the thread has ended, not before.
ToldAfterEnd == \A i \in Ids : told[i] # <<>> => pc[i] = "over"

\* The promise of thread.make: one call of on_kill, after the end.
Life(i) ==
  IF told[i] = <<>>
  THEN IF pc[i] = "none" THEN "unmade" ELSE IF pc[i] = "over" THEN "ended" ELSE "running"
  ELSE IF Len(told[i]) = 1 /\ pc[i] = "over" THEN "told" ELSE "broken"

Lives == INSTANCE ThreadLives WITH life <- [i \in Ids |-> Life(i)]

ImplementsThreadLives == Lives!Spec

\* When the main program has ended, the cleanup comes to its end, and by then every
\* on_kill that was given has been called.
HooksRun ==
  pc[Main] = "sweep" ~>
    pc[Main] = "gone" /\ \A i \in Ids : ctx[i].hook = "none" \/ told[i] # <<>>

\* thread.cancel returns, unless the thread it ends is itself waiting for another.
CancelReturns ==
  \A t \in Tasks, i \in Ids :
    pc[t] = "join" /\ op[t] = [kind |-> "cancel", id |-> i] ~>
      pc[t] # "join" \/ pc[i] = "join"
=============================================================================

------------------------- MODULE MilaThreadsProofs --------------------------
(***************************************************************************)
(* Theorems about MilaThreads, for any number of threads, when scripts and *)
(* the system avoid the Slips: contexts keep their type, none is freed     *)
(* while a worker, a join or the cleanup is still to read or write it, and *)
(* every thread runs, ends and has its on_kill called once, after its end. *)
(***************************************************************************)
EXTENDS MilaThreads, TLAPS

-----------------------------------------------------------------------------
(* The inductive invariant.                                                 *)

\* The cleanup is on its way, or over.
Sweeping == \/ pc[Main] \in {"sweep", "free", "gone"}
            \/ pc[Main] = "call" /\ op[Main].kind = "sweep"

\* The status 2 is set when the function of the thread has returned, not before.
StatusFollows == \A i \in Ids : ctx[i].status = 2 => pc[i] = "over"

\* A call that is about a thread is about one that is registered; thread.make is
\* about one that no other thread.make is about, and that has not begun.
CallsKnowTheirThread ==
  /\ \A t \in Tasks : pc[t] \in {"make", "join", "hook", "call", "free"} => op[t].id < count
  /\ \A t \in Tasks : pc[t] = "make" => pc[op[t].id] = "none"
  /\ \A t, u \in Tasks : t # u /\ pc[t] = "make" /\ pc[u] = "make" => op[t].id # op[u].id
  /\ pc[Main] \in {"join", "hook"} => op[Main].kind # "sweep"
  /\ pc[Main] \in {"sweep", "free"} => op[Main].kind = "sweep"

\* Only script code asks, and none does for the main program during the cleanup.
OnlyScriptsAsk ==
  /\ \A t \in Tasks : asks[t] # NoId => pc[t] \in {"script", "call"}
  /\ Sweeping => asks[Main] = NoId

\* The main program ends after its threads, with the lock held until it is gone.
SweepsAlone ==
  /\ Sweeping => \A i \in Ids : pc[i] \in {"none", "over"}
  /\ Sweeping /\ pc[Main] # "gone" => held

\* What is freed lies behind the place that the cleanup has reached.
FreedBehind ==
  \A i \in Ids : ctx[i].freed => Sweeping /\ (pc[Main] # "gone" => i < op[Main].id)

IInv == TypeOK /\ StatusFollows /\ CallsKnowTheirThread /\ OnlyScriptsAsk /\ SweepsAlone
          /\ FreedBehind

\* What contexts, the places of tasks and their calls are made of, as in TypeOK.
Contexts == [status : 0 .. 2, daemon : BOOLEAN, cancelled : BOOLEAN,
             hook : {"none", "set", "ran"}, freed : BOOLEAN]
Places == {"none", "begin", "script", "make", "join", "hook", "call", "over", "sweep", "free",
           "gone"}
Operations == [kind : {"none", "make", "join", "cancel", "sweep"}, id : 0 .. MaxThreads]

\* Setting a field of a context keeps the contexts what they are, and the others.
LEMMA SetKeeps ==
  ASSUME TypeOK, NEW i \in Ids, NEW f \in {"status", "daemon", "cancelled", "hook", "freed"}, NEW v,
         Set(i, f, v),
         \/ f = "status" /\ v \in 0 .. 2
         \/ f = "hook" /\ v \in {"none", "set", "ran"}
         \/ f \in {"daemon", "cancelled", "freed"} /\ v \in BOOLEAN
  PROVE  /\ ctx' \in [Ids -> Contexts]
         /\ \A j \in Ids \ {i} : ctx'[j] = ctx[j]
         /\ f # "freed" => ctx'[i].freed = ctx[i].freed
         /\ f # "status" => ctx'[i].status = ctx[i].status
<1> DEFINE c == ctx[i]
           d == [c EXCEPT ![f] = v]
<1>1. ctx \in [Ids -> Contexts] /\ c \in Contexts
  BY DEF TypeOK, Contexts
<1>2. d \in Contexts /\ (f # "freed" => d.freed = c.freed) /\ (f # "status" => d.status = c.status)
  <2> HIDE DEF c
  <2>1. c = [status |-> c.status, daemon |-> c.daemon, cancelled |-> c.cancelled,
             hook |-> c.hook, freed |-> c.freed]
    BY <1>1 DEF Contexts
  <2>2. CASE f = "status"
    BY <1>1, <2>2 DEF Contexts
  <2>3. CASE f = "hook"
    BY <1>1, <2>3 DEF Contexts
  <2>4. CASE f = "daemon"
    BY <1>1, <2>4 DEF Contexts
  <2>5. CASE f = "cancelled"
    BY <1>1, <2>5 DEF Contexts
  <2>6. CASE f = "freed"
    BY <1>1, <2>6 DEF Contexts
  <2> QED BY <2>2, <2>3, <2>4, <2>5, <2>6
<1>3. ctx' = [ctx EXCEPT ![i] = d]
  BY DEF Set
<1> HIDE DEF c, d
<1> QED BY <1>1, <1>2, <1>3 DEF c

LEMMA TellKeeps ==
  ASSUME TypeOK, NEW t \in Tasks, NEW i \in Ids, NEW cause \in Causes, Tell(t, i, cause)
  PROVE  told' \in [Ids -> Seq(Causes)]
<1>1. told \in [Ids -> Seq(Causes)]
  BY DEF TypeOK
<1>2. Append(told[i], cause) \in Seq(Causes)
  BY <1>1
<1>3. told' = [told EXCEPT ![i] = Append(told[i], cause)]
  BY DEF Tell
<1> QED BY <1>1, <1>2, <1>3

-----------------------------------------------------------------------------
(* The steps.                                                               *)

LEMMA CreateInv ==
  ASSUME IInv, Slips = {}, NEW t \in Tasks, Create(t)
  PROVE  IInv'
<1> USE ThreadsAssumption DEF IInv, TypeOK, Tasks, Ids, Create, Goto, Set
<1>1. TypeOK'
  <2>1. ctx' \in [Ids -> Contexts]
    BY DEF Contexts
  <2>2. pc' \in [Tasks -> Places] /\ op' \in [Tasks -> Operations]
    BY DEF Places, Operations, CallsKnowTheirThread
  <2>3. told' \in [Ids -> Seq(Causes)]
    BY DEF Causes
  <2>4. \A j \in Ids : pc'[j] # "none" => j < count'
    BY DEF CallsKnowTheirThread
  <2> QED BY <2>1, <2>2, <2>3, <2>4 DEF Contexts, Places, Operations
<1>2. StatusFollows'
  BY DEF StatusFollows, CallsKnowTheirThread
<1>3. CallsKnowTheirThread'
  <2> DEFINE i == op[t].id
  <2>1. /\ i \in Ids /\ i < count /\ pc[i] = "none" /\ i # t /\ i # Main
        /\ pc' = [pc EXCEPT ![t] = "script", ![i] = "begin"]
        /\ UNCHANGED <<op, count>>
    BY DEF CallsKnowTheirThread
  <2>2. /\ pc'[t] = "script" /\ pc'[i] = "begin"
        /\ \A u \in Tasks \ {t, i} : pc'[u] = pc[u]
    BY <2>1
  <2>3. \A u \in Tasks : pc'[u] \in {"make", "join", "hook", "call", "free"} => op'[u].id < count'
    BY <2>1, <2>2 DEF CallsKnowTheirThread
  <2>4. ASSUME NEW u \in Tasks, pc'[u] = "make" PROVE pc'[op'[u].id] = "none"
    <3>1. u # t /\ pc[u] = "make" /\ op'[u].id = op[u].id /\ op[u].id # i /\ op[u].id \in Ids
      BY <2>1, <2>2, <2>4 DEF CallsKnowTheirThread
    <3>2. pc[op[u].id] = "none"
      BY <3>1 DEF CallsKnowTheirThread
    <3> QED BY <2>2, <3>1, <3>2
  <2>5. \A u, w \in Tasks : u # w /\ pc'[u] = "make" /\ pc'[w] = "make" => op'[u].id # op'[w].id
    BY <2>1, <2>2 DEF CallsKnowTheirThread
  <2>6. /\ pc'[Main] \in {"join", "hook"} => op'[Main].kind # "sweep"
        /\ pc'[Main] \in {"sweep", "free"} => op'[Main].kind = "sweep"
    BY <2>1, <2>2 DEF CallsKnowTheirThread
  <2> QED BY <2>3, <2>4, <2>5, <2>6 DEF CallsKnowTheirThread
<1>4. OnlyScriptsAsk'
  BY DEF CallsKnowTheirThread, OnlyScriptsAsk, Sweeping
<1>5. SweepsAlone'
  BY DEF SweepsAlone, Sweeping
<1>6. FreedBehind'
  BY DEF SweepsAlone, FreedBehind, Sweeping
<1> QED BY <1>1, <1>2, <1>3, <1>4, <1>5, <1>6

LEMMA JoinedInv ==
  ASSUME IInv, Slips = {}, NEW t \in Tasks, Joined(t)
  PROVE  IInv'
<1> USE ThreadsAssumption DEF IInv, TypeOK, Tasks, Ids, Joined, Goto
<1>1. TypeOK'
  <2>1. ctx' \in [Ids -> Contexts]
    BY DEF Contexts
  <2>2. pc' \in [Tasks -> Places] /\ op' \in [Tasks -> Operations]
    BY DEF Places, Operations, CallsKnowTheirThread
  <2>3. told' \in [Ids -> Seq(Causes)]
    BY DEF Causes
  <2>4. \A j \in Ids : pc'[j] # "none" => j < count'
    BY DEF CallsKnowTheirThread
  <2> QED BY <2>1, <2>2, <2>3, <2>4 DEF Contexts, Places, Operations
<1>2. StatusFollows'
  BY DEF StatusFollows
<1>3. CallsKnowTheirThread'
  BY DEF CallsKnowTheirThread
<1>4. OnlyScriptsAsk'
  BY DEF OnlyScriptsAsk, Sweeping
<1>5. SweepsAlone'
  BY DEF SweepsAlone, Sweeping
<1>6. FreedBehind'
  BY DEF FreedBehind, Sweeping
<1> QED BY <1>1, <1>2, <1>3, <1>4, <1>5, <1>6

LEMMA RunHookInv ==
  ASSUME IInv, Slips = {}, NEW t \in Tasks, RunHook(t)
  PROVE  IInv'
<1> USE ThreadsAssumption DEF IInv, TypeOK, Tasks, Ids, RunHook, Goto, Tell
<1>1. TypeOK'
  <2>1. ctx' \in [Ids -> Contexts]
    BY DEF Contexts
  <2>2. pc' \in [Tasks -> Places] /\ op' \in [Tasks -> Operations]
    BY DEF Places, Operations, CallsKnowTheirThread
  <2>3. told' \in [Ids -> Seq(Causes)]
    <3>1. op[t].id \in Ids
      BY DEF CallsKnowTheirThread
    <3>2. CASE UNCHANGED told
      BY <3>2
    <3>3. ASSUME NEW cause \in Causes, Tell(t, op[t].id, cause)
          PROVE  told' \in [Ids -> Seq(Causes)]
      BY <3>1, <3>3, TellKeeps
    <3> QED BY <3>2, <3>3 DEF Causes
  <2>4. \A j \in Ids : pc'[j] # "none" => j < count'
    BY DEF CallsKnowTheirThread
  <2> QED BY <2>1, <2>2, <2>3, <2>4 DEF Contexts, Places, Operations
<1>2. StatusFollows'
  BY DEF StatusFollows
<1>3. CallsKnowTheirThread'
  <2>1. /\ pc' = [pc EXCEPT ![t] = "call"] \/ pc' = [pc EXCEPT ![t] = "script"]
        /\ UNCHANGED <<op, count>> /\ pc[t] = "hook"
    OBVIOUS
  <2>2. \A u \in Tasks : pc'[u] \in {"make", "join", "hook", "call", "free"} => op'[u].id < count'
    BY <2>1 DEF CallsKnowTheirThread
  <2>3. ASSUME NEW u \in Tasks, pc'[u] = "make" PROVE pc'[op'[u].id] = "none"
    <3>3. pc'[t] # "make" /\ \A w \in Tasks \ {t} : pc'[w] = pc[w]
      BY <2>1
    <3>4. u # t /\ pc[u] = "make" /\ op'[u].id = op[u].id
      BY <2>1, <2>3, <3>3
    <3>1. u # t /\ pc[u] = "make" /\ op'[u].id = op[u].id /\ op[u].id \in Ids
      BY <3>4 DEF CallsKnowTheirThread
    <3>2. pc[op[u].id] = "none"
      BY <3>1 DEF CallsKnowTheirThread
    <3> QED BY <2>1, <3>1, <3>2
  <2>4. \A u, w \in Tasks : u # w /\ pc'[u] = "make" /\ pc'[w] = "make" => op'[u].id # op'[w].id
    BY <2>1 DEF CallsKnowTheirThread
  <2>5. /\ pc'[Main] \in {"join", "hook"} => op'[Main].kind # "sweep"
        /\ pc'[Main] \in {"sweep", "free"} => op'[Main].kind = "sweep"
    BY <2>1 DEF CallsKnowTheirThread
  <2> QED BY <2>2, <2>3, <2>4, <2>5 DEF CallsKnowTheirThread
<1>4. OnlyScriptsAsk'
  BY DEF OnlyScriptsAsk, Sweeping
<1>5. SweepsAlone'
  BY SMTT(30) DEF CallsKnowTheirThread, SweepsAlone, Sweeping
<1>6. FreedBehind'
  BY DEF FreedBehind, Sweeping
<1> QED BY <1>1, <1>2, <1>3, <1>4, <1>5, <1>6

LEMMA HookReturnsInv ==
  ASSUME IInv, Slips = {}, NEW t \in Tasks, HookReturns(t)
  PROVE  IInv'
<1> USE ThreadsAssumption DEF IInv, TypeOK, Tasks, Ids, HookReturns, Goto, Set
<1>1. TypeOK'
  <2>1. ctx' \in [Ids -> Contexts]
    <3>1. op[t].id \in Ids
      BY DEF CallsKnowTheirThread
    <3> QED BY <3>1, SetKeeps
  <2>2. pc' \in [Tasks -> Places] /\ op' \in [Tasks -> Operations]
    BY DEF Places, Operations, CallsKnowTheirThread
  <2>3. told' \in [Ids -> Seq(Causes)]
    BY DEF Causes
  <2>4. \A j \in Ids : pc'[j] # "none" => j < count'
    BY DEF CallsKnowTheirThread
  <2> QED BY <2>1, <2>2, <2>3, <2>4 DEF Contexts, Places, Operations
<1>2. StatusFollows'
  BY DEF StatusFollows
<1>3. CallsKnowTheirThread'
  BY DEF CallsKnowTheirThread
<1>4. OnlyScriptsAsk'
  BY DEF OnlyScriptsAsk, Sweeping
<1>5. SweepsAlone'
  BY DEF SweepsAlone, Sweeping
<1>6. FreedBehind'
  BY DEF FreedBehind, Sweeping
<1> QED BY <1>1, <1>2, <1>3, <1>4, <1>5, <1>6

LEMMA AnswerInv ==
  ASSUME IInv, Slips = {}, NEW t \in Tasks, Answer(t)
  PROVE  IInv'
<1> USE ThreadsAssumption DEF IInv, TypeOK, Tasks, Ids, Answer
<1>1. TypeOK'
  <2>1. ctx' \in [Ids -> Contexts]
    BY DEF Contexts
  <2>2. pc' \in [Tasks -> Places] /\ op' \in [Tasks -> Operations]
    BY DEF Places, Operations, CallsKnowTheirThread
  <2>3. told' \in [Ids -> Seq(Causes)]
    BY DEF Causes
  <2>4. \A j \in Ids : pc'[j] # "none" => j < count'
    BY DEF CallsKnowTheirThread
  <2> QED BY <2>1, <2>2, <2>3, <2>4 DEF Contexts, Places, Operations
<1>2. StatusFollows'
  BY DEF StatusFollows
<1>3. CallsKnowTheirThread'
  BY DEF CallsKnowTheirThread
<1>4. OnlyScriptsAsk'
  BY DEF OnlyScriptsAsk, Sweeping
<1>5. SweepsAlone'
  BY DEF SweepsAlone, Sweeping
<1>6. FreedBehind'
  BY DEF FreedBehind, Sweeping
<1> QED BY <1>1, <1>2, <1>3, <1>4, <1>5, <1>6

LEMMA MakeInv ==
  ASSUME IInv, Slips = {}, NEW t \in Tasks, NEW hook \in {"none", "set"}, Make(t, hook)
  PROVE  IInv'
<1> USE ThreadsAssumption DEF IInv, TypeOK, Tasks, Ids, Make, InScript, Goto, About, Fresh
<1>1. TypeOK'
  <2>1. ctx' \in [Ids -> Contexts]
    BY DEF Contexts
  <2>2. pc' \in [Tasks -> Places] /\ op' \in [Tasks -> Operations]
    BY DEF Places, Operations, CallsKnowTheirThread
  <2>3. told' \in [Ids -> Seq(Causes)]
    BY DEF Causes
  <2>4. \A j \in Ids : pc'[j] # "none" => j < count'
    BY DEF CallsKnowTheirThread
  <2> QED BY <2>1, <2>2, <2>3, <2>4 DEF Contexts, Places, Operations
<1>2. StatusFollows'
  BY DEF StatusFollows
<1>3. CallsKnowTheirThread'
  BY SMTT(30) DEF StatusFollows, CallsKnowTheirThread
<1>4. OnlyScriptsAsk'
  BY DEF OnlyScriptsAsk, Sweeping
<1>5. SweepsAlone'
  BY DEF SweepsAlone, Sweeping
<1>6. FreedBehind'
  BY DEF FreedBehind, Sweeping
<1> QED BY <1>1, <1>2, <1>3, <1>4, <1>5, <1>6

LEMMA JoinInv ==
  ASSUME IInv, Slips = {}, NEW t \in Tasks, NEW i \in Ids, Join(t, i)
  PROVE  IInv'
<1> USE ThreadsAssumption DEF IInv, TypeOK, Tasks, Ids, Join, InScript, Goto, About,
     Registered, MayClaim
<1>1. TypeOK'
  <2>1. ctx' \in [Ids -> Contexts]
    BY DEF Contexts
  <2>2. pc' \in [Tasks -> Places] /\ op' \in [Tasks -> Operations]
    BY DEF Places, Operations, CallsKnowTheirThread
  <2>3. told' \in [Ids -> Seq(Causes)]
    BY DEF Causes
  <2>4. \A j \in Ids : pc'[j] # "none" => j < count'
    BY DEF CallsKnowTheirThread
  <2> QED BY <2>1, <2>2, <2>3, <2>4 DEF Contexts, Places, Operations
<1>2. StatusFollows'
  BY DEF StatusFollows
<1>3. CallsKnowTheirThread'
  BY DEF CallsKnowTheirThread
<1>4. OnlyScriptsAsk'
  BY DEF OnlyScriptsAsk, Sweeping
<1>5. SweepsAlone'
  BY DEF SweepsAlone, Sweeping
<1>6. FreedBehind'
  BY DEF FreedBehind, Sweeping
<1> QED BY <1>1, <1>2, <1>3, <1>4, <1>5, <1>6

LEMMA CancelInv ==
  ASSUME IInv, Slips = {}, NEW t \in Tasks, NEW i \in Ids, Cancel(t, i)
  PROVE  IInv'
<1> USE ThreadsAssumption DEF IInv, TypeOK, Tasks, Ids, Cancel, InScript, Goto, Set, About,
     Registered, MayClaim
<1>1. TypeOK'
  <2>1. ctx' \in [Ids -> Contexts]
    BY SetKeeps
  <2>2. pc' \in [Tasks -> Places] /\ op' \in [Tasks -> Operations]
    BY DEF Places, Operations, CallsKnowTheirThread
  <2>3. told' \in [Ids -> Seq(Causes)]
    BY DEF Causes
  <2>4. \A j \in Ids : pc'[j] # "none" => j < count'
    BY DEF CallsKnowTheirThread
  <2> QED BY <2>1, <2>2, <2>3, <2>4 DEF Contexts, Places, Operations
<1>2. StatusFollows'
  BY DEF StatusFollows
<1>3. CallsKnowTheirThread'
  BY DEF CallsKnowTheirThread
<1>4. OnlyScriptsAsk'
  BY DEF OnlyScriptsAsk, Sweeping
<1>5. SweepsAlone'
  BY DEF SweepsAlone, Sweeping
<1>6. FreedBehind'
  BY DEF FreedBehind, Sweeping
<1> QED BY <1>1, <1>2, <1>3, <1>4, <1>5, <1>6

LEMMA AskInv ==
  ASSUME IInv, Slips = {}, NEW t \in Tasks, NEW i \in Ids, Ask(t, i)
  PROVE  IInv'
<1> USE ThreadsAssumption DEF IInv, TypeOK, Tasks, Ids, Ask, InScript, Registered
<1>1. TypeOK'
  <2>1. ctx' \in [Ids -> Contexts]
    BY DEF Contexts
  <2>2. pc' \in [Tasks -> Places] /\ op' \in [Tasks -> Operations]
    BY DEF Places, Operations, CallsKnowTheirThread
  <2>3. told' \in [Ids -> Seq(Causes)]
    BY DEF Causes
  <2>4. \A j \in Ids : pc'[j] # "none" => j < count'
    BY DEF CallsKnowTheirThread
  <2> QED BY <2>1, <2>2, <2>3, <2>4 DEF Contexts, Places, Operations
<1>2. StatusFollows'
  BY DEF StatusFollows
<1>3. CallsKnowTheirThread'
  BY DEF CallsKnowTheirThread
<1>4. OnlyScriptsAsk'
  BY DEF OnlyScriptsAsk, SweepsAlone, Sweeping
<1>5. SweepsAlone'
  BY DEF SweepsAlone, Sweeping
<1>6. FreedBehind'
  BY DEF FreedBehind, Sweeping
<1> QED BY <1>1, <1>2, <1>3, <1>4, <1>5, <1>6

LEMMA SetDaemonInv ==
  ASSUME IInv, Slips = {}, NEW t \in Tasks, NEW i \in Ids, SetDaemon(t, i)
  PROVE  IInv'
<1> USE ThreadsAssumption DEF IInv, TypeOK, Tasks, Ids, SetDaemon, InScript, Set, Registered
<1>1. TypeOK'
  <2>1. ctx' \in [Ids -> Contexts]
    BY SetKeeps
  <2>2. pc' \in [Tasks -> Places] /\ op' \in [Tasks -> Operations]
    BY DEF Places, Operations, CallsKnowTheirThread
  <2>3. told' \in [Ids -> Seq(Causes)]
    BY DEF Causes
  <2>4. \A j \in Ids : pc'[j] # "none" => j < count'
    BY DEF CallsKnowTheirThread
  <2> QED BY <2>1, <2>2, <2>3, <2>4 DEF Contexts, Places, Operations
<1>2. StatusFollows'
  BY DEF StatusFollows
<1>3. CallsKnowTheirThread'
  BY DEF CallsKnowTheirThread
<1>4. OnlyScriptsAsk'
  BY DEF OnlyScriptsAsk, Sweeping
<1>5. SweepsAlone'
  BY DEF SweepsAlone, Sweeping
<1>6. FreedBehind'
  BY DEF FreedBehind, Sweeping
<1> QED BY <1>1, <1>2, <1>3, <1>4, <1>5, <1>6

LEMMA StartInv ==
  ASSUME IInv, Slips = {}, NEW i \in Ids, Start(i)
  PROVE  IInv'
<1>0. ctx' \in [Ids -> Contexts]
  BY SetKeeps DEF IInv, Start
<1> USE ThreadsAssumption DEF IInv, TypeOK, Tasks, Ids, Start, Goto, Set
<1>1. TypeOK'
  <2>1. ctx' \in [Ids -> Contexts]
    BY <1>0
  <2>2. pc' \in [Tasks -> Places] /\ op' \in [Tasks -> Operations]
    BY DEF Places, Operations, CallsKnowTheirThread
  <2>3. told' \in [Ids -> Seq(Causes)]
    BY DEF Causes
  <2>4. \A j \in Ids : pc'[j] # "none" => j < count'
    BY DEF CallsKnowTheirThread
  <2> QED BY <2>1, <2>2, <2>3, <2>4 DEF Contexts, Places, Operations
<1>2. StatusFollows'
  BY DEF StatusFollows
<1>3. CallsKnowTheirThread'
  BY DEF CallsKnowTheirThread
<1>4. OnlyScriptsAsk'
  BY DEF OnlyScriptsAsk, Sweeping
<1>5. SweepsAlone'
  BY DEF SweepsAlone, Sweeping
<1>6. FreedBehind'
  BY DEF FreedBehind, Sweeping
<1> QED BY <1>1, <1>2, <1>3, <1>4, <1>5, <1>6

LEMMA FinishInv ==
  ASSUME IInv, Slips = {}, NEW i \in Ids, Finish(i)
  PROVE  IInv'
<1>0. ctx' \in [Ids -> Contexts]
  BY SetKeeps DEF IInv, Finish, End
<1> USE ThreadsAssumption DEF IInv, TypeOK, Tasks, Ids, Finish, InScript, End, Goto, Set
<1>1. TypeOK'
  <2>1. ctx' \in [Ids -> Contexts]
    BY <1>0
  <2>2. pc' \in [Tasks -> Places] /\ op' \in [Tasks -> Operations]
    BY DEF Places, Operations, CallsKnowTheirThread
  <2>3. told' \in [Ids -> Seq(Causes)]
    BY DEF Causes
  <2>4. \A j \in Ids : pc'[j] # "none" => j < count'
    BY DEF CallsKnowTheirThread
  <2> QED BY <2>1, <2>2, <2>3, <2>4 DEF Contexts, Places, Operations
<1>2. StatusFollows'
  BY DEF StatusFollows
<1>3. CallsKnowTheirThread'
  BY DEF CallsKnowTheirThread
<1>4. OnlyScriptsAsk'
  BY DEF OnlyScriptsAsk, Sweeping
<1>5. SweepsAlone'
  BY DEF SweepsAlone, Sweeping
<1>6. FreedBehind'
  BY DEF StatusFollows, CallsKnowTheirThread, OnlyScriptsAsk, SweepsAlone, FreedBehind, Sweeping
<1> QED BY <1>1, <1>2, <1>3, <1>4, <1>5, <1>6

LEMMA HaltInv ==
  ASSUME IInv, Slips = {}, NEW i \in Ids, Halt(i)
  PROVE  IInv'
<1>0. ctx' \in [Ids -> Contexts]
  BY SetKeeps DEF IInv, Halt, End
<1> USE ThreadsAssumption DEF IInv, TypeOK, Tasks, Ids, Halt, InScript, End, Goto, Set
<1>1. TypeOK'
  <2>1. ctx' \in [Ids -> Contexts]
    BY <1>0
  <2>2. pc' \in [Tasks -> Places] /\ op' \in [Tasks -> Operations]
    BY DEF Places, Operations, CallsKnowTheirThread
  <2>3. told' \in [Ids -> Seq(Causes)]
    BY DEF Causes
  <2>4. \A j \in Ids : pc'[j] # "none" => j < count'
    BY DEF CallsKnowTheirThread
  <2> QED BY <2>1, <2>2, <2>3, <2>4 DEF Contexts, Places, Operations
<1>2. StatusFollows'
  BY DEF StatusFollows
<1>3. CallsKnowTheirThread'
  BY DEF CallsKnowTheirThread
<1>4. OnlyScriptsAsk'
  BY DEF OnlyScriptsAsk, Sweeping
<1>5. SweepsAlone'
  BY DEF SweepsAlone, Sweeping
<1>6. FreedBehind'
  BY DEF FreedBehind, Sweeping
<1> QED BY <1>1, <1>2, <1>3, <1>4, <1>5, <1>6

LEMMA EndMainInv ==
  ASSUME IInv, Slips = {}, EndMain
  PROVE  IInv'
<1> USE ThreadsAssumption DEF IInv, TypeOK, Tasks, Ids, EndMain, InScript, Goto, About,
     Registered
<1>1. TypeOK'
  <2>1. ctx' \in [Ids -> Contexts]
    BY DEF Contexts
  <2>2. pc' \in [Tasks -> Places] /\ op' \in [Tasks -> Operations]
    BY DEF Places, Operations, CallsKnowTheirThread
  <2>3. told' \in [Ids -> Seq(Causes)]
    BY DEF Causes
  <2>4. \A j \in Ids : pc'[j] # "none" => j < count'
    BY DEF CallsKnowTheirThread
  <2> QED BY <2>1, <2>2, <2>3, <2>4 DEF Contexts, Places, Operations
<1>2. StatusFollows'
  BY DEF StatusFollows
<1>3. CallsKnowTheirThread'
  BY DEF CallsKnowTheirThread
<1>4. OnlyScriptsAsk'
  BY DEF OnlyScriptsAsk
<1>5. SweepsAlone'
  BY DEF StatusFollows, SweepsAlone
<1>6. FreedBehind'
  BY DEF FreedBehind, Sweeping
<1> QED BY <1>1, <1>2, <1>3, <1>4, <1>5, <1>6

LEMMA SweepHookInv ==
  ASSUME IInv, Slips = {}, SweepHook
  PROVE  IInv'
<1> DEFINE i == op[Main].id
           v == ctx[i].cancelled \/ ctx[i].daemon
<1>1. TypeOK /\ i \in Ids /\ i < count /\ Main \in Tasks /\ pc[Main] = "sweep"
  <2>1. i < count /\ pc[Main] = "sweep"
    BY DEF SweepHook
  <2>2. Main \in Tasks /\ i \in 0 .. MaxThreads /\ count \in 0 .. MaxThreads
    BY DEF IInv, TypeOK, Tasks
  <2> QED BY <2>1, <2>2, ThreadsAssumption DEF IInv, Ids
<1>2. /\ ctx' \in [Ids -> Contexts]
      /\ \A j \in Ids : ctx'[j].status = ctx[j].status /\ ctx'[j].freed = ctx[j].freed
  <2>1. CASE ctx' = ctx
    BY <1>1, <2>1 DEF TypeOK, Contexts
  <2>2. CASE ctx' = [ctx EXCEPT ![i].cancelled = v]
    <3>1. v \in BOOLEAN
      OBVIOUS
    <3> HIDE DEF v
    <3>2. Set(i, "cancelled", v)
      BY <2>2 DEF Set
    <3> HIDE DEF i
    <3> QED BY <1>1, <3>1, <3>2, SetKeeps
  <2> QED BY <2>1, <2>2 DEF SweepHook
<1>3. told' \in [Ids -> Seq(Causes)]
  <2>1. CASE UNCHANGED told
    BY <1>1, <2>1 DEF TypeOK
  <2>2. ASSUME NEW cause \in Causes, Tell(Main, i, cause)
        PROVE  told' \in [Ids -> Seq(Causes)]
    BY <1>1, <2>2, TellKeeps
  <2> QED BY <2>1, <2>2 DEF SweepHook, Causes
<1>4. /\ pc' = [pc EXCEPT ![Main] = "call"] \/ pc' = [pc EXCEPT ![Main] = "free"]
      /\ UNCHANGED <<count, held, op, asks, claimed>>
  BY DEF SweepHook, Tell, Goto
<1> USE ThreadsAssumption DEF IInv, TypeOK, Tasks, Ids
<1>5. TypeOK'
  <2>1. pc' \in [Tasks -> Places]
    BY <1>1, <1>4 DEF Places
  <2>2. \A j \in Ids : pc'[j] # "none" => j < count'
    BY <1>1, <1>4
  <2> QED BY <1>2, <1>3, <1>4, <2>1, <2>2 DEF Contexts, Places
<1>6. StatusFollows'
  BY <1>1, <1>2, <1>4 DEF StatusFollows
<1>7. CallsKnowTheirThread'
  BY <1>1, <1>4 DEF CallsKnowTheirThread, SweepsAlone, Sweeping
<1>8. OnlyScriptsAsk'
  BY <1>1, <1>4 DEF OnlyScriptsAsk, Sweeping
<1>9. SweepsAlone'
  BY <1>1, <1>4 DEF SweepsAlone, Sweeping
<1>10. FreedBehind'
  <2>1. Sweeping /\ op[Main].kind = "sweep"
    BY <1>1 DEF Sweeping, CallsKnowTheirThread
  <2>2. Sweeping' /\ pc'[Main] # "gone"
    BY <1>1, <1>4, <2>1 DEF Sweeping
  <2> QED BY <1>1, <1>2, <1>4, <2>2 DEF FreedBehind
<1> QED BY <1>5, <1>6, <1>7, <1>8, <1>9, <1>10

LEMMA SweepFreeInv ==
  ASSUME IInv, Slips = {}, SweepFree
  PROVE  IInv'
<1> USE ThreadsAssumption DEF IInv, TypeOK, Tasks, Ids, SweepFree, Goto, Set, About
<1>1. TypeOK'
  <2>1. ctx' \in [Ids -> Contexts]
    <3>1. op[Main].id \in Ids
      BY DEF CallsKnowTheirThread
    <3> QED BY <3>1, SetKeeps
  <2>2. pc' \in [Tasks -> Places] /\ op' \in [Tasks -> Operations]
    BY DEF Places, Operations, CallsKnowTheirThread
  <2>3. told' \in [Ids -> Seq(Causes)]
    BY DEF Causes
  <2>4. \A j \in Ids : pc'[j] # "none" => j < count'
    BY DEF CallsKnowTheirThread
  <2> QED BY <2>1, <2>2, <2>3, <2>4 DEF Contexts, Places, Operations
<1>2. StatusFollows'
  BY DEF StatusFollows
<1>3. CallsKnowTheirThread'
  BY DEF CallsKnowTheirThread
<1>4. OnlyScriptsAsk'
  BY DEF OnlyScriptsAsk
<1>5. SweepsAlone'
  BY DEF SweepsAlone, Sweeping
<1>6. FreedBehind'
  BY DEF FreedBehind, Sweeping
<1> QED BY <1>1, <1>2, <1>3, <1>4, <1>5, <1>6

LEMMA SweepEndInv ==
  ASSUME IInv, Slips = {}, SweepEnd
  PROVE  IInv'
<1> USE ThreadsAssumption DEF IInv, TypeOK, Tasks, Ids, SweepEnd, Goto
<1>1. TypeOK'
  <2>1. ctx' \in [Ids -> Contexts]
    BY DEF Contexts
  <2>2. pc' \in [Tasks -> Places] /\ op' \in [Tasks -> Operations]
    BY DEF Places, Operations, CallsKnowTheirThread
  <2>3. told' \in [Ids -> Seq(Causes)]
    BY DEF Causes
  <2>4. \A j \in Ids : pc'[j] # "none" => j < count'
    BY DEF CallsKnowTheirThread
  <2> QED BY <2>1, <2>2, <2>3, <2>4 DEF Contexts, Places, Operations
<1>2. StatusFollows'
  BY DEF StatusFollows
<1>3. CallsKnowTheirThread'
  BY DEF CallsKnowTheirThread
<1>4. OnlyScriptsAsk'
  BY DEF OnlyScriptsAsk
<1>5. SweepsAlone'
  BY DEF SweepsAlone, Sweeping
<1>6. FreedBehind'
  BY DEF FreedBehind, Sweeping
<1> QED BY <1>1, <1>2, <1>3, <1>4, <1>5, <1>6

LEMMA ExitedInv == ASSUME IInv, UNCHANGED vars PROVE IInv'
BY DEF IInv, vars, TypeOK, StatusFollows, CallsKnowTheirThread, OnlyScriptsAsk, SweepsAlone,
       FreedBehind, Sweeping

-----------------------------------------------------------------------------
(* The theorems.                                                            *)

LEMMA InitIInv == Init => IInv
<1> SUFFICES ASSUME Init PROVE IInv
  OBVIOUS
<1>1. ctx \in [Ids -> Contexts] /\ told \in [Ids -> Seq(Causes)]
  BY DEF Init, Contexts, Fresh
<1>2. Main \in Tasks /\ Main \notin Ids /\ 0 \in 0 .. MaxThreads
  BY ThreadsAssumption DEF Tasks
<1>3. \A i \in Ids : i # Main /\ i \in Tasks /\ pc[i] = "none" /\ ctx[i].status = 0 /\ ~ctx[i].freed
  BY <1>2 DEF Init, Fresh, Tasks
<1>4. TypeOK
  BY <1>1, <1>2, <1>3 DEF Init, TypeOK, Contexts
<1>5. StatusFollows /\ FreedBehind
  BY <1>3 DEF StatusFollows, FreedBehind
<1>6. \A t \in Tasks : pc[t] \in {"script", "none"} /\ asks[t] = NoId
  BY DEF Init
<1>7. CallsKnowTheirThread /\ OnlyScriptsAsk /\ SweepsAlone
  BY <1>2, <1>3, <1>6 DEF CallsKnowTheirThread, OnlyScriptsAsk, SweepsAlone, Sweeping
<1> QED BY <1>4, <1>5, <1>7 DEF IInv

LEMMA NextIInv == ASSUME Slips = {}, IInv, [Next]_vars PROVE IInv'
<1>1. ASSUME NEW t \in Tasks, Calls(t) PROVE IInv'
  BY <1>1, CreateInv, JoinedInv, RunHookInv, HookReturnsInv, AnswerInv, MakeInv, JoinInv,
     CancelInv, AskInv, SetDaemonInv
     DEF Calls
<1>2. ASSUME NEW i \in Ids, Start(i) \/ Finish(i) \/ Halt(i) PROVE IInv'
  BY <1>2, StartInv, FinishInv, HaltInv
<1> QED
  BY <1>1, <1>2, EndMainInv, SweepHookInv, SweepFreeInv, SweepEndInv, ExitedInv DEF Next, Exited

LEMMA InvariantHolds == ASSUME Slips = {} PROVE Spec => []IInv
<1>1. IInv /\ [Next]_vars => IInv'
  BY NextIInv
<1> QED BY <1>1, InitIInv, PTL DEF Spec

LEMMA FreedIsUnused == IInv => ContextsOutliveUse
<1> SUFFICES ASSUME IInv, NEW i \in Ids, ctx[i].freed, NEW t \in Tasks PROVE i \notin Uses(t)
  BY DEF ContextsOutliveUse
<1>1. Sweeping /\ (pc[Main] # "gone" => i < op[Main].id)
  BY DEF IInv, FreedBehind
<1>2. CASE t = Main
  BY <1>1, <1>2, ThreadsAssumption
     DEF IInv, TypeOK, OnlyScriptsAsk, Uses, Sweeping, Ids, Tasks
<1>3. CASE t # Main
  BY <1>1, <1>3, ThreadsAssumption
     DEF IInv, TypeOK, SweepsAlone, OnlyScriptsAsk, Uses, Tasks, Ids
<1> QED BY <1>2, <1>3

\* Contexts, calls and answers keep their types, for any number of threads
\* (ml_threading.c).
THEOREM TypeCorrect == ASSUME Slips = {} PROVE Spec => []TypeOK
<1>1. IInv => TypeOK
  BY DEF IInv
<1> QED BY <1>1, InvariantHolds, PTL

\* No context is freed that a worker, a join, a cancel or the cleanup is still to read or
\* write, for any number of threads (ml_threading.c: mila_threads_cleanup frees them all).
THEOREM ContextsAreSafe == ASSUME Slips = {} PROVE Spec => []ContextsOutliveUse
BY InvariantHolds, FreedIsUnused, PTL

-----------------------------------------------------------------------------
(* The inductive invariant, besides IInv.                                   *)

\* t joins or cancels a thread, or calls its on_kill.
Settles(t) == pc[t] \in {"join", "hook", "call"} /\ op[t].kind # "sweep"

\* A thread is settled by one task, which claimed it and is not the thread itself.
SettledByOne ==
  /\ \A i \in Ids : op[i].kind # "sweep"
  /\ \A t \in Tasks : Settles(t) => op[t].id \in claimed /\ t # op[t].id
  /\ \A t, u \in Tasks : t # u /\ Settles(t) /\ Settles(u) => op[t].id # op[u].id

\* A thread that is registered and has not begun is being made.
BeingMade ==
  \A i \in Ids : i < count /\ pc[i] = "none" => \E t \in Tasks : pc[t] = "make" /\ op[t].id = i

\* The join of a thread whose on_kill is looked at has returned.
EndedBeforeHook == \A t \in Tasks : pc[t] = "hook" => pc[op[t].id] = "over"

\* on_kill was called once, and is called now or gone.
ToldOnce ==
  \A i \in Ids : told[i] # <<>> =>
    /\ Len(told[i]) = 1 /\ pc[i] = "over"
    /\ ctx[i].hook = "ran" \/ \E t \in Tasks : pc[t] = "call" /\ op[t].id = i

LivesInv == IInv /\ SettledByOne /\ BeingMade /\ EndedBeforeHook /\ ToldOnce

\* The thread that a call is about is one of Ids.
LEMMA CallIsAboutId ==
  ASSUME IInv, NEW t \in Tasks, pc[t] \in {"make", "join", "hook", "call", "free"}
  PROVE  op[t].id \in Ids
<1>1. op[t] \in Operations /\ count \in 0 .. MaxThreads /\ op[t].id < count
  BY DEF IInv, TypeOK, Operations, CallsKnowTheirThread
<1> QED BY <1>1, ThreadsAssumption DEF Operations, Ids

-----------------------------------------------------------------------------
(* The steps.                                                               *)

LEMMA CreateLives ==
  ASSUME LivesInv, Slips = {}, NEW t \in Tasks, Create(t)
  PROVE  SettledByOne' /\ BeingMade' /\ EndedBeforeHook' /\ ToldOnce'
<1> DEFINE i == op[t].id
<1>1. /\ i \in Ids /\ pc[t] = "make" /\ pc[i] = "none" /\ i # t
      /\ pc' = [pc EXCEPT ![t] = "script", ![i] = "begin"]
      /\ UNCHANGED <<ctx, count, op, claimed, told>>
  <2>1. pc[t] = "make" /\ i \in Ids
    BY CallIsAboutId DEF Create, LivesInv
  <2>2. pc[i] = "none"
    BY <2>1 DEF LivesInv, IInv, CallsKnowTheirThread
  <2> QED BY <2>1, <2>2 DEF Create, Goto
<1> HIDE DEF i
<1>2. /\ pc \in [Tasks -> Places] /\ Ids \subseteq Tasks
      /\ pc'[t] = "script" /\ pc'[i] = "begin" /\ \A u \in Tasks \ {t, i} : pc'[u] = pc[u]
  BY <1>1 DEF LivesInv, IInv, TypeOK, Places, Tasks
<1>3. SettledByOne'
  <2>1. \A u \in Tasks : Settles(u)' => Settles(u)
    BY <1>1, <1>2 DEF Settles
  <2> QED BY <1>1, <2>1 DEF LivesInv, SettledByOne
<1>4. BeingMade'
  <2> SUFFICES ASSUME NEW j \in Ids, j < count, pc'[j] = "none"
               PROVE  \E u \in Tasks : pc'[u] = "make" /\ op'[u].id = j
    BY <1>1 DEF BeingMade
  <2>1. j # i /\ j # t /\ pc[j] = "none"
    BY <1>2
  <2>2. PICK u \in Tasks : pc[u] = "make" /\ op[u].id = j
    BY <2>1 DEF LivesInv, BeingMade
  <2>3. u # t /\ u # i
    BY <1>1, <2>1, <2>2 DEF i
  <2> QED BY <1>1, <1>2, <2>2, <2>3
<1>5. EndedBeforeHook'
  <2> SUFFICES ASSUME NEW u \in Tasks, pc'[u] = "hook" PROVE pc'[op[u].id] = "over"
    BY <1>1 DEF EndedBeforeHook
  <2>1. pc[u] = "hook"
    BY <1>2
  <2>2. op[u].id \in Ids /\ pc[op[u].id] = "over"
    BY <2>1, CallIsAboutId DEF LivesInv, EndedBeforeHook
  <2> QED BY <1>1, <1>2, <2>2
<1>6. ToldOnce'
  <2> SUFFICES ASSUME NEW j \in Ids, told[j] # <<>>
               PROVE  /\ Len(told[j]) = 1 /\ pc'[j] = "over"
                      /\ ctx[j].hook = "ran" \/ \E u \in Tasks : pc'[u] = "call" /\ op[u].id = j
    BY <1>1, ZenonT(30) DEF ToldOnce
  <2>1. /\ Len(told[j]) = 1 /\ pc[j] = "over"
        /\ ctx[j].hook = "ran" \/ \E u \in Tasks : pc[u] = "call" /\ op[u].id = j
    BY DEF LivesInv, ToldOnce
  <2>2. \A u \in Tasks : pc[u] = "call" => pc'[u] = "call"
    BY <1>1, <1>2
  <2> QED BY <1>1, <1>2, <2>1, <2>2
<1> QED BY <1>3, <1>4, <1>5, <1>6

\* Joined waits for the end of the thread: nobody else joins it, nor is it the caller.
LEMMA JoinedAfterEnd ==
  ASSUME LivesInv, NEW t \in Tasks, Joined(t)
  PROVE  op[t].id \in Ids /\ pc[op[t].id] = "over"
<1>1. pc[t] = "join" /\ op[t].kind # "sweep"
  BY ThreadsAssumption DEF Joined, LivesInv, IInv, CallsKnowTheirThread, SettledByOne, Tasks
<1>2. op[t].id \in Ids
  BY <1>1, CallIsAboutId DEF LivesInv
<1>3. op[t].id # t
  BY <1>1 DEF LivesInv, SettledByOne, Settles
<1>4. ASSUME NEW u \in Tasks \ {t}, pc[u] = "join", op[u].id = op[t].id PROVE FALSE
  <2>1. op[u].kind # "sweep"
    BY <1>4, ThreadsAssumption DEF LivesInv, IInv, CallsKnowTheirThread, SettledByOne, Tasks
  <2> QED BY <1>1, <1>4, <2>1 DEF LivesInv, SettledByOne, Settles
<1> QED BY <1>2, <1>3, <1>4 DEF Joined

\* When an on_kill that is still there is about to be called, it has not been.
LEMMA NotToldYet ==
  ASSUME LivesInv, NEW i \in Ids, ctx[i].hook = "set",
         NEW t \in Tasks, op[t].id = i,
         pc[t] = "hook" \/ (t = Main /\ pc[t] = "sweep")
  PROVE  told[i] = <<>>
<1> SUFFICES ASSUME told[i] # <<>> PROVE FALSE
  OBVIOUS
<1>1. PICK u \in Tasks : pc[u] = "call" /\ op[u].id = i
  BY DEF LivesInv, ToldOnce
<1>2. u # t
  BY <1>1
<1>3. CASE Sweeping
  <2>1. \A j \in Ids : pc[j] \in {"none", "over"}
    BY <1>3 DEF LivesInv, IInv, SweepsAlone
  <2> QED BY <1>1, <1>2, <2>1 DEF Tasks
<1>4. CASE ~Sweeping
  <2>1. pc[t] = "hook" /\ Settles(u)
    BY <1>1, <1>4 DEF Sweeping, Settles, LivesInv, SettledByOne, Tasks
  <2>2. Settles(t)
    BY <2>1 DEF Settles, LivesInv, IInv, CallsKnowTheirThread, SettledByOne, Tasks
  <2> QED BY <1>1, <1>2, <2>1, <2>2 DEF LivesInv, SettledByOne
<1> QED BY <1>3, <1>4

\* A call of on_kill by t, about a thread that is over.
LEMMA TellLives ==
  ASSUME LivesInv, NEW t \in Tasks, NEW i \in Ids, op[t].id = i, pc[i] = "over", i # t,
         told[i] = <<>>, pc[t] \in {"hook", "sweep"}, NEW cause, Tell(t, i, cause),
         UNCHANGED op, \A j \in Ids : ctx'[j].hook = ctx[j].hook
  PROVE  ToldOnce' /\ told' = [told EXCEPT ![i] = <<cause>>]
<1>1. /\ told \in [Ids -> Seq(Causes)] /\ pc \in [Tasks -> Places] /\ Ids \subseteq Tasks
  BY DEF LivesInv, IInv, TypeOK, Places, Tasks
<1>2. told' = [told EXCEPT ![i] = <<cause>>]
  BY <1>1 DEF Tell
<1>3. pc'[t] = "call" /\ \A u \in Tasks \ {t} : pc'[u] = pc[u]
  BY <1>1 DEF Tell, Goto
<1>4. ASSUME NEW j \in Ids, told'[j] # <<>>
      PROVE  /\ Len(told'[j]) = 1 /\ pc'[j] = "over"
             /\ ctx'[j].hook = "ran" \/ \E u \in Tasks : pc'[u] = "call" /\ op'[u].id = j
  <2>1. CASE j = i
    <3>1. told'[j] = <<cause>>
      BY <1>1, <1>2, <2>1
    <3> QED BY <1>1, <1>3, <2>1, <3>1
  <2>2. CASE j # i
    <3>1. told'[j] = told[j]
      BY <1>1, <1>2, <2>2
    <3>2. /\ Len(told[j]) = 1 /\ pc[j] = "over"
          /\ ctx[j].hook = "ran" \/ \E u \in Tasks : pc[u] = "call" /\ op[u].id = j
      BY <1>4, <3>1 DEF LivesInv, ToldOnce
    <3>3. j # t
      BY <3>2
    <3> QED BY <1>1, <1>3, <3>1, <3>2, <3>3
  <2> QED BY <2>1, <2>2
<1> QED BY <1>2, <1>4 DEF ToldOnce

LEMMA RunHookLives ==
  ASSUME LivesInv, NEW t \in Tasks, RunHook(t)
  PROVE  SettledByOne' /\ BeingMade' /\ EndedBeforeHook' /\ ToldOnce'
<1> DEFINE i == op[t].id
<1>1. /\ pc[t] = "hook" /\ i \in Ids /\ pc[i] = "over" /\ i # t
      /\ UNCHANGED <<ctx, count, op, claimed>>
  BY CallIsAboutId DEF RunHook, LivesInv, EndedBeforeHook, Tell, Goto
<1>2. \/ ctx[i].hook = "set" /\ \E cause \in Causes : Tell(t, i, cause)
      \/ Goto(t, "script") /\ UNCHANGED told
  BY DEF RunHook, Causes
<1> HIDE DEF i
<1>3. /\ pc \in [Tasks -> Places] /\ Ids \subseteq Tasks
      /\ pc'[t] \in {"call", "script"} /\ \A u \in Tasks \ {t} : pc'[u] = pc[u]
  BY <1>2 DEF LivesInv, IInv, TypeOK, Places, Tasks, Tell, Goto
<1>4. SettledByOne'
  <2>1. \A u \in Tasks : Settles(u)' => Settles(u)
    BY <1>1, <1>3 DEF Settles
  <2> QED BY <1>1, <2>1 DEF LivesInv, SettledByOne
<1>5. BeingMade'
  <2>1. \A u \in Tasks : pc[u] = "make" => pc'[u] = "make"
    BY <1>1, <1>3
  <2>2. \A j \in Ids : pc'[j] = "none" => pc[j] = "none"
    BY <1>3
  <2> QED BY <1>1, <2>1, <2>2 DEF LivesInv, BeingMade
<1>6. EndedBeforeHook'
  <2> SUFFICES ASSUME NEW u \in Tasks, pc'[u] = "hook" PROVE pc'[op[u].id] = "over"
    BY <1>1 DEF EndedBeforeHook
  <2>1. pc[u] = "hook"
    BY <1>3
  <2>2. op[u].id \in Ids /\ pc[op[u].id] = "over"
    BY <2>1, CallIsAboutId DEF LivesInv, EndedBeforeHook
  <2> QED BY <1>1, <1>3, <2>2
<1>7. ToldOnce'
  <2>1. CASE \E cause \in Causes : ctx[i].hook = "set" /\ Tell(t, i, cause)
    BY <1>1, <2>1, NotToldYet, TellLives DEF i
  <2>2. CASE UNCHANGED told
    <3>1. \A u \in Tasks : pc[u] = "call" => pc'[u] = "call"
      BY <1>1, <1>3
    <3>2. \A j \in Ids : pc[j] = "over" => pc'[j] = "over"
      BY <1>1, <1>3
    <3> QED BY <1>1, <2>2, <3>1, <3>2 DEF LivesInv, ToldOnce
  <2> QED BY <1>2, <2>1, <2>2
<1> QED BY <1>4, <1>5, <1>6, <1>7

\* The cleanup looks at a thread that is over.
LEMMA SweptIsOver ==
  ASSUME LivesInv, SweepHook
  PROVE  op[Main].id \in Ids /\ pc[op[Main].id] = "over" /\ pc[Main] = "sweep"
<1> DEFINE i == op[Main].id
<1>1. i < count /\ pc[Main] = "sweep"
  BY DEF SweepHook
<1>2. i \in Ids
  BY <1>1, ThreadsAssumption DEF LivesInv, IInv, TypeOK, Ids, Tasks
<1>3. \A j \in Ids : pc[j] \in {"none", "over"}
  BY <1>1 DEF LivesInv, IInv, SweepsAlone, Sweeping
<1>4. \A t \in Tasks : pc[t] # "make"
  BY <1>1, <1>3 DEF Tasks
<1>5. pc[i] # "none"
  BY <1>1, <1>2, <1>4 DEF LivesInv, BeingMade
<1> QED BY <1>1, <1>2, <1>3, <1>5

LEMMA SweepHookLives ==
  ASSUME LivesInv, SweepHook
  PROVE  SettledByOne' /\ BeingMade' /\ EndedBeforeHook' /\ ToldOnce'
<1> DEFINE i == op[Main].id
<1>1. /\ i \in Ids /\ pc[i] = "over" /\ pc[Main] = "sweep" /\ i # Main /\ Main \in Tasks
      /\ UNCHANGED <<count, op, claimed>>
  BY SweptIsOver, ThreadsAssumption DEF SweepHook, Tasks
<1>2. \/ ctx[i].hook = "set" /\ \E cause \in Causes : Tell(Main, i, cause)
      \/ Goto(Main, "free") /\ UNCHANGED told
  BY DEF SweepHook, Causes
<1>3. \A j \in Ids : ctx'[j].hook = ctx[j].hook
  <2>1. ctx \in [Ids -> Contexts]
    BY DEF LivesInv, IInv, TypeOK, Contexts
  <2>2. CASE UNCHANGED ctx
    BY <2>2
  <2>3. CASE ctx' = [ctx EXCEPT ![i].cancelled = ctx[i].cancelled \/ ctx[i].daemon]
    <3> DEFINE v == ctx[i].cancelled \/ ctx[i].daemon
    <3> HIDE DEF v
    <3>1. ctx' = [ctx EXCEPT ![i].cancelled = v]
      BY <2>3 DEF v
    <3> QED BY <2>1, <3>1 DEF Contexts
  <2> QED BY <2>2, <2>3 DEF SweepHook
<1> HIDE DEF i
<1>4. /\ pc \in [Tasks -> Places] /\ Ids \subseteq Tasks
      /\ pc'[Main] \in {"call", "free"} /\ \A u \in Tasks \ {Main} : pc'[u] = pc[u]
  BY <1>1, <1>2 DEF LivesInv, IInv, TypeOK, Places, Tasks, Tell, Goto
<1>5. SettledByOne'
  <2>1. op[Main].kind = "sweep"
    BY <1>1 DEF LivesInv, IInv, CallsKnowTheirThread
  <2>2. \A u \in Tasks : Settles(u)' => Settles(u)
    BY <1>1, <1>4, <2>1 DEF Settles
  <2> QED BY <1>1, <2>2 DEF LivesInv, SettledByOne
<1>6. BeingMade'
  <2>1. \A u \in Tasks : pc[u] = "make" => pc'[u] = "make"
    BY <1>1, <1>4
  <2>2. \A j \in Ids : pc'[j] = "none" => pc[j] = "none"
    BY <1>4
  <2> QED BY <1>1, <2>1, <2>2 DEF LivesInv, BeingMade
<1>7. EndedBeforeHook'
  <2> SUFFICES ASSUME NEW u \in Tasks, pc'[u] = "hook" PROVE pc'[op[u].id] = "over"
    BY <1>1 DEF EndedBeforeHook
  <2>1. pc[u] = "hook"
    BY <1>4
  <2>2. op[u].id \in Ids /\ pc[op[u].id] = "over"
    BY <2>1, CallIsAboutId DEF LivesInv, EndedBeforeHook
  <2> QED BY <1>1, <1>4, <2>2
<1>8. ToldOnce'
  <2>1. CASE \E cause \in Causes : ctx[i].hook = "set" /\ Tell(Main, i, cause)
    BY <1>1, <1>3, <2>1, NotToldYet, TellLives DEF i
  <2>2. CASE UNCHANGED told
    <3>1. \A u \in Tasks : pc[u] = "call" => pc'[u] = "call"
      BY <1>1, <1>4
    <3>2. \A j \in Ids : pc[j] = "over" => pc'[j] = "over"
      BY <1>1, <1>4
    <3> QED BY <1>1, <1>3, <2>2, <3>1, <3>2 DEF LivesInv, ToldOnce
  <2> QED BY <1>2, <2>1, <2>2
<1> QED BY <1>5, <1>6, <1>7, <1>8

LEMMA JoinedLives ==
  ASSUME LivesInv, Slips = {}, NEW t \in Tasks, Joined(t)
  PROVE  SettledByOne' /\ BeingMade' /\ EndedBeforeHook' /\ ToldOnce'
<1>0. op[t].id \in Ids /\ pc[op[t].id] = "over"
  BY JoinedAfterEnd
<1> USE ThreadsAssumption DEF LivesInv, IInv, TypeOK, Tasks, Ids, Joined, Goto
<1>1. SettledByOne'
  BY DEF SettledByOne, Settles
<1>2. BeingMade'
  BY DEF BeingMade
<1>3. EndedBeforeHook'
  BY <1>0 DEF EndedBeforeHook, CallsKnowTheirThread
<1>4. ToldOnce'
  BY DEF ToldOnce
<1> QED BY <1>1, <1>2, <1>3, <1>4

LEMMA HookReturnsLives ==
  ASSUME LivesInv, Slips = {}, NEW t \in Tasks, HookReturns(t)
  PROVE  SettledByOne' /\ BeingMade' /\ EndedBeforeHook' /\ ToldOnce'
<1> USE ThreadsAssumption DEF LivesInv, IInv, TypeOK, Tasks, Ids, HookReturns, Goto, Set
<1>1. SettledByOne'
  BY DEF SettledByOne, Settles
<1>2. BeingMade'
  BY DEF BeingMade
<1>3. EndedBeforeHook'
  BY DEF EndedBeforeHook
<1>4. ToldOnce'
  BY DEF ToldOnce
<1> QED BY <1>1, <1>2, <1>3, <1>4

LEMMA AnswerLives ==
  ASSUME LivesInv, Slips = {}, NEW t \in Tasks, Answer(t)
  PROVE  SettledByOne' /\ BeingMade' /\ EndedBeforeHook' /\ ToldOnce'
<1> USE ThreadsAssumption DEF LivesInv, IInv, TypeOK, Tasks, Ids, Answer
<1>1. SettledByOne'
  BY DEF SettledByOne, Settles
<1>2. BeingMade'
  BY DEF BeingMade
<1>3. EndedBeforeHook'
  BY DEF EndedBeforeHook
<1>4. ToldOnce'
  BY DEF ToldOnce
<1> QED BY <1>1, <1>2, <1>3, <1>4

LEMMA MakeLives ==
  ASSUME LivesInv, Slips = {}, NEW t \in Tasks, NEW hook \in {"none", "set"}, Make(t, hook)
  PROVE  SettledByOne' /\ BeingMade' /\ EndedBeforeHook' /\ ToldOnce'
<1> USE ThreadsAssumption DEF LivesInv, IInv, TypeOK, Tasks, Ids, Make, InScript, Goto, About,
     Fresh
<1>1. SettledByOne'
  BY DEF SettledByOne, Settles
<1>2. BeingMade'
  BY DEF BeingMade
<1>3. EndedBeforeHook'
  BY DEF EndedBeforeHook
<1>4. ToldOnce'
  BY DEF SettledByOne, Settles, BeingMade, ToldOnce, CallsKnowTheirThread
<1> QED BY <1>1, <1>2, <1>3, <1>4

LEMMA JoinLives ==
  ASSUME LivesInv, Slips = {}, NEW t \in Tasks, NEW i \in Ids, Join(t, i)
  PROVE  SettledByOne' /\ BeingMade' /\ EndedBeforeHook' /\ ToldOnce'
<1> USE ThreadsAssumption DEF LivesInv, IInv, TypeOK, Tasks, Ids, Join, InScript, Goto, About,
     Registered, MayClaim
<1>1. SettledByOne'
  BY DEF SettledByOne, Settles
<1>2. BeingMade'
  BY DEF BeingMade
<1>3. EndedBeforeHook'
  BY DEF EndedBeforeHook
<1>4. ToldOnce'
  BY DEF ToldOnce
<1> QED BY <1>1, <1>2, <1>3, <1>4

LEMMA CancelLives ==
  ASSUME LivesInv, Slips = {}, NEW t \in Tasks, NEW i \in Ids, Cancel(t, i)
  PROVE  SettledByOne' /\ BeingMade' /\ EndedBeforeHook' /\ ToldOnce'
<1> USE ThreadsAssumption DEF LivesInv, IInv, TypeOK, Tasks, Ids, Cancel, InScript, Goto, Set,
     About, Registered, MayClaim
<1>1. SettledByOne'
  BY DEF SettledByOne, Settles, ToldOnce
<1>2. BeingMade'
  BY DEF BeingMade
<1>3. EndedBeforeHook'
  BY DEF EndedBeforeHook
<1>4. ToldOnce'
  BY DEF ToldOnce
<1> QED BY <1>1, <1>2, <1>3, <1>4

LEMMA AskLives ==
  ASSUME LivesInv, Slips = {}, NEW t \in Tasks, NEW i \in Ids, Ask(t, i)
  PROVE  SettledByOne' /\ BeingMade' /\ EndedBeforeHook' /\ ToldOnce'
<1> USE ThreadsAssumption DEF LivesInv, IInv, TypeOK, Tasks, Ids, Ask, InScript, Registered
<1>1. SettledByOne'
  BY DEF SettledByOne, Settles
<1>2. BeingMade'
  BY DEF BeingMade
<1>3. EndedBeforeHook'
  BY DEF EndedBeforeHook
<1>4. ToldOnce'
  BY DEF ToldOnce
<1> QED BY <1>1, <1>2, <1>3, <1>4

LEMMA SetDaemonLives ==
  ASSUME LivesInv, Slips = {}, NEW t \in Tasks, NEW i \in Ids, SetDaemon(t, i)
  PROVE  SettledByOne' /\ BeingMade' /\ EndedBeforeHook' /\ ToldOnce'
<1> USE ThreadsAssumption DEF LivesInv, IInv, TypeOK, Tasks, Ids, SetDaemon, InScript, Set,
     Registered
<1>1. SettledByOne'
  BY DEF SettledByOne, Settles
<1>2. BeingMade'
  BY DEF BeingMade
<1>3. EndedBeforeHook'
  BY DEF EndedBeforeHook
<1>4. ToldOnce'
  BY DEF ToldOnce
<1> QED BY <1>1, <1>2, <1>3, <1>4

LEMMA StartLives ==
  ASSUME LivesInv, Slips = {}, NEW i \in Ids, Start(i)
  PROVE  SettledByOne' /\ BeingMade' /\ EndedBeforeHook' /\ ToldOnce'
<1> USE ThreadsAssumption DEF LivesInv, IInv, TypeOK, Tasks, Ids, Start, Goto, Set
<1>1. SettledByOne'
  BY DEF SettledByOne, Settles
<1>2. BeingMade'
  BY DEF BeingMade
<1>3. EndedBeforeHook'
  BY DEF EndedBeforeHook
<1>4. ToldOnce'
  BY DEF ToldOnce
<1> QED BY <1>1, <1>2, <1>3, <1>4

LEMMA FinishLives ==
  ASSUME LivesInv, Slips = {}, NEW i \in Ids, Finish(i)
  PROVE  SettledByOne' /\ BeingMade' /\ EndedBeforeHook' /\ ToldOnce'
<1> USE ThreadsAssumption DEF LivesInv, IInv, TypeOK, Tasks, Ids, Finish, InScript, End, Goto,
     Set
<1>1. SettledByOne'
  BY DEF SettledByOne, Settles
<1>2. BeingMade'
  BY DEF BeingMade
<1>3. EndedBeforeHook'
  BY DEF EndedBeforeHook
<1>4. ToldOnce'
  BY DEF ToldOnce
<1> QED BY <1>1, <1>2, <1>3, <1>4

LEMMA HaltLives ==
  ASSUME LivesInv, Slips = {}, NEW i \in Ids, Halt(i)
  PROVE  SettledByOne' /\ BeingMade' /\ EndedBeforeHook' /\ ToldOnce'
<1> USE ThreadsAssumption DEF LivesInv, IInv, TypeOK, Tasks, Ids, Halt, InScript, End, Goto, Set
<1>1. SettledByOne'
  BY DEF SettledByOne, Settles
<1>2. BeingMade'
  BY DEF BeingMade
<1>3. EndedBeforeHook'
  BY DEF EndedBeforeHook
<1>4. ToldOnce'
  BY DEF ToldOnce
<1> QED BY <1>1, <1>2, <1>3, <1>4

LEMMA EndMainLives ==
  ASSUME LivesInv, Slips = {}, EndMain
  PROVE  SettledByOne' /\ BeingMade' /\ EndedBeforeHook' /\ ToldOnce'
<1> USE ThreadsAssumption DEF LivesInv, IInv, TypeOK, Tasks, Ids, EndMain, InScript, Goto,
     About, Registered
<1>1. SettledByOne'
  BY DEF SettledByOne, Settles
<1>2. BeingMade'
  BY DEF BeingMade
<1>3. EndedBeforeHook'
  BY DEF EndedBeforeHook
<1>4. ToldOnce'
  BY DEF ToldOnce
<1> QED BY <1>1, <1>2, <1>3, <1>4

LEMMA SweepFreeLives ==
  ASSUME LivesInv, Slips = {}, SweepFree
  PROVE  SettledByOne' /\ BeingMade' /\ EndedBeforeHook' /\ ToldOnce'
<1> USE ThreadsAssumption DEF LivesInv, IInv, TypeOK, Tasks, Ids, SweepFree, Goto, Set, About
<1>1. SettledByOne'
  BY DEF SettledByOne, Settles
<1>2. BeingMade'
  BY DEF BeingMade
<1>3. EndedBeforeHook'
  BY DEF EndedBeforeHook
<1>4. ToldOnce'
  BY DEF ToldOnce
<1> QED BY <1>1, <1>2, <1>3, <1>4

LEMMA SweepEndLives ==
  ASSUME LivesInv, Slips = {}, SweepEnd
  PROVE  SettledByOne' /\ BeingMade' /\ EndedBeforeHook' /\ ToldOnce'
<1> USE ThreadsAssumption DEF LivesInv, IInv, TypeOK, Tasks, Ids, SweepEnd, Goto
<1>1. SettledByOne'
  BY DEF SettledByOne, Settles
<1>2. BeingMade'
  BY DEF BeingMade
<1>3. EndedBeforeHook'
  BY DEF EndedBeforeHook
<1>4. ToldOnce'
  BY DEF ToldOnce
<1> QED BY <1>1, <1>2, <1>3, <1>4

-----------------------------------------------------------------------------
(* Every step is one of ThreadLives, or none.                               *)

life == [i \in Ids |-> Life(i)]

\* One thread's life moves on.
LEMMA OneMoves ==
  ASSUME NEW i \in Ids, NEW from, NEW to, Life(i) = from, Life(i)' = to,
         \A j \in Ids \ {i} : Life(j)' = Life(j)
  PROVE  Lives!Move(i, from, to)
<1>1. life[i] = from /\ life' = [life EXCEPT ![i] = to]
  BY Zenon DEF life
<1> QED BY <1>1 DEF Lives!Move, life

\* A life does not move when its thread neither begins nor ends nor is told of.
LEMMA LifeStays ==
  ASSUME NEW j \in Ids, told'[j] = told[j],
         pc'[j] = "none" <=> pc[j] = "none", pc'[j] = "over" <=> pc[j] = "over"
  PROVE  Life(j)' = Life(j)
BY DEF Life

LEMMA CreateBegins ==
  ASSUME LivesInv, Slips = {}, NEW t \in Tasks, Create(t) PROVE Lives!Next
<1>0. pc[t] = "make" /\ op[t].id \in Ids /\ pc[op[t].id] = "none"
  BY CallIsAboutId DEF Create, LivesInv, IInv, CallsKnowTheirThread
<1>1. PICK i \in Ids : i = op[t].id /\ pc[i] = "none"
  BY <1>0
<1>2. pc' = [pc EXCEPT ![t] = "script", ![i] = "begin"] /\ UNCHANGED told
  BY <1>1 DEF Create, Goto
<1>3. /\ pc \in [Tasks -> Places] /\ Ids \subseteq Tasks /\ i # t
      /\ pc'[t] = "script" /\ pc'[i] = "begin"
      /\ \A j \in Tasks \ {t, i} : pc'[j] = pc[j]
  BY <1>0, <1>1, <1>2 DEF LivesInv, IInv, TypeOK, Places, Tasks
<1>4. told[i] = <<>>
  BY <1>1 DEF LivesInv, ToldOnce
<1>5. Life(i) = "unmade" /\ Life(i)' = "running"
  BY <1>1, <1>2, <1>3, <1>4 DEF Life
<1>6. \A j \in Ids \ {i} : Life(j)' = Life(j)
  BY <1>0, <1>2, <1>3, LifeStays
<1> QED BY <1>5, <1>6, OneMoves DEF Lives!Next, Lives!Begin

LEMMA EndEnds ==
  ASSUME LivesInv, NEW i \in Ids, InScript(i), End(i) PROVE Lives!Next
<1>1. pc \in [Tasks -> Places] /\ i \in Tasks /\ pc[i] = "script"
      /\ pc' = [pc EXCEPT ![i] = "over"] /\ UNCHANGED told
  BY DEF LivesInv, IInv, TypeOK, Places, Tasks, InScript, End, Goto
<1>2. told[i] = <<>>
  BY <1>1 DEF LivesInv, ToldOnce
<1>3. Life(i) = "running" /\ Life(i)' = "ended"
  BY <1>1, <1>2 DEF Life
<1>4. \A j \in Ids \ {i} : Life(j)' = Life(j)
  BY <1>1, LifeStays
<1> QED BY <1>3, <1>4, OneMoves DEF Lives!Next, Lives!End

LEMMA TellTells ==
  ASSUME LivesInv, NEW t \in Tasks, NEW i \in Ids, op[t].id = i, pc[i] = "over", i # t,
         told[i] = <<>>, pc[t] \in {"hook", "sweep"}, NEW cause, Tell(t, i, cause)
  PROVE  Lives!Next
<1>1. told \in [Ids -> Seq(Causes)] /\ pc \in [Tasks -> Places] /\ Ids \subseteq Tasks
  BY DEF LivesInv, IInv, TypeOK, Places, Tasks
<1>2. told' = [told EXCEPT ![i] = <<cause>>] /\ pc' = [pc EXCEPT ![t] = "call"]
  BY <1>1 DEF Tell, Goto
<1>3. told'[i] = <<cause>> /\ pc'[i] = "over" /\ Len(<<cause>>) = 1 /\ <<cause>> # <<>>
  BY <1>1, <1>2
<1>4. Life(i) = "ended" /\ Life(i)' = "told"
  BY <1>3 DEF Life
<1>5. \A j \in Ids \ {i} : Life(j)' = Life(j)
  BY <1>1, <1>2, LifeStays
<1> QED BY <1>4, <1>5, OneMoves DEF Lives!Next, Lives!Tell

\* Steps that move no life.
LEMMA NoneMoves ==
  ASSUME IInv, UNCHANGED told, NEW t \in Tasks, NEW p, UNCHANGED pc \/ Goto(t, p),
         pc[t] \notin {"none", "over"}, p \notin {"none", "over"}
  PROVE  UNCHANGED life
<1>1. pc \in [Tasks -> Places] /\ Ids \subseteq Tasks
  BY DEF IInv, TypeOK, Places, Tasks
<1>2. \A j \in Ids : Life(j)' = Life(j)
  BY <1>1, LifeStays DEF Goto
<1> QED BY <1>2 DEF life

LEMMA LifeStep == ASSUME LivesInv, [Next]_vars, Slips = {} PROVE [Lives!Next]_life
<1>1. ASSUME NEW t \in Tasks, Calls(t) PROVE [Lives!Next]_life
  <2>1. CASE Create(t)
    BY <2>1, CreateBegins
  <2>2. CASE RunHook(t)
    <3> DEFINE i == op[t].id
    <3>1. pc[t] = "hook" /\ i \in Ids /\ pc[i] = "over" /\ i # t
      BY <2>2, CallIsAboutId DEF RunHook, LivesInv, EndedBeforeHook
    <3>2. CASE \E cause \in Causes : ctx[i].hook = "set" /\ Tell(t, i, cause)
      BY <3>1, <3>2, NotToldYet, TellTells
    <3>3. CASE Goto(t, "script") /\ UNCHANGED told
      BY <3>1, <3>3, NoneMoves DEF LivesInv
    <3> QED BY <2>2, <3>2, <3>3 DEF RunHook, Causes
  <2>3. CASE Joined(t)
    BY <2>3, NoneMoves DEF Joined, LivesInv
  <2>4. CASE HookReturns(t)
    BY <2>4, NoneMoves DEF HookReturns, LivesInv
  <2>5. CASE Answer(t) \/ \E i \in Ids : Ask(t, i) \/ SetDaemon(t, i)
    <3>1. UNCHANGED <<pc, told>>
      BY <2>5 DEF Answer, Ask, SetDaemon
    <3> QED BY <3>1 DEF life, Life
  <2>6. CASE \E hook \in {"none", "set"} : Make(t, hook)
    BY <2>6, NoneMoves DEF Make, InScript, LivesInv
  <2>7. CASE \E i \in Ids : Join(t, i) \/ Cancel(t, i)
    <3>1. pc[t] = "script" /\ Goto(t, "join") /\ UNCHANGED told
      BY <2>7 DEF Join, Cancel, InScript
    <3> QED BY <3>1, NoneMoves DEF LivesInv
  <2> QED BY <1>1, <2>1, <2>2, <2>3, <2>4, <2>5, <2>6, <2>7 DEF Calls
<1>2. ASSUME NEW i \in Ids, Start(i) \/ Finish(i) \/ Halt(i) PROVE [Lives!Next]_life
  <2>1. CASE Start(i)
    BY <2>1, NoneMoves DEF Start, LivesInv, Tasks
  <2>2. CASE Finish(i) \/ Halt(i)
    BY <2>2, EndEnds DEF Finish, Halt
  <2> QED BY <1>2, <2>1, <2>2
<1>3. CASE SweepHook
  <2> DEFINE i == op[Main].id
  <2>1. pc[Main] = "sweep" /\ i \in Ids /\ pc[i] = "over" /\ i # Main /\ Main \in Tasks
    BY <1>3, SweptIsOver, ThreadsAssumption DEF Tasks
  <2>2. CASE \E cause \in Causes : ctx[i].hook = "set" /\ Tell(Main, i, cause)
    BY <2>1, <2>2, NotToldYet, TellTells
  <2>3. CASE Goto(Main, "free") /\ UNCHANGED told
    BY <2>1, <2>3, NoneMoves DEF LivesInv
  <2> QED BY <1>3, <2>2, <2>3 DEF SweepHook, Causes
<1>4. CASE EndMain \/ SweepFree \/ SweepEnd
  <2>1. /\ Main \in Tasks /\ pc[Main] \in {"script", "free", "sweep"} /\ UNCHANGED told
        /\ Goto(Main, "sweep") \/ Goto(Main, "gone")
    BY <1>4 DEF EndMain, SweepFree, SweepEnd, InScript, Tasks
  <2> QED BY <2>1, NoneMoves DEF LivesInv
<1>5. CASE UNCHANGED vars
  BY <1>5 DEF vars, life, Life
<1> QED BY <1>1, <1>2, <1>3, <1>4, <1>5 DEF Next, Exited

LEMMA LifeInit == Init => LivesInv /\ Lives!Init
<1> SUFFICES ASSUME Init PROVE LivesInv /\ Lives!Init
  OBVIOUS
<1>1. IInv
  BY InitIInv
<1>2. \A i \in Ids : pc[i] = "none" /\ told[i] = <<>> /\ i # Main
  BY ThreadsAssumption DEF Init, Tasks
<1>3. \A t \in Tasks : pc[t] \in {"script", "none"} /\ op[t].kind = "none"
  BY DEF Init
<1>4. SettledByOne /\ EndedBeforeHook
  BY <1>3 DEF SettledByOne, Settles, EndedBeforeHook, Tasks
<1>5. BeingMade /\ ToldOnce
  <2>1. \A i \in Ids : ~(i < count)
    BY ThreadsAssumption DEF Init, Ids
  <2> QED BY <1>2, <2>1 DEF BeingMade, ToldOnce
<1>6. Lives!Init
  BY <1>2 DEF Lives!Init, Life
<1> QED BY <1>1, <1>4, <1>5, <1>6 DEF LivesInv

LEMMA LivesStays == ASSUME LivesInv, UNCHANGED vars PROVE LivesInv'
<1>1. IInv'
  BY ExitedInv DEF LivesInv
<1>2. UNCHANGED <<ctx, count, pc, op, claimed, told>>
  BY DEF vars
<1>3. SettledByOne' /\ BeingMade' /\ EndedBeforeHook' /\ ToldOnce'
  BY <1>2 DEF LivesInv, SettledByOne, Settles, BeingMade, EndedBeforeHook, ToldOnce
<1> QED BY <1>1, <1>3 DEF LivesInv

LEMMA NextLives == ASSUME LivesInv, [Next]_vars, Slips = {} PROVE LivesInv'
<1>1. IInv'
  BY NextIInv DEF LivesInv
<1>2. ASSUME NEW t \in Tasks, Calls(t)
      PROVE  SettledByOne' /\ BeingMade' /\ EndedBeforeHook' /\ ToldOnce'
  BY <1>2, CreateLives, JoinedLives, RunHookLives, HookReturnsLives, AnswerLives, MakeLives,
     JoinLives, CancelLives, AskLives, SetDaemonLives
     DEF Calls
<1>3. ASSUME NEW i \in Ids, Start(i) \/ Finish(i) \/ Halt(i)
      PROVE  SettledByOne' /\ BeingMade' /\ EndedBeforeHook' /\ ToldOnce'
  BY <1>3, StartLives, FinishLives, HaltLives
<1>4. CASE UNCHANGED vars
  BY <1>4, LivesStays
<1>5. CASE EndMain \/ SweepHook \/ SweepFree \/ SweepEnd
  BY <1>1, <1>5, EndMainLives, SweepHookLives, SweepFreeLives, SweepEndLives DEF LivesInv
<1> QED BY <1>1, <1>2, <1>3, <1>4, <1>5 DEF Next, Exited, LivesInv

LEMMA LivesInvHolds == ASSUME Slips = {} PROVE Spec => []LivesInv
<1>1. LivesInv /\ [Next]_vars => LivesInv'
  BY NextLives
<1>2. Init => LivesInv
  BY LifeInit
<1> QED BY <1>1, <1>2, PTL DEF Spec

\* on_kill is called when the thread has ended, not before (ml_threading.c), for any number
\* of threads.
THEOREM HooksFollowTheEnd == ASSUME Slips = {} PROVE Spec => []ToldAfterEnd
<1>1. LivesInv => ToldAfterEnd
  BY DEF LivesInv, ToldOnce, ToldAfterEnd
<1> QED BY <1>1, LivesInvHolds, PTL

\* What ml_threading.c does is what ThreadLives promises of every thread: it begins, ends,
\* and its on_kill is called once, after that, whatever tasks make, join and cancel threads
\* and however many there are.
THEOREM LivesAreKept == ASSUME Slips = {} PROVE Spec => ImplementsThreadLives
<1>1. Init => Lives!Init
  BY LifeInit
<1>2. LivesInv /\ [Next]_vars => [Lives!Next]_life
  BY LifeStep
<1> QED BY <1>1, <1>2, LivesInvHolds, PTL DEF Spec, ImplementsThreadLives, Lives!Spec, life
=============================================================================

---------------------------- MODULE ThreadLives -----------------------------
(***************************************************************************)
(* What thread.make promises of every thread (ml_threading.c): it runs,    *)
(* it ends, and its on_kill function is called once, after its end,        *)
(* whatever the end was.                                                   *)
(***************************************************************************)
CONSTANT Ids

VARIABLE life      \* life[i]: how far thread i has come

Init == life = [i \in Ids |-> "unmade"]

Move(i, from, to) == life[i] = from /\ life' = [life EXCEPT ![i] = to]

Begin(i) == Move(i, "unmade", "running")
End(i)   == Move(i, "running", "ended")
Tell(i)  == Move(i, "ended", "told")

Next == \E i \in Ids : Begin(i) \/ End(i) \/ Tell(i)

Spec == Init /\ [][Next]_life
=============================================================================

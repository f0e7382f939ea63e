----------------------------- MODULE SleepMutex -----------------------------
(***************************************************************************)
(* What a sleep lock promises to the tasks that use it: one owner at a     *)
(* time, only the owner gives it up, and while some task asks for it and   *)
(* nobody owns it, somebody gets it.  Which of the tasks gets it is open:  *)
(* kernel/sleeplock.c lets a newcomer overtake the one it has woken.       *)
(***************************************************************************)
CONSTANTS Tasks, None

VARIABLES owner,   \* the task that owns the lock, or None
          phase    \* of a task: "out", "asks" or "owns"

mvars == <<owner, phase>>

MInit == owner = None /\ phase = [t \in Tasks |-> "out"]

Ask(t) == /\ phase[t] = "out"
          /\ phase' = [phase EXCEPT ![t] = "asks"]
          /\ UNCHANGED owner

Grant(t) == /\ phase[t] = "asks" /\ owner = None
            /\ owner' = t
            /\ phase' = [phase EXCEPT ![t] = "owns"]

Drop(t) == /\ phase[t] = "owns" /\ owner = t
           /\ owner' = None
           /\ phase' = [phase EXCEPT ![t] = "out"]

MNext == \E t \in Tasks : Ask(t) \/ Grant(t) \/ Drop(t)

MSafe == MInit /\ [][MNext]_mvars

MSpec == MSafe /\ WF_mvars(\E t \in Tasks : Grant(t))
=============================================================================

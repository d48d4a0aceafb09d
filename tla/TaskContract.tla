----------------------------- MODULE TaskContract -----------------------------
(***************************************************************************)
(* What a work queue and its consumers promise of the tasks published to   *)
(* it: a task is finished only after its effect took place, a finished or  *)
(* lost task is never taken up again, and an effect is never undone and    *)
(* belongs to a task that was submitted.  A lost task may have its effect  *)
(* all the same, and a task may have it more than once.                    *)
(***************************************************************************)
CONSTANT Tasks

VARIABLES
    task,      \* task -> "none", "open", "done" or "lost"
    effect     \* the tasks whose effect took place

Init ==
    /\ task = [t \in Tasks |-> "none"]
    /\ effect = {}

(* lost at once if nobody listens *)
Submit(t) ==
    /\ task[t] = "none"
    /\ \E s \in {"open", "lost"} : task' = [task EXCEPT ![t] = s]
    /\ UNCHANGED effect

(* One commit or message may be the effect of several tasks. *)
Perform(S) ==
    /\ \A t \in S : task[t] # "none"
    /\ effect' = effect \cup S
    /\ UNCHANGED task

Finish(t) ==
    /\ task[t] = "open"
    /\ t \in effect
    /\ task' = [task EXCEPT ![t] = "done"]
    /\ UNCHANGED effect

GiveUp(S) ==
    /\ \A t \in S : task[t] = "open"
    /\ task' = [t \in Tasks |-> IF t \in S THEN "lost" ELSE task[t]]
    /\ UNCHANGED effect

Next ==
    \/ \E S \in SUBSET Tasks : Perform(S) \/ GiveUp(S)
    \/ \E t \in Tasks : Submit(t) \/ Finish(t)

Promise == Init /\ [][Next]_<<task, effect>>

=============================================================================

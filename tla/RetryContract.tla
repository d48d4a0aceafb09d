----------------------------- MODULE RetryContract -----------------------------
(***************************************************************************)
(* The contract of a task queue whose consumers may also hand a task on:   *)
(* they submit a new task in its place, which then is the effect of the    *)
(* old one.  What is handed on is never dropped between the two tasks, and *)
(* no task is handed on to one that was submitted before.                  *)
(***************************************************************************)
EXTENDS TaskContract

HandOn(t, s) ==
    /\ task[t] # "none"
    /\ task[s] = "none"
    /\ task' = [task EXCEPT ![s] = "open"]
    /\ effect' = effect \cup {t}

RetryNext ==
    \E t \in Tasks :
        \/ Submit(t)
        \/ Perform({t})
        \/ Finish(t)
        \/ GiveUp({t})
        \/ \E s \in Tasks : HandOn(t, s)

RetryPromise == Init /\ [][RetryNext]_<<task, effect>>

=============================================================================

---------------------------- MODULE TaskExecution ----------------------------
(***************************************************************************)
(* What the dispatcher promises about a task, without processes, leases or *)
(* registries: at most one worker executes it, an execution only starts    *)
(* while the task is open, and only an execution under way may turn a      *)
(* final task into an open one (it writes its own status when it ends).    *)
(***************************************************************************)
CONSTANTS Tasks, Workers

VARIABLES
    exec,  \* task -> workers executing it
    fate   \* task -> "absent" (no row), "open" or "final"

vars == <<exec, fate>>

Fates == {"absent", "open", "final"}

Init ==
    /\ exec = [t \in Tasks |-> {}]
    /\ fate = [t \in Tasks |-> "absent"]

\* The row is written, by a request or by a run that brings its own.
Admit(t) ==
    /\ fate[t] = "absent"
    /\ fate' = [fate EXCEPT ![t] = "open"]
    /\ UNCHANGED exec

Start(t, w) ==
    /\ fate[t] = "open"
    /\ exec[t] = {}
    /\ exec' = [exec EXCEPT ![t] = {w}]
    /\ UNCHANGED fate

\* Cancelled by a request, or failed by a recovery.
Settle(t) ==
    /\ fate[t] = "open"
    /\ fate' = [fate EXCEPT ![t] = "final"]
    /\ UNCHANGED exec

\* The executing worker asks for input, and goes on.
Reopen(t) ==
    /\ exec[t] # {}
    /\ fate[t] = "final"
    /\ fate' = [fate EXCEPT ![t] = "open"]
    /\ UNCHANGED exec

\* The execution ends with a status of its own choice; without a row, with none.
End(t, f) ==
    /\ exec[t] # {}
    /\ exec' = [exec EXCEPT ![t] = {}]
    /\ f = "absent" <=> fate[t] = "absent"
    /\ fate' = [fate EXCEPT ![t] = f]

Forget(t) ==
    /\ fate[t] # "absent"
    /\ fate' = [fate EXCEPT ![t] = "absent"]
    /\ UNCHANGED exec

\* A process dies, and every execution it carried with it.
Lose(T) ==
    /\ exec' = [t \in Tasks |-> IF t \in T THEN {} ELSE exec[t]]
    /\ UNCHANGED fate

Next ==
    \/ \E t \in Tasks : Admit(t) \/ Settle(t) \/ Reopen(t) \/ Forget(t)
    \/ \E t \in Tasks, w \in Workers : Start(t, w)
    \/ \E t \in Tasks, f \in Fates : End(t, f)
    \/ \E T \in SUBSET Tasks : Lose(T)

Spec == Init /\ [][Next]_vars
=============================================================================

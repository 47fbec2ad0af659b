----------------------------- MODULE MCAgentLoop -----------------------------
(***************************************************************************)
(* Instances of AgentLoop for TLC.                                         *)
(***************************************************************************)
EXTENDS AgentLoop

TwoSteps == <<"a", "b">>

Plain == [supervisor |-> FALSE, planner |-> "selected", marks |-> FALSE, remote |-> FALSE,
          writeFails |-> FALSE]

SomeConfs == {[Plain EXCEPT !.writeFails = TRUE],
              [Plain EXCEPT !.supervisor = TRUE, !.marks = TRUE],
              [Plain EXCEPT !.planner = "policy", !.remote = TRUE],
              [Plain EXCEPT !.planner = "never", !.supervisor = TRUE]}
=============================================================================

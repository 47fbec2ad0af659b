------------------------------ MODULE AgentLoop ------------------------------
(***************************************************************************)
(* One run as its agent sees it: the think-act loop, the plan the loop and *)
(* the model keep in step, the summary, and how the run ends               *)
(* (brain/core/agents, brain/core/handlers, brain/core/tools/plan_*.py,    *)
(* brain/core/plan_snapshots.py, the second half of autoagent_runtime.py). *)
(*                                                                         *)
(* The worker of a run is one asyncio task.  Between two awaits nothing of *)
(* its own process comes in between, so that it is cancelled at an await   *)
(* only; what another process writes to the database may come at any time. *)
(*                                                                         *)
(* The language model may answer anything.  A step of the plan is a name   *)
(* and a status; a call is a tool with its arguments; an observation is    *)
(* what later decisions look at: failed or not, reusable or not.           *)
(***************************************************************************)
EXTENDS Naturals, Sequences, FiniteSets, SequencesExt

CONSTANTS
    Names,      \* texts of plan steps
    Initial,    \* steps of the plan that is made for a complex request
    Calls,      \* tool calls the model may ask for
    Lookups,    \* those that are guarded against repetition
    Confs,      \* configurations that are looked at
    MaxSteps,   \* react_max_steps
    MaxLen,     \* bound: steps of a plan
    MaxWorkers  \* bound: workers of the run, one more for each answer of the user

\* What a run finds: whether a supervisor delegates it, how the plan tool got
\* into its collection, whether the model sets steps by itself (mark_step,
\* skip_step, add_step), whether requests about the run arrive in the process
\* of its worker, and whether a write after the last status may fail.
Conf == [supervisor : BOOLEAN, planner : {"never", "selected", "policy"}, marks : BOOLEAN,
         remote : BOOLEAN, writeFails : BOOLEAN]

ASSUME AgentLoopAssumption ==
    /\ Initial \in Seq(Names) \ {<<>>} /\ Len(Initial) <= MaxLen
    /\ Lookups \subseteq Calls /\ "none" \notin Calls /\ Confs \subseteq Conf
    /\ MaxSteps \in Nat \ {0} /\ MaxLen \in Nat /\ MaxWorkers \in Nat \ {0}

VARIABLES
    conf,      \* never changes
    status,    \* status of the task row
    by,        \* who gave it its final status (history)
    pc,        \* where the worker is
    needs,     \* the judgement of the request, cached on the context
    step,      \* current_step of the loop
    found,     \* calls with a reusable observation in the history of the loop
    call,      \* the call in execution
    answered,  \* there is a final answer, or a last observation to take for one
    waiting,   \* ctx.waiting_for_input
    plan,      \* PlanState of the plan tool, and whether there is one
    shown,     \* latest plan event of the run: its type and its steps
    summary,   \* the step the summary stands for, 0 for none
    open,      \* phases that were started and not ended
    workers    \* workers so far

row == <<status, by>>
loop == <<needs, step, found, call, answered, waiting, summary>>
plans == <<plan, shown>>
vars == <<conf, row, pc, loop, plans, open, workers>>

Final == {"completed", "failed", "cancelled"}
StepStatus == {"not_started", "running", "completed", "failed", "waiting_input", "skipped"}

\* Awaits at which the worker may be cancelled.
Awaits == {"building", "delegating", "thinking", "calling", "judging", "summing"}
Awaiting == pc \in Awaits \/ (pc = "planning" /\ needs = "unknown")

-----------------------------------------------------------------------------
(***************************************************************************)
(* The plan: PlanState, the plan tool, what is shown of it.                *)
(***************************************************************************)
NoPlan == [made |-> FALSE, steps |-> <<>>]

NewSteps(ns) == [i \in 1 .. Len(ns) |-> [name |-> ns[i], st |-> "not_started"]]

\* Index of the first step with a status, 0 when there is none.
FirstOf(steps, st) == SelectInSeq(steps, LAMBDA s : s.st = st)

\* PlanState.mark_step
Marked(steps, i, st) == [steps EXCEPT ![i].st = st]

\* PlanState.update: a step keeps its status where the same text stays in place.
Updated(steps, ns) ==
    [i \in 1 .. Len(ns) |->
        IF i <= Len(steps) /\ ns[i] = steps[i].name THEN steps[i]
        ELSE [name |-> ns[i], st |-> "not_started"]]

\* plan_event_type_for_command, as far as the end of a run looks at it
EventType(command) == IF command = "finish" THEN "plan_completed" ELSE "plan_open"

\* BuiltinPlanTool.execute: the plan is shown after every command that was not refused.
Planned(steps, command) ==
    /\ plan' = [made |-> TRUE, steps |-> steps]
    /\ shown' = [type |-> EventType(command), steps |-> steps]

\* mutant: the step that is ended is the first open one, whatever runs
TerminalPlanFirst(steps, end) ==
    LET rest == SelectInSeq(steps, LAMBDA s : s.st # "completed")
    IN  IF end = "completed" THEN [i \in DOMAIN steps |-> [steps[i] EXCEPT !.st = "completed"]]
        ELSE IF rest = 0 THEN steps ELSE Marked(steps, rest, end)

\* terminal_plan_payload
TerminalPlan(steps, end) ==
    LET over == {"running", "failed", "cancelled"}
        rest == SelectInSeq(steps, LAMBDA s : s.st # "completed")
    IN  IF end = "completed" THEN [i \in DOMAIN steps |-> [steps[i] EXCEPT !.st = "completed"]]
        ELSE IF \E i \in DOMAIN steps : steps[i].st \in over
             THEN [i \in DOMAIN steps |->
                      IF steps[i].st = "running" THEN [steps[i] EXCEPT !.st = end] ELSE steps[i]]
             ELSE IF rest = 0 THEN steps ELSE Marked(steps, rest, end)

TerminalType(end) == IF end = "completed" THEN "plan_completed"
                     ELSE IF end = "failed" THEN "plan_failed" ELSE "plan_cancelled"

\* sync_plan_terminal_status: what is shown when the run ends
Ended(s, end) ==
    IF s.type \in {"none", TerminalType(end)} THEN s
    ELSE [type |-> TerminalType(end), steps |-> TerminalPlan(s.steps, end)]

\* The plan tool is in the collection of the run.
HasPlanTool == conf.planner = "selected" \/ (conf.planner = "policy" /\ needs = "yes")

\* _sync_plan_step_from_tool_result, _mark_next_plan_step_running: the result of
\* a call ends the running step, and a good one starts the next.
Synced(steps, failed) ==
    LET running == FirstOf(steps, "running")
        done == Marked(steps, running, IF failed THEN "failed" ELSE "completed")
        next == FirstOf(done, "not_started")
    IN  IF failed \/ next = 0 THEN done ELSE Marked(done, next, "running")

\* mutant: the plan is not shown after a call
SyncPlanStepSilent(failed) ==
    /\ plan' = IF HasPlanTool /\ plan.made /\ FirstOf(plan.steps, "running") # 0
               THEN [plan EXCEPT !.steps = Synced(@, failed)] ELSE plan
    /\ UNCHANGED shown

SyncPlanStep(failed) ==
    IF HasPlanTool /\ plan.made /\ FirstOf(plan.steps, "running") # 0
    THEN Planned(Synced(plan.steps, failed), "mark_step")
    ELSE UNCHANGED plans

-----------------------------------------------------------------------------
Init ==
    /\ conf \in Confs
    /\ status = "queued" /\ by = "nobody" /\ pc = "queued"
    /\ needs = "unknown" /\ step = 0 /\ found = {} /\ call = "none"
    /\ answered = FALSE /\ waiting = FALSE /\ summary = 0
    /\ plan = NoPlan /\ shown = [type |-> "none", steps |-> <<>>]
    /\ open = {} /\ workers = 1

-----------------------------------------------------------------------------
(***************************************************************************)
(* The end of a worker.                                                    *)
(***************************************************************************)
End(st) ==
    /\ pc' = "ended" /\ status' = st /\ by' = "run"
    /\ UNCHANGED <<conf, workers>>

\* _record_autoagent_failure, from the plan that was shown last
RecordFailure(s) ==
    /\ End("failed")
    /\ shown' = Ended(s, "failed")

\* _mark_autoagent_waiting_input and _wait_for_runtime_tool_approval
Wait(st) ==
    /\ pc' = "ended" /\ status' = st /\ by' = "nobody"
    /\ UNCHANGED <<conf, workers>>

-----------------------------------------------------------------------------
(***************************************************************************)
(* The beginning: run_autoagent, the supervisor, the plan of the handler.  *)
(***************************************************************************)
\* The worker starts unless the task was ended meanwhile; its context, its
\* plan tool and its history are new.
Begin ==
    /\ pc = "queued"
    /\ IF status = "queued"
       THEN /\ status' = "running" /\ pc' = "building"
            /\ needs' = "unknown" /\ step' = 0 /\ found' = {} /\ call' = "none"
            /\ answered' = FALSE /\ waiting' = FALSE /\ summary' = 0
            /\ plan' = NoPlan /\ open' = {}
            /\ UNCHANGED <<conf, by, shown, workers>>
       ELSE /\ pc' = "ended"
            /\ UNCHANGED <<conf, row, loop, plans, open, workers>>

\* Memory, tools; the request is judged when that decides about the plan tool.
Build ==
    /\ pc = "building"
    /\ IF conf.planner = "policy" THEN needs' \in {"yes", "no"} ELSE needs' = needs
    /\ pc' = IF conf.supervisor THEN "delegating" ELSE "planning"
    /\ open' = IF conf.supervisor THEN open ELSE open \cup {"react"}
    /\ UNCHANGED <<conf, row, step, found, call, answered, waiting, summary, plans, workers>>

\* SupervisorHandler.handle: the selected agent gets a collection of its own.
Delegate ==
    /\ pc = "delegating"
    /\ pc' = "planning" /\ open' = open \cup {"agent", "react"}
    /\ UNCHANGED <<conf, row, loop, plans, workers>>

\* _maybe_create_initial_plan, and the first step of the loop
CreateInitialPlan ==
    /\ pc = "planning"
    /\ IF HasPlanTool /\ needs = "unknown" THEN needs' \in {"yes", "no"} ELSE needs' = needs
    /\ IF HasPlanTool /\ needs' = "yes"
       THEN Planned(Marked(NewSteps(Initial), 1, "running"), "mark_step")
       ELSE UNCHANGED plans
    /\ pc' = "thinking" /\ step' = 1
    /\ UNCHANGED <<conf, row, found, call, answered, waiting, summary, open, workers>>

-----------------------------------------------------------------------------
(***************************************************************************)
(* The loop: ReActAgentImp.think and act, BaseAgent.run.                   *)
(***************************************************************************)

\* The loop goes on while it has steps left; its last observation may stand
\* for an answer.
NextStep ==
    /\ IF step < MaxSteps
       THEN pc' = "thinking" /\ step' = step + 1 /\ answered' = FALSE
       ELSE pc' = "reasoned" /\ step' = step /\ answered' \in BOOLEAN
    /\ UNCHANGED <<conf, needs, summary, open, workers>>

\* The model answers with a tool call; the tools below do not wait.
Plans == pc = "thinking" /\ HasPlanTool

Commanded(steps, command) ==
    /\ Planned(steps, command) /\ NextStep
    /\ UNCHANGED <<row, found, call, waiting>>

Texts == UNION {[1 .. n -> Names] : n \in 0 .. MaxLen}

\* PlanFunctionTool._create, _update
Create == /\ Plans /\ ~ plan.made
          /\ \E ns \in Texts \ {<<>>} : Commanded(NewSteps(ns), "create")

\* mutant: an update does not count as a step of the loop
UpdateUncounted ==
    /\ Plans /\ plan.made
    /\ \E ns \in Texts : Planned(Updated(plan.steps, ns), "update")
    /\ UNCHANGED <<conf, row, loop, pc, open, workers>>

Update == /\ Plans /\ plan.made
          /\ \E ns \in Texts : Commanded(Updated(plan.steps, ns), "update")

\* _mark_step, _skip_step, _add_step
MarkStep == /\ Plans /\ plan.made /\ conf.marks
            /\ \E i \in DOMAIN plan.steps, st \in StepStatus \ {"not_started"} :
                  Commanded(Marked(plan.steps, i, st), "mark_step")

AddStep == /\ Plans /\ plan.made /\ conf.marks /\ Len(plan.steps) < MaxLen
           /\ \E i \in 1 .. Len(plan.steps) + 1, n \in Names :
                 Commanded(InsertAt(plan.steps, i, [name |-> n, st |-> "not_started"]), "add_step")

\* _finish makes a plan without steps when there is none.
FinishPlan == /\ Plans
              /\ Commanded(TerminalPlan(plan.steps, "completed"), "finish")

\* get_plan and continue show the plan there is; without one they show an empty plan.
ReadPlan ==
    /\ Plans /\ NextStep
    /\ shown' = [type |-> "plan_open", steps |-> plan.steps]
    /\ UNCHANGED <<plan, row, found, call, waiting>>

\* A command the plan refuses is a failed call like any other.
RefusedCommand ==
    /\ Plans /\ NextStep
    /\ UNCHANGED <<plans, row, found, call, waiting>>

\* BuiltinRequestInputTool.execute: the question is stored, the running step
\* waits, and the loop goes on; the result then ends another running step.
RequestInput ==
    /\ pc = "thinking"
    /\ status' = "waiting_input" /\ by' = "nobody" /\ waiting' = TRUE
    /\ LET running == FirstOf(plan.steps, "running")
           held == Marked(plan.steps, running, "waiting_input")
       IN  IF ~ HasPlanTool \/ running = 0 THEN UNCHANGED plans
           ELSE Planned(IF FirstOf(held, "running") = 0 THEN held ELSE Synced(held, FALSE), "mark_step")
    /\ NextStep
    /\ UNCHANGED <<found, call>>

\* The call is handed to its tool, unless it is a lookup that was answered before.
Call(c) ==
    /\ pc = "thinking" /\ ~ (c \in Lookups /\ c \in found)
    /\ pc' = "calling" /\ call' = c
    /\ UNCHANGED <<conf, row, needs, step, found, answered, waiting, summary, plans, open, workers>>

\* _find_previous_successful_tool_call: a repeated lookup ends the loop.
Repeated(c) ==
    /\ pc = "thinking" /\ c \in Lookups /\ c \in found
    /\ pc' = "reasoned" /\ answered' = FALSE
    /\ UNCHANGED <<conf, row, needs, step, found, call, waiting, summary, plans, open, workers>>

\* The model finishes, with an answer or without, gives nothing usable, or asks
\* for a tool there is not, which ends the loop with a message.
Finish ==
    /\ pc = "thinking"
    /\ pc' = "reasoned" /\ answered' \in BOOLEAN
    /\ UNCHANGED <<conf, row, needs, step, found, call, waiting, summary, plans, open, workers>>

\* The observation of a call, good or failed, in words that are reusable or not
Observe ==
    /\ pc = "calling"
    /\ \E failed, reusable \in BOOLEAN :
          /\ found' = IF reusable THEN found \cup {call} ELSE found
          /\ SyncPlanStep(failed)
    /\ call' = "none" /\ NextStep
    /\ UNCHANGED <<row, waiting>>

\* The model cannot be asked: the handler fails, and what it had opened with it.
ThinkFails ==
    /\ pc = "thinking"
    /\ RecordFailure(shown) /\ open' = open \ {"react", "agent"}
    /\ UNCHANGED <<loop, plan>>

\* A tool asks for approval before it is executed.  ToolApprovalRequired passes
\* the handlers as a failure, and the run waits.
ApprovalRequired ==
    /\ pc = "thinking"
    /\ Wait("waiting_approval") /\ open' = open \ {"react", "agent"}
    /\ UNCHANGED <<loop, plans>>

-----------------------------------------------------------------------------
(***************************************************************************)
(* After the loop: ReactHandler.handle.                                    *)
(***************************************************************************)
\* _should_return_direct_answer: the answer is enough when the request needs no
\* plan and there is none; the judgement is made now if it was not before.
Reasoned ==
    /\ pc = "reasoned"
    /\ open' = open \ {"react"}
    /\ pc' = IF answered /\ needs = "unknown" THEN "judging" ELSE "concluding"
    /\ UNCHANGED <<conf, row, loop, plans, workers>>

Judge ==
    /\ pc = "judging"
    /\ needs' \in {"yes", "no"} /\ pc' = "concluding"
    /\ UNCHANGED <<conf, row, step, found, call, answered, waiting, summary, plans, open, workers>>

DirectAnswer == answered /\ needs = "no" /\ plan.steps = <<>>

ReturnAnswer ==
    /\ pc = "concluding" /\ DirectAnswer
    /\ pc' = "handled"
    /\ UNCHANGED <<conf, row, loop, plans, open, workers>>

\* _mark_summary_step_running: the next step is the summary; the running step
\* before it is over.  Without a next step the running one is the summary.
SummaryStep(steps) ==
    IF FirstOf(steps, "not_started") # 0 THEN FirstOf(steps, "not_started") ELSE FirstOf(steps, "running")

\* mutant: the step before the summary goes on
SummaryRunningToo(steps) ==
    IF FirstOf(steps, "not_started") = 0 THEN steps
    ELSE Marked(steps, FirstOf(steps, "not_started"), "running")

SummaryRunning(steps) ==
    LET next == FirstOf(steps, "not_started")
        running == FirstOf(steps, "running")
        cleared == IF running # 0 /\ running < next THEN Marked(steps, running, "completed") ELSE steps
    IN  IF next = 0 THEN steps ELSE Marked(cleared, next, "running")

StartSummary ==
    /\ pc = "concluding" /\ ~ DirectAnswer
    /\ pc' = "summing" /\ open' = open \cup {"summary"}
    /\ summary' = IF HasPlanTool THEN SummaryStep(plan.steps) ELSE 0
    /\ IF HasPlanTool /\ FirstOf(plan.steps, "not_started") # 0
       THEN Planned(SummaryRunning(plan.steps), "mark_step")
       ELSE UNCHANGED plans
    /\ UNCHANGED <<conf, row, needs, step, found, call, answered, waiting, workers>>

\* _mark_summary_step_terminal: the plan after the summary
Summed(st) == [plan EXCEPT !.steps = IF summary = 0 THEN @ ELSE Marked(@, summary, st)]

ShownSummed(st) ==
    IF summary = 0 THEN shown ELSE [type |-> EventType("mark_step"), steps |-> Summed(st).steps]

Summarize ==
    /\ pc = "summing"
    /\ plan' = Summed("completed") /\ shown' = ShownSummed("completed")
    /\ pc' = "handled" /\ open' = open \ {"summary"}
    /\ UNCHANGED <<conf, row, loop, workers>>

SummaryFails ==
    /\ pc = "summing"
    /\ plan' = Summed("failed") /\ RecordFailure(ShownSummed("failed"))
    /\ open' = open \ {"summary", "agent"}
    /\ UNCHANGED loop

\* _run_autoagent_handler: the handler has returned, and its worker agent with it.
AwaitInput ==
    /\ pc = "handled" /\ waiting
    /\ Wait("waiting_input") /\ open' = open \ {"agent"}
    /\ UNCHANGED <<loop, plans>>

\* _complete_autoagent_success writes the status first and the rest later.
Complete ==
    /\ pc = "handled" /\ ~ waiting
    /\ status' = "completed" /\ by' = "run" /\ pc' = "completing"
    /\ open' = open \ {"agent"}
    /\ UNCHANGED <<conf, loop, plans, workers>>

Completed ==
    /\ pc = "completing"
    /\ pc' = "ended" /\ shown' = Ended(shown, "completed")
    /\ UNCHANGED <<conf, row, loop, plan, open, workers>>

\* A write before or after that of the plan fails, and the run with it.
CompletedFails ==
    /\ pc = "completing" /\ conf.writeFails
    /\ \E s \in {shown, Ended(shown, "completed")} : RecordFailure(s)
    /\ UNCHANGED <<loop, plan, open>>

Worker ==
    \/ Begin \/ Build \/ Delegate \/ CreateInitialPlan
    \/ Create \/ Update \/ MarkStep \/ AddStep \/ FinishPlan \/ ReadPlan \/ RefusedCommand
    \/ RequestInput \/ (\E c \in Calls : Call(c) \/ Repeated(c))
    \/ Finish \/ Observe \/ ThinkFails \/ ApprovalRequired
    \/ Reasoned \/ Judge \/ ReturnAnswer \/ StartSummary \/ Summarize \/ SummaryFails
    \/ AwaitInput \/ Complete \/ Completed \/ CompletedFails

-----------------------------------------------------------------------------
(***************************************************************************)
(* Requests of users.                                                      *)
(***************************************************************************)
\* A request reaches a worker in its own process, at an await or before it began.
Reached == ~ conf.remote /\ (Awaiting \/ pc = "queued")
Arrives == conf.remote \/ Awaiting \/ pc \in {"queued", "ended"}

\* cancel_agent_task: the status and the plan; a worker that is reached then
\* does the same (_cancel_autoagent_run) and leaves its phases open.
CancelTask ==
    /\ status \notin Final /\ Arrives
    /\ status' = "cancelled" /\ by' = "task"
    /\ shown' = Ended(shown, "cancelled")
    /\ pc' = IF Reached THEN "ended" ELSE pc
    /\ UNCHANGED <<conf, loop, plan, open, workers>>

\* _archive_owned_session leaves the plan to the worker it cancels.
Archive ==
    /\ status \notin Final /\ Arrives
    /\ status' = "cancelled"
    /\ IF Reached /\ pc # "queued"
       THEN by' = "run" /\ shown' = Ended(shown, "cancelled")
       ELSE by' = "archive" /\ UNCHANGED shown
    /\ pc' = IF Reached THEN "ended" ELSE pc
    /\ UNCHANGED <<conf, loop, plan, open, workers>>

\* resolve_session_run_approval: rejected, or approved and done again in another run
ResolveApproval ==
    /\ status = "waiting_approval" /\ pc = "ended"
    /\ status' \in {"cancelled", "completed"} /\ by' = "approval"
    /\ UNCHANGED <<conf, pc, loop, plans, open, workers>>

\* The user answers: the same run is queued for another worker.  Bound: MaxWorkers
Answer ==
    /\ status = "waiting_input" /\ pc = "ended" /\ workers < MaxWorkers
    /\ status' = "queued" /\ pc' = "queued" /\ workers' = workers + 1
    /\ UNCHANGED <<conf, by, loop, plans, open>>

User == CancelTask \/ Archive \/ ResolveApproval \/ Answer

Next == Worker \/ User

\* The model and the tools answer or fail: their clients give up after a time.
Spec == Init /\ [][Next]_vars /\ WF_vars(Worker)

-----------------------------------------------------------------------------
(***************************************************************************)
(* Properties.                                                             *)
(***************************************************************************)
Step(sts) == [name : Names, st : sts]

\* Types and ranges.
TypeOK ==
    /\ conf \in Confs
    /\ status \in {"queued", "running", "waiting_input", "waiting_approval"} \cup Final
    /\ by \in {"nobody", "run", "task", "archive", "approval"} /\ (by = "nobody" <=> status \notin Final)
    /\ needs \in {"unknown", "yes", "no"} /\ step \in 0 .. MaxSteps
    /\ found \subseteq Calls /\ call \in Calls \cup {"none"} /\ (pc = "calling" => call # "none")
    /\ answered \in BOOLEAN /\ waiting \in BOOLEAN /\ summary \in Nat
    /\ plan \in [made : BOOLEAN, steps : Seq(Step(StepStatus))]
    /\ shown \in [type : {"none", "plan_open"} \cup {TerminalType(e) : e \in Final},
                  steps : Seq(Step(StepStatus \cup {"cancelled"}))]
    /\ open \subseteq {"agent", "react", "summary"} /\ workers \in 1 .. MaxWorkers

\* What replays and the page show of a plan is the plan of the agent, at every
\* moment of the loop, whatever commands were refused or failed on the way, until
\* the run is over (unless another process writes to it meanwhile).
ShownIsPlan ==
    ~ conf.remote /\ plan.made /\ pc # "queued" /\ by = "nobody" => shown.steps = plan.steps

Over(steps) == \A i \in DOMAIN steps : steps[i].st # "running"

\* A run that its own worker or the cancellation of the task has ended does not
\* show a step as running for ever: a completed run shows nothing but completed
\* steps, a failed or cancelled one shows where it ended, unless all was done.
EndIsShown ==
    pc = "ended" /\ by \in {"run", "task"} =>
        /\ Over(shown.steps)
        /\ status = "completed" => \A i \in DOMAIN shown.steps : shown.steps[i].st = "completed"
        /\ status # "completed" =>
              \/ \A i \in DOMAIN shown.steps : shown.steps[i].st = "completed"
              \/ \E i \in DOMAIN shown.steps : shown.steps[i].st \in {"failed", "cancelled"}

\* The loop keeps one step in work: as long as the model does not set steps by
\* itself, the results of tools and the summary never leave two steps running,
\* but for a summary step that an update has put in front of the running one.
Running == {i \in DOMAIN plan.steps : plan.steps[i].st = "running"}

OneStepRunning == ~ conf.marks => \A i, j \in Running : i < j => i = summary

\* A worker that has asked the user something does not complete the run over the
\* open question, whatever it did after asking.
QuestionIsKept == by = "run" /\ status = "completed" => ~ waiting

\* Whoever follows the phases of a run sees each of them end, unless the run was
\* cancelled in the middle of one.
PhasesEnd == pc = "ended" /\ status # "cancelled" /\ by \notin {"task", "archive"} => open = {}

\* Outside of the commands of the model the plan goes forward: steps stay what
\* and where they are, one that is not running only starts, and a running one
\* ends; what was completed, failed or skipped is left alone.
Forward(old, new) ==
    \/ old = new
    \/ old = "not_started" /\ new \in {"running", "completed", "failed"}
    \/ old = "running" /\ new \in {"completed", "failed", "waiting_input"}

ByModel == Create \/ Update \/ MarkStep \/ AddStep \/ FinishPlan

PlanGoesForward ==
    [][plan.made /\ plan'.made /\ ~ ByModel =>
          /\ Len(plan'.steps) = Len(plan.steps)
          /\ \A i \in DOMAIN plan.steps :
                /\ plan'.steps[i].name = plan.steps[i].name
                /\ Forward(plan.steps[i].st, plan'.steps[i].st)]_vars

\* A run that was started ends or waits for somebody, whatever the model asks for.
RunSettles == status = "running" ~> status # "running"
=============================================================================

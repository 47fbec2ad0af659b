----------------------------- MODULE SessionRuns -----------------------------
(***************************************************************************)
(* One conversation session and the runs it starts.                        *)
(*                                                                         *)
(* A session row (sessions.py) projects what its runs do: it says whether  *)
(* the session is idle, busy, or waits for the user, and which run is      *)
(* current.  Requests read it to decide (session_message_service.py,       *)
(* approval_service.py, app.py) and so do the runs (autoagent_runtime.py), *)
(* but nobody locks it: update_session overwrites whatever is there.       *)
(*                                                                         *)
(* A run is a task row and, while it is worked on, one asyncio worker of   *)
(* one process; leases and the choice of the recovering process are the    *)
(* business of TaskDispatch.  Code of a process between two awaits is a    *)
(* segment (variable seg); each database access in it is a step of its     *)
(* own, and other processes go on between them.                            *)
(***************************************************************************)
EXTENDS Naturals, FiniteSets

CONSTANTS
    Procs,    \* server processes
    Runs,     \* run identifiers: the same as the task identifiers
    None,     \* no run, no process
    Schedules \* what the environment may produce, one of them in a behaviour

HazardKinds == {
    "race",        \* two processes serve the session at the same moment
    "remote",      \* a request reaches a process that does not run the worker
    "unwinding",   \* a request comes while a cancelled worker still winds up
    "unchecked",   \* a run is started while another one is active
    "archive",     \* the session is archived, or reset, while a run is active
    "task_api",    \* the task endpoints are used on a run that is not executing
    "crash",       \* a process dies with its workers
    "exhaust"}     \* a recovery gives a run up

\* limit: bound, runs that are in use at the same time.
Schedule == [hazards : SUBSET HazardKinds, limit : 1 .. Cardinality(Runs)]

ASSUME SessionAssumption ==
    /\ None \notin Procs \cup Runs
    /\ IsFiniteSet(Procs) /\ IsFiniteSet(Runs)
    /\ Schedules \subseteq Schedule

VARIABLES
    schedule,  \* never changes
    sstat,     \* AgentSessionRecord.status
    scur,      \* AgentSessionRecord.current_run_id
    tstat,     \* run -> status of its task row, "none" without a row
    approval,  \* run -> "none", "requested" or "resolved" (last approval event)
    reruns,    \* run -> reruns started by resolving its approval (history)
    wpc,       \* run -> where its worker is suspended, "none" without a worker
    wproc,     \* run -> the process of its worker
    wcancel,   \* run -> cancel() was called, not delivered yet
    seg        \* process -> the code it is in the middle of, and what it read

rowVars == <<sstat, scur, tstat, approval, reruns>>
workerVars == <<wpc, wproc, wcancel>>
vars == <<schedule, rowVars, workerVars, seg>>

Hazards == schedule.hazards

SessionStatus == {"idle", "running", "waiting_input", "waiting_approval", "archived"}
Final == {"completed", "failed", "cancelled"}
Waiting == {"waiting_input", "waiting_approval"}
TaskStatus == Final \cup Waiting \cup {"none", "queued", "running"}
Executing == {"handling", "asked"}

SegKinds == {"idle", "message", "answer", "answered", "archive", "archived",
             "cancel", "cancelled", "retry",
             "rerun", "rerun_event", "rerun_parent", "rerun_session",
             "resolve", "resolve_task", "resolve_session",
             "begin", "create", "start", "ending"}

\* What a segment remembers: the run it is about, the run it starts, and the
\* session's current run and the task's status as they were when they were read.
Seg(k, r, n, c, t) == [kind |-> k, run |-> r, new |-> n, cur |-> c, was |-> t]
Idle == Seg("idle", None, None, None, "none")

Exists(r) == tstat[r] # "none"
Enter(p, s) == seg' = [seg EXCEPT ![p] = s] /\ UNCHANGED schedule

\* update_session writes the columns it is given, whatever they were.
UpdateSession(s, r) == sstat' = s /\ scur' = r

\* update_status: a missing row is ignored.
UpdateStatus(r, s) == tstat' = [tstat EXCEPT ![r] = IF @ = "none" THEN @ ELSE s]

Init ==
    /\ schedule \in Schedules
    /\ sstat = "idle" /\ scur = None
    /\ tstat = [r \in Runs |-> "none"]
    /\ approval = [r \in Runs |-> "none"]
    /\ reruns = [r \in Runs |-> 0]
    /\ wpc = [r \in Runs |-> "none"]
    /\ wproc = [r \in Runs |-> None]
    /\ wcancel = [r \in Runs |-> FALSE]
    /\ seg = [p \in Procs |-> Idle]

-----------------------------------------------------------------------------
(***************************************************************************)
(* Workers.                                                                *)
(***************************************************************************)
Active(r) == wpc[r] # "none"

\* A run identifier that was never used.
Unused(r) ==
    /\ tstat[r] = "none" /\ ~ Active(r) /\ scur # r
    /\ approval[r] = "none"
    /\ \A p \in Procs : r \notin {seg[p].run, seg[p].new}

Fresh(n) == Unused(n) /\ Cardinality({r \in Runs : ~ Unused(r)}) < schedule.limit

StartWorker(p, r) ==
    /\ wpc' = [wpc EXCEPT ![r] = "scheduled"]
    /\ wproc' = [wproc EXCEPT ![r] = p]
    /\ wcancel' = [wcancel EXCEPT ![r] = FALSE]

EndWorker(r) ==
    /\ wpc' = [wpc EXCEPT ![r] = "none"]
    /\ wproc' = [wproc EXCEPT ![r] = None]
    /\ wcancel' = [wcancel EXCEPT ![r] = FALSE]

\* InProcessTaskRunner.cancel only knows the workers of its own process.
CancelWorker(p, r) ==
    wcancel' = [wcancel EXCEPT ![r] = @ \/ (Active(r) /\ wproc[r] = p)]

\* Two processes are in the middle of code about the session only in a race.
Turn(p) ==
    /\ seg[p] = Idle
    /\ "race" \in Hazards \/ \A q \in Procs : seg[q] = Idle

(***************************************************************************)
(* When the environment sends a request to process p.                      *)
(***************************************************************************)
Serves(p) ==
    /\ Turn(p)
    /\ "unwinding" \in Hazards \/ \A r \in Runs : ~ wcancel[r]

Quiet == \A r \in Runs : ~ Active(r)

Local(p, r) == "remote" \in Hazards \/ (Active(r) => wproc[r] = p)

-----------------------------------------------------------------------------
(***************************************************************************)
(* Session messages.  The reads a handler begins with are one step.        *)
(***************************************************************************)
\* mutant: a session that is running takes another message
MessageWhileBusy(p, n) ==
    /\ Serves(p)
    /\ sstat \in {"idle", "running"}
    /\ Fresh(n)
    /\ Enter(p, Seg("message", None, n, scur, "none"))
    /\ UNCHANGED <<rowVars, workerVars>>

\* add_session_message: a session that is archived, running or waiting for an
\* approval refuses; one that waits for input resumes its run.
Message(p, n) ==
    /\ Serves(p)
    /\ sstat = "idle"
    /\ Fresh(n)
    /\ Enter(p, Seg("message", None, n, scur, "none"))
    /\ UNCHANGED <<rowVars, workerVars>>

\* The session is marked; the run itself creates its row later.
MessageSession(p) ==
    /\ seg[p].kind = "message"
    /\ UpdateSession("running", seg[p].new)
    /\ StartWorker(p, seg[p].new)
    /\ Enter(p, Idle)
    /\ UNCHANGED <<tstat, approval, reruns>>

\* Two answers to one question are left to TaskDispatch.
Answer(p) ==
    /\ Serves(p)
    /\ sstat = "waiting_input" /\ scur # None
    /\ ~ Active(scur) /\ \A q \in Procs : seg[q].kind \notin {"answer", "answered"}
    /\ Exists(scur)
    /\ Enter(p, Seg("answer", scur, None, scur, tstat[scur]))
    /\ UNCHANGED <<rowVars, workerVars>>

\* add_user_input queues the task only if it still waits ...
AnswerTask(p) ==
    /\ seg[p].kind = "answer"
    /\ IF tstat[seg[p].run] = "waiting_input"
       THEN UpdateStatus(seg[p].run, "queued")
       ELSE UNCHANGED tstat
    /\ Enter(p, [seg[p] EXCEPT !.kind = "answered"])
    /\ UNCHANGED <<sstat, scur, approval, reruns, workerVars>>

\* ... but the session is marked and the worker started in any case.
AnswerSession(p) ==
    /\ seg[p].kind = "answered"
    /\ UpdateSession("running", seg[p].run)
    /\ StartWorker(p, seg[p].run)
    /\ Enter(p, Idle)
    /\ UNCHANGED <<tstat, approval, reruns>>

(***************************************************************************)
(* Archiving and cancelling.                                               *)
(***************************************************************************)
\* _archive_owned_session: whatever the status of the session is.
Archive(p) ==
    /\ Serves(p)
    /\ "archive" \in Hazards \/ Quiet
    /\ scur # None => Local(p, scur)
    /\ Enter(p, Seg("archive", scur, None, scur,
                    IF scur = None THEN "none" ELSE tstat[scur]))
    /\ UNCHANGED <<rowVars, workerVars>>

ArchiveTask(p) ==
    /\ seg[p].kind = "archive"
    /\ IF seg[p].was \in Final \cup {"none"}
       THEN UNCHANGED <<tstat, wcancel>>
       ELSE CancelWorker(p, seg[p].run) /\ UpdateStatus(seg[p].run, "cancelled")
    /\ Enter(p, [seg[p] EXCEPT !.kind = "archived"])
    /\ UNCHANGED <<sstat, scur, approval, reruns, wpc, wproc>>

ArchiveSession(p) ==
    /\ seg[p].kind = "archived"
    /\ UpdateSession("archived", None)
    /\ Enter(p, Idle)
    /\ UNCHANGED <<tstat, approval, reruns, workerVars>>

\* PATCH with archived = false resets the status, archived or not.
Unarchive(p) ==
    /\ Serves(p)
    /\ "archive" \in Hazards \/ (Quiet /\ sstat = "archived")
    /\ UpdateSession("idle", scur)
    /\ UNCHANGED <<tstat, approval, reruns, workerVars, seg, schedule>>

\* cancel_agent_session_run, and cancel_agent_task alone (cur = None), which
\* leaves it to the worker to tell the session.
Cancel(p, r) ==
    /\ Serves(p)
    /\ Exists(r)
    /\ Local(p, r)
    /\ \E c \in {scur, None} :
          /\ c = None /\ scur # None =>
                "task_api" \in Hazards \/ wpc[r] \in Executing
          /\ Enter(p, Seg("cancel", r, None, c, "none"))
    /\ UNCHANGED <<rowVars, workerVars>>

CancelTask(p) ==
    /\ seg[p].kind = "cancel"
    /\ LET r == seg[p].run
       IN  IF tstat[r] \in Final
           THEN UNCHANGED <<tstat, wcancel>>
           ELSE CancelWorker(p, r) /\ UpdateStatus(r, "cancelled")
    /\ Enter(p, [seg[p] EXCEPT !.kind = "cancelled"])
    /\ UNCHANGED <<sstat, scur, approval, reruns, wpc, wproc>>

\* mutant: the session is left to the worker, which may have ended
CancelSessionForgotten(p) ==
    /\ seg[p].kind = "cancelled"
    /\ Enter(p, Idle)
    /\ UNCHANGED <<rowVars, workerVars>>

CancelSession(p) ==
    /\ seg[p].kind = "cancelled"
    /\ IF seg[p].cur = seg[p].run
       THEN UpdateSession("idle", None)
       ELSE UNCHANGED <<sstat, scur>>
    /\ Enter(p, Idle)
    /\ UNCHANGED <<tstat, approval, reruns, workerVars>>

(***************************************************************************)
(* Starting further runs.                                                  *)
(***************************************************************************)
NewRow(n) == tstat' = [tstat EXCEPT ![n] = "queued"]

\* mutant: an archived session is not refused
RetryArchived(p, r, n) ==
    /\ Serves(p)
    /\ "unchecked" \in Hazards \/ (Quiet /\ sstat # "running")
    /\ Exists(r)
    /\ Fresh(n)
    /\ NewRow(n)
    /\ Enter(p, Seg("retry", r, n, None, "none"))
    /\ UNCHANGED <<sstat, scur, approval, reruns, workerVars>>

\* retry_agent_session_run refuses an archived session and nothing else.
Retry(p, r, n) ==
    /\ Serves(p)
    /\ "unchecked" \in Hazards \/ (Quiet /\ sstat # "running")
    /\ sstat # "archived"
    /\ Exists(r)
    /\ Fresh(n)
    /\ NewRow(n)
    /\ Enter(p, Seg("retry", r, n, None, "none"))
    /\ UNCHANGED <<sstat, scur, approval, reruns, workerVars>>

RetrySession(p) ==
    /\ seg[p].kind = "retry"
    /\ StartWorker(p, seg[p].new)
    /\ UpdateSession("running", seg[p].new)
    /\ Enter(p, Idle)
    /\ UNCHANGED <<tstat, approval, reruns>>

\* The streamed endpoint and the task API do not look at the session.
StartDirect(p, n) ==
    /\ Serves(p)
    /\ "unchecked" \in Hazards
    /\ Fresh(n)
    /\ StartWorker(p, n)
    /\ UNCHANGED <<rowVars, seg, schedule>>

\* _start_handoff_task: an executing run starts a child in its own process.
HandOff(r, n) ==
    /\ Active(r) /\ Turn(wproc[r])
    /\ "unchecked" \in Hazards
    /\ wpc[r] \in Executing /\ ~ wcancel[r]
    /\ Fresh(n)
    /\ NewRow(n)
    /\ StartWorker(wproc[r], n)
    /\ UNCHANGED <<sstat, scur, approval, reruns, seg, schedule>>

-----------------------------------------------------------------------------
(***************************************************************************)
(* Resolving an approval: _resolve_task_approval.                          *)
(***************************************************************************)
\* A rerun is refused while the session is busy with something else.
RerunAllowed(r) ==
    sstat \in {"running", "waiting_approval"} =>
        scur = r /\ tstat[r] \in Final \cup {"waiting_approval"}

\* mutant: an answered request is answered again
ResolveAgain(p, r, k) ==
    /\ Serves(p)
    /\ sstat # "archived"
    /\ Exists(r)
    /\ approval[r] # "none"
    /\ \/ k = "resolve" /\ Enter(p, Seg(k, r, None, scur, tstat[r]))
       \/ /\ k = "rerun" /\ RerunAllowed(r)
          /\ "unchecked" \in Hazards \/ Quiet
          /\ \E n \in Runs : Fresh(n) /\ Enter(p, Seg(k, r, n, scur, tstat[r]))
    /\ UNCHANGED <<rowVars, workerVars>>

\* The last request must not have been answered yet.
Resolve(p, r, k) ==
    /\ Serves(p)
    /\ sstat # "archived"
    /\ Exists(r)
    /\ approval[r] = "requested"
    /\ \/ k = "resolve" /\ Enter(p, Seg(k, r, None, scur, tstat[r]))
       \/ /\ k = "rerun" /\ RerunAllowed(r)
          /\ "unchecked" \in Hazards \/ Quiet
          /\ \E n \in Runs : Fresh(n) /\ Enter(p, Seg(k, r, n, scur, tstat[r]))
    /\ UNCHANGED <<rowVars, workerVars>>

\* Approved with a rerun: the row of the new run,
RerunCreate(p) ==
    /\ seg[p].kind = "rerun"
    /\ NewRow(seg[p].new)
    /\ reruns' = [reruns EXCEPT ![seg[p].run] = @ + 1]
    /\ Enter(p, [seg[p] EXCEPT !.kind = "rerun_event"])
    /\ UNCHANGED <<sstat, scur, approval, workerVars>>

\* the event approval_resolved,
RerunEvent(p) ==
    /\ seg[p].kind = "rerun_event"
    /\ approval' = [approval EXCEPT ![seg[p].run] = "resolved"]
    /\ Enter(p, [seg[p] EXCEPT !.kind = "rerun_parent"])
    /\ UNCHANGED <<sstat, scur, tstat, reruns, workerVars>>

\* the end of the run that asked, if it was waiting when it was read,
RerunParent(p) ==
    /\ seg[p].kind = "rerun_parent"
    /\ IF seg[p].was = "waiting_approval"
       THEN UpdateStatus(seg[p].run, "completed")
       ELSE UNCHANGED tstat
    /\ Enter(p, [seg[p] EXCEPT !.kind = "rerun_session"])
    /\ UNCHANGED <<sstat, scur, approval, reruns, workerVars>>

\* and the session and the worker.
RerunSession(p) ==
    /\ seg[p].kind = "rerun_session"
    /\ UpdateSession("running", seg[p].new)
    /\ StartWorker(p, seg[p].new)
    /\ Enter(p, Idle)
    /\ UNCHANGED <<tstat, approval, reruns>>

\* Rejected, or approved without a rerun: the event,
ResolveEvent(p) ==
    /\ seg[p].kind = "resolve"
    /\ approval' = [approval EXCEPT ![seg[p].run] = "resolved"]
    /\ Enter(p, IF seg[p].was = "waiting_approval"
                THEN [seg[p] EXCEPT !.kind = "resolve_task"] ELSE Idle)
    /\ UNCHANGED <<sstat, scur, tstat, reruns, workerVars>>

\* the end of the run,
ResolveTask(p, s) ==
    /\ seg[p].kind = "resolve_task"
    /\ s \in {"cancelled", "completed"}
    /\ UpdateStatus(seg[p].run, s)
    /\ Enter(p, [seg[p] EXCEPT !.kind = "resolve_session"])
    /\ UNCHANGED <<sstat, scur, approval, reruns, workerVars>>

\* and the session, if the run was its current one when it was read.
ResolveSession(p) ==
    /\ seg[p].kind = "resolve_session"
    /\ IF seg[p].cur = seg[p].run
       THEN UpdateSession("idle", None)
       ELSE UNCHANGED <<sstat, scur>>
    /\ Enter(p, Idle)
    /\ UNCHANGED <<tstat, approval, reruns, workerVars>>

-----------------------------------------------------------------------------
(***************************************************************************)
(* The run: run_autoagent.                                                 *)
(***************************************************************************)
OnLoop(r) == Active(r) /\ Turn(wproc[r])

\* A coroutine cancelled before it began runs nothing; one that finds its task
\* final leaves.  Neither touches the session.
LeaveUnstarted(r) ==
    /\ OnLoop(r)
    /\ wpc[r] = "scheduled"
    /\ wcancel[r] \/ tstat[r] \in Final
    /\ EndWorker(r)
    /\ UNCHANGED <<rowVars, seg, schedule>>

Begin(r) ==
    /\ OnLoop(r)
    /\ wpc[r] = "scheduled" /\ ~ wcancel[r]
    /\ tstat[r] \notin Final
    /\ Enter(wproc[r], Seg("begin", r, None, None, "none"))
    /\ UNCHANGED <<rowVars, workerVars>>

\* _initialize_autoagent_run: the run makes itself the current one ...
BeginSession(p) ==
    /\ seg[p].kind = "begin"
    /\ UpdateSession("running", seg[p].run)
    /\ Enter(p, [seg[p] EXCEPT !.kind = "create"])
    /\ UNCHANGED <<tstat, approval, reruns, workerVars>>

\* ... and creates its row unless there is one.
BeginTask(p) ==
    /\ seg[p].kind = "create"
    /\ IF Exists(seg[p].run) THEN UNCHANGED tstat ELSE NewRow(seg[p].run)
    /\ Enter(p, [seg[p] EXCEPT !.kind = "start"])
    /\ UNCHANGED <<sstat, scur, approval, reruns, workerVars>>

\* start_task; a refused run ends and leaves the session as it is.
StartTask(p) ==
    /\ seg[p].kind = "start"
    /\ LET r == seg[p].run
       IN  IF tstat[r] \in Final
           THEN EndWorker(r) /\ UNCHANGED tstat
           ELSE /\ UpdateStatus(r, "running")
                /\ wpc' = [wpc EXCEPT ![r] = "handling"]
                /\ UNCHANGED <<wproc, wcancel>>
    /\ Enter(p, Idle)
    /\ UNCHANGED <<sstat, scur, approval, reruns>>

\* mutant: the question is shown in the session while the run goes on
AskInputShown(r) ==
    /\ OnLoop(r)
    /\ wpc[r] \in Executing /\ ~ wcancel[r]
    /\ UpdateStatus(r, "waiting_input")
    /\ UpdateSession("waiting_input", r)
    /\ wpc' = [wpc EXCEPT ![r] = "asked"]
    /\ UNCHANGED <<approval, reruns, wproc, wcancel, seg, schedule>>

\* builtin:request_input writes the task and not the session.
AskInput(r) ==
    /\ OnLoop(r)
    /\ wpc[r] \in Executing /\ ~ wcancel[r]
    /\ UpdateStatus(r, "waiting_input")
    /\ wpc' = [wpc EXCEPT ![r] = "asked"]
    /\ UNCHANGED <<sstat, scur, approval, reruns, wproc, wcancel, seg, schedule>>

\* How a run ends: first the task row (and the approval it asks for) ...
Outcome(r, s) ==
    /\ OnLoop(r)
    /\ \/ wpc[r] = "handling" /\ ~ wcancel[r]
              /\ s \in {"completed", "failed", "waiting_approval"}
       \/ wpc[r] = "asked" /\ ~ wcancel[r]
              /\ s \in {"waiting_input", "failed", "waiting_approval"}
       \/ wpc[r] \in Executing /\ wcancel[r] /\ s = "cancelled"
    /\ UpdateStatus(r, s)
    /\ IF s = "waiting_approval"
       THEN approval' = [approval EXCEPT ![r] = "requested"]
       ELSE UNCHANGED approval
    /\ Enter(wproc[r], Seg("ending", r, None, None, s))
    /\ UNCHANGED <<sstat, scur, reruns, workerVars>>

\* mutant: a run that waits leaves the session as it is
EndSessionIfFinal(p) ==
    /\ seg[p].kind = "ending"
    /\ IF seg[p].was \in Final
       THEN UpdateSession("idle", None)
       ELSE UNCHANGED <<sstat, scur>>
    /\ EndWorker(seg[p].run)
    /\ Enter(p, Idle)
    /\ UNCHANGED <<tstat, approval, reruns>>

\* mutant: a cancelled run does not reset the session
EndSessionUncancelled(p) ==
    /\ seg[p].kind = "ending"
    /\ IF seg[p].was = "cancelled"
       THEN UNCHANGED <<sstat, scur>>
       ELSE UpdateSession(IF seg[p].was \in Waiting THEN seg[p].was ELSE "idle",
                          IF seg[p].was \in Waiting THEN seg[p].run ELSE None)
    /\ EndWorker(seg[p].run)
    /\ Enter(p, Idle)
    /\ UNCHANGED <<tstat, approval, reruns>>

\* ... then the session, which is overwritten whatever run it belongs to now.
EndSession(p) ==
    /\ seg[p].kind = "ending"
    /\ IF seg[p].was \in Waiting
       THEN UpdateSession(seg[p].was, seg[p].run)
       ELSE UpdateSession("idle", None)
    /\ EndWorker(seg[p].run)
    /\ Enter(p, Idle)
    /\ UNCHANGED <<tstat, approval, reruns>>

-----------------------------------------------------------------------------
(***************************************************************************)
(* Processes and recovery, as TaskDispatch details them.                   *)
(***************************************************************************)
\* The process dies and is started again at once.
Crash(p) ==
    /\ "crash" \in Hazards
    /\ Enter(p, Idle)
    /\ wpc' = [r \in Runs |-> IF wproc[r] = p THEN "none" ELSE wpc[r]]
    /\ wproc' = [r \in Runs |-> IF wproc[r] = p THEN None ELSE wproc[r]]
    /\ wcancel' = [r \in Runs |-> wcancel[r] /\ wproc[r] # p]
    /\ UNCHANGED rowVars

\* A queued or running row that no process works on.
Interrupted(r) ==
    /\ tstat[r] \in {"queued", "running"}
    /\ ~ Active(r)
    /\ \A q \in Procs : r \notin {seg[q].run, seg[q].new}

Recover(p, r) ==
    /\ Turn(p)
    /\ Interrupted(r)
    /\ UpdateStatus(r, "queued")
    /\ StartWorker(p, r)
    /\ UNCHANGED <<sstat, scur, approval, reruns, seg, schedule>>

\* fail_exhausted_background_recoveries fails the task, not the session.
GiveUp(r) ==
    /\ "exhaust" \in Hazards
    /\ Interrupted(r)
    /\ UpdateStatus(r, "failed")
    /\ UNCHANGED <<sstat, scur, approval, reruns, workerVars, seg, schedule>>

Requests(p) ==
    \/ \E n \in Runs : Message(p, n) \/ StartDirect(p, n)
    \/ Answer(p)
    \/ Archive(p)
    \/ Unarchive(p)
    \/ \E r \in Runs : Cancel(p, r)
    \/ \E r \in Runs, k \in {"resolve", "rerun"} : Resolve(p, r, k)
    \/ \E r, n \in Runs : Retry(p, r, n)

Segments(p) ==
    \/ MessageSession(p)
    \/ AnswerTask(p)
    \/ AnswerSession(p)
    \/ ArchiveTask(p)
    \/ ArchiveSession(p)
    \/ CancelTask(p)
    \/ CancelSession(p)
    \/ RetrySession(p)
    \/ RerunCreate(p)
    \/ RerunEvent(p)
    \/ RerunParent(p)
    \/ RerunSession(p)
    \/ ResolveEvent(p)
    \/ \E s \in Final : ResolveTask(p, s)
    \/ ResolveSession(p)
    \/ BeginSession(p)
    \/ BeginTask(p)
    \/ StartTask(p)
    \/ EndSession(p)

Works(r) ==
    \/ LeaveUnstarted(r)
    \/ Begin(r)
    \/ \E s \in Final \cup Waiting : Outcome(r, s)

Next ==
    \/ \E p \in Procs : Requests(p) \/ Segments(p) \/ Crash(p)
    \/ \E r \in Runs : Works(r) \/ AskInput(r) \/ GiveUp(r)
    \/ \E r, n \in Runs : HandOff(r, n)
    \/ \E p \in Procs, r \in Runs : Recover(p, r)

Spec == Init /\ [][Next]_vars

-----------------------------------------------------------------------------
(***************************************************************************)
(* Properties.                                                             *)
(***************************************************************************)
\* The rows, registers and segments hold values of their kind.
TypeOK ==
    /\ schedule \in Schedules
    /\ sstat \in SessionStatus
    /\ scur \in Runs \cup {None}
    /\ tstat \in [Runs -> TaskStatus]
    /\ approval \in [Runs -> {"none", "requested", "resolved"}]
    /\ reruns \in [Runs -> Nat]
    /\ wpc \in [Runs -> Executing \cup {"none", "scheduled"}]
    /\ wproc \in [Runs -> Procs \cup {None}]
    /\ wcancel \in [Runs -> BOOLEAN]
    /\ seg \in [Procs -> [kind : SegKinds, run : Runs \cup {None},
                         new : Runs \cup {None}, cur : Runs \cup {None},
                         was : TaskStatus]]

Settled == \A p \in Procs : seg[p] = Idle

\* As long as requests reach the process of the worker and find nothing running
\* or winding up that they would pass by.
Sequential == Hazards = {}

\* Requests may do what they want, but one process at a time works on the
\* session, and none dies.
Overlapping == Hazards \subseteq {"remote", "unwinding", "archive", "unchecked"}

\* A session shows RUNNING as long as one of its runs executes and was not told
\* to stop: otherwise the next message would start a second run beside it.
BusyWhileExecuting ==
    Sequential => \A r \in Runs :
        wpc[r] \in Executing /\ ~ wcancel[r]
        => sstat = "running" \/ \E p \in Procs : seg[p].kind = "ending" /\ seg[p].run = r

\* The checks of the session's status let one run execute at a time.
OneExecution ==
    Sequential => \A r, n \in Runs :
        wpc[r] \in Executing /\ wpc[n] \in Executing => r = n

\* A session that shows RUNNING has a current run that is being worked on: no
\* message is refused with "session is busy" for the sake of nothing.
NoPhantomBusy ==
    Overlapping /\ Settled /\ sstat = "running" => scur # None /\ Active(scur)

\* A session that waits for the user waits for its current run, and the answer
\* it waits for is one the API accepts.
WaitingIsAnswerable ==
    Overlapping /\ Settled /\ sstat \in Waiting
    => /\ scur # None
       /\ tstat[scur] = sstat
       /\ sstat = "waiting_approval" => approval[scur] = "requested"

\* One approval starts at most one rerun, however the request is answered,
\* retried, cancelled and archived around it ("approval already resolved"); when
\* processes answer it at the same moment, at most one in each of them.
ApprovedOnce ==
    LET most == IF "race" \in Hazards THEN Cardinality(Procs) ELSE 1
    IN  Overlapping \/ Hazards = {"race"} => \A r \in Runs : reruns[r] <= most

\* Unless two processes serve the session at the same moment, no request brings
\* an archived session back but the one that is meant to; what does is a run that
\* lives on: it begins or ends, and writes its session.
ArchiveIsKept ==
    [][sstat = "archived" /\ sstat' # "archived" /\ "race" \notin Hazards
       => \E p \in Procs : Unarchive(p) \/ seg[p].kind \in {"begin", "ending"}]_vars

\* "Soft-delete/archive a session and cancel active work": an archived session
\* stays archived until it is unarchived.
ArchivedStaysArchived ==
    [][sstat = "archived" /\ sstat' # "archived"
       => \E p \in Procs : Unarchive(p)]_vars

-----------------------------------------------------------------------------
(***************************************************************************)
(* Liveness.  A handler that has begun goes on; the event loop resumes its *)
(* coroutines in the order they became ready, so a run that is ready again *)
(* and again is resumed, and a run ends (its loop has a step limit).       *)
(* Requests come or not.                                                   *)
(***************************************************************************)
Fairness ==
    /\ \A p \in Procs : WF_vars(Segments(p))
    /\ \A r \in Runs : SF_vars(Works(r))

FairSpec == Spec /\ Fairness

\* A busy session does not stay busy for ever: it becomes idle, waits for the
\* user or is archived, whatever is cancelled, archived or handed off meanwhile.
RunningSettles == sstat = "running" ~> sstat # "running"
=============================================================================

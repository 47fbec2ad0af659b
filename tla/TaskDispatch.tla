---------------------------- MODULE TaskDispatch ----------------------------
(***************************************************************************)
(* Background dispatch of agent tasks.                                     *)
(*                                                                         *)
(* Several server processes share one task table.  Each process keeps a    *)
(* registry of the asyncio workers it runs (task_runner.py), a worker      *)
(* drives one task through its life (autoagent_runtime.py), the API of any *)
(* process may cancel, answer or delete a task (app.py), and every process *)
(* recovers interrupted tasks once, when it boots (task_recovery.py), by   *)
(* means of a lease kept in the task row (tasks.py).                       *)
(*                                                                         *)
(* A TaskStore method that writes without looking is one step.  Where the  *)
(* write depends on what was read (start_task, an answer, a cancellation,  *)
(* the two recovery queries) the read and the write are two steps: rows    *)
(* are read without a lock, only the recoveries compare and swap.  Code of *)
(* a process that runs without awaiting is a segment (variable seg):       *)
(* nothing else happens in that process until it ends, while other         *)
(* processes go on.                                                        *)
(***************************************************************************)
EXTENDS Naturals, FiniteSets

CONSTANTS
    Procs,        \* server processes
    Tasks,        \* task identifiers
    Workers,      \* slots for asyncio workers
    None,         \* no process, no task, no worker
    Lease,        \* length of a lease, in ticks
    Heartbeat,    \* ticks between two renewals of a running worker
    MaxAttempts,  \* max_attempts of the recovery functions
    AttemptCap,   \* attempt counters saturate here
    Hazards       \* the awkward schedules the environment may produce

HazardKinds == {"undispatched", "boot_race", "early_input", "double_input",
                "crossed_write", "late_heartbeat"}

ASSUME DispatchAssumption ==
    /\ None \notin Procs \cup Tasks \cup Workers
    /\ Heartbeat \in Nat \ {0}
    /\ Lease \in Nat /\ Lease > 2 * Heartbeat
    /\ MaxAttempts \in Nat \ {0}
    /\ AttemptCap \in Nat /\ AttemptCap >= MaxAttempts
    /\ Hazards \subseteq HazardKinds

VARIABLES
    status,    \* task -> status column, "none" before and "deleted" after the row
    dstat,     \* task -> metadata.backgroundDispatch.status, "none" without it
    owner,     \* task -> backgroundDispatch.owner; None once that process is gone
    lease,     \* task -> ticks left until leaseExpiresAt (0: expired or cleared)
    attempt,   \* task -> backgroundDispatch.attempt
    seg,       \* process -> the synchronous code it is in the middle of
    seen,      \* process -> recovery candidates whose row is unchanged since read
    claimed,   \* process -> tasks claimed by its recovery and not started yet
    registry,  \* process -> task -> worker, running_tasks
    wpc,       \* worker -> where its coroutine is suspended
    wproc,     \* worker -> its process
    wtask,     \* worker -> its task
    wkind,     \* worker -> how it was started
    wcancel,   \* worker -> cancel() was called, not delivered yet
    whb,       \* worker -> ticks until its heartbeat fires
    recovered  \* task -> successful claims (history)

rowVars == <<status, dstat, owner, lease, attempt, recovered>>
procVars == <<seg, seen, claimed, registry>>
workerVars == <<wpc, wproc, wtask, wkind, wcancel, whb>>
vars == <<rowVars, procVars, workerVars>>

Final == {"completed", "failed", "cancelled"}
Waiting == {"waiting_input", "waiting_approval"}
Recoverable == {"queued", "running"}
Status == Final \cup Waiting \cup Recoverable \cup {"none", "deleted"}
Leased == {"running", "recovering"}

\* "asked" is "handling" with ctx.waiting_for_input set by builtin:request_input.
Executing == {"handling", "asked"}
Live == {"scheduled", "beginning"} \cup Executing
PC == Live \cup {"free", "closing", "exited"}
Kinds == {"runner", "resume", "foreground", "none"}

SegKinds == {"down", "boot", "fail", "claim", "restart", "idle",
             "start", "resume", "begin", "starting", "cancel", "input", "answer"}
Seg(k, t, w) == [kind |-> k, task |-> t, worker |-> w]
Idle == Seg("idle", None, None)
Down == Seg("down", None, None)

Exists(t) == status[t] \notin {"none", "deleted"}

\* attempt + 1, saturating at the bound AttemptCap of the model.
Bump(a) == IF a < AttemptCap THEN a + 1 ELSE a
Minus1(n) == IF n > 0 THEN n - 1 ELSE 0

(***************************************************************************)
(* Rows.  Every write changes updated_at, so a recovering process that     *)
(* read the row before no longer passes its compare and swap.              *)
(***************************************************************************)
TouchUnnoticed(t) == UNCHANGED seen   \* mutant: updated_at is not compared

Touch(t) == seen' = [q \in Procs |-> seen[q] \ {t}]

SetStatus(t, s) ==
    /\ status' = [status EXCEPT ![t] = s]
    /\ Touch(t)

\* update_status: no guard on the status it replaces; a missing row is ignored.
UpdateStatus(t, s) ==
    IF Exists(t) THEN SetStatus(t, s) ELSE UNCHANGED <<status, seen>>

\* mutant: the new lease is added to what is left of the old one
SetDispatchExtending(t, s, p, n, a) ==
    /\ dstat' = [dstat EXCEPT ![t] = s]
    /\ owner' = [owner EXCEPT ![t] = p]
    /\ lease' = [lease EXCEPT ![t] = @ + n]
    /\ attempt' = [attempt EXCEPT ![t] = a]

SetDispatch(t, s, p, n, a) ==
    /\ dstat' = [dstat EXCEPT ![t] = s]
    /\ owner' = [owner EXCEPT ![t] = p]
    /\ lease' = [lease EXCEPT ![t] = n]
    /\ attempt' = [attempt EXCEPT ![t] = a]

NewRow(t) ==
    /\ SetStatus(t, "queued")
    /\ SetDispatch(t, "none", None, 0, 0)
    /\ recovered' = [recovered EXCEPT ![t] = 0]

-----------------------------------------------------------------------------
(***************************************************************************)
(* Workers and the registry.                                               *)
(***************************************************************************)
Working(w, p, t) == wproc[w] = p /\ wtask[w] = t

FreeWorkers(S) ==
    /\ wpc' = [w \in Workers |-> IF w \in S THEN "free" ELSE wpc[w]]
    /\ wproc' = [w \in Workers |-> IF w \in S THEN None ELSE wproc[w]]
    /\ wtask' = [w \in Workers |-> IF w \in S THEN None ELSE wtask[w]]
    /\ wkind' = [w \in Workers |-> IF w \in S THEN "none" ELSE wkind[w]]
    /\ wcancel' = [w \in Workers |-> IF w \in S THEN FALSE ELSE wcancel[w]]
    /\ whb' = [w \in Workers |-> IF w \in S THEN 0 ELSE whb[w]]

NewWorker(w, p, t, k) ==
    /\ wpc[w] = "free"
    /\ wpc' = [wpc EXCEPT ![w] = "scheduled"]
    /\ wproc' = [wproc EXCEPT ![w] = p]
    /\ wtask' = [wtask EXCEPT ![w] = t]
    /\ wkind' = [wkind EXCEPT ![w] = k]
    /\ wcancel' = [wcancel EXCEPT ![w] = FALSE]
    /\ whb' = [whb EXCEPT ![w] = Heartbeat]

Register(p, t, w) == registry' = [registry EXCEPT ![p][t] = w]

\* discard and the runtime's finally block: only a worker's own entry is removed.
Discard(w) ==
    LET p == wproc[w]
        t == wtask[w]
    IN  registry' = [registry EXCEPT ![p][t] = IF @ = w THEN None ELSE @]

\* mutant: a start begins a new count of attempts
MarkStartedAnew(p, t) ==
    IF Exists(t)
    THEN /\ SetDispatch(t, "running", p, Lease, 1)
         /\ Touch(t)
    ELSE UNCHANGED <<dstat, owner, lease, attempt, seen>>

\* mark_background_dispatch_started: a new dispatch whatever was there before.
MarkStarted(p, t) ==
    IF Exists(t)
    THEN /\ SetDispatch(t, "running", p, Lease, Bump(attempt[t]))
         /\ Touch(t)
    ELSE UNCHANGED <<dstat, owner, lease, attempt, seen>>

\* InProcessTaskRunner.start; an earlier worker of the task loses its entry.
RunnerStart(p, t, w, k) ==
    /\ NewWorker(w, p, t, k)
    /\ MarkStarted(p, t)
    /\ Register(p, t, w)
    /\ UNCHANGED <<status, recovered>>

\* InProcessTaskRunner.cancel: the registered worker, if it is not done.
CancelRegistered(p, t) ==
    wcancel' = [w \in Workers |->
                  \/ wcancel[w]
                  \/ registry[p][t] = w /\ wpc[w] \notin {"free", "exited"}]

-----------------------------------------------------------------------------
Init ==
    /\ status = [t \in Tasks |-> "none"]
    /\ dstat = [t \in Tasks |-> "none"]
    /\ owner = [t \in Tasks |-> None]
    /\ lease = [t \in Tasks |-> 0]
    /\ attempt = [t \in Tasks |-> 0]
    /\ recovered = [t \in Tasks |-> 0]
    /\ seg = [p \in Procs |-> Down]
    /\ seen = [p \in Procs |-> {}]
    /\ claimed = [p \in Procs |-> {}]
    /\ registry = [p \in Procs |-> [t \in Tasks |-> None]]
    /\ wpc = [w \in Workers |-> "free"]
    /\ wproc = [w \in Workers |-> None]
    /\ wtask = [w \in Workers |-> None]
    /\ wkind = [w \in Workers |-> "none"]
    /\ wcancel = [w \in Workers |-> FALSE]
    /\ whb = [w \in Workers |-> 0]

Enter(p, s) == seg' = [seg EXCEPT ![p] = s]

(***************************************************************************)
(* Boot: the startup recovery of one process.                              *)
(***************************************************************************)
\* mutant: only the lease of a recovery counts
LeaseFreeOfRecovery(t) == ~ (dstat[t] = "recovering" /\ lease[t] > 0)

LeaseFree(t) == ~ (dstat[t] \in Leased /\ lease[t] > 0)

\* mutant: the status filter of the candidate query is missing
InterruptedWhatever(t) == Exists(t) /\ LeaseFree(t)

Interrupted(t) == status[t] \in Recoverable /\ LeaseFree(t)

\* Candidates of fail_exhausted_background_recoveries.
Exhausted(t) ==
    /\ Interrupted(t)
    /\ dstat[t] # "none"
    /\ attempt[t] >= MaxAttempts

\* Candidates of claim_recoverable_background_tasks.
Claimable(t) ==
    /\ Interrupted(t)
    /\ attempt[t] < MaxAttempts

\* Schedules under which a row without a lease belongs to a healthy run: a run
\* that never got a dispatch record, and a request between writing the row and
\* starting its worker.  The environment avoids them unless Hazards says so.
QuietFor(t) ==
    /\ "undispatched" \in Hazards \/
         ~ (\E w \in Workers : wtask[w] = t /\ wpc[w] \in Live /\ dstat[t] = "none")
    /\ "boot_race" \in Hazards \/
         ~ (\E q \in Procs : seg[q].kind \in {"start", "resume"} /\ seg[q].task = t)

QuietMoment == \A t \in Tasks : Interrupted(t) => QuietFor(t)

Boot(p) ==
    /\ seg[p] = Down
    /\ QuietMoment
    /\ Enter(p, Seg("boot", None, None))
    /\ UNCHANGED <<rowVars, seen, claimed, registry, workerVars>>

ReadExhausted(p) ==
    /\ seg[p].kind = "boot"
    /\ QuietMoment
    /\ seen' = [seen EXCEPT ![p] = {t \in Tasks : Exhausted(t)}]
    /\ Enter(p, Seg("fail", None, None))
    /\ UNCHANGED <<rowVars, claimed, registry, workerVars>>

\* A candidate in seen[p] passes the compare and swap, any other is skipped.
FailExhausted(p, t) ==
    /\ seg[p].kind = "fail"
    /\ t \in seen[p]
    /\ SetStatus(t, "failed")
    /\ SetDispatch(t, "failed", p, 0, attempt[t])
    /\ UNCHANGED <<recovered, seg, claimed, registry, workerVars>>

ReadClaimable(p) ==
    /\ seg[p].kind = "fail"
    /\ seen[p] = {}
    /\ QuietMoment
    /\ seen' = [seen EXCEPT ![p] = {t \in Tasks : Claimable(t)}]
    /\ Enter(p, Seg("claim", None, None))
    /\ UNCHANGED <<rowVars, claimed, registry, workerVars>>

Claim(p, t) ==
    /\ seg[p].kind = "claim"
    /\ t \in seen[p]
    /\ SetStatus(t, "queued")
    /\ SetDispatch(t, "recovering", p, Lease, Bump(attempt[t]))
    /\ recovered' = [recovered EXCEPT ![t] = @ + 1]
    /\ claimed' = [claimed EXCEPT ![p] = @ \cup {t}]
    /\ UNCHANGED <<seg, registry, workerVars>>

\* mutant: the claimed tasks are not restarted
EndClaimsForgotten(p) ==
    /\ seg[p].kind = "claim"
    /\ seen[p] = {}
    /\ Enter(p, Idle)
    /\ UNCHANGED <<rowVars, seen, claimed, registry, workerVars>>

EndClaims(p) ==
    /\ seg[p].kind = "claim"
    /\ seen[p] = {}
    /\ Enter(p, Seg("restart", None, None))
    /\ UNCHANGED <<rowVars, seen, claimed, registry, workerVars>>

Restart(p, t, w) ==
    /\ seg[p].kind = "restart"
    /\ t \in claimed[p]
    /\ RunnerStart(p, t, w, "runner")
    /\ claimed' = [claimed EXCEPT ![p] = @ \ {t}]
    /\ UNCHANGED seg

EndRecovery(p) ==
    /\ seg[p].kind = "restart"
    /\ claimed[p] = {}
    /\ Enter(p, Idle)
    /\ UNCHANGED <<rowVars, seen, claimed, registry, workerVars>>

\* A process dies with its workers; its successor has another owner string.
Crash(p) ==
    /\ seg[p] # Down
    /\ Enter(p, Down)
    /\ seen' = [seen EXCEPT ![p] = {}]
    /\ claimed' = [claimed EXCEPT ![p] = {}]
    /\ registry' = [registry EXCEPT ![p] = [t \in Tasks |-> None]]
    /\ FreeWorkers({w \in Workers : wproc[w] = p})
    /\ owner' = [t \in Tasks |-> IF owner[t] = p THEN None ELSE owner[t]]
    /\ UNCHANGED <<status, dstat, lease, attempt, recovered>>

-----------------------------------------------------------------------------
(***************************************************************************)
(* Requests.                                                               *)
(***************************************************************************)
Fresh(t) == status[t] = "none" /\ \A w \in Workers : wtask[w] # t

\* create_agent_task, and the child of a retry: the row, then its worker.
CreateTask(p, t) ==
    /\ seg[p] = Idle
    /\ Fresh(t)
    /\ NewRow(t)
    /\ Enter(p, Seg("start", t, None))
    /\ UNCHANGED <<claimed, registry, workerVars>>

StartCreated(p, w) ==
    /\ seg[p].kind \in {"start", "resume"}
    /\ RunnerStart(p, seg[p].task, w,
                   IF seg[p].kind = "start" THEN "runner" ELSE "resume")
    /\ Enter(p, Idle)
    /\ UNCHANGED claimed

\* A new session message starts its worker before the run creates the row, so
\* mark_background_dispatch_started finds none; the streamed endpoint does not
\* use the runner at all.
StartRowless(p, t, w, k) ==
    /\ seg[p] = Idle
    /\ Fresh(t)
    /\ NewWorker(w, p, t, k)
    /\ IF k = "runner" THEN Register(p, t, w) ELSE UNCHANGED registry
    /\ UNCHANGED <<rowVars, seg, seen, claimed>>

\* add_agent_task_input reads the row ...
InputRead(p, t) ==
    /\ seg[p] = Idle
    /\ status[t] = "waiting_input"
    /\ "early_input" \in Hazards \/ \A w \in Workers : wtask[w] # t
    /\ "double_input" \in Hazards \/
         \A q \in Procs :
            seg[q].kind \in {"input", "answer", "resume"} => seg[q].task # t
    /\ Enter(p, Seg("input", t, None))
    /\ UNCHANGED <<rowVars, seen, claimed, registry, workerVars>>

\* ... add_user_input reads it again ...
InputCheck(p) ==
    /\ seg[p].kind = "input"
    /\ LET t == seg[p].task
       IN  Enter(p, IF ~ Exists(t) THEN Idle
                    ELSE IF status[t] = "waiting_input" THEN Seg("answer", t, None)
                    ELSE Seg("resume", t, None))
    /\ UNCHANGED <<rowVars, seen, claimed, registry, workerVars>>

\* ... and queues the task; the worker starts on what the first read showed.
InputWrite(p) ==
    /\ seg[p].kind = "answer"
    /\ UpdateStatus(seg[p].task, "queued")
    /\ Enter(p, Seg("resume", seg[p].task, None))
    /\ UNCHANGED <<dstat, owner, lease, attempt, recovered, claimed, registry,
                   workerVars>>

\* A write of another process between the check and the write of an operation.
Crossing(p, t) ==
    \E q \in Procs \ {p} : seg[q].kind \in {"answer", "starting"} /\ seg[q].task = t

\* cancel_agent_task: the guard is on the row as it was read.
CancelRead(p, t) ==
    /\ seg[p] = Idle
    /\ Exists(t)
    /\ status[t] \notin Final
    /\ CancelRegistered(p, t)
    /\ Enter(p, Seg("cancel", t, None))
    /\ UNCHANGED <<rowVars, seen, claimed, registry,
                   wpc, wproc, wtask, wkind, whb>>

CancelWrite(p) ==
    /\ seg[p].kind = "cancel"
    /\ "crossed_write" \in Hazards \/ ~ Crossing(p, seg[p].task)
    /\ UpdateStatus(seg[p].task, "cancelled")
    /\ Enter(p, Idle)
    /\ UNCHANGED <<dstat, owner, lease, attempt, recovered, claimed, registry,
                   workerVars>>

\* delete_agent_task
Delete(p, t) ==
    /\ seg[p] = Idle
    /\ Exists(t)
    /\ CancelRegistered(p, t)
    /\ registry' = [registry EXCEPT ![p][t] = None]
    /\ SetStatus(t, "deleted")
    /\ SetDispatch(t, "none", None, 0, 0)
    /\ recovered' = [recovered EXCEPT ![t] = 0]
    /\ UNCHANGED <<seg, claimed, wpc, wproc, wtask, wkind, whb>>

-----------------------------------------------------------------------------
(***************************************************************************)
(* The life of a worker: run_autoagent.                                    *)
(***************************************************************************)
OnLoop(w) == wproc[w] \in Procs /\ seg[wproc[w]] = Idle

Goto(w, pc) == wpc' = [wpc EXCEPT ![w] = pc]

\* asyncio cancels a coroutine that has not begun without running any of it.
CancelledUnstarted(w) ==
    /\ OnLoop(w)
    /\ wpc[w] = "scheduled"
    /\ wcancel[w]
    /\ Goto(w, "exited")
    /\ UNCHANGED <<rowVars, procVars, wproc, wtask, wkind, wcancel, whb>>

\* A task that is final is skipped; a resumed task that is gone raises.
BeginSkipped(w) ==
    /\ OnLoop(w)
    /\ wpc[w] = "scheduled"
    /\ ~ wcancel[w]
    /\ \/ /\ status[wtask[w]] \in Final
          /\ Goto(w, "closing")
          /\ Register(wproc[w], wtask[w], w)
       \/ /\ wkind[w] = "resume" /\ ~ Exists(wtask[w])
          /\ Goto(w, "exited")
          /\ UNCHANGED registry
    /\ UNCHANGED <<rowVars, seg, seen, claimed, wproc, wtask, wkind, wcancel, whb>>

\* Register, start the heartbeat, create the row if there is none.
Begin(w) ==
    LET t == wtask[w]
        p == wproc[w]
    IN  /\ OnLoop(w)
        /\ wpc[w] = "scheduled"
        /\ ~ wcancel[w]
        /\ status[t] \notin Final
        /\ wkind[w] = "resume" => Exists(t)
        /\ Register(p, t, w)
        /\ whb' = [whb EXCEPT ![w] = Heartbeat]
        /\ IF Exists(t) THEN UNCHANGED <<rowVars, seen>> ELSE NewRow(t)
        /\ Goto(w, "beginning")
        /\ Enter(p, Seg("begin", t, w))
        /\ UNCHANGED <<claimed, wproc, wtask, wkind, wcancel>>

\* mutant: start_task does not look at the status
StartCheckUnguarded(p) ==
    /\ seg[p].kind = "begin"
    /\ Enter(p, Seg("starting", seg[p].task, seg[p].worker))
    /\ UNCHANGED <<rowVars, seen, claimed, registry, workerVars>>

\* _mark_autoagent_running: start_task refuses a task that became final ...
StartCheck(p) ==
    /\ seg[p].kind = "begin"
    /\ LET t == seg[p].task
           w == seg[p].worker
       IN  IF Exists(t) /\ status[t] \notin Final
           THEN Enter(p, Seg("starting", t, w)) /\ UNCHANGED wpc
           ELSE Enter(p, Idle) /\ Goto(w, "closing")
    /\ UNCHANGED <<rowVars, seen, claimed, registry,
                   wproc, wtask, wkind, wcancel, whb>>

\* ... and writes; if the row is gone by then the run fails.
StartWrite(p) ==
    /\ seg[p].kind = "starting"
    /\ UpdateStatus(seg[p].task, "running")
    /\ Goto(seg[p].worker, IF Exists(seg[p].task) THEN "handling" ELSE "closing")
    /\ Enter(p, Idle)
    /\ UNCHANGED <<dstat, owner, lease, attempt, recovered, claimed, registry,
                   wproc, wtask, wkind, wcancel, whb>>

\* renew_background_dispatch, every Heartbeat while the run is suspended.
Renew(w) ==
    LET t == wtask[w]
        p == wproc[w]
    IN  /\ OnLoop(w)
        /\ wpc[w] \in Executing
        /\ whb[w] = 0
        /\ whb' = [whb EXCEPT ![w] = Heartbeat]
        /\ IF /\ Exists(t) /\ status[t] \notin Final
              /\ owner[t] = p
              /\ dstat[t] \in Leased
           THEN /\ SetDispatch(t, "running", p, Lease, attempt[t])
                /\ Touch(t)
           ELSE UNCHANGED <<dstat, owner, lease, attempt, seen>>
        /\ UNCHANGED <<status, recovered, seg, claimed, registry,
                       wpc, wproc, wtask, wkind, wcancel>>

\* The builtin:request_input tool; the ReAct loop goes on afterwards.
AskInput(w) ==
    /\ OnLoop(w)
    /\ wpc[w] \in Executing
    /\ ~ wcancel[w]
    /\ Exists(wtask[w])
    /\ SetStatus(wtask[w], "waiting_input")
    /\ Goto(w, "asked")
    /\ UNCHANGED <<dstat, owner, lease, attempt, recovered, seg, claimed, registry,
                   wproc, wtask, wkind, wcancel, whb>>

\* How a run ends: the status is written without looking at the one it replaces.
Outcome(w, s) ==
    /\ OnLoop(w)
    /\ \/ wpc[w] = "handling" /\ ~ wcancel[w]
              /\ s \in {"completed", "failed", "waiting_approval"}
       \/ wpc[w] = "asked" /\ ~ wcancel[w]
              /\ s \in {"waiting_input", "failed", "waiting_approval"}
       \/ wpc[w] \in Executing /\ wcancel[w] /\ s = "cancelled"
    /\ UpdateStatus(wtask[w], s)
    /\ Goto(w, "closing")
    /\ UNCHANGED <<dstat, owner, lease, attempt, recovered, seg, claimed, registry,
                   wproc, wtask, wkind, wcancel, whb>>

\* The finally block: the heartbeat is stopped, the registry entry dropped.
Close(w) ==
    /\ OnLoop(w)
    /\ wpc[w] = "closing"
    /\ Discard(w)
    /\ IF wkind[w] = "foreground"
       THEN FreeWorkers({w})
       ELSE /\ Goto(w, "exited")
            /\ UNCHANGED <<wproc, wtask, wkind, wcancel, whb>>
    /\ UNCHANGED <<rowVars, seg, seen, claimed>>

\* _complete_worker: mark_background_dispatch_finished, then discard.
Done(w) ==
    LET t == wtask[w]
    IN  /\ OnLoop(w)
        /\ wpc[w] = "exited"
        /\ IF Exists(t)
           THEN /\ SetDispatch(t, status[t], owner[t], 0, attempt[t])
                /\ Touch(t)
           ELSE UNCHANGED <<dstat, owner, lease, attempt, seen>>
        /\ Discard(w)
        /\ FreeWorkers({w})
        /\ UNCHANGED <<status, recovered, seg, claimed>>

-----------------------------------------------------------------------------
\* A tick is long against a synchronous segment, and the heartbeat of a live
\* worker is not overdue unless the event loop is blocked ("late_heartbeat").
Tick ==
    /\ \A p \in Procs : seg[p] \in {Idle, Down}
    /\ \/ "late_heartbeat" \in Hazards
       \/ \A w \in Workers : wpc[w] \in Live => whb[w] > 0
    /\ lease' = [t \in Tasks |-> Minus1(lease[t])]
    /\ whb' = [w \in Workers |-> Minus1(whb[w])]
    /\ UNCHANGED <<status, dstat, owner, attempt, recovered, procVars,
                   wpc, wproc, wtask, wkind, wcancel>>

Recovery(p) ==
    \/ Boot(p)
    \/ ReadExhausted(p)
    \/ ReadClaimable(p)
    \/ EndClaims(p)
    \/ EndRecovery(p)
    \/ \E t \in Tasks : FailExhausted(p, t) \/ Claim(p, t)
    \/ \E t \in Tasks, w \in Workers : Restart(p, t, w)

Requests(p) ==
    \/ \E t \in Tasks : CreateTask(p, t)
    \/ \E t \in Tasks : InputRead(p, t)
    \/ \E t \in Tasks : CancelRead(p, t)
    \/ \E t \in Tasks : Delete(p, t)
    \/ \E t \in Tasks, w \in Workers, k \in {"runner", "foreground"} :
          StartRowless(p, t, w, k)

Segments(p) ==
    \/ \E w \in Workers : StartCreated(p, w)
    \/ InputCheck(p)
    \/ InputWrite(p)
    \/ CancelWrite(p)
    \/ StartCheck(p)
    \/ StartWrite(p)

Runs(w) ==
    \/ CancelledUnstarted(w)
    \/ BeginSkipped(w)
    \/ Begin(w)
    \/ \E s \in Final \cup Waiting : Outcome(w, s)
    \/ Close(w)
    \/ Done(w)

Next ==
    \/ \E p \in Procs : Recovery(p) \/ Requests(p) \/ Segments(p) \/ Crash(p)
    \/ \E w \in Workers : Runs(w) \/ Renew(w) \/ AskInput(w)
    \/ Tick

Spec == Init /\ [][Next]_vars
-----------------------------------------------------------------------------
(***************************************************************************)
(* Properties.                                                             *)
(***************************************************************************)

\* The columns, registers and counters hold values of their kind.
TypeOK ==
    /\ status \in [Tasks -> Status]
    /\ dstat \in [Tasks -> Status \cup {"recovering"}]
    /\ owner \in [Tasks -> Procs \cup {None}]
    /\ lease \in [Tasks -> 0 .. Lease]
    /\ attempt \in [Tasks -> 0 .. AttemptCap]
    /\ recovered \in [Tasks -> Nat]
    /\ seg \in [Procs -> [kind : SegKinds, task : Tasks \cup {None},
                         worker : Workers \cup {None}]]
    /\ seen \in [Procs -> SUBSET Tasks]
    /\ claimed \in [Procs -> SUBSET Tasks]
    /\ registry \in [Procs -> [Tasks -> Workers \cup {None}]]
    /\ wpc \in [Workers -> PC]
    /\ wproc \in [Workers -> Procs \cup {None}]
    /\ wtask \in [Workers -> Tasks \cup {None}]
    /\ wkind \in [Workers -> Kinds]
    /\ wcancel \in [Workers -> BOOLEAN]
    /\ whb \in [Workers -> 0 .. Heartbeat]

\* "Active workers renew a database lease ... so startup recovery does not
\* steal healthy long tasks": a run whose dispatch record names its process is
\* never a recovery candidate, however long it runs.
LeaseProtectsLiveRun ==
    \A w \in Workers :
        /\ wpc[w] \in Live
        /\ dstat[wtask[w]] # "none"
        => ~ Interrupted(wtask[w])

\* claim_recoverable_background_tasks gives one interruption to one process,
\* however the recoveries of processes that boot together interleave.
ClaimIsExclusive ==
    \A p, q \in Procs :
        /\ p # q
        /\ seg[p].kind \in {"claim", "restart"}
        => claimed[p] \cap claimed[q] = {}

\* The attempt counter bounds the recoveries of a row, whatever starts,
\* resumes, finishes and crashes happen between them.
RecoveriesAreCapped == \A t \in Tasks : recovered[t] <= MaxAttempts

\* Code past its check of the status: a worker executing the task and not told
\* to stop, an answer about to be recorded, a start about to be written.
PastCheck(t) ==
    \/ \E w \in Workers : wtask[w] = t /\ wpc[w] \in Executing /\ ~ wcancel[w]
    \/ \E p \in Procs : seg[p].kind \in {"answer", "starting"} /\ seg[p].task = t

\* A final status is left only by code past its check.  In particular neither a
\* delayed start, nor a recovery that read its candidates before, nor the
\* cancelled worker itself reopens the task.
FinalIsStable ==
    [][\A t \in Tasks :
          status[t] \in Final /\ ~ PastCheck(t)
          => status'[t] \in Final \cup {"deleted"}]_vars

\* "Startup recovery does not steal healthy long tasks".
HealthyRunNotStolen ==
    [][\A t \in Tasks :
          recovered'[t] > recovered[t]
          => \A w \in Workers : wtask[w] = t => wpc[w] \notin Executing]_vars

\* The abstract specification, for schedules without hazards.
Execution == INSTANCE TaskExecution WITH
    exec <- [t \in Tasks |-> {w \in Workers : wtask[w] = t /\ wpc[w] \in Executing}],
    fate <- [t \in Tasks |-> IF ~ Exists(t) THEN "absent"
                              ELSE IF status[t] \in Final THEN "final" ELSE "open"]

\* The dispatcher implements TaskExecution.
ImplementsExecution == Execution!Spec

-----------------------------------------------------------------------------
(***************************************************************************)
(* Liveness.  The event loop schedules every ready coroutine and callback, *)
(* a supervisor restarts a dead process, time passes, and a run ends (the  *)
(* ReAct loop has a step limit and its calls have timeouts).  Requests,    *)
(* questions to the user and crashes happen or not.                        *)
(***************************************************************************)
Fairness ==
    /\ WF_vars(Tick)
    /\ \A p \in Procs : WF_vars(Recovery(p)) /\ WF_vars(Segments(p))
    /\ \A w \in Workers : WF_vars(Runs(w)) /\ WF_vars(Renew(w))

FairSpec == Spec /\ Fairness

Stranded(t) == status[t] \in Recoverable /\ \A w \in Workers : wtask[w] # t

\* A boot that finds a stranded task whose lease has run out hands it to a
\* worker or fails it, unless it dies or another process holds the lease by then.
RecoveryTakesEffect ==
    \A p \in Procs, t \in Tasks :
        (seg[p].kind = "boot" /\ Stranded(t) /\ Interrupted(t))
        ~> \/ ~ Stranded(t)
           \/ seg[p] = Down
           \/ owner[t] # p /\ lease[t] > 0
=============================================================================

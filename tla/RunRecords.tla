----------------------------- MODULE RunRecords -----------------------------
(***************************************************************************)
(* The two records of a run.  TaskStore keeps a task row with its events   *)
(* and artifacts (tasks.py); SessionStore keeps a run record, copies of    *)
(* the events and copies of the artifacts (sessions.py).  The copies are   *)
(* written after the originals, by code that swallows every exception.     *)
(* Deleting a task removes the originals and leaves the run record, and    *)
(* from then on the endpoints of the session work on the record alone:     *)
(* cancelling, retrying, answering and approving exist twice.              *)
(*                                                                         *)
(* Each request, and each stretch of a worker between two awaits, is one   *)
(* step; what comes in between the accesses of a step, from another        *)
(* process, is the business of SessionRuns.  There is one session.         *)
(***************************************************************************)
EXTENDS Naturals, FiniteSets

CONSTANTS
    Runs,      \* run identifiers: the same as the task identifiers
    None,
    Confs      \* circumstances that are looked at

\* elsewhere: requests reach a process that does not run the worker.
\* fails: writes of copies may fail.  crash: a process may die.
\* api: runs are cancelled as tasks.  files: runs write files and name remote ones.
\* limit: bound, runs there may be.
Conf == [elsewhere : BOOLEAN, fails : BOOLEAN, crash : BOOLEAN, api : BOOLEAN,
         files : BOOLEAN, limit : 1 .. Cardinality(Runs)]

ASSUME RecordsAssumption ==
    None \notin Runs /\ IsFiniteSet(Runs) /\ Confs \subseteq Conf

VARIABLES
    conf,     \* never changes
    sstat,    \* AgentSessionRecord.status
    scur,     \* AgentSessionRecord.current_run_id
    task,     \* run -> status of its task row, "none" without a row
    rec,      \* run -> status of its run record, "none" without one
    ask,      \* run -> its last approval by the task's events
    copy,     \* run -> its last approval by the copied events
    aligned,  \* the next event gets the same id in both tables
    art,      \* run -> artifacts of the task
    mir,      \* run -> their copies in the session
    disk,     \* run -> there is a file in its workspace
    worker,   \* run -> where its worker is
    told,     \* run -> cancel() was called, not delivered yet
    reruns,   \* run -> reruns its approvals have started (history)
    deleted   \* runs whose task was deleted (history)

sessVars == <<sstat, scur>>
rowVars == <<task, rec>>
eventVars == <<ask, copy, aligned>>
fileVars == <<art, mir, disk>>
workVars == <<worker, told>>
history == <<reruns, deleted>>
vars == <<conf, sessVars, rowVars, eventVars, fileVars, workVars, history>>

Final == {"completed", "failed", "cancelled"}
Status == Final \cup {"queued", "running", "waiting_input", "waiting_approval"}
Open == Status \ Final

Init ==
    /\ conf \in Confs
    /\ sstat = "idle" /\ scur = None
    /\ task = [r \in Runs |-> "none"] /\ rec = [r \in Runs |-> "none"]
    /\ ask = [r \in Runs |-> "none"] /\ copy = [r \in Runs |-> "none"]
    /\ aligned \in BOOLEAN
    /\ art = [r \in Runs |-> {}] /\ mir = [r \in Runs |-> {}]
    /\ disk = [r \in Runs |-> FALSE]
    /\ worker = [r \in Runs |-> "none"] /\ told = [r \in Runs |-> FALSE]
    /\ reruns = [r \in Runs |-> 0] /\ deleted = {}

-----------------------------------------------------------------------------
(***************************************************************************)
(* Rows and copies.                                                        *)
(***************************************************************************)
HasTask(r) == task[r] # "none"
HasRecord(r) == rec[r] # "none"

\* update_status, update_run: a missing row is ignored.
With(rows, r, st) == [rows EXCEPT ![r] = IF @ = "none" THEN @ ELSE st]

\* Whether a copy gets written.
Copied == IF conf.fails THEN BOOLEAN ELSE {TRUE}

\* _sync_session_run updates the record.
Synced(r, st) == \E ok \in Copied : rec' = IF ok THEN With(rec, r, st) ELSE rec

\* add_event of a task, _mirror_run_event: an event without a row, or whose copy
\* fails, gets an id in one table only.
TaskEvents(r) ==
    /\ \E ok \in Copied : aligned' = (aligned /\ ok /\ HasTask(r))
    /\ UNCHANGED <<ask, copy>>

\* add_run_event: an event of the session alone
RunEvents == aligned' = FALSE

UpdateSession(st, r) == sstat' = st /\ scur' = r

\* What is shown of a run: the task if there is one, else the record.
Shown(r) == IF HasTask(r) THEN task[r] ELSE rec[r]

Active(r) == worker[r] # "none"
Used == {r \in Runs : HasTask(r) \/ HasRecord(r) \/ Active(r) \/ r \in deleted \/ scur = r}
Fresh(n) == n \notin Used /\ Cardinality(Used) < conf.limit

Start(r) ==
    /\ worker' = [worker EXCEPT ![r] = "scheduled"]
    /\ told' = [told EXCEPT ![r] = FALSE]

Stop(r) ==
    /\ worker' = [worker EXCEPT ![r] = "none"]
    /\ told' = [told EXCEPT ![r] = FALSE]

\* InProcessTaskRunner.cancel
CancelWorker(r) ==
    /\ told' = [told EXCEPT ![r] = @ \/ (Active(r) /\ ~ conf.elsewhere)]
    /\ UNCHANGED worker

\* A request arrives when no worker of its process is about to be cancelled, or
\* else in another process.
Serves == conf.elsewhere \/ \A r \in Runs : ~ told[r]

-----------------------------------------------------------------------------
(***************************************************************************)
(* The worker: run_autoagent.                                              *)
(***************************************************************************)
\* _initialize_autoagent_run, _mark_autoagent_running: a run without a row gets
\* one, whether it never had one or lost it.
Begin(r) ==
    /\ worker[r] = "scheduled" /\ ~ told[r]
    /\ IF task[r] \in Final
       THEN Stop(r) /\ UNCHANGED <<sessVars, rowVars, eventVars>>
       ELSE /\ UpdateSession("running", r)
            /\ task' = [task EXCEPT ![r] = "running"]
            /\ \E ok \in Copied : rec' = IF ok THEN [rec EXCEPT ![r] = "running"] ELSE rec
            /\ \E ok \in Copied : aligned' = (aligned /\ ok)
            /\ worker' = [worker EXCEPT ![r] = "running"]
            /\ UNCHANGED <<ask, copy, told>>
    /\ UNCHANGED <<conf, fileVars, history>>

\* A coroutine that is cancelled before it began runs nothing.
Drop(r) ==
    /\ worker[r] = "scheduled" /\ told[r]
    /\ Stop(r)
    /\ UNCHANGED <<conf, sessVars, rowVars, eventVars, fileVars, history>>

Works(r) == worker[r] \in {"running", "asked"} /\ ~ told[r]

\* A tool writes into the workspace.
WriteFile(r) ==
    /\ Works(r) /\ conf.files
    /\ disk' = [disk EXCEPT ![r] = TRUE]
    /\ UNCHANGED <<conf, sessVars, rowVars, eventVars, art, mir, workVars, history>>

\* _mirror_run_artifact and SessionStore.add_artifact; a failure is only logged
MirrorArtifact(r, a) ==
    \E ok \in Copied : mir' = IF ok THEN [mir EXCEPT ![r] = @ \cup {a}] ELSE mir

\* add_artifact, add_remote_artifact
AddArtifact(r, a) ==
    /\ HasTask(r)
    /\ art' = [art EXCEPT ![r] = @ \cup {a}]
    /\ MirrorArtifact(r, a)
    /\ UNCHANGED disk

\* A result names a remote file; without a task the exception is swallowed.
AddRemoteArtifact(r) ==
    /\ Works(r) /\ conf.files
    /\ AddArtifact(r, "remote")
    /\ TaskEvents(r)
    /\ UNCHANGED <<conf, sessVars, rowVars, workVars, history>>

\* builtin:request_input; without a task the tool fails.
RequestInput(r) ==
    /\ Works(r) /\ HasTask(r)
    /\ task' = With(task, r, "waiting_input")
    /\ TaskEvents(r)
    /\ worker' = [worker EXCEPT ![r] = "asked"]
    /\ UNCHANGED <<conf, sessVars, rec, fileVars, told, history>>

\* The files of the workspace that are not registered yet
Unregistered(r) == disk[r] /\ "local" \notin art[r]

RegisterArtifacts(r) ==
    IF Unregistered(r) THEN AddArtifact(r, "local") ELSE UNCHANGED fileVars

\* mutant: the record keeps the status the run had
EndUnsynced(r, st) ==
    /\ task' = With(task, r, st) /\ UNCHANGED rec
    /\ IF st \in Final THEN UpdateSession("idle", None) ELSE UpdateSession(st, r)
    /\ Stop(r)
    /\ UNCHANGED <<conf, history>>

\* How a run ends: task, record, session.
End(r, st) ==
    /\ task' = With(task, r, st) /\ Synced(r, st)
    /\ IF st \in Final THEN UpdateSession("idle", None) ELSE UpdateSession(st, r)
    /\ Stop(r)
    /\ UNCHANGED <<conf, history>>

\* _complete_autoagent_success
Complete(r) ==
    /\ Works(r) /\ worker[r] = "running"
    /\ RegisterArtifacts(r)
    /\ End(r, "completed") /\ TaskEvents(r)

\* _mark_autoagent_waiting_input: request_user_input refuses a missing task.
AwaitInput(r) ==
    /\ Works(r) /\ worker[r] = "asked" /\ HasTask(r)
    /\ RegisterArtifacts(r)
    /\ End(r, "waiting_input") /\ TaskEvents(r)

\* _record_autoagent_failure, after the files were registered or after that
\* failed as well, which is what becomes of a run whose task is gone.
Fail(r) ==
    /\ Works(r)
    /\ IF HasTask(r) THEN RegisterArtifacts(r) ELSE UNCHANGED fileVars
    /\ End(r, "failed") /\ TaskEvents(r)

\* mutant: the request is not copied
AwaitApprovalUncopied(r) ==
    /\ Works(r)
    /\ End(r, "waiting_approval")
    /\ ask' = [ask EXCEPT ![r] = "requested"]
    /\ UNCHANGED <<copy, aligned>>
    /\ UNCHANGED fileVars

\* _mark_autoagent_waiting_approval
AwaitApproval(r) ==
    /\ Works(r)
    /\ End(r, "waiting_approval")
    /\ ask' = [ask EXCEPT ![r] = "requested"]
    /\ \E ok \in Copied :
          /\ copy' = IF ok /\ HasTask(r)
                     THEN [copy EXCEPT ![r] = IF aligned THEN "same" ELSE "other"] ELSE copy
          /\ aligned' = (aligned /\ ok /\ HasTask(r))
    /\ UNCHANGED fileVars

\* _cancel_autoagent_run
Cancelled(r) ==
    /\ worker[r] \in {"running", "asked"} /\ told[r]
    /\ End(r, "cancelled") /\ TaskEvents(r)
    /\ UNCHANGED fileVars

Worker(r) ==
    \/ Begin(r) \/ Drop(r) \/ WriteFile(r) \/ AddRemoteArtifact(r) \/ RequestInput(r)
    \/ Complete(r) \/ AwaitInput(r) \/ Fail(r) \/ AwaitApproval(r) \/ Cancelled(r)

-----------------------------------------------------------------------------
(***************************************************************************)
(* Requests about tasks.                                                   *)
(***************************************************************************)
\* add_session_message starts a run without a row.
Message(n) ==
    /\ Serves /\ sstat = "idle" /\ Fresh(n)
    /\ UpdateSession("running", n) /\ Start(n)
    /\ UNCHANGED <<conf, rowVars, eventVars, fileVars, history>>

\* create_agent_task and retry_agent_task: a row without a record
NewTask(n) ==
    /\ Fresh(n) /\ Start(n)
    /\ task' = [task EXCEPT ![n] = "queued"]
    /\ \E ok \in Copied : aligned' = (aligned /\ ok)
    /\ UNCHANGED <<ask, copy, rec>>

CreateTask(n) ==
    /\ Serves /\ NewTask(n)
    /\ UNCHANGED <<conf, sessVars, fileVars, history>>

RetryTask(r, n) ==
    /\ Serves /\ HasTask(r) /\ NewTask(n)
    /\ UNCHANGED <<conf, sessVars, fileVars, history>>

\* cancel_agent_task leaves the record to the worker, if there is one.
CancelTask(r) ==
    /\ conf.api /\ Serves /\ task[r] \in Open
    /\ task' = With(task, r, "cancelled") /\ CancelWorker(r) /\ TaskEvents(r)
    /\ UNCHANGED <<conf, sessVars, rec, fileVars, history>>

\* add_agent_task_input
AnswerTask(r) ==
    /\ Serves /\ task[r] = "waiting_input" /\ ~ Active(r)
    /\ task' = With(task, r, "queued") /\ Start(r) /\ TaskEvents(r)
    /\ UNCHANGED <<conf, sessVars, rec, fileVars, history>>

Forget(r) ==
    /\ Serves /\ HasTask(r)
    /\ task' = [task EXCEPT ![r] = "none"]
    /\ art' = [art EXCEPT ![r] = {}]
    /\ ask' = [ask EXCEPT ![r] = "none"]
    /\ deleted' = deleted \cup {r}
    /\ UNCHANGED <<conf, sessVars, rec, copy, aligned, reruns>>

\* mutant: the copies of the artifacts are left
DeleteTaskOnly(r) ==
    /\ Forget(r) /\ CancelWorker(r)
    /\ disk' = [disk EXCEPT ![r] = FALSE]
    /\ UNCHANGED mir

\* delete_agent_task, delete_task: the rows, the workspace, the copies of the
\* artifacts; the record and the copies of the events stay.
DeleteTask(r) ==
    /\ Forget(r) /\ CancelWorker(r)
    /\ disk' = [disk EXCEPT ![r] = FALSE]
    /\ \E ok \in Copied : mir' = IF ok THEN [mir EXCEPT ![r] = {}] ELSE mir

Gone ==
    /\ worker' = [r \in Runs |-> "none"]
    /\ told' = [r \in Runs |-> FALSE]

\* The process dies when the rows are gone.
DeleteInterrupted(r) ==
    /\ conf.crash /\ Forget(r) /\ Gone
    /\ \E d \in {disk, [disk EXCEPT ![r] = FALSE]} : disk' = d
    /\ UNCHANGED mir

Crash ==
    /\ conf.crash /\ Gone
    /\ UNCHANGED <<conf, sessVars, rowVars, eventVars, fileVars, history>>

\* recover_incomplete_agent_tasks
Recover(r) ==
    /\ task[r] \in {"queued", "running"} /\ ~ Active(r)
    /\ task' = With(task, r, "queued") /\ Start(r)
    /\ UNCHANGED <<conf, sessVars, rec, eventVars, fileVars, history>>

-----------------------------------------------------------------------------
(***************************************************************************)
(* Requests about the runs of the session.                                 *)
(***************************************************************************)
\* cancel_agent_session_run: on a record it does not look at the status.
CancelRecord(r) ==
    /\ Serves /\ ~ HasTask(r) /\ HasRecord(r)
    /\ rec' = With(rec, r, "cancelled") /\ CancelWorker(r) /\ RunEvents
    /\ IF scur = r THEN UpdateSession("idle", None) ELSE UNCHANGED sessVars
    /\ UNCHANGED <<conf, task, ask, copy, fileVars, history>>

CancelRun(r) ==
    /\ Serves /\ HasTask(r)
    /\ IF task[r] \in Open
       THEN /\ task' = With(task, r, "cancelled") /\ CancelWorker(r) /\ TaskEvents(r)
       ELSE UNCHANGED <<task, workVars, eventVars>>
    /\ IF task'[r] = "cancelled" THEN Synced(r, "cancelled") ELSE UNCHANGED rec
    /\ IF scur = r THEN UpdateSession("idle", None) ELSE UNCHANGED sessVars
    /\ UNCHANGED <<conf, fileVars, history>>

\* start_retry_from_session_run_record: a record without a row
NewRecord(n) ==
    /\ Fresh(n) /\ Start(n) /\ UpdateSession("running", n) /\ RunEvents

RetryRecord(r, n) ==
    /\ Serves /\ sstat # "archived" /\ ~ HasTask(r) /\ HasRecord(r)
    /\ NewRecord(n)
    /\ rec' = [rec EXCEPT ![n] = "queued"]
    /\ UNCHANGED <<conf, task, ask, copy, fileVars, history>>

RetryRun(r, n) ==
    /\ Serves /\ sstat # "archived" /\ HasTask(r)
    /\ NewTask(n) /\ UpdateSession("running", n)
    /\ UNCHANGED <<conf, fileVars, history>>

\* _resume_task_run: a task that is not waiting any more is left as it is.
ResumeTask(r) ==
    /\ task' = IF task[r] = "waiting_input" THEN With(task, r, "queued") ELSE task
    /\ TaskEvents(r) /\ UNCHANGED rec

\* _resume_session_run_record
ResumeRecord(r) ==
    /\ rec' = With(rec, r, "queued")
    /\ RunEvents /\ UNCHANGED <<task, ask, copy>>

\* _resume_waiting_session_message: the record is looked at when there is no task.
Answer ==
    /\ Serves /\ sstat = "waiting_input" /\ scur # None /\ ~ Active(scur)
    /\ HasTask(scur) \/ HasRecord(scur)
    /\ IF HasTask(scur) THEN ResumeTask(scur) ELSE ResumeRecord(scur)
    /\ UpdateSession("running", scur) /\ Start(scur)
    /\ UNCHANGED <<conf, fileVars, history>>

\* A rerun is refused while the session is busy with something else.
MayRerun(r) ==
    sstat \in {"running", "waiting_approval"} =>
        scur = r /\ Shown(r) \in Final \cup {"waiting_approval"}

\* The answer given to a task names the request by its id among the events of
\* tasks, which the copied request may have or not.
Answered(r) == copy' = [copy EXCEPT ![r] = IF @ = "same" THEN "answered" ELSE @]

\* The answer given to a record names the copied request.
AnsweredHere(r) == copy' = [copy EXCEPT ![r] = IF @ = "same" THEN "answered" ELSE "late"]

TaskOpen(r) == HasTask(r) /\ ask[r] = "requested"
RecordOpen(r) == ~ HasTask(r) /\ HasRecord(r) /\ copy[r] \in {"same", "other"}

Count(r) == reruns' = [reruns EXCEPT ![r] = @ + 1]

\* mutant: the answer is not recorded when a rerun starts
RerunTaskUnrecorded(r, n) ==
    /\ Serves /\ sstat # "archived" /\ TaskOpen(r) /\ MayRerun(r)
    /\ Fresh(n) /\ Start(n)
    /\ task' = [task EXCEPT ![n] = "queued", ![r] = IF @ = "waiting_approval" THEN "completed" ELSE @]
    /\ \E ok \in Copied : aligned' = (aligned /\ ok)
    /\ UpdateSession("running", n) /\ Count(r)
    /\ UNCHANGED <<conf, ask, copy, rec, fileVars, deleted>>

\* _resolve_task_approval.  The record of the run that asked is not told of a rerun.
RerunTask(r, n) ==
    /\ Serves /\ sstat # "archived" /\ TaskOpen(r) /\ MayRerun(r)
    /\ Fresh(n) /\ Start(n)
    /\ task' = [task EXCEPT ![n] = "queued", ![r] = IF @ = "waiting_approval" THEN "completed" ELSE @]
    /\ ask' = [ask EXCEPT ![r] = "resolved"]
    /\ \E ok \in Copied : /\ IF ok THEN Answered(r) ELSE UNCHANGED copy
                          /\ aligned' = (aligned /\ ok)
    /\ UpdateSession("running", n) /\ Count(r)
    /\ UNCHANGED <<conf, rec, fileVars, deleted>>

\* mutant: an answer in the task's events is not looked for
ResolveTaskAgain(r, st) ==
    /\ Serves /\ sstat # "archived" /\ HasTask(r) /\ ask[r] # "none"
    /\ ask' = [ask EXCEPT ![r] = "resolved"]
    /\ \E ok \in Copied : /\ IF ok THEN Answered(r) ELSE UNCHANGED copy
                          /\ aligned' = (aligned /\ ok)
    /\ task' = With(task, r, st) /\ Synced(r, "completed")
    /\ IF scur = r THEN UpdateSession("idle", None) ELSE UNCHANGED sessVars
    /\ UNCHANGED <<conf, fileVars, workVars, history>>

ResolveTask(r, st) ==
    /\ Serves /\ sstat # "archived" /\ TaskOpen(r)
    /\ ask' = [ask EXCEPT ![r] = "resolved"]
    /\ \E ok \in Copied : /\ IF ok THEN Answered(r) ELSE UNCHANGED copy
                          /\ aligned' = (aligned /\ ok)
    /\ IF task[r] = "waiting_approval"
       THEN /\ task' = With(task, r, st) /\ Synced(r, st)
            /\ IF scur = r THEN UpdateSession("idle", None) ELSE UNCHANGED sessVars
       ELSE UNCHANGED <<rowVars, sessVars>>
    /\ UNCHANGED <<conf, fileVars, workVars, history>>

\* resolve_session_run_record_approval
RerunRecord(r, n) ==
    /\ Serves /\ sstat # "archived" /\ RecordOpen(r) /\ MayRerun(r)
    /\ NewRecord(n)
    /\ AnsweredHere(r)
    /\ rec' = [rec EXCEPT ![n] = "queued", ![r] = IF @ = "waiting_approval" THEN "completed" ELSE @]
    /\ Count(r)
    /\ UNCHANGED <<conf, task, ask, fileVars, deleted>>

ResolveRecord(r, st) ==
    /\ Serves /\ sstat # "archived" /\ RecordOpen(r)
    /\ AnsweredHere(r) /\ RunEvents
    /\ IF rec[r] = "waiting_approval"
       THEN /\ rec' = With(rec, r, st)
            /\ IF scur = r THEN UpdateSession("idle", None) ELSE UNCHANGED sessVars
       ELSE UNCHANGED <<rec, sessVars>>
    /\ UNCHANGED <<conf, task, ask, fileVars, workVars, history>>

\* _archive_owned_session, and the way back
Archive ==
    /\ Serves
    /\ UpdateSession("archived", None)
    /\ IF scur = None \/ Shown(scur) \notin Open
       THEN UNCHANGED <<rowVars, eventVars, workVars>>
       ELSE /\ CancelWorker(scur)
            /\ IF HasTask(scur)
               THEN task' = With(task, scur, "cancelled") /\ Synced(scur, "cancelled") /\ TaskEvents(scur)
               ELSE rec' = With(rec, scur, "cancelled") /\ RunEvents /\ UNCHANGED <<task, ask, copy>>
    /\ UNCHANGED <<conf, fileVars, history>>

Unarchive ==
    /\ Serves /\ sstat = "archived"
    /\ UpdateSession("idle", scur)
    /\ UNCHANGED <<conf, rowVars, eventVars, fileVars, workVars, history>>

About(r) ==
    \/ CancelTask(r) \/ AnswerTask(r) \/ DeleteTask(r) \/ DeleteInterrupted(r) \/ Recover(r)
    \/ CancelRecord(r) \/ CancelRun(r)
    \/ \E st \in {"cancelled", "completed"} : ResolveTask(r, st) \/ ResolveRecord(r, st)
    \/ \E n \in Runs : RetryTask(r, n) \/ RetryRecord(r, n) \/ RetryRun(r, n)
                       \/ RerunTask(r, n) \/ RerunRecord(r, n)

Next ==
    \/ \E r \in Runs : Worker(r) \/ About(r) \/ Message(r) \/ CreateTask(r)
    \/ Answer \/ Archive \/ Unarchive \/ Crash

Spec == Init /\ [][Next]_vars

-----------------------------------------------------------------------------
(***************************************************************************)
(* Properties.                                                             *)
(***************************************************************************)
\* Types and ranges.
TypeOK ==
    /\ conf \in Confs /\ scur \in Runs \cup {None} /\ aligned \in BOOLEAN
    /\ sstat \in {"idle", "running", "waiting_input", "waiting_approval", "archived"}
    /\ task \in [Runs -> Status \cup {"none"}] /\ rec \in [Runs -> Status \cup {"none"}]
    /\ ask \in [Runs -> {"none", "requested", "resolved"}]
    /\ copy \in [Runs -> {"none", "same", "other", "answered", "late"}]
    /\ art \in [Runs -> SUBSET {"local", "remote"}] /\ mir \in [Runs -> SUBSET {"local", "remote"}]
    /\ disk \in [Runs -> BOOLEAN] /\ told \in [Runs -> BOOLEAN]
    /\ worker \in [Runs -> {"none", "scheduled", "running", "asked"}]
    /\ reruns \in [Runs -> Nat]
    /\ deleted \subseteq Runs /\ Cardinality(Used) <= conf.limit

\* One approval starts one rerun, whichever of the two records it is given to,
\* but for a request that has different ids in the two tables: the answer to the
\* task is then unknown to the record that is left when the task is deleted, and
\* the record takes one more.
OneRerunEach ==
    ~ conf.fails => \A r \in Runs :
        reruns[r] <= IF r \in deleted /\ copy[r] = "late" THEN 2 ELSE 1

\* A session that waits for the user can be answered, also after the task of the
\* run was deleted.  It is left waiting for nothing when the run was cancelled by
\* the task's endpoint, when a worker of another process asks for a deleted task,
\* and when a copy got lost.
WaitingCanEnd ==
    ~ conf.elsewhere /\ ~ conf.fails /\ ~ conf.api =>
        /\ sstat = "waiting_input" => scur # None /\ Shown(scur) # "none"
        /\ sstat = "waiting_approval" => scur # None /\ (TaskOpen(scur) \/ RecordOpen(scur))

\* What is shown of a deleted task does not claim to be going on for ever: as
\* long as no process dies and no copy gets lost, a record without a task that is
\* queued or running has a worker.
NoGhosts ==
    ~ conf.crash /\ ~ conf.fails => \A r \in Runs :
        ~ HasTask(r) /\ rec[r] \in {"queued", "running"} => Active(r)

\* What the session lists as a file of a run can be downloaded, and a deleted task
\* leaves no artifact behind, neither its own nor those a worker adds late.
ListedIsThere ==
    ~ conf.crash /\ ~ conf.fails => \A r \in Runs :
        /\ "local" \in art[r] \cup mir[r] => disk[r]
        /\ mir[r] = art[r]
        /\ ~ HasTask(r) => mir[r] = {}

\* Task and record never tell two different ends of a run.
EndsAgree ==
    ~ conf.fails => \A r \in Runs :
        task[r] \in Final /\ rec[r] \in Final => task[r] = rec[r]
=============================================================================

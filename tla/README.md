# task-pilot-agent: models, checks and proofs

This directory holds TLA+ specifications of the agent runtime in
`src/task-pilot-agent`, the TLC configurations that check them on small
instances, and theorems about them that TLAPS proves for every instance. Paths
below are relative to `src/task-pilot-agent`; `core/` is `brain/core/`.

## 1. The system

A FastAPI server (`app_main.py`, `brain/app.py`) runs agents. A *task* is one
run of an agent; a *session* is a conversation that groups runs. Both are rows
of a SQL database which several server processes may share. A run is an asyncio
coroutine (`core/autoagent_runtime.py`) in one of these processes. It builds a
context, drives a ReAct loop of model and tool calls, and writes its progress to
the task row, the session row and an event log as it goes.

| Component | State it keeps | Operations |
|---|---|---|
| Background dispatch and recovery: `core/task_runner.py`, `core/task_recovery.py`, `core/tasks.py`, `app_main.py` | `running_tasks` (task → asyncio task) in each process; `status`, `updated_at` and `metadata.backgroundDispatch` (status, owner, lease, attempt) in each row | start, cancel, answer, delete, renew, finish, recover at boot |
| Task ledger: `core/tasks.py`, `core/plan_snapshots.py` | the rest of the row: artifacts, usage, plan snapshots, child links, task events | create, update, append, link |
| Run lifecycle: `core/autoagent_runtime.py` | none of its own: moves task and session through the phases of a run | initialize, mark running, handle, complete, wait, fail, cancel |
| Sessions and messages: `core/sessions.py`, `core/session_message_service.py` | `status`, `current_run_id`, messages, run records, run events of a session | send, answer, archive, restore, cancel, retry, hand off |
| Approvals: `core/approval_service.py` | approval events, the status of the run that asked | request, reject, approve, approve and rerun |
| Run events and replay: `core/run_events.py`, `core/session_view_service.py`, `core/printer.py` | numbered events of a session; a cursor in each client | append, mirror, list after a cursor |
| Plan: `core/tools/plan_state.py`, `core/tools/plan_tool.py`, `core/planning_policy.py` | steps and their states | create, update, mark, add, skip, finish |
| ReAct loop: `core/agents/*`, `core/handlers/*` | messages, step counter, agent state | think, act, follow up an open plan, finish |
| Tool policy and collection: `core/tools/collection.py`, `core/tool_policy.py` | allowed and blocked tools, pending approvals | expose, check, execute with a timeout |
| MCP market: `tools/aggre_mcp_market/*` | registered servers, cached tools, runtimes | refresh, route, call |
| Authentication: `auth/*` | users, login sessions, one-time codes, rate windows | log in, refresh, revoke, limit |
| Memory, LLM manager, context, files, local tools, user interface | vector stores, model clients, files | mostly I/O |

Components interact through the database (two processes share nothing else),
through `ctx.running_tasks` and `asyncio.Task.cancel()` within a process, and
through awaits, at which the event loop of a process switches coroutine.

What is hard in it:

* **No row is locked.** A handler reads a row, decides, and writes columns
  later; only the two recovery queries compare and swap on `updated_at`.
* **Cancellation is local and late.** `cancel()` reaches only a worker of the
  same process, and is delivered at that worker's next await; meanwhile requests
  go on, and the cancelled run still writes its status when it unwinds.
* **Processes die** and come back under a new owner name; recovery happens once,
  at boot, and only looks at tasks, never at sessions.
* **A session's status is a projection** that its runs, its requests and the
  approval service overwrite independently.

What makes each part correct: dispatch must not run one task twice nor lose one,
must not take a healthy run away, and must stop recovering at some point; a final
status must stay; a session must say *running* exactly while something runs and
*waiting* exactly when an answer is possible; an archived session must stay so;
an approval must be used once; an event must reach a reader that polls, whatever
becomes of its second copy, and must keep its number. A plan has one running step
and ends with its run; what is shown of it is what the agent has. A tool is
executed only after every check passed, and each announced call gets one result.
The registry routes to servers there are and survives an outage. An identity
keeps its owner, and nobody who is disabled stays signed in. The two records of a
run tell the same story, and a deleted task leaves nothing behind.

## 2. Modules

| Module | Contents |
|---|---|
| `TaskDispatch.tla` | processes, task rows with leases, workers, recovery |
| `TaskExecution.tla` | what dispatch promises: who executes a task, and whether it is open |
| `TaskDispatchProofs.tla` | theorems about `TaskDispatch`: under any schedule, and without awkward ones; the refinement |
| `SessionRuns.tla` | one session and its runs |
| `RunEvents.tla` | the events of one session: stored, mirrored, numbered, streamed, loaded |
| `EventLog.tla` | what the events of a session promise a client: a prefix of one growing log |
| `SessionRunsProofs.tla`, `RunEventsProofs.tla`, `RunRecordsProofs.tla`, `MarketProofs.tla`, `AgentLoopProofs.tla`, `ToolCallsProofs.tla`, `AccountsProofs.tla` | theorems about those modules |
| `RunRecords.tla` | the task row, the run record, copied events, artifacts and files of a run |
| `AgentLoop.tla` | one run from the inside: loop, plan, summary, the ways it ends |
| `ToolCalls.tla` | which tools a run may call, and what happens in a call |
| `Market.tla` | the registry of MCP servers, its refreshes and its cache file |
| `Accounts.tla` | users, identities, login sessions, OAuth flows |
| `MC*.tla` | instances for TLC: symmetry, configurations, schedules |

The modules meet at the run. `TaskDispatch` has the leases, the registry and
the choice of the recovering process, and no session; `SessionRuns` has the
session and its requests, and reduces recovery to "an interrupted row gets a
worker, or is given up". `RunEvents` keeps of a run only that it marks its session
and adds events before and after it. `RunRecords` takes a request, or a stretch of a
worker between two awaits, as one step and looks at what each writes to the two
stores; what another process does in between is the matter of `SessionRuns`.
`AgentLoop` is the body of one worker, which the others treat as "executes, then
ends somehow"; `ToolCalls` is one of its awaits, and `Market` what answers there.
`Accounts` stands before all of them.

### TaskDispatch

* `status`, `dstat`, `owner`, `lease`, `attempt` are the columns of a task row
  that dispatch looks at. `lease` is the time left until `leaseExpiresAt`, in
  ticks, so that `Tick` is the only action that passes time.
* `seen[p]` holds the candidates of the recovery running in process `p` whose
  row is still the one it read. Every write to a row (`Touch`) takes the task out
  of all these sets, which is what comparing `updated_at` in the `UPDATE` does.
* `seg[p]` is the synchronous code that process `p` is in the middle of. An
  asyncio process does nothing else before the next await, other processes do.
  Handlers whose write depends on a read are two segments (`InputRead`,
  `InputCheck`, `InputWrite`; `CancelRead`, `CancelWrite`; `StartCheck`,
  `StartWrite`; `ReadExhausted`, `FailExhausted`; `ReadClaimable`, `Claim`).
* `registry` is `ctx.running_tasks`; `wpc`, `wproc`, `wtask`, `wkind`, `wcancel`
  and `whb` describe the coroutine in each worker slot: where it is suspended,
  whether it was cancelled, when its heartbeat is due.
* `recovered` counts successful claims since the row was created. It is a
  history variable: nothing reads it but properties.

A worker passes `scheduled` (created, not begun), `beginning`, `handling`,
`asked` (after `builtin:request_input`), `closing` and `exited`. `Outcome`
writes the status the run ends with, without looking at the present one; that is
what `update_status` does.

`TaskExecution` has only the set of workers executing each task and whether the
task is absent, open or final. `ImplementsExecution` states that `TaskDispatch`
implements it under the mapping given there.

### SessionRuns

* `sstat`, `scur` are the session's `status` and `current_run_id`;
  `tstat[r]` is the status of the task row of run `r`; `approval[r]` is the last
  approval event of `r`; `reruns[r]` counts the reruns its approval started
  (history).
* `wpc`, `wproc`, `wcancel` are the run's worker, at most one.
* `seg[p]` is the code process `p` is in the middle of, with what it read: which
  run it is about, which run it starts, the current run and the status it saw.

The reads at the beginning of a handler are one step; each write to a row is a
step of its own. Where the code writes back what it read before (the current run
in `cancel_agent_session_run`, the status of the run in `_resolve_task_approval`)
the segment carries the old value.

### RunEvents

* `events` is how many task events are committed; they are numbered by their row
  id. `rows` is the table of run events, a sequence of `[event, seq]` in the order
  of row ids. `session` is the status of the session, *none* without a row.
* `writer[p]` is where process `p` is in adding an event: `told` (the printer has
  asked for the number), `stored` (`add_event` has committed the task event),
  `numbered` (`add_run_event` has read the highest number), and back to `idle` when
  the row is written. `owing` is code that has just marked the session and goes on
  to add an event. Reading the number and writing the row are two steps: the
  lock around them is a `threading.Lock` of one process.
* `reader[c]` is the connection of client `c`: a WebSocket, an event stream or one
  full load, to which process, and how far the poll that is being served got. A
  poll reads the session, then the run events, then the task events, and a
  process may be in the middle of it while another one writes.
* `cursor[c]` and `seen[c]` are what the client has been sent.
* `smooth` says that no awkward schedule has happened, `atEnd` how many events there
  were when the session last became idle. Both are history: they are read by
  properties only.

`EventLog` has only the number of events and the set each client was shown: no tables,
numbers, pages, cursors or connections. A client never loses an event; until an awkward
schedule has happened it is shown a longer and longer prefix, after that it may be shown
events with others left out, and at any time all of them. `ImplementsLog` states that
`RunEvents` implements it.

`SeqIn` is the number an event has in a read: the stored one, or one that is
counted on from the highest stored number. `NextSeq` is what the printer
announces.

### RunRecords

* `task`, `rec` are the status of the task row and of the run record; `Synced`
  writes both, as `_sync_session_run` follows every `update_status`.
* `ask[r]` is the last approval of the run by the events of its task, `copy[r]` by
  the copied events. The request has an id in each table; `aligned` says whether
  they happen to be the same, since an answer to the task names the id of the task's
  event and the record compares it with that of the copy.
* `art`, `mir`, `disk` are the artifacts of the task, their copies in the session,
  and the file in the workspace.
* `worker`, `told` are the run's worker and a cancellation on its way to it.
* Each endpoint that exists twice (cancel, retry, answer, approve) is two actions,
  one that works on the task, one on a record without a task.

### AgentLoop

* `pc` is the await the worker is at, or where it goes on from; `step` counts the
  turns of the loop, `found` the calls whose observation may be reused.
* `plan` is `PlanState`, `shown` the latest plan event of the run. Every command is
  an action (`Create`, `Update`, `MarkStep`, `AddStep`, `FinishPlan`, `ReadPlan`,
  `RefusedCommand`), and so are the places where the runtime sets steps itself:
  `SyncPlanStep` after the result of a tool, `StartSummary`, `Summed`, and `Ended`,
  which is what `sync_plan_terminal_status` shows.
* `open` holds the phases announced as started. `by` says who ended the run
  (history).
* The model is free: at each turn it may ask for any call or command, or finish.

### ToolCalls

* `Build` is `ToolGateway.build_collection` with the approval of blocked tools;
  `Allowed`, `BlockReason`, `NeedsApproval` are the policy.
* The run is at `think`, `wait` (in a call), `unwind` (waiting for the runner it has
  cancelled), `leave` (an exception on its way out), `asking` or `over`.
* `runner[c]` is the second task of call `c`, which talks to the server; `queue[c]` is
  what it put for the run. `flight` and `effects` are the servers' side: requests
  that were sent and tools that were executed.
* `Expire` is one of two timers (the `wait_for` of the collection and the 900 s of
  the clients); `Cause` decides which exception leaves the call when several
  interruptions meet.

### Market

* `snap` is the snapshot, a sequence of blocks of tools, one for each server; `job[t]`
  is the refresh a thread is in: the servers still to ask, what they answered,
  whether it decided to publish, and which file its descriptor writes to.
* `listing[s]` is what a server lists, or that it is down; `configured` the servers
  this process knows.
* `tmp` and `file` are the temporary and the real cache file. Opening empties the
  file, writing fills it, renaming moves it; a thread that still has it open goes
  on writing into the renamed file (`Renamed`).

### Accounts

* `users`, `ident`, `sess`, `flows` are the tables. `req[q]` is where a request is: at
  an await (its dependencies, the provider) or between the check and the commit of
  a transaction, with what it has read.
* `uses[f]` counts sessions and bindings an OAuth state led to (history).

### Abstractions

* Texts, titles, messages, results and all metadata other than
  `backgroundDispatch` are left out.
* Timestamps: two writes to a row have different `updated_at`. (They are
  milliseconds; two writes in the same millisecond would escape the compare and
  swap.)
* The limits of 200 candidates and 50 recoveries per boot are left out.
* The attempt counter saturates at `AttemptCap`, at least `MaxAttempts`; above
  `MaxAttempts` the code only compares it.
* `SessionRuns` has no deletion of task rows and no run records without a task row
  (`RunRecords` has both), and merges the check and the write of `start_task`, which
  `TaskDispatch` keeps apart. Two answers to one question are in `TaskDispatch`
  (`"double_input"`).
* Exceptions between the writes of one outcome are in `AgentLoop` (`writeFails`) only.
* `RunEvents` merges the tasks of a session into one ledger, ordered by row id, and
  has no filters, no removal of events and no limit of 10000 rows. A read of the
  task events of several tasks is one step. At most one event is added before the
  session exists, as the evaluation endpoints do. The check for an event id that is
  mirrored already cannot fire, since `add_event` mirrors once.
* The page deduplicates events by id (`sessionEventDedupeKey`), so a client's events
  are a set.
* `AgentLoop`: notes and evidence of steps, thoughts and prompts are left out; an
  observation is failed or not, reusable or not. The user answers only after the
  worker has ended (bound). A rerun or a resumed run starts with no plan, as the code
  does.
* `ToolCalls`: patterns and spellings of names are sets of tools; arguments are inside
  or outside the workspace. Non-streaming `call_tool` and the direct HTTP fallback
  are left out; hooks are left out, since nothing registers one. Users answer an
  approval after the last runners have ended (bound).
* `Market`: schemas, descriptions, statuses and the retry loop inside a client are
  left out; a server that hangs is one that is down after its timeout.
* `Accounts`: one provider; profiles, audit events, cookies, rate limits, the mapping of
  legacy records and external connections are left out.

## 3. Awkward schedules

Several properties the documents state hold only as long as the environment does
not do certain things. The guards that look at hazards or configurations restrict
the environment, never the code. `TaskDispatch` and `RunEvents` have a constant
`Hazards`: the set of things the environment may do; with the full set it is free.
`SessionRuns` chooses one of several `Schedules` in the initial state, each a set
of hazards and a number of runs, so that one run of TLC looks at all of them and
each property says under which it is stated. The other modules choose a
configuration `conf` (or `overlap`) in the same way.

| `TaskDispatch` | The environment may |
|---|---|
| `undispatched` | boot a process while a run without a dispatch record executes |
| `boot_race` | boot a process while a request is between its row and its worker |
| `early_input` | send an answer while the run that asked is still executing |
| `double_input` | send two answers at once |
| `crossed_write` | cancel between the check and the write of another process |
| `late_heartbeat` | block an event loop past a renewal |

| `SessionRuns` | The environment may |
|---|---|
| `race` | serve the session in two processes at the same moment |
| `remote` | send a request to a process that does not run the worker |
| `unwinding` | send a request while a cancelled worker winds up |
| `unchecked` | start a run through an endpoint that does not look at the session |
| `archive` | archive or reset the session while a run is active |
| `task_api` | use the task endpoints on a run that is not executing |
| `crash` | kill a process |
| `exhaust` | give a run up in a recovery |

| `RunEvents` | The environment may |
|---|---|
| `race` | let two processes add events of the session at once |
| `early` | add an event before the session exists |
| `unmirrored` | fail a mirror, or kill the process before it |

In `RunEvents` all hazards are always on in the passing run; the properties that need
their absence are guarded by `smooth`, which stays true until the first of them.

| Module | Configuration |
|---|---|
| `RunRecords` | `elsewhere`: requests reach a process that does not run the worker; `fails`: copies may fail; `crash`; `api`: runs are cancelled through the task endpoint; `files`: runs write files and name remote ones; `limit`: runs |
| `AgentLoop` | `supervisor` delegates; `planner`: how the plan tool got into the collection; `marks`: the model sets steps itself; `remote`: requests arrive in another process; `writeFails`: a write after the last status may fail |
| `ToolCalls` | the tools of the agent, those its policy calls risky, those the market marks, whether the agent asks and whether risky tools are enabled, the user's selection, a timeout |
| `Market` | `overlap`: refreshes overlap |
| `Accounts` | `race`: several processes; `required`: sign-in is required; `admins` |

## 4. What is checked

| Run | Instance | Shows |
|---|---|---|
| `dispatch_lease` | 2 processes, 1 task, 2 workers, no hazards | `TypeOK`; a live run with a dispatch record is never a candidate (`LeaseProtectsLiveRun`); one recovery gets a task (`ClaimIsExclusive`); recoveries are capped (`RecoveriesAreCapped`); the refinement (`ImplementsExecution`); a boot that finds a stranded task with no lease deals with it (`RecoveryTakesEffect`) |
| `dispatch_hazards` | the same, all hazards | `FinalIsStable`: a final status is left only by code past its check |
| `session_schedules` | 2 processes and 3 runs with no hazards, with `race`, and with `remote`, `unwinding`, `archive`, `unchecked`; 2 runs with everything but `race` | without hazards a session says *running* while a run executes (`BusyWhileExecuting`) and one run executes (`OneExecution`); without races, crashes and the task endpoints no session is busy without a worker (`NoPhantomBusy`) and a waiting one can be answered (`WaitingIsAnswerable`); an approval is used once, or once in each process (`ApprovedOnce`); without races only the code of a run that lives on brings an archived session back (`ArchiveIsKept`) |
| `session_settles` | 2 runs, overlapping schedule | a busy session does not stay busy (`RunningSettles`) |
| `events_stream` | 2 processes, 1 client, 3 events, pages of 2, all hazards | what a client has is what a replay holds up to its cursor (`LiveIsReplay`); the refinement (`ImplementsLog`); announced and stored numbers agree (`ToldSeqIsStored`); *done* does not overtake the run (`DoneSawRun`); a load recovers every event (`LoadRecovers`); a client on the WebSocket catches up (`CatchesUp`) |
| `records` | 3 runs plain; 2 with a worker elsewhere and files, with failing copies, with crashes; 1 with files | an approval starts one rerun whichever record is answered (`OneRerunEach`); a waiting session can be answered (`WaitingCanEnd`); a deleted task leaves no record that claims to run (`NoGhosts`) and no artifacts (`ListedIsThere`); task and record tell one end (`EndsAgree`) |
| `agentloop` | plans of up to 3 steps with 2 texts, 2 calls, 3 turns, 2 workers, 4 configurations | what is shown of the plan is the plan (`ShownIsPlan`), also at the end (`EndIsShown`); one step is in work (`OneStepRunning`); the run ends or waits (`RunSettles`) |
| `toolcalls` | 2 tools, 2 calls, 2 reruns, 2 cancellations, 4 configurations | one result for each call (`Paired`); risky tools are executed after an approval (`EffectsGranted`); a request is sent only while it is waited for (`SentWhileWaiting`); a cancellation wins over timers (`CancelWins`); every call ends (`CallsEnd`) |
| `market` | 2 servers that may list one tool, 1 request, 1 change, 1 restart, with and without overlap | no tool of an unknown server (`OnlyConfigured`); the file is whole while refreshes do not overlap (`FileIsWhole`); the registry becomes current (`Converges`) |
| `accounts` | 3 users, 2 subjects, 1 login session, 2 flows, 2 requests | identities keep their owner, also in a race (`OwnerKept`); without one a state is used once (`StateOnce`) and whoever is disabled is out (`InactiveIsOut`) |

Some properties are stated and proved but not in a run, to keep the runs short:
`AskedOnce`, `QuestionIsKept`, `PhasesEnd`, `PlanGoesForward`, `LastIdentityKept`,
`SignedUpWithIdentity` (section 5).
The `TypeOK` of `SessionRuns`, `RunRecords`, `RunEvents`, `ToolCalls` and `Market` were checked once on
the instances of their runs, which do not list them, and are proved.

Runs that must fail, each against a sentence of the repository:

| Run | The sentence | What happens |
|---|---|---|
| `dispatch_stolen` | recovery "does not steal healthy long tasks" | the run of a session message has no dispatch record, since its row is created after the worker |
| `session_unarchived` | "Soft-delete/archive a session and cancel active work" | the cancelled worker resets the session to idle |

Bounds. Two processes are enough for every race between a process and another:
code is in the middle of at most two segments that matter. One task is enough for
dispatch, since rows, registry entries and leases of different tasks do not
interact except through the limits that are left out; two worker slots let a
second worker of the task start while the first winds up. `Lease = 3`,
`Heartbeat = 1` give a lease that survives one missed tick and expires after
the next ones (the code has 90 s and 30 s). `MaxAttempts` is 1 or 2 (3 in the
code), so that exhaustion is reached by starts, by claims and by a mixture.
Three runs of a session are the current one, one that winds up, and one that is
started; two where crashes or liveness make the state space large. The schedules
with few hazards are run apart from those with many, for the properties that hold
only there. Three events and pages of two give a page that is full, one that is not,
and an event written behind a cursor; clients do not affect each other, so one is
enough. The invariants of `events_stream` were also checked with four events.

A plan needs three steps for one that is done, one in work and one to come, and a
third turn lets the model act after the result of its second call; a second worker
is a rerun or a resumed run. Two tools and two calls give a risky and a harmless
tool, and a call whose runner is still there when the next begins; two cancellations
interrupt the unwinding of the first, and the second rerun carries the approvals of
two runs. Two servers with one tool let the tools collide, one of them fail, and one
disappear; one change and one restart suffice for a file of another configuration.
Two requests and two subjects give every race of a check with a commit; the third
user is the development user, whom the code treats apart. A run record, its retry and
the rerun after an approval are three runs.

Symmetry is used for processes and workers in `dispatch_hazards`, for processes and
runs in the `session_*` runs, for runs in `records` and for all sets of `accounts`;
never where liveness is checked.

Every property of a passing run has a mutant of the code (a definition marked
*mutant* next to the one it replaces, listed in `PROJECT.json`) that breaks it.

### Fairness

`TaskDispatch!Fairness`: time passes; a process that is down is started again by
its supervisor and goes through its recovery; synchronous code ends; the event
loop resumes ready coroutines, and a run ends, for the ReAct loop has a step
limit and its calls have timeouts. Weak fairness suffices. Nothing is assumed of
requests, questions to the user and crashes.

`SessionRuns!Fairness`: a handler that has begun goes on (weak fairness). A run is
resumed though other coroutines of its process run in between: the event loop
takes them in the order they became ready, so it is strong fairness.

`RunEvents!FairSpec`: a write that has begun goes on to its end (weak fairness), and
so does a poll once it is being served. That a poll is served is strong fairness: a
process that writes again and again is busy from time to time, but its event loop
takes the ready poll in turn. Nothing is assumed of runs, clients, connections and
failures.

`Market!Fairness`: a thread that refreshes goes on (weak fairness; servers answer or
time out). The timer comes round again and again: strong fairness, since a refresh on
request may be under way whenever it is due, but is not for ever.

`ToolCalls!Fairness`: what the event loop is ready to do is done (building the
collection, reading an event, unwinding, leaving, delivering a cancellation to a
runner, collecting it), and timers expire. Nothing is assumed of the model, the
servers and the user: a server may say nothing for ever.

`AgentLoop!Spec`: the worker goes on (weak fairness), whatever it does. The model may
choose its calls and commands forever; the step limit of the loop is what ends it.

### Known to be open

These schedules leave a session, a task or a stream in a state nobody wants; they
are outside the hazards of the passing runs, or described by a violation above.

* A process that dies between marking the session and creating the row of the
  run leaves the session *running*; recovery does not look at sessions, and
  `fail_exhausted_background_recoveries` does not either.
* The task endpoints cancel a run that waits for input and leave the session
  waiting; the next message marks it *running* for a run that is skipped.
* Recovery runs once per boot and skips tasks with a lease. A process that is
  restarted at once finds its own leases still running, and nothing looks again.
* `retry_agent_session_run` does not look whether the session is busy.
* When a hand-off child ends it sets the session to idle while its parent still
  executes.
* Two processes that resolve one approval at the same time both start a rerun.
* Starts and resumes count as attempts (`tasks.py:582`) like recoveries do: with the
  `max_attempts` of 3 a task is failed as exhausted after one recovery.
* Two processes that add events of a session at once can give them one number; a
  client that has the first is not streamed the second until it loads the session.
  The same happens after a mirror failed while a client was connected.
* An event stream says *done* after a page that was full although more events wait,
  and a run that completes marks its session idle before its last events
  (`autoagent_runtime.py:836`), so a stream of another process can say *done* without
  them. The page reloads the session then.
* A task cancelled through another process is set back by its worker, which goes on.
* Two processes that find a session idle at once start a run each.
* `eval_run_created` is added before its session exists and never mirrored. Each read
  numbers it after the mirrored events, so the next of those gets a number that a
  connected client has passed.

Of run records and tasks:

* A retry through the task endpoint does not copy its parent into the run record again;
  a cancellation there leaves the record and the session waiting.
* A run record without a task is cancelled without a look at its status, also when it
  is *completed*.
* The worker in another process of a task that was deleted leaves the session waiting
  for an approval nobody can answer; answering a waiting run whose task was deleted
  creates the row again; late events of a deleted task stay without an owner.
* A cancelled worker does not register the files it left in the workspace.
* An approval answered on the task can be answered again on the record after the task
  was deleted, when the ids of the request differ in the two tables.

Of the loop and its plan:

* An approval request and archiving set a final or waiting status and do not
  update the plan; `ToolApprovalRequired` marks phases as failed though the run waits.
* `request_input` does not pause the run (compare `CODE_INDEX.md:180`): the loop goes
  on, the result of any tool completes the running step, also the one that waits.
* A completed run overwrites steps that failed or were skipped. `get_plan` and
  `continue` without a plan show an empty one, and a `finish` without a plan keeps
  `create` from working afterwards. The last observation may become the answer.
* A cancellation through another process does not stop the worker's plan; a local one
  leaves phases open. The page (`App.vue:2240`) does not know `plan_failed` and
  `plan_cancelled` as events of a plan.

Of tools and the market:

* Errors of MCP servers and the 900 s timeout come back as text, so the call is recorded
  as completed; an exception without a message ends as "streaming completed".
* The rerun after an approval starts the request anew and repeats earlier side effects.
* A full refresh drops the tools of a server that fails while others answer. With all
  servers down at boot the cache is emptied and the file overwritten. Servers that all
  list nothing keep their old tools for ever.
* With overlapping refreshes one thread renames the file another is still writing
  (`FileIsWhole` fails then), until the next refresh writes it again.

Of accounts:

* With several processes a disabled user can be signed in by a callback that had read
  it as active, and both of two last identities can be unbound (`InactiveIsOut` and
  `LastIdentityKept` are stated for one process).
* The row of an unlinked identity keeps its subject, so that subject cannot be linked
  again, although `../docs/google-login-user-design.md` (line 486) says "If it is not
  bound, bind it to current `user_id`".

## 5. What is proved

`TaskDispatchProofs` proves, for any sets of processes, tasks and workers, any
lease, heartbeat and attempt limits that satisfy `DispatchAssumption`, and any
set of hazards:

* `TypeCorrect == Spec => []TypeOK`. `TypeOK` alone is not inductive: a step
  indexes rows and slots by what a segment or a worker names. `TypeInv` adds
  that a segment which works on a task names one (`SegShape`), that a segment of
  a beginning worker belongs to the process of that worker, and that a slot in
  use has a process and a task (`WorkerShape`).
* `RecoveriesCapped == Spec => []RecoveriesAreCapped`. The strengthening relates
  the history to the counter the code keeps: `CountInv` (a row was recovered at
  most `attempt` times, and at most `MaxAttempts`) and `CandidateInv` (a candidate
  of a claim whose row is unchanged still has fewer attempts than the limit). Every write to
  a row removes it from the candidates, so a claim always starts from a count
  below the limit.
* `FinalStable == Spec => FinalIsStable`, an action property: each action either
  leaves the status of a final task, sets it to a final one, deletes the row, or
  is a step of code past its check.

`RunEventsProofs` proves, for any sets of processes and clients, any page size and
bound on the events, and any set of hazards:

* `EventsTypeCorrect == Spec => []TypeOK`. A number is computed as the maximum of a set
  of numbers, which exists only because the set is bounded; `Bounded` says so of
  the table and is part of the inductive invariant. `MaxExists` shows it by taking
  the least upper bound.
* `LiveReplay == Spec => []LiveIsReplay` and `ToldSeqStored == Spec => []ToldSeqIsStored`.
  The invariant `SmoothInv` says of the schedules without a hazard that one process
  writes at a time (`OneWriter`), that the rows are the events in their order but for
  the one being mirrored (`TableInOrder`), that an announced number is that of the
  event it is for (`ToldInOrder`), and that a client has the events up to its cursor
  (`ClientsInOrder`). `OrderlySeq` is the core: on such a table every read numbers
  every event alike, also one whose row is not there yet; so a page is an interval that
  starts after the cursor (`OrderlyFirst`), and cutting it anywhere keeps the
  client in order (`SendOrderly`).
* `DoneIsComplete == Spec => DoneSawRun` and `LoadComplete == Spec => LoadRecovers` follow
  from the same invariant; the second needs no assumption on the schedule, for a read
  returns every event whatever the numbers are (`ReadComplete`).
* `Implementation == Spec => ImplementsLog` shows for each action which step of `EventLog`
  it is: committing a task event is `Add`; a page is `Show`, for what it sends ends a
  prefix (`PageShown`, from `SendOrderly`), or `Skip` once a schedule has upset the
  numbers; a load is `Show` of everything (`LoadShown`); the rest is `Upset` or none. It
  holds for every set of hazards.

The second part of `TaskDispatchProofs` proves for `Hazards = {}`, and otherwise as generally, the
properties that depend on the lease. One invariant carries all three:

* `HInv` says that a task has one holder (`OneHolder`): a worker, a recovery that has
  claimed it, or a request that is about to start its worker; that the rows a recovery
  has selected and nobody has written since have none (`SeenRows`); that a claim is
  kept until its worker starts (`Claims`); what code past its check of a row may rely on
  (`Statuses`); and that the lease of a worker that counts on it lasts longer than the
  heartbeats it may still miss (`Leases`). The last one is why a lease must be longer
  than *two* heartbeats: beginning a run sets the heartbeat back, and not the lease.
* `InterruptedUnheld` is the core: a row that looks interrupted has no holder, so that
  a recovery that selects it takes it from nobody.
* `LeaseProtects` and `ClaimsAreExclusive` follow from the invariant. `Implementation ==
  Spec => ImplementsExecution` shows for each action which step of `TaskExecution` it
  is: `Admit`, `Start`, `Settle`, `Reopen`, `End`, `Forget`, `Lose`, or none.

`AgentLoopProofs` proves, for any plans, calls, step limits, numbers of workers and
configurations: `TypeCorrect`, `ShownPlanIsThePlan`, `ShownEnd`, `OneStepInWork`,
`QuestionsStayOpen`, `PhasesAreClosed` and the action property `PlanNeverGoesBack`. The
invariant adds to these what each place of the loop relies on: that a plan which is
shown was made, which step the summary has in work, which phases are open at which
`pc`, that a run that has ended was ended by somebody (`by`) and shows it (`ShownOK`).

`ToolCallsProofs` proves, for any tools, configurations and numbers of calls, reruns
and cancellations: `TypeCorrect`, `ConsentFirst`, `NothingAskedTwice`, `CallsArePaired`,
`CancellationWins` and the action property `RequestsAreWaitedFor`. `Consent` and `Guarded` follow a risky tool from the check of
the collection to the server: what a runner has sent or a server executes
was allowed when the call began, and approvals are never taken back. `Stage` and
`LogShape` say how far the present call is and how the log ends there. `Senders` relates
runners to calls: one that still connects, and has not been told to end, is the runner of
the call the run waits for. It needs the numbers of calls, so `CountAppend` says how an
event changes what is counted.

`AccountsProofs` proves, for any users, subjects, tokens, flows and requests:
`TypeCorrect`, `StateUsedOnce`, `InactiveUserIsOut`, `LastIdentityStays` (these within
one process) and the action properties `OwnerStays` and `UserHasIdentity` (with any
number of processes). Within one process a request between its check and its commit is
alone (`Alone`), and what it has read still holds (`Checked`); `Once`, `Out` and `Last`
then say that no step of another request can come in between.

`SessionRunsProofs` proves, for any finite sets of processes and runs and any schedules,
the type invariant and all the safety properties `session_schedules` checks:
`SessionTypeCorrect`, `SessionBusyWhileExecuting`, `SessionOneExecution`,
`SessionNoPhantomBusy`, `SessionWaitingIsAnswerable`, `SessionApprovedOnce` and the action
property `SessionArchiveIsKept`. Its invariant has five parts, each under the hazards it
stands:

* `TypeInv`: the types, and which registers a segment of each kind has (`SegShape`).
  `OneSegment`: without a race one process is in the middle of something.
* `ArchiveInv`, without a race: an archived session has no current run, and code that is
  going to write the session found it not archived.
* `ApprovalInv`, unless a process dies: how far each segment has brought the run it is
  about. A run that is going to be started is nobody else's (`NewIsNew`), one that is
  answered has no worker (`AnsweredOnce`), and one that asks for an approval ends
  (`AskedAndEnded`), so it asks once. `RerunsCounted` is what `SessionApprovedOnce` needs: the
  reruns of an approval, and the processes that are still going to start one, are
  together no more than there are processes, or one without a race. The lemmas about
  cardinalities move a process from one of these sets to the other.
* `ShownInv`, when one process at a time works on the session and none dies: `Good` is what
  the two properties of a settled session say; it holds whenever no segment is `Ahead`, that
  is, has changed the run and not yet the session. `Knows` says of each segment that what it
  read before is still so, which is what these schedules leave of a read-modify-write.
* `SequentialInv`, without hazards: one run is worked on, it is the session's as long as
  nobody told it to stop (`Tracked`), and code that starts, answers or archives found none
  working (`Apart`).

`RunRecordsProofs` proves, for any finite set of runs and any configurations, the type
invariant and all properties `records` checks: `RecordsTypeCorrect`, `RecordsOneRerunEach`,
`RecordsWaitingCanEnd`, `RecordsNoGhosts`, `RecordsListedIsThere` and `RecordsEndsAgree`.
`ListedIsThere` is inductive as it stands; the others rest on:

* `RecordFollows`: while the task is there, the record shows no other end than the task's,
  but for a run that asks for input after it was cancelled, which opens the task again.
  `WorkedOnIsOpen` is why that is the only exception: what is worked on has not completed.
* `AskedOnce` and `CopyCounts`: a run asks for one approval, after which nobody works on
  it; the copy of the request tells how many answers can have started a rerun. A second one
  needs a copy with another id whose task is gone.
* `RecordIsWorkedOn`, `WorkersHaveRecords`, `WorkersHaveTasks`: which rows a worker has, by
  what was done to the run under it.
* `NotBegunIsBlank` and `WorkersBegin`: an unused name of a run has no leftovers, so that a
  new run starts from nothing. `UsedBound` counts the runs that are used.

The two invariants were checked with TLC, on the instances of the runs, before they were
proved.

`MarketProofs` proves, for any servers, tools and finite set of requests,
`MarketTypeCorrect`, `MarketOnlyConfigured` and `MarketFileIsWhole`, from one invariant:

* `Sound`: a snapshot, in memory, in a job or in a file, has one block of a server at most.
  This is why `Without`, which removes one block, leaves nothing of that server
  (`WithoutServers`).
* `Fetched`: what a refresh has got is of configured servers it no longer has to ask; the
  refresh of one server has what that server answered.
* `Booting`: the refresh at boot does not keep what was loaded from the file. Once it has
  published, the snapshot is of configured servers, and `booted` says that it is over.
* `Alone`: without overlap one thread refreshes at a time (`OneRefresh`); it writes a
  temporary file it has emptied and renames it when it is whole (`Saving`), whatever a
  process that died before has left there.

`Senders` and `Sound` were checked with TLC before they were proved.

Only model-checked: liveness (`RecoveryTakesEffect`, `RunningSettles`, `CatchesUp`,
`Converges`, `CallsEnd`, `RunSettles`), since `ENABLED` is beyond the prover used. Every
invariant and every action property of a passing run is a theorem.

## 6. Plan

Done: `TaskDispatch`, `TaskExecution`, `SessionRuns`, `RunRecords`, `RunEvents`, `EventLog`, `AgentLoop`,
`ToolCalls`, `Accounts` and `Market`, each checked and with proofs.

To come, in this order:

1. `TaskMetadata`: read-modify-write of the metadata column by usage, plan snapshots,
   child links and dispatch; it should implement a record of independent columns, and
   does not when two writers overlap.

## 7. Not modelled

* Loading and validating agent configurations and prompts: sequential code over files,
  with unit tests. What a configuration decides about a tool is in `ToolCalls`.
* Memory, the LLM manager and context building: calls of services and functions of
  texts, without state that another actor changes. `AgentLoop` takes any answer of a
  model.
* The process manager of the local MCP server, and the local tools: one child process,
  and functions of their arguments.
* Uploading, listing and previewing files: the database row and the file are written by
  one request; `RunRecords` has the files of runs.
* The user interface but for its deduplication of events and its cursor (`RunEvents`).
* Profiles, audit events, cookies, the rate limiter and external connections of `auth`.

`PROJECT.json` lists every component with the reason.

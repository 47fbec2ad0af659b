------------------------------ MODULE ToolCalls ------------------------------
(***************************************************************************)
(* The tool calls of one request: the run that answers it, and the reruns  *)
(* that follow when a user approves high-risk tools                        *)
(* (brain/core/tools/gateway.py, collection.py, mcp_tool.py, the clients   *)
(* of tools/aggre_mcp_market/mcp_clients, brain/core/approval_service.py). *)
(*                                                                         *)
(* A run is one asyncio task and makes one call at a time.  A call to an   *)
(* MCP tool has a second task, its runner, which talks to the server and   *)
(* puts what it gets into a queue that the run reads.  Two timers and the  *)
(* cancellation of the run may interrupt the run while it reads; it then   *)
(* cancels the runner and waits for it, and may be interrupted again.      *)
(*                                                                         *)
(* A tool is a name; patterns and spellings of names are sets of tools.    *)
(* Arguments are inside or outside the workspace of the task.  Progress    *)
(* messages are left out but for one that cannot be handled.  Hooks are    *)
(* left out: the program registers none, so that their awaits return.      *)
(***************************************************************************)
EXTENDS Naturals, Sequences, FiniteSets

CONSTANTS
    Tools,       \* tools the market lists
    Confs,       \* configurations that are looked at
    MaxCalls,    \* bound: calls of one run
    MaxReruns,   \* bound: reruns
    MaxCancels   \* bound: cancellations of one run

\* What is configured: the tools of the agent (and which of them its policy
\* calls risky), whether it asks for approval of risky tools, whether these are
\* enabled in the environment, the tools the market marks as risky, the tools
\* the user selected, and whether calls have a timeout of their own.
Conf == [listed : SUBSET Tools, risky : SUBSET Tools, asks : BOOLEAN, enabled : BOOLEAN,
         marked : SUBSET Tools, selects : BOOLEAN, selected : SUBSET Tools, timeout : BOOLEAN]

ASSUME ToolCallsAssumption ==
    /\ Confs \subseteq {c \in Conf : c.risky \subseteq c.listed /\ (~ c.selects => c.selected = {})}
    /\ MaxCalls \in Nat \ {0} /\ MaxReruns \in Nat /\ MaxCancels \in Nat

VARIABLES
    conf,      \* configuration of agent, market and request; never changes
    approved,  \* ctx.approved_tools of the run
    pc,        \* where the run is
    asked,     \* tools the pending approval request names
    log,       \* tool_call and tool_result events of the run
    fired,     \* what has interrupted the call: timers, cancellations
    cancels,   \* how often the run was cancelled
    reruns,    \* reruns so far
    runner,    \* call -> the task that talks to the server
    queue,     \* call -> the events its runner has put
    flight,    \* tools whose servers have been sent a request
    effects,   \* tools that were executed by their servers
    granted    \* tools users have approved so far (history)

run == <<pc, asked, log, fired, cancels>>
tasks == <<runner, queue>>
servers == <<flight, effects>>
vars == <<conf, approved, run, reruns, tasks, servers, granted>>

Runner == [pc : {"none", "connect", "sent", "closing", "done"}, tool : Tools \cup {"none"},
           cancel : BOOLEAN, read : BOOLEAN]

NoRunner == [pc |-> "none", tool |-> "none", cancel |-> FALSE, read |-> FALSE]

Calls == 1 .. MaxCalls

-----------------------------------------------------------------------------
(***************************************************************************)
(* Policy.                                                                 *)
(***************************************************************************)
\* AgentConfig.tool_block_reason
BlockReason(t) ==
    IF t \notin conf.listed THEN "not_in_allowed_tools"
    ELSE IF t \in approved \/ t \notin conf.risky THEN ""
    ELSE IF conf.asks THEN "high_risk_requires_approval"
    ELSE IF ~ conf.enabled THEN "high_risk_requires_enable"
    ELSE ""

\* matches_tool_selection
Selected(t) == conf.selects => t \in conf.selected

\* The checker of a collection: what it offers and what it executes.
Allowed(t) == BlockReason(t) = "" /\ Selected(t)

\* approval_requests_from_blocked_tools
Requests ==
    {t \in Tools : /\ BlockReason(t) = "high_risk_requires_approval"
                   /\ conf.selects /\ t \in conf.selected}

\* mutant: only the policy of the agent is looked at
NeedsApprovalPolicyOnly(t) == t \in conf.marked \cap conf.risky /\ t \notin approved

\* _approval_required_error
NeedsApproval(t) == t \in conf.marked /\ t \notin approved

-----------------------------------------------------------------------------
Count(kind) == Cardinality({i \in DOMAIN log : log[i].kind = kind})

\* The number of the call that is being made, or was made last.
This == Count("call")

Event(kind, t) == [kind |-> kind, tool |-> t]

Init ==
    /\ conf \in Confs
    /\ approved = {}
    /\ pc = "build" /\ asked = {} /\ log = <<>> /\ fired = {} /\ cancels = 0
    /\ reruns = 0
    /\ runner = [c \in Calls |-> NoRunner] /\ queue = [c \in Calls |-> <<>>]
    /\ flight = {} /\ effects = {} /\ granted = {}

\* The run waits for a user: _mark_autoagent_waiting_approval
Ask(ts) == pc' = "asking" /\ asked' = ts

\* The tools are collected; if selected ones need approval the run waits.
Build ==
    /\ pc = "build"
    /\ IF Requests # {} THEN Ask(Requests) ELSE pc' = "think" /\ UNCHANGED asked
    /\ UNCHANGED <<conf, approved, log, fired, cancels, reruns, tasks, servers, granted>>

\* The model answers, or names a tool that is not offered.
Finish ==
    /\ pc = "think" /\ cancels = 0
    /\ pc' = "over"
    /\ UNCHANGED <<conf, approved, asked, log, fired, cancels, reruns, tasks, servers, granted>>

\* The model names a tool that is offered.
Names(t) == pc = "think" /\ cancels = 0 /\ This < MaxCalls /\ Allowed(t)

\* An argument points outside of the workspace.
Refuse(t) ==
    /\ Names(t)
    /\ log' = log \o <<Event("call", t), Event("failed", t)>>
    /\ UNCHANGED <<conf, approved, pc, asked, fired, cancels, reruns, tasks, servers, granted>>

\* The run ends with an approval request; it shows a result but no call.
Require(t) ==
    /\ Names(t) /\ NeedsApproval(t)
    /\ log' = Append(log, Event("failed", t))
    /\ Ask({t})
    /\ UNCHANGED <<conf, approved, fired, cancels, reruns, tasks, servers, granted>>

\* The registry does not list the tool any more; the text that says so is a result.
CallUnknown(t) ==
    /\ Names(t) /\ ~ NeedsApproval(t)
    /\ log' = log \o <<Event("call", t), Event("done", t)>>
    /\ UNCHANGED <<conf, approved, pc, asked, fired, cancels, reruns, tasks, servers, granted>>

Call(t) ==
    /\ Names(t) /\ ~ NeedsApproval(t)
    /\ log' = Append(log, Event("call", t))
    /\ pc' = "wait" /\ fired' = {}
    /\ runner' = [runner EXCEPT ![This + 1] =
                     [pc |-> "connect", tool |-> t, cancel |-> FALSE, read |-> TRUE]]
    /\ UNCHANGED <<conf, approved, asked, cancels, reruns, queue, servers, granted>>

-----------------------------------------------------------------------------
(***************************************************************************)
(* The run reads the queue.                                                *)
(***************************************************************************)
\* mutant: a call that is interrupted may end without a result
ReturnSilent(kind) ==
    /\ log' = IF kind = "cancelled" THEN log ELSE Append(log, Event(kind, log[Len(log)].tool))
    /\ pc' = IF kind = "cancelled" THEN "over" ELSE "think"
    /\ fired' = {}

\* The call is over.
Return(kind) ==
    /\ log' = Append(log, Event(kind, log[Len(log)].tool))
    /\ pc' = IF kind = "cancelled" THEN "over" ELSE "think"
    /\ fired' = {}

\* The next event.  Whatever the events were, their end is the end of a call
\* that has not failed: a result, the text of an error, or neither of them.
ReadEvent ==
    /\ pc = "wait" /\ queue[This] # <<>>
    /\ queue' = [queue EXCEPT ![This] = Tail(@)]
    /\ IF Head(queue[This]) = "end" THEN Return("done") ELSE UNCHANGED <<log, pc, fired>>
    /\ UNCHANGED <<conf, approved, asked, cancels, reruns, runner, servers, granted>>

\* A message that cannot be handled ends the call; nobody reads the queue any
\* more, and the runner goes on until the generator is collected.
ReadBad ==
    /\ pc = "wait" /\ queue[This] # <<>> /\ Head(queue[This]) = "message"
    /\ queue' = [queue EXCEPT ![This] = <<>>]
    /\ runner' = [runner EXCEPT ![This].read = FALSE]
    /\ Return("done")
    /\ UNCHANGED <<conf, approved, asked, cancels, reruns, servers, granted>>

\* The generator is closed: the runner is cancelled.
Collect(c) ==
    /\ runner[c].pc \notin {"none", "done"} /\ ~ runner[c].read
    /\ runner' = [runner EXCEPT ![c].cancel = TRUE]
    /\ UNCHANGED <<conf, approved, run, reruns, queue, servers, granted>>

-----------------------------------------------------------------------------
(***************************************************************************)
(* Interruptions.                                                          *)
(***************************************************************************)
\* mutant: the task of an interrupted call is left alone
InterruptLeaving(by) ==
    /\ fired' = fired \cup {by}
    /\ IF pc = "wait" /\ runner[This].pc # "done"
       THEN pc' = "unwind" /\ UNCHANGED runner
       ELSE pc' = "leave" /\ UNCHANGED runner

\* CancelledError is raised where the run waits: for the next event, and then
\* for the runner it has cancelled; or, the second time, while it does that.
Interrupt(by) ==
    /\ fired' = fired \cup {by}
    /\ IF pc = "wait" /\ runner[This].pc # "done"
       THEN pc' = "unwind" /\ runner' = [runner EXCEPT ![This].cancel = TRUE]
       ELSE pc' = "leave" /\ UNCHANGED runner

\* mutant: calls have no timer of their own
TimerNone(by) == FALSE

\* The timers around the call: of the collection, if one is configured, and of
\* the tool.
Timer(by) == by = "tool" \/ (by = "collection" /\ conf.timeout)

Expire(by) ==
    /\ pc \in {"wait", "unwind"} /\ Timer(by) /\ by \notin fired
    /\ Interrupt(by)
    /\ UNCHANGED <<conf, approved, asked, log, cancels, reruns, queue, servers, granted>>

\* The run is cancelled while it waits for the model, or in a call.
CancelThinking ==
    /\ pc = "think" /\ cancels < MaxCancels
    /\ cancels' = cancels + 1
    /\ pc' = "over"
    /\ UNCHANGED <<conf, approved, asked, log, fired, reruns, tasks, servers, granted>>

CancelCall ==
    /\ pc \in {"wait", "unwind"} /\ cancels < MaxCancels
    /\ cancels' = cancels + 1
    /\ Interrupt("cancel")
    /\ UNCHANGED <<conf, approved, asked, log, reruns, queue, servers, granted>>

\* The runner has ended.
Unwound ==
    /\ pc = "unwind" /\ runner[This].pc = "done"
    /\ pc' = "leave"
    /\ UNCHANGED <<conf, approved, asked, log, fired, cancels, reruns, tasks, servers, granted>>

\* mutant: a timer that has expired hides the cancellation
CausePreferTimer == IF "tool" \in fired THEN "done" ELSE IF "collection" \in fired THEN "failed" ELSE "cancelled"

\* Which interruption comes out: asyncio counts them, so that a timeout is one
\* only if nothing else has cancelled the task.  The timeout of the tool is
\* turned into a text, which is a result; that of the collection is an error.
Cause ==
    IF "cancel" \in fired THEN "cancelled"
    ELSE IF "collection" \in fired THEN "failed"
    ELSE "done"

Leave ==
    /\ pc = "leave"
    /\ Return(Cause)
    /\ UNCHANGED <<conf, approved, asked, cancels, reruns, tasks, servers, granted>>

-----------------------------------------------------------------------------
(***************************************************************************)
(* Runners and servers.                                                    *)
(***************************************************************************)
Put(c, es) == queue' = [queue EXCEPT ![c] = IF runner[c].read THEN @ \o es ELSE @]

\* The session is set up and the request is sent.
SendRequest(c) ==
    /\ runner[c].pc = "connect" /\ ~ runner[c].cancel
    /\ runner' = [runner EXCEPT ![c].pc = "sent"]
    /\ flight' = flight \cup {runner[c].tool}
    /\ UNCHANGED <<conf, approved, run, reruns, queue, effects, granted>>

\* A server executes a request, even if nobody waits for it any more.
Execute(t) ==
    /\ t \in flight
    /\ flight' = flight \ {t} /\ effects' = effects \cup {t}
    /\ UNCHANGED <<conf, approved, run, reruns, tasks, granted>>

\* Messages while the tool works, at most one; and the result.
Message(c) ==
    /\ runner[c].pc = "sent" /\ ~ runner[c].cancel /\ queue[c] = <<>>
    /\ Put(c, <<"message">>)
    /\ UNCHANGED <<conf, approved, run, reruns, runner, servers, granted>>

Answer(c) ==
    /\ runner[c].pc = "sent" /\ ~ runner[c].cancel /\ runner[c].tool \notin flight
    /\ runner' = [runner EXCEPT ![c].pc = "closing"]
    /\ Put(c, <<"result">>)
    /\ UNCHANGED <<conf, approved, run, reruns, servers, granted>>

\* The session ends well, or the connection fails, at any point.
Close(c) ==
    /\ runner[c].pc = "closing" /\ ~ runner[c].cancel
    /\ runner' = [runner EXCEPT ![c].pc = "done"]
    /\ Put(c, <<"end">>)
    /\ UNCHANGED <<conf, approved, run, reruns, servers, granted>>

Fail(c) ==
    /\ runner[c].pc \in {"connect", "sent", "closing"} /\ ~ runner[c].cancel
    /\ runner' = [runner EXCEPT ![c].pc = "done"]
    /\ Put(c, <<"error", "end">>)
    /\ UNCHANGED <<conf, approved, run, reruns, servers, granted>>

\* CancelledError is raised in the runner.
Cancelled(c) ==
    /\ runner[c].pc \in {"connect", "sent", "closing"} /\ runner[c].cancel
    /\ runner' = [runner EXCEPT ![c].pc = "done"]
    /\ Put(c, <<"end">>)
    /\ UNCHANGED <<conf, approved, run, reruns, servers, granted>>

-----------------------------------------------------------------------------
(***************************************************************************)
(* Approvals.                                                              *)
(***************************************************************************)

\* merge_tool_selection
Merged(ts) == approved \cup ts

\* A user approves the tools that were asked for, or names others, and the
\* request is run again.  Bound: a user takes longer than the last runners.
Approve(ts) ==
    /\ pc = "asking" /\ reruns < MaxReruns
    /\ \A c \in Calls : runner[c].pc \in {"none", "done"}
    /\ reruns' = reruns + 1
    /\ approved' = Merged(ts) /\ granted' = granted \cup ts
    /\ pc' = "build" /\ asked' = {} /\ log' = <<>> /\ fired' = {} /\ cancels' = 0
    /\ runner' = [c \in Calls |-> NoRunner] /\ queue' = [c \in Calls |-> <<>>]
    /\ UNCHANGED <<conf, servers>>

\* A user rejects, or approves without a rerun.
Settle ==
    /\ pc = "asking"
    /\ pc' = "over" /\ asked' = {}
    /\ UNCHANGED <<conf, approved, log, fired, cancels, reruns, tasks, servers, granted>>

-----------------------------------------------------------------------------
Agent(t) == Refuse(t) \/ Require(t) \/ CallUnknown(t) \/ Call(t)

Client(c) == SendRequest(c) \/ Message(c) \/ Answer(c) \/ Close(c) \/ Fail(c)

Timers == {"tool", "collection"}

Over == pc = "over" /\ UNCHANGED vars

Next ==
    \/ Build \/ Finish \/ ReadEvent \/ ReadBad \/ Unwound \/ Leave
    \/ CancelThinking \/ CancelCall \/ Settle \/ Over
    \/ \E t \in Tools : Agent(t) \/ Execute(t)
    \/ \E c \in Calls : Client(c) \/ Cancelled(c) \/ Collect(c)
    \/ \E by \in Timers : Expire(by)
    \/ \E ts \in (SUBSET Tools) \ {{}} : Approve(ts)

Spec == Init /\ [][Next]_vars

\* A run that can go on does, its timers expire, generators are collected and
\* cancelled tasks end.  Nothing is asked of models, servers or users.
Fairness ==
    /\ WF_vars(Build) /\ WF_vars(ReadEvent) /\ WF_vars(Unwound) /\ WF_vars(Leave)
    /\ \A by \in Timers : WF_vars(Expire(by))
    /\ \A c \in Calls : WF_vars(Cancelled(c)) /\ WF_vars(Collect(c))

FairSpec == Spec /\ Fairness

-----------------------------------------------------------------------------
(***************************************************************************)
(* Properties.                                                             *)
(***************************************************************************)
Kinds == {"call", "done", "failed", "cancelled"}

InCall == pc \in {"wait", "unwind", "leave"}

\* The shapes of the variables, and what the place of the run says of them.
TypeOK ==
    /\ conf \in Confs /\ approved \subseteq Tools /\ granted \subseteq Tools
    /\ pc \in {"build", "think", "wait", "unwind", "leave", "asking", "over"}
    /\ asked \subseteq Tools /\ (asked # {} <=> pc = "asking")
    /\ log \in Seq([kind : Kinds, tool : Tools])
    /\ fired \subseteq Timers \cup {"cancel"} /\ (fired # {} => pc \in {"unwind", "leave"})
    /\ cancels \in 0 .. MaxCancels /\ reruns \in 0 .. MaxReruns
    /\ runner \in [Calls -> Runner]
    /\ queue \in [Calls -> Seq({"message", "result", "error", "end"})]
    /\ flight \subseteq Tools /\ effects \subseteq Tools

\* Every call the run announces gets exactly one result, which is the next
\* event about tools, however often the call is interrupted; only an approval
\* request has a result without a call, and ends the run.
Paired ==
    \A i \in DOMAIN log :
        IF log[i].kind = "call"
        THEN IF i = Len(log) THEN InCall
             ELSE log[i + 1].kind # "call" /\ log[i + 1].tool = log[i].tool
        ELSE \/ i > 1 /\ log[i - 1].kind = "call"
             \/ i = Len(log) /\ pc \in {"asking", "over"}

\* A server executes a tool that the market marks as risky, or that the policy
\* of the agent keeps for approval, only after a user has approved it, in
\* whichever of the runs of the request.
EffectsGranted ==
    \A t \in effects :
        t \in conf.marked \/ (t \in conf.risky /\ (conf.asks \/ ~ conf.enabled)) => t \in granted

\* A user is not asked for what has been approved before.
AskedOnce == pc = "asking" => asked \cap granted = {}

\* A request is sent to a server only while the run waits for its answer: not
\* after a timer, a cancellation or a bad message has ended the call.
SentWhileWaiting ==
    [][\A c \in Calls : runner[c].pc = "connect" /\ runner'[c].pc = "sent"
                        => pc = "wait" /\ c = This]_vars

\* A run that was cancelled in a call makes no other call and does not go on
\* thinking, even if timers expired at the same time.
CancelWins == cancels > 0 => pc \in {"unwind", "leave", "over"}

\* Every call ends, whatever the server does, and no task is left behind.
CallsEnd ==
    /\ InCall ~> ~ InCall
    /\ \A c \in Calls : runner[c].pc \notin {"none", "done"} /\ (c # This \/ ~ InCall)
                       ~> runner[c].pc \in {"none", "done"}
=============================================================================

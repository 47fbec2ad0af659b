--------------------------- MODULE ToolCallsProofs ---------------------------
(***************************************************************************)
(* ToolCalls: its types, consent before every risky effect, one result for *)
(* every call, the end of a run that is cancelled, and requests that are   *)
(* sent only while their answers are waited for.                           *)
(***************************************************************************)
EXTENDS ToolCalls, FiniteSetTheorems, TLAPS

(***************************************************************************)
(* The inductive invariant.                                                *)
(***************************************************************************)
\* Tools that need a user.
Guarded(t) == t \in conf.marked \/ (t \in conf.risky /\ (conf.asks \/ ~ conf.enabled))

\* Whatever has reached a server or is on its way there was allowed when its
\* call was made, and approvals are never taken back.
Consent ==
    /\ approved = granted
    /\ \A t \in flight \cup effects : Guarded(t) => t \in granted
    /\ \A c \in Calls : runner[c].pc # "none" =>
          /\ runner[c].tool \in Tools
          /\ Guarded(runner[c].tool) => runner[c].tool \in granted

\* A cancellation is among the causes of the interruption that ends the call.
CancelKnown ==
    cancels > 0 => /\ pc \in {"unwind", "leave", "over"}
                   /\ pc \in {"unwind", "leave"} => "cancel" \in fired

\* What Paired says of a log and of the stage of its run: a call is open, the
\* run has ended, or neither.
Stage == IF InCall THEN "open" ELSE IF pc \in {"asking", "over"} THEN "ended" ELSE "between"

Pairs(l, stage) ==
    \A i \in 1 .. Len(l) :
        IF l[i].kind = "call"
        THEN IF i = Len(l) THEN stage = "open"
             ELSE l[i + 1].kind # "call" /\ l[i + 1].tool = l[i].tool
        ELSE \/ i > 1 /\ l[i - 1].kind = "call"
             \/ i = Len(l) /\ stage = "ended"

\* The last event is the call while a call is open.
LogShape ==
    /\ Pairs(log, Stage)
    /\ InCall => log # <<>> /\ log[Len(log)].kind = "call"

IInv == TypeOK /\ Consent /\ AskedOnce /\ CancelKnown /\ LogShape

(***************************************************************************)
(* Logs grow by calls and by their results.                                *)
(***************************************************************************)
Entry == [kind : Kinds, tool : Tools]

LEMMA AddCall ==
  ASSUME NEW l \in Seq(Entry), NEW e \in Entry, Pairs(l, "between"), e.kind = "call"
  PROVE  /\ Pairs(Append(l, e), "open")
         /\ Append(l, e) \in Seq(Entry) /\ Append(l, e) # <<>>
         /\ Append(l, e)[Len(Append(l, e))] = e
<1> DEFINE m == Append(l, e)
<1>1. /\ m \in Seq(Entry) /\ Len(m) = Len(l) + 1 /\ m[Len(l) + 1] = e
      /\ \A i \in 1 .. Len(l) : m[i] = l[i]
      /\ m # <<>> /\ m[Len(m)] = e
  OBVIOUS
<1>2. Pairs(m, "open")
  <2> HIDE DEF m
  <2> SUFFICES ASSUME NEW i \in 1 .. Len(m)
               PROVE  IF m[i].kind = "call"
                      THEN i # Len(m) => m[i + 1].kind # "call" /\ m[i + 1].tool = m[i].tool
                      ELSE i > 1 /\ m[i - 1].kind = "call"
    BY DEF Pairs
  <2>1. CASE i = Len(m)
    BY <1>1, <2>1
  <2>2. CASE i # Len(m)
    <3>1. i \in 1 .. Len(l) /\ m[i] = l[i]
      BY <1>1, <2>2
    <3>2. CASE m[i].kind = "call"
      <4>1. i # Len(l) /\ l[i + 1].kind # "call" /\ l[i + 1].tool = l[i].tool
        BY <3>1, <3>2 DEF Pairs
      <4> QED  BY <1>1, <3>1, <3>2, <4>1
    <3>3. CASE m[i].kind # "call"
      <4>1. i > 1 /\ l[i - 1].kind = "call"
        BY <3>1, <3>3 DEF Pairs
      <4> QED  BY <1>1, <3>1, <3>3, <4>1
    <3> QED  BY <3>2, <3>3
  <2> QED  BY <2>1, <2>2
<1> HIDE DEF m
<1>3. Pairs(m, "open") /\ m \in Seq(Entry) /\ m # <<>> /\ m[Len(m)] = e
  BY <1>1, <1>2
<1> QED  BY <1>3 DEF m

LEMMA AddResult ==
  ASSUME NEW l \in Seq(Entry), NEW e \in Entry, NEW stage \in {"between", "ended"},
         Pairs(l, "open"), l # <<>>, l[Len(l)].kind = "call",
         e.kind # "call", e.tool = l[Len(l)].tool
  PROVE  Pairs(Append(l, e), stage) /\ Append(l, e) \in Seq(Entry)
<1> DEFINE m == Append(l, e)
<1>1. /\ m \in Seq(Entry) /\ Len(m) = Len(l) + 1 /\ m[Len(l) + 1] = e /\ Len(l) \in Nat
      /\ \A i \in 1 .. Len(l) : m[i] = l[i]
      /\ Len(l) > 0
  OBVIOUS
<1>2. Pairs(m, stage)
  <2> HIDE DEF m
  <2> SUFFICES ASSUME NEW i \in 1 .. Len(m)
               PROVE  IF m[i].kind = "call"
                      THEN IF i = Len(m) THEN FALSE
                           ELSE m[i + 1].kind # "call" /\ m[i + 1].tool = m[i].tool
                      ELSE \/ i > 1 /\ m[i - 1].kind = "call"
                           \/ i = Len(m) /\ stage = "ended"
    BY DEF Pairs
  <2>1. CASE i = Len(m)
    <3>1. i > 1 /\ i - 1 = Len(l) /\ m[i] = e /\ m[i - 1] = l[Len(l)]
      BY <1>1, <2>1
    <3> QED  BY <3>1
  <2>2. CASE i = Len(l)
    BY <1>1, <2>2
  <2>3. CASE i # Len(m) /\ i # Len(l)
    <3>1. i \in 1 .. Len(l) /\ m[i] = l[i] /\ i + 1 \in 1 .. Len(l) /\ m[i + 1] = l[i + 1]
      BY <1>1, <2>3
    <3>2. CASE m[i].kind = "call"
      BY <3>1, <3>2, <2>3 DEF Pairs
    <3>3. CASE m[i].kind # "call"
      <4>1. i > 1 /\ l[i - 1].kind = "call"
        BY <3>1, <3>3 DEF Pairs
      <4> QED  BY <1>1, <3>1, <3>3, <4>1
    <3> QED  BY <3>2, <3>3
  <2> QED  BY <2>1, <2>2, <2>3
<1> QED  BY <1>1, <1>2

LEMMA AddRequest ==
  ASSUME NEW l \in Seq(Entry), NEW e \in Entry, Pairs(l, "between"), e.kind # "call"
  PROVE  Pairs(Append(l, e), "ended") /\ Append(l, e) \in Seq(Entry)
<1> DEFINE m == Append(l, e)
<1>1. /\ m \in Seq(Entry) /\ Len(m) = Len(l) + 1 /\ m[Len(l) + 1] = e
      /\ \A i \in 1 .. Len(l) : m[i] = l[i]
  OBVIOUS
<1>2. Pairs(m, "ended")
  <2> HIDE DEF m
  <2> SUFFICES ASSUME NEW i \in 1 .. Len(m)
               PROVE  IF m[i].kind = "call"
                      THEN IF i = Len(m) THEN FALSE
                           ELSE m[i + 1].kind # "call" /\ m[i + 1].tool = m[i].tool
                      ELSE \/ i > 1 /\ m[i - 1].kind = "call"
                           \/ i = Len(m)
    BY DEF Pairs
  <2>1. CASE i = Len(m)
    BY <1>1, <2>1
  <2>2. CASE i # Len(m)
    <3>1. i \in 1 .. Len(l) /\ m[i] = l[i]
      BY <1>1, <2>2
    <3>2. CASE m[i].kind = "call"
      <4>1. i # Len(l) /\ l[i + 1].kind # "call" /\ l[i + 1].tool = l[i].tool
        BY <3>1, <3>2 DEF Pairs
      <4> QED  BY <1>1, <3>1, <3>2, <4>1
    <3>3. CASE m[i].kind # "call"
      <4>1. i > 1 /\ l[i - 1].kind = "call"
        BY <3>1, <3>3 DEF Pairs
      <4> QED  BY <1>1, <3>1, <3>3, <4>1
    <3> QED  BY <3>2, <3>3
  <2> QED  BY <2>1, <2>2
<1> QED  BY <1>1, <1>2

\* A run that ends leaves its log as it is.
LEMMA EndLog ==
  ASSUME NEW l, Pairs(l, "between")  PROVE Pairs(l, "ended")
BY DEF Pairs

LEMMA TwoEvents ==
  ASSUME NEW l \in Seq(Entry), NEW d, NEW e
  PROVE  l \o <<d, e>> = Append(Append(l, d), e)
OBVIOUS

(***************************************************************************)
(* What the moves of runs and runners do to the variables they share.      *)
(***************************************************************************)
Events == {"message", "result", "error", "end"}
RunnerPc == {"none", "connect", "sent", "closing", "done"}

LEMMA RunnerMoves ==
  ASSUME NEW r \in [Calls -> Runner], NEW c, NEW p \in RunnerPc
  PROVE  /\ [r EXCEPT ![c].pc = p] \in [Calls -> Runner]
         /\ [r EXCEPT ![c].cancel = TRUE] \in [Calls -> Runner]
         /\ [r EXCEPT ![c].read = FALSE] \in [Calls -> Runner]
<1>1. \A x \in Calls : r[x] \in Runner
  OBVIOUS
<1>2. \A x \in Calls : /\ [r[x] EXCEPT !.pc = p] \in Runner
                       /\ [r[x] EXCEPT !.cancel = TRUE] \in Runner
                       /\ [r[x] EXCEPT !.read = FALSE] \in Runner
  BY <1>1 DEF Runner, RunnerPc
<1> QED  BY <1>1, <1>2

\* An interruption only asks a runner to end.
LEMMA Cancelling ==
  ASSUME TypeOK, NEW c, runner' = [runner EXCEPT ![c].cancel = TRUE]
  PROVE  \A x \in Calls : runner'[x].pc = runner[x].pc /\ runner'[x].tool = runner[x].tool
BY DEF TypeOK, Runner

LEMMA PutTypes ==
  ASSUME TypeOK, NEW c \in Calls, NEW es \in Seq(Events), Put(c, es)
  PROVE  queue' \in [Calls -> Seq(Events)]
<1>1. queue \in [Calls -> Seq(Events)]
  BY DEF TypeOK, Events
<1>2. queue[c] \in Seq(Events) /\ queue[c] \o es \in Seq(Events)
  BY <1>1
<1> QED  BY <1>1, <1>2 DEF Put

LEMMA ReturnLog ==
  ASSUME TypeOK, LogShape, InCall, NEW kind \in {"done", "failed", "cancelled"},
         Return(kind)
  PROVE  log' \in Seq(Entry) /\ LogShape' /\ fired' = {} /\ pc' \in {"over", "think"}
<1> DEFINE e == Event(kind, log[Len(log)].tool)
<1>1. log \in Seq(Entry) /\ log # <<>> /\ log[Len(log)].kind = "call"
  BY DEF TypeOK, Entry, LogShape
<1>2. log[Len(log)] \in Entry
  BY <1>1
<1>3. e \in Entry /\ e.kind # "call" /\ e.tool = log[Len(log)].tool
  BY <1>2 DEF Event, Entry, Kinds
<1>4. Pairs(log, "open")
  BY DEF LogShape, Stage
<1>5. log' = Append(log, e) /\ fired' = {} /\ pc' \in {"over", "think"}
  BY DEF Return
<1> HIDE DEF e
<1>6. ~ InCall' /\ Stage' \in {"between", "ended"}
  BY <1>5 DEF InCall, Stage
<1>7. Pairs(Append(log, e), Stage') /\ Append(log, e) \in Seq(Entry)
  BY <1>1, <1>3, <1>4, <1>6, AddResult
<1> QED  BY <1>5, <1>6, <1>7 DEF LogShape

LEMMA BuildKeeps ==
  ASSUME IInv, Build
  PROVE  IInv'
<1> USE ToolCallsAssumption DEF IInv
<1>1. TypeOK'
  BY DEF Build, Ask, Requests, BlockReason, TypeOK, Kinds,
     Runner, Timers, run, tasks, servers
<1>2. Consent'
  BY DEF Build, Ask, Requests, BlockReason, TypeOK, Consent,
     Guarded, Runner, run, tasks, servers
<1>3. AskedOnce'
  BY DEF Build, Ask, Requests, BlockReason, AskedOnce,
     Consent, TypeOK, run, tasks, servers
<1>4. CancelKnown'
  BY DEF Build, Ask, Requests, BlockReason, CancelKnown,
     TypeOK, run, tasks, servers
<1>5. LogShape'
  <2>1. Stage = "between" /\ ~ InCall' /\ Stage' \in {"between", "ended"} /\ log' = log
    BY DEF Build, Ask, Stage, InCall
  <2> QED  BY <2>1, EndLog DEF LogShape
<1> QED  BY <1>1, <1>2, <1>3, <1>4, <1>5

LEMMA FinishKeeps ==
  ASSUME IInv, Finish
  PROVE  IInv'
<1> USE ToolCallsAssumption DEF IInv
<1>1. TypeOK'
  BY DEF Finish, TypeOK, Kinds, Runner, Timers, run, tasks,
     servers
<1>2. Consent'
  BY DEF Finish, TypeOK, Consent, Guarded, Runner, run, tasks,
     servers
<1>3. AskedOnce'
  BY DEF Finish, AskedOnce, Consent, TypeOK, run, tasks,
     servers
<1>4. CancelKnown'
  BY DEF Finish, CancelKnown, TypeOK, run, tasks, servers
<1>5. LogShape'
  <2>1. Stage = "between" /\ ~ InCall' /\ Stage' \in {"between", "ended"} /\ log' = log
    BY DEF Finish, Stage, InCall
  <2> QED  BY <2>1, EndLog DEF LogShape
<1> QED  BY <1>1, <1>2, <1>3, <1>4, <1>5

LEMMA RefuseKeeps ==
  ASSUME IInv, NEW t \in Tools, Refuse(t)
  PROVE  IInv'
<1> USE ToolCallsAssumption DEF IInv
<1>1. TypeOK'
  <2>1. log \in Seq(Entry)
    BY DEF TypeOK, Entry
  <2>2. Event("call", t) \in Entry /\ Event("failed", t) \in Entry
    BY DEF Event, Entry, Kinds
  <2>3. log' = Append(Append(log, Event("call", t)), Event("failed", t))
    BY <2>1, TwoEvents DEF Refuse
  <2> QED  BY <2>1, <2>2, <2>3 DEF Refuse, TypeOK, Entry, run, tasks, servers
<1>2. Consent'
  BY DEF Refuse, Names, TypeOK, Consent, Guarded, Runner, run,
     tasks, servers
<1>3. AskedOnce'
  BY DEF Refuse, Names, AskedOnce, Consent, TypeOK, run,
     tasks, servers
<1>4. CancelKnown'
  BY DEF Refuse, Names, CancelKnown, TypeOK, run, tasks,
     servers
<1>5. LogShape'
  <2>1. log \in Seq(Entry)
    BY DEF TypeOK, Entry
  <2>2. Event("call", t) \in Entry /\ Event("failed", t) \in Entry
    BY DEF Event, Entry, Kinds
  <2>3. log' = Append(Append(log, Event("call", t)), Event("failed", t))
    BY <2>1, TwoEvents DEF Refuse
  <2>4. Pairs(log, "between") /\ ~ InCall
    BY DEF Refuse, Names, LogShape, InCall, Stage
  <2>5. PICK l \in Seq(Entry) : /\ l = Append(log, Event("call", t))
                              /\ Pairs(l, "open") /\ l # <<>>
                              /\ l[Len(l)] = Event("call", t)
    BY <2>1, <2>2, <2>4, AddCall DEF Event
  <2>6. /\ Event("failed", t).kind # "call" /\ Event("failed", t).tool = l[Len(l)].tool
        /\ l[Len(l)].kind = "call"
    BY <2>5 DEF Event
  <2>7. Pairs(Append(l, Event("failed", t)), "between")
    BY <2>2, <2>5, <2>6, AddResult
  <2> QED  BY <2>1, <2>2, <2>3, <2>4, <2>5, <2>6, <2>7 DEF Refuse, Names, LogShape, InCall, Stage
<1> QED  BY <1>1, <1>2, <1>3, <1>4, <1>5

LEMMA RequireKeeps ==
  ASSUME IInv, NEW t \in Tools, Require(t)
  PROVE  IInv'
<1> USE ToolCallsAssumption DEF IInv
<1>1. TypeOK'
  <2>1. log \in Seq(Entry)
    BY DEF TypeOK, Entry
  <2>2. Event("failed", t) \in Entry
    BY DEF Event, Entry, Kinds
  <2>3. log' = Append(log, Event("failed", t))
    BY DEF Require
  <2> QED  BY <2>1, <2>2, <2>3 DEF Require, Ask, Names, TypeOK, Entry, run, tasks, servers
<1>2. Consent'
  BY DEF Require, Names, NeedsApproval, Ask, TypeOK, Consent,
     Guarded, Runner, run, tasks, servers
<1>3. AskedOnce'
  BY DEF Require, Names, NeedsApproval, Ask, AskedOnce,
     Consent, TypeOK, run, tasks, servers
<1>4. CancelKnown'
  BY DEF Require, Names, NeedsApproval, Ask, CancelKnown,
     TypeOK, run, tasks, servers
<1>5. LogShape'
  <2>1. log \in Seq(Entry)
    BY DEF TypeOK, Entry
  <2>2. Event("failed", t) \in Entry
    BY DEF Event, Entry, Kinds
  <2>3. log' = Append(log, Event("failed", t))
    BY DEF Require
  <2>4. Pairs(log, "between")
    BY DEF Require, Names, LogShape, InCall, Stage
  <2>5. Pairs(log', "ended")
    BY <2>1, <2>2, <2>3, <2>4, AddRequest DEF Event
  <2>6. pc' = "asking" /\ ~ InCall'
    BY DEF Require, Ask, InCall
  <2> QED  BY <2>1, <2>2, <2>3, <2>4, <2>5, <2>6 DEF LogShape, InCall, Stage
<1> QED  BY <1>1, <1>2, <1>3, <1>4, <1>5

LEMMA CallUnknownKeeps ==
  ASSUME IInv, NEW t \in Tools, CallUnknown(t)
  PROVE  IInv'
<1> USE ToolCallsAssumption DEF IInv
<1>1. TypeOK'
  <2>1. log \in Seq(Entry)
    BY DEF TypeOK, Entry
  <2>2. Event("call", t) \in Entry /\ Event("done", t) \in Entry
    BY DEF Event, Entry, Kinds
  <2>3. log' = Append(Append(log, Event("call", t)), Event("done", t))
    BY <2>1, TwoEvents DEF CallUnknown
  <2> QED  BY <2>1, <2>2, <2>3 DEF CallUnknown, TypeOK, Entry, run, tasks, servers
<1>2. Consent'
  BY DEF CallUnknown, Names, TypeOK, Consent, Guarded, Runner,
     run, tasks, servers
<1>3. AskedOnce'
  BY DEF CallUnknown, Names, AskedOnce, Consent, TypeOK, run,
     tasks, servers
<1>4. CancelKnown'
  BY DEF CallUnknown, Names, CancelKnown, TypeOK, run,
     tasks, servers
<1>5. LogShape'
  <2>1. log \in Seq(Entry)
    BY DEF TypeOK, Entry
  <2>2. Event("call", t) \in Entry /\ Event("done", t) \in Entry
    BY DEF Event, Entry, Kinds
  <2>3. log' = Append(Append(log, Event("call", t)), Event("done", t))
    BY <2>1, TwoEvents DEF CallUnknown
  <2>4. Pairs(log, "between") /\ ~ InCall
    BY DEF CallUnknown, Names, LogShape, InCall, Stage
  <2>5. PICK l \in Seq(Entry) : /\ l = Append(log, Event("call", t))
                              /\ Pairs(l, "open") /\ l # <<>>
                              /\ l[Len(l)] = Event("call", t)
    BY <2>1, <2>2, <2>4, AddCall DEF Event
  <2>6. /\ Event("done", t).kind # "call" /\ Event("done", t).tool = l[Len(l)].tool
        /\ l[Len(l)].kind = "call"
    BY <2>5 DEF Event
  <2>7. Pairs(Append(l, Event("done", t)), "between")
    BY <2>2, <2>5, <2>6, AddResult
  <2> QED  BY <2>1, <2>2, <2>3, <2>4, <2>5, <2>6, <2>7 DEF CallUnknown, Names, LogShape, InCall, Stage
<1> QED  BY <1>1, <1>2, <1>3, <1>4, <1>5

LEMMA CallKeeps ==
  ASSUME IInv, NEW t \in Tools, Call(t)
  PROVE  IInv'
<1> USE ToolCallsAssumption DEF IInv
<1>1. TypeOK'
  <2>1. log \in Seq(Entry)
    BY DEF TypeOK, Entry
  <2>2. Event("call", t) \in Entry
    BY DEF Event, Entry, Kinds
  <2>3. log' = Append(log, Event("call", t))
    BY DEF Call
  <2>4. [pc |-> "connect", tool |-> t, cancel |-> FALSE, read |-> TRUE] \in Runner
    BY DEF Runner
  <2>5. runner' \in [Calls -> Runner]
    BY <2>4 DEF Call, TypeOK
  <2> QED  BY <2>1, <2>2, <2>3, <2>4, <2>5 DEF Call, Names, TypeOK, Entry, run, tasks, servers
<1>2. Consent'
  BY DEF Call, Names, NeedsApproval, Allowed, BlockReason,
     TypeOK, Consent, Guarded, Runner, run, tasks, servers
<1>3. AskedOnce'
  BY DEF Call, Names, NeedsApproval, Allowed, BlockReason,
     AskedOnce, Consent, TypeOK, run, tasks, servers
<1>4. CancelKnown'
  BY DEF Call, Names, NeedsApproval, Allowed, BlockReason,
     CancelKnown, TypeOK, run, tasks, servers
<1>5. LogShape'
  <2>1. log \in Seq(Entry)
    BY DEF TypeOK, Entry
  <2>2. Event("call", t) \in Entry
    BY DEF Event, Entry, Kinds
  <2>3. log' = Append(log, Event("call", t))
    BY DEF Call
  <2>4. Pairs(log, "between")
    BY DEF Call, Names, LogShape, InCall, Stage
  <2>5. Pairs(log', "open") /\ log' # <<>> /\ log'[Len(log')] = Event("call", t)
    BY <2>1, <2>2, <2>3, <2>4, AddCall DEF Event
  <2>6. pc' = "wait" /\ InCall'
    BY DEF Call, InCall
  <2> QED  BY <2>1, <2>2, <2>3, <2>4, <2>5, <2>6 DEF LogShape, Event, Stage
<1> QED  BY <1>1, <1>2, <1>3, <1>4, <1>5

LEMMA ReadEventKeeps ==
  ASSUME IInv, ReadEvent
  PROVE  IInv'
<1> USE ToolCallsAssumption DEF IInv
<1>1. TypeOK'
  <2>1. queue' \in [Calls -> Seq(Events)]
    <3>1. \A c \in Calls : queue[c] \in Seq(Events) /\ (queue[c] # <<>> => Tail(queue[c]) \in Seq(Events))
      BY DEF TypeOK, Events
    <3> QED  BY <3>1 DEF ReadEvent, TypeOK, Events
  <2>2. /\ log' \in Seq(Entry)
        /\ \/ UNCHANGED <<pc, fired>>
           \/ fired' = {} /\ pc' \in {"over", "think"}
    <3>1. CASE Head(queue[This]) = "end"
      BY <3>1, ReturnLog DEF ReadEvent, InCall
    <3>2. CASE Head(queue[This]) # "end"
      BY <3>2 DEF ReadEvent, TypeOK, Entry
    <3> QED  BY <3>1, <3>2
  <2> QED  BY <2>1, <2>2 DEF ReadEvent, TypeOK, Entry, Events, run, tasks, servers
<1>2. Consent'
  BY DEF ReadEvent, Return, TypeOK, Consent, Guarded, Runner,
     run, tasks, servers
<1>3. AskedOnce'
  BY DEF ReadEvent, Return, AskedOnce, Consent, TypeOK, run,
     tasks, servers
<1>4. CancelKnown'
  BY DEF ReadEvent, Return, CancelKnown, TypeOK, run,
     tasks, servers
<1>5. LogShape'
  <2>1. CASE Head(queue[This]) = "end"
    BY <2>1, ReturnLog DEF ReadEvent, InCall
  <2>2. CASE Head(queue[This]) # "end"
    BY <2>2 DEF ReadEvent, LogShape, InCall, Stage
  <2> QED  BY <2>1, <2>2
<1> QED  BY <1>1, <1>2, <1>3, <1>4, <1>5

LEMMA ReadBadKeeps ==
  ASSUME IInv, ReadBad
  PROVE  IInv'
<1> USE ToolCallsAssumption DEF IInv
<1>1. TypeOK'
  <2>1. queue' \in [Calls -> Seq(Events)]
    <3>1. queue \in [Calls -> Seq(Events)] /\ <<>> \in Seq(Events)
      BY DEF TypeOK, Events
    <3> QED  BY <3>1 DEF ReadBad
  <2>2. runner' \in [Calls -> Runner]
    BY RunnerMoves DEF ReadBad, TypeOK, RunnerPc
  <2>3. log' \in Seq(Entry) /\ fired' = {} /\ pc' \in {"over", "think"}
    BY ReturnLog DEF ReadBad, InCall
  <2> QED  BY <2>1, <2>2, <2>3 DEF ReadBad, TypeOK, Entry, Events, run, tasks, servers
<1>2. Consent'
  BY DEF ReadBad, Return, TypeOK, Consent, Guarded, Runner,
     run, tasks, servers
<1>3. AskedOnce'
  BY DEF ReadBad, Return, AskedOnce, Consent, TypeOK, run,
     tasks, servers
<1>4. CancelKnown'
  BY DEF ReadBad, Return, CancelKnown, TypeOK, run, tasks,
     servers
<1>5. LogShape'
  BY ReturnLog DEF ReadBad, InCall
<1> QED  BY <1>1, <1>2, <1>3, <1>4, <1>5

LEMMA CollectKeeps ==
  ASSUME IInv, NEW c \in Calls, Collect(c)
  PROVE  IInv'
<1> USE ToolCallsAssumption DEF IInv
<1>1. TypeOK'
  BY DEF Collect, TypeOK, Kinds, Runner, Timers, run, tasks,
     servers
<1>2. Consent'
  BY DEF Collect, TypeOK, Consent, Guarded, Runner, run, tasks,
     servers
<1>3. AskedOnce'
  BY DEF Collect, AskedOnce, Consent, TypeOK, run, tasks,
     servers
<1>4. CancelKnown'
  BY DEF Collect, CancelKnown, TypeOK, run, tasks, servers
<1>5. LogShape'
  BY DEF Collect, LogShape, InCall, Stage, TypeOK, run, tasks,
     servers
<1> QED  BY <1>1, <1>2, <1>3, <1>4, <1>5

LEMMA ExpireKeeps ==
  ASSUME IInv, NEW by \in Timers, Expire(by)
  PROVE  IInv'
<1> USE ToolCallsAssumption DEF IInv
<1>1. TypeOK'
  <2>1. runner' \in [Calls -> Runner]
    <3>1. runner \in [Calls -> Runner] /\ "none" \in RunnerPc
      BY DEF TypeOK, RunnerPc
    <3>2. [runner EXCEPT ![This].cancel = TRUE] \in [Calls -> Runner]
      BY <3>1, RunnerMoves
    <3> QED  BY <3>1, <3>2 DEF Expire, Interrupt
  <2> QED  BY <2>1 DEF Expire, Interrupt, Timers, TypeOK, run, tasks, servers
<1>2. Consent'
  <2>1. \A x \in Calls : runner'[x].pc = runner[x].pc /\ runner'[x].tool = runner[x].tool
    BY Cancelling DEF Expire, Interrupt
  <2> QED  BY <2>1 DEF Expire, Consent, Guarded, run, tasks, servers
<1>3. AskedOnce'
  BY DEF Expire, Interrupt, Timers, AskedOnce, Consent,
     TypeOK, run, tasks, servers
<1>4. CancelKnown'
  BY DEF Expire, Interrupt, Timers, CancelKnown, TypeOK,
     run, tasks, servers
<1>5. LogShape'
  BY DEF Expire, Interrupt, Timers, LogShape, InCall, Stage,
     TypeOK, run, tasks, servers
<1> QED  BY <1>1, <1>2, <1>3, <1>4, <1>5

LEMMA CancelThinkingKeeps ==
  ASSUME IInv, CancelThinking
  PROVE  IInv'
<1> USE ToolCallsAssumption DEF IInv
<1>1. TypeOK'
  BY DEF CancelThinking, TypeOK, Kinds, Runner, Timers, run,
     tasks, servers
<1>2. Consent'
  BY DEF CancelThinking, TypeOK, Consent, Guarded, Runner, run,
     tasks, servers
<1>3. AskedOnce'
  BY DEF CancelThinking, AskedOnce, Consent, TypeOK, run,
     tasks, servers
<1>4. CancelKnown'
  BY DEF CancelThinking, CancelKnown, TypeOK, run, tasks,
     servers
<1>5. LogShape'
  <2>1. Stage = "between" /\ ~ InCall' /\ Stage' \in {"between", "ended"} /\ log' = log
    BY DEF CancelThinking, Stage, InCall
  <2> QED  BY <2>1, EndLog DEF LogShape
<1> QED  BY <1>1, <1>2, <1>3, <1>4, <1>5

LEMMA CancelCallKeeps ==
  ASSUME IInv, CancelCall
  PROVE  IInv'
<1> USE ToolCallsAssumption DEF IInv
<1>1. TypeOK'
  <2>1. runner' \in [Calls -> Runner]
    <3>1. runner \in [Calls -> Runner] /\ "none" \in RunnerPc
      BY DEF TypeOK, RunnerPc
    <3>2. [runner EXCEPT ![This].cancel = TRUE] \in [Calls -> Runner]
      BY <3>1, RunnerMoves
    <3> QED  BY <3>1, <3>2 DEF CancelCall, Interrupt
  <2> QED  BY <2>1 DEF CancelCall, Interrupt, Timers, TypeOK, run, tasks, servers
<1>2. Consent'
  <2>1. \A x \in Calls : runner'[x].pc = runner[x].pc /\ runner'[x].tool = runner[x].tool
    BY Cancelling DEF CancelCall, Interrupt
  <2> QED  BY <2>1 DEF CancelCall, Consent, Guarded, run, tasks, servers
<1>3. AskedOnce'
  BY DEF CancelCall, Interrupt, AskedOnce, Consent, TypeOK,
     run, tasks, servers
<1>4. CancelKnown'
  BY DEF CancelCall, Interrupt, CancelKnown, TypeOK, run,
     tasks, servers
<1>5. LogShape'
  BY DEF CancelCall, Interrupt, LogShape, InCall, Stage,
     TypeOK, run, tasks, servers
<1> QED  BY <1>1, <1>2, <1>3, <1>4, <1>5

LEMMA UnwoundKeeps ==
  ASSUME IInv, Unwound
  PROVE  IInv'
<1> USE ToolCallsAssumption DEF IInv
<1>1. TypeOK'
  BY DEF Unwound, TypeOK, Kinds, Runner, Timers, run, tasks,
     servers
<1>2. Consent'
  BY DEF Unwound, TypeOK, Consent, Guarded, Runner, run, tasks,
     servers
<1>3. AskedOnce'
  BY DEF Unwound, AskedOnce, Consent, TypeOK, run, tasks,
     servers
<1>4. CancelKnown'
  BY DEF Unwound, CancelKnown, TypeOK, run, tasks, servers
<1>5. LogShape'
  BY DEF Unwound, LogShape, InCall, Stage, TypeOK, run, tasks,
     servers
<1> QED  BY <1>1, <1>2, <1>3, <1>4, <1>5

LEMMA LeaveKeeps ==
  ASSUME IInv, Leave
  PROVE  IInv'
<1> USE ToolCallsAssumption DEF IInv
<1>1. TypeOK'
  <2>1. log' \in Seq(Entry) /\ fired' = {} /\ pc' \in {"over", "think"}
    BY ReturnLog DEF Leave, Cause, InCall
  <2> QED  BY <2>1 DEF Leave, TypeOK, Entry, run, tasks, servers
<1>2. Consent'
  BY DEF Leave, Return, Cause, TypeOK, Consent, Guarded,
     Runner, run, tasks, servers
<1>3. AskedOnce'
  BY DEF Leave, Return, Cause, AskedOnce, Consent, TypeOK,
     run, tasks, servers
<1>4. CancelKnown'
  BY DEF Leave, Return, Cause, CancelKnown, TypeOK, run,
     tasks, servers
<1>5. LogShape'
  BY ReturnLog DEF Leave, Cause, InCall
<1> QED  BY <1>1, <1>2, <1>3, <1>4, <1>5

LEMMA SendRequestKeeps ==
  ASSUME IInv, NEW c \in Calls, SendRequest(c)
  PROVE  IInv'
<1> USE ToolCallsAssumption DEF IInv
<1>1. TypeOK'
  <2>1. runner' \in [Calls -> Runner]
    BY RunnerMoves DEF SendRequest, TypeOK, RunnerPc
  <2>2. runner[c].tool \in Tools
    BY DEF SendRequest, Consent
  <2> QED  BY <2>1, <2>2 DEF SendRequest, TypeOK, run, tasks, servers
<1>2. Consent'
  BY DEF SendRequest, TypeOK, Consent, Guarded, Runner, run,
     tasks, servers
<1>3. AskedOnce'
  BY DEF SendRequest, AskedOnce, Consent, TypeOK, run, tasks,
     servers
<1>4. CancelKnown'
  BY DEF SendRequest, CancelKnown, TypeOK, run, tasks,
     servers
<1>5. LogShape'
  BY DEF SendRequest, LogShape, InCall, Stage, TypeOK, run,
     tasks, servers
<1> QED  BY <1>1, <1>2, <1>3, <1>4, <1>5

LEMMA ExecuteKeeps ==
  ASSUME IInv, NEW t \in Tools, Execute(t)
  PROVE  IInv'
<1> USE ToolCallsAssumption DEF IInv
<1>1. TypeOK'
  BY DEF Execute, TypeOK, Kinds, Runner, Timers, run, tasks,
     servers
<1>2. Consent'
  BY DEF Execute, TypeOK, Consent, Guarded, Runner, run, tasks,
     servers
<1>3. AskedOnce'
  BY DEF Execute, AskedOnce, Consent, TypeOK, run, tasks,
     servers
<1>4. CancelKnown'
  BY DEF Execute, CancelKnown, TypeOK, run, tasks, servers
<1>5. LogShape'
  BY DEF Execute, LogShape, InCall, Stage, TypeOK, run, tasks,
     servers
<1> QED  BY <1>1, <1>2, <1>3, <1>4, <1>5

LEMMA MessageKeeps ==
  ASSUME IInv, NEW c \in Calls, Message(c)
  PROVE  IInv'
<1> USE ToolCallsAssumption DEF IInv
<1>1. TypeOK'
  <2>1. queue' \in [Calls -> Seq(Events)]
    <3>1. <<"message">> \in Seq(Events)
      BY DEF Events
    <3> QED  BY <3>1, PutTypes DEF Message
  <2> QED  BY <2>1 DEF Message, TypeOK, Events, run, tasks, servers
<1>2. Consent'
  BY DEF Message, Put, TypeOK, Consent, Guarded, Runner, run,
     tasks, servers
<1>3. AskedOnce'
  BY DEF Message, Put, AskedOnce, Consent, TypeOK, run,
     tasks, servers
<1>4. CancelKnown'
  BY DEF Message, Put, CancelKnown, TypeOK, run, tasks,
     servers
<1>5. LogShape'
  BY DEF Message, Put, LogShape, InCall, Stage, TypeOK, run,
     tasks, servers
<1> QED  BY <1>1, <1>2, <1>3, <1>4, <1>5

LEMMA AnswerKeeps ==
  ASSUME IInv, NEW c \in Calls, Answer(c)
  PROVE  IInv'
<1> USE ToolCallsAssumption DEF IInv
<1>1. TypeOK'
  <2>1. queue' \in [Calls -> Seq(Events)]
    <3>1. <<"result">> \in Seq(Events)
      BY DEF Events
    <3> QED  BY <3>1, PutTypes DEF Answer
  <2>2. runner' \in [Calls -> Runner]
    BY RunnerMoves DEF Answer, TypeOK, RunnerPc
  <2> QED  BY <2>1, <2>2 DEF Answer, TypeOK, Events, run, tasks, servers
<1>2. Consent'
  BY DEF Answer, Put, TypeOK, Consent, Guarded, Runner, run,
     tasks, servers
<1>3. AskedOnce'
  BY DEF Answer, Put, AskedOnce, Consent, TypeOK, run, tasks,
     servers
<1>4. CancelKnown'
  BY DEF Answer, Put, CancelKnown, TypeOK, run, tasks,
     servers
<1>5. LogShape'
  BY DEF Answer, Put, LogShape, InCall, Stage, TypeOK, run,
     tasks, servers
<1> QED  BY <1>1, <1>2, <1>3, <1>4, <1>5

LEMMA CloseKeeps ==
  ASSUME IInv, NEW c \in Calls, Close(c)
  PROVE  IInv'
<1> USE ToolCallsAssumption DEF IInv
<1>1. TypeOK'
  <2>1. queue' \in [Calls -> Seq(Events)]
    <3>1. <<"end">> \in Seq(Events)
      BY DEF Events
    <3> QED  BY <3>1, PutTypes DEF Close
  <2>2. runner' \in [Calls -> Runner]
    BY RunnerMoves DEF Close, TypeOK, RunnerPc
  <2> QED  BY <2>1, <2>2 DEF Close, TypeOK, Events, run, tasks, servers
<1>2. Consent'
  BY DEF Close, Put, TypeOK, Consent, Guarded, Runner, run,
     tasks, servers
<1>3. AskedOnce'
  BY DEF Close, Put, AskedOnce, Consent, TypeOK, run, tasks,
     servers
<1>4. CancelKnown'
  BY DEF Close, Put, CancelKnown, TypeOK, run, tasks,
     servers
<1>5. LogShape'
  BY DEF Close, Put, LogShape, InCall, Stage, TypeOK, run,
     tasks, servers
<1> QED  BY <1>1, <1>2, <1>3, <1>4, <1>5

LEMMA FailKeeps ==
  ASSUME IInv, NEW c \in Calls, Fail(c)
  PROVE  IInv'
<1> USE ToolCallsAssumption DEF IInv
<1>1. TypeOK'
  <2>1. queue' \in [Calls -> Seq(Events)]
    <3>1. <<"error", "end">> \in Seq(Events)
      BY DEF Events
    <3> QED  BY <3>1, PutTypes DEF Fail
  <2>2. runner' \in [Calls -> Runner]
    BY RunnerMoves DEF Fail, TypeOK, RunnerPc
  <2> QED  BY <2>1, <2>2 DEF Fail, TypeOK, Events, run, tasks, servers
<1>2. Consent'
  BY DEF Fail, Put, TypeOK, Consent, Guarded, Runner, run,
     tasks, servers
<1>3. AskedOnce'
  BY DEF Fail, Put, AskedOnce, Consent, TypeOK, run, tasks,
     servers
<1>4. CancelKnown'
  BY DEF Fail, Put, CancelKnown, TypeOK, run, tasks,
     servers
<1>5. LogShape'
  BY DEF Fail, Put, LogShape, InCall, Stage, TypeOK, run,
     tasks, servers
<1> QED  BY <1>1, <1>2, <1>3, <1>4, <1>5

LEMMA CancelledKeeps ==
  ASSUME IInv, NEW c \in Calls, Cancelled(c)
  PROVE  IInv'
<1> USE ToolCallsAssumption DEF IInv
<1>1. TypeOK'
  <2>1. queue' \in [Calls -> Seq(Events)]
    <3>1. <<"end">> \in Seq(Events)
      BY DEF Events
    <3> QED  BY <3>1, PutTypes DEF Cancelled
  <2>2. runner' \in [Calls -> Runner]
    BY RunnerMoves DEF Cancelled, TypeOK, RunnerPc
  <2> QED  BY <2>1, <2>2 DEF Cancelled, TypeOK, Events, run, tasks, servers
<1>2. Consent'
  BY DEF Cancelled, Put, TypeOK, Consent, Guarded, Runner, run,
     tasks, servers
<1>3. AskedOnce'
  BY DEF Cancelled, Put, AskedOnce, Consent, TypeOK, run,
     tasks, servers
<1>4. CancelKnown'
  BY DEF Cancelled, Put, CancelKnown, TypeOK, run, tasks,
     servers
<1>5. LogShape'
  BY DEF Cancelled, Put, LogShape, InCall, Stage, TypeOK, run,
     tasks, servers
<1> QED  BY <1>1, <1>2, <1>3, <1>4, <1>5

LEMMA ApproveKeeps ==
  ASSUME IInv, NEW ts \in (SUBSET Tools) \ {{}}, Approve(ts)
  PROVE  IInv'
<1> USE ToolCallsAssumption DEF IInv
<1>1. TypeOK'
  BY DEF Approve, Merged, NoRunner, TypeOK, Kinds, Runner,
     Timers, run, tasks, servers
<1>2. Consent'
  BY DEF Approve, Merged, NoRunner, TypeOK, Consent, Guarded,
     Runner, run, tasks, servers
<1>3. AskedOnce'
  BY DEF Approve, Merged, NoRunner, AskedOnce, Consent,
     TypeOK, run, tasks, servers
<1>4. CancelKnown'
  BY DEF Approve, Merged, NoRunner, CancelKnown, TypeOK,
     run, tasks, servers
<1>5. LogShape'
  <2>1. log' = <<>> /\ ~ InCall'
    BY DEF Approve, InCall
  <2> QED  BY <2>1 DEF LogShape, Pairs
<1> QED  BY <1>1, <1>2, <1>3, <1>4, <1>5

LEMMA SettleKeeps ==
  ASSUME IInv, Settle
  PROVE  IInv'
<1> USE ToolCallsAssumption DEF IInv
<1>1. TypeOK'
  BY DEF Settle, TypeOK, Kinds, Runner, Timers, run, tasks,
     servers
<1>2. Consent'
  BY DEF Settle, TypeOK, Consent, Guarded, Runner, run, tasks,
     servers
<1>3. AskedOnce'
  BY DEF Settle, AskedOnce, Consent, TypeOK, run, tasks,
     servers
<1>4. CancelKnown'
  BY DEF Settle, CancelKnown, TypeOK, run, tasks, servers
<1>5. LogShape'
  BY DEF Settle, LogShape, InCall, Stage, TypeOK, run, tasks,
     servers
<1> QED  BY <1>1, <1>2, <1>3, <1>4, <1>5

(***************************************************************************)
(* The invariant holds from the start, and every step keeps it.            *)
(***************************************************************************)
LEMMA InitIInv == Init => IInv
<1> SUFFICES ASSUME Init  PROVE IInv
  OBVIOUS
<1> USE ToolCallsAssumption DEF Init
<1>1. TypeOK
  <2>1. NoRunner \in Runner
    BY DEF NoRunner, Runner
  <2>2. runner \in [Calls -> Runner]
    BY <2>1
  <2>3. \A S : <<>> \in Seq(S)
    OBVIOUS
  <2>4. /\ queue \in [Calls -> Seq({"message", "result", "error", "end"})]
        /\ log \in Seq([kind : Kinds, tool : Tools])
    BY <2>3
  <2> QED  BY <2>2, <2>4 DEF TypeOK
<1>2. Consent
  BY DEF Consent, NoRunner
<1>3. AskedOnce /\ CancelKnown
  BY DEF AskedOnce, CancelKnown
<1>4. LogShape
  BY DEF LogShape, Pairs, InCall
<1> QED  BY <1>1, <1>2, <1>3, <1>4 DEF IInv

LEMMA NextIInv == IInv /\ [Next]_vars => IInv'
<1> SUFFICES ASSUME IInv, [Next]_vars  PROVE IInv'
  OBVIOUS
<1>1. CASE \/ Build \/ Finish \/ ReadEvent \/ ReadBad \/ Unwound \/ Leave
           \/ CancelThinking \/ CancelCall \/ Settle
  BY <1>1, BuildKeeps, FinishKeeps, ReadEventKeeps, ReadBadKeeps, UnwoundKeeps,
     LeaveKeeps, CancelThinkingKeeps, CancelCallKeeps, SettleKeeps
<1>2. ASSUME NEW t \in Tools, Agent(t) \/ Execute(t)  PROVE IInv'
  BY <1>2, RefuseKeeps, RequireKeeps, CallUnknownKeeps, CallKeeps, ExecuteKeeps DEF Agent
<1>3. ASSUME NEW c \in Calls, Client(c) \/ Cancelled(c) \/ Collect(c)  PROVE IInv'
  BY <1>3, SendRequestKeeps, MessageKeeps, AnswerKeeps, CloseKeeps, FailKeeps,
     CancelledKeeps, CollectKeeps DEF Client
<1>4. ASSUME NEW by \in Timers, Expire(by)  PROVE IInv'
  BY <1>4, ExpireKeeps
<1>5. ASSUME NEW ts \in (SUBSET Tools) \ {{}}, Approve(ts)  PROVE IInv'
  BY <1>5, ApproveKeeps
<1>6. CASE UNCHANGED vars
  BY <1>6 DEF vars, run, tasks, servers, IInv, TypeOK, Consent, Guarded, AskedOnce,
     CancelKnown, LogShape, Stage, InCall
<1> QED  BY <1>1, <1>2, <1>3, <1>4, <1>5, <1>6 DEF Next, Over

THEOREM ToolCallsInvariant == Spec => []IInv
BY InitIInv, NextIInv, PTL DEF Spec

(***************************************************************************)
(* What follows from it.                                                   *)
(***************************************************************************)
\* The variables keep their shapes, and an approval request is pending exactly
\* while the run waits for a user.
THEOREM TypeCorrect == Spec => []TypeOK
BY ToolCallsInvariant, PTL DEF IInv

\* For any tools, configurations and policies, and whatever timers and
\* cancellations do, a risky tool that a server executes has been approved.
THEOREM ConsentFirst == Spec => []EffectsGranted
<1>1. IInv => EffectsGranted
  BY DEF IInv, Consent, Guarded, EffectsGranted
<1> QED  BY <1>1, ToolCallsInvariant, PTL

\* No approval request names a tool that was approved before.
THEOREM NothingAskedTwice == Spec => []AskedOnce
BY ToolCallsInvariant, PTL DEF IInv

\* Every call that is announced has one result, and the result is next to it,
\* however many interruptions race.
THEOREM CallsArePaired == Spec => []Paired
<1>1. IInv => Paired
  <2> SUFFICES ASSUME IInv  PROVE Paired
    OBVIOUS
  <2>1. DOMAIN log = 1 .. Len(log)
    BY DEF IInv, TypeOK
  <2>2. Stage = "open" => InCall
    BY DEF Stage
  <2>3. Stage = "ended" => pc \in {"asking", "over"}
    BY DEF Stage
  <2> QED  BY <2>1, <2>2, <2>3 DEF IInv, LogShape, Pairs, Paired
<1> QED  BY <1>1, ToolCallsInvariant, PTL

\* A cancellation that meets timers is never lost: the run ends.
THEOREM CancellationWins == Spec => []CancelWins
<1>1. IInv => CancelWins
  BY DEF IInv, CancelKnown, CancelWins
<1> QED  BY <1>1, ToolCallsInvariant, PTL

(***************************************************************************)
(* Requests are sent while the run waits.  Calls are counted by their      *)
(* events, so that the runner of the last call is the one at that index.   *)
(***************************************************************************)
\* A runner that still sets up its session, and has not been told to end, is that
\* of the call the run waits for; later calls have no runner yet; and nothing is
\* in the queue of a runner before it has sent its request.
Senders ==
    /\ \A c \in Calls : runner[c].pc = "connect" /\ ~ runner[c].cancel => c = This /\ pc = "wait"
    /\ \A c \in Calls : c > This => runner[c].pc = "none"
    /\ \A c \in Calls : queue[c] # <<>> => runner[c].pc \notin {"none", "connect"}

CallsIn(l) == {i \in DOMAIN l : l[i].kind = "call"}

LEMMA CountFinite ==
  ASSUME NEW l \in Seq(Entry)
  PROVE  IsFiniteSet(CallsIn(l)) /\ Cardinality(CallsIn(l)) \in Nat
<1>1. Len(l) \in Nat /\ DOMAIN l = 1 .. Len(l)
  OBVIOUS
<1>2. IsFiniteSet(1 .. Len(l))
  BY <1>1, FS_Interval
<1>3. CallsIn(l) \in SUBSET (1 .. Len(l))
  BY <1>1 DEF CallsIn
<1> QED  BY <1>2, <1>3, FS_Subset, FS_CardinalityType

LEMMA CountAppend ==
  ASSUME NEW l \in Seq(Entry), NEW e \in Entry
  PROVE  Cardinality(CallsIn(Append(l, e)))
            = IF e.kind = "call" THEN Cardinality(CallsIn(l)) + 1 ELSE Cardinality(CallsIn(l))
<1> DEFINE m == Append(l, e)
<1>1. /\ m \in Seq(Entry) /\ Len(l) \in Nat /\ DOMAIN l = 1 .. Len(l)
      /\ DOMAIN m = 1 .. Len(l) + 1 /\ m[Len(l) + 1] = e
      /\ \A i \in 1 .. Len(l) : m[i] = l[i]
  OBVIOUS
<1> HIDE DEF m
<1>2. CASE e.kind = "call"
  <2>1. CallsIn(m) = CallsIn(l) \cup {Len(l) + 1}
    BY <1>1, <1>2 DEF CallsIn
  <2>2. Len(l) + 1 \notin CallsIn(l)
    BY <1>1 DEF CallsIn
  <2> QED  BY <1>2, <2>1, <2>2, CountFinite, FS_AddElement DEF m
<1>3. CASE e.kind # "call"
  <2>1. CallsIn(m) = CallsIn(l)
    BY <1>1, <1>3 DEF CallsIn
  <2> QED  BY <1>3, <2>1 DEF m
<1> QED  BY <1>2, <1>3

LEMMA InitSenders == Init => Senders
BY DEF Init, Senders, NoRunner

LEMMA NextSenders == IInv /\ Senders /\ [Next]_vars => Senders'
<1> SUFFICES ASSUME IInv, Senders, [Next]_vars  PROVE Senders'
  OBVIOUS
<1>1. /\ log \in Seq(Entry) /\ runner \in [Calls -> Runner] /\ Calls \subseteq Nat
      /\ queue \in [Calls -> Seq(Events)] /\ This = Cardinality(CallsIn(log)) /\ This \in Nat
      /\ This' = Cardinality(CallsIn(log'))
  <2>1. /\ log \in Seq(Entry) /\ runner \in [Calls -> Runner]
        /\ queue \in [Calls -> Seq(Events)]
    BY DEF IInv, TypeOK, Entry, Events
  <2>2. This = Cardinality(CallsIn(log)) /\ This' = Cardinality(CallsIn(log'))
    BY DEF This, Count, CallsIn
  <2>3. Calls \subseteq Nat
    BY ToolCallsAssumption DEF Calls
  <2> QED  BY <2>1, <2>2, <2>3, CountFinite
<1>2. ASSUME UNCHANGED <<log, tasks>>, pc' = pc \/ pc # "wait"  PROVE Senders'
  BY <1>1, <1>2 DEF Senders, tasks
\* The run makes a call, or one that fails at once.
<1>3. ASSUME NEW t \in Tools, Agent(t)  PROVE Senders'
  <2>1. pc = "think" /\ UNCHANGED queue
    BY <1>3 DEF Agent, Refuse, Require, CallUnknown, Call, Names, tasks
  <2>2. \A k \in Kinds : Event(k, t) \in Entry /\ Event(k, t).kind = k
    BY DEF Event, Entry
  <2>3. {"call", "failed", "done"} \subseteq Kinds
    BY DEF Kinds
  <2>4. CASE ~ Call(t)
    <3>1. UNCHANGED runner
      BY <1>3, <2>4 DEF Agent, Refuse, Require, CallUnknown, tasks
    <3>2. This' \in Nat /\ This' >= This
      <4>1. CASE Require(t)
        BY <1>1, <2>2, <2>3, <4>1, CountAppend DEF Require
      <4>2. ASSUME NEW k \in {"failed", "done"},
                   log' = log \o <<Event("call", t), Event(k, t)>>
            PROVE  This' \in Nat /\ This' >= This
        <5>1. log' = Append(Append(log, Event("call", t)), Event(k, t))
          BY <1>1, <4>2, TwoEvents
        <5>2. Append(log, Event("call", t)) \in Seq(Entry)
          BY <1>1, <2>2, <2>3
        <5>3. Cardinality(CallsIn(Append(log, Event("call", t)))) = This + 1
          BY <1>1, <2>2, <2>3, CountAppend
        <5>4. Event(k, t) \in Entry /\ Event(k, t).kind # "call"
          BY <4>2, <2>2, <2>3
        <5>5. This' = This + 1
          BY <1>1, <5>1, <5>2, <5>3, <5>4, CountAppend
        <5> QED  BY <1>1, <5>5
      <4> QED  BY <1>3, <2>4, <4>1, <4>2 DEF Agent, Refuse, CallUnknown
    <3> QED  BY <1>1, <2>1, <3>1, <3>2 DEF Senders
  <2>5. CASE Call(t)
    <3>1. This' = This + 1
      BY <1>1, <2>2, <2>3, <2>5, CountAppend DEF Call
    <3>2. /\ pc' = "wait"
          /\ runner' = [runner EXCEPT ![This + 1] =
                [pc |-> "connect", tool |-> t, cancel |-> FALSE, read |-> TRUE]]
      BY <2>5 DEF Call
    <3>3. \A c \in Calls : c # This' => runner'[c] = runner[c]
      BY <1>1, <3>1, <3>2
    <3>4. \A c \in Calls : c = This' => runner'[c].pc = "connect"
      BY <1>1, <3>1, <3>2
    <3>5. \A c \in Calls : c = This' => queue'[c] = <<>>
      <4>1. \A c \in Calls : c = This' => c > This
        BY <1>1, <3>1
      <4> QED  BY <2>1, <4>1 DEF Senders
    <3> QED  BY <1>1, <2>1, <3>1, <3>2, <3>3, <3>4, <3>5 DEF Senders
  <2> QED  BY <2>4, <2>5
\* A result ends the call.
<1>4. ASSUME NEW kind \in Kinds \ {"call"}, Return(kind), InCall  PROVE This' = This
  <2>1. log[Len(log)] \in Entry
    BY <1>1, <1>4 DEF IInv, LogShape
  <2>2. /\ Event(kind, log[Len(log)].tool) \in Entry
        /\ Event(kind, log[Len(log)].tool).kind # "call"
    BY <1>4, <2>1 DEF Event, Entry
  <2> QED  BY <1>1, <1>4, <2>2, CountAppend DEF Return
<1>5. {"done", "failed", "cancelled"} \subseteq Kinds \ {"call"}
  BY DEF Kinds
\* While there is something to read, no runner connects.
<1>6. ASSUME pc = "wait", queue[This] # <<>>
      PROVE  \A c \in Calls : ~ (runner[c].pc = "connect" /\ ~ runner[c].cancel)
  BY <1>6 DEF Senders
<1>7. CASE ReadEvent
  <2>1. This' = This /\ runner' = runner
    BY <1>4, <1>5, <1>7, <1>1 DEF ReadEvent, InCall
  <2>2. \A c \in Calls : queue'[c] # <<>> => queue[c] # <<>>
    BY <1>1, <1>7 DEF ReadEvent
  <2> QED  BY <1>1, <1>6, <1>7, <2>1, <2>2 DEF ReadEvent, Senders
<1>8. CASE ReadBad
  <2>1. This' = This
    BY <1>4, <1>5, <1>8 DEF ReadBad, InCall
  <2>2. \A c \in Calls : runner'[c].pc = runner[c].pc /\ runner'[c].cancel = runner[c].cancel
    BY <1>1, <1>8 DEF ReadBad, Runner
  <2>3. \A c \in Calls : queue'[c] # <<>> => queue[c] # <<>>
    BY <1>1, <1>8 DEF ReadBad
  <2> QED  BY <1>1, <1>6, <1>8, <2>1, <2>2, <2>3 DEF ReadBad, Senders
\* An interruption tells the runner of the call to end.
<1>9. ASSUME NEW by, Interrupt(by), pc \in {"wait", "unwind"}, UNCHANGED <<log, queue>>
      PROVE  Senders'
  <2>1. This' = This
    BY <1>1, <1>9
  <2>2. \A c \in Calls : runner'[c].pc = runner[c].pc
    BY <1>1, <1>9 DEF Interrupt, Runner
  <2>3. \A c \in Calls : runner'[c].cancel = runner[c].cancel \/ runner'[c].cancel
    BY <1>1, <1>9 DEF Interrupt, Runner
  <2>4. \A c \in Calls : runner[c].pc = "connect" => runner'[c].cancel
    <3> SUFFICES ASSUME NEW c \in Calls, runner[c].pc = "connect", ~ runner[c].cancel
                 PROVE  runner'[c].cancel
      BY <1>1, <2>3 DEF Runner
    <3>1. c = This /\ pc = "wait"
      BY DEF Senders
    <3>2. runner' = [runner EXCEPT ![c].cancel = TRUE]
      BY <1>9, <3>1 DEF Interrupt
    <3> QED  BY <1>1, <3>2 DEF Runner
  <2> QED  BY <1>1, <1>9, <2>1, <2>2, <2>4 DEF Senders
<1>10. CASE Unwound \/ Build \/ Finish \/ CancelThinking \/ Settle \/ UNCHANGED vars
  BY <1>2, <1>10 DEF Unwound, Build, Finish, CancelThinking, Settle, vars, run, tasks
<1>11. CASE Leave
  <2>1. This' = This
    BY <1>4, <1>5, <1>11 DEF Leave, Cause, InCall
  <2> QED  BY <1>1, <1>11, <2>1 DEF Leave, Senders, tasks
<1>12. CASE CancelCall
  BY <1>9, <1>12 DEF CancelCall
<1>13. ASSUME NEW by \in Timers, Expire(by)  PROVE Senders'
  BY <1>9, <1>13 DEF Expire
\* Runners.
<1>14. ASSUME NEW c \in Calls, NEW p \in RunnerPc \ {"none", "connect"},
              runner[c].pc \notin {"none"}, runner' = [runner EXCEPT ![c].pc = p],
              UNCHANGED run, \A d \in Calls : d # c => queue'[d] = queue[d]
       PROVE  Senders'
  <2>1. /\ runner'[c].pc = p /\ \A d \in Calls : d # c => runner'[d] = runner[d]
        /\ This' = This /\ pc' = pc
    BY <1>1, <1>14 DEF Runner, run
  <2> QED  BY <1>1, <1>14, <2>1 DEF Senders
<1>15. ASSUME NEW c \in Calls, SendRequest(c)  PROVE Senders'
  BY <1>14, <1>15 DEF SendRequest, RunnerPc
<1>16. ASSUME NEW c \in Calls, Answer(c) \/ Close(c) \/ Fail(c) \/ Cancelled(c)  PROVE Senders'
  <2>1. ASSUME NEW es, Put(c, es)  PROVE \A d \in Calls : d # c => queue'[d] = queue[d]
    BY <1>1, <2>1 DEF Put
  <2>2. \E p \in {"closing", "done"} : runner' = [runner EXCEPT ![c].pc = p]
    BY <1>16 DEF Answer, Close, Fail, Cancelled
  <2>3. runner[c].pc # "none" /\ UNCHANGED run /\ \A d \in Calls : d # c => queue'[d] = queue[d]
    BY <1>16, <2>1 DEF Answer, Close, Fail, Cancelled
  <2> QED  BY <1>14, <2>2, <2>3 DEF RunnerPc
<1>17. ASSUME NEW c \in Calls, Message(c)  PROVE Senders'
  <2>1. \A d \in Calls : d # c => queue'[d] = queue[d]
    BY <1>1, <1>17 DEF Message, Put
  <2>2. runner' = runner /\ pc' = pc /\ This' = This /\ runner[c].pc = "sent"
    BY <1>1, <1>17 DEF Message, run
  <2> QED  BY <1>1, <2>1, <2>2 DEF Senders
<1>18. ASSUME NEW c \in Calls, Collect(c)  PROVE Senders'
  <2>1. /\ \A d \in Calls : /\ runner'[d].pc = runner[d].pc
                            /\ ~ runner'[d].cancel => ~ runner[d].cancel
        /\ pc' = pc /\ This' = This /\ queue' = queue
    BY <1>1, <1>18 DEF Collect, run, Runner
  <2> QED  BY <1>1, <2>1 DEF Senders
<1>19. ASSUME NEW t \in Tools, Execute(t)  PROVE Senders'
  BY <1>2, <1>19 DEF Execute, run, tasks
<1>20. ASSUME NEW ts \in (SUBSET Tools) \ {{}}, Approve(ts)  PROVE Senders'
  BY <1>20 DEF Approve, Senders, NoRunner
<1> QED
  BY <1>3, <1>7, <1>8, <1>10, <1>11, <1>12, <1>13, <1>15, <1>16, <1>17, <1>18, <1>19, <1>20
  DEF Next, Client, Over

\* A request is sent to a server only while the run waits for the answer: an
\* interrupted call, even one that is still connecting, sends nothing any more
\* (mcp_clients, call_tool_stream).
THEOREM RequestsAreWaitedFor == Spec => SentWhileWaiting
<1> DEFINE Sent == \A c \in Calls : runner[c].pc = "connect" /\ runner'[c].pc = "sent"
                                    => pc = "wait" /\ c = This
<1>1. IInv /\ Senders /\ [Next]_vars => [Sent]_vars
  <2> SUFFICES ASSUME IInv, Senders, [Next]_vars, NEW c \in Calls,
                      runner[c].pc = "connect", runner'[c].pc = "sent"
               PROVE  pc = "wait" /\ c = This
    OBVIOUS
  <2>1. runner \in [Calls -> Runner]
    BY DEF IInv, TypeOK
  <2>2. runner' # runner
    OBVIOUS
  <2>3. \A d \in Calls : Client(d) \/ Cancelled(d) => d = c /\ SendRequest(c)
    <3> SUFFICES ASSUME NEW d \in Calls, Client(d) \/ Cancelled(d)
                 PROVE  d = c /\ SendRequest(c)
      OBVIOUS
    <3>1. CASE SendRequest(d)
      BY <2>1, <3>1 DEF SendRequest
    <3>2. CASE Message(d)
      BY <2>2, <3>2 DEF Message
    <3>3. CASE Answer(d) \/ Close(d) \/ Fail(d) \/ Cancelled(d)
      <4>1. PICK p \in {"closing", "done"} : runner' = [runner EXCEPT ![d].pc = p]
        BY <3>3 DEF Answer, Close, Fail, Cancelled
      <4>2. runner'[c].pc \in {runner[c].pc, p}
        BY <2>1, <4>1 DEF Runner
      <4> QED  BY <4>2
    <3> QED  BY <3>1, <3>2, <3>3 DEF Client
  <2>4. \A d \in Calls : ~ Collect(d)
    BY <2>1 DEF Collect, Runner
  <2>5. \A by \in Timers : ~ Expire(by)
    BY <2>1 DEF Expire, Interrupt, Runner
  <2>6. ~ CancelCall /\ ~ ReadBad
    BY <2>1 DEF CancelCall, Interrupt, ReadBad, Runner
  <2>7. \A t \in Tools : ~ Agent(t) /\ ~ Execute(t)
    <3> SUFFICES ASSUME NEW t \in Tools, Call(t)  PROVE FALSE
      BY <2>2 DEF Agent, Refuse, Require, CallUnknown, Execute, tasks
    <3>1. runner'[c] = runner[c] \/ runner'[c].pc = "connect"
      BY <2>1 DEF Call
    <3> QED  BY <3>1
  <2>8. \A ts \in (SUBSET Tools) \ {{}} : ~ Approve(ts)
    BY DEF Approve, NoRunner
  <2>9. ~ (\/ Build \/ Finish \/ ReadEvent \/ Unwound \/ Leave \/ CancelThinking \/ Settle
           \/ UNCHANGED vars)
    BY <2>2 DEF Build, Finish, ReadEvent, Unwound, Leave, CancelThinking, Settle, vars, tasks
  <2>10. SendRequest(c)
    BY <2>3, <2>4, <2>5, <2>6, <2>7, <2>8, <2>9 DEF Next, Over
  <2> QED  BY <2>10 DEF SendRequest, Senders
<1>2. Spec => []Senders
  BY InitSenders, NextSenders, ToolCallsInvariant, PTL DEF Spec
<1>3. Spec => [][Sent]_vars
  BY <1>1, <1>2, ToolCallsInvariant, PTL DEF Spec
<1> QED  BY <1>3 DEF SentWhileWaiting
=============================================================================

-------------------------- MODULE SessionRunsProofs --------------------------
(***************************************************************************)
(* SessionRuns: its types, what the session shows of its runs, how often   *)
(* an approval is answered with a rerun, one execution at a time,          *)
(* archiving.                                                              *)
(***************************************************************************)
EXTENDS SessionRuns, FiniteSetTheorems, TLAPS

\* Kinds of segments: that are about a run, that are going to start a new one,
\* that belong to the run's own worker.
Reruns == {"rerun", "rerun_event", "rerun_parent", "rerun_session"}
Starting == {"message", "retry", "rerun", "rerun_event", "rerun_parent",
             "rerun_session"}
Resolving == Reruns \cup {"resolve", "resolve_task", "resolve_session"}
Answering == {"answer", "answered"}
Cancelling == {"cancel", "cancelled"}
Beginning == {"begin", "create", "start"}
Own == Beginning \cup {"ending"}
HasRun == Resolving \cup Answering \cup Cancelling \cup Own \cup {"retry"}

\* A segment names the run it is about and the one it starts, if it has them.
SegShape ==
    \A p \in Procs :
        /\ seg[p].kind = "idle" => seg[p] = Idle
        /\ seg[p].kind \in HasRun => seg[p].run \in Runs
        /\ seg[p].kind = "message" => seg[p].run = None
        /\ IF seg[p].kind \in Starting THEN seg[p].new \in Runs ELSE seg[p].new = None

\* A worker has a process.
WorkerShape == \A r \in Runs : wpc[r] # "none" => wproc[r] \in Procs

TypeInv == TypeOK /\ SegShape

\* One process at a time is in the middle of something.
OneSegment ==
    "race" \notin Hazards =>
        \A p, q \in Procs : seg[p].kind # "idle" /\ seg[q].kind # "idle" => p = q

\* An archived session has no current run, and code that is going to write the
\* session for another reason than a run's own found it not archived.
ArchiveInv ==
    "race" \notin Hazards =>
        /\ sstat = "archived" => scur = None
        /\ \A p \in Procs :
              /\ seg[p].kind \in Starting \cup Answering \cup Resolving => sstat # "archived"
              /\ seg[p].kind \in Cancelling => seg[p].cur \in {scur, None}

\* No process dies.
Alive == "crash" \notin Hazards

\* The run has written that it asks, and not yet told the session.
Asking(r) == \E p \in Procs :
    seg[p].kind = "ending" /\ seg[p].run = r /\ seg[p].was = "waiting_approval"

\* A worker is at the place its segment says, in the process of the segment.
OwnSegments ==
    \A p \in Procs : seg[p].kind \in Own =>
        /\ wproc[seg[p].run] = p
        /\ seg[p].kind \in Beginning => wpc[seg[p].run] = "scheduled"
        /\ seg[p].kind = "start" => Exists(seg[p].run)
        /\ seg[p].kind = "ending" =>
              /\ wpc[seg[p].run] \in Executing
              /\ tstat[seg[p].run] \in {seg[p].was} \cup Final
              /\ seg[p].was \in Final \cup Waiting
              /\ approval[seg[p].run] = "none" <=> seg[p].was # "waiting_approval"

\* A run that executes has its row.
ExecutingExists == \A r \in Runs : wpc[r] \in Executing => Exists(r)

\* A run that is going to be started is nobody else's.
NewIsNew ==
    \A p \in Procs : seg[p].kind \in Starting =>
        /\ ~ Active(seg[p].new) /\ approval[seg[p].new] = "none"
        /\ scur # seg[p].new /\ seg[p].run # seg[p].new
        /\ \A q \in Procs \ {p} :
              /\ seg[q].new # seg[p].new
              /\ seg[q].run = seg[p].new => seg[q].kind \in Cancelling \cup {"retry"}

\* A run that is being answered has no worker and has not asked for an approval.
AnsweredOnce ==
    /\ \A p \in Procs : seg[p].kind \in Answering =>
          ~ Active(seg[p].run) /\ approval[seg[p].run] = "none"
    /\ \A p, q \in Procs :
          seg[p].kind \in Answering /\ seg[q].kind \in Answering => p = q
    /\ sstat = "waiting_input" /\ scur # None =>
          /\ ~ Active(scur) /\ approval[scur] = "none"
          /\ \/ tstat[scur] \in Final \cup {"waiting_input"}
             \/ \E p \in Procs : seg[p].kind = "answered" /\ seg[p].run = scur

\* A run asks for one approval, and then ends.
AskedAndEnded ==
    \A r \in Runs : approval[r] # "none" =>
        /\ tstat[r] \in Final \cup {"waiting_approval"}
        /\ Active(r) => Asking(r)

\* Code that resolves a request found one.
ResolvingShape ==
    \A p \in Procs :
        seg[p].kind \in Resolving => approval[seg[p].run] # "none"

\* A rerun is counted once, by a process that found the approval unresolved and
\* has not yet written that it is.
Wanting(r) == {p \in Procs : seg[p].kind = "rerun" /\ seg[p].run = r}
Counting(r) == {p \in Procs : seg[p].kind = "rerun_event" /\ seg[p].run = r}

RerunsCounted ==
    \A r \in Runs :
        /\ approval[r] # "resolved" => reruns[r] <= Cardinality(Counting(r))
        /\ reruns[r] + Cardinality(Wanting(r)) <= Cardinality(Procs)
        /\ "race" \notin Hazards => reruns[r] + Cardinality(Wanting(r)) <= 1

ApprovalInv ==
    Alive => /\ WorkerShape /\ OwnSegments /\ ExecutingExists
             /\ NewIsNew /\ AnsweredOnce /\ AskedAndEnded /\ ResolvingShape /\ RerunsCounted

\* What a session that is busy or waits shows is so.
Good ==
    /\ sstat = "running" =>
          /\ scur # None /\ Active(scur)
          /\ wpc[scur] = "scheduled" => ~ wcancel[scur] /\ tstat[scur] \notin Final
    /\ sstat \in Waiting =>
          /\ scur # None /\ ~ Active(scur) /\ tstat[scur] = sstat
          /\ sstat = "waiting_approval" => approval[scur] = "requested"

\* Code that has changed the run the session shows, and not yet the session.
Ahead(p) ==
    \/ seg[p].kind \in {"answered", "archived", "rerun_parent", "rerun_session"}
    \/ /\ seg[p].kind \in {"cancelled", "resolve_task", "resolve_session"}
       /\ seg[p].cur = seg[p].run

\* What a segment read or wrote is so as long as it is in the middle of its code.
Knows(p) ==
    /\ seg[p].kind \in {"message", "rerun"} => tstat[seg[p].new] = "none"
    /\ seg[p].kind \in Starting \ {"message", "rerun"} => tstat[seg[p].new] = "queued"
    /\ seg[p].kind = "answer" => sstat = "waiting_input" /\ scur = seg[p].run
    /\ seg[p].kind = "answered" => tstat[seg[p].run] \notin Final
    /\ seg[p].kind \in Cancelling /\ seg[p].cur = None =>
          scur = None \/ wpc[seg[p].run] \in Executing
    /\ seg[p].kind = "resolve" => seg[p].was = tstat[seg[p].run]
    /\ seg[p].kind \in {"resolve", "resolve_task", "resolve_session"} => seg[p].cur = scur
    /\ seg[p].kind \in Beginning => ~ wcancel[seg[p].run] /\ tstat[seg[p].run] \notin Final
    /\ seg[p].kind \in {"create", "start"} => sstat = "running" /\ scur = seg[p].run
    /\ seg[p].kind = "ending" =>
          /\ tstat[seg[p].run] = seg[p].was
          /\ seg[p].was = "waiting_approval" => approval[seg[p].run] = "requested"

\* The session shows what is so, unless code is about to bring it up to date.
Shown ==
    /\ \A p \in Procs : Knows(p)
    /\ (\A p \in Procs : ~ Ahead(p)) => Good

ShownInv == Overlapping => Shown

\* One run is worked on.
OneActive == \A r, n \in Runs : Active(r) /\ Active(n) => r = n

\* A run that is worked on is the session's, until it is told to stop or ends.
Tracked(r) ==
    /\ Active(r) => wcancel[r] \/ (sstat = "running" /\ scur = r)
    /\ wcancel[r] => tstat[r] \in Final
    /\ Active(r) /\ tstat[r] \in Final =>
          wcancel[r] \/ \E p \in Procs : seg[p].kind = "ending" /\ seg[p].run = r
    /\ tstat[r] \in {"queued", "running"} =>
          Active(r) \/ \E p \in Procs : r \in {seg[p].run, seg[p].new}

\* Code that starts a run, answers one or archives found none working, and what
\* it read of its task is still so.
Apart(p) ==
    /\ seg[p].kind \in Starting \cup Answering \cup {"archive", "archived"} => Quiet
    /\ seg[p].kind = "retry" => tstat[seg[p].run] \notin {"queued", "running"}
    /\ seg[p].kind = "archive" /\ seg[p].run # None => seg[p].was = tstat[seg[p].run]
    /\ seg[p].kind = "archived" /\ seg[p].run # None =>
          tstat[seg[p].run] \in Final \cup {"none"}
    /\ seg[p].kind = "cancel" =>
          /\ Exists(seg[p].run)
          /\ Active(seg[p].run) => wproc[seg[p].run] = p
    /\ seg[p].kind = "cancelled" =>
          /\ tstat[seg[p].run] \in Final
          /\ Active(seg[p].run) => wcancel[seg[p].run]

SequentialInv ==
    Sequential => /\ OneActive
                  /\ \A r \in Runs : Tracked(r)
                  /\ \A p \in Procs : Apart(p)

-----------------------------------------------------------------------------
(***************************************************************************)
(* Types.                                                                  *)
(***************************************************************************)
\* Every step keeps the types and the shape of the segments.
LEMMA TypeStep ==
  ASSUME TypeInv, [Next]_vars
  PROVE  TypeInv'
<1>1. ASSUME NEW p \in Procs, NEW n \in Runs, Message(p, n)  PROVE TypeInv'
  BY <1>1, SessionAssumption DEF Message, TypeInv, Enter, Seg, rowVars,
       workerVars, TypeOK, SegShape, Idle, SegKinds, TaskStatus, Waiting,
       Starting, Reruns, Resolving, Answering, Cancelling, Beginning, Own,
       HasRun
<1>2. ASSUME NEW p \in Procs, NEW n \in Runs, StartDirect(p, n)
      PROVE  TypeInv'
  BY <1>2, SessionAssumption DEF StartDirect, TypeInv, StartWorker, rowVars,
       TypeOK, SegShape, Idle, Seg, SegKinds, Waiting
<1>3. ASSUME NEW p \in Procs, Answer(p)  PROVE TypeInv'
  BY <1>3, SessionAssumption DEF Answer, TypeInv, Enter, Seg, rowVars,
       workerVars, TypeOK, SegShape, Idle, SegKinds, Waiting, Starting,
       Resolving, Answering, Cancelling, Beginning, Own, HasRun
<1>4. ASSUME NEW p \in Procs, Archive(p)  PROVE TypeInv'
  BY <1>4, SessionAssumption DEF Archive, TypeInv, Enter, Seg, rowVars,
       workerVars, TypeOK, SegShape, Idle, SegKinds, TaskStatus, Waiting,
       Starting, Reruns, Resolving, Answering, Cancelling, Beginning, Own,
       HasRun
<1>5. ASSUME NEW p \in Procs, Unarchive(p)  PROVE TypeInv'
  BY <1>5, SessionAssumption DEF Unarchive, TypeInv, UpdateSession,
       workerVars, TypeOK, SegShape, Idle, Seg, SegKinds, SessionStatus,
       Waiting
<1>6. ASSUME NEW p \in Procs, NEW r \in Runs, Cancel(p, r)  PROVE TypeInv'
  BY <1>6, SessionAssumption DEF Cancel, TypeInv, Enter, Seg, rowVars,
       workerVars, TypeOK, SegShape, Idle, SegKinds, TaskStatus, Waiting,
       Starting, Resolving, Answering, Cancelling, Beginning, Own, HasRun
<1>7. ASSUME NEW p \in Procs, NEW r \in Runs, NEW k \in {"resolve", "rerun"},
             Resolve(p, r, k)
      PROVE  TypeInv'
  <2>1. CASE k = "resolve" /\ Enter(p, Seg(k, r, None, scur, tstat[r]))
    BY <1>7, <2>1 DEF Resolve, Enter, TypeInv, Seg, rowVars, workerVars,
         TypeOK, SegShape, Idle, SegKinds, Waiting, Starting, Resolving,
         Answering, Cancelling, Beginning, Own, HasRun
  <2>2. ASSUME NEW n \in Runs, k = "rerun", Enter(p, Seg(k, r, n, scur, tstat[r]))
        PROVE  TypeInv'
    BY <1>7, <2>2 DEF Resolve, Enter, TypeInv, Seg, rowVars, workerVars,
         TypeOK, SegShape, Idle, SegKinds, Waiting, Starting, Resolving,
         Answering, Cancelling, Beginning, Own, HasRun
  <2> QED  BY <1>7, <2>1, <2>2 DEF Resolve
<1>8. ASSUME NEW p \in Procs, NEW r \in Runs, NEW n \in Runs, Retry(p, r, n)
      PROVE  TypeInv'
  BY <1>8, SessionAssumption DEF Retry, TypeInv, NewRow, Enter, Seg,
       workerVars, TypeOK, SegShape, Idle, SegKinds, TaskStatus, Waiting,
       Starting, Resolving, Answering, Cancelling, Beginning, Own, HasRun
<1>9. ASSUME NEW p \in Procs, MessageSession(p)  PROVE TypeInv'
  BY <1>9, SessionAssumption DEF MessageSession, TypeInv, UpdateSession,
       StartWorker, Enter, Idle, Seg, TypeOK, SegShape, SegKinds,
       SessionStatus, TaskStatus, Waiting, Starting, Reruns, Resolving,
       Answering, Cancelling, Beginning, Own, HasRun
<1>10. ASSUME NEW p \in Procs, AnswerTask(p)  PROVE TypeInv'
  <2>1. tstat' \in [Runs -> TaskStatus]
    BY <1>10 DEF AnswerTask, TypeInv, TaskStatus, UpdateStatus, TypeOK
  <2>2. SegShape' /\ seg' \in [Procs -> [kind : SegKinds, run : Runs \cup {None},
                         new : Runs \cup {None}, cur : Runs \cup {None},
                         was : TaskStatus]]
    BY <1>10 DEF AnswerTask, TypeInv, SegShape, SegKinds, TaskStatus, Enter,
         TypeOK, Idle, Seg, SessionStatus, Final, Waiting, Executing,
         Starting, Reruns, Resolving, Answering, Cancelling, Beginning, Own,
         HasRun
  <2> QED  BY <1>10, <2>1, <2>2 DEF AnswerTask, TypeInv, Enter, workerVars,
       TypeOK
<1>11. ASSUME NEW p \in Procs, AnswerSession(p)  PROVE TypeInv'
  BY <1>11, SessionAssumption DEF AnswerSession, TypeInv, UpdateSession,
       StartWorker, Enter, Idle, Seg, TypeOK, SegShape, SegKinds,
       SessionStatus, TaskStatus, Waiting, Starting, Reruns, Resolving,
       Answering, Cancelling, Beginning, Own, HasRun
<1>12. ASSUME NEW p \in Procs, ArchiveTask(p)  PROVE TypeInv'
  <2>1. wcancel' \in [Runs -> BOOLEAN]
    BY <1>12 DEF ArchiveTask, TypeInv, CancelWorker, TypeOK
  <2>2. tstat' \in [Runs -> TaskStatus]
    BY <1>12 DEF ArchiveTask, TypeInv, TaskStatus, UpdateStatus, TypeOK, Final
  <2>3. SegShape' /\ seg' \in [Procs -> [kind : SegKinds, run : Runs \cup {None},
                         new : Runs \cup {None}, cur : Runs \cup {None},
                         was : TaskStatus]]
    BY <1>12 DEF ArchiveTask, TypeInv, SegShape, SegKinds, TaskStatus, Enter,
         TypeOK, Idle, Seg, Waiting, Starting, Reruns, Resolving, Answering,
         Cancelling, Beginning, Own, HasRun
  <2> QED  BY <1>12, <2>1, <2>2, <2>3 DEF ArchiveTask, TypeInv, Enter, TypeOK
<1>13. ASSUME NEW p \in Procs, ArchiveSession(p)  PROVE TypeInv'
  BY <1>13, SessionAssumption DEF ArchiveSession, TypeInv, UpdateSession,
       Enter, Idle, Seg, workerVars, TypeOK, SegShape, SegKinds,
       SessionStatus, TaskStatus, Waiting, Starting, Reruns, Resolving,
       Answering, Cancelling, Beginning, Own, HasRun
<1>14. ASSUME NEW p \in Procs, CancelTask(p)  PROVE TypeInv'
  <2>1. wcancel' \in [Runs -> BOOLEAN]
    BY <1>14 DEF CancelTask, TypeInv, CancelWorker, TypeOK
  <2>2. tstat' \in [Runs -> TaskStatus]
    BY <1>14 DEF CancelTask, TypeInv, TaskStatus, UpdateStatus, TypeOK, Final
  <2>3. SegShape' /\ seg' \in [Procs -> [kind : SegKinds, run : Runs \cup {None},
                         new : Runs \cup {None}, cur : Runs \cup {None},
                         was : TaskStatus]]
    BY <1>14 DEF CancelTask, TypeInv, SegShape, SegKinds, TaskStatus, Enter,
         TypeOK, Idle, Seg, Waiting, Starting, Resolving, Answering,
         Cancelling, Beginning, Own, HasRun
  <2> QED  BY <1>14, <2>1, <2>2, <2>3 DEF CancelTask, TypeInv, Enter, TypeOK
<1>15. ASSUME NEW p \in Procs, CancelSession(p)  PROVE TypeInv'
  BY <1>15, SessionAssumption DEF CancelSession, TypeInv, UpdateSession,
       Enter, Idle, Seg, workerVars, TypeOK, SegShape, SegKinds,
       SessionStatus, TaskStatus, Waiting, Starting, Reruns, Resolving,
       Answering, Cancelling, Beginning, Own, HasRun
<1>16. ASSUME NEW p \in Procs, RetrySession(p)  PROVE TypeInv'
  BY <1>16, SessionAssumption DEF RetrySession, TypeInv, StartWorker,
       UpdateSession, Enter, Idle, Seg, TypeOK, SegShape, SegKinds,
       SessionStatus, TaskStatus, Waiting, Starting, Reruns, Resolving,
       Answering, Cancelling, Beginning, Own, HasRun
<1>17. ASSUME NEW p \in Procs, RerunCreate(p)  PROVE TypeInv'
  <2>1. reruns' \in [Runs -> Nat]
    <3>1. reruns \in [Runs -> Nat] /\ reruns' = [reruns EXCEPT ![seg[p].run] = @ + 1]
      BY <1>17 DEF RerunCreate, TypeInv, TypeOK
    <3>2. seg[p].run \in Runs
      BY <1>17 DEF RerunCreate, TypeInv, SegShape, HasRun, Resolving, Reruns
    <3> QED  BY <3>1, <3>2
  <2>2. tstat' \in [Runs -> TaskStatus]
    BY <1>17 DEF RerunCreate, TypeInv, TaskStatus, NewRow, TypeOK
  <2>3. seg' \in [Procs -> [kind : SegKinds, run : Runs \cup {None},
                         new : Runs \cup {None}, cur : Runs \cup {None},
                         was : TaskStatus]]
    <3>1. p \in Procs /\ seg' = [seg EXCEPT ![p] = [seg[p] EXCEPT !.kind = "rerun_event"]]
      BY <1>17 DEF RerunCreate, Enter
    <3> QED  BY <3>1 DEF TypeInv, SegKinds, TypeOK
  <2>4. SegShape'
    BY <1>17 DEF RerunCreate, TypeInv, SegShape, Enter, TypeOK, Starting,
         Reruns, Resolving, Answering, Cancelling, Beginning, Own, HasRun
  <2> QED  BY <1>17, <2>1, <2>2, <2>3, <2>4 DEF RerunCreate, TypeInv, Enter,
       workerVars, TypeOK
<1>18. ASSUME NEW p \in Procs, RerunEvent(p)  PROVE TypeInv'
  BY <1>18, SessionAssumption DEF RerunEvent, TypeInv, Enter, workerVars,
       TypeOK, SegShape, Idle, Seg, SegKinds, SessionStatus, Waiting,
       Starting, Reruns, Resolving, Answering, Cancelling, Beginning, Own,
       HasRun
<1>19. ASSUME NEW p \in Procs, RerunParent(p)  PROVE TypeInv'
  BY <1>19, SessionAssumption DEF RerunParent, TypeInv, UpdateStatus, Enter,
       workerVars, TypeOK, SegShape, Idle, Seg, SegKinds, TaskStatus, Final,
       Waiting, Executing, Starting, Reruns, Resolving, Answering, Cancelling,
       Beginning, Own, HasRun
<1>20. ASSUME NEW p \in Procs, RerunSession(p)  PROVE TypeInv'
  BY <1>20, SessionAssumption DEF RerunSession, TypeInv, UpdateSession,
       StartWorker, Enter, Idle, Seg, TypeOK, SegShape, SegKinds,
       SessionStatus, TaskStatus, Waiting, Starting, Reruns, Resolving,
       Answering, Cancelling, Beginning, Own, HasRun
<1>21. ASSUME NEW p \in Procs, ResolveEvent(p)  PROVE TypeInv'
  BY <1>21, SessionAssumption DEF ResolveEvent, TypeInv, Enter, Idle, Seg,
       workerVars, TypeOK, SegShape, SegKinds, SessionStatus, TaskStatus,
       Waiting, Starting, Reruns, Resolving, Answering, Cancelling, Beginning,
       Own, HasRun
<1>22. ASSUME NEW p \in Procs, NEW s \in Final, ResolveTask(p, s)
      PROVE  TypeInv'
  <2>1. tstat' \in [Runs -> TaskStatus]
    BY <1>22 DEF ResolveTask, TypeInv, TaskStatus, Final, UpdateStatus, TypeOK
  <2>2. SegShape' /\ seg' \in [Procs -> [kind : SegKinds, run : Runs \cup {None},
                         new : Runs \cup {None}, cur : Runs \cup {None},
                         was : TaskStatus]]
    BY <1>22 DEF ResolveTask, TypeInv, SegShape, SegKinds, TaskStatus, Final,
         Enter, TypeOK, Idle, Seg, Waiting, Executing, Starting, Resolving,
         Answering, Cancelling, Beginning, Own, HasRun
  <2> QED  BY <1>22, <2>1, <2>2 DEF ResolveTask, TypeInv, Enter, workerVars,
       TypeOK
<1>23. ASSUME NEW p \in Procs, ResolveSession(p)  PROVE TypeInv'
  BY <1>23, SessionAssumption DEF ResolveSession, TypeInv, UpdateSession,
       Enter, Idle, Seg, workerVars, TypeOK, SegShape, SegKinds,
       SessionStatus, TaskStatus, Waiting, Starting, Reruns, Resolving,
       Answering, Cancelling, Beginning, Own, HasRun
<1>24. ASSUME NEW p \in Procs, BeginSession(p)  PROVE TypeInv'
  BY <1>24, SessionAssumption DEF BeginSession, TypeInv, UpdateSession, Enter,
       workerVars, TypeOK, SegShape, Idle, Seg, SegKinds, SessionStatus,
       Waiting, Starting, Reruns, Resolving, Answering, Cancelling, Beginning,
       Own, HasRun
<1>25. ASSUME NEW p \in Procs, BeginTask(p)  PROVE TypeInv'
  <2>1. tstat' \in [Runs -> TaskStatus]
    BY <1>25 DEF BeginTask, TypeInv, TaskStatus, NewRow, TypeOK
  <2>2. SegShape' /\ seg' \in [Procs -> [kind : SegKinds, run : Runs \cup {None},
                         new : Runs \cup {None}, cur : Runs \cup {None},
                         was : TaskStatus]]
    BY <1>25 DEF BeginTask, TypeInv, SegShape, SegKinds, TaskStatus, Enter,
         TypeOK, Idle, Seg, Waiting, Starting, Resolving, Answering,
         Cancelling, Beginning, Own, HasRun
  <2> QED  BY <1>25, <2>1, <2>2 DEF BeginTask, TypeInv, Enter, workerVars,
       TypeOK
<1>26. ASSUME NEW p \in Procs, StartTask(p)  PROVE TypeInv'
  BY <1>26, SessionAssumption DEF StartTask, TypeInv, EndWorker, UpdateStatus,
       Enter, Idle, Seg, TypeOK, SegShape, SegKinds, SessionStatus,
       TaskStatus, Final, Waiting, Executing, Starting, Reruns, Resolving,
       Answering, Cancelling, Beginning, Own, HasRun
<1>27. ASSUME NEW p \in Procs, EndSession(p)  PROVE TypeInv'
  BY <1>27, SessionAssumption DEF EndSession, TypeInv, UpdateSession,
       EndWorker, Enter, Idle, Seg, TypeOK, SegShape, SegKinds, SessionStatus,
       TaskStatus, Waiting, Starting, Reruns, Resolving, Answering,
       Cancelling, Beginning, Own, HasRun
<1>28. ASSUME NEW p \in Procs, Crash(p)  PROVE TypeInv'
  BY <1>28, SessionAssumption DEF Crash, TypeInv, Enter, Idle, Seg, rowVars,
       TypeOK, SegShape, SegKinds, TaskStatus, Waiting, Starting, Reruns,
       Resolving, Answering, Cancelling, Beginning, Own, HasRun
<1>29. ASSUME NEW r \in Runs, LeaveUnstarted(r)  PROVE TypeInv'
  BY <1>29, SessionAssumption DEF LeaveUnstarted, TypeInv, EndWorker, rowVars,
       TypeOK, SegShape, Idle, Seg, SegKinds, Waiting
<1>30. ASSUME NEW r \in Runs, Begin(r)  PROVE TypeInv'
  BY <1>30, SessionAssumption DEF Begin, TypeInv, OnLoop, Turn, Active, Enter,
       Seg, rowVars, workerVars, TypeOK, SegShape, Idle, SegKinds,
       SessionStatus, TaskStatus, Final, Waiting, Executing, Starting, Reruns,
       Resolving, Answering, Cancelling, Beginning, Own, HasRun
<1>31. ASSUME NEW r \in Runs, NEW s \in Final \cup Waiting, Outcome(r, s)
      PROVE  TypeInv'
  BY <1>31, SessionAssumption DEF Outcome, TypeInv, Final, Waiting, OnLoop,
       Turn, Active, UpdateStatus, Enter, Seg, workerVars, TypeOK, SegShape,
       Idle, SegKinds, SessionStatus, TaskStatus, Executing, Starting, Reruns,
       Resolving, Answering, Cancelling, Beginning, Own, HasRun
<1>32. ASSUME NEW r \in Runs, AskInput(r)  PROVE TypeInv'
  BY <1>32, SessionAssumption DEF AskInput, TypeInv, UpdateStatus, TypeOK,
       SegShape, Idle, Seg, SegKinds, TaskStatus, Waiting, Executing
<1>33. ASSUME NEW r \in Runs, GiveUp(r)  PROVE TypeInv'
  BY <1>33, SessionAssumption DEF GiveUp, TypeInv, UpdateStatus, workerVars,
       TypeOK, SegShape, Idle, Seg, SegKinds, TaskStatus, Final, Waiting
<1>34. ASSUME NEW r \in Runs, NEW n \in Runs, HandOff(r, n)  PROVE TypeInv'
  BY <1>34, SessionAssumption DEF HandOff, TypeInv, NewRow, StartWorker,
       TypeOK, SegShape, Idle, Seg, SegKinds, TaskStatus, Waiting
<1>35. ASSUME NEW p \in Procs, NEW r \in Runs, Recover(p, r)  PROVE TypeInv'
  BY <1>35, SessionAssumption DEF Recover, TypeInv, UpdateStatus, StartWorker,
       TypeOK, SegShape, Idle, Seg, SegKinds, TaskStatus, Waiting
<1>36. CASE UNCHANGED vars
  BY <1>36, SessionAssumption DEF vars, rowVars, workerVars, TypeInv, TypeOK,
       SegShape, Idle, Seg, SegKinds, Waiting
<1> QED
  BY <1>1, <1>2, <1>3, <1>4, <1>5, <1>6, <1>7, <1>8, <1>9, <1>10, <1>11,
       <1>12, <1>13, <1>14, <1>15, <1>16, <1>17, <1>18, <1>19, <1>20, <1>21,
       <1>22, <1>23, <1>24, <1>25, <1>26, <1>27, <1>28, <1>29, <1>30, <1>31,
       <1>32, <1>33, <1>34, <1>35, <1>36 DEF Next, Requests, Segments, Works

-----------------------------------------------------------------------------
(***************************************************************************)
(* Turns, and archived sessions.                                           *)
(***************************************************************************)
\* Without a race, processes take turns.
LEMMA OneSegmentStep ==
  ASSUME TypeInv, OneSegment, [Next]_vars
  PROVE  OneSegment'
<1>1. ASSUME NEW p \in Procs, NEW n \in Runs, Message(p, n)  PROVE OneSegment'
  BY <1>1 DEF Message, OneSegment, Serves, Turn, Enter, Seg, rowVars, Hazards,
       Idle, TypeInv, TypeOK
<1>2. ASSUME NEW p \in Procs, NEW n \in Runs, StartDirect(p, n)
      PROVE  OneSegment'
  BY <1>2 DEF StartDirect, OneSegment, rowVars, Hazards, Idle, Seg, TypeInv,
       TypeOK
<1>3. ASSUME NEW p \in Procs, Answer(p)  PROVE OneSegment'
  BY <1>3 DEF Answer, OneSegment, Serves, Turn, Enter, Seg, rowVars, Hazards,
       Idle, TypeInv, TypeOK
<1>4. ASSUME NEW p \in Procs, Archive(p)  PROVE OneSegment'
  BY <1>4 DEF Archive, OneSegment, Serves, Turn, Enter, Seg, rowVars, Hazards,
       Idle, TypeInv, TypeOK
<1>5. ASSUME NEW p \in Procs, Unarchive(p)  PROVE OneSegment'
  BY <1>5 DEF Unarchive, OneSegment, Hazards, Idle, Seg, TypeInv, TypeOK
<1>6. ASSUME NEW p \in Procs, NEW r \in Runs, Cancel(p, r)  PROVE OneSegment'
  BY <1>6 DEF Cancel, OneSegment, Serves, Turn, Enter, Seg, rowVars, Hazards,
       Idle, TypeInv, TypeOK
<1>7. ASSUME NEW p \in Procs, NEW r \in Runs, NEW k \in {"resolve", "rerun"},
             Resolve(p, r, k)
      PROVE  OneSegment'
  <2>1. CASE k = "resolve" /\ Enter(p, Seg(k, r, None, scur, tstat[r]))
    BY <1>7, <2>1 DEF Resolve, Enter, Seg, OneSegment, Serves, Turn, rowVars,
         Hazards, Idle, TypeInv, TypeOK
  <2>2. ASSUME NEW n \in Runs, k = "rerun", RerunAllowed(r), Fresh(n),
               "unchecked" \in Hazards \/ Quiet,
               Enter(p, Seg(k, r, n, scur, tstat[r]))
        PROVE  OneSegment'
    BY <1>7, <2>2 DEF Resolve, RerunAllowed, Quiet, Fresh, Enter, Seg,
         OneSegment, Hazards, Serves, Turn, rowVars, Idle, TypeInv, TypeOK
  <2> QED  BY <1>7, <2>1, <2>2 DEF Resolve
<1>8. ASSUME NEW p \in Procs, NEW r \in Runs, NEW n \in Runs, Retry(p, r, n)
      PROVE  OneSegment'
  BY <1>8 DEF Retry, OneSegment, Serves, Turn, Enter, Seg, Hazards, Idle,
       TypeInv, TypeOK
<1>9. ASSUME NEW p \in Procs, MessageSession(p)  PROVE OneSegment'
  BY <1>9 DEF MessageSession, OneSegment, Enter, Idle, Seg, Hazards, TypeInv,
       TypeOK
<1>10. ASSUME NEW p \in Procs, AnswerTask(p)  PROVE OneSegment'
  BY <1>10 DEF AnswerTask, OneSegment, Enter, Hazards, TypeInv, TypeOK
<1>11. ASSUME NEW p \in Procs, AnswerSession(p)  PROVE OneSegment'
  BY <1>11 DEF AnswerSession, OneSegment, Enter, Idle, Seg, Hazards, TypeInv,
       TypeOK
<1>12. ASSUME NEW p \in Procs, ArchiveTask(p)  PROVE OneSegment'
  BY <1>12 DEF ArchiveTask, OneSegment, Enter, Hazards, TypeInv, TypeOK
<1>13. ASSUME NEW p \in Procs, ArchiveSession(p)  PROVE OneSegment'
  BY <1>13 DEF ArchiveSession, OneSegment, Enter, Idle, Seg, Hazards, TypeInv,
       TypeOK
<1>14. ASSUME NEW p \in Procs, CancelTask(p)  PROVE OneSegment'
  BY <1>14 DEF CancelTask, OneSegment, Enter, Hazards, TypeInv, TypeOK
<1>15. ASSUME NEW p \in Procs, CancelSession(p)  PROVE OneSegment'
  BY <1>15 DEF CancelSession, OneSegment, Enter, Idle, Seg, Hazards, TypeInv,
       TypeOK
<1>16. ASSUME NEW p \in Procs, RetrySession(p)  PROVE OneSegment'
  BY <1>16 DEF RetrySession, OneSegment, Enter, Idle, Seg, Hazards, TypeInv,
       TypeOK
<1>17. ASSUME NEW p \in Procs, RerunCreate(p)  PROVE OneSegment'
  BY <1>17 DEF RerunCreate, OneSegment, Enter, Hazards, TypeInv, TypeOK
<1>18. ASSUME NEW p \in Procs, RerunEvent(p)  PROVE OneSegment'
  BY <1>18 DEF RerunEvent, OneSegment, Enter, Hazards, TypeInv, TypeOK
<1>19. ASSUME NEW p \in Procs, RerunParent(p)  PROVE OneSegment'
  BY <1>19 DEF RerunParent, OneSegment, Enter, Hazards, TypeInv, TypeOK
<1>20. ASSUME NEW p \in Procs, RerunSession(p)  PROVE OneSegment'
  BY <1>20 DEF RerunSession, OneSegment, Enter, Idle, Seg, Hazards, TypeInv,
       TypeOK
<1>21. ASSUME NEW p \in Procs, ResolveEvent(p)  PROVE OneSegment'
  BY <1>21 DEF ResolveEvent, OneSegment, Enter, Idle, Seg, Hazards, TypeInv,
       TypeOK
<1>22. ASSUME NEW p \in Procs, NEW s \in Final, ResolveTask(p, s)
      PROVE  OneSegment'
  BY <1>22 DEF ResolveTask, OneSegment, Enter, Hazards, TypeInv, TypeOK
<1>23. ASSUME NEW p \in Procs, ResolveSession(p)  PROVE OneSegment'
  BY <1>23 DEF ResolveSession, OneSegment, Enter, Idle, Seg, Hazards, TypeInv,
       TypeOK
<1>24. ASSUME NEW p \in Procs, BeginSession(p)  PROVE OneSegment'
  BY <1>24 DEF BeginSession, OneSegment, Enter, Hazards, TypeInv, TypeOK
<1>25. ASSUME NEW p \in Procs, BeginTask(p)  PROVE OneSegment'
  BY <1>25 DEF BeginTask, OneSegment, Enter, Hazards, TypeInv, TypeOK
<1>26. ASSUME NEW p \in Procs, StartTask(p)  PROVE OneSegment'
  BY <1>26 DEF StartTask, OneSegment, Enter, Idle, Seg, Hazards, TypeInv,
       TypeOK
<1>27. ASSUME NEW p \in Procs, EndSession(p)  PROVE OneSegment'
  BY <1>27 DEF EndSession, OneSegment, Enter, Idle, Seg, Hazards, TypeInv,
       TypeOK
<1>28. ASSUME NEW p \in Procs, Crash(p)  PROVE OneSegment'
  BY <1>28 DEF Crash, OneSegment, Enter, Idle, Seg, rowVars, Hazards, TypeInv,
       TypeOK
<1>29. ASSUME NEW r \in Runs, LeaveUnstarted(r)  PROVE OneSegment'
  BY <1>29 DEF LeaveUnstarted, OneSegment, rowVars, Hazards, Idle, Seg,
       TypeInv, TypeOK
<1>30. ASSUME NEW r \in Runs, Begin(r)  PROVE OneSegment'
  BY <1>30 DEF Begin, OneSegment, OnLoop, Turn, Enter, Seg, rowVars, Hazards,
       Idle, TypeInv, TypeOK
<1>31. ASSUME NEW r \in Runs, NEW s \in Final \cup Waiting, Outcome(r, s)
      PROVE  OneSegment'
  BY <1>31 DEF Outcome, OneSegment, OnLoop, Turn, Enter, Seg, Hazards, Idle,
       TypeInv, TypeOK
<1>32. ASSUME NEW r \in Runs, AskInput(r)  PROVE OneSegment'
  BY <1>32 DEF AskInput, OneSegment, Hazards, Idle, Seg, TypeInv, TypeOK
<1>33. ASSUME NEW r \in Runs, GiveUp(r)  PROVE OneSegment'
  BY <1>33 DEF GiveUp, OneSegment, Hazards, TypeInv, TypeOK
<1>34. ASSUME NEW r \in Runs, NEW n \in Runs, HandOff(r, n)  PROVE OneSegment'
  BY <1>34 DEF HandOff, OneSegment, Hazards, Idle, Seg, TypeInv, TypeOK
<1>35. ASSUME NEW p \in Procs, NEW r \in Runs, Recover(p, r)
      PROVE  OneSegment'
  BY <1>35 DEF Recover, OneSegment, Hazards, Idle, Seg, TypeInv, TypeOK
<1>36. CASE UNCHANGED vars
  BY <1>36 DEF vars, OneSegment, Hazards, TypeInv, TypeOK
<1> QED
  BY <1>1, <1>2, <1>3, <1>4, <1>5, <1>6, <1>7, <1>8, <1>9, <1>10, <1>11,
       <1>12, <1>13, <1>14, <1>15, <1>16, <1>17, <1>18, <1>19, <1>20, <1>21,
       <1>22, <1>23, <1>24, <1>25, <1>26, <1>27, <1>28, <1>29, <1>30, <1>31,
       <1>32, <1>33, <1>34, <1>35, <1>36 DEF Next, Requests, Segments, Works

\* Code that writes the session found it not archived.
LEMMA ArchiveStep ==
  ASSUME TypeInv, OneSegment, ArchiveInv, [Next]_vars
  PROVE  ArchiveInv'
<1>1. ASSUME NEW p \in Procs, NEW n \in Runs, Message(p, n)  PROVE ArchiveInv'
  BY <1>1 DEF Message, ArchiveInv, Enter, Seg, rowVars, OneSegment, TypeInv,
       TypeOK, SegShape, Idle, Hazards
<1>2. ASSUME NEW p \in Procs, NEW n \in Runs, StartDirect(p, n)
      PROVE  ArchiveInv'
  BY <1>2 DEF StartDirect, ArchiveInv, rowVars, OneSegment, TypeInv, TypeOK,
       SegShape, Seg, Idle, Hazards
<1>3. ASSUME NEW p \in Procs, Answer(p)  PROVE ArchiveInv'
  BY <1>3 DEF Answer, ArchiveInv, Enter, Seg, rowVars, OneSegment, TypeInv,
       TypeOK, SegShape, Idle, Hazards
<1>4. ASSUME NEW p \in Procs, Archive(p)  PROVE ArchiveInv'
  BY <1>4 DEF Archive, ArchiveInv, Enter, Seg, rowVars, OneSegment, TypeInv,
       TypeOK, SegShape, Idle, Hazards, Starting, Reruns, Resolving,
       Answering, Cancelling, Beginning, Own, HasRun
<1>5. ASSUME NEW p \in Procs, Unarchive(p)  PROVE ArchiveInv'
  BY <1>5 DEF Unarchive, ArchiveInv, UpdateSession, OneSegment, TypeInv,
       TypeOK, SegShape, Seg, Idle, Hazards
<1>6. ASSUME NEW p \in Procs, NEW r \in Runs, Cancel(p, r)  PROVE ArchiveInv'
  BY <1>6 DEF Cancel, ArchiveInv, Enter, Seg, rowVars, OneSegment, TypeInv,
       TypeOK, SegShape, Idle, Hazards, Starting, Reruns, Resolving,
       Answering, Cancelling, Beginning, Own, HasRun
<1>7. ASSUME NEW p \in Procs, NEW r \in Runs, NEW k \in {"resolve", "rerun"},
             Resolve(p, r, k)
      PROVE  ArchiveInv'
  <2>1. CASE k = "resolve" /\ Enter(p, Seg(k, r, None, scur, tstat[r]))
    BY <1>7, <2>1 DEF Resolve, Enter, Seg, ArchiveInv, rowVars, OneSegment,
         TypeInv, TypeOK, SegShape, Idle, Hazards
  <2>2. ASSUME NEW n \in Runs, k = "rerun", RerunAllowed(r), Fresh(n),
               "unchecked" \in Hazards \/ Quiet,
               Enter(p, Seg(k, r, n, scur, tstat[r]))
        PROVE  ArchiveInv'
    BY <1>7, <2>2 DEF Resolve, RerunAllowed, Quiet, Fresh, Enter, Seg,
         ArchiveInv, Hazards, rowVars, OneSegment, TypeInv, TypeOK, SegShape,
         Idle
  <2> QED  BY <1>7, <2>1, <2>2 DEF Resolve
<1>8. ASSUME NEW p \in Procs, NEW r \in Runs, NEW n \in Runs, Retry(p, r, n)
      PROVE  ArchiveInv'
  BY <1>8 DEF Retry, ArchiveInv, Enter, Seg, OneSegment, TypeInv, TypeOK,
       SegShape, Idle, Hazards
<1>9. ASSUME NEW p \in Procs, MessageSession(p)  PROVE ArchiveInv'
  BY <1>9 DEF MessageSession, ArchiveInv, UpdateSession, Enter, Idle, Seg,
       OneSegment, TypeInv, TypeOK, SegShape, Hazards
<1>10. ASSUME NEW p \in Procs, AnswerTask(p)  PROVE ArchiveInv'
  BY <1>10 DEF AnswerTask, ArchiveInv, Enter, OneSegment, TypeInv, TypeOK,
       SegShape, Seg, Idle, Hazards, Starting, Resolving, Answering,
       Cancelling, Beginning, Own, HasRun
<1>11. ASSUME NEW p \in Procs, AnswerSession(p)  PROVE ArchiveInv'
  BY <1>11 DEF AnswerSession, ArchiveInv, UpdateSession, Enter, Idle, Seg,
       OneSegment, TypeInv, TypeOK, SegShape, Hazards
<1>12. ASSUME NEW p \in Procs, ArchiveTask(p)  PROVE ArchiveInv'
  BY <1>12 DEF ArchiveTask, ArchiveInv, Enter, OneSegment, TypeInv, TypeOK,
       SegShape, Seg, Idle, Hazards, Starting, Reruns, Resolving, Answering,
       Cancelling, Beginning, Own, HasRun
<1>13. ASSUME NEW p \in Procs, ArchiveSession(p)  PROVE ArchiveInv'
  BY <1>13 DEF ArchiveSession, ArchiveInv, UpdateSession, Enter, Idle, Seg,
       OneSegment, TypeInv, TypeOK, SegShape, Hazards, Starting, Reruns,
       Resolving, Answering, Cancelling, Beginning, Own, HasRun
<1>14. ASSUME NEW p \in Procs, CancelTask(p)  PROVE ArchiveInv'
  BY <1>14 DEF CancelTask, ArchiveInv, Enter, OneSegment, TypeInv, TypeOK,
       SegShape, Seg, Idle, Hazards, Starting, Reruns, Resolving, Answering,
       Cancelling, Beginning, Own, HasRun
<1>15. ASSUME NEW p \in Procs, CancelSession(p)  PROVE ArchiveInv'
  BY <1>15 DEF CancelSession, ArchiveInv, UpdateSession, Enter, Idle, Seg,
       OneSegment, TypeInv, TypeOK, SegShape, Hazards, Starting, Reruns,
       Resolving, Answering, Cancelling, Beginning, Own, HasRun
<1>16. ASSUME NEW p \in Procs, RetrySession(p)  PROVE ArchiveInv'
  BY <1>16 DEF RetrySession, ArchiveInv, UpdateSession, Enter, Idle, Seg,
       OneSegment, TypeInv, TypeOK, SegShape, Hazards
<1>17. ASSUME NEW p \in Procs, RerunCreate(p)  PROVE ArchiveInv'
  BY <1>17 DEF RerunCreate, ArchiveInv, Enter, OneSegment, TypeInv, TypeOK,
       SegShape, Seg, Idle, Hazards, Starting, Resolving, Answering,
       Cancelling, Beginning, Own, HasRun
<1>18. ASSUME NEW p \in Procs, RerunEvent(p)  PROVE ArchiveInv'
  BY <1>18 DEF RerunEvent, ArchiveInv, Enter, OneSegment, TypeInv, TypeOK,
       SegShape, Seg, Idle, Hazards, Starting, Resolving, Answering,
       Cancelling, Beginning, Own, HasRun
<1>19. ASSUME NEW p \in Procs, RerunParent(p)  PROVE ArchiveInv'
  BY <1>19 DEF RerunParent, ArchiveInv, Enter, OneSegment, TypeInv, TypeOK,
       SegShape, Seg, Idle, Hazards, Starting, Resolving, Answering,
       Cancelling, Beginning, Own, HasRun
<1>20. ASSUME NEW p \in Procs, RerunSession(p)  PROVE ArchiveInv'
  BY <1>20 DEF RerunSession, ArchiveInv, UpdateSession, Enter, Idle, Seg,
       OneSegment, TypeInv, TypeOK, SegShape, Hazards
<1>21. ASSUME NEW p \in Procs, ResolveEvent(p)  PROVE ArchiveInv'
  BY <1>21 DEF ResolveEvent, ArchiveInv, Enter, Idle, Seg, OneSegment,
       TypeInv, TypeOK, SegShape, Hazards, Starting, Resolving, Answering,
       Cancelling, Beginning, Own, HasRun
<1>22. ASSUME NEW p \in Procs, NEW s \in Final, ResolveTask(p, s)
      PROVE  ArchiveInv'
  BY <1>22 DEF ResolveTask, ArchiveInv, Final, Enter, OneSegment, TypeInv,
       TypeOK, SegShape, Seg, Idle, Hazards, Starting, Resolving, Answering,
       Cancelling, Beginning, Own, HasRun
<1>23. ASSUME NEW p \in Procs, ResolveSession(p)  PROVE ArchiveInv'
  BY <1>23 DEF ResolveSession, ArchiveInv, UpdateSession, Enter, Idle, Seg,
       OneSegment, TypeInv, TypeOK, SegShape, Hazards, Starting, Resolving,
       Answering, Cancelling, Beginning, Own, HasRun
<1>24. ASSUME NEW p \in Procs, BeginSession(p)  PROVE ArchiveInv'
  BY <1>24 DEF BeginSession, ArchiveInv, UpdateSession, Enter, OneSegment,
       TypeInv, TypeOK, SegShape, Seg, Idle, Hazards, Starting, Resolving,
       Answering, Cancelling, Beginning, Own, HasRun
<1>25. ASSUME NEW p \in Procs, BeginTask(p)  PROVE ArchiveInv'
  BY <1>25 DEF BeginTask, ArchiveInv, Enter, OneSegment, TypeInv, TypeOK,
       SegShape, Seg, Idle, Hazards, Starting, Reruns, Resolving, Answering,
       Cancelling, Beginning, Own, HasRun
<1>26. ASSUME NEW p \in Procs, StartTask(p)  PROVE ArchiveInv'
  BY <1>26 DEF StartTask, ArchiveInv, Enter, Idle, Seg, OneSegment, TypeInv,
       TypeOK, SegShape, Hazards, Starting, Reruns, Resolving, Answering,
       Cancelling, Beginning, Own, HasRun
<1>27. ASSUME NEW p \in Procs, EndSession(p)  PROVE ArchiveInv'
  BY <1>27 DEF EndSession, ArchiveInv, UpdateSession, Enter, Idle, Seg,
       OneSegment, Waiting, TypeInv, TypeOK, SegShape, Hazards
<1>28. ASSUME NEW p \in Procs, Crash(p)  PROVE ArchiveInv'
  BY <1>28 DEF Crash, ArchiveInv, Enter, Idle, Seg, rowVars, OneSegment,
       TypeInv, TypeOK, SegShape, Hazards, Starting, Reruns, Resolving,
       Answering, Cancelling, Beginning, Own, HasRun
<1>29. ASSUME NEW r \in Runs, LeaveUnstarted(r)  PROVE ArchiveInv'
  BY <1>29 DEF LeaveUnstarted, ArchiveInv, rowVars, OneSegment, TypeInv,
       TypeOK, SegShape, Seg, Idle, Hazards
<1>30. ASSUME NEW r \in Runs, Begin(r)  PROVE ArchiveInv'
  BY <1>30 DEF Begin, ArchiveInv, Enter, Seg, rowVars, OneSegment, TypeInv,
       TypeOK, SegShape, Idle, Hazards, Starting, Reruns, Resolving,
       Answering, Cancelling, Beginning, Own, HasRun
<1>31. ASSUME NEW r \in Runs, NEW s \in Final \cup Waiting, Outcome(r, s)
      PROVE  ArchiveInv'
  BY <1>31 DEF Outcome, ArchiveInv, Final, Waiting, Enter, Seg, OneSegment,
       TypeInv, TypeOK, SegShape, Idle, Hazards, Starting, Reruns, Resolving,
       Answering, Cancelling, Beginning, Own, HasRun
<1>32. ASSUME NEW r \in Runs, AskInput(r)  PROVE ArchiveInv'
  BY <1>32 DEF AskInput, ArchiveInv, OneSegment, TypeInv, TypeOK, SegShape,
       Seg, Idle, Hazards
<1>33. ASSUME NEW r \in Runs, GiveUp(r)  PROVE ArchiveInv'
  BY <1>33 DEF GiveUp, ArchiveInv, OneSegment, TypeInv, TypeOK, SegShape, Seg,
       Idle, Hazards
<1>34. ASSUME NEW r \in Runs, NEW n \in Runs, HandOff(r, n)  PROVE ArchiveInv'
  BY <1>34 DEF HandOff, ArchiveInv, OneSegment, TypeInv, TypeOK, SegShape,
       Seg, Idle, Hazards
<1>35. ASSUME NEW p \in Procs, NEW r \in Runs, Recover(p, r)
      PROVE  ArchiveInv'
  BY <1>35 DEF Recover, ArchiveInv, OneSegment, TypeInv, TypeOK, SegShape,
       Seg, Idle, Hazards
<1>36. CASE UNCHANGED vars
  BY <1>36 DEF vars, rowVars, OneSegment, ArchiveInv, rowVars, TypeInv,
       TypeOK, SegShape, Seg, Idle, Hazards
<1> QED
  BY <1>1, <1>2, <1>3, <1>4, <1>5, <1>6, <1>7, <1>8, <1>9, <1>10, <1>11,
       <1>12, <1>13, <1>14, <1>15, <1>16, <1>17, <1>18, <1>19, <1>20, <1>21,
       <1>22, <1>23, <1>24, <1>25, <1>26, <1>27, <1>28, <1>29, <1>30, <1>31,
       <1>32, <1>33, <1>34, <1>35, <1>36 DEF Next, Requests, Segments, Works

\* A run that executes has its row.
LEMMA ExecutingStep ==
  ASSUME TypeInv, OwnSegments, ExecutingExists, [Next]_vars
  PROVE  ExecutingExists'
<1>1. ASSUME NEW p \in Procs, NEW n \in Runs, Message(p, n)
      PROVE  ExecutingExists'
  BY <1>1 DEF Message, ExecutingExists, Enter, Seg, rowVars, workerVars,
       OwnSegments, Exists, Waiting, TypeInv, TypeOK, SegShape, Idle, Hazards
<1>2. ASSUME NEW p \in Procs, NEW n \in Runs, StartDirect(p, n)
      PROVE  ExecutingExists'
  BY <1>2 DEF StartDirect, ExecutingExists, StartWorker, rowVars, OwnSegments,
       Exists, Executing, Waiting, TypeInv, TypeOK, SegShape, Seg, Idle,
       Hazards
<1>3. ASSUME NEW p \in Procs, Answer(p)  PROVE ExecutingExists'
  BY <1>3 DEF Answer, ExecutingExists, Exists, Enter, Seg, rowVars,
       workerVars, OwnSegments, Waiting, TypeInv, TypeOK, SegShape, Idle,
       Hazards
<1>4. ASSUME NEW p \in Procs, Archive(p)  PROVE ExecutingExists'
  BY <1>4 DEF Archive, ExecutingExists, Enter, Seg, rowVars, workerVars,
       OwnSegments, Exists, Waiting, TypeInv, TypeOK, SegShape, Idle, Hazards
<1>5. ASSUME NEW p \in Procs, Unarchive(p)  PROVE ExecutingExists'
  BY <1>5 DEF Unarchive, ExecutingExists, workerVars, OwnSegments, Exists,
       Waiting, TypeInv, TypeOK, SegShape, Seg, Idle, Hazards
<1>6. ASSUME NEW p \in Procs, NEW r \in Runs, Cancel(p, r)
      PROVE  ExecutingExists'
  BY <1>6 DEF Cancel, ExecutingExists, Exists, Enter, Seg, rowVars,
       workerVars, OwnSegments, Waiting, TypeInv, TypeOK, SegShape, Idle,
       Hazards
<1>7. ASSUME NEW p \in Procs, NEW r \in Runs, NEW k \in {"resolve", "rerun"},
             Resolve(p, r, k)
      PROVE  ExecutingExists'
  <2>1. CASE k = "resolve" /\ Enter(p, Seg(k, r, None, scur, tstat[r]))
    BY <1>7, <2>1 DEF Resolve, Enter, Seg, ExecutingExists, Exists, rowVars,
         workerVars, OwnSegments, Waiting, TypeInv, TypeOK, SegShape, Idle,
         Hazards
  <2>2. ASSUME NEW n \in Runs, k = "rerun", RerunAllowed(r), Fresh(n),
               "unchecked" \in Hazards \/ Quiet,
               Enter(p, Seg(k, r, n, scur, tstat[r]))
        PROVE  ExecutingExists'
    BY <1>7, <2>2 DEF Resolve, RerunAllowed, Quiet, Fresh, Enter, Seg,
         ExecutingExists, Hazards, Exists, rowVars, workerVars, OwnSegments,
         Waiting, TypeInv, TypeOK, SegShape, Idle
  <2> QED  BY <1>7, <2>1, <2>2 DEF Resolve
<1>8. ASSUME NEW p \in Procs, NEW r \in Runs, NEW n \in Runs, Retry(p, r, n)
      PROVE  ExecutingExists'
  BY <1>8 DEF Retry, ExecutingExists, Exists, NewRow, Enter, Seg, workerVars,
       OwnSegments, Waiting, TypeInv, TypeOK, SegShape, Idle, Hazards
<1>9. ASSUME NEW p \in Procs, MessageSession(p)  PROVE ExecutingExists'
  BY <1>9 DEF MessageSession, ExecutingExists, StartWorker, Enter, Idle, Seg,
       OwnSegments, Exists, Executing, Waiting, TypeInv, TypeOK, SegShape
<1>10. ASSUME NEW p \in Procs, AnswerTask(p)  PROVE ExecutingExists'
  BY <1>10 DEF AnswerTask, ExecutingExists, UpdateStatus, Enter, workerVars,
       OwnSegments, Exists, Waiting, TypeInv, TypeOK, SegShape, Seg, Idle
<1>11. ASSUME NEW p \in Procs, AnswerSession(p)  PROVE ExecutingExists'
  BY <1>11 DEF AnswerSession, ExecutingExists, StartWorker, Enter, Idle, Seg,
       OwnSegments, Exists, Executing, Waiting, TypeInv, TypeOK, SegShape
<1>12. ASSUME NEW p \in Procs, ArchiveTask(p)  PROVE ExecutingExists'
  BY <1>12 DEF ArchiveTask, ExecutingExists, UpdateStatus, Enter, OwnSegments,
       Exists, Waiting, TypeInv, TypeOK, SegShape, Seg, Idle
<1>13. ASSUME NEW p \in Procs, ArchiveSession(p)  PROVE ExecutingExists'
  BY <1>13 DEF ArchiveSession, ExecutingExists, Enter, Idle, Seg, workerVars,
       OwnSegments, Exists, Waiting, TypeInv, TypeOK, SegShape
<1>14. ASSUME NEW p \in Procs, CancelTask(p)  PROVE ExecutingExists'
  BY <1>14 DEF CancelTask, ExecutingExists, UpdateStatus, Enter, OwnSegments,
       Exists, Waiting, TypeInv, TypeOK, SegShape, Seg, Idle
<1>15. ASSUME NEW p \in Procs, CancelSession(p)  PROVE ExecutingExists'
  BY <1>15 DEF CancelSession, ExecutingExists, Enter, Idle, Seg, workerVars,
       OwnSegments, Exists, Waiting, TypeInv, TypeOK, SegShape
<1>16. ASSUME NEW p \in Procs, RetrySession(p)  PROVE ExecutingExists'
  BY <1>16 DEF RetrySession, ExecutingExists, StartWorker, Enter, Idle, Seg,
       OwnSegments, Exists, Executing, Waiting, TypeInv, TypeOK, SegShape
<1>17. ASSUME NEW p \in Procs, RerunCreate(p)  PROVE ExecutingExists'
  BY <1>17 DEF RerunCreate, ExecutingExists, NewRow, Enter, workerVars,
       OwnSegments, Exists, Waiting, TypeInv, TypeOK, SegShape, Seg, Idle
<1>18. ASSUME NEW p \in Procs, RerunEvent(p)  PROVE ExecutingExists'
  BY <1>18 DEF RerunEvent, ExecutingExists, workerVars, OwnSegments, Exists,
       Waiting, TypeInv, TypeOK, SegShape, Seg, Idle
<1>19. ASSUME NEW p \in Procs, RerunParent(p)  PROVE ExecutingExists'
  BY <1>19 DEF RerunParent, ExecutingExists, UpdateStatus, Enter, workerVars,
       OwnSegments, Exists, Waiting, TypeInv, TypeOK, SegShape, Seg, Idle
<1>20. ASSUME NEW p \in Procs, RerunSession(p)  PROVE ExecutingExists'
  BY <1>20 DEF RerunSession, ExecutingExists, StartWorker, Enter, Idle, Seg,
       OwnSegments, Exists, Executing, Waiting, TypeInv, TypeOK, SegShape
<1>21. ASSUME NEW p \in Procs, ResolveEvent(p)  PROVE ExecutingExists'
  BY <1>21 DEF ResolveEvent, ExecutingExists, Idle, Seg, workerVars,
       OwnSegments, Exists, Waiting, TypeInv, TypeOK, SegShape
<1>22. ASSUME NEW p \in Procs, NEW s \in Final, ResolveTask(p, s)
      PROVE  ExecutingExists'
  BY <1>22 DEF ResolveTask, ExecutingExists, Final, UpdateStatus, Enter,
       workerVars, OwnSegments, Exists, Waiting, TypeInv, TypeOK, SegShape,
       Seg, Idle
<1>23. ASSUME NEW p \in Procs, ResolveSession(p)  PROVE ExecutingExists'
  BY <1>23 DEF ResolveSession, ExecutingExists, Enter, Idle, Seg, workerVars,
       OwnSegments, Exists, Waiting, TypeInv, TypeOK, SegShape
<1>24. ASSUME NEW p \in Procs, BeginSession(p)  PROVE ExecutingExists'
  BY <1>24 DEF BeginSession, ExecutingExists, Enter, workerVars, OwnSegments,
       Exists, Waiting, TypeInv, TypeOK, SegShape, Seg, Idle
<1>25. ASSUME NEW p \in Procs, BeginTask(p)  PROVE ExecutingExists'
  BY <1>25 DEF BeginTask, ExecutingExists, Exists, NewRow, Enter, workerVars,
       OwnSegments, Waiting, TypeInv, TypeOK, SegShape, Seg, Idle
<1>26. ASSUME NEW p \in Procs, StartTask(p)  PROVE ExecutingExists'
  BY <1>26 DEF StartTask, ExecutingExists, EndWorker, UpdateStatus, Enter,
       Idle, Seg, OwnSegments, Exists, Waiting, TypeInv, TypeOK, SegShape,
       Starting, Resolving, Answering, Cancelling, Beginning, Own, HasRun
<1>27. ASSUME NEW p \in Procs, EndSession(p)  PROVE ExecutingExists'
  BY <1>27 DEF EndSession, ExecutingExists, EndWorker, Enter, Idle, Seg,
       OwnSegments, Exists, Executing, Waiting, TypeInv, TypeOK, SegShape
<1>28. ASSUME NEW p \in Procs, Crash(p)  PROVE ExecutingExists'
  BY <1>28 DEF Crash, ExecutingExists, Idle, Seg, rowVars, OwnSegments,
       Exists, Executing, Waiting, TypeInv, TypeOK, SegShape, Hazards
<1>29. ASSUME NEW r \in Runs, LeaveUnstarted(r)  PROVE ExecutingExists'
  BY <1>29 DEF LeaveUnstarted, ExecutingExists, EndWorker, rowVars,
       OwnSegments, Exists, Executing, Waiting, TypeInv, TypeOK, SegShape,
       Seg, Idle, Hazards
<1>30. ASSUME NEW r \in Runs, Begin(r)  PROVE ExecutingExists'
  BY <1>30 DEF Begin, ExecutingExists, Enter, Seg, rowVars, workerVars,
       OwnSegments, Exists, Waiting, TypeInv, TypeOK, SegShape, Idle, Hazards
<1>31. ASSUME NEW r \in Runs, NEW s \in Final \cup Waiting, Outcome(r, s)
      PROVE  ExecutingExists'
  BY <1>31 DEF Outcome, ExecutingExists, Final, Waiting, UpdateStatus, Enter,
       Seg, workerVars, OwnSegments, Exists, TypeInv, TypeOK, SegShape, Idle,
       Hazards
<1>32. ASSUME NEW r \in Runs, AskInput(r)  PROVE ExecutingExists'
  BY <1>32 DEF AskInput, ExecutingExists, UpdateStatus, OwnSegments, Exists,
       Waiting, TypeInv, TypeOK, SegShape, Seg, Idle, Hazards
<1>33. ASSUME NEW r \in Runs, GiveUp(r)  PROVE ExecutingExists'
  BY <1>33 DEF GiveUp, ExecutingExists, UpdateStatus, workerVars, OwnSegments,
       Exists, Waiting, TypeInv, TypeOK, SegShape, Seg, Idle, Hazards
<1>34. ASSUME NEW r \in Runs, NEW n \in Runs, HandOff(r, n)
      PROVE  ExecutingExists'
  BY <1>34 DEF HandOff, ExecutingExists, NewRow, StartWorker, OwnSegments,
       Exists, Waiting, TypeInv, TypeOK, SegShape, Seg, Idle, Hazards
<1>35. ASSUME NEW p \in Procs, NEW r \in Runs, Recover(p, r)
      PROVE  ExecutingExists'
  BY <1>35 DEF Recover, ExecutingExists, UpdateStatus, StartWorker,
       OwnSegments, Exists, Executing, Waiting, TypeInv, TypeOK, SegShape,
       Seg, Idle, Hazards
<1>36. CASE UNCHANGED vars
  BY <1>36 DEF vars, rowVars, workerVars, OwnSegments, ExecutingExists,
       Exists, Waiting, rowVars, workerVars, Waiting, TypeInv, TypeOK,
       SegShape, Seg, Idle
<1> QED
  BY <1>1, <1>2, <1>3, <1>4, <1>5, <1>6, <1>7, <1>8, <1>9, <1>10, <1>11,
       <1>12, <1>13, <1>14, <1>15, <1>16, <1>17, <1>18, <1>19, <1>20, <1>21,
       <1>22, <1>23, <1>24, <1>25, <1>26, <1>27, <1>28, <1>29, <1>30, <1>31,
       <1>32, <1>33, <1>34, <1>35, <1>36 DEF Next, Requests, Segments, Works

-----------------------------------------------------------------------------
(***************************************************************************)
(* Runs that begin, are answered, ask and end.                             *)
(***************************************************************************)
\* A worker stays where its segment left it.
LEMMA OwnStep ==
  ASSUME Alive, TypeInv, WorkerShape, OwnSegments, ExecutingExists, NewIsNew,
         AnsweredOnce, AskedAndEnded, ResolvingShape, [Next]_vars
  PROVE  OwnSegments'
<1>1. ASSUME NEW p \in Procs, NEW n \in Runs, Message(p, n)
      PROVE  OwnSegments'
  BY <1>1 DEF Message, OwnSegments, Enter, Seg, rowVars, workerVars, Asking,
       NewIsNew, AskedAndEnded, Alive, Waiting, TypeInv, TypeOK, SegShape,
       WorkerShape, Idle, Hazards, Exists, Starting, Resolving, Answering,
       Cancelling, Beginning, Own, HasRun
<1>2. ASSUME NEW p \in Procs, NEW n \in Runs, StartDirect(p, n)
      PROVE  OwnSegments'
  BY <1>2 DEF StartDirect, OwnSegments, Fresh, Unused, StartWorker, rowVars,
       Asking, NewIsNew, AskedAndEnded, Alive, Waiting, TypeInv, TypeOK,
       SegShape, WorkerShape, Seg, Idle, Hazards, Exists
<1>3. ASSUME NEW p \in Procs, Answer(p)  PROVE OwnSegments'
  BY <1>3 DEF Answer, OwnSegments, Exists, Enter, Seg, rowVars, workerVars,
       Asking, NewIsNew, AskedAndEnded, Alive, Waiting, TypeInv, TypeOK,
       SegShape, WorkerShape, Idle, Hazards, Starting, Resolving, Answering,
       Cancelling, Beginning, Own, HasRun
<1>4. ASSUME NEW p \in Procs, Archive(p)  PROVE OwnSegments'
  BY <1>4 DEF Archive, OwnSegments, Enter, Seg, rowVars, workerVars, Asking,
       NewIsNew, AskedAndEnded, Alive, Waiting, TypeInv, TypeOK, SegShape,
       WorkerShape, Idle, Hazards, Exists, Starting, Resolving, Answering,
       Cancelling, Beginning, Own, HasRun
<1>5. ASSUME NEW p \in Procs, Unarchive(p)  PROVE OwnSegments'
  BY <1>5 DEF Unarchive, OwnSegments, workerVars, Asking, NewIsNew,
       AskedAndEnded, Alive, Waiting, TypeInv, TypeOK, SegShape, WorkerShape,
       Seg, Idle, Hazards, Exists
<1>6. ASSUME NEW p \in Procs, NEW r \in Runs, Cancel(p, r)  PROVE OwnSegments'
  BY <1>6 DEF Cancel, OwnSegments, Exists, Enter, Seg, rowVars, workerVars,
       Asking, NewIsNew, AskedAndEnded, Alive, Waiting, TypeInv, TypeOK,
       SegShape, WorkerShape, Idle, Hazards, Starting, Resolving, Answering,
       Cancelling, Beginning, Own, HasRun
<1>7. ASSUME NEW p \in Procs, NEW r \in Runs, NEW k \in {"resolve", "rerun"},
             Resolve(p, r, k)
      PROVE  OwnSegments'
  <2>1. CASE k = "resolve" /\ Enter(p, Seg(k, r, None, scur, tstat[r]))
    BY <1>7, <2>1 DEF Resolve, Enter, Seg, OwnSegments, Exists, rowVars,
         workerVars, Asking, NewIsNew, AskedAndEnded, Alive, Waiting, TypeInv,
         TypeOK, SegShape, WorkerShape, Idle, Hazards, Starting, Resolving,
         Answering, Cancelling, Beginning, Own, HasRun
  <2>2. ASSUME NEW n \in Runs, k = "rerun", RerunAllowed(r), Fresh(n),
               "unchecked" \in Hazards \/ Quiet,
               Enter(p, Seg(k, r, n, scur, tstat[r]))
        PROVE  OwnSegments'
    BY <1>7, <2>2 DEF Resolve, RerunAllowed, Quiet, Fresh, Enter, Seg,
         OwnSegments, Hazards, Exists, rowVars, workerVars, Asking, NewIsNew,
         AskedAndEnded, Alive, Waiting, TypeInv, TypeOK, SegShape,
         WorkerShape, Idle, Starting, Resolving, Answering, Cancelling,
         Beginning, Own, HasRun
  <2> QED  BY <1>7, <2>1, <2>2 DEF Resolve
<1>8. ASSUME NEW p \in Procs, NEW r \in Runs, NEW n \in Runs, Retry(p, r, n)
      PROVE  OwnSegments'
  BY <1>8 DEF Retry, OwnSegments, Exists, Fresh, Unused, NewRow, Enter, Seg,
       workerVars, Asking, NewIsNew, AskedAndEnded, Alive, Waiting, TypeInv,
       TypeOK, SegShape, WorkerShape, Idle, Hazards, Starting, Resolving,
       Answering, Cancelling, Beginning, Own, HasRun
<1>9. ASSUME NEW p \in Procs, MessageSession(p)  PROVE OwnSegments'
  BY <1>9 DEF MessageSession, OwnSegments, StartWorker, Enter, Idle, Seg,
       Asking, NewIsNew, AskedAndEnded, Alive, Waiting, TypeInv, TypeOK,
       SegShape, WorkerShape, Hazards, Exists, Starting, Resolving, Answering,
       Cancelling, Beginning, Own, HasRun
<1>10. ASSUME NEW p \in Procs, AnswerTask(p)  PROVE OwnSegments'
  BY <1>10 DEF AnswerTask, OwnSegments, UpdateStatus, Enter, workerVars,
       Asking, NewIsNew, AnsweredOnce, AskedAndEnded, Alive, Waiting,
       Executing, TypeInv, TypeOK, SegShape, WorkerShape, Seg, Idle, Hazards,
       Active, Exists, Starting, Resolving, Answering, Cancelling, Beginning,
       Own, HasRun
<1>11. ASSUME NEW p \in Procs, AnswerSession(p)  PROVE OwnSegments'
  BY <1>11 DEF AnswerSession, OwnSegments, StartWorker, Enter, Idle, Seg,
       Asking, NewIsNew, AnsweredOnce, AskedAndEnded, Alive, Waiting,
       Executing, TypeInv, TypeOK, SegShape, WorkerShape, Hazards, Active,
       Exists, Starting, Resolving, Answering, Cancelling, Beginning, Own,
       HasRun
<1>12. ASSUME NEW p \in Procs, ArchiveTask(p)  PROVE OwnSegments'
  BY <1>12 DEF ArchiveTask, OwnSegments, UpdateStatus, Enter, Asking,
       NewIsNew, AskedAndEnded, Alive, Final, Waiting, TypeInv, TypeOK,
       SegShape, WorkerShape, Seg, Idle, Hazards, Exists, Starting, Resolving,
       Answering, Cancelling, Beginning, Own, HasRun
<1>13. ASSUME NEW p \in Procs, ArchiveSession(p)  PROVE OwnSegments'
  BY <1>13 DEF ArchiveSession, OwnSegments, Enter, Idle, Seg, workerVars,
       Asking, NewIsNew, AskedAndEnded, Alive, Waiting, TypeInv, TypeOK,
       SegShape, WorkerShape, Hazards, Exists, Starting, Resolving, Answering,
       Cancelling, Beginning, Own, HasRun
<1>14. ASSUME NEW p \in Procs, CancelTask(p)  PROVE OwnSegments'
  BY <1>14 DEF CancelTask, OwnSegments, UpdateStatus, Enter, Asking, NewIsNew,
       AskedAndEnded, Alive, Final, Waiting, TypeInv, TypeOK, SegShape,
       WorkerShape, Seg, Idle, Hazards, Exists, Starting, Resolving,
       Answering, Cancelling, Beginning, Own, HasRun
<1>15. ASSUME NEW p \in Procs, CancelSession(p)  PROVE OwnSegments'
  BY <1>15 DEF CancelSession, OwnSegments, Enter, Idle, Seg, workerVars,
       Asking, NewIsNew, AskedAndEnded, Alive, Waiting, TypeInv, TypeOK,
       SegShape, WorkerShape, Hazards, Exists, Starting, Resolving, Answering,
       Cancelling, Beginning, Own, HasRun
<1>16. ASSUME NEW p \in Procs, RetrySession(p)  PROVE OwnSegments'
  BY <1>16 DEF RetrySession, OwnSegments, StartWorker, Enter, Idle, Seg,
       Asking, NewIsNew, AskedAndEnded, Alive, Waiting, TypeInv, TypeOK,
       SegShape, WorkerShape, Hazards, Exists, Starting, Resolving, Answering,
       Cancelling, Beginning, Own, HasRun
<1>17. ASSUME NEW p \in Procs, RerunCreate(p)  PROVE OwnSegments'
  BY <1>17 DEF RerunCreate, OwnSegments, NewRow, Enter, workerVars, Asking,
       NewIsNew, AskedAndEnded, Alive, Waiting, TypeInv, TypeOK, SegShape,
       WorkerShape, Seg, Idle, Hazards, Exists, Starting, Resolving,
       Answering, Cancelling, Beginning, Own, HasRun
<1>18. ASSUME NEW p \in Procs, RerunEvent(p)  PROVE OwnSegments'
  BY <1>18 DEF RerunEvent, OwnSegments, Enter, workerVars, Asking, NewIsNew,
       AskedAndEnded, ResolvingShape, Alive, Waiting, TypeInv, TypeOK,
       SegShape, WorkerShape, Seg, Idle, Hazards, Exists, Starting, Reruns,
       Resolving, Answering, Cancelling, Beginning, Own, HasRun
<1>19. ASSUME NEW p \in Procs, RerunParent(p)  PROVE OwnSegments'
  BY <1>19 DEF RerunParent, OwnSegments, UpdateStatus, Enter, workerVars,
       Asking, NewIsNew, AskedAndEnded, Alive, Final, Waiting, TypeInv,
       TypeOK, SegShape, WorkerShape, Seg, Idle, Hazards, Exists, Starting,
       Resolving, Answering, Cancelling, Beginning, Own, HasRun
<1>20. ASSUME NEW p \in Procs, RerunSession(p)  PROVE OwnSegments'
  BY <1>20 DEF RerunSession, OwnSegments, StartWorker, Enter, Idle, Seg,
       Asking, NewIsNew, AskedAndEnded, Alive, Waiting, TypeInv, TypeOK,
       SegShape, WorkerShape, Hazards, Exists, Starting, Resolving, Answering,
       Cancelling, Beginning, Own, HasRun
<1>21. ASSUME NEW p \in Procs, ResolveEvent(p)  PROVE OwnSegments'
  BY <1>21 DEF ResolveEvent, OwnSegments, Enter, Idle, Seg, workerVars,
       Asking, NewIsNew, AskedAndEnded, ResolvingShape, Alive, Waiting,
       TypeInv, TypeOK, SegShape, WorkerShape, Hazards, Exists, Starting,
       Resolving, Answering, Cancelling, Beginning, Own, HasRun
<1>22. ASSUME NEW p \in Procs, NEW s \in Final, ResolveTask(p, s)
      PROVE  OwnSegments'
  BY <1>22 DEF ResolveTask, OwnSegments, Final, UpdateStatus, Enter,
       workerVars, Asking, NewIsNew, AskedAndEnded, Alive, Waiting, TypeInv,
       TypeOK, SegShape, WorkerShape, Seg, Idle, Hazards, Exists, Starting,
       Resolving, Answering, Cancelling, Beginning, Own, HasRun
<1>23. ASSUME NEW p \in Procs, ResolveSession(p)  PROVE OwnSegments'
  BY <1>23 DEF ResolveSession, OwnSegments, Enter, Idle, Seg, workerVars,
       Asking, NewIsNew, AskedAndEnded, Alive, Waiting, TypeInv, TypeOK,
       SegShape, WorkerShape, Hazards, Exists, Starting, Resolving, Answering,
       Cancelling, Beginning, Own, HasRun
<1>24. ASSUME NEW p \in Procs, BeginSession(p)  PROVE OwnSegments'
  BY <1>24 DEF BeginSession, OwnSegments, Enter, workerVars, Asking, NewIsNew,
       AskedAndEnded, Alive, Waiting, TypeInv, TypeOK, SegShape, WorkerShape,
       Seg, Idle, Hazards, Exists, Starting, Resolving, Answering, Cancelling,
       Beginning, Own, HasRun
<1>25. ASSUME NEW p \in Procs, BeginTask(p)  PROVE OwnSegments'
  BY <1>25 DEF BeginTask, OwnSegments, Exists, NewRow, Enter, workerVars,
       Asking, NewIsNew, AskedAndEnded, Alive, Final, Waiting, TypeInv,
       TypeOK, SegShape, WorkerShape, Seg, Idle, Hazards, Starting, Resolving,
       Answering, Cancelling, Beginning, Own, HasRun
<1>26. ASSUME NEW p \in Procs, StartTask(p)  PROVE OwnSegments'
  BY <1>26 DEF StartTask, OwnSegments, EndWorker, UpdateStatus, Enter, Idle,
       Seg, Asking, NewIsNew, AskedAndEnded, Alive, Waiting, TypeInv, TypeOK,
       SegShape, WorkerShape, Hazards, Exists, Starting, Resolving, Answering,
       Cancelling, Beginning, Own, HasRun
<1>27. ASSUME NEW p \in Procs, EndSession(p)  PROVE OwnSegments'
  BY <1>27 DEF EndSession, OwnSegments, EndWorker, Enter, Idle, Seg, Asking,
       NewIsNew, AskedAndEnded, Alive, Waiting, TypeInv, TypeOK, SegShape,
       WorkerShape, Hazards, Exists, Starting, Resolving, Answering,
       Cancelling, Beginning, Own, HasRun
<1>28. ASSUME NEW p \in Procs, Crash(p)  PROVE OwnSegments'
  BY <1>28 DEF Crash, Idle, Seg, rowVars, Alive, Waiting, TypeInv, TypeOK,
       SegShape, WorkerShape, Hazards
<1>29. ASSUME NEW r \in Runs, LeaveUnstarted(r)  PROVE OwnSegments'
  BY <1>29 DEF LeaveUnstarted, OwnSegments, OnLoop, Turn, EndWorker, rowVars,
       Asking, NewIsNew, AskedAndEnded, Alive, Waiting, TypeInv, TypeOK,
       SegShape, WorkerShape, Seg, Idle, Hazards, Exists, Starting, Resolving,
       Answering, Cancelling, Beginning, Own, HasRun
<1>30. ASSUME NEW r \in Runs, Begin(r)  PROVE OwnSegments'
  BY <1>30 DEF Begin, OwnSegments, Enter, Seg, rowVars, workerVars, Asking,
       NewIsNew, AskedAndEnded, Alive, Waiting, TypeInv, TypeOK, SegShape,
       WorkerShape, Idle, Hazards, Exists
<1>31. ASSUME NEW r \in Runs, NEW s \in Final \cup Waiting, Outcome(r, s)
      PROVE  OwnSegments'
  BY <1>31 DEF Outcome, OwnSegments, Final, Waiting, OnLoop, Turn,
       UpdateStatus, Enter, Seg, workerVars, Asking, ExecutingExists,
       NewIsNew, AskedAndEnded, Alive, TypeInv, TypeOK, SegShape, WorkerShape,
       Idle, Hazards, Exists, Starting, Resolving, Answering, Cancelling,
       Beginning, Own, HasRun
<1>32. ASSUME NEW r \in Runs, AskInput(r)  PROVE OwnSegments'
  BY <1>32 DEF AskInput, OwnSegments, OnLoop, Turn, UpdateStatus, Asking,
       NewIsNew, AskedAndEnded, Alive, Waiting, Executing, TypeInv, TypeOK,
       SegShape, WorkerShape, Seg, Idle, Hazards, Exists
<1>33. ASSUME NEW r \in Runs, GiveUp(r)  PROVE OwnSegments'
  BY <1>33 DEF GiveUp, OwnSegments, UpdateStatus, workerVars, Asking,
       NewIsNew, AskedAndEnded, Alive, Final, Waiting, TypeInv, TypeOK,
       SegShape, WorkerShape, Seg, Idle, Hazards, Exists
<1>34. ASSUME NEW r \in Runs, NEW n \in Runs, HandOff(r, n)
      PROVE  OwnSegments'
  BY <1>34 DEF HandOff, OwnSegments, Fresh, Unused, NewRow, StartWorker,
       Asking, NewIsNew, AskedAndEnded, Alive, Waiting, TypeInv, TypeOK,
       SegShape, WorkerShape, Seg, Idle, Hazards, Exists
<1>35. ASSUME NEW p \in Procs, NEW r \in Runs, Recover(p, r)
      PROVE  OwnSegments'
  BY <1>35 DEF Recover, OwnSegments, Interrupted, UpdateStatus, StartWorker,
       Asking, NewIsNew, AskedAndEnded, Alive, Waiting, TypeInv, TypeOK,
       SegShape, WorkerShape, Seg, Idle, Hazards, Exists
<1>36. CASE UNCHANGED vars
  BY <1>36 DEF vars, rowVars, workerVars, Asking, OwnSegments, NewIsNew,
       AskedAndEnded, Alive, Waiting, TypeInv, TypeOK, SegShape, WorkerShape,
       Seg, Idle, Hazards, Exists, rowVars, workerVars
<1> QED
  BY <1>1, <1>2, <1>3, <1>4, <1>5, <1>6, <1>7, <1>8, <1>9, <1>10, <1>11,
       <1>12, <1>13, <1>14, <1>15, <1>16, <1>17, <1>18, <1>19, <1>20, <1>21,
       <1>22, <1>23, <1>24, <1>25, <1>26, <1>27, <1>28, <1>29, <1>30, <1>31,
       <1>32, <1>33, <1>34, <1>35, <1>36 DEF Next, Requests, Segments, Works

\* Nobody else takes the run that is going to be started.
LEMMA NewStep ==
  ASSUME Alive, TypeInv, WorkerShape, OwnSegments, ExecutingExists, NewIsNew,
         AnsweredOnce, AskedAndEnded, ResolvingShape, [Next]_vars
  PROVE  NewIsNew'
<1>1. ASSUME NEW p \in Procs, NEW n \in Runs, Message(p, n)  PROVE NewIsNew'
  BY <1>1 DEF Message, NewIsNew, Serves, Turn, Fresh, Unused, Enter, Seg,
       rowVars, workerVars, OwnSegments, AskedAndEnded, Alive, Waiting,
       TypeInv, TypeOK, SegShape, WorkerShape, Idle, Hazards, Active
<1>2. ASSUME NEW p \in Procs, NEW n \in Runs, StartDirect(p, n)
      PROVE  NewIsNew'
  BY <1>2 DEF StartDirect, NewIsNew, Fresh, Unused, StartWorker, rowVars,
       OwnSegments, AskedAndEnded, Alive, Waiting, TypeInv, TypeOK, SegShape,
       WorkerShape, Seg, Idle, Hazards, Active
<1>3. ASSUME NEW p \in Procs, Answer(p)  PROVE NewIsNew'
  BY <1>3 DEF Answer, NewIsNew, Serves, Turn, Enter, Seg, rowVars, workerVars,
       OwnSegments, AskedAndEnded, Alive, Waiting, TypeInv, TypeOK, SegShape,
       WorkerShape, Idle, Hazards, Active, Starting, Resolving, Answering,
       Cancelling, Beginning, Own, HasRun
<1>4. ASSUME NEW p \in Procs, Archive(p)  PROVE NewIsNew'
  BY <1>4 DEF Archive, NewIsNew, Serves, Turn, Enter, Seg, rowVars,
       workerVars, OwnSegments, AskedAndEnded, Alive, Waiting, TypeInv,
       TypeOK, SegShape, WorkerShape, Idle, Hazards, Active, Starting,
       Resolving, Answering, Cancelling, Beginning, Own, HasRun
<1>5. ASSUME NEW p \in Procs, Unarchive(p)  PROVE NewIsNew'
  BY <1>5 DEF Unarchive, NewIsNew, UpdateSession, workerVars, OwnSegments,
       AskedAndEnded, Alive, Waiting, TypeInv, TypeOK, SegShape, WorkerShape,
       Seg, Idle, Hazards, Active
<1>6. ASSUME NEW p \in Procs, NEW r \in Runs, Cancel(p, r)  PROVE NewIsNew'
  BY <1>6 DEF Cancel, NewIsNew, Serves, Turn, Enter, Seg, rowVars, workerVars,
       OwnSegments, AskedAndEnded, Alive, Waiting, TypeInv, TypeOK, SegShape,
       WorkerShape, Idle, Hazards, Active, Starting, Resolving, Answering,
       Cancelling, Beginning, Own, HasRun
<1>7. ASSUME NEW p \in Procs, NEW r \in Runs, NEW k \in {"resolve", "rerun"},
             Resolve(p, r, k)
      PROVE  NewIsNew'
  <2>1. CASE k = "resolve" /\ Enter(p, Seg(k, r, None, scur, tstat[r]))
    BY <1>7, <2>1 DEF Resolve, Enter, Seg, NewIsNew, Serves, Turn, rowVars,
         workerVars, OwnSegments, AskedAndEnded, Alive, Waiting, TypeInv,
         TypeOK, SegShape, WorkerShape, Idle, Hazards, Active, Starting,
         Resolving, Answering, Cancelling, Beginning, Own, HasRun
  <2>2. ASSUME NEW n \in Runs, k = "rerun", RerunAllowed(r), Fresh(n),
               "unchecked" \in Hazards \/ Quiet,
               Enter(p, Seg(k, r, n, scur, tstat[r]))
        PROVE  NewIsNew'
    BY <1>7, <2>2 DEF Resolve, RerunAllowed, Quiet, Fresh, Enter, Seg,
         NewIsNew, Hazards, Unused, rowVars, workerVars, OwnSegments,
         AskedAndEnded, Alive, Waiting, TypeInv, TypeOK, SegShape,
         WorkerShape, Idle, Active
  <2> QED  BY <1>7, <2>1, <2>2 DEF Resolve
<1>8. ASSUME NEW p \in Procs, NEW r \in Runs, NEW n \in Runs, Retry(p, r, n)
      PROVE  NewIsNew'
  BY <1>8 DEF Retry, NewIsNew, Exists, Fresh, Unused, Enter, Seg, workerVars,
       OwnSegments, AskedAndEnded, Alive, Waiting, TypeInv, TypeOK, SegShape,
       WorkerShape, Idle, Hazards, Active
<1>9. ASSUME NEW p \in Procs, MessageSession(p)  PROVE NewIsNew'
  <2>1. /\ seg[p].kind \in Starting /\ seg[p].new \in Runs
        /\ seg'[p] = Idle /\ \A q \in Procs \ {p} : seg'[q] = seg[q]
        /\ scur' = seg[p].new /\ approval' = approval
        /\ \A r \in Runs \ {seg[p].new} : wpc'[r] = wpc[r]
    BY <1>9 DEF MessageSession, Starting, UpdateSession, StartWorker, Enter,
         TypeInv, TypeOK, SegShape
  <2>2. ASSUME NEW q \in Procs, seg'[q].kind \in Starting
        PROVE  /\ q # p /\ seg'[q] = seg[q] /\ seg[q].new \in Runs
               /\ seg[q].new # seg[p].new
    BY <2>1, <2>2 DEF NewIsNew, Starting, Idle, Seg, TypeInv, SegShape
  <2>3. ASSUME NEW q \in Procs, NEW u \in Procs \ {q}, seg'[q].kind \in Starting
        PROVE  /\ seg'[u].new # seg'[q].new
               /\ seg'[u].run = seg'[q].new => seg'[u].kind \in Cancelling \cup {"retry"}
    <3>1. CASE u = p
      BY <2>1, <2>2, <2>3, <3>1, SessionAssumption DEF Idle, Seg
    <3>2. CASE u # p
      BY <2>1, <2>2, <2>3, <3>2 DEF NewIsNew
    <3> QED  BY <3>1, <3>2
  <2>4. ASSUME NEW q \in Procs, seg'[q].kind \in Starting
        PROVE  /\ wpc'[seg[q].new] = "none" /\ approval'[seg[q].new] = "none"
               /\ scur' # seg[q].new /\ seg[q].run # seg[q].new
    BY <2>1, <2>2, <2>4 DEF NewIsNew, Active
  <2>5. ASSUME NEW q \in Procs, seg'[q].kind \in Starting
        PROVE  wpc'[seg'[q].new] = "none"
    BY <2>2, <2>4, <2>5
  <2> QED  BY <2>2, <2>3, <2>4, <2>5 DEF NewIsNew, Active
<1>10. ASSUME NEW p \in Procs, AnswerTask(p)  PROVE NewIsNew'
  BY <1>10 DEF AnswerTask, NewIsNew, Enter, workerVars, OwnSegments,
       AskedAndEnded, Alive, Waiting, TypeInv, TypeOK, SegShape, WorkerShape,
       Seg, Idle, Hazards, Active, Starting, Resolving, Answering, Cancelling,
       Beginning, Own, HasRun
<1>11. ASSUME NEW p \in Procs, AnswerSession(p)  PROVE NewIsNew'
  BY <1>11 DEF AnswerSession, NewIsNew, UpdateSession, StartWorker, Enter,
       Idle, Seg, OwnSegments, AskedAndEnded, Alive, Waiting, TypeInv, TypeOK,
       SegShape, WorkerShape, Hazards, Active, Starting, Resolving, Answering,
       Cancelling, Beginning, Own, HasRun
<1>12. ASSUME NEW p \in Procs, ArchiveTask(p)  PROVE NewIsNew'
  BY <1>12 DEF ArchiveTask, NewIsNew, Enter, OwnSegments, AskedAndEnded,
       Alive, Waiting, TypeInv, TypeOK, SegShape, WorkerShape, Seg, Idle,
       Hazards, Active, Starting, Resolving, Answering, Cancelling, Beginning,
       Own, HasRun
<1>13. ASSUME NEW p \in Procs, ArchiveSession(p)  PROVE NewIsNew'
  BY <1>13 DEF ArchiveSession, NewIsNew, UpdateSession, Enter, Idle, Seg,
       workerVars, OwnSegments, AskedAndEnded, Alive, Waiting, TypeInv,
       TypeOK, SegShape, WorkerShape, Hazards, Active, Starting, Resolving,
       Answering, Cancelling, Beginning, Own, HasRun
<1>14. ASSUME NEW p \in Procs, CancelTask(p)  PROVE NewIsNew'
  BY <1>14 DEF CancelTask, NewIsNew, Enter, OwnSegments, AskedAndEnded, Alive,
       Waiting, TypeInv, TypeOK, SegShape, WorkerShape, Seg, Idle, Hazards,
       Active, Starting, Resolving, Answering, Cancelling, Beginning, Own,
       HasRun
<1>15. ASSUME NEW p \in Procs, CancelSession(p)  PROVE NewIsNew'
  BY <1>15 DEF CancelSession, NewIsNew, UpdateSession, Enter, Idle, Seg,
       workerVars, OwnSegments, AskedAndEnded, Alive, Waiting, TypeInv,
       TypeOK, SegShape, WorkerShape, Hazards, Active, Starting, Resolving,
       Answering, Cancelling, Beginning, Own, HasRun
<1>16. ASSUME NEW p \in Procs, RetrySession(p)  PROVE NewIsNew'
  <2>1. /\ seg[p].kind \in Starting /\ seg[p].new \in Runs
        /\ seg'[p] = Idle /\ \A q \in Procs \ {p} : seg'[q] = seg[q]
        /\ scur' = seg[p].new /\ approval' = approval
        /\ \A r \in Runs \ {seg[p].new} : wpc'[r] = wpc[r]
    BY <1>16 DEF RetrySession, Starting, UpdateSession, StartWorker, Enter,
         TypeInv, TypeOK, SegShape
  <2>2. ASSUME NEW q \in Procs, seg'[q].kind \in Starting
        PROVE  /\ q # p /\ seg'[q] = seg[q] /\ seg[q].new \in Runs
               /\ seg[q].new # seg[p].new
    BY <2>1, <2>2 DEF NewIsNew, Starting, Idle, Seg, TypeInv, SegShape
  <2>3. ASSUME NEW q \in Procs, NEW u \in Procs \ {q}, seg'[q].kind \in Starting
        PROVE  /\ seg'[u].new # seg'[q].new
               /\ seg'[u].run = seg'[q].new => seg'[u].kind \in Cancelling \cup {"retry"}
    <3>1. CASE u = p
      BY <2>1, <2>2, <2>3, <3>1, SessionAssumption DEF Idle, Seg
    <3>2. CASE u # p
      BY <2>1, <2>2, <2>3, <3>2 DEF NewIsNew
    <3> QED  BY <3>1, <3>2
  <2>4. ASSUME NEW q \in Procs, seg'[q].kind \in Starting
        PROVE  /\ wpc'[seg[q].new] = "none" /\ approval'[seg[q].new] = "none"
               /\ scur' # seg[q].new /\ seg[q].run # seg[q].new
    BY <2>1, <2>2, <2>4 DEF NewIsNew, Active
  <2>5. ASSUME NEW q \in Procs, seg'[q].kind \in Starting
        PROVE  wpc'[seg'[q].new] = "none"
    BY <2>2, <2>4, <2>5
  <2> QED  BY <2>2, <2>3, <2>4, <2>5 DEF NewIsNew, Active
<1>17. ASSUME NEW p \in Procs, RerunCreate(p)  PROVE NewIsNew'
  BY <1>17 DEF RerunCreate, NewIsNew, Enter, workerVars, OwnSegments,
       AskedAndEnded, Alive, Waiting, TypeInv, TypeOK, SegShape, WorkerShape,
       Seg, Idle, Hazards, Active, Starting, Resolving, Answering, Cancelling,
       Beginning, Own, HasRun
<1>18. ASSUME NEW p \in Procs, RerunEvent(p)  PROVE NewIsNew'
  BY <1>18 DEF RerunEvent, NewIsNew, Enter, workerVars, OwnSegments,
       AskedAndEnded, Alive, Waiting, TypeInv, TypeOK, SegShape, WorkerShape,
       Seg, Idle, Hazards, Active, Starting, Resolving, Answering, Cancelling,
       Beginning, Own, HasRun
<1>19. ASSUME NEW p \in Procs, RerunParent(p)  PROVE NewIsNew'
  BY <1>19 DEF RerunParent, NewIsNew, Enter, workerVars, OwnSegments,
       AskedAndEnded, Alive, Waiting, TypeInv, TypeOK, SegShape, WorkerShape,
       Seg, Idle, Hazards, Active, Starting, Resolving, Answering, Cancelling,
       Beginning, Own, HasRun
<1>20. ASSUME NEW p \in Procs, RerunSession(p)  PROVE NewIsNew'
  <2>1. /\ seg[p].kind \in Starting /\ seg[p].new \in Runs
        /\ seg'[p] = Idle /\ \A q \in Procs \ {p} : seg'[q] = seg[q]
        /\ scur' = seg[p].new /\ approval' = approval
        /\ \A r \in Runs \ {seg[p].new} : wpc'[r] = wpc[r]
    BY <1>20 DEF RerunSession, Starting, UpdateSession, StartWorker, Enter,
         TypeInv, TypeOK, SegShape
  <2>2. ASSUME NEW q \in Procs, seg'[q].kind \in Starting
        PROVE  /\ q # p /\ seg'[q] = seg[q] /\ seg[q].new \in Runs
               /\ seg[q].new # seg[p].new
    BY <2>1, <2>2 DEF NewIsNew, Starting, Idle, Seg, TypeInv, SegShape
  <2>3. ASSUME NEW q \in Procs, NEW u \in Procs \ {q}, seg'[q].kind \in Starting
        PROVE  /\ seg'[u].new # seg'[q].new
               /\ seg'[u].run = seg'[q].new => seg'[u].kind \in Cancelling \cup {"retry"}
    <3>1. CASE u = p
      BY <2>1, <2>2, <2>3, <3>1, SessionAssumption DEF Idle, Seg
    <3>2. CASE u # p
      BY <2>1, <2>2, <2>3, <3>2 DEF NewIsNew
    <3> QED  BY <3>1, <3>2
  <2>4. ASSUME NEW q \in Procs, seg'[q].kind \in Starting
        PROVE  /\ wpc'[seg[q].new] = "none" /\ approval'[seg[q].new] = "none"
               /\ scur' # seg[q].new /\ seg[q].run # seg[q].new
    BY <2>1, <2>2, <2>4 DEF NewIsNew, Active
  <2>5. ASSUME NEW q \in Procs, seg'[q].kind \in Starting
        PROVE  wpc'[seg'[q].new] = "none"
    BY <2>2, <2>4, <2>5
  <2> QED  BY <2>2, <2>3, <2>4, <2>5 DEF NewIsNew, Active
<1>21. ASSUME NEW p \in Procs, ResolveEvent(p)  PROVE NewIsNew'
  BY <1>21 DEF ResolveEvent, NewIsNew, Enter, Idle, Seg, workerVars,
       OwnSegments, AskedAndEnded, Alive, Waiting, TypeInv, TypeOK, SegShape,
       WorkerShape, Hazards, Active, Starting, Resolving, Answering,
       Cancelling, Beginning, Own, HasRun
<1>22. ASSUME NEW p \in Procs, NEW s \in Final, ResolveTask(p, s)
      PROVE  NewIsNew'
  BY <1>22 DEF ResolveTask, NewIsNew, Final, Enter, workerVars, OwnSegments,
       AskedAndEnded, Alive, Waiting, TypeInv, TypeOK, SegShape, WorkerShape,
       Seg, Idle, Hazards, Active, Starting, Resolving, Answering, Cancelling,
       Beginning, Own, HasRun
<1>23. ASSUME NEW p \in Procs, ResolveSession(p)  PROVE NewIsNew'
  BY <1>23 DEF ResolveSession, NewIsNew, UpdateSession, Enter, Idle, Seg,
       workerVars, OwnSegments, AskedAndEnded, Alive, Waiting, TaskStatus,
       TypeInv, TypeOK, SegShape, WorkerShape, Hazards, Active, Starting,
       Resolving, Answering, Cancelling, Beginning, Own, HasRun
<1>24. ASSUME NEW p \in Procs, BeginSession(p)  PROVE NewIsNew'
  BY <1>24 DEF BeginSession, NewIsNew, UpdateSession, Enter, workerVars,
       OwnSegments, AskedAndEnded, Alive, Waiting, TypeInv, TypeOK, SegShape,
       WorkerShape, Seg, Idle, Hazards, Active, Starting, Resolving,
       Answering, Cancelling, Beginning, Own, HasRun
<1>25. ASSUME NEW p \in Procs, BeginTask(p)  PROVE NewIsNew'
  BY <1>25 DEF BeginTask, NewIsNew, Enter, workerVars, OwnSegments,
       AskedAndEnded, Alive, Waiting, TypeInv, TypeOK, SegShape, WorkerShape,
       Seg, Idle, Hazards, Active, Starting, Resolving, Answering, Cancelling,
       Beginning, Own, HasRun
<1>26. ASSUME NEW p \in Procs, StartTask(p)  PROVE NewIsNew'
  BY <1>26 DEF StartTask, NewIsNew, EndWorker, Enter, Idle, Seg, OwnSegments,
       AskedAndEnded, Alive, Waiting, TypeInv, TypeOK, SegShape, WorkerShape,
       Hazards, Active, Starting, Resolving, Answering, Cancelling, Beginning,
       Own, HasRun
<1>27. ASSUME NEW p \in Procs, EndSession(p)  PROVE NewIsNew'
  BY <1>27 DEF EndSession, NewIsNew, UpdateSession, EndWorker, Enter, Idle,
       Seg, OwnSegments, AskedAndEnded, Alive, Waiting, TypeInv, TypeOK,
       SegShape, WorkerShape, Hazards, Active, Starting, Resolving, Answering,
       Cancelling, Beginning, Own, HasRun
<1>28. ASSUME NEW p \in Procs, Crash(p)  PROVE NewIsNew'
  BY <1>28 DEF Crash, Idle, Seg, rowVars, Alive, Waiting, TypeInv, TypeOK,
       SegShape, WorkerShape, Hazards
<1>29. ASSUME NEW r \in Runs, LeaveUnstarted(r)  PROVE NewIsNew'
  BY <1>29 DEF LeaveUnstarted, NewIsNew, Active, EndWorker, rowVars,
       OwnSegments, AskedAndEnded, Alive, Waiting, TypeInv, TypeOK, SegShape,
       WorkerShape, Seg, Idle, Hazards
<1>30. ASSUME NEW r \in Runs, Begin(r)  PROVE NewIsNew'
  BY <1>30 DEF Begin, NewIsNew, OnLoop, Turn, Active, Enter, Seg, rowVars,
       workerVars, OwnSegments, AskedAndEnded, Alive, Waiting, TypeInv,
       TypeOK, SegShape, WorkerShape, Idle, Hazards, Starting, Resolving,
       Answering, Cancelling, Beginning, Own, HasRun
<1>31. ASSUME NEW r \in Runs, NEW s \in Final \cup Waiting, Outcome(r, s)
      PROVE  NewIsNew'
  BY <1>31 DEF Outcome, NewIsNew, Final, Waiting, OnLoop, Turn, Active, Enter,
       Seg, workerVars, OwnSegments, AskedAndEnded, Alive, TypeInv, TypeOK,
       SegShape, WorkerShape, Idle, Hazards, Starting, Resolving, Answering,
       Cancelling, Beginning, Own, HasRun
<1>32. ASSUME NEW r \in Runs, AskInput(r)  PROVE NewIsNew'
  BY <1>32 DEF AskInput, NewIsNew, Active, OwnSegments, AskedAndEnded, Alive,
       Waiting, Executing, TypeInv, TypeOK, SegShape, WorkerShape, Seg, Idle,
       Hazards
<1>33. ASSUME NEW r \in Runs, GiveUp(r)  PROVE NewIsNew'
  BY <1>33 DEF GiveUp, NewIsNew, Active, workerVars, OwnSegments,
       AskedAndEnded, Alive, Waiting, TypeInv, TypeOK, SegShape, WorkerShape,
       Seg, Idle, Hazards
<1>34. ASSUME NEW r \in Runs, NEW n \in Runs, HandOff(r, n)  PROVE NewIsNew'
  BY <1>34 DEF HandOff, NewIsNew, Active, Fresh, Unused, StartWorker,
       OwnSegments, AskedAndEnded, Alive, Waiting, TypeInv, TypeOK, SegShape,
       WorkerShape, Seg, Idle, Hazards
<1>35. ASSUME NEW p \in Procs, NEW r \in Runs, Recover(p, r)  PROVE NewIsNew'
  BY <1>35 DEF Recover, NewIsNew, Interrupted, Active, StartWorker,
       OwnSegments, AskedAndEnded, Alive, Waiting, TypeInv, TypeOK, SegShape,
       WorkerShape, Seg, Idle, Hazards
<1>36. CASE UNCHANGED vars
  BY <1>36 DEF vars, rowVars, workerVars, OwnSegments, NewIsNew,
       AskedAndEnded, Alive, Waiting, TypeInv, TypeOK, SegShape, WorkerShape,
       Seg, Idle, Hazards, Active, rowVars, workerVars
<1> QED
  BY <1>1, <1>2, <1>3, <1>4, <1>5, <1>6, <1>7, <1>8, <1>9, <1>10, <1>11,
       <1>12, <1>13, <1>14, <1>15, <1>16, <1>17, <1>18, <1>19, <1>20, <1>21,
       <1>22, <1>23, <1>24, <1>25, <1>26, <1>27, <1>28, <1>29, <1>30, <1>31,
       <1>32, <1>33, <1>34, <1>35, <1>36 DEF Next, Requests, Segments, Works

\* A run that is being answered stays without a worker.
LEMMA AnsweredStep ==
  ASSUME Alive, TypeInv, WorkerShape, OwnSegments, ExecutingExists, NewIsNew,
         AnsweredOnce, AskedAndEnded, ResolvingShape, [Next]_vars
  PROVE  AnsweredOnce'
<1>1. ASSUME NEW p \in Procs, NEW n \in Runs, Message(p, n)
      PROVE  AnsweredOnce'
  BY <1>1 DEF Message, AnsweredOnce, Enter, Seg, rowVars, workerVars, Asking,
       OwnSegments, NewIsNew, AskedAndEnded, Alive, Waiting, TypeInv, TypeOK,
       SegShape, WorkerShape, Idle, Hazards, Active, Starting, Resolving,
       Answering, Cancelling, Beginning, Own, HasRun
<1>2. ASSUME NEW p \in Procs, NEW n \in Runs, StartDirect(p, n)
      PROVE  AnsweredOnce'
  BY <1>2 DEF StartDirect, AnsweredOnce, Fresh, Unused, StartWorker, rowVars,
       Asking, OwnSegments, NewIsNew, AskedAndEnded, Alive, Waiting, TypeInv,
       TypeOK, SegShape, WorkerShape, Seg, Idle, Hazards, Active
<1>3. ASSUME NEW p \in Procs, Answer(p)  PROVE AnsweredOnce'
  BY <1>3 DEF Answer, AnsweredOnce, Enter, Seg, rowVars, workerVars, Asking,
       OwnSegments, NewIsNew, AskedAndEnded, Alive, Waiting, TypeInv, TypeOK,
       SegShape, WorkerShape, Idle, Hazards, Active, Starting, Resolving,
       Answering, Cancelling, Beginning, Own, HasRun
<1>4. ASSUME NEW p \in Procs, Archive(p)  PROVE AnsweredOnce'
  BY <1>4 DEF Archive, AnsweredOnce, Serves, Turn, Enter, Seg, rowVars,
       workerVars, Asking, OwnSegments, NewIsNew, AskedAndEnded, Alive,
       Waiting, TypeInv, TypeOK, SegShape, WorkerShape, Idle, Hazards, Active,
       Starting, Resolving, Answering, Cancelling, Beginning, Own, HasRun
<1>5. ASSUME NEW p \in Procs, Unarchive(p)  PROVE AnsweredOnce'
  BY <1>5 DEF Unarchive, AnsweredOnce, UpdateSession, workerVars, Asking,
       OwnSegments, NewIsNew, AskedAndEnded, Alive, Waiting, TypeInv, TypeOK,
       SegShape, WorkerShape, Seg, Idle, Hazards, Active
<1>6. ASSUME NEW p \in Procs, NEW r \in Runs, Cancel(p, r)
      PROVE  AnsweredOnce'
  BY <1>6 DEF Cancel, AnsweredOnce, Serves, Turn, Enter, Seg, rowVars,
       workerVars, Asking, OwnSegments, NewIsNew, AskedAndEnded, Alive,
       Waiting, TypeInv, TypeOK, SegShape, WorkerShape, Idle, Hazards, Active,
       Starting, Resolving, Answering, Cancelling, Beginning, Own, HasRun
<1>7. ASSUME NEW p \in Procs, NEW r \in Runs, NEW k \in {"resolve", "rerun"},
             Resolve(p, r, k)
      PROVE  AnsweredOnce'
  <2>1. CASE k = "resolve" /\ Enter(p, Seg(k, r, None, scur, tstat[r]))
    BY <1>7, <2>1 DEF Resolve, Enter, Seg, AnsweredOnce, Serves, Turn,
         rowVars, workerVars, Asking, OwnSegments, NewIsNew, AskedAndEnded,
         Alive, Waiting, TypeInv, TypeOK, SegShape, WorkerShape, Idle,
         Hazards, Active, Starting, Resolving, Answering, Cancelling,
         Beginning, Own, HasRun
  <2>2. ASSUME NEW n \in Runs, k = "rerun", RerunAllowed(r), Fresh(n),
               "unchecked" \in Hazards \/ Quiet,
               Enter(p, Seg(k, r, n, scur, tstat[r]))
        PROVE  AnsweredOnce'
    BY <1>7, <2>2 DEF Resolve, RerunAllowed, Quiet, Fresh, Enter, Seg,
         AnsweredOnce, Hazards, Serves, Turn, rowVars, workerVars, Asking,
         OwnSegments, NewIsNew, AskedAndEnded, Alive, Waiting, TypeInv,
         TypeOK, SegShape, WorkerShape, Idle, Active, Starting, Resolving,
         Answering, Cancelling, Beginning, Own, HasRun
  <2> QED  BY <1>7, <2>1, <2>2 DEF Resolve
<1>8. ASSUME NEW p \in Procs, NEW r \in Runs, NEW n \in Runs, Retry(p, r, n)
      PROVE  AnsweredOnce'
  BY <1>8 DEF Retry, AnsweredOnce, Serves, Turn, Fresh, Unused, NewRow, Enter,
       Seg, workerVars, Asking, OwnSegments, NewIsNew, AskedAndEnded, Alive,
       Waiting, TypeInv, TypeOK, SegShape, WorkerShape, Idle, Hazards, Active,
       Starting, Resolving, Answering, Cancelling, Beginning, Own, HasRun
<1>9. ASSUME NEW p \in Procs, MessageSession(p)  PROVE AnsweredOnce'
  BY <1>9 DEF MessageSession, AnsweredOnce, UpdateSession, StartWorker, Enter,
       Idle, Seg, Asking, OwnSegments, NewIsNew, AskedAndEnded, Alive,
       Waiting, TypeInv, TypeOK, SegShape, WorkerShape, Hazards, Active,
       Starting, Resolving, Answering, Cancelling, Beginning, Own, HasRun
<1>10. ASSUME NEW p \in Procs, AnswerTask(p)  PROVE AnsweredOnce'
  BY <1>10 DEF AnswerTask, AnsweredOnce, UpdateStatus, Enter, workerVars,
       Asking, OwnSegments, NewIsNew, AskedAndEnded, Alive, Waiting, TypeInv,
       TypeOK, SegShape, WorkerShape, Seg, Idle, Hazards, Active, Starting,
       Resolving, Answering, Cancelling, Beginning, Own, HasRun
<1>11. ASSUME NEW p \in Procs, AnswerSession(p)  PROVE AnsweredOnce'
  BY <1>11 DEF AnswerSession, AnsweredOnce, UpdateSession, Enter, Idle, Seg,
       Asking, OwnSegments, NewIsNew, AskedAndEnded, Alive, Waiting, TypeInv,
       TypeOK, SegShape, WorkerShape, Hazards, Active, Starting, Resolving,
       Answering, Cancelling, Beginning, Own, HasRun
<1>12. ASSUME NEW p \in Procs, ArchiveTask(p)  PROVE AnsweredOnce'
  BY <1>12 DEF ArchiveTask, AnsweredOnce, UpdateStatus, Enter, Asking,
       OwnSegments, NewIsNew, AskedAndEnded, Alive, Final, Waiting, TypeInv,
       TypeOK, SegShape, WorkerShape, Seg, Idle, Hazards, Active, Starting,
       Resolving, Answering, Cancelling, Beginning, Own, HasRun
<1>13. ASSUME NEW p \in Procs, ArchiveSession(p)  PROVE AnsweredOnce'
  BY <1>13 DEF ArchiveSession, AnsweredOnce, UpdateSession, Enter, Idle, Seg,
       workerVars, Asking, OwnSegments, NewIsNew, AskedAndEnded, Alive,
       Waiting, TypeInv, TypeOK, SegShape, WorkerShape, Hazards, Active,
       Starting, Resolving, Answering, Cancelling, Beginning, Own, HasRun
<1>14. ASSUME NEW p \in Procs, CancelTask(p)  PROVE AnsweredOnce'
  BY <1>14 DEF CancelTask, AnsweredOnce, UpdateStatus, Enter, Asking,
       OwnSegments, NewIsNew, AskedAndEnded, Alive, Final, Waiting, TypeInv,
       TypeOK, SegShape, WorkerShape, Seg, Idle, Hazards, Active, Starting,
       Resolving, Answering, Cancelling, Beginning, Own, HasRun
<1>15. ASSUME NEW p \in Procs, CancelSession(p)  PROVE AnsweredOnce'
  BY <1>15 DEF CancelSession, AnsweredOnce, UpdateSession, Enter, Idle, Seg,
       workerVars, Asking, OwnSegments, NewIsNew, AskedAndEnded, Alive,
       Waiting, TypeInv, TypeOK, SegShape, WorkerShape, Hazards, Active,
       Starting, Resolving, Answering, Cancelling, Beginning, Own, HasRun
<1>16. ASSUME NEW p \in Procs, RetrySession(p)  PROVE AnsweredOnce'
  BY <1>16 DEF RetrySession, AnsweredOnce, StartWorker, UpdateSession, Enter,
       Idle, Seg, Asking, OwnSegments, NewIsNew, AskedAndEnded, Alive,
       Waiting, TypeInv, TypeOK, SegShape, WorkerShape, Hazards, Active,
       Starting, Reruns, Resolving, Answering, Cancelling, Beginning, Own,
       HasRun
<1>17. ASSUME NEW p \in Procs, RerunCreate(p)  PROVE AnsweredOnce'
  BY <1>17 DEF RerunCreate, AnsweredOnce, NewRow, Enter, workerVars, Asking,
       OwnSegments, NewIsNew, AskedAndEnded, Alive, Waiting, TypeInv, TypeOK,
       SegShape, WorkerShape, Seg, Idle, Hazards, Active, Starting, Resolving,
       Answering, Cancelling, Beginning, Own, HasRun
<1>18. ASSUME NEW p \in Procs, RerunEvent(p)  PROVE AnsweredOnce'
  BY <1>18 DEF RerunEvent, AnsweredOnce, Enter, workerVars, Asking,
       OwnSegments, NewIsNew, AskedAndEnded, ResolvingShape, Alive, Waiting,
       TypeInv, TypeOK, SegShape, WorkerShape, Seg, Idle, Hazards, Active,
       Starting, Reruns, Resolving, Answering, Cancelling, Beginning, Own,
       HasRun
<1>19. ASSUME NEW p \in Procs, RerunParent(p)  PROVE AnsweredOnce'
  BY <1>19 DEF RerunParent, AnsweredOnce, UpdateStatus, Enter, workerVars,
       Asking, OwnSegments, NewIsNew, AskedAndEnded, Alive, Final, Waiting,
       TypeInv, TypeOK, SegShape, WorkerShape, Seg, Idle, Hazards, Active,
       Starting, Resolving, Answering, Cancelling, Beginning, Own, HasRun
<1>20. ASSUME NEW p \in Procs, RerunSession(p)  PROVE AnsweredOnce'
  BY <1>20 DEF RerunSession, AnsweredOnce, UpdateSession, StartWorker, Enter,
       Idle, Seg, Asking, OwnSegments, NewIsNew, AskedAndEnded, Alive,
       Waiting, TaskStatus, TypeInv, TypeOK, SegShape, WorkerShape, Hazards,
       Active, Exists, Starting, Resolving, Answering, Cancelling, Beginning,
       Own, HasRun
<1>21. ASSUME NEW p \in Procs, ResolveEvent(p)  PROVE AnsweredOnce'
  BY <1>21 DEF ResolveEvent, AnsweredOnce, Enter, Idle, Seg, workerVars,
       Asking, OwnSegments, NewIsNew, AskedAndEnded, ResolvingShape, Alive,
       Waiting, TypeInv, TypeOK, SegShape, WorkerShape, Hazards, Active,
       Starting, Resolving, Answering, Cancelling, Beginning, Own, HasRun
<1>22. ASSUME NEW p \in Procs, NEW s \in Final, ResolveTask(p, s)
      PROVE  AnsweredOnce'
  BY <1>22 DEF ResolveTask, AnsweredOnce, Final, UpdateStatus, Enter,
       workerVars, Asking, OwnSegments, NewIsNew, AskedAndEnded, Alive,
       Waiting, TypeInv, TypeOK, SegShape, WorkerShape, Seg, Idle, Hazards,
       Active, Starting, Resolving, Answering, Cancelling, Beginning, Own,
       HasRun
<1>23. ASSUME NEW p \in Procs, ResolveSession(p)  PROVE AnsweredOnce'
  BY <1>23 DEF ResolveSession, AnsweredOnce, UpdateSession, Enter, Idle, Seg,
       workerVars, Asking, OwnSegments, NewIsNew, AskedAndEnded, Alive,
       Waiting, TypeInv, TypeOK, SegShape, WorkerShape, Hazards, Active,
       Starting, Resolving, Answering, Cancelling, Beginning, Own, HasRun
<1>24. ASSUME NEW p \in Procs, BeginSession(p)  PROVE AnsweredOnce'
  BY <1>24 DEF BeginSession, AnsweredOnce, UpdateSession, Enter, workerVars,
       Asking, OwnSegments, NewIsNew, AskedAndEnded, Alive, Waiting, TypeInv,
       TypeOK, SegShape, WorkerShape, Seg, Idle, Hazards, Active, Starting,
       Resolving, Answering, Cancelling, Beginning, Own, HasRun
<1>25. ASSUME NEW p \in Procs, BeginTask(p)  PROVE AnsweredOnce'
  BY <1>25 DEF BeginTask, AnsweredOnce, NewRow, Enter, workerVars, Asking,
       OwnSegments, NewIsNew, AskedAndEnded, Alive, Waiting, TypeInv, TypeOK,
       SegShape, WorkerShape, Seg, Idle, Hazards, Active, Starting, Resolving,
       Answering, Cancelling, Beginning, Own, HasRun
<1>26. ASSUME NEW p \in Procs, StartTask(p)  PROVE AnsweredOnce'
  BY <1>26 DEF StartTask, AnsweredOnce, EndWorker, UpdateStatus, Enter, Idle,
       Seg, Asking, OwnSegments, NewIsNew, AskedAndEnded, Alive, Waiting,
       TypeInv, TypeOK, SegShape, WorkerShape, Hazards, Active, Starting,
       Resolving, Answering, Cancelling, Beginning, Own, HasRun
<1>27. ASSUME NEW p \in Procs, EndSession(p)  PROVE AnsweredOnce'
  BY <1>27 DEF EndSession, AnsweredOnce, UpdateSession, EndWorker, Enter,
       Idle, Seg, Asking, OwnSegments, NewIsNew, AskedAndEnded, Alive,
       Waiting, TypeInv, TypeOK, SegShape, WorkerShape, Hazards, Active,
       Starting, Resolving, Answering, Cancelling, Beginning, Own, HasRun
<1>28. ASSUME NEW p \in Procs, Crash(p)  PROVE AnsweredOnce'
  BY <1>28 DEF Crash, Idle, Seg, rowVars, Alive, Waiting, TypeInv, TypeOK,
       SegShape, WorkerShape, Hazards
<1>29. ASSUME NEW r \in Runs, LeaveUnstarted(r)  PROVE AnsweredOnce'
  BY <1>29 DEF LeaveUnstarted, AnsweredOnce, Active, EndWorker, rowVars,
       Asking, OwnSegments, NewIsNew, AskedAndEnded, Alive, Waiting, TypeInv,
       TypeOK, SegShape, WorkerShape, Seg, Idle, Hazards
<1>30. ASSUME NEW r \in Runs, Begin(r)  PROVE AnsweredOnce'
  BY <1>30 DEF Begin, AnsweredOnce, OnLoop, Turn, Active, Enter, Seg, rowVars,
       workerVars, Asking, OwnSegments, NewIsNew, AskedAndEnded, Alive,
       Waiting, TypeInv, TypeOK, SegShape, WorkerShape, Idle, Hazards,
       Starting, Resolving, Answering, Cancelling, Beginning, Own, HasRun
<1>31. ASSUME NEW r \in Runs, NEW s \in Final \cup Waiting, Outcome(r, s)
      PROVE  AnsweredOnce'
  BY <1>31 DEF Outcome, AnsweredOnce, Final, Waiting, OnLoop, Turn, Active,
       UpdateStatus, Enter, Seg, workerVars, Asking, OwnSegments, NewIsNew,
       AskedAndEnded, Alive, TypeInv, TypeOK, SegShape, WorkerShape, Idle,
       Hazards, Starting, Resolving, Answering, Cancelling, Beginning, Own,
       HasRun
<1>32. ASSUME NEW r \in Runs, AskInput(r)  PROVE AnsweredOnce'
  BY <1>32 DEF AskInput, AnsweredOnce, Active, UpdateStatus, Asking,
       OwnSegments, NewIsNew, AskedAndEnded, Alive, Waiting, Executing,
       TypeInv, TypeOK, SegShape, WorkerShape, Seg, Idle, Hazards
<1>33. ASSUME NEW r \in Runs, GiveUp(r)  PROVE AnsweredOnce'
  BY <1>33 DEF GiveUp, AnsweredOnce, Active, UpdateStatus, workerVars, Asking,
       OwnSegments, NewIsNew, AskedAndEnded, Alive, Final, Waiting, TypeInv,
       TypeOK, SegShape, WorkerShape, Seg, Idle, Hazards
<1>34. ASSUME NEW r \in Runs, NEW n \in Runs, HandOff(r, n)
      PROVE  AnsweredOnce'
  BY <1>34 DEF HandOff, AnsweredOnce, Active, Fresh, Unused, NewRow,
       StartWorker, Asking, OwnSegments, NewIsNew, AskedAndEnded, Alive,
       Waiting, TypeInv, TypeOK, SegShape, WorkerShape, Seg, Idle, Hazards
<1>35. ASSUME NEW p \in Procs, NEW r \in Runs, Recover(p, r)
      PROVE  AnsweredOnce'
  BY <1>35 DEF Recover, AnsweredOnce, Interrupted, Active, UpdateStatus,
       StartWorker, Asking, OwnSegments, NewIsNew, AskedAndEnded, Alive,
       Final, Waiting, TypeInv, TypeOK, SegShape, WorkerShape, Seg, Idle,
       Hazards
<1>36. CASE UNCHANGED vars
  BY <1>36 DEF vars, rowVars, workerVars, Asking, OwnSegments, NewIsNew,
       AnsweredOnce, AskedAndEnded, Alive, Waiting, TypeInv, TypeOK, SegShape,
       WorkerShape, Seg, Idle, Hazards, Active, rowVars, workerVars
<1> QED
  BY <1>1, <1>2, <1>3, <1>4, <1>5, <1>6, <1>7, <1>8, <1>9, <1>10, <1>11,
       <1>12, <1>13, <1>14, <1>15, <1>16, <1>17, <1>18, <1>19, <1>20, <1>21,
       <1>22, <1>23, <1>24, <1>25, <1>26, <1>27, <1>28, <1>29, <1>30, <1>31,
       <1>32, <1>33, <1>34, <1>35, <1>36 DEF Next, Requests, Segments, Works

\* A run that asked for an approval ends.
LEMMA AskedStep ==
  ASSUME Alive, TypeInv, WorkerShape, OwnSegments, ExecutingExists, NewIsNew,
         AnsweredOnce, AskedAndEnded, ResolvingShape, [Next]_vars
  PROVE  AskedAndEnded'
<1>1. ASSUME NEW p \in Procs, NEW n \in Runs, Message(p, n)
      PROVE  AskedAndEnded'
  BY <1>1 DEF Message, AskedAndEnded, Serves, Turn, Enter, Seg, rowVars,
       workerVars, Asking, OwnSegments, NewIsNew, Alive, Waiting, TypeInv,
       TypeOK, SegShape, WorkerShape, Idle, Hazards, Active
<1>2. ASSUME NEW p \in Procs, NEW n \in Runs, StartDirect(p, n)
      PROVE  AskedAndEnded'
  BY <1>2 DEF StartDirect, AskedAndEnded, Fresh, Unused, StartWorker, rowVars,
       Asking, OwnSegments, NewIsNew, Alive, Waiting, TypeInv, TypeOK,
       SegShape, WorkerShape, Seg, Idle, Hazards, Active
<1>3. ASSUME NEW p \in Procs, Answer(p)  PROVE AskedAndEnded'
  BY <1>3 DEF Answer, AskedAndEnded, Serves, Turn, Enter, Seg, rowVars,
       workerVars, Asking, OwnSegments, NewIsNew, Alive, Waiting, TypeInv,
       TypeOK, SegShape, WorkerShape, Idle, Hazards, Active
<1>4. ASSUME NEW p \in Procs, Archive(p)  PROVE AskedAndEnded'
  BY <1>4 DEF Archive, AskedAndEnded, Serves, Turn, Enter, Seg, rowVars,
       workerVars, Asking, OwnSegments, NewIsNew, Alive, Waiting, TypeInv,
       TypeOK, SegShape, WorkerShape, Idle, Hazards, Active
<1>5. ASSUME NEW p \in Procs, Unarchive(p)  PROVE AskedAndEnded'
  BY <1>5 DEF Unarchive, AskedAndEnded, workerVars, Asking, OwnSegments,
       NewIsNew, Alive, Waiting, TypeInv, TypeOK, SegShape, WorkerShape, Seg,
       Idle, Hazards, Active
<1>6. ASSUME NEW p \in Procs, NEW r \in Runs, Cancel(p, r)
      PROVE  AskedAndEnded'
  BY <1>6 DEF Cancel, AskedAndEnded, Serves, Turn, Enter, Seg, rowVars,
       workerVars, Asking, OwnSegments, NewIsNew, Alive, Waiting, TypeInv,
       TypeOK, SegShape, WorkerShape, Idle, Hazards, Active
<1>7. ASSUME NEW p \in Procs, NEW r \in Runs, NEW k \in {"resolve", "rerun"},
             Resolve(p, r, k)
      PROVE  AskedAndEnded'
  <2>1. CASE k = "resolve" /\ Enter(p, Seg(k, r, None, scur, tstat[r]))
    BY <1>7, <2>1 DEF Resolve, Enter, Seg, AskedAndEnded, Serves, Turn,
         rowVars, workerVars, Asking, OwnSegments, NewIsNew, Alive, Waiting,
         TypeInv, TypeOK, SegShape, WorkerShape, Idle, Hazards, Active
  <2>2. ASSUME NEW n \in Runs, k = "rerun", RerunAllowed(r), Fresh(n),
               "unchecked" \in Hazards \/ Quiet,
               Enter(p, Seg(k, r, n, scur, tstat[r]))
        PROVE  AskedAndEnded'
    BY <1>7, <2>2 DEF Resolve, RerunAllowed, Quiet, Fresh, Enter, Seg,
         AskedAndEnded, Hazards, Serves, Turn, rowVars, workerVars, Asking,
         OwnSegments, NewIsNew, Alive, Waiting, TypeInv, TypeOK, SegShape,
         WorkerShape, Idle, Active
  <2> QED  BY <1>7, <2>1, <2>2 DEF Resolve
<1>8. ASSUME NEW p \in Procs, NEW r \in Runs, NEW n \in Runs, Retry(p, r, n)
      PROVE  AskedAndEnded'
  BY <1>8 DEF Retry, AskedAndEnded, Serves, Turn, Fresh, Unused, NewRow,
       Enter, Seg, workerVars, Asking, OwnSegments, NewIsNew, Alive, Waiting,
       TypeInv, TypeOK, SegShape, WorkerShape, Idle, Hazards, Active
<1>9. ASSUME NEW p \in Procs, MessageSession(p)  PROVE AskedAndEnded'
  BY <1>9 DEF MessageSession, AskedAndEnded, StartWorker, Enter, Idle, Seg,
       Asking, OwnSegments, NewIsNew, Alive, Waiting, TypeInv, TypeOK,
       SegShape, WorkerShape, Hazards, Active, Starting, Resolving, Answering,
       Cancelling, Beginning, Own, HasRun
<1>10. ASSUME NEW p \in Procs, AnswerTask(p)  PROVE AskedAndEnded'
  BY <1>10 DEF AnswerTask, AskedAndEnded, UpdateStatus, Enter, workerVars,
       Asking, OwnSegments, NewIsNew, Alive, Final, Waiting, TypeInv, TypeOK,
       SegShape, WorkerShape, Seg, Idle, Hazards, Active
<1>11. ASSUME NEW p \in Procs, AnswerSession(p)  PROVE AskedAndEnded'
  BY <1>11 DEF AnswerSession, AskedAndEnded, StartWorker, Enter, Idle, Seg,
       Asking, OwnSegments, NewIsNew, AnsweredOnce, Alive, Waiting, TypeInv,
       TypeOK, SegShape, WorkerShape, Hazards, Active, Starting, Resolving,
       Answering, Cancelling, Beginning, Own, HasRun
<1>12. ASSUME NEW p \in Procs, ArchiveTask(p)  PROVE AskedAndEnded'
  BY <1>12 DEF ArchiveTask, AskedAndEnded, UpdateStatus, Enter, Asking,
       OwnSegments, NewIsNew, Alive, Final, Waiting, TypeInv, TypeOK,
       SegShape, WorkerShape, Seg, Idle, Hazards, Active
<1>13. ASSUME NEW p \in Procs, ArchiveSession(p)  PROVE AskedAndEnded'
  BY <1>13 DEF ArchiveSession, AskedAndEnded, Enter, Idle, Seg, workerVars,
       Asking, OwnSegments, NewIsNew, Alive, Waiting, TypeInv, TypeOK,
       SegShape, WorkerShape, Hazards, Active
<1>14. ASSUME NEW p \in Procs, CancelTask(p)  PROVE AskedAndEnded'
  BY <1>14 DEF CancelTask, AskedAndEnded, UpdateStatus, Enter, Asking,
       OwnSegments, NewIsNew, Alive, Final, Waiting, TypeInv, TypeOK,
       SegShape, WorkerShape, Seg, Idle, Hazards, Active
<1>15. ASSUME NEW p \in Procs, CancelSession(p)  PROVE AskedAndEnded'
  BY <1>15 DEF CancelSession, AskedAndEnded, Enter, Idle, Seg, workerVars,
       Asking, OwnSegments, NewIsNew, Alive, Waiting, TypeInv, TypeOK,
       SegShape, WorkerShape, Hazards, Active
<1>16. ASSUME NEW p \in Procs, RetrySession(p)  PROVE AskedAndEnded'
  BY <1>16 DEF RetrySession, AskedAndEnded, StartWorker, Enter, Idle, Seg,
       Asking, OwnSegments, NewIsNew, Alive, Waiting, TypeInv, TypeOK,
       SegShape, WorkerShape, Hazards, Active, Starting, Resolving, Answering,
       Cancelling, Beginning, Own, HasRun
<1>17. ASSUME NEW p \in Procs, RerunCreate(p)  PROVE AskedAndEnded'
  BY <1>17 DEF RerunCreate, AskedAndEnded, NewRow, Enter, workerVars, Asking,
       OwnSegments, NewIsNew, Alive, Waiting, TypeInv, TypeOK, SegShape,
       WorkerShape, Seg, Idle, Hazards, Active, Starting, Resolving,
       Answering, Cancelling, Beginning, Own, HasRun
<1>18. ASSUME NEW p \in Procs, RerunEvent(p)  PROVE AskedAndEnded'
  BY <1>18 DEF RerunEvent, AskedAndEnded, Enter, workerVars, Asking,
       OwnSegments, NewIsNew, ResolvingShape, Alive, Waiting, TypeInv, TypeOK,
       SegShape, WorkerShape, Seg, Idle, Hazards, Active, Starting, Reruns,
       Resolving, Answering, Cancelling, Beginning, Own, HasRun
<1>19. ASSUME NEW p \in Procs, RerunParent(p)  PROVE AskedAndEnded'
  BY <1>19 DEF RerunParent, AskedAndEnded, UpdateStatus, Enter, workerVars,
       Asking, OwnSegments, NewIsNew, Alive, Final, Waiting, TypeInv, TypeOK,
       SegShape, WorkerShape, Seg, Idle, Hazards, Active
<1>20. ASSUME NEW p \in Procs, RerunSession(p)  PROVE AskedAndEnded'
  BY <1>20 DEF RerunSession, AskedAndEnded, StartWorker, Enter, Idle, Seg,
       Asking, OwnSegments, NewIsNew, Alive, Waiting, TypeInv, TypeOK,
       SegShape, WorkerShape, Hazards, Active, Starting, Resolving, Answering,
       Cancelling, Beginning, Own, HasRun
<1>21. ASSUME NEW p \in Procs, ResolveEvent(p)  PROVE AskedAndEnded'
  BY <1>21 DEF ResolveEvent, AskedAndEnded, Enter, Idle, Seg, workerVars,
       Asking, OwnSegments, NewIsNew, ResolvingShape, Alive, Waiting, TypeInv,
       TypeOK, SegShape, WorkerShape, Hazards, Active, Starting, Resolving,
       Answering, Cancelling, Beginning, Own, HasRun
<1>22. ASSUME NEW p \in Procs, NEW s \in Final, ResolveTask(p, s)
      PROVE  AskedAndEnded'
  BY <1>22 DEF ResolveTask, AskedAndEnded, Final, UpdateStatus, Enter,
       workerVars, Asking, OwnSegments, NewIsNew, Alive, Waiting, TypeInv,
       TypeOK, SegShape, WorkerShape, Seg, Idle, Hazards, Active
<1>23. ASSUME NEW p \in Procs, ResolveSession(p)  PROVE AskedAndEnded'
  BY <1>23 DEF ResolveSession, AskedAndEnded, Enter, Idle, Seg, workerVars,
       Asking, OwnSegments, NewIsNew, Alive, Waiting, TypeInv, TypeOK,
       SegShape, WorkerShape, Hazards, Active
<1>24. ASSUME NEW p \in Procs, BeginSession(p)  PROVE AskedAndEnded'
  BY <1>24 DEF BeginSession, AskedAndEnded, Enter, workerVars, Asking,
       OwnSegments, NewIsNew, Alive, Waiting, TypeInv, TypeOK, SegShape,
       WorkerShape, Seg, Idle, Hazards, Active
<1>25. ASSUME NEW p \in Procs, BeginTask(p)  PROVE AskedAndEnded'
  BY <1>25 DEF BeginTask, AskedAndEnded, Exists, NewRow, Enter, workerVars,
       Asking, OwnSegments, NewIsNew, Alive, Final, Waiting, TypeInv, TypeOK,
       SegShape, WorkerShape, Seg, Idle, Hazards, Active
<1>26. ASSUME NEW p \in Procs, StartTask(p)  PROVE AskedAndEnded'
  BY <1>26 DEF StartTask, AskedAndEnded, EndWorker, UpdateStatus, Enter, Idle,
       Seg, Asking, OwnSegments, NewIsNew, Alive, Waiting, TypeInv, TypeOK,
       SegShape, WorkerShape, Hazards, Active, Starting, Resolving, Answering,
       Cancelling, Beginning, Own, HasRun
<1>27. ASSUME NEW p \in Procs, EndSession(p)  PROVE AskedAndEnded'
  BY <1>27 DEF EndSession, AskedAndEnded, EndWorker, Enter, Idle, Seg, Asking,
       OwnSegments, NewIsNew, Alive, Waiting, TypeInv, TypeOK, SegShape,
       WorkerShape, Hazards, Active
<1>28. ASSUME NEW p \in Procs, Crash(p)  PROVE AskedAndEnded'
  BY <1>28 DEF Crash, Idle, Seg, rowVars, Alive, Waiting, TypeInv, TypeOK,
       SegShape, WorkerShape, Hazards
<1>29. ASSUME NEW r \in Runs, LeaveUnstarted(r)  PROVE AskedAndEnded'
  BY <1>29 DEF LeaveUnstarted, AskedAndEnded, Active, EndWorker, rowVars,
       Asking, OwnSegments, NewIsNew, Alive, Waiting, TypeInv, TypeOK,
       SegShape, WorkerShape, Seg, Idle, Hazards
<1>30. ASSUME NEW r \in Runs, Begin(r)  PROVE AskedAndEnded'
  BY <1>30 DEF Begin, AskedAndEnded, OnLoop, Turn, Active, Enter, Seg,
       rowVars, workerVars, Asking, OwnSegments, NewIsNew, Alive, Waiting,
       TypeInv, TypeOK, SegShape, WorkerShape, Idle, Hazards
<1>31. ASSUME NEW r \in Runs, NEW s \in Final \cup Waiting, Outcome(r, s)
      PROVE  AskedAndEnded'
  <2>1. /\ seg[wproc[r]] = Idle /\ wproc[r] \in Procs /\ wpc[r] \in Executing /\ Exists(r)
        /\ tstat' = [tstat EXCEPT ![r] = s] /\ wpc' = wpc
        /\ approval' = IF s = "waiting_approval" THEN [approval EXCEPT ![r] = "requested"] ELSE approval
        /\ seg' = [seg EXCEPT ![wproc[r]] = Seg("ending", r, None, None, s)]
    BY <1>31 DEF Outcome, Exists, Executing, ExecutingExists, OnLoop, Turn,
         Active, UpdateStatus, Enter, workerVars, TypeInv, TypeOK, WorkerShape
  <2>2. approval[r] = "none"
    BY <2>1 DEF AskedAndEnded, Asking, OwnSegments, Own, Active, Idle, Seg,
         Executing
  <2>3. s = "waiting_approval" => Asking(r)'
    BY <2>1 DEF Asking, Seg, TypeInv, TypeOK
  <2>4. ASSUME NEW n \in Runs \ {r}, Asking(n)  PROVE Asking(n)'
    BY <2>1, <2>4 DEF Asking, Idle, Seg
  <2> QED  BY <2>1, <2>2, <2>3, <2>4 DEF AskedAndEnded, Active, TypeInv,
       TypeOK
<1>32. ASSUME NEW r \in Runs, AskInput(r)  PROVE AskedAndEnded'
  BY <1>32 DEF AskInput, AskedAndEnded, OnLoop, Turn, Active, UpdateStatus,
       Asking, OwnSegments, NewIsNew, Alive, Waiting, TypeInv, TypeOK,
       SegShape, WorkerShape, Seg, Idle, Hazards, Starting, Resolving,
       Answering, Cancelling, Beginning, Own, HasRun
<1>33. ASSUME NEW r \in Runs, GiveUp(r)  PROVE AskedAndEnded'
  BY <1>33 DEF GiveUp, AskedAndEnded, Active, UpdateStatus, workerVars,
       Asking, OwnSegments, NewIsNew, Alive, Final, Waiting, TypeInv, TypeOK,
       SegShape, WorkerShape, Seg, Idle, Hazards
<1>34. ASSUME NEW r \in Runs, NEW n \in Runs, HandOff(r, n)
      PROVE  AskedAndEnded'
  BY <1>34 DEF HandOff, AskedAndEnded, Active, Fresh, Unused, NewRow,
       StartWorker, Asking, OwnSegments, NewIsNew, Alive, Waiting, TypeInv,
       TypeOK, SegShape, WorkerShape, Seg, Idle, Hazards
<1>35. ASSUME NEW p \in Procs, NEW r \in Runs, Recover(p, r)
      PROVE  AskedAndEnded'
  BY <1>35 DEF Recover, AskedAndEnded, Interrupted, Active, UpdateStatus,
       StartWorker, Asking, OwnSegments, NewIsNew, Alive, Final, Waiting,
       TypeInv, TypeOK, SegShape, WorkerShape, Seg, Idle, Hazards
<1>36. CASE UNCHANGED vars
  BY <1>36 DEF vars, rowVars, workerVars, Asking, OwnSegments, NewIsNew,
       AskedAndEnded, Alive, Waiting, TypeInv, TypeOK, SegShape, WorkerShape,
       Seg, Idle, Hazards, Active, rowVars, workerVars
<1> QED
  BY <1>1, <1>2, <1>3, <1>4, <1>5, <1>6, <1>7, <1>8, <1>9, <1>10, <1>11,
       <1>12, <1>13, <1>14, <1>15, <1>16, <1>17, <1>18, <1>19, <1>20, <1>21,
       <1>22, <1>23, <1>24, <1>25, <1>26, <1>27, <1>28, <1>29, <1>30, <1>31,
       <1>32, <1>33, <1>34, <1>35, <1>36 DEF Next, Requests, Segments, Works

\* Code that resolves a request found one.
LEMMA ResolvingStep ==
  ASSUME Alive, TypeInv, WorkerShape, OwnSegments, ExecutingExists, NewIsNew,
         AnsweredOnce, AskedAndEnded, ResolvingShape, [Next]_vars
  PROVE  ResolvingShape'
<1>1. ASSUME NEW p \in Procs, NEW n \in Runs, Message(p, n)
      PROVE  ResolvingShape'
  BY <1>1 DEF Message, ResolvingShape, Enter, Seg, rowVars, OwnSegments,
       NewIsNew, AskedAndEnded, Alive, Waiting, TypeInv, TypeOK, SegShape,
       WorkerShape, Idle, Hazards, Starting, Reruns, Resolving, Answering,
       Cancelling, Beginning, Own, HasRun
<1>2. ASSUME NEW p \in Procs, NEW n \in Runs, StartDirect(p, n)
      PROVE  ResolvingShape'
  BY <1>2 DEF StartDirect, ResolvingShape, rowVars, OwnSegments, NewIsNew,
       AskedAndEnded, Alive, Waiting, TypeInv, TypeOK, SegShape, WorkerShape,
       Seg, Idle, Hazards
<1>3. ASSUME NEW p \in Procs, Answer(p)  PROVE ResolvingShape'
  BY <1>3 DEF Answer, ResolvingShape, Enter, Seg, rowVars, OwnSegments,
       NewIsNew, AskedAndEnded, Alive, Waiting, TypeInv, TypeOK, SegShape,
       WorkerShape, Idle, Hazards, Starting, Reruns, Resolving, Answering,
       Cancelling, Beginning, Own, HasRun
<1>4. ASSUME NEW p \in Procs, Archive(p)  PROVE ResolvingShape'
  BY <1>4 DEF Archive, ResolvingShape, Enter, Seg, rowVars, OwnSegments,
       NewIsNew, AskedAndEnded, Alive, Waiting, TypeInv, TypeOK, SegShape,
       WorkerShape, Idle, Hazards, Starting, Reruns, Resolving, Answering,
       Cancelling, Beginning, Own, HasRun
<1>5. ASSUME NEW p \in Procs, Unarchive(p)  PROVE ResolvingShape'
  BY <1>5 DEF Unarchive, ResolvingShape, OwnSegments, NewIsNew, AskedAndEnded,
       Alive, Waiting, TypeInv, TypeOK, SegShape, WorkerShape, Seg, Idle,
       Hazards
<1>6. ASSUME NEW p \in Procs, NEW r \in Runs, Cancel(p, r)
      PROVE  ResolvingShape'
  BY <1>6 DEF Cancel, ResolvingShape, Enter, Seg, rowVars, OwnSegments,
       NewIsNew, AskedAndEnded, Alive, Waiting, TypeInv, TypeOK, SegShape,
       WorkerShape, Idle, Hazards, Starting, Reruns, Resolving, Answering,
       Cancelling, Beginning, Own, HasRun
<1>7. ASSUME NEW p \in Procs, NEW r \in Runs, NEW k \in {"resolve", "rerun"},
             Resolve(p, r, k)
      PROVE  ResolvingShape'
  <2>1. CASE k = "resolve" /\ Enter(p, Seg(k, r, None, scur, tstat[r]))
    BY <1>7, <2>1 DEF Resolve, Enter, Seg, ResolvingShape, rowVars,
         OwnSegments, NewIsNew, AskedAndEnded, Alive, Waiting, TypeInv,
         TypeOK, SegShape, WorkerShape, Idle, Hazards
  <2>2. ASSUME NEW n \in Runs, k = "rerun", RerunAllowed(r), Fresh(n),
               "unchecked" \in Hazards \/ Quiet,
               Enter(p, Seg(k, r, n, scur, tstat[r]))
        PROVE  ResolvingShape'
    BY <1>7, <2>2 DEF Resolve, RerunAllowed, Quiet, Fresh, Enter, Seg,
         ResolvingShape, Hazards, rowVars, OwnSegments, NewIsNew,
         AskedAndEnded, Alive, Waiting, TypeInv, TypeOK, SegShape,
         WorkerShape, Idle
  <2> QED  BY <1>7, <2>1, <2>2 DEF Resolve
<1>8. ASSUME NEW p \in Procs, NEW r \in Runs, NEW n \in Runs, Retry(p, r, n)
      PROVE  ResolvingShape'
  BY <1>8 DEF Retry, ResolvingShape, Enter, Seg, OwnSegments, NewIsNew,
       AskedAndEnded, Alive, Waiting, TypeInv, TypeOK, SegShape, WorkerShape,
       Idle, Hazards, Starting, Reruns, Resolving, Answering, Cancelling,
       Beginning, Own, HasRun
<1>9. ASSUME NEW p \in Procs, MessageSession(p)  PROVE ResolvingShape'
  BY <1>9 DEF MessageSession, ResolvingShape, Enter, Idle, Seg, OwnSegments,
       NewIsNew, AskedAndEnded, Alive, Waiting, TypeInv, TypeOK, SegShape,
       WorkerShape, Hazards, Starting, Reruns, Resolving, Answering,
       Cancelling, Beginning, Own, HasRun
<1>10. ASSUME NEW p \in Procs, AnswerTask(p)  PROVE ResolvingShape'
  BY <1>10 DEF AnswerTask, ResolvingShape, Enter, OwnSegments, NewIsNew,
       AskedAndEnded, Alive, Waiting, TypeInv, TypeOK, SegShape, WorkerShape,
       Seg, Idle, Hazards, Starting, Reruns, Resolving, Answering, Cancelling,
       Beginning, Own, HasRun
<1>11. ASSUME NEW p \in Procs, AnswerSession(p)  PROVE ResolvingShape'
  BY <1>11 DEF AnswerSession, ResolvingShape, Enter, Idle, Seg, OwnSegments,
       NewIsNew, AskedAndEnded, Alive, Waiting, TypeInv, TypeOK, SegShape,
       WorkerShape, Hazards, Starting, Reruns, Resolving, Answering,
       Cancelling, Beginning, Own, HasRun
<1>12. ASSUME NEW p \in Procs, ArchiveTask(p)  PROVE ResolvingShape'
  BY <1>12 DEF ArchiveTask, ResolvingShape, Enter, OwnSegments, NewIsNew,
       AskedAndEnded, Alive, Waiting, TypeInv, TypeOK, SegShape, WorkerShape,
       Seg, Idle, Hazards, Starting, Reruns, Resolving, Answering, Cancelling,
       Beginning, Own, HasRun
<1>13. ASSUME NEW p \in Procs, ArchiveSession(p)  PROVE ResolvingShape'
  BY <1>13 DEF ArchiveSession, ResolvingShape, Enter, Idle, Seg, OwnSegments,
       NewIsNew, AskedAndEnded, Alive, Waiting, TypeInv, TypeOK, SegShape,
       WorkerShape, Hazards, Starting, Reruns, Resolving, Answering,
       Cancelling, Beginning, Own, HasRun
<1>14. ASSUME NEW p \in Procs, CancelTask(p)  PROVE ResolvingShape'
  BY <1>14 DEF CancelTask, ResolvingShape, Enter, OwnSegments, NewIsNew,
       AskedAndEnded, Alive, Waiting, TypeInv, TypeOK, SegShape, WorkerShape,
       Seg, Idle, Hazards, Starting, Reruns, Resolving, Answering, Cancelling,
       Beginning, Own, HasRun
<1>15. ASSUME NEW p \in Procs, CancelSession(p)  PROVE ResolvingShape'
  BY <1>15 DEF CancelSession, ResolvingShape, Enter, Idle, Seg, OwnSegments,
       NewIsNew, AskedAndEnded, Alive, Waiting, TypeInv, TypeOK, SegShape,
       WorkerShape, Hazards, Starting, Reruns, Resolving, Answering,
       Cancelling, Beginning, Own, HasRun
<1>16. ASSUME NEW p \in Procs, RetrySession(p)  PROVE ResolvingShape'
  BY <1>16 DEF RetrySession, ResolvingShape, Enter, Idle, Seg, OwnSegments,
       NewIsNew, AskedAndEnded, Alive, Waiting, TypeInv, TypeOK, SegShape,
       WorkerShape, Hazards, Starting, Reruns, Resolving, Answering,
       Cancelling, Beginning, Own, HasRun
<1>17. ASSUME NEW p \in Procs, RerunCreate(p)  PROVE ResolvingShape'
  BY <1>17 DEF RerunCreate, ResolvingShape, Enter, OwnSegments, NewIsNew,
       AskedAndEnded, Alive, Waiting, TypeInv, TypeOK, SegShape, WorkerShape,
       Seg, Idle, Hazards, Starting, Reruns, Resolving, Answering, Cancelling,
       Beginning, Own, HasRun
<1>18. ASSUME NEW p \in Procs, RerunEvent(p)  PROVE ResolvingShape'
  BY <1>18 DEF RerunEvent, ResolvingShape, Enter, OwnSegments, NewIsNew,
       AskedAndEnded, Alive, Waiting, TypeInv, TypeOK, SegShape, WorkerShape,
       Seg, Idle, Hazards, Starting, Reruns, Resolving, Answering, Cancelling,
       Beginning, Own, HasRun
<1>19. ASSUME NEW p \in Procs, RerunParent(p)  PROVE ResolvingShape'
  BY <1>19 DEF RerunParent, ResolvingShape, Enter, OwnSegments, NewIsNew,
       AskedAndEnded, Alive, Waiting, TypeInv, TypeOK, SegShape, WorkerShape,
       Seg, Idle, Hazards, Starting, Reruns, Resolving, Answering, Cancelling,
       Beginning, Own, HasRun
<1>20. ASSUME NEW p \in Procs, RerunSession(p)  PROVE ResolvingShape'
  BY <1>20 DEF RerunSession, ResolvingShape, Enter, Idle, Seg, OwnSegments,
       NewIsNew, AskedAndEnded, Alive, Waiting, TypeInv, TypeOK, SegShape,
       WorkerShape, Hazards, Starting, Reruns, Resolving, Answering,
       Cancelling, Beginning, Own, HasRun
<1>21. ASSUME NEW p \in Procs, ResolveEvent(p)  PROVE ResolvingShape'
  BY <1>21 DEF ResolveEvent, ResolvingShape, Enter, Idle, Seg, OwnSegments,
       NewIsNew, AskedAndEnded, Alive, Waiting, TypeInv, TypeOK, SegShape,
       WorkerShape, Hazards, Starting, Reruns, Resolving, Answering,
       Cancelling, Beginning, Own, HasRun
<1>22. ASSUME NEW p \in Procs, NEW s \in Final, ResolveTask(p, s)
      PROVE  ResolvingShape'
  BY <1>22 DEF ResolveTask, ResolvingShape, Final, Enter, OwnSegments,
       NewIsNew, AskedAndEnded, Alive, Waiting, TypeInv, TypeOK, SegShape,
       WorkerShape, Seg, Idle, Hazards, Starting, Resolving, Answering,
       Cancelling, Beginning, Own, HasRun
<1>23. ASSUME NEW p \in Procs, ResolveSession(p)  PROVE ResolvingShape'
  BY <1>23 DEF ResolveSession, ResolvingShape, Enter, Idle, Seg, OwnSegments,
       NewIsNew, AskedAndEnded, Alive, Waiting, TypeInv, TypeOK, SegShape,
       WorkerShape, Hazards, Starting, Reruns, Resolving, Answering,
       Cancelling, Beginning, Own, HasRun
<1>24. ASSUME NEW p \in Procs, BeginSession(p)  PROVE ResolvingShape'
  BY <1>24 DEF BeginSession, ResolvingShape, Enter, OwnSegments, NewIsNew,
       AskedAndEnded, Alive, Waiting, TypeInv, TypeOK, SegShape, WorkerShape,
       Seg, Idle, Hazards, Starting, Reruns, Resolving, Answering, Cancelling,
       Beginning, Own, HasRun
<1>25. ASSUME NEW p \in Procs, BeginTask(p)  PROVE ResolvingShape'
  BY <1>25 DEF BeginTask, ResolvingShape, Enter, OwnSegments, NewIsNew,
       AskedAndEnded, Alive, Waiting, TypeInv, TypeOK, SegShape, WorkerShape,
       Seg, Idle, Hazards, Starting, Reruns, Resolving, Answering, Cancelling,
       Beginning, Own, HasRun
<1>26. ASSUME NEW p \in Procs, StartTask(p)  PROVE ResolvingShape'
  BY <1>26 DEF StartTask, ResolvingShape, Enter, Idle, Seg, OwnSegments,
       NewIsNew, AskedAndEnded, Alive, Waiting, TypeInv, TypeOK, SegShape,
       WorkerShape, Hazards, Starting, Reruns, Resolving, Answering,
       Cancelling, Beginning, Own, HasRun
<1>27. ASSUME NEW p \in Procs, EndSession(p)  PROVE ResolvingShape'
  BY <1>27 DEF EndSession, ResolvingShape, Enter, Idle, Seg, OwnSegments,
       NewIsNew, AskedAndEnded, Alive, Waiting, TypeInv, TypeOK, SegShape,
       WorkerShape, Hazards, Starting, Reruns, Resolving, Answering,
       Cancelling, Beginning, Own, HasRun
<1>28. ASSUME NEW p \in Procs, Crash(p)  PROVE ResolvingShape'
  BY <1>28 DEF Crash, Idle, Seg, rowVars, Alive, Waiting, TypeInv, TypeOK,
       SegShape, WorkerShape, Hazards
<1>29. ASSUME NEW r \in Runs, LeaveUnstarted(r)  PROVE ResolvingShape'
  BY <1>29 DEF LeaveUnstarted, ResolvingShape, rowVars, OwnSegments, NewIsNew,
       AskedAndEnded, Alive, Waiting, TypeInv, TypeOK, SegShape, WorkerShape,
       Seg, Idle, Hazards
<1>30. ASSUME NEW r \in Runs, Begin(r)  PROVE ResolvingShape'
  BY <1>30 DEF Begin, ResolvingShape, Enter, Seg, rowVars, OwnSegments,
       NewIsNew, AskedAndEnded, Alive, Waiting, TypeInv, TypeOK, SegShape,
       WorkerShape, Idle, Hazards, Starting, Reruns, Resolving, Answering,
       Cancelling, Beginning, Own, HasRun
<1>31. ASSUME NEW r \in Runs, NEW s \in Final \cup Waiting, Outcome(r, s)
      PROVE  ResolvingShape'
  BY <1>31 DEF Outcome, ResolvingShape, Final, Waiting, Enter, Seg,
       OwnSegments, NewIsNew, AskedAndEnded, Alive, TypeInv, TypeOK, SegShape,
       WorkerShape, Idle, Hazards, Starting, Reruns, Resolving, Answering,
       Cancelling, Beginning, Own, HasRun
<1>32. ASSUME NEW r \in Runs, AskInput(r)  PROVE ResolvingShape'
  BY <1>32 DEF AskInput, ResolvingShape, OwnSegments, NewIsNew, AskedAndEnded,
       Alive, Waiting, TypeInv, TypeOK, SegShape, WorkerShape, Seg, Idle,
       Hazards
<1>33. ASSUME NEW r \in Runs, GiveUp(r)  PROVE ResolvingShape'
  BY <1>33 DEF GiveUp, ResolvingShape, OwnSegments, NewIsNew, AskedAndEnded,
       Alive, Waiting, TypeInv, TypeOK, SegShape, WorkerShape, Seg, Idle,
       Hazards
<1>34. ASSUME NEW r \in Runs, NEW n \in Runs, HandOff(r, n)
      PROVE  ResolvingShape'
  BY <1>34 DEF HandOff, ResolvingShape, OwnSegments, NewIsNew, AskedAndEnded,
       Alive, Waiting, TypeInv, TypeOK, SegShape, WorkerShape, Seg, Idle,
       Hazards
<1>35. ASSUME NEW p \in Procs, NEW r \in Runs, Recover(p, r)
      PROVE  ResolvingShape'
  BY <1>35 DEF Recover, ResolvingShape, OwnSegments, NewIsNew, AskedAndEnded,
       Alive, Waiting, TypeInv, TypeOK, SegShape, WorkerShape, Seg, Idle,
       Hazards
<1>36. CASE UNCHANGED vars
  BY <1>36 DEF vars, rowVars, OwnSegments, NewIsNew, AskedAndEnded,
       ResolvingShape, Alive, Waiting, TypeInv, TypeOK, SegShape, WorkerShape,
       Seg, Idle, Hazards, rowVars
<1> QED
  BY <1>1, <1>2, <1>3, <1>4, <1>5, <1>6, <1>7, <1>8, <1>9, <1>10, <1>11,
       <1>12, <1>13, <1>14, <1>15, <1>16, <1>17, <1>18, <1>19, <1>20, <1>21,
       <1>22, <1>23, <1>24, <1>25, <1>26, <1>27, <1>28, <1>29, <1>30, <1>31,
       <1>32, <1>33, <1>34, <1>35, <1>36 DEF Next, Requests, Segments, Works

\* Every worker has a process.
LEMMA WorkerStep ==
  ASSUME Alive, TypeInv, WorkerShape, OwnSegments, ExecutingExists, NewIsNew,
         AnsweredOnce, AskedAndEnded, ResolvingShape, [Next]_vars
  PROVE  WorkerShape'
<1>1. ASSUME NEW p \in Procs, NEW n \in Runs, Message(p, n)
      PROVE  WorkerShape'
  BY <1>1 DEF Message, WorkerShape, Enter, Seg, rowVars, workerVars, Idle,
       TypeInv, TypeOK, SegShape, Alive, Hazards
<1>2. ASSUME NEW p \in Procs, NEW n \in Runs, StartDirect(p, n)
      PROVE  WorkerShape'
  BY <1>2 DEF StartDirect, WorkerShape, StartWorker, rowVars, Idle, Seg,
       TypeInv, TypeOK, SegShape, Alive, Hazards
<1>3. ASSUME NEW p \in Procs, Answer(p)  PROVE WorkerShape'
  BY <1>3 DEF Answer, WorkerShape, Enter, Seg, rowVars, workerVars, Idle,
       TypeInv, TypeOK, SegShape, Alive, Hazards
<1>4. ASSUME NEW p \in Procs, Archive(p)  PROVE WorkerShape'
  BY <1>4 DEF Archive, WorkerShape, Enter, Seg, rowVars, workerVars, Idle,
       TypeInv, TypeOK, SegShape, Alive, Hazards
<1>5. ASSUME NEW p \in Procs, Unarchive(p)  PROVE WorkerShape'
  BY <1>5 DEF Unarchive, WorkerShape, workerVars, Idle, Seg, TypeInv, TypeOK,
       SegShape, Alive, Hazards
<1>6. ASSUME NEW p \in Procs, NEW r \in Runs, Cancel(p, r)  PROVE WorkerShape'
  BY <1>6 DEF Cancel, WorkerShape, Enter, Seg, rowVars, workerVars, Idle,
       TypeInv, TypeOK, SegShape, Alive, Hazards
<1>7. ASSUME NEW p \in Procs, NEW r \in Runs, NEW k \in {"resolve", "rerun"},
             Resolve(p, r, k)
      PROVE  WorkerShape'
  <2>1. CASE k = "resolve" /\ Enter(p, Seg(k, r, None, scur, tstat[r]))
    BY <1>7, <2>1 DEF Resolve, Enter, Seg, WorkerShape, rowVars, workerVars,
         Idle, TypeInv, TypeOK, SegShape, Alive, Hazards
  <2>2. ASSUME NEW n \in Runs, k = "rerun", RerunAllowed(r), Fresh(n),
               "unchecked" \in Hazards \/ Quiet,
               Enter(p, Seg(k, r, n, scur, tstat[r]))
        PROVE  WorkerShape'
    BY <1>7, <2>2 DEF Resolve, RerunAllowed, Quiet, Fresh, Enter, Seg,
         WorkerShape, Hazards, rowVars, workerVars, Idle, TypeInv, TypeOK,
         SegShape, Alive
  <2> QED  BY <1>7, <2>1, <2>2 DEF Resolve
<1>8. ASSUME NEW p \in Procs, NEW r \in Runs, NEW n \in Runs, Retry(p, r, n)
      PROVE  WorkerShape'
  BY <1>8 DEF Retry, WorkerShape, Enter, Seg, workerVars, Idle, TypeInv,
       TypeOK, SegShape, Alive, Hazards
<1>9. ASSUME NEW p \in Procs, MessageSession(p)  PROVE WorkerShape'
  BY <1>9 DEF MessageSession, WorkerShape, StartWorker, Enter, Idle, Seg,
       TypeInv, TypeOK, SegShape, Alive, Hazards
<1>10. ASSUME NEW p \in Procs, AnswerTask(p)  PROVE WorkerShape'
  BY <1>10 DEF AnswerTask, WorkerShape, Enter, workerVars, Idle, Seg, TypeInv,
       TypeOK, SegShape, Alive, Hazards
<1>11. ASSUME NEW p \in Procs, AnswerSession(p)  PROVE WorkerShape'
  BY <1>11 DEF AnswerSession, WorkerShape, StartWorker, Enter, Idle, Seg,
       TypeInv, TypeOK, SegShape, Alive, Hazards
<1>12. ASSUME NEW p \in Procs, ArchiveTask(p)  PROVE WorkerShape'
  BY <1>12 DEF ArchiveTask, WorkerShape, Enter, Idle, Seg, TypeInv, TypeOK,
       SegShape, Alive, Hazards
<1>13. ASSUME NEW p \in Procs, ArchiveSession(p)  PROVE WorkerShape'
  BY <1>13 DEF ArchiveSession, WorkerShape, Enter, Idle, Seg, workerVars,
       TypeInv, TypeOK, SegShape, Alive, Hazards
<1>14. ASSUME NEW p \in Procs, CancelTask(p)  PROVE WorkerShape'
  BY <1>14 DEF CancelTask, WorkerShape, Enter, Idle, Seg, TypeInv, TypeOK,
       SegShape, Alive, Hazards
<1>15. ASSUME NEW p \in Procs, CancelSession(p)  PROVE WorkerShape'
  BY <1>15 DEF CancelSession, WorkerShape, Enter, Idle, Seg, workerVars,
       TypeInv, TypeOK, SegShape, Alive, Hazards
<1>16. ASSUME NEW p \in Procs, RetrySession(p)  PROVE WorkerShape'
  BY <1>16 DEF RetrySession, WorkerShape, StartWorker, Enter, Idle, Seg,
       TypeInv, TypeOK, SegShape, Alive, Hazards
<1>17. ASSUME NEW p \in Procs, RerunCreate(p)  PROVE WorkerShape'
  BY <1>17 DEF RerunCreate, WorkerShape, Enter, workerVars, Idle, Seg,
       TypeInv, TypeOK, SegShape, Alive, Hazards
<1>18. ASSUME NEW p \in Procs, RerunEvent(p)  PROVE WorkerShape'
  BY <1>18 DEF RerunEvent, WorkerShape, workerVars, Idle, Seg, TypeInv,
       TypeOK, SegShape, Alive, Hazards
<1>19. ASSUME NEW p \in Procs, RerunParent(p)  PROVE WorkerShape'
  BY <1>19 DEF RerunParent, WorkerShape, Enter, workerVars, Idle, Seg,
       TypeInv, TypeOK, SegShape, Alive, Hazards
<1>20. ASSUME NEW p \in Procs, RerunSession(p)  PROVE WorkerShape'
  BY <1>20 DEF RerunSession, WorkerShape, StartWorker, Enter, Idle, Seg,
       TypeInv, TypeOK, SegShape, Alive, Hazards
<1>21. ASSUME NEW p \in Procs, ResolveEvent(p)  PROVE WorkerShape'
  BY <1>21 DEF ResolveEvent, WorkerShape, Idle, Seg, workerVars, TypeInv,
       TypeOK, SegShape, Alive, Hazards
<1>22. ASSUME NEW p \in Procs, NEW s \in Final, ResolveTask(p, s)
      PROVE  WorkerShape'
  BY <1>22 DEF ResolveTask, WorkerShape, Final, Enter, workerVars, Idle, Seg,
       TypeInv, TypeOK, SegShape, Alive, Hazards
<1>23. ASSUME NEW p \in Procs, ResolveSession(p)  PROVE WorkerShape'
  BY <1>23 DEF ResolveSession, WorkerShape, Enter, Idle, Seg, workerVars,
       TypeInv, TypeOK, SegShape, Alive, Hazards
<1>24. ASSUME NEW p \in Procs, BeginSession(p)  PROVE WorkerShape'
  BY <1>24 DEF BeginSession, WorkerShape, Enter, workerVars, Idle, Seg,
       TypeInv, TypeOK, SegShape, Alive, Hazards
<1>25. ASSUME NEW p \in Procs, BeginTask(p)  PROVE WorkerShape'
  BY <1>25 DEF BeginTask, WorkerShape, Enter, workerVars, Idle, Seg, TypeInv,
       TypeOK, SegShape, Alive, Hazards
<1>26. ASSUME NEW p \in Procs, StartTask(p)  PROVE WorkerShape'
  BY <1>26 DEF StartTask, WorkerShape, EndWorker, Enter, Idle, Seg,
       OwnSegments, TypeInv, TypeOK, SegShape, Alive, Hazards, Starting,
       Resolving, Answering, Cancelling, Beginning, Own, HasRun
<1>27. ASSUME NEW p \in Procs, EndSession(p)  PROVE WorkerShape'
  BY <1>27 DEF EndSession, WorkerShape, EndWorker, Enter, Idle, Seg, TypeInv,
       TypeOK, SegShape, Alive, Hazards
<1>28. ASSUME NEW p \in Procs, Crash(p)  PROVE WorkerShape'
  BY <1>28 DEF Crash, WorkerShape, Idle, Seg, rowVars, TypeInv, TypeOK,
       SegShape, Alive, Hazards
<1>29. ASSUME NEW r \in Runs, LeaveUnstarted(r)  PROVE WorkerShape'
  BY <1>29 DEF LeaveUnstarted, WorkerShape, EndWorker, rowVars, Idle, Seg,
       TypeInv, TypeOK, SegShape, Alive, Hazards
<1>30. ASSUME NEW r \in Runs, Begin(r)  PROVE WorkerShape'
  BY <1>30 DEF Begin, WorkerShape, Enter, Seg, rowVars, workerVars, Idle,
       TypeInv, TypeOK, SegShape, Alive, Hazards
<1>31. ASSUME NEW r \in Runs, NEW s \in Final \cup Waiting, Outcome(r, s)
      PROVE  WorkerShape'
  BY <1>31 DEF Outcome, WorkerShape, Final, Enter, Seg, workerVars, Idle,
       TypeInv, TypeOK, SegShape, Alive, Hazards
<1>32. ASSUME NEW r \in Runs, AskInput(r)  PROVE WorkerShape'
  BY <1>32 DEF AskInput, WorkerShape, Executing, Idle, Seg, TypeInv, TypeOK,
       SegShape, Alive, Hazards
<1>33. ASSUME NEW r \in Runs, GiveUp(r)  PROVE WorkerShape'
  BY <1>33 DEF GiveUp, WorkerShape, workerVars, Idle, Seg, TypeInv, TypeOK,
       SegShape, Alive, Hazards
<1>34. ASSUME NEW r \in Runs, NEW n \in Runs, HandOff(r, n)
      PROVE  WorkerShape'
  BY <1>34 DEF HandOff, WorkerShape, StartWorker, Executing, Idle, Seg,
       TypeInv, TypeOK, SegShape, Alive, Hazards
<1>35. ASSUME NEW p \in Procs, NEW r \in Runs, Recover(p, r)
      PROVE  WorkerShape'
  BY <1>35 DEF Recover, WorkerShape, StartWorker, Idle, Seg, TypeInv, TypeOK,
       SegShape, Alive, Hazards
<1>36. CASE UNCHANGED vars
  BY <1>36 DEF vars, workerVars, WorkerShape, Idle, Seg, TypeInv, TypeOK,
       SegShape, Alive, Hazards, workerVars
<1> QED
  BY <1>1, <1>2, <1>3, <1>4, <1>5, <1>6, <1>7, <1>8, <1>9, <1>10, <1>11,
       <1>12, <1>13, <1>14, <1>15, <1>16, <1>17, <1>18, <1>19, <1>20, <1>21,
       <1>22, <1>23, <1>24, <1>25, <1>26, <1>27, <1>28, <1>29, <1>30, <1>31,
       <1>32, <1>33, <1>34, <1>35, <1>36 DEF Next, Requests, Segments, Works

-----------------------------------------------------------------------------
(***************************************************************************)
(* Reruns.                                                                 *)
(***************************************************************************)
Counted == {"rerun", "rerun_event"}

\* A step that starts no rerun, and neither enters nor leaves the code that does.
CountsNothing ==
    /\ reruns' = reruns
    /\ \A r \in Runs : approval[r] = "resolved" => approval'[r] = "resolved"
    /\ \A p \in Procs : seg'[p].kind \in Counted \/ seg[p].kind \in Counted => seg'[p] = seg[p]

\* Processes that are going to count a rerun, and that have.
LEMMA CountedSets ==
  ASSUME NEW r \in Runs
  PROVE  /\ IsFiniteSet(Wanting(r)) /\ IsFiniteSet(Counting(r)) /\ IsFiniteSet(Procs)
         /\ Cardinality(Wanting(r)) \in Nat /\ Cardinality(Counting(r)) \in Nat
         /\ Cardinality(Procs) \in Nat
<1>1. IsFiniteSet(Procs) /\ Wanting(r) \subseteq Procs /\ Counting(r) \subseteq Procs
  BY SessionAssumption DEF Wanting, Counting
<1>2. IsFiniteSet(Wanting(r)) /\ IsFiniteSet(Counting(r))
  BY <1>1, FS_Subset
<1> QED  BY <1>1, <1>2, FS_CardinalityType

\* Two disjoint sets are together no larger than the set they are in.
LEMMA DisjointSets ==
  ASSUME NEW S, IsFiniteSet(S), NEW A \in SUBSET S, NEW B \in SUBSET S, A \cap
         B = {}
  PROVE  Cardinality(A) + Cardinality(B) <= Cardinality(S)
<1>1. /\ IsFiniteSet(A) /\ IsFiniteSet(B) /\ IsFiniteSet(A \cup B)
      /\ Cardinality(A \cup B) <= Cardinality(S)
  BY FS_Subset
<1>2. Cardinality(A \cup B) = Cardinality(A) + Cardinality(B) - Cardinality(A \cap B)
  BY <1>1, FS_Union
<1>3. Cardinality(A \cap B) = 0
  BY FS_EmptySet
<1>4. Cardinality(A) \in Nat /\ Cardinality(B) \in Nat /\ Cardinality(S) \in Nat
  BY <1>1, FS_CardinalityType
<1> QED  BY <1>1, <1>2, <1>3, <1>4

\* Such a step keeps the count.
LEMMA CountsNothingKept ==
  ASSUME RerunsCounted, CountsNothing, UNCHANGED schedule
  PROVE  RerunsCounted'
<1>1. ASSUME NEW r \in Runs
      PROVE  Wanting(r)' = Wanting(r) /\ Counting(r)' = Counting(r)
  BY DEF Wanting, Counting, CountsNothing, Counted
<1> QED  BY <1>1 DEF RerunsCounted, CountsNothing, Hazards

\* Every step keeps the count of reruns.
LEMMA CountedStep ==
  ASSUME Alive, TypeInv, WorkerShape, OwnSegments, ExecutingExists,
         AskedAndEnded, ResolvingShape, RerunsCounted, [Next]_vars
  PROVE  RerunsCounted'
<1>1. ASSUME NEW p \in Procs, NEW n \in Runs, Message(p, n)
      PROVE  RerunsCounted'
  BY <1>1, CountsNothingKept DEF Message, Serves, Turn, Enter, Seg, rowVars,
       CountsNothing, Counted, Alive, TypeInv, TypeOK, SegShape, WorkerShape,
       Idle, Hazards
<1>2. ASSUME NEW p \in Procs, NEW n \in Runs, StartDirect(p, n)
      PROVE  RerunsCounted'
  BY <1>2, CountsNothingKept DEF StartDirect, rowVars, CountsNothing, Counted,
       Alive, TypeInv, TypeOK, SegShape, WorkerShape, Seg, Idle, Hazards
<1>3. ASSUME NEW p \in Procs, Answer(p)  PROVE RerunsCounted'
  BY <1>3, CountsNothingKept DEF Answer, Serves, Turn, Enter, Seg, rowVars,
       CountsNothing, Counted, Alive, TypeInv, TypeOK, SegShape, WorkerShape,
       Idle, Hazards
<1>4. ASSUME NEW p \in Procs, Archive(p)  PROVE RerunsCounted'
  BY <1>4, CountsNothingKept DEF Archive, Serves, Turn, Enter, Seg, rowVars,
       CountsNothing, Counted, Alive, TypeInv, TypeOK, SegShape, WorkerShape,
       Idle, Hazards
<1>5. ASSUME NEW p \in Procs, Unarchive(p)  PROVE RerunsCounted'
  BY <1>5, CountsNothingKept DEF Unarchive, CountsNothing, Counted, Alive,
       TypeInv, TypeOK, SegShape, WorkerShape, Seg, Idle, Hazards
<1>6. ASSUME NEW p \in Procs, NEW r \in Runs, Cancel(p, r)
      PROVE  RerunsCounted'
  BY <1>6, CountsNothingKept DEF Cancel, Serves, Turn, Enter, Seg, rowVars,
       CountsNothing, Counted, Alive, TypeInv, TypeOK, SegShape, WorkerShape,
       Idle, Hazards
<1>7. ASSUME NEW p \in Procs, NEW r \in Runs, NEW k \in {"resolve", "rerun"},
             Resolve(p, r, k)
      PROVE  RerunsCounted'
  <2>1. ASSUME k = "resolve", Enter(p, Seg(k, r, None, scur, tstat[r]))  PROVE RerunsCounted'
    BY <1>7, <2>1, CountsNothingKept DEF Resolve, Seg, Enter, CountsNothing,
         Counted, Serves, Turn, Idle, rowVars, TypeInv, TypeOK
  <2>2. ASSUME NEW n \in Runs, Enter(p, Seg("rerun", r, n, scur, tstat[r]))  PROVE RerunsCounted'
    <3>1. /\ reruns' = reruns /\ approval' = approval /\ approval[r] = "requested" /\ schedule' = schedule
          /\ reruns \in [Runs -> Nat] /\ seg[p].kind = "idle"
          /\ "race" \in Hazards \/ \A q \in Procs : seg[q].kind = "idle"
          /\ seg' = [seg EXCEPT ![p] = Seg("rerun", r, n, scur, tstat[r])]
      BY <1>7, <2>2 DEF Resolve, Seg, Enter, Serves, Turn, Idle, rowVars,
           TypeInv, TypeOK
    <3>2. ASSUME NEW m \in Runs
          PROVE  /\ Counting(m)' = Counting(m) /\ p \notin Counting(m)
                 /\ p \notin Wanting(m) /\ Wanting(m)' = Wanting(m) \cup (IF m = r THEN {p} ELSE {})
      BY <3>1 DEF Counting, Wanting, Seg, TypeInv, TypeOK
    <3>3. Cardinality(Wanting(r)') = Cardinality(Wanting(r)) + 1
      BY <3>2, CountedSets, FS_AddElement
    <3>4. reruns[r] <= Cardinality(Counting(r))
      BY <3>1 DEF RerunsCounted
    <3>5. Cardinality(Wanting(r)') + Cardinality(Counting(r)) <= Cardinality(Procs)
      <4>1. /\ Wanting(r)' \cap Counting(r) = {} /\ Wanting(r)' \cup Counting(r) \subseteq Procs
        BY <3>2 DEF Wanting, Counting
      <4> QED  BY <4>1, CountedSets, DisjointSets
    <3>6. "race" \notin Hazards => Wanting(r) = {} /\ Counting(r) = {}
      BY <3>1 DEF Wanting, Counting
    <3>7. ASSUME NEW m \in Runs
          PROVE  /\ approval'[m] # "resolved" => reruns'[m] <= Cardinality(Counting(m)')
                 /\ reruns'[m] + Cardinality(Wanting(m)') <= Cardinality(Procs)
                 /\ "race" \notin Hazards => reruns'[m] + Cardinality(Wanting(m)') <= 1
      <4>1. CASE m = r
        <5>1. reruns[r] \in Nat /\ Cardinality(Wanting(r)) \in Nat /\ Cardinality(Wanting(r)') \in Nat
              /\ Cardinality(Counting(r)) \in Nat /\ Cardinality(Procs) \in Nat
          BY <3>1, <3>3, CountedSets
        <5>2. "race" \notin Hazards => Cardinality(Wanting(r)) = 0 /\ Cardinality(Counting(r)) = 0
          BY <3>6, FS_EmptySet
        <5>3. Counting(r)' = Counting(r)
          BY <3>2
        <5>4. /\ approval'[r] # "resolved" => reruns'[r] <= Cardinality(Counting(r)')
              /\ reruns'[r] + Cardinality(Wanting(r)') <= Cardinality(Procs)
          BY <3>1, <3>4, <3>5, <5>1, <5>3
        <5>5. "race" \notin Hazards => reruns'[r] + Cardinality(Wanting(r)') <= 1
          BY <3>1, <3>3, <3>4, <5>1, <5>2
        <5> QED  BY <4>1, <5>4, <5>5
      <4>2. CASE m # r
        BY <3>1, <3>2, <4>2 DEF RerunsCounted
      <4> QED  BY <4>1, <4>2
    <3> QED  BY <3>1, <3>7 DEF RerunsCounted, Hazards
  <2> QED  BY <1>7, <2>1, <2>2 DEF Resolve
<1>8. ASSUME NEW p \in Procs, NEW r \in Runs, NEW n \in Runs, Retry(p, r, n)
      PROVE  RerunsCounted'
  BY <1>8, CountsNothingKept DEF Retry, Serves, Turn, Enter, Seg,
       CountsNothing, Counted, Alive, TypeInv, TypeOK, SegShape, WorkerShape,
       Idle, Hazards
<1>9. ASSUME NEW p \in Procs, MessageSession(p)  PROVE RerunsCounted'
  BY <1>9, CountsNothingKept DEF MessageSession, Enter, Idle, Seg,
       CountsNothing, Counted, Alive, TypeInv, TypeOK, SegShape, WorkerShape,
       Hazards
<1>10. ASSUME NEW p \in Procs, AnswerTask(p)  PROVE RerunsCounted'
  BY <1>10, CountsNothingKept DEF AnswerTask, Enter, CountsNothing, Counted,
       Alive, TypeInv, TypeOK, SegShape, WorkerShape, Seg, Idle, Hazards
<1>11. ASSUME NEW p \in Procs, AnswerSession(p)  PROVE RerunsCounted'
  BY <1>11, CountsNothingKept DEF AnswerSession, Enter, Idle, Seg,
       CountsNothing, Counted, Alive, TypeInv, TypeOK, SegShape, WorkerShape,
       Hazards
<1>12. ASSUME NEW p \in Procs, ArchiveTask(p)  PROVE RerunsCounted'
  BY <1>12, CountsNothingKept DEF ArchiveTask, Enter, CountsNothing, Counted,
       Alive, TypeInv, TypeOK, SegShape, WorkerShape, Seg, Idle, Hazards
<1>13. ASSUME NEW p \in Procs, ArchiveSession(p)  PROVE RerunsCounted'
  BY <1>13, CountsNothingKept DEF ArchiveSession, Enter, Idle, Seg,
       CountsNothing, Counted, Alive, TypeInv, TypeOK, SegShape, WorkerShape,
       Hazards
<1>14. ASSUME NEW p \in Procs, CancelTask(p)  PROVE RerunsCounted'
  BY <1>14, CountsNothingKept DEF CancelTask, Enter, CountsNothing, Counted,
       Alive, TypeInv, TypeOK, SegShape, WorkerShape, Seg, Idle, Hazards
<1>15. ASSUME NEW p \in Procs, CancelSession(p)  PROVE RerunsCounted'
  BY <1>15, CountsNothingKept DEF CancelSession, Enter, Idle, Seg,
       CountsNothing, Counted, Alive, TypeInv, TypeOK, SegShape, WorkerShape,
       Hazards
<1>16. ASSUME NEW p \in Procs, RetrySession(p)  PROVE RerunsCounted'
  BY <1>16, CountsNothingKept DEF RetrySession, Enter, Idle, Seg,
       CountsNothing, Counted, Alive, TypeInv, TypeOK, SegShape, WorkerShape,
       Hazards
<1>17. ASSUME NEW p \in Procs, RerunCreate(p)  PROVE RerunsCounted'
  <2>1. /\ seg[p].run \in Runs /\ seg[p].kind = "rerun" /\ approval' = approval
        /\ reruns \in [Runs -> Nat] /\ reruns' = [reruns EXCEPT ![seg[p].run] = @ + 1]
        /\ seg \in [Procs -> [kind : SegKinds, run : Runs \cup {None}, new : Runs \cup {None},
                              cur : Runs \cup {None}, was : TaskStatus]]
        /\ seg' = [seg EXCEPT ![p] = [seg[p] EXCEPT !.kind = "rerun_event"]] /\ schedule' = schedule
    BY <1>17 DEF RerunCreate, Enter, TypeInv, TypeOK, SegShape, HasRun,
         Resolving, Reruns
  <2> DEFINE r == seg[p].run
  <2>2. ASSUME NEW n \in Runs, n # r  PROVE Wanting(n)' = Wanting(n) /\ Counting(n)' = Counting(n)
    BY <2>1, <2>2 DEF Wanting, Counting
  <2>3. ASSUME NEW n \in Runs, n = r
        PROVE  /\ p \in Wanting(n) /\ Wanting(n)' = Wanting(n) \ {p}
               /\ p \notin Counting(n) /\ Counting(n)' = Counting(n) \cup {p}
    BY <2>1, <2>3 DEF Wanting, Counting
  <2>4. ASSUME NEW n \in Runs, n = r
        PROVE  /\ Cardinality(Wanting(n)') = Cardinality(Wanting(n)) - 1
               /\ Cardinality(Counting(n)') = Cardinality(Counting(n)) + 1
    <3>1. /\ Cardinality(Wanting(n) \ {p}) = Cardinality(Wanting(n)) - 1
          /\ Cardinality(Counting(n) \cup {p}) = Cardinality(Counting(n)) + 1
      BY <2>3, <2>4, CountedSets, FS_AddElement, FS_RemoveElement
    <3> QED  BY <2>3, <2>4, <3>1
  <2>5. ASSUME NEW n \in Runs
        PROVE  /\ approval'[n] # "resolved" => reruns'[n] <= Cardinality(Counting(n)')
               /\ reruns'[n] + Cardinality(Wanting(n)') <= Cardinality(Procs)
               /\ "race" \notin Hazards => reruns'[n] + Cardinality(Wanting(n)') <= 1
    <3>1. CASE n = r
      <4>1. reruns'[n] = reruns[n] + 1 /\ reruns[n] \in Nat
        BY <2>1, <3>1
      <4> QED  BY <2>1, <4>1, <2>4, <3>1, CountedSets DEF RerunsCounted
    <3>2. CASE n # r
      <4>1. reruns'[n] = reruns[n]
        BY <2>1, <3>2
      <4> QED  BY <2>1, <4>1, <2>2, <3>2 DEF RerunsCounted
    <3> QED  BY <3>1, <3>2
  <2> QED  BY <2>1, <2>5 DEF RerunsCounted, Hazards
<1>18. ASSUME NEW p \in Procs, RerunEvent(p)  PROVE RerunsCounted'
  <2>1. reruns' = reruns /\ seg[p].run \in Runs /\ seg[p].kind = "rerun_event"
        /\ approval' = [approval EXCEPT ![seg[p].run] = "resolved"]
        /\ seg' = [seg EXCEPT ![p] = [seg[p] EXCEPT !.kind = "rerun_parent"]] /\ schedule' = schedule
    BY <1>18 DEF RerunEvent, Enter, TypeInv, SegShape, HasRun, Resolving,
         Reruns
  <2>2. ASSUME NEW r \in Runs
        PROVE  Wanting(r)' = Wanting(r) /\ (r # seg[p].run => Counting(r)' = Counting(r))
    BY <2>1 DEF Wanting, Counting
  <2> QED  BY <2>1, <2>2 DEF RerunsCounted, Hazards, TypeInv, TypeOK
<1>19. ASSUME NEW p \in Procs, RerunParent(p)  PROVE RerunsCounted'
  BY <1>19, CountsNothingKept DEF RerunParent, Enter, CountsNothing, Counted,
       Alive, TypeInv, TypeOK, SegShape, WorkerShape, Seg, Idle, Hazards
<1>20. ASSUME NEW p \in Procs, RerunSession(p)  PROVE RerunsCounted'
  BY <1>20, CountsNothingKept DEF RerunSession, Enter, Idle, Seg,
       CountsNothing, Counted, Alive, TypeInv, TypeOK, SegShape, WorkerShape,
       Hazards
<1>21. ASSUME NEW p \in Procs, ResolveEvent(p)  PROVE RerunsCounted'
  BY <1>21, CountsNothingKept DEF ResolveEvent, Enter, Idle, Seg,
       CountsNothing, Counted, Alive, TypeInv, TypeOK, SegShape, WorkerShape,
       Hazards
<1>22. ASSUME NEW p \in Procs, NEW s \in Final, ResolveTask(p, s)
      PROVE  RerunsCounted'
  BY <1>22, CountsNothingKept DEF ResolveTask, Final, Enter, CountsNothing,
       Counted, Alive, TypeInv, TypeOK, SegShape, WorkerShape, Seg, Idle,
       Hazards
<1>23. ASSUME NEW p \in Procs, ResolveSession(p)  PROVE RerunsCounted'
  BY <1>23, CountsNothingKept DEF ResolveSession, Enter, Idle, Seg,
       CountsNothing, Counted, Alive, TypeInv, TypeOK, SegShape, WorkerShape,
       Hazards
<1>24. ASSUME NEW p \in Procs, BeginSession(p)  PROVE RerunsCounted'
  BY <1>24, CountsNothingKept DEF BeginSession, Enter, CountsNothing, Counted,
       Alive, TypeInv, TypeOK, SegShape, WorkerShape, Seg, Idle, Hazards
<1>25. ASSUME NEW p \in Procs, BeginTask(p)  PROVE RerunsCounted'
  BY <1>25, CountsNothingKept DEF BeginTask, Enter, CountsNothing, Counted,
       Alive, TypeInv, TypeOK, SegShape, WorkerShape, Seg, Idle, Hazards
<1>26. ASSUME NEW p \in Procs, StartTask(p)  PROVE RerunsCounted'
  BY <1>26, CountsNothingKept DEF StartTask, Enter, Idle, Seg, CountsNothing,
       Counted, Alive, TypeInv, TypeOK, SegShape, WorkerShape, Hazards
<1>27. ASSUME NEW p \in Procs, EndSession(p)  PROVE RerunsCounted'
  BY <1>27, CountsNothingKept DEF EndSession, Enter, Idle, Seg, CountsNothing,
       Counted, Alive, Waiting, TypeInv, TypeOK, SegShape, WorkerShape,
       Hazards
<1>28. ASSUME NEW p \in Procs, Crash(p)  PROVE RerunsCounted'
  BY <1>28, CountsNothingKept DEF Crash, Idle, Seg, rowVars, CountsNothing,
       Alive, TypeInv, TypeOK, SegShape, WorkerShape, Hazards
<1>29. ASSUME NEW r \in Runs, LeaveUnstarted(r)  PROVE RerunsCounted'
  BY <1>29, CountsNothingKept DEF LeaveUnstarted, rowVars, CountsNothing,
       Counted, Alive, TypeInv, TypeOK, SegShape, WorkerShape, Seg, Idle,
       Hazards
<1>30. ASSUME NEW r \in Runs, Begin(r)  PROVE RerunsCounted'
  BY <1>30, CountsNothingKept DEF Begin, OnLoop, Turn, Enter, Seg, rowVars,
       CountsNothing, Counted, Alive, TypeInv, TypeOK, SegShape, WorkerShape,
       Idle, Hazards
<1>31. ASSUME NEW r \in Runs, NEW s \in Final \cup Waiting, Outcome(r, s)
      PROVE  RerunsCounted'
  BY <1>31, CountsNothingKept DEF Outcome, Final, Waiting, OnLoop, Turn,
       Enter, Seg, CountsNothing, Counted, Asking, OwnSegments, AskedAndEnded,
       Alive, TypeInv, TypeOK, SegShape, WorkerShape, Idle, Hazards, Starting,
       Resolving, Answering, Cancelling, Beginning, Own, HasRun
<1>32. ASSUME NEW r \in Runs, AskInput(r)  PROVE RerunsCounted'
  BY <1>32, CountsNothingKept DEF AskInput, CountsNothing, Counted, Alive,
       TypeInv, TypeOK, SegShape, WorkerShape, Seg, Idle, Hazards
<1>33. ASSUME NEW r \in Runs, GiveUp(r)  PROVE RerunsCounted'
  BY <1>33, CountsNothingKept DEF GiveUp, CountsNothing, Counted, Alive,
       TypeInv, TypeOK, SegShape, WorkerShape, Seg, Idle, Hazards
<1>34. ASSUME NEW r \in Runs, NEW n \in Runs, HandOff(r, n)
      PROVE  RerunsCounted'
  BY <1>34, CountsNothingKept DEF HandOff, CountsNothing, Counted, Alive,
       TypeInv, TypeOK, SegShape, WorkerShape, Seg, Idle, Hazards
<1>35. ASSUME NEW p \in Procs, NEW r \in Runs, Recover(p, r)
      PROVE  RerunsCounted'
  BY <1>35, CountsNothingKept DEF Recover, CountsNothing, Counted, Alive,
       TypeInv, TypeOK, SegShape, WorkerShape, Seg, Idle, Hazards
<1>36. CASE UNCHANGED vars
  BY <1>36, CountsNothingKept DEF vars, rowVars, CountsNothing, Alive,
       TypeInv, TypeOK, SegShape, WorkerShape, Seg, Idle, Hazards, rowVars
<1> QED
  BY <1>1, <1>2, <1>3, <1>4, <1>5, <1>6, <1>7, <1>8, <1>9, <1>10, <1>11,
       <1>12, <1>13, <1>14, <1>15, <1>16, <1>17, <1>18, <1>19, <1>20, <1>21,
       <1>22, <1>23, <1>24, <1>25, <1>26, <1>27, <1>28, <1>29, <1>30, <1>31,
       <1>32, <1>33, <1>34, <1>35, <1>36 DEF Next, Requests, Segments, Works

-----------------------------------------------------------------------------
(***************************************************************************)
(* What the session shows while processes take turns.                      *)
(***************************************************************************)
\* While processes take turns, only one of them is in the middle of something.
LEMMA OneAtATime ==
  ASSUME Overlapping, OneSegment, TypeInv, ShownInv, NEW p \in Procs, seg[p] #
         Idle
  PROVE  /\ \A q \in Procs \ {p} : seg[q] = Idle
         /\ Knows(p) /\ (~ Ahead(p) => Good)
<1>1. \A q \in Procs : seg[q] # Idle => seg[q].kind # "idle"
  BY DEF TypeInv, SegShape
<1>2. \A q \in Procs \ {p} : seg[q] = Idle
  BY <1>1 DEF OneSegment, Overlapping
<1>3. \A q \in Procs \ {p} : ~ Ahead(q)
  BY <1>2 DEF Ahead, Idle, Seg
<1> QED  BY <1>2, <1>3 DEF ShownInv, Shown

\* Between two segments the session shows what is so.
LEMMA NobodyIsAhead ==
  ASSUME Overlapping, ShownInv, \A q \in Procs : seg[q] = Idle
  PROVE  Good
<1>1. \A q \in Procs : ~ Ahead(q)
  BY DEF Ahead, Idle, Seg
<1> QED  BY <1>1 DEF ShownInv, Shown

\* After a step of the only process in the middle of something.
LEMMA OneAtATimeNext ==
  ASSUME NEW p \in Procs, \A q \in Procs \ {p} : seg'[q] = Idle,
         Knows(p)', ~ Ahead(p)' => Good'
  PROVE  Shown'
<1>1. \A q \in Procs \ {p} : Knows(q)'
  BY DEF Knows, Idle, Seg, Starting, Cancelling, Beginning
<1> QED  BY <1>1 DEF Shown

\* What a segment knows, and what the session shows, stays so.
LEMMA ShownStep ==
  ASSUME Overlapping, OneSegment, ArchiveInv, TypeInv, WorkerShape,
         OwnSegments, ExecutingExists, NewIsNew, AnsweredOnce, AskedAndEnded,
         ResolvingShape, ShownInv, [Next]_vars
  PROVE  Shown'
<1>1. ASSUME NEW p \in Procs, NEW n \in Runs, Message(p, n)  PROVE Shown'
  <2>1. /\ Good /\ (\A q \in Procs : seg[q] = Idle)
        /\ \A q \in Procs \ {p} : seg'[q] = seg[q]
    BY <1>1, NobodyIsAhead DEF Message, Enter, Serves, Turn, Overlapping,
         WorkerShape
  <2>2. Knows(p)'
    BY <1>1, <2>1 DEF Message, Knows, Fresh, Unused, Enter, Seg, rowVars,
         Good, Waiting, TypeInv, TypeOK, SegShape, WorkerShape, Seg, Idle,
         Enter, rowVars, Starting, Resolving, Answering, Cancelling,
         Beginning, Own, HasRun
  <2>3. ~ Ahead(p)' => Good'
    BY <1>1, <2>1, SessionAssumption DEF Message, Ahead, Good, Enter, Seg,
         rowVars, Waiting, TypeInv, TypeOK, SegShape, WorkerShape, Seg, Idle,
         Enter, rowVars
  <2> QED  BY <2>1, <2>2, <2>3, OneAtATimeNext
<1>2. ASSUME NEW p \in Procs, NEW n \in Runs, StartDirect(p, n)  PROVE Shown'
  <2>1. /\ Good /\ (\A q \in Procs : seg[q] = Idle)
        /\ \A q \in Procs \ {p} : seg'[q] = seg[q]
    BY <1>2, NobodyIsAhead DEF StartDirect, Serves, Turn, Overlapping,
         WorkerShape
  <2>2. Knows(p)'
    BY <1>2, <2>1 DEF StartDirect, Knows, rowVars, Good, Waiting, TypeInv,
         TypeOK, SegShape, WorkerShape, Seg, Idle, rowVars, Starting,
         Resolving, Answering, Cancelling, Beginning, Own, HasRun
  <2>3. ~ Ahead(p)' => Good'
    BY <1>2, <2>1, SessionAssumption DEF StartDirect, Ahead, Good, Fresh,
         Unused, StartWorker, rowVars, Waiting, TypeInv, TypeOK, SegShape,
         WorkerShape, Seg, Idle, Active, rowVars
  <2> QED  BY <2>1, <2>2, <2>3, OneAtATimeNext
<1>3. ASSUME NEW p \in Procs, Answer(p)  PROVE Shown'
  <2>1. /\ Good /\ (\A q \in Procs : seg[q] = Idle)
        /\ \A q \in Procs \ {p} : seg'[q] = seg[q]
    BY <1>3, NobodyIsAhead DEF Answer, Enter, Serves, Turn, Overlapping,
         WorkerShape
  <2>2. Knows(p)'
    BY <1>3, <2>1 DEF Answer, Knows, Enter, Seg, rowVars, Good, Waiting,
         TypeInv, TypeOK, SegShape, WorkerShape, Seg, Idle, Enter, rowVars,
         Starting, Resolving, Answering, Cancelling, Beginning, Own, HasRun
  <2>3. ~ Ahead(p)' => Good'
    BY <1>3, <2>1, SessionAssumption DEF Answer, Ahead, Good, Enter, Seg,
         rowVars, workerVars, Waiting, TypeInv, TypeOK, SegShape, WorkerShape,
         Seg, Idle, Enter, Active, rowVars, workerVars
  <2> QED  BY <2>1, <2>2, <2>3, OneAtATimeNext
<1>4. ASSUME NEW p \in Procs, Archive(p)  PROVE Shown'
  <2>1. /\ Good /\ (\A q \in Procs : seg[q] = Idle)
        /\ \A q \in Procs \ {p} : seg'[q] = seg[q]
    BY <1>4, NobodyIsAhead DEF Archive, Enter, Serves, Turn, Overlapping,
         WorkerShape
  <2>2. Knows(p)'
    BY <1>4, <2>1 DEF Archive, Knows, Enter, Seg, rowVars, Good, Waiting,
         TypeInv, TypeOK, SegShape, WorkerShape, Seg, Idle, Enter, rowVars,
         Starting, Resolving, Answering, Cancelling, Beginning, Own, HasRun
  <2>3. ~ Ahead(p)' => Good'
    BY <1>4, <2>1, SessionAssumption DEF Archive, Ahead, Good, Enter, Seg,
         rowVars, workerVars, Waiting, TypeInv, TypeOK, SegShape, WorkerShape,
         Seg, Idle, Enter, Active, rowVars, workerVars
  <2> QED  BY <2>1, <2>2, <2>3, OneAtATimeNext
<1>5. ASSUME NEW p \in Procs, Unarchive(p)  PROVE Shown'
  <2>1. /\ Good /\ (\A q \in Procs : seg[q] = Idle)
        /\ \A q \in Procs \ {p} : seg'[q] = seg[q]
    BY <1>5, NobodyIsAhead DEF Unarchive, Serves, Turn, Overlapping,
         WorkerShape
  <2>2. Knows(p)'
    BY <1>5, <2>1 DEF Unarchive, Knows, Good, Waiting, TypeInv, TypeOK,
         SegShape, WorkerShape, Seg, Idle, Starting, Resolving, Answering,
         Cancelling, Beginning, Own, HasRun
  <2>3. ~ Ahead(p)' => Good'
    BY <1>5, <2>1, SessionAssumption DEF Unarchive, Ahead, Good,
         UpdateSession, Waiting, TypeInv, TypeOK, SegShape, WorkerShape, Seg,
         Idle
  <2> QED  BY <2>1, <2>2, <2>3, OneAtATimeNext
<1>6. ASSUME NEW p \in Procs, NEW r \in Runs, Cancel(p, r)  PROVE Shown'
  <2>1. /\ Good /\ (\A q \in Procs : seg[q] = Idle)
        /\ \A q \in Procs \ {p} : seg'[q] = seg[q]
    BY <1>6, NobodyIsAhead DEF Cancel, Enter, Serves, Turn, Overlapping,
         WorkerShape
  <2>2. Knows(p)'
    BY <1>6, <2>1 DEF Cancel, Knows, Enter, Seg, rowVars, workerVars, Good,
         Overlapping, Waiting, TypeInv, TypeOK, SegShape, WorkerShape, Seg,
         Idle, Enter, rowVars, workerVars, Starting, Resolving, Answering,
         Cancelling, Beginning, Own, HasRun
  <2>3. ~ Ahead(p)' => Good'
    BY <1>6, <2>1, SessionAssumption DEF Cancel, Ahead, Good, Enter, Seg,
         rowVars, workerVars, Waiting, TypeInv, TypeOK, SegShape, WorkerShape,
         Seg, Idle, Enter, Active, rowVars, workerVars
  <2> QED  BY <2>1, <2>2, <2>3, OneAtATimeNext
<1>7. ASSUME NEW p \in Procs, NEW r \in Runs, NEW k \in {"resolve", "rerun"},
             Resolve(p, r, k)
      PROVE  Shown'
  <2>1. CASE k = "resolve" /\ Enter(p, Seg(k, r, None, scur, tstat[r]))
    BY <1>7, <2>1 DEF Resolve, Enter, Seg, Shown, Serves, Turn, rowVars,
         workerVars, Knows, Ahead, Good, ShownInv, Waiting, TypeInv, TypeOK,
         SegShape, WorkerShape, Idle, Active, Starting, Resolving, Answering,
         Cancelling, Beginning, Own, HasRun
  <2>2. ASSUME NEW n \in Runs, k = "rerun", RerunAllowed(r), Fresh(n),
               "unchecked" \in Hazards \/ Quiet,
               Enter(p, Seg(k, r, n, scur, tstat[r]))
        PROVE  Shown'
    BY <1>7, <2>2 DEF Resolve, RerunAllowed, Quiet, Fresh, Enter, Seg, Shown,
         Serves, Turn, Unused, rowVars, workerVars, Knows, Ahead, Good,
         ShownInv, Waiting, TypeInv, TypeOK, SegShape, WorkerShape, Idle,
         Active, Starting, Resolving, Answering, Cancelling, Beginning, Own,
         HasRun
  <2> QED  BY <1>7, <2>1, <2>2 DEF Resolve
<1>8. ASSUME NEW p \in Procs, NEW r \in Runs, NEW n \in Runs, Retry(p, r, n)
      PROVE  Shown'
  <2>1. /\ Good /\ (\A q \in Procs : seg[q] = Idle)
        /\ \A q \in Procs \ {p} : seg'[q] = seg[q]
    BY <1>8, NobodyIsAhead DEF Retry, Enter, Serves, Turn, Overlapping,
         WorkerShape
  <2>2. Knows(p)'
    BY <1>8, <2>1 DEF Retry, Knows, NewRow, Enter, Seg, Good, Waiting,
         TypeInv, TypeOK, SegShape, WorkerShape, Seg, Idle, Enter, Starting,
         Resolving, Answering, Cancelling, Beginning, Own, HasRun
  <2>3. ~ Ahead(p)' => Good'
    BY <1>8, <2>1, SessionAssumption DEF Retry, Ahead, Good, Fresh, Unused,
         NewRow, Enter, Seg, workerVars, Waiting, TypeInv, TypeOK, SegShape,
         WorkerShape, Seg, Idle, Enter, Active, workerVars
  <2> QED  BY <2>1, <2>2, <2>3, OneAtATimeNext
<1>9. ASSUME NEW p \in Procs, MessageSession(p)  PROVE Shown'
  <2>1. /\ \A q \in Procs \ {p} : seg[q] = Idle /\ seg'[q] = seg[q]
        /\ Knows(p) /\ (~ Ahead(p) => Good)
    BY <1>9, OneAtATime DEF MessageSession, Idle, Enter, Seg
  <2>2. Knows(p)'
    BY <1>9, <2>1 DEF MessageSession, Knows, Enter, Idle, Seg, Good, Waiting,
         TypeInv, TypeOK, SegShape, WorkerShape, Seg, Idle, Enter, Starting,
         Resolving, Answering, Cancelling, Beginning, Own, HasRun
  <2>3. ~ Ahead(p)' => Good'
    BY <1>9, <2>1, SessionAssumption DEF MessageSession, Ahead, Good,
         UpdateSession, StartWorker, Enter, Idle, Seg, Knows, Final, Waiting,
         TypeInv, TypeOK, SegShape, Active, Starting, Resolving, Answering,
         Cancelling, Beginning, Own, HasRun
  <2> QED  BY <2>1, <2>2, <2>3, OneAtATimeNext
<1>10. ASSUME NEW p \in Procs, AnswerTask(p)  PROVE Shown'
  <2>1. /\ \A q \in Procs \ {p} : seg[q] = Idle /\ seg'[q] = seg[q]
        /\ Knows(p) /\ (~ Ahead(p) => Good)
    BY <1>10, OneAtATime DEF AnswerTask, Idle, Enter, Seg
  <2>2. Knows(p)'
    BY <1>10, <2>1 DEF AnswerTask, Knows, UpdateStatus, Enter, Ahead, Good,
         Final, Waiting, TypeInv, TypeOK, SegShape, WorkerShape, Seg, Idle,
         Enter, Starting, Resolving, Answering, Cancelling, Beginning, Own,
         HasRun
  <2>3. ~ Ahead(p)' => Good'
    BY <1>10, <2>1, SessionAssumption DEF AnswerTask, Ahead, Good, Enter,
         Knows, Waiting, TypeInv, TypeOK, SegShape, WorkerShape, Seg, Idle,
         Enter
  <2> QED  BY <2>1, <2>2, <2>3, OneAtATimeNext
<1>11. ASSUME NEW p \in Procs, AnswerSession(p)  PROVE Shown'
  <2>1. /\ \A q \in Procs \ {p} : seg[q] = Idle /\ seg'[q] = seg[q]
        /\ Knows(p) /\ (~ Ahead(p) => Good)
    BY <1>11, OneAtATime DEF AnswerSession, Idle, Enter, Seg
  <2>2. Knows(p)'
    BY <1>11, <2>1 DEF AnswerSession, Knows, Enter, Idle, Seg, Good, Waiting,
         TypeInv, TypeOK, SegShape, WorkerShape, Seg, Idle, Enter, Starting,
         Resolving, Answering, Cancelling, Beginning, Own, HasRun
  <2>3. ~ Ahead(p)' => Good'
    BY <1>11, <2>1, SessionAssumption DEF AnswerSession, Ahead, Good,
         UpdateSession, StartWorker, Enter, Idle, Seg, Knows, Waiting,
         TypeInv, TypeOK, SegShape, Active, Starting, Resolving, Answering,
         Cancelling, Beginning, Own, HasRun
  <2> QED  BY <2>1, <2>2, <2>3, OneAtATimeNext
<1>12. ASSUME NEW p \in Procs, ArchiveTask(p)  PROVE Shown'
  <2>1. /\ \A q \in Procs \ {p} : seg[q] = Idle /\ seg'[q] = seg[q]
        /\ Knows(p) /\ (~ Ahead(p) => Good)
    BY <1>12, OneAtATime DEF ArchiveTask, Idle, Enter, Seg
  <2>2. Knows(p)'
    BY <1>12, <2>1 DEF ArchiveTask, Knows, Enter, Good, Waiting, TypeInv,
         TypeOK, SegShape, WorkerShape, Seg, Idle, Enter, Starting, Resolving,
         Answering, Cancelling, Beginning, Own, HasRun
  <2>3. ~ Ahead(p)' => Good'
    BY <1>12, <2>1, SessionAssumption DEF ArchiveTask, Ahead, Good, Enter,
         Knows, Waiting, TypeInv, TypeOK, SegShape, WorkerShape, Seg, Idle,
         Enter
  <2> QED  BY <2>1, <2>2, <2>3, OneAtATimeNext
<1>13. ASSUME NEW p \in Procs, ArchiveSession(p)  PROVE Shown'
  <2>1. /\ \A q \in Procs \ {p} : seg[q] = Idle /\ seg'[q] = seg[q]
        /\ Knows(p) /\ (~ Ahead(p) => Good)
    BY <1>13, OneAtATime DEF ArchiveSession, Idle, Enter, Seg
  <2>2. Knows(p)'
    BY <1>13, <2>1 DEF ArchiveSession, Knows, Enter, Idle, Seg, Good, Waiting,
         TypeInv, TypeOK, SegShape, WorkerShape, Seg, Idle, Enter, Starting,
         Resolving, Answering, Cancelling, Beginning, Own, HasRun
  <2>3. ~ Ahead(p)' => Good'
    BY <1>13, <2>1, SessionAssumption DEF ArchiveSession, Ahead, Good,
         UpdateSession, Enter, Idle, Seg, Knows, Waiting, TypeInv, TypeOK,
         SegShape, WorkerShape, Seg, Idle, Enter
  <2> QED  BY <2>1, <2>2, <2>3, OneAtATimeNext
<1>14. ASSUME NEW p \in Procs, CancelTask(p)  PROVE Shown'
  <2>1. /\ \A q \in Procs \ {p} : seg[q] = Idle /\ seg'[q] = seg[q]
        /\ Knows(p) /\ (~ Ahead(p) => Good)
    BY <1>14, OneAtATime DEF CancelTask, Idle, Enter, Seg
  <2>2. Knows(p)'
    BY <1>14, <2>1 DEF CancelTask, Knows, Enter, Good, Waiting, TypeInv,
         TypeOK, SegShape, WorkerShape, Seg, Idle, Enter, Starting, Resolving,
         Answering, Cancelling, Beginning, Own, HasRun
  <2>3. ASSUME ~ Ahead(p)'  PROVE Good'
    <3> DEFINE r == seg[p].run
    <3>1. /\ seg[p].kind = "cancel" /\ seg' = [seg EXCEPT ![p] = [seg[p] EXCEPT !.kind = "cancelled"]]
          /\ r \in Runs /\ sstat' = sstat /\ scur' = scur /\ approval' = approval /\ wpc' = wpc
          /\ \A n \in Runs \ {r} : tstat'[n] = tstat[n] /\ wcancel'[n] = wcancel[n]
      BY <1>14 DEF CancelTask, CancelWorker, UpdateStatus, Enter, Cancelling,
           HasRun, TypeInv, TypeOK, SegShape
    <3>2. seg'[p].kind = "cancelled" /\ seg'[p].cur = seg[p].cur /\ seg'[p].run = r
      BY <3>1 DEF TypeInv, TypeOK
    <3>3. Good /\ seg[p].cur # r
      BY <2>1, <2>3, <3>1, <3>2 DEF Ahead
    <3>4. seg[p].cur \in {scur, None}
      BY <3>1 DEF ArchiveInv, Overlapping, Cancelling
    <3>5. CASE scur # r
      BY <3>1, <3>3, <3>5 DEF Good, Active, TypeInv, TypeOK
    <3>6. CASE scur = r
      <4>1. wpc[scur] \in Executing
        BY <2>1, <3>1, <3>3, <3>4, <3>6, SessionAssumption DEF Knows,
             Cancelling
      <4> QED  BY <3>1, <3>3, <4>1 DEF Good, Active, Executing
    <3> QED  BY <3>5, <3>6
  <2> QED  BY <2>1, <2>2, <2>3, OneAtATimeNext
<1>15. ASSUME NEW p \in Procs, CancelSession(p)  PROVE Shown'
  <2>1. /\ \A q \in Procs \ {p} : seg[q] = Idle /\ seg'[q] = seg[q]
        /\ Knows(p) /\ (~ Ahead(p) => Good)
    BY <1>15, OneAtATime DEF CancelSession, Idle, Enter, Seg
  <2>2. Knows(p)'
    BY <1>15, <2>1 DEF CancelSession, Knows, Enter, Idle, Seg, Good, Waiting,
         TypeInv, TypeOK, SegShape, WorkerShape, Seg, Idle, Enter, Starting,
         Resolving, Answering, Cancelling, Beginning, Own, HasRun
  <2>3. ~ Ahead(p)' => Good'
    BY <1>15, <2>1, SessionAssumption DEF CancelSession, Ahead, Good,
         UpdateSession, Enter, Idle, Seg, workerVars, Knows, Waiting, TypeInv,
         TypeOK, SegShape, WorkerShape, Seg, Idle, Enter, Active, workerVars
  <2> QED  BY <2>1, <2>2, <2>3, OneAtATimeNext
<1>16. ASSUME NEW p \in Procs, RetrySession(p)  PROVE Shown'
  <2>1. /\ \A q \in Procs \ {p} : seg[q] = Idle /\ seg'[q] = seg[q]
        /\ Knows(p) /\ (~ Ahead(p) => Good)
    BY <1>16, OneAtATime DEF RetrySession, Idle, Enter, Seg
  <2>2. Knows(p)'
    BY <1>16, <2>1 DEF RetrySession, Knows, Enter, Idle, Seg, Good, Waiting,
         TypeInv, TypeOK, SegShape, WorkerShape, Seg, Idle, Enter, Starting,
         Resolving, Answering, Cancelling, Beginning, Own, HasRun
  <2>3. ~ Ahead(p)' => Good'
    BY <1>16, <2>1, SessionAssumption DEF RetrySession, Ahead, Good,
         StartWorker, UpdateSession, Enter, Idle, Seg, Knows, Final, Waiting,
         TypeInv, TypeOK, SegShape, Active, Starting, Resolving, Answering,
         Cancelling, Beginning, Own, HasRun
  <2> QED  BY <2>1, <2>2, <2>3, OneAtATimeNext
<1>17. ASSUME NEW p \in Procs, RerunCreate(p)  PROVE Shown'
  <2>1. /\ \A q \in Procs \ {p} : seg[q] = Idle /\ seg'[q] = seg[q]
        /\ Knows(p) /\ (~ Ahead(p) => Good)
    BY <1>17, OneAtATime DEF RerunCreate, Idle, Enter, Seg
  <2>2. Knows(p)'
    BY <1>17, <2>1 DEF RerunCreate, Knows, NewRow, Enter, Good, Waiting,
         TypeInv, TypeOK, SegShape, WorkerShape, Seg, Idle, Enter, Starting,
         Resolving, Answering, Cancelling, Beginning, Own, HasRun
  <2>3. ~ Ahead(p)' => Good'
    BY <1>17, <2>1, SessionAssumption DEF RerunCreate, Ahead, Good, NewRow,
         Enter, workerVars, Knows, Final, Waiting, TypeInv, TypeOK, SegShape,
         WorkerShape, Seg, Idle, Enter, Active, workerVars
  <2> QED  BY <2>1, <2>2, <2>3, OneAtATimeNext
<1>18. ASSUME NEW p \in Procs, RerunEvent(p)  PROVE Shown'
  <2>1. /\ \A q \in Procs \ {p} : seg[q] = Idle /\ seg'[q] = seg[q]
        /\ Knows(p) /\ (~ Ahead(p) => Good)
    BY <1>18, OneAtATime DEF RerunEvent, Idle, Enter, Seg
  <2>2. Knows(p)'
    BY <1>18, <2>1 DEF RerunEvent, Knows, Enter, Good, Waiting, TypeInv,
         TypeOK, SegShape, WorkerShape, Seg, Idle, Enter, Starting, Resolving,
         Answering, Cancelling, Beginning, Own, HasRun
  <2>3. ~ Ahead(p)' => Good'
    BY <1>18, <2>1, SessionAssumption DEF RerunEvent, Ahead, Good, Enter,
         Knows, Waiting, TypeInv, TypeOK, SegShape, WorkerShape, Seg, Idle,
         Enter
  <2> QED  BY <2>1, <2>2, <2>3, OneAtATimeNext
<1>19. ASSUME NEW p \in Procs, RerunParent(p)  PROVE Shown'
  <2>1. /\ \A q \in Procs \ {p} : seg[q] = Idle /\ seg'[q] = seg[q]
        /\ Knows(p) /\ (~ Ahead(p) => Good)
    BY <1>19, OneAtATime DEF RerunParent, Idle, Enter, Seg
  <2>2. Knows(p)'
    BY <1>19, <2>1 DEF RerunParent, Knows, UpdateStatus, Enter, Good, Asking,
         OwnSegments, NewIsNew, AskedAndEnded, Waiting, TypeInv, TypeOK,
         SegShape, WorkerShape, Seg, Idle, Enter, Starting, Resolving,
         Answering, Cancelling, Beginning, Own, HasRun
  <2>3. ~ Ahead(p)' => Good'
    BY <1>19, <2>1, SessionAssumption DEF RerunParent, Ahead, Good, Enter,
         Knows, Waiting, TypeInv, TypeOK, SegShape, WorkerShape, Seg, Idle,
         Enter
  <2> QED  BY <2>1, <2>2, <2>3, OneAtATimeNext
<1>20. ASSUME NEW p \in Procs, RerunSession(p)  PROVE Shown'
  <2>1. /\ \A q \in Procs \ {p} : seg[q] = Idle /\ seg'[q] = seg[q]
        /\ Knows(p) /\ (~ Ahead(p) => Good)
    BY <1>20, OneAtATime DEF RerunSession, Idle, Enter, Seg
  <2>2. Knows(p)'
    BY <1>20, <2>1 DEF RerunSession, Knows, Enter, Idle, Seg, Good, Waiting,
         TypeInv, TypeOK, SegShape, WorkerShape, Seg, Idle, Enter, Starting,
         Resolving, Answering, Cancelling, Beginning, Own, HasRun
  <2>3. ~ Ahead(p)' => Good'
    BY <1>20, <2>1, SessionAssumption DEF RerunSession, Ahead, Good,
         UpdateSession, StartWorker, Enter, Idle, Seg, Knows, Final, Waiting,
         TypeInv, TypeOK, SegShape, Active, Starting, Resolving, Answering,
         Cancelling, Beginning, Own, HasRun
  <2> QED  BY <2>1, <2>2, <2>3, OneAtATimeNext
<1>21. ASSUME NEW p \in Procs, ResolveEvent(p)  PROVE Shown'
  <2>1. /\ \A q \in Procs \ {p} : seg[q] = Idle /\ seg'[q] = seg[q]
        /\ Knows(p) /\ (~ Ahead(p) => Good)
    BY <1>21, OneAtATime DEF ResolveEvent, Idle, Enter, Seg
  <2>2. Knows(p)'
    BY <1>21, <2>1 DEF ResolveEvent, Knows, Enter, Idle, Seg, Good, Waiting,
         TypeInv, TypeOK, SegShape, WorkerShape, Seg, Idle, Enter, Starting,
         Resolving, Answering, Cancelling, Beginning, Own, HasRun
  <2>3. ~ Ahead(p)' => Good'
    BY <1>21, <2>1, SessionAssumption DEF ResolveEvent, Ahead, Good, Enter,
         Idle, Seg, workerVars, Knows, Waiting, TypeInv, TypeOK, SegShape,
         WorkerShape, Seg, Idle, Enter, Active, workerVars
  <2> QED  BY <2>1, <2>2, <2>3, OneAtATimeNext
<1>22. ASSUME NEW p \in Procs, NEW s \in Final, ResolveTask(p, s)
      PROVE  Shown'
  <2>1. /\ \A q \in Procs \ {p} : seg[q] = Idle /\ seg'[q] = seg[q]
        /\ Knows(p) /\ (~ Ahead(p) => Good)
    BY <1>22, OneAtATime DEF ResolveTask, Idle, Enter, Seg
  <2>2. Knows(p)'
    BY <1>22, <2>1 DEF ResolveTask, Knows, Final, Enter, Good, Waiting,
         TypeInv, TypeOK, SegShape, WorkerShape, Seg, Idle, Enter, Starting,
         Resolving, Answering, Cancelling, Beginning, Own, HasRun
  <2>3. ~ Ahead(p)' => Good'
    BY <1>22, <2>1, SessionAssumption DEF ResolveTask, Ahead, Good, Final,
         UpdateStatus, Enter, workerVars, Knows, Waiting, TypeInv, TypeOK,
         SegShape, WorkerShape, Seg, Idle, Enter, Active, workerVars
  <2> QED  BY <2>1, <2>2, <2>3, OneAtATimeNext
<1>23. ASSUME NEW p \in Procs, ResolveSession(p)  PROVE Shown'
  <2>1. /\ \A q \in Procs \ {p} : seg[q] = Idle /\ seg'[q] = seg[q]
        /\ Knows(p) /\ (~ Ahead(p) => Good)
    BY <1>23, OneAtATime DEF ResolveSession, Idle, Enter, Seg
  <2>2. Knows(p)'
    BY <1>23, <2>1 DEF ResolveSession, Knows, Enter, Idle, Seg, Good, Waiting,
         TypeInv, TypeOK, SegShape, WorkerShape, Seg, Idle, Enter, Starting,
         Resolving, Answering, Cancelling, Beginning, Own, HasRun
  <2>3. ~ Ahead(p)' => Good'
    BY <1>23, <2>1, SessionAssumption DEF ResolveSession, Ahead, Good,
         UpdateSession, Enter, Idle, Seg, workerVars, Knows, Waiting, TypeInv,
         TypeOK, SegShape, WorkerShape, Seg, Idle, Enter, Active, workerVars
  <2> QED  BY <2>1, <2>2, <2>3, OneAtATimeNext
<1>24. ASSUME NEW p \in Procs, BeginSession(p)  PROVE Shown'
  <2>1. /\ \A q \in Procs \ {p} : seg[q] = Idle /\ seg'[q] = seg[q]
        /\ Knows(p) /\ (~ Ahead(p) => Good)
    BY <1>24, OneAtATime DEF BeginSession, Idle, Enter, Seg
  <2>2. Knows(p)'
    BY <1>24, <2>1 DEF BeginSession, Knows, UpdateSession, Enter, workerVars,
         Good, Waiting, TypeInv, TypeOK, SegShape, WorkerShape, Seg, Idle,
         Enter, workerVars, Starting, Resolving, Answering, Cancelling,
         Beginning, Own, HasRun
  <2>3. Good'
    <3>1. /\ seg[p].kind = "begin" /\ seg[p].run \in Runs /\ sstat' = "running" /\ scur' = seg[p].run
          /\ wpc' = wpc /\ wcancel' = wcancel /\ tstat' = tstat
      BY <1>24 DEF BeginSession, UpdateSession, workerVars, Own, Beginning,
           HasRun, TypeInv, SegShape
    <3>2. wpc[seg[p].run] = "scheduled"
      BY <3>1 DEF OwnSegments, Own, Beginning
    <3>3. ~ wcancel[seg[p].run] /\ tstat[seg[p].run] \notin Final
      BY <2>1, <3>1 DEF Knows, Beginning
    <3> QED  BY <3>1, <3>2, <3>3, SessionAssumption DEF Good, Active, Waiting
  <2> QED  BY <2>1, <2>2, <2>3, OneAtATimeNext
<1>25. ASSUME NEW p \in Procs, BeginTask(p)  PROVE Shown'
  <2>1. /\ \A q \in Procs \ {p} : seg[q] = Idle /\ seg'[q] = seg[q]
        /\ Knows(p) /\ (~ Ahead(p) => Good)
    BY <1>25, OneAtATime DEF BeginTask, Idle, Enter, Seg
  <2>2. Knows(p)'
    BY <1>25, <2>1 DEF BeginTask, Knows, NewRow, Enter, workerVars, Good,
         Final, Waiting, TypeInv, TypeOK, SegShape, WorkerShape, Seg, Idle,
         Enter, workerVars, Starting, Resolving, Answering, Cancelling,
         Beginning, Own, HasRun
  <2>3. ~ Ahead(p)' => Good'
    BY <1>25, <2>1, SessionAssumption DEF BeginTask, Ahead, Good, NewRow,
         Enter, workerVars, Knows, Final, Waiting, TypeInv, TypeOK, SegShape,
         WorkerShape, Seg, Idle, Enter, Active, workerVars
  <2> QED  BY <2>1, <2>2, <2>3, OneAtATimeNext
<1>26. ASSUME NEW p \in Procs, StartTask(p)  PROVE Shown'
  <2>1. /\ \A q \in Procs \ {p} : seg[q] = Idle /\ seg'[q] = seg[q]
        /\ Knows(p) /\ (~ Ahead(p) => Good)
    BY <1>26, OneAtATime DEF StartTask, Idle, Enter, Seg
  <2>2. Knows(p)'
    BY <1>26, <2>1 DEF StartTask, Knows, Enter, Idle, Seg, Good, Waiting,
         TypeInv, TypeOK, SegShape, WorkerShape, Seg, Idle, Enter, Starting,
         Resolving, Answering, Cancelling, Beginning, Own, HasRun
  <2>3. ~ Ahead(p)' => Good'
    BY <1>26, <2>1, SessionAssumption DEF StartTask, Ahead, Good, Enter, Idle,
         Seg, Knows, Waiting, TypeInv, TypeOK, SegShape, WorkerShape, Seg,
         Idle, Enter, Active, Starting, Resolving, Answering, Cancelling,
         Beginning, Own, HasRun
  <2> QED  BY <2>1, <2>2, <2>3, OneAtATimeNext
<1>27. ASSUME NEW p \in Procs, EndSession(p)  PROVE Shown'
  <2>1. /\ \A q \in Procs \ {p} : seg[q] = Idle /\ seg'[q] = seg[q]
        /\ Knows(p) /\ (~ Ahead(p) => Good)
    BY <1>27, OneAtATime DEF EndSession, Idle, Enter, Seg
  <2>2. Knows(p)'
    BY <1>27, <2>1 DEF EndSession, Knows, Enter, Idle, Seg, Good, Waiting,
         TypeInv, TypeOK, SegShape, WorkerShape, Seg, Idle, Enter, Starting,
         Resolving, Answering, Cancelling, Beginning, Own, HasRun
  <2>3. ~ Ahead(p)' => Good'
    BY <1>27, <2>1, SessionAssumption DEF EndSession, Ahead, Good,
         UpdateSession, EndWorker, Enter, Idle, Seg, Knows, Waiting, TypeInv,
         TypeOK, SegShape, Active, Starting, Resolving, Answering, Cancelling,
         Beginning, Own, HasRun
  <2> QED  BY <2>1, <2>2, <2>3, OneAtATimeNext
<1>28. ASSUME NEW p \in Procs, Crash(p)  PROVE Shown'
  BY <1>28 DEF Crash, Shown, Enter, Idle, Seg, rowVars, Knows, Good, ShownInv,
       Overlapping, Waiting, TypeInv, TypeOK, SegShape, WorkerShape
<1>29. ASSUME NEW r \in Runs, LeaveUnstarted(r)  PROVE Shown'
  <2>0. PICK p \in Procs : p = wproc[r]
    BY <1>29 DEF LeaveUnstarted, WorkerShape
  <2>1. /\ Good /\ (\A q \in Procs : seg[q] = Idle)
        /\ \A q \in Procs \ {p} : seg'[q] = seg[q]
    BY <1>29, <2>0, NobodyIsAhead DEF LeaveUnstarted, OnLoop, Turn,
         Overlapping, WorkerShape
  <2>2. Knows(p)'
    BY <1>29, <2>1 DEF LeaveUnstarted, Knows, rowVars, Good, Waiting, TypeInv,
         TypeOK, SegShape, WorkerShape, Seg, Idle, rowVars, Starting,
         Resolving, Answering, Cancelling, Beginning, Own, HasRun
  <2>3. ~ Ahead(p)' => Good'
    BY <1>29, <2>1, SessionAssumption DEF LeaveUnstarted, Ahead, Good, Active,
         EndWorker, rowVars, rowVars, Waiting, TypeInv, TypeOK, SegShape,
         Active
  <2> QED  BY <2>1, <2>2, <2>3, OneAtATimeNext
<1>30. ASSUME NEW r \in Runs, Begin(r)  PROVE Shown'
  <2>0. PICK p \in Procs : p = wproc[r]
    BY <1>30 DEF Begin, WorkerShape
  <2>1. /\ Good /\ (\A q \in Procs : seg[q] = Idle)
        /\ \A q \in Procs \ {p} : seg'[q] = seg[q]
    BY <1>30, <2>0, NobodyIsAhead DEF Begin, Enter, OnLoop, Turn, Overlapping,
         WorkerShape
  <2>2. Knows(p)'
    BY <1>30, <2>1 DEF Begin, Knows, Enter, Seg, rowVars, workerVars, Good,
         Waiting, TypeInv, TypeOK, SegShape, WorkerShape, Seg, Idle, Enter,
         rowVars, workerVars, Starting, Resolving, Answering, Cancelling,
         Beginning, Own, HasRun
  <2>3. ~ Ahead(p)' => Good'
    BY <1>30, <2>1, SessionAssumption DEF Begin, Ahead, Good, Active, Enter,
         Seg, rowVars, workerVars, Waiting, TypeInv, TypeOK, SegShape,
         WorkerShape, Seg, Idle, Enter, Active, rowVars, workerVars
  <2> QED  BY <2>1, <2>2, <2>3, OneAtATimeNext
<1>31. ASSUME NEW r \in Runs, NEW s \in Final \cup Waiting, Outcome(r, s)
      PROVE  Shown'
  <2>0. PICK p \in Procs : p = wproc[r]
    BY <1>31 DEF Outcome, WorkerShape, Executing
  <2>1. /\ Good /\ (\A q \in Procs : seg[q] = Idle)
        /\ \A q \in Procs \ {p} : seg'[q] = seg[q]
    BY <1>31, <2>0, NobodyIsAhead DEF Outcome, Enter, OnLoop, Turn,
         Overlapping, WorkerShape
  <2>2. Knows(p)'
    BY <1>31, <2>1 DEF Outcome, Knows, Final, Waiting, UpdateStatus, Enter,
         Seg, Good, Asking, OwnSegments, ExecutingExists, NewIsNew,
         AskedAndEnded, TypeInv, TypeOK, SegShape, WorkerShape, Seg, Idle,
         Enter, Exists, Starting, Resolving, Answering, Cancelling, Beginning,
         Own, HasRun
  <2>3. ~ Ahead(p)' => Good'
    BY <1>31, <2>1, SessionAssumption DEF Outcome, Ahead, Good, Final,
         Waiting, Active, UpdateStatus, Enter, Seg, workerVars, Executing,
         TypeInv, TypeOK, SegShape, WorkerShape, Seg, Idle, Enter, Active,
         workerVars
  <2> QED  BY <2>1, <2>2, <2>3, OneAtATimeNext
<1>32. ASSUME NEW r \in Runs, AskInput(r)  PROVE Shown'
  <2>0. PICK p \in Procs : p = wproc[r]
    BY <1>32 DEF AskInput, WorkerShape, Executing
  <2>1. /\ Good /\ (\A q \in Procs : seg[q] = Idle)
        /\ \A q \in Procs \ {p} : seg'[q] = seg[q]
    BY <1>32, <2>0, NobodyIsAhead DEF AskInput, OnLoop, Turn, Overlapping,
         WorkerShape
  <2>2. Knows(p)'
    BY <1>32, <2>1 DEF AskInput, Knows, Good, Waiting, TypeInv, TypeOK,
         SegShape, WorkerShape, Seg, Idle, Starting, Resolving, Answering,
         Cancelling, Beginning, Own, HasRun
  <2>3. ~ Ahead(p)' => Good'
    BY <1>32, <2>1, SessionAssumption DEF AskInput, Ahead, Good, Active,
         UpdateStatus, Waiting, Executing, TypeInv, TypeOK, SegShape,
         WorkerShape, Seg, Idle, Active
  <2> QED  BY <2>1, <2>2, <2>3, OneAtATimeNext
<1>33. ASSUME NEW r \in Runs, GiveUp(r)  PROVE Shown'
  BY <1>33 DEF GiveUp, Shown, Knows, Good, ShownInv, Overlapping, Waiting,
       TypeInv, TypeOK, SegShape, WorkerShape, Seg, Idle
<1>34. ASSUME NEW r \in Runs, NEW n \in Runs, HandOff(r, n)  PROVE Shown'
  <2>0. PICK p \in Procs : p = wproc[r]
    BY <1>34 DEF HandOff, WorkerShape, Executing
  <2>1. /\ Good /\ (\A q \in Procs : seg[q] = Idle)
        /\ \A q \in Procs \ {p} : seg'[q] = seg[q]
    BY <1>34, <2>0, NobodyIsAhead DEF HandOff, Turn, Overlapping, WorkerShape
  <2>2. Knows(p)'
    BY <1>34, <2>1 DEF HandOff, Knows, Good, Waiting, TypeInv, TypeOK,
         SegShape, WorkerShape, Seg, Idle, Starting, Resolving, Answering,
         Cancelling, Beginning, Own, HasRun
  <2>3. ~ Ahead(p)' => Good'
    BY <1>34, <2>1, SessionAssumption DEF HandOff, Ahead, Good, Active, Fresh,
         Unused, NewRow, StartWorker, Waiting, TypeInv, TypeOK, SegShape,
         WorkerShape, Seg, Idle, Active
  <2> QED  BY <2>1, <2>2, <2>3, OneAtATimeNext
<1>35. ASSUME NEW p \in Procs, NEW r \in Runs, Recover(p, r)  PROVE Shown'
  <2>1. /\ Good /\ (\A q \in Procs : seg[q] = Idle)
        /\ \A q \in Procs \ {p} : seg'[q] = seg[q]
    BY <1>35, NobodyIsAhead DEF Recover, Turn, Overlapping, WorkerShape
  <2>2. Knows(p)'
    BY <1>35, <2>1 DEF Recover, Knows, Good, Waiting, TypeInv, TypeOK,
         SegShape, WorkerShape, Seg, Idle, Starting, Resolving, Answering,
         Cancelling, Beginning, Own, HasRun
  <2>3. ~ Ahead(p)' => Good'
    BY <1>35, <2>1, SessionAssumption DEF Recover, Ahead, Good, Interrupted,
         Active, UpdateStatus, StartWorker, Waiting, TypeInv, TypeOK,
         SegShape, WorkerShape, Seg, Idle, Active
  <2> QED  BY <2>1, <2>2, <2>3, OneAtATimeNext
<1>36. CASE UNCHANGED vars
  BY <1>36 DEF vars, rowVars, workerVars, Knows, Ahead, Good, Shown, ShownInv,
       Waiting, TypeInv, TypeOK, SegShape, WorkerShape, Seg, Idle, Active,
       rowVars, workerVars
<1> QED
  BY <1>1, <1>2, <1>3, <1>4, <1>5, <1>6, <1>7, <1>8, <1>9, <1>10, <1>11,
       <1>12, <1>13, <1>14, <1>15, <1>16, <1>17, <1>18, <1>19, <1>20, <1>21,
       <1>22, <1>23, <1>24, <1>25, <1>26, <1>27, <1>28, <1>29, <1>30, <1>31,
       <1>32, <1>33, <1>34, <1>35, <1>36 DEF Next, Requests, Segments, Works

-----------------------------------------------------------------------------
(***************************************************************************)
(* Requests that find nothing running.                                     *)
(***************************************************************************)
\* The same, for requests that wait for their turn.
LEMMA ApartNext ==
  ASSUME NEW p \in Procs, \A q \in Procs \ {p} : seg'[q] = Idle,
         OneActive', \A r \in Runs : Tracked(r)', Apart(p)'
  PROVE  SequentialInv'
<1>1. \A q \in Procs \ {p} : Apart(q)'
  BY DEF Apart, Idle, Seg, Starting, Answering
<1> QED  BY <1>1 DEF SequentialInv

\* Every step of a sequential schedule keeps its invariant.
LEMMA SequentialStep ==
  ASSUME Sequential, Overlapping, OneSegment, ArchiveInv, TypeInv,
         WorkerShape, OwnSegments, ExecutingExists, NewIsNew, AnsweredOnce,
         AskedAndEnded, ResolvingShape, ShownInv, SequentialInv, [Next]_vars
  PROVE  SequentialInv'
<1>1. ASSUME NEW p \in Procs, NEW n \in Runs, Message(p, n)
      PROVE  SequentialInv'
  <2>1. /\ Good /\ (\A q \in Procs : seg[q] = Idle)
        /\ \A q \in Procs \ {p} : seg'[q] = seg[q]
        /\ OneActive /\ \A j \in Runs : Tracked(j)
    BY <1>1, NobodyIsAhead DEF Message, SequentialInv, Enter, Serves, Turn,
         Overlapping, WorkerShape
  <2>2. OneActive'
    BY <1>1, <2>1 DEF Message, OneActive, Enter, Seg, rowVars, workerVars,
         Active, Tracked, Sequential, TypeInv, TypeOK, SegShape
  <2>3. ASSUME NEW m \in Runs  PROVE Tracked(m)'
    BY <1>1, <2>1, <2>3, SessionAssumption DEF Message, Tracked, Enter, Seg,
         rowVars, workerVars, Sequential, OneActive, Good, Waiting, TypeInv,
         TypeOK, SegShape, WorkerShape, Idle, Active
  <2>4. Apart(p)'
    BY <1>1, <2>1, SessionAssumption DEF Message, Apart, Serves, Enter, Seg,
         rowVars, workerVars, Tracked, Sequential, OneActive, Good, Waiting,
         TypeInv, TypeOK, SegShape, WorkerShape, Idle, Active, Quiet
  <2> QED  BY <2>1, <2>2, <2>3, <2>4, ApartNext
<1>2. ASSUME NEW p \in Procs, NEW n \in Runs, StartDirect(p, n)
      PROVE  SequentialInv'
  BY <1>2 DEF StartDirect, SequentialInv, rowVars, Sequential, Tracked, Apart,
       OneActive, TypeInv, TypeOK, SegShape, WorkerShape, Seg, Idle
<1>3. ASSUME NEW p \in Procs, Answer(p)  PROVE SequentialInv'
  <2>1. /\ Good /\ (\A q \in Procs : seg[q] = Idle)
        /\ \A q \in Procs \ {p} : seg'[q] = seg[q]
        /\ OneActive /\ \A j \in Runs : Tracked(j)
    BY <1>3, NobodyIsAhead DEF Answer, SequentialInv, Enter, Serves, Turn,
         Overlapping, WorkerShape
  <2>2. OneActive'
    BY <1>3, <2>1 DEF Answer, OneActive, Enter, Seg, rowVars, workerVars,
         Active, Tracked, Sequential, TypeInv, TypeOK, SegShape
  <2>3. ASSUME NEW m \in Runs  PROVE Tracked(m)'
    BY <1>3, <2>1, <2>3, SessionAssumption DEF Answer, Tracked, Enter, Seg,
         rowVars, workerVars, Sequential, OneActive, Good, Waiting, TypeInv,
         TypeOK, SegShape, WorkerShape, Idle, Active
  <2>4. Apart(p)'
    BY <1>3, <2>1, SessionAssumption DEF Answer, Apart, Serves, Enter, Seg,
         rowVars, workerVars, Tracked, Sequential, OneActive, Good, Waiting,
         TypeInv, TypeOK, SegShape, WorkerShape, Idle, Active, Quiet
  <2> QED  BY <2>1, <2>2, <2>3, <2>4, ApartNext
<1>4. ASSUME NEW p \in Procs, Archive(p)  PROVE SequentialInv'
  <2>1. /\ Good /\ (\A q \in Procs : seg[q] = Idle)
        /\ \A q \in Procs \ {p} : seg'[q] = seg[q]
        /\ OneActive /\ \A j \in Runs : Tracked(j)
    BY <1>4, NobodyIsAhead DEF Archive, SequentialInv, Enter, Serves, Turn,
         Overlapping, WorkerShape
  <2>2. OneActive'
    BY <1>4, <2>1 DEF Archive, OneActive, Enter, Seg, rowVars, workerVars,
         Active, Tracked, Sequential, TypeInv, TypeOK, SegShape
  <2>3. ASSUME NEW m \in Runs  PROVE Tracked(m)'
    BY <1>4, <2>1, <2>3, SessionAssumption DEF Archive, Tracked, Enter, Seg,
         rowVars, workerVars, Sequential, OneActive, Good, Waiting, TypeInv,
         TypeOK, SegShape, WorkerShape, Idle, Active
  <2>4. Apart(p)'
    BY <1>4, <2>1, SessionAssumption DEF Archive, Apart, Enter, Seg, Quiet,
         rowVars, workerVars, Tracked, Sequential, OneActive, Good, Waiting,
         TypeInv, TypeOK, SegShape, WorkerShape, Idle, Active
  <2> QED  BY <2>1, <2>2, <2>3, <2>4, ApartNext
<1>5. ASSUME NEW p \in Procs, Unarchive(p)  PROVE SequentialInv'
  <2>1. /\ Good /\ (\A q \in Procs : seg[q] = Idle)
        /\ \A q \in Procs \ {p} : seg'[q] = seg[q]
        /\ OneActive /\ \A j \in Runs : Tracked(j)
    BY <1>5, NobodyIsAhead DEF Unarchive, SequentialInv, Serves, Turn,
         Overlapping, WorkerShape
  <2>2. OneActive'
    BY <1>5, <2>1 DEF Unarchive, OneActive, workerVars, Active, Tracked,
         Sequential, TypeInv, TypeOK, SegShape
  <2>3. ASSUME NEW m \in Runs  PROVE Tracked(m)'
    BY <1>5, <2>1, <2>3, SessionAssumption DEF Unarchive, Tracked, workerVars,
         Sequential, OneActive, Good, Waiting, TypeInv, TypeOK, SegShape,
         WorkerShape, Seg, Idle, Active
  <2>4. Apart(p)'
    BY <1>5, <2>1, SessionAssumption DEF Unarchive, Apart, Quiet, workerVars,
         Tracked, Sequential, OneActive, Good, Waiting, TypeInv, TypeOK,
         SegShape, WorkerShape, Seg, Idle, Active
  <2> QED  BY <2>1, <2>2, <2>3, <2>4, ApartNext
<1>6. ASSUME NEW p \in Procs, NEW r \in Runs, Cancel(p, r)
      PROVE  SequentialInv'
  <2>1. /\ Good /\ (\A q \in Procs : seg[q] = Idle)
        /\ \A q \in Procs \ {p} : seg'[q] = seg[q]
        /\ OneActive /\ \A j \in Runs : Tracked(j)
    BY <1>6, NobodyIsAhead DEF Cancel, SequentialInv, Enter, Serves, Turn,
         Overlapping, WorkerShape
  <2>2. OneActive'
    BY <1>6, <2>1 DEF Cancel, OneActive, Enter, Seg, rowVars, workerVars,
         Active, Tracked, Sequential, TypeInv, TypeOK, SegShape
  <2>3. ASSUME NEW m \in Runs  PROVE Tracked(m)'
    BY <1>6, <2>1, <2>3, SessionAssumption DEF Cancel, Tracked, Enter, Seg,
         rowVars, workerVars, Sequential, OneActive, Good, Waiting, TypeInv,
         TypeOK, SegShape, WorkerShape, Idle, Active
  <2>4. Apart(p)'
    BY <1>6, <2>1, SessionAssumption DEF Cancel, Apart, Exists, Local, Enter,
         Seg, rowVars, workerVars, Tracked, Sequential, OneActive, Good,
         Waiting, TypeInv, TypeOK, SegShape, WorkerShape, Idle, Active,
         Starting, Resolving, Answering, Cancelling, Beginning, Own, HasRun
  <2> QED  BY <2>1, <2>2, <2>3, <2>4, ApartNext
<1>7. ASSUME NEW p \in Procs, NEW r \in Runs, NEW k \in {"resolve", "rerun"},
             Resolve(p, r, k)
      PROVE  SequentialInv'
  <2>0. /\ Good /\ (\A q \in Procs : seg[q] = Idle) /\ OneActive /\ \A j \in Runs : Tracked(j)
    BY <1>7, NobodyIsAhead DEF Resolve, SequentialInv, Serves, Turn,
         Overlapping
  <2>1. ASSUME NEW w \in [kind : SegKinds, run : Runs \cup {None}, new : Runs \cup {None},
                         cur : Runs \cup {None}, was : TaskStatus],
               w.kind \in {"rerun", "resolve"}, w.kind = "rerun" => Quiet, Enter(p, w)
        PROVE  SequentialInv'
    <3>1. /\ seg' = [seg EXCEPT ![p] = w] /\ sstat' = sstat /\ scur' = scur /\ wpc' = wpc
          /\ wcancel' = wcancel /\ tstat' = tstat
      BY <1>7, <2>1 DEF Resolve, Enter, rowVars, workerVars
    <3>2. seg'[p] = w /\ \A q \in Procs \ {p} : seg'[q] = Idle
      BY <2>0, <3>1 DEF TypeInv, TypeOK
    <3>3. OneActive' /\ \A m \in Runs : Tracked(m)'
      BY <2>0, <3>1, <3>2, SessionAssumption DEF OneActive, Tracked, Active,
           Idle, Seg
    <3>4. Apart(p)'
      BY <2>1, <3>1, <3>2 DEF Apart, Quiet, Active, Starting, Answering
    <3> QED  BY <3>2, <3>3, <3>4, ApartNext
  <2>2. r \in Runs /\ tstat[r] \in TaskStatus /\ scur \in Runs \cup {None} /\ k \in SegKinds
    BY DEF SegKinds, TypeInv, TypeOK
  <2>3. CASE k = "resolve" /\ Enter(p, Seg(k, r, None, scur, tstat[r]))
    BY <2>1, <2>2, <2>3 DEF Seg
  <2>4. ASSUME NEW n \in Runs, k = "rerun", "unchecked" \in Hazards \/ Quiet,
               Enter(p, Seg(k, r, n, scur, tstat[r]))
        PROVE  SequentialInv'
    BY <2>1, <2>2, <2>4 DEF Seg, Sequential
  <2> QED  BY <1>7, <2>3, <2>4 DEF Resolve
<1>8. ASSUME NEW p \in Procs, NEW r \in Runs, NEW n \in Runs, Retry(p, r, n)
      PROVE  SequentialInv'
  <2>1. /\ Good /\ (\A q \in Procs : seg[q] = Idle)
        /\ \A q \in Procs \ {p} : seg'[q] = seg[q]
        /\ OneActive /\ \A j \in Runs : Tracked(j)
    BY <1>8, NobodyIsAhead DEF Retry, SequentialInv, Enter, Serves, Turn,
         Overlapping, WorkerShape
  <2>2. OneActive'
    BY <1>8, <2>1 DEF Retry, OneActive, Enter, Seg, workerVars, Active,
         Tracked, Sequential, TypeInv, TypeOK, SegShape
  <2>3. ASSUME NEW m \in Runs  PROVE Tracked(m)'
    BY <1>8, <2>1, <2>3, SessionAssumption DEF Retry, Tracked, Fresh, Unused,
         NewRow, Enter, Seg, workerVars, Sequential, OneActive, Good, Final,
         Waiting, TypeInv, TypeOK, SegShape, WorkerShape, Idle, Active
  <2>4. Apart(p)'
    BY <1>8, <2>1, SessionAssumption DEF Retry, Apart, Exists, Quiet, Fresh,
         Unused, NewRow, Enter, Seg, workerVars, Tracked, Sequential,
         OneActive, Good, Waiting, TypeInv, TypeOK, SegShape, WorkerShape,
         Idle, Active
  <2> QED  BY <2>1, <2>2, <2>3, <2>4, ApartNext
<1>9. ASSUME NEW p \in Procs, MessageSession(p)  PROVE SequentialInv'
  <2>1. /\ \A q \in Procs \ {p} : seg[q] = Idle /\ seg'[q] = seg[q]
        /\ Knows(p) /\ (~ Ahead(p) => Good) /\ Apart(p)
        /\ OneActive /\ \A j \in Runs : Tracked(j)
    BY <1>9, OneAtATime DEF MessageSession, Idle, SequentialInv, Enter, Seg
  <2>2. OneActive'
    BY <1>9, <2>1 DEF MessageSession, OneActive, StartWorker, Enter, Idle,
         Seg, Active, Quiet, Apart, Tracked, Sequential, TypeInv, TypeOK,
         SegShape, Starting, Resolving, Answering, Cancelling, Beginning, Own,
         HasRun
  <2>3. ASSUME NEW m \in Runs  PROVE Tracked(m)'
    BY <1>9, <2>1, <2>3, SessionAssumption DEF MessageSession, Tracked,
         UpdateSession, StartWorker, Enter, Idle, Seg, Apart, Sequential,
         OneActive, Good, Knows, Final, Waiting, TypeInv, TypeOK, SegShape,
         WorkerShape, Active, Quiet, Starting, Resolving, Answering,
         Cancelling, Beginning, Own, HasRun
  <2>4. Apart(p)'
    BY <1>9, <2>1, SessionAssumption DEF MessageSession, Apart, Enter, Idle,
         Seg, Tracked, Sequential, OneActive, Good, Knows, Waiting, TypeInv,
         TypeOK, SegShape, WorkerShape, Starting, Resolving, Answering,
         Cancelling, Beginning, Own, HasRun
  <2> QED  BY <2>1, <2>2, <2>3, <2>4, ApartNext
<1>10. ASSUME NEW p \in Procs, AnswerTask(p)  PROVE SequentialInv'
  <2>1. /\ \A q \in Procs \ {p} : seg[q] = Idle /\ seg'[q] = seg[q]
        /\ Knows(p) /\ (~ Ahead(p) => Good) /\ Apart(p)
        /\ OneActive /\ \A j \in Runs : Tracked(j)
    BY <1>10, OneAtATime DEF AnswerTask, Idle, SequentialInv, Enter, Seg
  <2>2. OneActive'
    BY <1>10, <2>1 DEF AnswerTask, OneActive, Enter, workerVars, Active,
         Apart, Tracked, Sequential, TypeInv, TypeOK, SegShape
  <2>3. ASSUME NEW m \in Runs  PROVE Tracked(m)'
    BY <1>10, <2>1, <2>3, SessionAssumption DEF AnswerTask, Tracked,
         UpdateStatus, Enter, workerVars, Apart, Sequential, OneActive, Good,
         Knows, Final, Waiting, TypeInv, TypeOK, SegShape, WorkerShape, Seg,
         Idle, Active
  <2>4. Apart(p)'
    BY <1>10, <2>1, SessionAssumption DEF AnswerTask, Apart, Enter,
         workerVars, Tracked, Sequential, OneActive, Good, Knows, Waiting,
         TypeInv, TypeOK, SegShape, WorkerShape, Seg, Idle, Active, Quiet,
         Starting, Resolving, Answering, Cancelling, Beginning, Own, HasRun
  <2> QED  BY <2>1, <2>2, <2>3, <2>4, ApartNext
<1>11. ASSUME NEW p \in Procs, AnswerSession(p)  PROVE SequentialInv'
  <2>1. /\ \A q \in Procs \ {p} : seg[q] = Idle /\ seg'[q] = seg[q]
        /\ Knows(p) /\ (~ Ahead(p) => Good) /\ Apart(p)
        /\ OneActive /\ \A j \in Runs : Tracked(j)
    BY <1>11, OneAtATime DEF AnswerSession, Idle, SequentialInv, Enter, Seg
  <2>2. OneActive'
    BY <1>11, <2>1 DEF AnswerSession, OneActive, StartWorker, Enter, Idle,
         Seg, Active, Quiet, Apart, Tracked, Sequential, TypeInv, TypeOK,
         SegShape, Starting, Resolving, Answering, Cancelling, Beginning, Own,
         HasRun
  <2>3. ASSUME NEW m \in Runs  PROVE Tracked(m)'
    BY <1>11, <2>1, <2>3, SessionAssumption DEF AnswerSession, Tracked,
         UpdateSession, StartWorker, Enter, Idle, Seg, Apart, Sequential,
         OneActive, Good, Knows, Waiting, TypeInv, TypeOK, SegShape,
         WorkerShape, Active, Quiet, Starting, Resolving, Answering,
         Cancelling, Beginning, Own, HasRun
  <2>4. Apart(p)'
    BY <1>11, <2>1, SessionAssumption DEF AnswerSession, Apart, Enter, Idle,
         Seg, Tracked, Sequential, OneActive, Good, Knows, Waiting, TypeInv,
         TypeOK, SegShape, WorkerShape, Starting, Resolving, Answering,
         Cancelling, Beginning, Own, HasRun
  <2> QED  BY <2>1, <2>2, <2>3, <2>4, ApartNext
<1>12. ASSUME NEW p \in Procs, ArchiveTask(p)  PROVE SequentialInv'
  <2>1. /\ \A q \in Procs \ {p} : seg[q] = Idle /\ seg'[q] = seg[q]
        /\ Knows(p) /\ (~ Ahead(p) => Good) /\ Apart(p)
        /\ OneActive /\ \A j \in Runs : Tracked(j)
    BY <1>12, OneAtATime DEF ArchiveTask, Idle, SequentialInv, Enter, Seg
  <2>2. OneActive'
    BY <1>12, <2>1 DEF ArchiveTask, OneActive, Enter, Active, Apart, Tracked,
         Sequential, TypeInv, TypeOK, SegShape
  <2>3. ASSUME NEW m \in Runs  PROVE Tracked(m)'
    BY <1>12, <2>1, <2>3, SessionAssumption DEF ArchiveTask, Tracked,
         CancelWorker, UpdateStatus, Enter, Apart, Sequential, OneActive,
         Good, Knows, Waiting, TypeInv, TypeOK, SegShape, WorkerShape, Seg,
         Idle, Active, Quiet
  <2>4. Apart(p)'
    BY <1>12, <2>1, SessionAssumption DEF ArchiveTask, Apart, UpdateStatus,
         Enter, Tracked, Sequential, OneActive, Good, Knows, Final, Waiting,
         TypeInv, TypeOK, SegShape, WorkerShape, Seg, Idle, Active, Quiet
  <2> QED  BY <2>1, <2>2, <2>3, <2>4, ApartNext
<1>13. ASSUME NEW p \in Procs, ArchiveSession(p)  PROVE SequentialInv'
  <2>1. /\ \A q \in Procs \ {p} : seg[q] = Idle /\ seg'[q] = seg[q]
        /\ Knows(p) /\ (~ Ahead(p) => Good) /\ Apart(p)
        /\ OneActive /\ \A j \in Runs : Tracked(j)
    BY <1>13, OneAtATime DEF ArchiveSession, Idle, SequentialInv, Enter, Seg
  <2>2. OneActive'
    BY <1>13, <2>1 DEF ArchiveSession, OneActive, Enter, Idle, Seg,
         workerVars, Active, Apart, Tracked, Sequential, TypeInv, TypeOK,
         SegShape
  <2>3. ASSUME NEW m \in Runs  PROVE Tracked(m)'
    BY <1>13, <2>1, <2>3, SessionAssumption DEF ArchiveSession, Tracked,
         Enter, Idle, Seg, workerVars, Apart, Sequential, OneActive, Good,
         Knows, Final, Waiting, TypeInv, TypeOK, SegShape, WorkerShape,
         Active, Quiet, Starting, Resolving, Answering, Cancelling, Beginning,
         Own, HasRun
  <2>4. Apart(p)'
    BY <1>13, <2>1, SessionAssumption DEF ArchiveSession, Apart, Enter, Idle,
         Seg, workerVars, Tracked, Sequential, OneActive, Good, Knows,
         Waiting, TypeInv, TypeOK, SegShape, WorkerShape, Active, Quiet
  <2> QED  BY <2>1, <2>2, <2>3, <2>4, ApartNext
<1>14. ASSUME NEW p \in Procs, CancelTask(p)  PROVE SequentialInv'
  <2>1. /\ \A q \in Procs \ {p} : seg[q] = Idle /\ seg'[q] = seg[q]
        /\ Knows(p) /\ (~ Ahead(p) => Good) /\ Apart(p)
        /\ OneActive /\ \A j \in Runs : Tracked(j)
    BY <1>14, OneAtATime DEF CancelTask, Idle, SequentialInv, Enter, Seg
  <2>2. OneActive'
    BY <1>14, <2>1 DEF CancelTask, OneActive, Enter, Active, Apart, Tracked,
         Sequential, TypeInv, TypeOK, SegShape
  <2> DEFINE r == seg[p].run
  <2>3. /\ seg[p].kind = "cancel" /\ r \in Runs /\ p \in Procs /\ sstat' = sstat /\ scur' = scur
        /\ wpc' = wpc /\ seg' = [seg EXCEPT ![p] = [seg[p] EXCEPT !.kind = "cancelled"]]
        /\ seg'[p].kind = "cancelled" /\ seg'[p].run = r /\ seg'[p].new = seg[p].new
    BY <1>14 DEF CancelTask, Enter, Cancelling, HasRun, TypeInv, TypeOK,
         SegShape
  <2>4. /\ \A n \in Runs \ {r} : tstat'[n] = tstat[n] /\ wcancel'[n] = wcancel[n]
        /\ wcancel[r] => wcancel'[r]
        /\ tstat[r] \in Final => tstat'[r] = tstat[r] /\ wcancel'[r] = wcancel[r]
        /\ tstat[r] \notin Final => /\ (Exists(r) => tstat'[r] = "cancelled")
                                    /\ Active(r) => wcancel'[r]
    BY <1>14, <2>1, <2>3 DEF CancelTask, Exists, CancelWorker, UpdateStatus,
         Apart, TypeInv, TypeOK
  <2>5. Exists(r)
    BY <2>1, <2>3 DEF Apart
  <2>6. ASSUME NEW m \in Runs  PROVE Tracked(m)'
    <3>1. CASE m = r
      <4>1. tstat'[r] \in Final /\ (Active(r) => wcancel'[r])
        <5>1. CASE tstat[r] \in Final
          <6>1. \A q \in Procs : seg[q].kind # "ending"
            BY <2>1, <2>3 DEF Idle, Seg
          <6> QED  BY <2>1, <2>3, <2>4, <5>1, <6>1 DEF Tracked
        <5>2. CASE tstat[r] \notin Final
          BY <2>4, <2>5, <5>2 DEF Final
        <5> QED  BY <5>1, <5>2
      <4> QED  BY <2>3, <3>1, <4>1 DEF Tracked, Active
    <3>2. CASE m # r
      BY <2>1, <2>3, <2>4, <3>2 DEF Tracked, Active
    <3> QED  BY <3>1, <3>2
  <2>7. Apart(p)'
    <3>1. \A q \in Procs : seg[q].kind # "ending"
      BY <2>1, <2>3 DEF Idle, Seg
    <3>2. tstat'[r] \in Final /\ (Active(r) => wcancel'[r])
      BY <2>1, <2>3, <2>4, <2>5, <3>1 DEF Final, Tracked
    <3> QED  BY <2>3, <3>2 DEF Apart, Active, Starting, Answering
  <2> QED  BY <2>1, <2>2, <2>6, <2>7, ApartNext
<1>15. ASSUME NEW p \in Procs, CancelSession(p)  PROVE SequentialInv'
  <2>1. /\ \A q \in Procs \ {p} : seg[q] = Idle /\ seg'[q] = seg[q]
        /\ Knows(p) /\ (~ Ahead(p) => Good) /\ Apart(p)
        /\ OneActive /\ \A j \in Runs : Tracked(j)
    BY <1>15, OneAtATime DEF CancelSession, Idle, SequentialInv, Enter, Seg
  <2>2. OneActive'
    BY <1>15, <2>1 DEF CancelSession, OneActive, Enter, Idle, Seg, workerVars,
         Active, Apart, Tracked, Sequential, TypeInv, TypeOK, SegShape
  <2>3. ASSUME NEW m \in Runs  PROVE Tracked(m)'
    BY <1>15, <2>1, <2>3, SessionAssumption DEF CancelSession, Tracked, Enter,
         Idle, Seg, workerVars, ArchiveInv, Apart, Sequential, OneActive,
         Good, Knows, Final, Waiting, TypeInv, TypeOK, SegShape, WorkerShape,
         Active, Starting, Resolving, Answering, Cancelling, Beginning, Own,
         HasRun
  <2>4. Apart(p)'
    BY <1>15, <2>1, SessionAssumption DEF CancelSession, Apart, Enter, Idle,
         Seg, workerVars, Tracked, Sequential, OneActive, Good, Knows,
         Waiting, TypeInv, TypeOK, SegShape, WorkerShape, Starting, Resolving,
         Answering, Cancelling, Beginning, Own, HasRun
  <2> QED  BY <2>1, <2>2, <2>3, <2>4, ApartNext
<1>16. ASSUME NEW p \in Procs, RetrySession(p)  PROVE SequentialInv'
  <2>1. /\ \A q \in Procs \ {p} : seg[q] = Idle /\ seg'[q] = seg[q]
        /\ Knows(p) /\ (~ Ahead(p) => Good) /\ Apart(p)
        /\ OneActive /\ \A j \in Runs : Tracked(j)
    BY <1>16, OneAtATime DEF RetrySession, Idle, SequentialInv, Enter, Seg
  <2>2. OneActive'
    BY <1>16, <2>1 DEF RetrySession, OneActive, StartWorker, Enter, Idle, Seg,
         Active, Quiet, Apart, Tracked, Sequential, TypeInv, TypeOK, SegShape,
         Starting, Resolving, Answering, Cancelling, Beginning, Own, HasRun
  <2>3. ASSUME NEW m \in Runs  PROVE Tracked(m)'
    BY <1>16, <2>1, <2>3, SessionAssumption DEF RetrySession, Tracked,
         StartWorker, UpdateSession, Enter, Idle, Seg, Apart, Sequential,
         OneActive, Good, Knows, Final, Waiting, TypeInv, TypeOK, SegShape,
         WorkerShape, Active, Quiet, Starting, Resolving, Answering,
         Cancelling, Beginning, Own, HasRun
  <2>4. Apart(p)'
    BY <1>16, <2>1, SessionAssumption DEF RetrySession, Apart, Enter, Idle,
         Seg, Tracked, Sequential, OneActive, Good, Knows, Waiting, TypeInv,
         TypeOK, SegShape, WorkerShape, Starting, Resolving, Answering,
         Cancelling, Beginning, Own, HasRun
  <2> QED  BY <2>1, <2>2, <2>3, <2>4, ApartNext
<1>17. ASSUME NEW p \in Procs, RerunCreate(p)  PROVE SequentialInv'
  <2>1. /\ \A q \in Procs \ {p} : seg[q] = Idle /\ seg'[q] = seg[q]
        /\ Knows(p) /\ (~ Ahead(p) => Good) /\ Apart(p)
        /\ OneActive /\ \A j \in Runs : Tracked(j)
    BY <1>17, OneAtATime DEF RerunCreate, Idle, SequentialInv, Enter, Seg
  <2>2. OneActive'
    BY <1>17, <2>1 DEF RerunCreate, OneActive, Enter, workerVars, Active,
         Apart, Tracked, Sequential, TypeInv, TypeOK, SegShape
  <2>3. ASSUME NEW m \in Runs  PROVE Tracked(m)'
    BY <1>17, <2>1, <2>3, SessionAssumption DEF RerunCreate, Tracked, NewRow,
         Enter, workerVars, Apart, Sequential, OneActive, Good, Knows, Final,
         Waiting, TypeInv, TypeOK, SegShape, WorkerShape, Seg, Idle, Active
  <2>4. Apart(p)'
    BY <1>17, <2>1, SessionAssumption DEF RerunCreate, Apart, Enter,
         workerVars, Tracked, Sequential, OneActive, Good, Knows, Waiting,
         TypeInv, TypeOK, SegShape, WorkerShape, Seg, Idle, Active, Quiet,
         Starting, Resolving, Answering, Cancelling, Beginning, Own, HasRun
  <2> QED  BY <2>1, <2>2, <2>3, <2>4, ApartNext
<1>18. ASSUME NEW p \in Procs, RerunEvent(p)  PROVE SequentialInv'
  <2>1. /\ \A q \in Procs \ {p} : seg[q] = Idle /\ seg'[q] = seg[q]
        /\ Knows(p) /\ (~ Ahead(p) => Good) /\ Apart(p)
        /\ OneActive /\ \A j \in Runs : Tracked(j)
    BY <1>18, OneAtATime DEF RerunEvent, Idle, SequentialInv, Enter, Seg
  <2>2. OneActive'
    BY <1>18, <2>1 DEF RerunEvent, OneActive, workerVars, Active, Apart,
         Tracked, Sequential, TypeInv, TypeOK, SegShape
  <2>3. ASSUME NEW m \in Runs  PROVE Tracked(m)'
    BY <1>18, <2>1, <2>3, SessionAssumption DEF RerunEvent, Tracked, Enter,
         workerVars, Apart, Sequential, OneActive, Good, Knows, Waiting,
         TypeInv, TypeOK, SegShape, WorkerShape, Seg, Idle, Active
  <2>4. Apart(p)'
    BY <1>18, <2>1, SessionAssumption DEF RerunEvent, Apart, Enter,
         workerVars, Tracked, Sequential, OneActive, Good, Knows, Waiting,
         TypeInv, TypeOK, SegShape, WorkerShape, Seg, Idle, Active, Quiet,
         Starting, Resolving, Answering, Cancelling, Beginning, Own, HasRun
  <2> QED  BY <2>1, <2>2, <2>3, <2>4, ApartNext
<1>19. ASSUME NEW p \in Procs, RerunParent(p)  PROVE SequentialInv'
  <2>1. /\ \A q \in Procs \ {p} : seg[q] = Idle /\ seg'[q] = seg[q]
        /\ Knows(p) /\ (~ Ahead(p) => Good) /\ Apart(p)
        /\ OneActive /\ \A j \in Runs : Tracked(j)
    BY <1>19, OneAtATime DEF RerunParent, Idle, SequentialInv, Enter, Seg
  <2>2. OneActive'
    BY <1>19, <2>1 DEF RerunParent, OneActive, Enter, workerVars, Active,
         Apart, Tracked, Sequential, TypeInv, TypeOK, SegShape
  <2>3. ASSUME NEW m \in Runs  PROVE Tracked(m)'
    BY <1>19, <2>1, <2>3, SessionAssumption DEF RerunParent, Tracked,
         UpdateStatus, Enter, workerVars, Apart, Sequential, OneActive, Good,
         Knows, Final, Waiting, TypeInv, TypeOK, SegShape, WorkerShape, Seg,
         Idle, Active, Quiet, Starting, Resolving, Answering, Cancelling,
         Beginning, Own, HasRun
  <2>4. Apart(p)'
    BY <1>19, <2>1, SessionAssumption DEF RerunParent, Apart, Enter,
         workerVars, Tracked, Sequential, OneActive, Good, Knows, Waiting,
         TypeInv, TypeOK, SegShape, WorkerShape, Seg, Idle, Active, Quiet,
         Starting, Resolving, Answering, Cancelling, Beginning, Own, HasRun
  <2> QED  BY <2>1, <2>2, <2>3, <2>4, ApartNext
<1>20. ASSUME NEW p \in Procs, RerunSession(p)  PROVE SequentialInv'
  <2>1. /\ \A q \in Procs \ {p} : seg[q] = Idle /\ seg'[q] = seg[q]
        /\ Knows(p) /\ (~ Ahead(p) => Good) /\ Apart(p)
        /\ OneActive /\ \A j \in Runs : Tracked(j)
    BY <1>20, OneAtATime DEF RerunSession, Idle, SequentialInv, Enter, Seg
  <2>2. OneActive'
    BY <1>20, <2>1 DEF RerunSession, OneActive, StartWorker, Enter, Idle, Seg,
         Active, Quiet, Apart, Tracked, Sequential, TypeInv, TypeOK, SegShape,
         Starting, Resolving, Answering, Cancelling, Beginning, Own, HasRun
  <2>3. ASSUME NEW m \in Runs  PROVE Tracked(m)'
    BY <1>20, <2>1, <2>3, SessionAssumption DEF RerunSession, Tracked,
         UpdateSession, StartWorker, Enter, Idle, Seg, AskedAndEnded,
         ResolvingShape, Apart, Sequential, OneActive, Good, Knows,
         OwnSegments, Final, Waiting, TypeInv, TypeOK, SegShape, WorkerShape,
         Active, Quiet, Starting, Reruns, Resolving, Answering, Cancelling,
         Beginning, Own, HasRun
  <2>4. Apart(p)'
    BY <1>20, <2>1, SessionAssumption DEF RerunSession, Apart, Enter, Idle,
         Seg, Tracked, Sequential, OneActive, Good, Knows, Waiting, TypeInv,
         TypeOK, SegShape, WorkerShape, Starting, Resolving, Answering,
         Cancelling, Beginning, Own, HasRun
  <2> QED  BY <2>1, <2>2, <2>3, <2>4, ApartNext
<1>21. ASSUME NEW p \in Procs, ResolveEvent(p)  PROVE SequentialInv'
  <2>1. /\ \A q \in Procs \ {p} : seg[q] = Idle /\ seg'[q] = seg[q]
        /\ Knows(p) /\ (~ Ahead(p) => Good) /\ Apart(p)
        /\ OneActive /\ \A j \in Runs : Tracked(j)
    BY <1>21, OneAtATime DEF ResolveEvent, Idle, SequentialInv, Enter, Seg
  <2>2. OneActive'
    BY <1>21, <2>1 DEF ResolveEvent, OneActive, Idle, Seg, workerVars, Active,
         Apart, Tracked, Sequential, TypeInv, TypeOK, SegShape
  <2>3. ASSUME NEW m \in Runs  PROVE Tracked(m)'
    BY <1>21, <2>1, <2>3, SessionAssumption DEF ResolveEvent, Tracked, Idle,
         Seg, workerVars, AskedAndEnded, ResolvingShape, Apart, Sequential,
         OneActive, Good, Knows, OwnSegments, Final, Waiting, Executing,
         TypeInv, TypeOK, SegShape, WorkerShape, Active, Starting, Resolving,
         Answering, Cancelling, Beginning, Own, HasRun
  <2>4. Apart(p)'
    BY <1>21, <2>1, SessionAssumption DEF ResolveEvent, Apart, Enter, Idle,
         Seg, workerVars, Tracked, Sequential, OneActive, Good, Knows,
         Waiting, TypeInv, TypeOK, SegShape, WorkerShape, Starting, Resolving,
         Answering, Cancelling, Beginning, Own, HasRun
  <2> QED  BY <2>1, <2>2, <2>3, <2>4, ApartNext
<1>22. ASSUME NEW p \in Procs, NEW s \in Final, ResolveTask(p, s)
      PROVE  SequentialInv'
  <2>1. /\ \A q \in Procs \ {p} : seg[q] = Idle /\ seg'[q] = seg[q]
        /\ Knows(p) /\ (~ Ahead(p) => Good) /\ Apart(p)
        /\ OneActive /\ \A j \in Runs : Tracked(j)
    BY <1>22, OneAtATime DEF ResolveTask, Idle, SequentialInv, Enter, Seg
  <2>2. OneActive'
    BY <1>22, <2>1 DEF ResolveTask, OneActive, Enter, workerVars, Active,
         Apart, Tracked, Sequential, TypeInv, TypeOK, SegShape
  <2>3. ASSUME NEW m \in Runs  PROVE Tracked(m)'
    BY <1>22, <2>1, <2>3, SessionAssumption DEF ResolveTask, Tracked, Final,
         UpdateStatus, Enter, workerVars, AskedAndEnded, ResolvingShape,
         Asking, Apart, Sequential, OneActive, Good, Knows, OwnSegments,
         Waiting, TypeInv, TypeOK, SegShape, WorkerShape, Seg, Idle, Active,
         Starting, Resolving, Answering, Cancelling, Beginning, Own, HasRun
  <2>4. Apart(p)'
    BY <1>22, <2>1, SessionAssumption DEF ResolveTask, Apart, Final, Enter,
         workerVars, Tracked, Sequential, OneActive, Good, Knows, Waiting,
         TypeInv, TypeOK, SegShape, WorkerShape, Seg, Idle, Starting,
         Resolving, Answering, Cancelling, Beginning, Own, HasRun
  <2> QED  BY <2>1, <2>2, <2>3, <2>4, ApartNext
<1>23. ASSUME NEW p \in Procs, ResolveSession(p)  PROVE SequentialInv'
  <2>1. /\ \A q \in Procs \ {p} : seg[q] = Idle /\ seg'[q] = seg[q]
        /\ Knows(p) /\ (~ Ahead(p) => Good) /\ Apart(p)
        /\ OneActive /\ \A j \in Runs : Tracked(j)
    BY <1>23, OneAtATime DEF ResolveSession, Idle, SequentialInv, Enter, Seg
  <2>2. OneActive'
    BY <1>23, <2>1 DEF ResolveSession, OneActive, Enter, Idle, Seg,
         workerVars, Active, Apart, Tracked, Sequential, TypeInv, TypeOK,
         SegShape
  <2>3. ASSUME NEW m \in Runs  PROVE Tracked(m)'
    BY <1>23, <2>1, <2>3, SessionAssumption DEF ResolveSession, Tracked,
         Enter, Idle, Seg, workerVars, AskedAndEnded, ResolvingShape, Asking,
         Apart, Sequential, OneActive, Good, Knows, OwnSegments, Final,
         Waiting, TypeInv, TypeOK, SegShape, WorkerShape, Active, Starting,
         Resolving, Answering, Cancelling, Beginning, Own, HasRun
  <2>4. Apart(p)'
    BY <1>23, <2>1, SessionAssumption DEF ResolveSession, Apart, Enter, Idle,
         Seg, workerVars, Tracked, Sequential, OneActive, Good, Knows,
         Waiting, TypeInv, TypeOK, SegShape, WorkerShape, Starting, Resolving,
         Answering, Cancelling, Beginning, Own, HasRun
  <2> QED  BY <2>1, <2>2, <2>3, <2>4, ApartNext
<1>24. ASSUME NEW p \in Procs, BeginSession(p)  PROVE SequentialInv'
  <2>1. /\ \A q \in Procs \ {p} : seg[q] = Idle /\ seg'[q] = seg[q]
        /\ Knows(p) /\ (~ Ahead(p) => Good) /\ Apart(p)
        /\ OneActive /\ \A j \in Runs : Tracked(j)
    BY <1>24, OneAtATime DEF BeginSession, Idle, SequentialInv, Enter, Seg
  <2>2. OneActive'
    BY <1>24, <2>1 DEF BeginSession, OneActive, Enter, workerVars, Active,
         Apart, Tracked, Sequential, TypeInv, TypeOK, SegShape
  <2>3. ASSUME NEW m \in Runs  PROVE Tracked(m)'
    BY <1>24, <2>1, <2>3, SessionAssumption DEF BeginSession, Tracked,
         UpdateSession, Enter, workerVars, Apart, Sequential, OneActive, Good,
         Knows, OwnSegments, Waiting, TypeInv, TypeOK, SegShape, WorkerShape,
         Seg, Idle, Active, Starting, Resolving, Answering, Cancelling,
         Beginning, Own, HasRun
  <2>4. Apart(p)'
    BY <1>24, <2>1, SessionAssumption DEF BeginSession, Apart, Enter,
         workerVars, Tracked, Sequential, OneActive, Good, Knows, Waiting,
         TypeInv, TypeOK, SegShape, WorkerShape, Seg, Idle, Starting,
         Resolving, Answering, Cancelling, Beginning, Own, HasRun
  <2> QED  BY <2>1, <2>2, <2>3, <2>4, ApartNext
<1>25. ASSUME NEW p \in Procs, BeginTask(p)  PROVE SequentialInv'
  <2>1. /\ \A q \in Procs \ {p} : seg[q] = Idle /\ seg'[q] = seg[q]
        /\ Knows(p) /\ (~ Ahead(p) => Good) /\ Apart(p)
        /\ OneActive /\ \A j \in Runs : Tracked(j)
    BY <1>25, OneAtATime DEF BeginTask, Idle, SequentialInv, Enter, Seg
  <2>2. OneActive'
    BY <1>25, <2>1 DEF BeginTask, OneActive, Enter, workerVars, Active, Apart,
         Tracked, Sequential, TypeInv, TypeOK, SegShape
  <2>3. ASSUME NEW m \in Runs  PROVE Tracked(m)'
    BY <1>25, <2>1, <2>3, SessionAssumption DEF BeginTask, Tracked, Exists,
         NewRow, Enter, workerVars, Apart, Sequential, OneActive, Good, Knows,
         Final, Waiting, TypeInv, TypeOK, SegShape, WorkerShape, Seg, Idle,
         Active
  <2>4. Apart(p)'
    BY <1>25, <2>1, SessionAssumption DEF BeginTask, Apart, Enter, workerVars,
         Tracked, Sequential, OneActive, Good, Knows, Waiting, TypeInv,
         TypeOK, SegShape, WorkerShape, Seg, Idle, Starting, Resolving,
         Answering, Cancelling, Beginning, Own, HasRun
  <2> QED  BY <2>1, <2>2, <2>3, <2>4, ApartNext
<1>26. ASSUME NEW p \in Procs, StartTask(p)  PROVE SequentialInv'
  <2>1. /\ \A q \in Procs \ {p} : seg[q] = Idle /\ seg'[q] = seg[q]
        /\ Knows(p) /\ (~ Ahead(p) => Good) /\ Apart(p)
        /\ OneActive /\ \A j \in Runs : Tracked(j)
    BY <1>26, OneAtATime DEF StartTask, Idle, SequentialInv, Enter, Seg
  <2>2. OneActive'
    <3>1. /\ seg[p].run \in Runs /\ wpc[seg[p].run] = "scheduled"
          /\ wpc' \in {[wpc EXCEPT ![seg[p].run] = "none"], [wpc EXCEPT ![seg[p].run] = "handling"]}
      BY <1>26 DEF StartTask, EndWorker, OwnSegments, TypeInv, SegShape, Own,
           Beginning, HasRun
    <3>2. \A n \in Runs : Active(n)' => Active(n)
      BY <3>1 DEF Active, TypeInv, TypeOK
    <3> QED  BY <2>1, <3>2 DEF OneActive
  <2>3. ASSUME NEW m \in Runs  PROVE Tracked(m)'
    BY <1>26, <2>1, <2>3, SessionAssumption DEF StartTask, Tracked, EndWorker,
         UpdateStatus, Enter, Idle, Seg, Apart, Sequential, OneActive, Good,
         Knows, Ahead, Final, Waiting, TypeInv, TypeOK, SegShape, WorkerShape,
         Active, Quiet
  <2>4. Apart(p)'
    BY <1>26, <2>1, SessionAssumption DEF StartTask, Apart, Enter, Idle, Seg,
         Tracked, Sequential, OneActive, Good, Knows, Waiting, TypeInv,
         TypeOK, SegShape, WorkerShape, Starting, Resolving, Answering,
         Cancelling, Beginning, Own, HasRun
  <2> QED  BY <2>1, <2>2, <2>3, <2>4, ApartNext
<1>27. ASSUME NEW p \in Procs, EndSession(p)  PROVE SequentialInv'
  <2>1. /\ \A q \in Procs \ {p} : seg[q] = Idle /\ seg'[q] = seg[q]
        /\ Knows(p) /\ (~ Ahead(p) => Good) /\ Apart(p)
        /\ OneActive /\ \A j \in Runs : Tracked(j)
    BY <1>27, OneAtATime DEF EndSession, Idle, SequentialInv, Enter, Seg
  <2>2. OneActive'
    BY <1>27, <2>1 DEF EndSession, OneActive, EndWorker, Enter, Idle, Seg,
         Active, Apart, Tracked, Sequential, TypeInv, TypeOK, SegShape
  <2>3. ASSUME NEW m \in Runs  PROVE Tracked(m)'
    BY <1>27, <2>1, <2>3, SessionAssumption DEF EndSession, Tracked,
         UpdateSession, EndWorker, Enter, Idle, Seg, Apart, Sequential,
         OneActive, Good, Knows, Ahead, OwnSegments, Overlapping, Final,
         Waiting, Executing, TypeInv, TypeOK, SegShape, WorkerShape, Active,
         Exists, rowVars, workerVars, Quiet, Starting, Reruns, Resolving,
         Answering, Cancelling, Beginning, Own, HasRun
  <2>4. Apart(p)'
    BY <1>27, <2>1, SessionAssumption DEF EndSession, Apart, EndWorker, Enter,
         Idle, Seg, Tracked, Sequential, OneActive, Good, Knows, Waiting,
         TypeInv, TypeOK, SegShape, WorkerShape, Starting, Resolving,
         Answering, Cancelling, Beginning, Own, HasRun
  <2> QED  BY <2>1, <2>2, <2>3, <2>4, ApartNext
<1>28. ASSUME NEW p \in Procs, Crash(p)  PROVE SequentialInv'
  BY <1>28 DEF Crash, SequentialInv, Idle, Seg, rowVars, Sequential, Tracked,
       Apart, OneActive, TypeInv, TypeOK, SegShape, WorkerShape
<1>29. ASSUME NEW r \in Runs, LeaveUnstarted(r)  PROVE SequentialInv'
  <2>0. PICK p \in Procs : p = wproc[r]
    BY <1>29 DEF LeaveUnstarted, WorkerShape
  <2>1. /\ Good /\ (\A q \in Procs : seg[q] = Idle)
        /\ \A q \in Procs \ {p} : seg'[q] = seg[q]
        /\ OneActive /\ \A j \in Runs : Tracked(j)
    BY <1>29, <2>0, NobodyIsAhead DEF LeaveUnstarted, SequentialInv, OnLoop,
         Turn, Overlapping, WorkerShape
  <2>2. OneActive'
    BY <1>29, <2>0, <2>1 DEF LeaveUnstarted, OneActive, Active, EndWorker,
         rowVars, Tracked, Sequential, TypeInv, TypeOK, SegShape
  <2>3. ASSUME NEW m \in Runs  PROVE Tracked(m)'
    BY <1>29, <2>0, <2>1, <2>3, SessionAssumption DEF LeaveUnstarted, Tracked,
         Active, EndWorker, rowVars, Sequential, OneActive, Good, Final,
         Waiting, TypeInv, TypeOK, SegShape, WorkerShape, Seg, Idle
  <2>4. Apart(p)'
    BY <1>29, <2>0, <2>1, SessionAssumption DEF LeaveUnstarted, Apart, Active,
         EndWorker, rowVars, Tracked, Sequential, OneActive, Good, Waiting,
         TypeInv, TypeOK, SegShape, WorkerShape, Seg, Idle, Quiet
  <2> QED  BY <2>1, <2>2, <2>3, <2>4, ApartNext
<1>30. ASSUME NEW r \in Runs, Begin(r)  PROVE SequentialInv'
  <2>0. PICK p \in Procs : p = wproc[r]
    BY <1>30 DEF Begin, WorkerShape
  <2>1. /\ Good /\ (\A q \in Procs : seg[q] = Idle)
        /\ \A q \in Procs \ {p} : seg'[q] = seg[q]
        /\ OneActive /\ \A j \in Runs : Tracked(j)
    BY <1>30, <2>0, NobodyIsAhead DEF Begin, SequentialInv, Enter, OnLoop,
         Turn, Overlapping, WorkerShape
  <2>2. OneActive'
    BY <1>30, <2>0, <2>1 DEF Begin, OneActive, Active, Enter, Seg, rowVars,
         workerVars, Tracked, Sequential, TypeInv, TypeOK, SegShape
  <2>3. ASSUME NEW m \in Runs  PROVE Tracked(m)'
    BY <1>30, <2>0, <2>1, <2>3, SessionAssumption DEF Begin, Tracked, Active,
         Enter, Seg, rowVars, workerVars, Sequential, OneActive, Good,
         Waiting, TypeInv, TypeOK, SegShape, WorkerShape, Idle
  <2>4. Apart(p)'
    BY <1>30, <2>0, <2>1, SessionAssumption DEF Begin, Apart, Enter, Seg,
         rowVars, workerVars, Tracked, Sequential, OneActive, Good, Waiting,
         TypeInv, TypeOK, SegShape, WorkerShape, Idle, Starting, Resolving,
         Answering, Cancelling, Beginning, Own, HasRun
  <2> QED  BY <2>1, <2>2, <2>3, <2>4, ApartNext
<1>31. ASSUME NEW r \in Runs, NEW s \in Final \cup Waiting, Outcome(r, s)
      PROVE  SequentialInv'
  <2>0. PICK p \in Procs : p = wproc[r]
    BY <1>31 DEF Outcome, WorkerShape, Executing
  <2>1. /\ Good /\ (\A q \in Procs : seg[q] = Idle)
        /\ \A q \in Procs \ {p} : seg'[q] = seg[q]
        /\ OneActive /\ \A j \in Runs : Tracked(j)
    BY <1>31, <2>0, NobodyIsAhead DEF Outcome, SequentialInv, Enter, OnLoop,
         Turn, Overlapping, WorkerShape
  <2>2. OneActive'
    BY <1>31, <2>0, <2>1 DEF Outcome, OneActive, Active, Enter, Seg,
         workerVars, Tracked, Sequential, TypeInv, TypeOK, SegShape
  <2>3. ASSUME NEW m \in Runs  PROVE Tracked(m)'
    BY <1>31, <2>0, <2>1, <2>3, SessionAssumption DEF Outcome, Tracked, Final,
         Waiting, Active, UpdateStatus, Enter, Seg, workerVars, Sequential,
         OneActive, Good, TypeInv, TypeOK, SegShape, WorkerShape, Idle
  <2>4. Apart(p)'
    BY <1>31, <2>0, <2>1, SessionAssumption DEF Outcome, Apart, Final,
         Waiting, Enter, Seg, workerVars, Tracked, Sequential, OneActive,
         Good, TypeInv, TypeOK, SegShape, WorkerShape, Idle, Starting,
         Resolving, Answering, Cancelling, Beginning, Own, HasRun
  <2> QED  BY <2>1, <2>2, <2>3, <2>4, ApartNext
<1>32. ASSUME NEW r \in Runs, AskInput(r)  PROVE SequentialInv'
  <2>0. PICK p \in Procs : p = wproc[r]
    BY <1>32 DEF AskInput, WorkerShape, Executing
  <2>1. /\ Good /\ (\A q \in Procs : seg[q] = Idle)
        /\ \A q \in Procs \ {p} : seg'[q] = seg[q]
        /\ OneActive /\ \A j \in Runs : Tracked(j)
    BY <1>32, <2>0, NobodyIsAhead DEF AskInput, SequentialInv, OnLoop, Turn,
         Overlapping, WorkerShape
  <2>2. OneActive'
    BY <1>32, <2>0, <2>1 DEF AskInput, OneActive, OnLoop, Active, Tracked,
         Sequential, TypeInv, TypeOK, SegShape
  <2>3. ASSUME NEW m \in Runs  PROVE Tracked(m)'
    BY <1>32, <2>0, <2>1, <2>3, SessionAssumption DEF AskInput, Tracked,
         Active, UpdateStatus, Sequential, OneActive, Good, Final, Waiting,
         Executing, TypeInv, TypeOK, SegShape, WorkerShape, Seg, Idle
  <2>4. Apart(p)'
    BY <1>32, <2>0, <2>1, SessionAssumption DEF AskInput, Apart, Tracked,
         Sequential, OneActive, Good, Waiting, TypeInv, TypeOK, SegShape,
         WorkerShape, Seg, Idle, Starting, Resolving, Answering, Cancelling,
         Beginning, Own, HasRun
  <2> QED  BY <2>1, <2>2, <2>3, <2>4, ApartNext
<1>33. ASSUME NEW r \in Runs, GiveUp(r)  PROVE SequentialInv'
  BY <1>33 DEF GiveUp, SequentialInv, workerVars, Sequential, Tracked, Apart,
       OneActive, TypeInv, TypeOK, SegShape, WorkerShape, Seg, Idle
<1>34. ASSUME NEW r \in Runs, NEW n \in Runs, HandOff(r, n)
      PROVE  SequentialInv'
  BY <1>34 DEF HandOff, SequentialInv, Sequential, Tracked, Apart, OneActive,
       TypeInv, TypeOK, SegShape, WorkerShape, Seg, Idle
<1>35. ASSUME NEW p \in Procs, NEW r \in Runs, Recover(p, r)
      PROVE  SequentialInv'
  <2>1. /\ Good /\ (\A q \in Procs : seg[q] = Idle)
        /\ \A q \in Procs \ {p} : seg'[q] = seg[q]
        /\ OneActive /\ \A j \in Runs : Tracked(j)
    BY <1>35, NobodyIsAhead DEF Recover, SequentialInv, Turn, Overlapping,
         WorkerShape
  <2>2. OneActive'
    BY <1>35, <2>1 DEF Recover, OneActive, Interrupted, Tracked, Sequential,
         TypeInv, TypeOK, SegShape
  <2>3. ASSUME NEW m \in Runs  PROVE Tracked(m)'
    BY <1>35, <2>1, <2>3, SessionAssumption DEF Recover, Tracked, Interrupted,
         Sequential, OneActive, Good, Waiting, TypeInv, TypeOK, SegShape,
         WorkerShape, Seg, Idle
  <2>4. Apart(p)'
    BY <1>35, <2>1, SessionAssumption DEF Recover, Apart, Interrupted,
         Tracked, Sequential, OneActive, Good, Waiting, TypeInv, TypeOK,
         SegShape, WorkerShape, Seg, Idle
  <2> QED  BY <2>1, <2>2, <2>3, <2>4, ApartNext
<1>36. CASE UNCHANGED vars
  BY <1>36 DEF vars, rowVars, workerVars, Sequential, SequentialInv, Tracked,
       Apart, OneActive, TypeInv, TypeOK, SegShape, WorkerShape, Seg, Idle,
       Active, Exists, rowVars, workerVars, Quiet
<1> QED
  BY <1>1, <1>2, <1>3, <1>4, <1>5, <1>6, <1>7, <1>8, <1>9, <1>10, <1>11,
       <1>12, <1>13, <1>14, <1>15, <1>16, <1>17, <1>18, <1>19, <1>20, <1>21,
       <1>22, <1>23, <1>24, <1>25, <1>26, <1>27, <1>28, <1>29, <1>30, <1>31,
       <1>32, <1>33, <1>34, <1>35, <1>36 DEF Next, Requests, Segments, Works

-----------------------------------------------------------------------------
(***************************************************************************)
(* The theorems.                                                           *)
(***************************************************************************)
\* The schedule is chosen once.
LEMMA ScheduleIsFixed ==
  ASSUME [Next]_vars
  PROVE  schedule' = schedule
<1>1. ASSUME NEW p \in Procs, NEW n \in Runs, Message(p, n)
      PROVE  schedule' = schedule
  BY <1>1 DEF Message, Enter, Seg, rowVars
<1>2. ASSUME NEW p \in Procs, NEW n \in Runs, StartDirect(p, n)
      PROVE  schedule' = schedule
  BY <1>2 DEF StartDirect, rowVars
<1>3. ASSUME NEW p \in Procs, Answer(p)  PROVE schedule' = schedule
  BY <1>3 DEF Answer, Enter, Seg, rowVars
<1>4. ASSUME NEW p \in Procs, Archive(p)  PROVE schedule' = schedule
  BY <1>4 DEF Archive, Enter, Seg, rowVars
<1>5. ASSUME NEW p \in Procs, Unarchive(p)  PROVE schedule' = schedule
  BY <1>5 DEF Unarchive
<1>6. ASSUME NEW p \in Procs, NEW r \in Runs, Cancel(p, r)
      PROVE  schedule' = schedule
  BY <1>6 DEF Cancel, Enter, Seg, rowVars
<1>7. ASSUME NEW p \in Procs, NEW r \in Runs, NEW k \in {"resolve", "rerun"},
             Resolve(p, r, k)
      PROVE  schedule' = schedule
  <2>1. CASE k = "resolve" /\ Enter(p, Seg(k, r, None, scur, tstat[r]))
    BY <1>7, <2>1 DEF Resolve, Enter, Seg, rowVars
  <2>2. ASSUME NEW n \in Runs, k = "rerun", RerunAllowed(r), Fresh(n),
               "unchecked" \in Hazards \/ Quiet,
               Enter(p, Seg(k, r, n, scur, tstat[r]))
        PROVE  schedule' = schedule
    BY <1>7, <2>2 DEF Resolve, RerunAllowed, Quiet, Fresh, Enter, Seg, rowVars
  <2> QED  BY <1>7, <2>1, <2>2 DEF Resolve
<1>8. ASSUME NEW p \in Procs, NEW r \in Runs, NEW n \in Runs, Retry(p, r, n)
      PROVE  schedule' = schedule
  BY <1>8 DEF Retry, Enter, Seg
<1>9. ASSUME NEW p \in Procs, MessageSession(p)  PROVE schedule' = schedule
  BY <1>9 DEF MessageSession, Enter, Idle, Seg
<1>10. ASSUME NEW p \in Procs, AnswerTask(p)  PROVE schedule' = schedule
  BY <1>10 DEF AnswerTask, Enter
<1>11. ASSUME NEW p \in Procs, AnswerSession(p)  PROVE schedule' = schedule
  BY <1>11 DEF AnswerSession, Enter, Idle, Seg
<1>12. ASSUME NEW p \in Procs, ArchiveTask(p)  PROVE schedule' = schedule
  BY <1>12 DEF ArchiveTask, Enter
<1>13. ASSUME NEW p \in Procs, ArchiveSession(p)  PROVE schedule' = schedule
  BY <1>13 DEF ArchiveSession, Enter, Idle, Seg
<1>14. ASSUME NEW p \in Procs, CancelTask(p)  PROVE schedule' = schedule
  BY <1>14 DEF CancelTask, Enter
<1>15. ASSUME NEW p \in Procs, CancelSession(p)  PROVE schedule' = schedule
  BY <1>15 DEF CancelSession, Enter, Idle, Seg
<1>16. ASSUME NEW p \in Procs, RetrySession(p)  PROVE schedule' = schedule
  BY <1>16 DEF RetrySession, Enter, Idle, Seg
<1>17. ASSUME NEW p \in Procs, RerunCreate(p)  PROVE schedule' = schedule
  BY <1>17 DEF RerunCreate, Enter
<1>18. ASSUME NEW p \in Procs, RerunEvent(p)  PROVE schedule' = schedule
  BY <1>18 DEF RerunEvent, Enter
<1>19. ASSUME NEW p \in Procs, RerunParent(p)  PROVE schedule' = schedule
  BY <1>19 DEF RerunParent, Enter
<1>20. ASSUME NEW p \in Procs, RerunSession(p)  PROVE schedule' = schedule
  BY <1>20 DEF RerunSession, Enter, Idle, Seg
<1>21. ASSUME NEW p \in Procs, ResolveEvent(p)  PROVE schedule' = schedule
  BY <1>21 DEF ResolveEvent, Enter, Idle, Seg
<1>22. ASSUME NEW p \in Procs, NEW s \in Final, ResolveTask(p, s)
      PROVE  schedule' = schedule
  BY <1>22 DEF ResolveTask, Enter
<1>23. ASSUME NEW p \in Procs, ResolveSession(p)  PROVE schedule' = schedule
  BY <1>23 DEF ResolveSession, Enter, Idle, Seg
<1>24. ASSUME NEW p \in Procs, BeginSession(p)  PROVE schedule' = schedule
  BY <1>24 DEF BeginSession, Enter
<1>25. ASSUME NEW p \in Procs, BeginTask(p)  PROVE schedule' = schedule
  BY <1>25 DEF BeginTask, Enter
<1>26. ASSUME NEW p \in Procs, StartTask(p)  PROVE schedule' = schedule
  BY <1>26 DEF StartTask, Enter, Idle, Seg
<1>27. ASSUME NEW p \in Procs, EndSession(p)  PROVE schedule' = schedule
  BY <1>27 DEF EndSession, Enter, Idle, Seg
<1>28. ASSUME NEW p \in Procs, Crash(p)  PROVE schedule' = schedule
  BY <1>28 DEF Crash, Enter, Idle, rowVars
<1>29. ASSUME NEW r \in Runs, LeaveUnstarted(r)  PROVE schedule' = schedule
  BY <1>29 DEF LeaveUnstarted, rowVars
<1>30. ASSUME NEW r \in Runs, Begin(r)  PROVE schedule' = schedule
  BY <1>30 DEF Begin, Enter, Seg, rowVars
<1>31. ASSUME NEW r \in Runs, NEW s \in Final \cup Waiting, Outcome(r, s)
      PROVE  schedule' = schedule
  BY <1>31 DEF Outcome, Enter, Seg
<1>32. ASSUME NEW r \in Runs, AskInput(r)  PROVE schedule' = schedule
  BY <1>32 DEF AskInput
<1>33. ASSUME NEW r \in Runs, GiveUp(r)  PROVE schedule' = schedule
  BY <1>33 DEF GiveUp
<1>34. ASSUME NEW r \in Runs, NEW n \in Runs, HandOff(r, n)
      PROVE  schedule' = schedule
  BY <1>34 DEF HandOff
<1>35. ASSUME NEW p \in Procs, NEW r \in Runs, Recover(p, r)
      PROVE  schedule' = schedule
  BY <1>35 DEF Recover
<1>36. CASE UNCHANGED vars
  BY <1>36 DEF vars
<1> QED
  BY <1>1, <1>2, <1>3, <1>4, <1>5, <1>6, <1>7, <1>8, <1>9, <1>10, <1>11,
       <1>12, <1>13, <1>14, <1>15, <1>16, <1>17, <1>18, <1>19, <1>20, <1>21,
       <1>22, <1>23, <1>24, <1>25, <1>26, <1>27, <1>28, <1>29, <1>30, <1>31,
       <1>32, <1>33, <1>34, <1>35, <1>36 DEF Next, Requests, Segments, Works

ArchiveKept ==
    sstat = "archived" /\ sstat' # "archived" /\ "race" \notin Hazards
    => \E p \in Procs : Unarchive(p) \/ seg[p].kind \in {"begin", "ending"}

\* Only Unarchive and a run that begins or ends write an archived session.
LEMMA ArchiveKeptStep ==
  ASSUME TypeInv, ArchiveInv, [Next]_vars
  PROVE  ArchiveKept
<1>1. ASSUME NEW p \in Procs, NEW n \in Runs, Message(p, n)  PROVE ArchiveKept
  BY <1>1, SessionAssumption DEF Message, ArchiveKept, Enter, Seg, rowVars,
       TypeInv, SegShape, ArchiveInv
<1>2. ASSUME NEW p \in Procs, NEW n \in Runs, StartDirect(p, n)
      PROVE  ArchiveKept
  BY <1>2, SessionAssumption DEF StartDirect, ArchiveKept, rowVars, TypeInv,
       SegShape, ArchiveInv
<1>3. ASSUME NEW p \in Procs, Answer(p)  PROVE ArchiveKept
  BY <1>3, SessionAssumption DEF Answer, ArchiveKept, Enter, Seg, rowVars,
       TypeInv, SegShape, ArchiveInv
<1>4. ASSUME NEW p \in Procs, Archive(p)  PROVE ArchiveKept
  BY <1>4, SessionAssumption DEF Archive, ArchiveKept, Enter, Seg, rowVars,
       TypeInv, SegShape, ArchiveInv
<1>5. ASSUME NEW p \in Procs, Unarchive(p)  PROVE ArchiveKept
  BY <1>5, SessionAssumption DEF Unarchive, ArchiveKept, TypeInv, SegShape,
       ArchiveInv
<1>6. ASSUME NEW p \in Procs, NEW r \in Runs, Cancel(p, r)  PROVE ArchiveKept
  BY <1>6, SessionAssumption DEF Cancel, ArchiveKept, Enter, Seg, rowVars,
       TypeInv, SegShape, ArchiveInv
<1>7. ASSUME NEW p \in Procs, NEW r \in Runs, NEW k \in {"resolve", "rerun"},
             Resolve(p, r, k)
      PROVE  ArchiveKept
  <2>1. CASE k = "resolve" /\ Enter(p, Seg(k, r, None, scur, tstat[r]))
    BY <1>7, <2>1, SessionAssumption DEF Resolve, Enter, Seg, ArchiveKept,
         rowVars, TypeInv, SegShape, ArchiveInv
  <2>2. ASSUME NEW n \in Runs, k = "rerun", RerunAllowed(r), Fresh(n),
               "unchecked" \in Hazards \/ Quiet,
               Enter(p, Seg(k, r, n, scur, tstat[r]))
        PROVE  ArchiveKept
    BY <1>7, <2>2, SessionAssumption DEF Resolve, RerunAllowed, Quiet, Fresh,
         Enter, Seg, ArchiveKept, rowVars, TypeInv, SegShape, ArchiveInv
  <2> QED  BY <1>7, <2>1, <2>2 DEF Resolve
<1>8. ASSUME NEW p \in Procs, NEW r \in Runs, NEW n \in Runs, Retry(p, r, n)
      PROVE  ArchiveKept
  BY <1>8, SessionAssumption DEF Retry, ArchiveKept, Enter, Seg, TypeInv,
       SegShape, ArchiveInv
<1>9. ASSUME NEW p \in Procs, MessageSession(p)  PROVE ArchiveKept
  BY <1>9, SessionAssumption DEF MessageSession, ArchiveKept, Enter, Idle,
       Seg, TypeInv, SegShape, ArchiveInv, Starting, Resolving, Answering,
       Cancelling, Beginning, Own, HasRun
<1>10. ASSUME NEW p \in Procs, AnswerTask(p)  PROVE ArchiveKept
  BY <1>10, SessionAssumption DEF AnswerTask, ArchiveKept, Enter, TypeInv,
       SegShape, ArchiveInv
<1>11. ASSUME NEW p \in Procs, AnswerSession(p)  PROVE ArchiveKept
  BY <1>11, SessionAssumption DEF AnswerSession, ArchiveKept, Enter, Idle,
       Seg, TypeInv, SegShape, ArchiveInv, Starting, Resolving, Answering,
       Cancelling, Beginning, Own, HasRun
<1>12. ASSUME NEW p \in Procs, ArchiveTask(p)  PROVE ArchiveKept
  BY <1>12, SessionAssumption DEF ArchiveTask, ArchiveKept, Enter, TypeInv,
       SegShape, ArchiveInv
<1>13. ASSUME NEW p \in Procs, ArchiveSession(p)  PROVE ArchiveKept
  BY <1>13, SessionAssumption DEF ArchiveSession, ArchiveKept, UpdateSession,
       Enter, Idle, Seg, TypeInv, SegShape, ArchiveInv
<1>14. ASSUME NEW p \in Procs, CancelTask(p)  PROVE ArchiveKept
  BY <1>14, SessionAssumption DEF CancelTask, ArchiveKept, Enter, TypeInv,
       SegShape, ArchiveInv
<1>15. ASSUME NEW p \in Procs, CancelSession(p)  PROVE ArchiveKept
  BY <1>15, SessionAssumption DEF CancelSession, ArchiveKept, Enter, Idle,
       Seg, TypeInv, SegShape, ArchiveInv, Starting, Resolving, Answering,
       Cancelling, Beginning, Own, HasRun
<1>16. ASSUME NEW p \in Procs, RetrySession(p)  PROVE ArchiveKept
  BY <1>16, SessionAssumption DEF RetrySession, ArchiveKept, Enter, Idle, Seg,
       TypeInv, SegShape, ArchiveInv, Starting, Resolving, Answering,
       Cancelling, Beginning, Own, HasRun
<1>17. ASSUME NEW p \in Procs, RerunCreate(p)  PROVE ArchiveKept
  BY <1>17, SessionAssumption DEF RerunCreate, ArchiveKept, Enter, TypeInv,
       SegShape, ArchiveInv
<1>18. ASSUME NEW p \in Procs, RerunEvent(p)  PROVE ArchiveKept
  BY <1>18, SessionAssumption DEF RerunEvent, ArchiveKept, TypeInv, SegShape,
       ArchiveInv
<1>19. ASSUME NEW p \in Procs, RerunParent(p)  PROVE ArchiveKept
  BY <1>19, SessionAssumption DEF RerunParent, ArchiveKept, Enter, TypeInv,
       SegShape, ArchiveInv
<1>20. ASSUME NEW p \in Procs, RerunSession(p)  PROVE ArchiveKept
  BY <1>20, SessionAssumption DEF RerunSession, ArchiveKept, Enter, Idle, Seg,
       TypeInv, SegShape, ArchiveInv, Starting, Resolving, Answering,
       Cancelling, Beginning, Own, HasRun
<1>21. ASSUME NEW p \in Procs, ResolveEvent(p)  PROVE ArchiveKept
  BY <1>21, SessionAssumption DEF ResolveEvent, ArchiveKept, Idle, Seg,
       TypeInv, SegShape, ArchiveInv
<1>22. ASSUME NEW p \in Procs, NEW s \in Final, ResolveTask(p, s)
      PROVE  ArchiveKept
  BY <1>22, SessionAssumption DEF ResolveTask, ArchiveKept, Enter, TypeInv,
       SegShape, ArchiveInv
<1>23. ASSUME NEW p \in Procs, ResolveSession(p)  PROVE ArchiveKept
  BY <1>23, SessionAssumption DEF ResolveSession, ArchiveKept, Enter, Idle,
       Seg, TypeInv, SegShape, ArchiveInv, Starting, Resolving, Answering,
       Cancelling, Beginning, Own, HasRun
<1>24. ASSUME NEW p \in Procs, BeginSession(p)  PROVE ArchiveKept
  BY <1>24, SessionAssumption DEF BeginSession, ArchiveKept, Enter, TypeInv,
       SegShape, ArchiveInv
<1>25. ASSUME NEW p \in Procs, BeginTask(p)  PROVE ArchiveKept
  BY <1>25, SessionAssumption DEF BeginTask, ArchiveKept, Enter, TypeInv,
       SegShape, ArchiveInv
<1>26. ASSUME NEW p \in Procs, StartTask(p)  PROVE ArchiveKept
  BY <1>26, SessionAssumption DEF StartTask, ArchiveKept, Enter, Idle, Seg,
       TypeInv, SegShape, ArchiveInv
<1>27. ASSUME NEW p \in Procs, EndSession(p)  PROVE ArchiveKept
  BY <1>27, SessionAssumption DEF EndSession, ArchiveKept, Enter, Idle, Seg,
       TypeInv, SegShape, ArchiveInv, Waiting
<1>28. ASSUME NEW p \in Procs, Crash(p)  PROVE ArchiveKept
  BY <1>28, SessionAssumption DEF Crash, ArchiveKept, Idle, rowVars, TypeInv,
       SegShape, ArchiveInv
<1>29. ASSUME NEW r \in Runs, LeaveUnstarted(r)  PROVE ArchiveKept
  BY <1>29, SessionAssumption DEF LeaveUnstarted, ArchiveKept, rowVars,
       TypeInv, SegShape, ArchiveInv
<1>30. ASSUME NEW r \in Runs, Begin(r)  PROVE ArchiveKept
  BY <1>30, SessionAssumption DEF Begin, ArchiveKept, Enter, Seg, rowVars,
       TypeInv, SegShape, ArchiveInv
<1>31. ASSUME NEW r \in Runs, NEW s \in Final \cup Waiting, Outcome(r, s)
      PROVE  ArchiveKept
  BY <1>31, SessionAssumption DEF Outcome, ArchiveKept, Waiting, Enter, Seg,
       TypeInv, SegShape, ArchiveInv
<1>32. ASSUME NEW r \in Runs, AskInput(r)  PROVE ArchiveKept
  BY <1>32, SessionAssumption DEF AskInput, ArchiveKept, TypeInv, SegShape,
       ArchiveInv
<1>33. ASSUME NEW r \in Runs, GiveUp(r)  PROVE ArchiveKept
  BY <1>33, SessionAssumption DEF GiveUp, ArchiveKept, TypeInv, SegShape,
       ArchiveInv
<1>34. ASSUME NEW r \in Runs, NEW n \in Runs, HandOff(r, n)  PROVE ArchiveKept
  BY <1>34, SessionAssumption DEF HandOff, ArchiveKept, TypeInv, SegShape,
       ArchiveInv
<1>35. ASSUME NEW p \in Procs, NEW r \in Runs, Recover(p, r)
      PROVE  ArchiveKept
  BY <1>35, SessionAssumption DEF Recover, ArchiveKept, TypeInv, SegShape,
       ArchiveInv
<1>36. CASE UNCHANGED vars
  BY <1>36, SessionAssumption DEF vars, rowVars, ArchiveKept, TypeInv,
       SegShape, ArchiveInv
<1> QED
  BY <1>1, <1>2, <1>3, <1>4, <1>5, <1>6, <1>7, <1>8, <1>9, <1>10, <1>11,
       <1>12, <1>13, <1>14, <1>15, <1>16, <1>17, <1>18, <1>19, <1>20, <1>21,
       <1>22, <1>23, <1>24, <1>25, <1>26, <1>27, <1>28, <1>29, <1>30, <1>31,
       <1>32, <1>33, <1>34, <1>35, <1>36 DEF Next, Requests, Segments, Works

Inv ==
    /\ TypeInv /\ OneSegment /\ ArchiveInv
    /\ ApprovalInv /\ ShownInv /\ SequentialInv

\* The invariant holds at first,
LEMMA InitInv == Init => Inv
<1> SUFFICES ASSUME Init  PROVE Inv
  OBVIOUS
<1> USE SessionAssumption
<1>1. TypeInv
  BY DEF TypeInv, Init, TypeOK, SegShape, Seg, Idle, SegKinds, SessionStatus,
       TaskStatus, Starting, Reruns, Resolving, Answering, Cancelling,
       Beginning, Own, HasRun
<1>2. \A p \in Procs : seg[p] = Idle /\ seg[p].kind = "idle"
  BY DEF Idle, Init, Seg
<1>3. OneSegment /\ ArchiveInv
  BY <1>2 DEF OneSegment, ArchiveInv, Init, Answering, Resolving, Cancelling
<1>4. WorkerShape /\ OwnSegments /\ ExecutingExists /\ NewIsNew /\ AnsweredOnce /\ AskedAndEnded /\ ResolvingShape
  BY <1>2 DEF WorkerShape, OwnSegments, ExecutingExists, NewIsNew,
       AnsweredOnce, AskedAndEnded, ResolvingShape, Init, Executing, Starting,
       Reruns, Answering, Resolving, Cancelling, Beginning, Own
<1>5. RerunsCounted
  <2> SUFFICES ASSUME NEW r \in Runs
               PROVE  /\ 0 <= Cardinality(Counting(r))
                      /\ 0 + Cardinality(Wanting(r)) <= Cardinality(Procs)
                      /\ 0 + Cardinality(Wanting(r)) <= 1
    BY DEF RerunsCounted, Init
  <2>1. Wanting(r) = {}
    BY <1>2 DEF Wanting
  <2> QED  BY <2>1, CountedSets, FS_EmptySet
<1>6. ShownInv
  BY <1>2 DEF ShownInv, Init, Shown, Knows, Good, Starting, Cancelling,
       Beginning, Waiting
<1>7. SequentialInv
  BY <1>2 DEF SequentialInv, Init, OneActive, Tracked, Apart, Active,
       Starting, Answering
<1> QED  BY <1>1, <1>3, <1>4, <1>5, <1>6, <1>7 DEF Inv, ApprovalInv

\* is kept by every step,
LEMMA NextInv == Inv /\ [Next]_vars => Inv'
<1> SUFFICES ASSUME Inv, [Next]_vars  PROVE Inv'
  OBVIOUS
<1>1. /\ TypeInv /\ OneSegment /\ ArchiveInv /\ ApprovalInv /\ ShownInv /\ SequentialInv
      /\ schedule' = schedule
  BY ScheduleIsFixed DEF Inv
<1>2. TypeInv'
  BY <1>1, TypeStep
<1>3. OneSegment' /\ ArchiveInv'
  BY <1>1, OneSegmentStep, ArchiveStep
<1>4. ASSUME Alive
      PROVE  /\ WorkerShape /\ OwnSegments /\ ExecutingExists /\ NewIsNew /\ AnsweredOnce
             /\ AskedAndEnded /\ ResolvingShape /\ RerunsCounted
  BY <1>1, <1>4 DEF ApprovalInv
<1>5. ApprovalInv'
  <2>1. SUFFICES ASSUME Alive
                 PROVE  (/\ WorkerShape /\ OwnSegments /\ ExecutingExists /\ NewIsNew /\ AnsweredOnce
                         /\ AskedAndEnded /\ ResolvingShape /\ RerunsCounted)'
    BY <1>1 DEF ApprovalInv, Alive, Hazards
  <2>2. WorkerShape' /\ OwnSegments' /\ ExecutingExists'
    BY <1>1, <1>4, <2>1, WorkerStep, OwnStep, ExecutingStep
  <2>3. NewIsNew' /\ AnsweredOnce'
    BY <1>1, <1>4, <2>1, NewStep, AnsweredStep
  <2>4. AskedAndEnded' /\ ResolvingShape'
    BY <1>1, <1>4, <2>1, AskedStep, ResolvingStep
  <2>5. RerunsCounted'
    BY <1>1, <1>4, <2>1, CountedStep
  <2> QED  BY <2>2, <2>3, <2>4, <2>5
<1>6. Overlapping => Alive
  BY DEF Overlapping, Alive
<1>7. ShownInv'
  <2>1. SUFFICES ASSUME Overlapping
                 PROVE  Shown'
    BY <1>1 DEF ShownInv, Overlapping, Hazards
  <2> QED  BY <1>1, <1>4, <1>6, <2>1, ShownStep
<1>8. SequentialInv'
  <2>1. SUFFICES ASSUME Sequential  PROVE SequentialInv'
    BY <1>1 DEF SequentialInv, Sequential, Hazards
  <2>2. Overlapping
    BY <2>1 DEF Overlapping, Sequential
  <2> QED  BY <1>1, <1>4, <1>6, <2>1, <2>2, SequentialStep
<1> QED  BY <1>2, <1>3, <1>5, <1>7, <1>8 DEF Inv

\* and so always holds.
LEMMA SessionInv == Spec => []Inv
<1> QED  BY InitInv, NextInv, PTL DEF Spec

\* With no code in the middle of something the session shows what is so.
LEMMA SettledIsGood == ASSUME Inv, Overlapping, Settled  PROVE Good
<1> QED  BY NobodyIsAhead DEF Inv, Settled

\* The rows, registers and segments of the session always hold values of their
\* kind, whatever happens to it.
THEOREM SessionTypeCorrect == Spec => []TypeOK
<1>1. Inv => TypeOK
  BY DEF Inv, TypeInv
<1> QED  BY <1>1, SessionInv, PTL

\* A session shows RUNNING as long as one of its runs executes and was not
\* told to stop (run_autoagent, add_session_message).
THEOREM SessionBusyWhileExecuting == Spec => []BusyWhileExecuting
<1>1. Inv => BusyWhileExecuting
  <2> SUFFICES ASSUME Inv, Sequential, NEW r \in Runs, wpc[r] \in Executing, ~ wcancel[r]
               PROVE  sstat = "running"
    BY DEF BusyWhileExecuting
  <2>1. Tracked(r) /\ Active(r)
    BY DEF Inv, Active, SequentialInv, Executing
  <2> QED  BY <2>1 DEF Tracked
<1> QED  BY <1>1, SessionInv, PTL

\* The checks of the session's status let one run execute at a time.
THEOREM SessionOneExecution == Spec => []OneExecution
<1>1. Inv => OneExecution
  BY DEF Inv, OneExecution, SequentialInv, OneActive, Active, Executing
<1> QED  BY <1>1, SessionInv, PTL

\* A settled session that shows RUNNING has a current run that is worked on,
\* however requests overlap with the runs.
THEOREM SessionNoPhantomBusy == Spec => []NoPhantomBusy
<1>1. Inv => NoPhantomBusy
  BY SettledIsGood DEF NoPhantomBusy, Good
<1> QED  BY <1>1, SessionInv, PTL

\* A settled session that waits for the user waits for its current run, whose
\* task waits for the same thing and whose approval is still open.
THEOREM SessionWaitingIsAnswerable == Spec => []WaitingIsAnswerable
<1>1. Inv => WaitingIsAnswerable
  BY SettledIsGood DEF WaitingIsAnswerable, Good
<1> QED  BY <1>1, SessionInv, PTL

\* One approval starts at most one rerun, or one in each process when
\* processes answer it at the same moment (_resolve_task_approval).
THEOREM SessionApprovedOnce == Spec => []ApprovedOnce
<1>1. Inv => ApprovedOnce
  <2> SUFFICES ASSUME Inv, Overlapping \/ Hazards = {"race"}, NEW r \in Runs
               PROVE  reruns[r] <= IF "race" \in Hazards THEN Cardinality(Procs) ELSE 1
    BY DEF ApprovedOnce
  <2>1. RerunsCounted /\ reruns[r] \in Nat
    BY DEF Inv, ApprovalInv, Alive, Overlapping, TypeInv, TypeOK
  <2> QED  BY <2>1, CountedSets DEF RerunsCounted
<1> QED  BY <1>1, SessionInv, PTL

\* Unless two processes serve the session at the same moment, only the request
\* that is meant to, or a run that begins or ends, brings an archived session
\* back.
THEOREM SessionArchiveIsKept == Spec => ArchiveIsKept
<1>1. Inv /\ [Next]_vars => [ArchiveKept]_vars
  BY ArchiveKeptStep DEF Inv
<1> QED  BY <1>1, SessionInv, PTL DEF Spec, ArchiveIsKept, ArchiveKept
=============================================================================

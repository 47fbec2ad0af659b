------------------------- MODULE TaskDispatchProofs -------------------------
(***************************************************************************)
(* Theorems about TaskDispatch, for any numbers of processes, tasks and    *)
(* workers, any lease and heartbeat: first those under any set of hazards, *)
(* then those that need the lease, for schedules without hazards.          *)
(***************************************************************************)
EXTENDS TaskDispatch, TLAPS

\* A segment that works on a task or for a worker names one.
SegShape ==
    \A p \in Procs :
       /\ seg[p].kind \in {"start", "resume", "begin", "starting", "cancel",
                          "input", "answer"}
             => seg[p].task \in Tasks
       /\ seg[p].kind \in {"begin", "starting"}
             => /\ seg[p].worker \in Workers
                /\ wpc[seg[p].worker] = "beginning"
                /\ wproc[seg[p].worker] = p

\* A worker slot in use belongs to a process and a task.
WorkerShape ==
    \A w \in Workers :
       wpc[w] # "free" => wtask[w] \in Tasks /\ wproc[w] \in Procs


LEMMA BumpType == ASSUME NEW a \in 0 .. AttemptCap
                  PROVE  Bump(a) \in 0 .. AttemptCap /\ Bump(a) >= a
BY DispatchAssumption DEF Bump

LEMMA MinusType == ASSUME NEW m \in Nat, NEW n \in 0 .. m
                   PROVE  Minus1(n) \in 0 .. m
BY DEF Minus1

RowType ==
    /\ status \in [Tasks -> Status]
    /\ dstat \in [Tasks -> Status \cup {"recovering"}]
    /\ owner \in [Tasks -> Procs \cup {None}]
    /\ lease \in [Tasks -> 0 .. Lease]
    /\ attempt \in [Tasks -> 0 .. AttemptCap]
    /\ recovered \in [Tasks -> Nat]

ProcType ==
    /\ seg \in [Procs -> [kind : SegKinds, task : Tasks \cup {None},
                         worker : Workers \cup {None}]]
    /\ seen \in [Procs -> SUBSET Tasks]
    /\ claimed \in [Procs -> SUBSET Tasks]
    /\ registry \in [Procs -> [Tasks -> Workers \cup {None}]]

WorkerType ==
    /\ wpc \in [Workers -> PC]
    /\ wproc \in [Workers -> Procs \cup {None}]
    /\ wtask \in [Workers -> Tasks \cup {None}]
    /\ wkind \in [Workers -> Kinds]
    /\ wcancel \in [Workers -> BOOLEAN]
    /\ whb \in [Workers -> 0 .. Heartbeat]

TypeInv == RowType /\ ProcType /\ WorkerType /\ SegShape /\ WorkerShape

LEMMA InitType == Init => TypeInv
BY DispatchAssumption DEF Init, TypeInv, RowType, ProcType, WorkerType,
     SegShape, WorkerShape, Down, Seg, SegKinds, Status, PC, Kinds

\* What the helpers leave in the dispatch record, the registry and the slots.
DispatchType ==
    /\ dstat \in [Tasks -> Status \cup {"recovering"}]
    /\ owner \in [Tasks -> Procs \cup {None}]
    /\ lease \in [Tasks -> 0 .. Lease]
    /\ attempt \in [Tasks -> 0 .. AttemptCap]

LEMMA SetDispatchType ==
    ASSUME RowType, NEW t \in Tasks, NEW s \in Status \cup {"recovering"},
           NEW q \in Procs \cup {None}, NEW n \in 0 .. Lease,
           NEW a \in 0 .. AttemptCap, SetDispatch(t, s, q, n, a)
    PROVE  DispatchType'
BY DEF RowType, DispatchType, SetDispatch

LEMMA MarkStartedType ==
    ASSUME RowType, ProcType, NEW p \in Procs, NEW t \in Tasks, MarkStarted(p, t)
    PROVE  DispatchType' /\ seen' \in [Procs -> SUBSET Tasks]
<1>1. CASE Exists(t)
  <2>1. "running" \in Status \cup {"recovering"} /\ Lease \in 0 .. Lease
    BY DispatchAssumption DEF Status, Recoverable
  <2>2. attempt[t] \in 0 .. AttemptCap
    BY DEF RowType
  <2>3. SetDispatch(t, "running", p, Lease, Bump(attempt[t])) /\ Touch(t)
    BY <1>1 DEF MarkStarted
  <2>4. DispatchType'
    BY <2>1, <2>2, <2>3, BumpType, SetDispatchType
  <2> QED
    BY <2>3, <2>4 DEF Touch, ProcType
<1>2. CASE ~ Exists(t)
  BY <1>2 DEF MarkStarted, RowType, ProcType, DispatchType
<1> QED
  BY <1>1, <1>2

LEMMA FreeWorkersType ==
    ASSUME WorkerType, WorkerShape, NEW S, FreeWorkers(S)
    PROVE  WorkerType' /\ WorkerShape'
<1>1. wpc' \in [Workers -> PC] /\ wproc' \in [Workers -> Procs \cup {None}]
  BY DEF WorkerType, FreeWorkers, PC
<1>2. wtask' \in [Workers -> Tasks \cup {None}] /\ wkind' \in [Workers -> Kinds]
  BY DEF WorkerType, FreeWorkers, Kinds
<1>3. wcancel' \in [Workers -> BOOLEAN]
  BY Zenon DEF WorkerType, FreeWorkers
<1>4. whb' \in [Workers -> 0 .. Heartbeat]
  BY DispatchAssumption DEF WorkerType, FreeWorkers
<1>5. WorkerShape'
  BY DEF WorkerShape, FreeWorkers
<1> QED
  BY <1>1, <1>2, <1>3, <1>4, <1>5 DEF WorkerType

\* Moving a slot that is in use keeps the slots well formed.
LEMMA GotoShape ==
    ASSUME WorkerType, WorkerShape, NEW w \in Workers, NEW pc \in PC,
           wpc[w] # "free", Goto(w, pc), UNCHANGED <<wproc, wtask>>
    PROVE  WorkerShape'
BY DEF WorkerType, WorkerShape, Goto

LEMMA RegisterType ==
    ASSUME ProcType, NEW p \in Procs, NEW t \in Tasks, NEW w \in Workers,
           Register(p, t, w)
    PROVE  registry' \in [Procs -> [Tasks -> Workers \cup {None}]]
BY DEF ProcType, Register

LEMMA TypeStep == TypeInv /\ [Next]_vars => TypeInv'
<1> SUFFICES ASSUME TypeInv, [Next]_vars PROVE TypeInv'
  OBVIOUS
<1> USE DispatchAssumption
<1>1. ASSUME NEW p \in Procs,
            Boot(p)
     PROVE  TypeInv'
  BY <1>1 DEF TypeInv, RowType, ProcType, WorkerType, SegShape, WorkerShape,
       rowVars, workerVars, Boot, Enter, Seg, SegKinds
<1>2. ASSUME NEW p \in Procs,
            ReadExhausted(p)
     PROVE  TypeInv'
  BY <1>2 DEF TypeInv, RowType, ProcType, WorkerType, SegShape, WorkerShape,
       rowVars, workerVars, ReadExhausted, Enter, Seg, SegKinds
<1>3. ASSUME NEW p \in Procs, NEW t \in Tasks,
            FailExhausted(p, t)
     PROVE  TypeInv'
  BY <1>3 DEF TypeInv, RowType, ProcType, WorkerType, SegShape, WorkerShape,
       workerVars, FailExhausted, SetStatus, SetDispatch, Touch, Status, Final
<1>4. ASSUME NEW p \in Procs,
            ReadClaimable(p)
     PROVE  TypeInv'
  BY <1>4 DEF TypeInv, RowType, ProcType, WorkerType, SegShape, WorkerShape,
       rowVars, workerVars, ReadClaimable, Enter, Seg, SegKinds
<1>5. ASSUME NEW p \in Procs, NEW t \in Tasks,
            Claim(p, t)
     PROVE  TypeInv'
  BY <1>5, BumpType DEF TypeInv, RowType, ProcType, WorkerType, SegShape,
       WorkerShape, workerVars, Claim, SetStatus, SetDispatch, Touch, Status,
       Recoverable
<1>6. ASSUME NEW p \in Procs,
            EndClaims(p)
     PROVE  TypeInv'
  BY <1>6 DEF TypeInv, RowType, ProcType, WorkerType, SegShape, WorkerShape,
       rowVars, workerVars, EndClaims, Enter, Seg, SegKinds
<1>7. ASSUME NEW p \in Procs, NEW t \in Tasks, NEW w \in Workers,
            Restart(p, t, w)
     PROVE  TypeInv'
  <2>1. RowType'
    <3>1. DispatchType'
      BY <1>7, MarkStartedType DEF TypeInv, Restart, RunnerStart
    <3> QED
      BY <1>7, <3>1 DEF TypeInv, RowType, DispatchType, Restart, RunnerStart
  <2>2. ProcType'
    BY <1>7, BumpType DEF TypeInv, ProcType, Restart, RunnerStart,
         MarkStarted, Register, Touch
  <2>3. WorkerType'
    BY <1>7, BumpType DEF TypeInv, WorkerType, Restart, RunnerStart,
         NewWorker, PC, Live, Kinds
  <2>4. SegShape'
    BY <1>7, BumpType DEF TypeInv, SegShape, Restart, RunnerStart, NewWorker
  <2>5. WorkerShape'
    BY <1>7, BumpType DEF TypeInv, WorkerType, WorkerShape, Restart,
         RunnerStart, NewWorker
  <2> QED
    BY <2>1, <2>2, <2>3, <2>4, <2>5 DEF TypeInv
<1>8. ASSUME NEW p \in Procs,
            EndRecovery(p)
     PROVE  TypeInv'
  BY <1>8 DEF TypeInv, RowType, ProcType, WorkerType, SegShape, WorkerShape,
       rowVars, workerVars, EndRecovery, Enter, Idle, Seg, SegKinds
<1>9. ASSUME NEW p \in Procs,
            Crash(p)
     PROVE  TypeInv'
  <2>1. RowType'
    BY <1>9 DEF TypeInv, RowType, Crash
  <2>2. ProcType'
    BY <1>9 DEF TypeInv, ProcType, Crash, Enter, Down, Seg, SegKinds
  <2>3. WorkerType'
    BY <1>9, FreeWorkersType DEF TypeInv, Crash
  <2>4. SegShape'
    BY <1>9 DEF TypeInv, ProcType, SegShape, Crash, Enter, Down, Seg,
         FreeWorkers
  <2>5. WorkerShape'
    BY <1>9 DEF TypeInv, WorkerShape, Crash, FreeWorkers
  <2> QED
    BY <2>1, <2>2, <2>3, <2>4, <2>5 DEF TypeInv
<1>10. ASSUME NEW p \in Procs, NEW t \in Tasks,
            CreateTask(p, t)
     PROVE  TypeInv'
  BY <1>10 DEF TypeInv, RowType, ProcType, WorkerType, SegShape, WorkerShape,
       workerVars, CreateTask, NewRow, SetStatus, SetDispatch, Touch, Enter,
       Seg, SegKinds, Status, Recoverable
<1>11. ASSUME NEW p \in Procs, NEW w \in Workers,
            StartCreated(p, w)
     PROVE  TypeInv'
  <2>1. RowType'
    <3>1. seg[p].task \in Tasks /\ RunnerStart(p, seg[p].task, w,
            IF seg[p].kind = "start" THEN "runner" ELSE "resume")
      BY <1>11 DEF TypeInv, SegShape, StartCreated
    <3>2. DispatchType'
      BY <3>1, MarkStartedType DEF TypeInv, RunnerStart
    <3> QED
      BY <3>1, <3>2 DEF TypeInv, RowType, DispatchType, RunnerStart
  <2>2. ProcType'
    BY <1>11, BumpType DEF TypeInv, ProcType, SegShape, StartCreated,
         RunnerStart, MarkStarted, Register, Touch, Enter, Idle, Seg, SegKinds
  <2>3. WorkerType'
    BY <1>11, BumpType DEF TypeInv, WorkerType, SegShape, StartCreated,
         RunnerStart, NewWorker, PC, Live, Kinds
  <2>4. SegShape'
    BY <1>11, BumpType DEF TypeInv, SegShape, StartCreated, RunnerStart,
         NewWorker, Enter, Idle, Seg
  <2>5. WorkerShape'
    BY <1>11, BumpType DEF TypeInv, WorkerType, SegShape, WorkerShape,
         StartCreated, RunnerStart, NewWorker
  <2> QED
    BY <2>1, <2>2, <2>3, <2>4, <2>5 DEF TypeInv
<1>12. ASSUME NEW p \in Procs, NEW t \in Tasks, NEW w \in Workers, NEW k \in {"runner", "foreground"},
            StartRowless(p, t, w, k)
     PROVE  TypeInv'
  <2>1. RowType'
    BY <1>12 DEF TypeInv, RowType, rowVars, StartRowless
  <2>2. ProcType'
    <3>1. CASE k = "runner"
      BY <1>12, <3>1, RegisterType DEF TypeInv, ProcType, StartRowless
    <3>2. CASE k # "runner"
      BY <1>12, <3>2 DEF TypeInv, ProcType, StartRowless
    <3> QED
      BY <3>1, <3>2
  <2>3. WorkerType'
    BY <1>12 DEF TypeInv, WorkerType, StartRowless, NewWorker, PC, Live, Kinds
  <2>4. SegShape'
    BY <1>12 DEF TypeInv, SegShape, StartRowless, NewWorker
  <2>5. WorkerShape'
    BY <1>12 DEF TypeInv, WorkerType, WorkerShape, StartRowless, NewWorker
  <2> QED
    BY <2>1, <2>2, <2>3, <2>4, <2>5 DEF TypeInv
<1>13. ASSUME NEW p \in Procs, NEW t \in Tasks,
            InputRead(p, t)
     PROVE  TypeInv'
  BY <1>13 DEF TypeInv, RowType, ProcType, WorkerType, SegShape, WorkerShape,
       rowVars, workerVars, InputRead, Enter, Seg, SegKinds
<1>14. ASSUME NEW p \in Procs,
            InputCheck(p)
     PROVE  TypeInv'
  <2> DEFINE t == seg[p].task
  <2>1. t \in Tasks
    BY <1>14 DEF TypeInv, SegShape, InputCheck
  <2>2. \A k \in {"answer", "resume"} :
           Seg(k, t, None) \in [kind : SegKinds, task : Tasks \cup {None},
                                worker : Workers \cup {None}]
    BY <2>1 DEF Seg, SegKinds
  <2>3. Idle \in [kind : SegKinds, task : Tasks \cup {None},
                  worker : Workers \cup {None}]
    BY DEF Seg, Idle, SegKinds
  <2>4. ProcType'
    BY <1>14, <2>2, <2>3 DEF TypeInv, ProcType, InputCheck, Enter
  <2>5. SegShape'
    BY <1>14, <2>1 DEF TypeInv, SegShape, InputCheck, Enter, Seg, Idle,
         workerVars
  <2> QED
    BY <1>14, <2>4, <2>5 DEF TypeInv, RowType, WorkerType, WorkerShape,
         InputCheck, rowVars, workerVars
<1>15. ASSUME NEW p \in Procs,
            InputWrite(p)
     PROVE  TypeInv'
  <2> DEFINE t == seg[p].task
  <2>1. t \in Tasks
    BY <1>15 DEF TypeInv, SegShape, InputWrite
  <2>2. RowType'
    BY <1>15 DEF TypeInv, RowType, InputWrite, UpdateStatus, SetStatus,
         Status, Recoverable
  <2>3. Seg("resume", t, None) \in [kind : SegKinds, task : Tasks \cup {None},
                                    worker : Workers \cup {None}]
    BY <2>1 DEF Seg, SegKinds
  <2>4. ProcType'
    BY <1>15, <2>3 DEF TypeInv, ProcType, InputWrite, Enter, UpdateStatus,
         SetStatus, Touch
  <2>5. WorkerType'
    BY <1>15 DEF TypeInv, WorkerType, InputWrite, workerVars
  <2>6. SegShape'
    BY <1>15, <2>1 DEF TypeInv, SegShape, InputWrite, Enter, Seg, workerVars
  <2>7. WorkerShape'
    BY <1>15 DEF TypeInv, WorkerShape, InputWrite, workerVars
  <2> QED
    BY <2>2, <2>4, <2>5, <2>6, <2>7 DEF TypeInv
<1>16. ASSUME NEW p \in Procs, NEW t \in Tasks,
            CancelRead(p, t)
     PROVE  TypeInv'
  BY <1>16 DEF TypeInv, RowType, ProcType, WorkerType, SegShape, WorkerShape,
       rowVars, CancelRead, CancelRegistered, Enter, Seg, SegKinds
<1>17. ASSUME NEW p \in Procs,
            CancelWrite(p)
     PROVE  TypeInv'
  <2>1. RowType'
    BY <1>17 DEF TypeInv, RowType, CancelWrite, UpdateStatus, SetStatus,
         Status, Final
  <2>2. Idle \in [kind : SegKinds, task : Tasks \cup {None},
                  worker : Workers \cup {None}]
    BY DEF Seg, Idle, SegKinds
  <2>3. ProcType'
    BY <1>17, <2>2 DEF TypeInv, ProcType, CancelWrite, Enter, UpdateStatus,
         SetStatus, Touch
  <2>4. SegShape'
    BY <1>17 DEF TypeInv, SegShape, CancelWrite, Enter, Seg, Idle, workerVars
  <2> QED
    BY <1>17, <2>1, <2>3, <2>4 DEF TypeInv, WorkerType, WorkerShape,
         CancelWrite, workerVars
<1>18. ASSUME NEW p \in Procs, NEW t \in Tasks,
            Delete(p, t)
     PROVE  TypeInv'
  BY <1>18 DEF TypeInv, RowType, ProcType, WorkerType, SegShape, WorkerShape,
       Delete, CancelRegistered, SetStatus, SetDispatch, Touch, Status
<1>19. ASSUME NEW p \in Procs,
            StartCheck(p)
     PROVE  TypeInv'
  <2> DEFINE t == seg[p].task
             w == seg[p].worker
  <2>1. t \in Tasks /\ w \in Workers /\ wpc[w] = "beginning" /\ wproc[w] = p
    BY <1>19 DEF TypeInv, SegShape, StartCheck
  <2>2. CASE Exists(t) /\ status[t] \notin Final
    <3>1. Enter(p, Seg("starting", t, w)) /\ UNCHANGED wpc
      BY <1>19, <2>2 DEF StartCheck
    <3>2. Seg("starting", t, w) \in [kind : SegKinds, task : Tasks \cup {None},
                                     worker : Workers \cup {None}]
      BY <2>1 DEF Seg, SegKinds
    <3>3. ProcType'
      BY <1>19, <3>1, <3>2 DEF TypeInv, ProcType, StartCheck, Enter
    <3>4. SegShape'
      BY <1>19, <2>1, <3>1 DEF TypeInv, SegShape, StartCheck, Enter, Seg
    <3> QED
      BY <1>19, <3>1, <3>3, <3>4 DEF TypeInv, RowType, WorkerType,
           WorkerShape, StartCheck, rowVars
  <2>3. CASE ~ (Exists(t) /\ status[t] \notin Final)
    <3>1. Enter(p, Idle) /\ Goto(w, "closing")
      BY <1>19, <2>3 DEF StartCheck
    <3>2. Idle \in [kind : SegKinds, task : Tasks \cup {None},
                    worker : Workers \cup {None}]
      BY DEF Seg, Idle, SegKinds
    <3>3. ProcType'
      BY <1>19, <3>1, <3>2 DEF TypeInv, ProcType, StartCheck, Enter
    <3>4. SegShape'
      BY <1>19, <2>1, <3>1 DEF TypeInv, ProcType, SegShape, StartCheck, Enter,
           Seg, Idle, Goto
    <3>5. WorkerShape'
      BY <1>19, <2>1, <3>1, GotoShape DEF TypeInv, StartCheck, PC
    <3>6. WorkerType'
      BY <1>19, <2>1, <3>1 DEF TypeInv, WorkerType, StartCheck, Goto, PC
    <3> QED
      BY <1>19, <3>3, <3>4, <3>5, <3>6 DEF TypeInv, RowType, StartCheck,
           rowVars
  <2> QED
    BY <2>2, <2>3
<1>20. ASSUME NEW p \in Procs,
            StartWrite(p)
     PROVE  TypeInv'
  <2> DEFINE w == seg[p].worker
             pc == IF Exists(seg[p].task) THEN "handling" ELSE "closing"
  <2>1. w \in Workers /\ wpc[w] = "beginning" /\ wproc[w] = p
    BY <1>20 DEF TypeInv, SegShape, StartWrite
  <2>2. pc \in PC
    BY DEF PC, Live, Executing
  <2>3. Enter(p, Idle) /\ Goto(w, pc)
    BY <1>20 DEF StartWrite
  <2> HIDE DEF pc
  <2>4. RowType'
    BY <1>20 DEF TypeInv, RowType, StartWrite, UpdateStatus, SetStatus,
         Status, Recoverable
  <2>5. Idle \in [kind : SegKinds, task : Tasks \cup {None},
                  worker : Workers \cup {None}]
    BY DEF Seg, Idle, SegKinds
  <2>6. ProcType'
    BY <1>20, <2>5 DEF TypeInv, ProcType, StartWrite, Enter, UpdateStatus,
         SetStatus, Touch
  <2>7. WorkerType'
    BY <1>20, <2>1, <2>2, <2>3 DEF TypeInv, WorkerType, StartWrite, Goto
  <2>8. SegShape'
    BY <1>20, <2>1, <2>3 DEF TypeInv, ProcType, SegShape, StartWrite, Enter,
         Seg, Idle, Goto
  <2>9. WorkerShape'
    BY <1>20, <2>1, <2>2, <2>3, GotoShape DEF TypeInv, StartWrite
  <2> QED
    BY <2>4, <2>6, <2>7, <2>8, <2>9 DEF TypeInv
<1>21. ASSUME NEW w \in Workers,
            CancelledUnstarted(w)
     PROVE  TypeInv'
  BY <1>21 DEF TypeInv, RowType, ProcType, WorkerType, SegShape, WorkerShape,
       rowVars, procVars, CancelledUnstarted, Goto, PC
<1>22. ASSUME NEW w \in Workers,
            BeginSkipped(w)
     PROVE  TypeInv'
  <2>1. RowType'
    BY <1>22 DEF TypeInv, RowType, rowVars, BeginSkipped
  <2>2. ProcType'
    <3>1. wtask[w] \in Tasks /\ wproc[w] \in Procs
      BY <1>22 DEF TypeInv, WorkerShape, BeginSkipped
    <3>2. registry' \in [Procs -> [Tasks -> Workers \cup {None}]]
      BY <1>22, <3>1, RegisterType DEF TypeInv, ProcType, BeginSkipped
    <3> QED
      BY <1>22, <3>2 DEF TypeInv, ProcType, BeginSkipped
  <2>3. WorkerType'
    <3>1. wpc' \in [Workers -> PC]
      BY <1>22 DEF TypeInv, WorkerType, BeginSkipped, Goto, PC
    <3> QED
      BY <1>22, <3>1 DEF TypeInv, WorkerType, BeginSkipped
  <2>4. SegShape'
    BY <1>22 DEF TypeInv, WorkerType, SegShape, BeginSkipped, Goto
  <2>5. WorkerShape'
    BY <1>22 DEF TypeInv, WorkerType, WorkerShape, BeginSkipped, Goto
  <2> QED
    BY <2>1, <2>2, <2>3, <2>4, <2>5 DEF TypeInv
<1>23. ASSUME NEW w \in Workers,
            Begin(w)
     PROVE  TypeInv'
  <2>1. RowType'
    <3>1. wtask[w] \in Tasks
      BY <1>23 DEF TypeInv, WorkerShape, Begin
    <3>2. CASE Exists(wtask[w])
      BY <1>23, <3>2 DEF TypeInv, RowType, Begin, rowVars
    <3>3. CASE NewRow(wtask[w])
      BY <3>1, <3>3 DEF TypeInv, RowType, NewRow, SetStatus, SetDispatch,
           Status, Recoverable
    <3> QED
      BY <1>23, <3>2, <3>3 DEF Begin
  <2>2. ProcType'
    BY <1>23 DEF TypeInv, ProcType, WorkerShape, Begin, Register, NewRow,
         SetStatus, Touch, Enter, Seg, SegKinds
  <2>3. WorkerType'
    BY <1>23 DEF TypeInv, WorkerType, Begin, Goto, PC, Live
  <2>4. SegShape'
    BY <1>23 DEF TypeInv, WorkerType, SegShape, WorkerShape, Begin, Goto,
         Enter, Seg
  <2>5. WorkerShape'
    BY <1>23 DEF TypeInv, WorkerShape, Begin, Goto
  <2> QED
    BY <2>1, <2>2, <2>3, <2>4, <2>5 DEF TypeInv
<1>24. ASSUME NEW w \in Workers, NEW s \in Final \cup Waiting,
            Outcome(w, s)
     PROVE  TypeInv'
  <2>1. RowType'
    <3>1. s \in Status
      BY DEF Status
    <3> QED
      BY <1>24, <3>1 DEF TypeInv, RowType, Outcome, UpdateStatus, SetStatus
  <2>2. ProcType'
    BY <1>24 DEF TypeInv, ProcType, Outcome, UpdateStatus, SetStatus, Touch
  <2>3. WorkerType'
    BY <1>24 DEF TypeInv, WorkerType, Outcome, Goto, PC
  <2>4. SegShape'
    BY <1>24 DEF TypeInv, SegShape, Outcome, Goto, Executing
  <2>5. WorkerShape'
    BY <1>24, GotoShape DEF TypeInv, Outcome, Executing, PC
  <2> QED
    BY <2>1, <2>2, <2>3, <2>4, <2>5 DEF TypeInv
<1>25. ASSUME NEW w \in Workers,
            Close(w)
     PROVE  TypeInv'
  <2>1. RowType'
    BY <1>25 DEF TypeInv, RowType, rowVars, Close
  <2>2. ProcType'
    BY <1>25 DEF TypeInv, ProcType, Close, Discard
  <2>3. WorkerType'
    <3>1. CASE wkind[w] = "foreground"
      BY <1>25, <3>1, FreeWorkersType DEF TypeInv, Close
    <3>2. CASE wkind[w] # "foreground"
      BY <1>25, <3>2 DEF TypeInv, WorkerType, Close, Goto, PC
    <3> QED
      BY <3>1, <3>2
  <2>4. SegShape'
    <3>1. CASE wkind[w] = "foreground"
      BY <1>25, <3>1 DEF TypeInv, SegShape, Close, FreeWorkers
    <3>2. CASE wkind[w] # "foreground"
      BY <1>25, <3>2 DEF TypeInv, WorkerType, SegShape, Close, Goto
    <3> QED
      BY <3>1, <3>2
  <2>5. WorkerShape'
    <3>1. CASE wkind[w] = "foreground"
      BY <1>25, <3>1, FreeWorkersType DEF TypeInv, Close
    <3>2. CASE wkind[w] # "foreground"
      BY <1>25, <3>2, GotoShape DEF TypeInv, Close, PC
    <3> QED
      BY <3>1, <3>2
  <2> QED
    BY <2>1, <2>2, <2>3, <2>4, <2>5 DEF TypeInv
<1>26. ASSUME NEW w \in Workers,
            Done(w)
     PROVE  TypeInv'
  <2>1. RowType'
    <3>1. wtask[w] \in Tasks /\ wproc[w] \in Procs
      BY <1>26 DEF TypeInv, WorkerShape, Done
    <3>2. CASE Exists(wtask[w])
      <4> DEFINE t == wtask[w]
      <4>1. /\ status[t] \in Status \cup {"recovering"}
            /\ owner[t] \in Procs \cup {None}
            /\ attempt[t] \in 0 .. AttemptCap
            /\ 0 \in 0 .. Lease
        BY <3>1 DEF TypeInv, RowType
      <4>2. SetDispatch(t, status[t], owner[t], 0, attempt[t])
        BY <1>26, <3>2 DEF Done
      <4> HIDE DEF t
      <4>3. DispatchType'
        BY <3>1, <4>1, <4>2, SetDispatchType DEF TypeInv, t
      <4> QED
        BY <1>26, <4>3 DEF TypeInv, RowType, DispatchType, Done
    <3>3. CASE ~ Exists(wtask[w])
      BY <1>26, <3>3 DEF TypeInv, RowType, Done
    <3> QED
      BY <3>2, <3>3
  <2>2. ProcType'
    BY <1>26 DEF TypeInv, ProcType, WorkerShape, Done, Discard, Touch
  <2>3. WorkerType'
    BY <1>26, FreeWorkersType DEF TypeInv, Done
  <2>4. SegShape'
    BY <1>26 DEF TypeInv, SegShape, Done, FreeWorkers
  <2>5. WorkerShape'
    BY <1>26 DEF TypeInv, WorkerShape, Done, FreeWorkers
  <2> QED
    BY <2>1, <2>2, <2>3, <2>4, <2>5 DEF TypeInv
<1>27. ASSUME NEW w \in Workers,
            Renew(w)
     PROVE  TypeInv'
  <2>1. RowType'
    <3>1. wtask[w] \in Tasks /\ wproc[w] \in Procs
      BY <1>27 DEF TypeInv, WorkerShape, Renew, Executing
    <3>2. /\ "running" \in Status \cup {"recovering"}
          /\ Lease \in 0 .. Lease
          /\ attempt[wtask[w]] \in 0 .. AttemptCap
      BY <3>1 DEF TypeInv, RowType, Status, Recoverable
    <3>3. CASE SetDispatch(wtask[w], "running", wproc[w], Lease, attempt[wtask[w]])
      <4>1. DispatchType'
        BY <3>1, <3>2, <3>3, SetDispatchType DEF TypeInv
      <4> QED
        BY <1>27, <4>1 DEF TypeInv, RowType, DispatchType, Renew
    <3>4. CASE UNCHANGED <<dstat, owner, lease, attempt>>
      BY <1>27, <3>4 DEF TypeInv, RowType, Renew
    <3> QED
      BY <1>27, <3>3, <3>4 DEF Renew
  <2>2. ProcType'
    BY <1>27 DEF TypeInv, ProcType, Renew, Touch
  <2>3. WorkerType'
    BY <1>27 DEF TypeInv, WorkerType, Renew
  <2>4. SegShape'
    BY <1>27 DEF TypeInv, SegShape, Renew
  <2>5. WorkerShape'
    BY <1>27 DEF TypeInv, WorkerShape, Renew
  <2> QED
    BY <2>1, <2>2, <2>3, <2>4, <2>5 DEF TypeInv
<1>28. ASSUME NEW w \in Workers,
            AskInput(w)
     PROVE  TypeInv'
  BY <1>28 DEF TypeInv, RowType, ProcType, WorkerType, SegShape, WorkerShape,
       AskInput, SetStatus, Touch, Goto, Status, Waiting, PC, Live, Executing
<1>29. ASSUME Tick
     PROVE  TypeInv'
  BY <1>29, MinusType DEF TypeInv, RowType, ProcType, WorkerType, SegShape,
       WorkerShape, procVars, Tick
<1>30. CASE UNCHANGED vars
  BY <1>30 DEF vars, TypeInv, RowType, ProcType, WorkerType, SegShape,
       WorkerShape, rowVars, procVars, workerVars
<1> QED
  BY <1>1, <1>2, <1>3, <1>4, <1>5, <1>6, <1>7, <1>8, <1>9, <1>10, <1>11,
     <1>12, <1>13, <1>14, <1>15, <1>16, <1>17, <1>18, <1>19, <1>20, <1>21,
     <1>22, <1>23, <1>24, <1>25, <1>26, <1>27, <1>28, <1>29, <1>30 DEF Next,
     Recovery, Requests, Segments, Runs

\* The columns, registers and counters hold values of their kind in every
\* reachable state.
THEOREM TypeCorrect == Spec => []TypeOK
<1>1. TypeInv => TypeOK
  BY DEF TypeInv, TypeOK, RowType, ProcType, WorkerType
<1> QED
  BY <1>1, InitType, TypeStep, PTL DEF Spec

-----------------------------------------------------------------------------
(***************************************************************************)
(* What a recovery knows of its candidates.  Every write of a row drops it *)
(* from every seen set, so a candidate still has the status and, once the  *)
(* claims are under way, the attempt count that the query selected.        *)
(***************************************************************************)
CandidateInv ==
    \A p \in Procs : \A t \in seen[p] :
       /\ status[t] \in Recoverable
       /\ seg[p].kind = "claim" => attempt[t] < MaxAttempts

\* Every claim raises the attempt counter, and nothing lowers it without
\* starting a new row.
CountInv ==
    \A t \in Tasks : recovered[t] <= attempt[t] /\ recovered[t] <= MaxAttempts

LEMMA CandidatesKept ==
    ASSUME TypeInv, CandidateInv,
           \A q \in Procs : seen'[q] \subseteq seen[q],
           \A q \in Procs : \A u \in seen'[q] :
              status'[u] = status[u] /\ attempt'[u] = attempt[u],
           \A q \in Procs : seg'[q].kind = "claim" => seg[q].kind = "claim"
    PROVE  CandidateInv'
BY DEF CandidateInv

LEMMA CountsKept ==
    ASSUME TypeInv, CountInv, UNCHANGED recovered, attempt' \in [Tasks -> Nat],
           \A t \in Tasks : attempt'[t] >= attempt[t]
    PROVE  CountInv'
<1> SUFFICES ASSUME NEW t \in Tasks
             PROVE  recovered[t] <= attempt'[t] /\ recovered[t] <= MaxAttempts
  BY DEF CountInv
<1>1. attempt'[t] \in Nat /\ attempt[t] \in Nat /\ recovered[t] \in Nat
  BY DEF TypeInv, RowType
<1> QED
  BY <1>1 DEF CountInv

LEMMA InitCounts == Init => CandidateInv /\ CountInv
BY DispatchAssumption DEF Init, CandidateInv, CountInv

\* How the dispatch helpers move the counters and the candidates.
LEMMA MarkStartedCounts ==
    ASSUME TypeInv, NEW p \in Procs, NEW t \in Tasks, MarkStarted(p, t)
    PROVE  /\ \A u \in Tasks : attempt'[u] >= attempt[u]
           /\ attempt' \in [Tasks -> Nat]
           /\ \A q \in Procs : seen'[q] \subseteq seen[q]
           /\ \A q \in Procs : \A u \in seen'[q] : attempt'[u] = attempt[u]
<1>1. attempt[t] \in 0 .. AttemptCap /\ attempt \in [Tasks -> Nat]
  BY DispatchAssumption DEF TypeInv, RowType
<1>2. Bump(attempt[t]) >= attempt[t] /\ Bump(attempt[t]) \in Nat
  BY <1>1, BumpType, DispatchAssumption
<1>3. CASE Exists(t)
  <2>1. attempt' = [attempt EXCEPT ![t] = Bump(attempt[t])]
    BY <1>3 DEF MarkStarted, SetDispatch
  <2>2. seen' = [q \in Procs |-> seen[q] \ {t}] /\ seen \in [Procs -> SUBSET Tasks]
    BY <1>3 DEF TypeInv, ProcType, MarkStarted, Touch
  <2>3. \A u \in Tasks : attempt'[u] >= attempt[u]
    BY <1>1, <1>2, <2>1
  <2>4. attempt' \in [Tasks -> Nat]
    BY <1>1, <1>2, <2>1
  <2> QED
    BY <1>1, <2>1, <2>2, <2>3, <2>4
<1>4. CASE ~ Exists(t)
  BY <1>1, <1>4 DEF TypeInv, ProcType, MarkStarted
<1> QED
  BY <1>3, <1>4

LEMMA CountStep ==
    TypeInv /\ CandidateInv /\ CountInv /\ [Next]_vars => CandidateInv' /\ CountInv'
<1> SUFFICES ASSUME TypeInv, CandidateInv, CountInv, [Next]_vars
             PROVE  CandidateInv' /\ CountInv'
  OBVIOUS
<1> USE DispatchAssumption
<1>1. ASSUME NEW p \in Procs,
            Boot(p)
     PROVE  CandidateInv' /\ CountInv'
  <2>1. \A q \in Procs : seen'[q] \subseteq seen[q]
    BY <1>1 DEF TypeInv, Boot
  <2>2. \A q \in Procs : \A u \in seen'[q] :
                 status'[u] = status[u] /\ attempt'[u] = attempt[u]
    BY <1>1 DEF TypeInv, rowVars, Boot
  <2>3. \A q \in Procs : seg'[q].kind = "claim" => seg[q].kind = "claim"
    BY <1>1 DEF TypeInv, Boot, Enter, Seg
  <2>4. CountInv'
    BY <1>1, CountsKept DEF TypeInv, RowType, rowVars, Boot
  <2> QED
    BY <2>1, <2>2, <2>3, <2>4, CandidatesKept
<1>2. ASSUME NEW p \in Procs,
            ReadExhausted(p)
     PROVE  CandidateInv' /\ CountInv'
  <2>1. CandidateInv'
    BY <1>2 DEF TypeInv, CandidateInv, ReadExhausted, rowVars, Enter, Seg,
         Exhausted, Interrupted
  <2>2. CountInv'
    BY <1>2 DEF CountInv, ReadExhausted, rowVars, procVars, workerVars
  <2> QED
    BY <2>1, <2>2
<1>3. ASSUME NEW p \in Procs, NEW t \in Tasks,
            FailExhausted(p, t)
     PROVE  CandidateInv' /\ CountInv'
  <2>1. \A q \in Procs : seen'[q] \subseteq seen[q]
    BY <1>3 DEF TypeInv, FailExhausted, SetStatus, Touch
  <2>2. \A q \in Procs : \A u \in seen'[q] :
                 status'[u] = status[u] /\ attempt'[u] = attempt[u]
    BY <1>3 DEF TypeInv, FailExhausted, SetStatus, SetDispatch, Touch
  <2>3. \A q \in Procs : seg'[q].kind = "claim" => seg[q].kind = "claim"
    BY <1>3 DEF TypeInv, FailExhausted
  <2>4. CountInv'
    BY <1>3, CountsKept DEF TypeInv, RowType, FailExhausted, SetDispatch
  <2> QED
    BY <2>1, <2>2, <2>3, <2>4, CandidatesKept
<1>4. ASSUME NEW p \in Procs,
            ReadClaimable(p)
     PROVE  CandidateInv' /\ CountInv'
  <2>1. CandidateInv'
    BY <1>4 DEF TypeInv, CandidateInv, ReadClaimable, rowVars, Enter,
         Claimable, Interrupted
  <2>2. CountInv'
    BY <1>4 DEF CountInv, ReadClaimable, rowVars, procVars, workerVars
  <2> QED
    BY <2>1, <2>2
<1>5. ASSUME NEW p \in Procs, NEW t \in Tasks,
            Claim(p, t)
     PROVE  CandidateInv' /\ CountInv'
  <2>1. \A q \in Procs : seen'[q] \subseteq seen[q]
    BY <1>5 DEF TypeInv, Claim, SetStatus, Touch
  <2>2. \A q \in Procs : \A u \in seen'[q] :
                 status'[u] = status[u] /\ attempt'[u] = attempt[u]
    BY <1>5 DEF TypeInv, Claim, SetStatus, SetDispatch, Touch
  <2>3. \A q \in Procs : seg'[q].kind = "claim" => seg[q].kind = "claim"
    BY <1>5 DEF TypeInv, Claim
  <2>4. CountInv'
    BY <1>5 DEF TypeInv, RowType, CandidateInv, CountInv, Bump, Claim,
         SetDispatch
  <2> QED
    BY <2>1, <2>2, <2>3, <2>4, CandidatesKept
<1>6. ASSUME NEW p \in Procs,
            EndClaims(p)
     PROVE  CandidateInv' /\ CountInv'
  <2>1. \A q \in Procs : seen'[q] \subseteq seen[q]
    BY <1>6 DEF TypeInv, EndClaims
  <2>2. \A q \in Procs : \A u \in seen'[q] :
                 status'[u] = status[u] /\ attempt'[u] = attempt[u]
    BY <1>6 DEF TypeInv, rowVars, EndClaims
  <2>3. \A q \in Procs : seg'[q].kind = "claim" => seg[q].kind = "claim"
    BY <1>6 DEF TypeInv, EndClaims, Enter
  <2>4. CountInv'
    BY <1>6, CountsKept DEF TypeInv, RowType, rowVars, EndClaims
  <2> QED
    BY <2>1, <2>2, <2>3, <2>4, CandidatesKept
<1>7. ASSUME NEW p \in Procs, NEW t \in Tasks, NEW w \in Workers,
            Restart(p, t, w)
     PROVE  CandidateInv' /\ CountInv'
  <2>1. \A q \in Procs : seen'[q] \subseteq seen[q]
    BY <1>7, MarkStartedCounts DEF TypeInv, Restart, RunnerStart
  <2>2. \A q \in Procs : \A u \in seen'[q] :
                 status'[u] = status[u] /\ attempt'[u] = attempt[u]
    BY <1>7, MarkStartedCounts DEF TypeInv, Restart, RunnerStart
  <2>3. \A q \in Procs : seg'[q].kind = "claim" => seg[q].kind = "claim"
    BY <1>7 DEF TypeInv, Restart
  <2>4. CountInv'
    BY <1>7, MarkStartedCounts, CountsKept DEF TypeInv, Restart, RunnerStart
  <2> QED
    BY <2>1, <2>2, <2>3, <2>4, CandidatesKept
<1>8. ASSUME NEW p \in Procs,
            EndRecovery(p)
     PROVE  CandidateInv' /\ CountInv'
  <2>1. \A q \in Procs : seen'[q] \subseteq seen[q]
    BY <1>8 DEF TypeInv, EndRecovery
  <2>2. \A q \in Procs : \A u \in seen'[q] :
                 status'[u] = status[u] /\ attempt'[u] = attempt[u]
    BY <1>8 DEF TypeInv, rowVars, EndRecovery
  <2>3. \A q \in Procs : seg'[q].kind = "claim" => seg[q].kind = "claim"
    BY <1>8 DEF TypeInv, EndRecovery, Enter, Idle, Seg
  <2>4. CountInv'
    BY <1>8, CountsKept DEF TypeInv, RowType, rowVars, EndRecovery
  <2> QED
    BY <2>1, <2>2, <2>3, <2>4, CandidatesKept
<1>9. ASSUME NEW p \in Procs,
            Crash(p)
     PROVE  CandidateInv' /\ CountInv'
  <2>1. \A q \in Procs : seen'[q] \subseteq seen[q]
    BY <1>9 DEF TypeInv, Crash
  <2>2. \A q \in Procs : \A u \in seen'[q] :
                 status'[u] = status[u] /\ attempt'[u] = attempt[u]
    BY <1>9 DEF TypeInv, Crash
  <2>3. \A q \in Procs : seg'[q].kind = "claim" => seg[q].kind = "claim"
    BY <1>9 DEF TypeInv, Crash, Enter, Down, Seg
  <2>4. CountInv'
    BY <1>9, CountsKept DEF TypeInv, RowType, Crash
  <2> QED
    BY <2>1, <2>2, <2>3, <2>4, CandidatesKept
<1>10. ASSUME NEW p \in Procs, NEW t \in Tasks,
            CreateTask(p, t)
     PROVE  CandidateInv' /\ CountInv'
  <2>1. \A q \in Procs : seen'[q] \subseteq seen[q]
    BY <1>10 DEF TypeInv, CreateTask, NewRow, SetStatus, Touch
  <2>2. \A q \in Procs : \A u \in seen'[q] :
                 status'[u] = status[u] /\ attempt'[u] = attempt[u]
    BY <1>10 DEF TypeInv, CreateTask, NewRow, SetStatus, SetDispatch, Touch
  <2>3. \A q \in Procs : seg'[q].kind = "claim" => seg[q].kind = "claim"
    BY <1>10 DEF TypeInv, CreateTask, Enter, Seg
  <2>4. CountInv'
    BY <1>10 DEF TypeInv, RowType, CountInv, CreateTask, NewRow, SetDispatch
  <2> QED
    BY <2>1, <2>2, <2>3, <2>4, CandidatesKept
<1>11. ASSUME NEW p \in Procs, NEW w \in Workers,
            StartCreated(p, w)
     PROVE  CandidateInv' /\ CountInv'
  <2>1. \A q \in Procs : seen'[q] \subseteq seen[q]
    BY <1>11, MarkStartedCounts DEF TypeInv, StartCreated, RunnerStart,
         MarkStarted, Touch
  <2>2. \A q \in Procs : \A u \in seen'[q] :
                 status'[u] = status[u] /\ attempt'[u] = attempt[u]
    BY <1>11, MarkStartedCounts DEF TypeInv, RowType, ProcType, StartCreated,
         RunnerStart, MarkStarted, SetDispatch, Touch
  <2>3. \A q \in Procs : seg'[q].kind = "claim" => seg[q].kind = "claim"
    BY <1>11 DEF TypeInv, StartCreated, Enter, Idle, Seg
  <2>4. CountInv'
    BY <1>11, MarkStartedCounts, CountsKept DEF TypeInv, SegShape,
         StartCreated, RunnerStart
  <2> QED
    BY <2>1, <2>2, <2>3, <2>4, CandidatesKept
<1>12. ASSUME NEW p \in Procs, NEW t \in Tasks, NEW w \in Workers, NEW k \in {"runner", "foreground"},
            StartRowless(p, t, w, k)
     PROVE  CandidateInv' /\ CountInv'
  <2>1. \A q \in Procs : seen'[q] \subseteq seen[q]
    BY <1>12 DEF TypeInv, StartRowless
  <2>2. \A q \in Procs : \A u \in seen'[q] :
                 status'[u] = status[u] /\ attempt'[u] = attempt[u]
    BY <1>12 DEF TypeInv, rowVars, StartRowless
  <2>3. \A q \in Procs : seg'[q].kind = "claim" => seg[q].kind = "claim"
    BY <1>12 DEF TypeInv, StartRowless
  <2>4. CountInv'
    BY <1>12, CountsKept DEF TypeInv, RowType, rowVars, StartRowless
  <2> QED
    BY <2>1, <2>2, <2>3, <2>4, CandidatesKept
<1>13. ASSUME NEW p \in Procs, NEW t \in Tasks,
            InputRead(p, t)
     PROVE  CandidateInv' /\ CountInv'
  <2>1. \A q \in Procs : seen'[q] \subseteq seen[q]
    BY <1>13 DEF InputRead
  <2>2. \A q \in Procs : \A u \in seen'[q] :
                 status'[u] = status[u] /\ attempt'[u] = attempt[u]
    BY <1>13 DEF rowVars, InputRead
  <2>3. \A q \in Procs : seg'[q].kind = "claim" => seg[q].kind = "claim"
    BY <1>13 DEF InputRead, Enter, Seg
  <2>4. CountInv'
    BY <1>13, CountsKept DEF TypeInv, RowType, rowVars, InputRead
  <2> QED
    BY <2>1, <2>2, <2>3, <2>4, CandidatesKept
<1>14. ASSUME NEW p \in Procs,
            InputCheck(p)
     PROVE  CandidateInv' /\ CountInv'
  <2>1. \A q \in Procs : seen'[q] \subseteq seen[q]
    BY <1>14 DEF InputCheck
  <2>2. \A q \in Procs : \A u \in seen'[q] :
                 status'[u] = status[u] /\ attempt'[u] = attempt[u]
    BY <1>14 DEF rowVars, InputCheck
  <2>3. \A q \in Procs : seg'[q].kind = "claim" => seg[q].kind = "claim"
    BY <1>14 DEF InputCheck, Enter, Idle, Seg
  <2>4. CountInv'
    BY <1>14, CountsKept DEF TypeInv, RowType, rowVars, InputCheck
  <2> QED
    BY <2>1, <2>2, <2>3, <2>4, CandidatesKept
<1>15. ASSUME NEW p \in Procs,
            InputWrite(p)
     PROVE  CandidateInv' /\ CountInv'
  <2>1. \A q \in Procs : seen'[q] \subseteq seen[q]
    BY <1>15 DEF InputWrite, UpdateStatus, SetStatus, Touch
  <2>2. \A q \in Procs : \A u \in seen'[q] :
                 status'[u] = status[u] /\ attempt'[u] = attempt[u]
    BY <1>15 DEF TypeInv, RowType, ProcType, InputWrite, UpdateStatus,
         SetStatus, Touch
  <2>3. \A q \in Procs : seg'[q].kind = "claim" => seg[q].kind = "claim"
    BY <1>15 DEF InputWrite, Enter, Seg
  <2>4. CountInv'
    BY <1>15, CountsKept DEF TypeInv, RowType, InputWrite
  <2> QED
    BY <2>1, <2>2, <2>3, <2>4, CandidatesKept
<1>16. ASSUME NEW p \in Procs, NEW t \in Tasks,
            CancelRead(p, t)
     PROVE  CandidateInv' /\ CountInv'
  <2>1. \A q \in Procs : seen'[q] \subseteq seen[q]
    BY <1>16 DEF TypeInv, CancelRead
  <2>2. \A q \in Procs : \A u \in seen'[q] :
                 status'[u] = status[u] /\ attempt'[u] = attempt[u]
    BY <1>16 DEF TypeInv, rowVars, CancelRead
  <2>3. \A q \in Procs : seg'[q].kind = "claim" => seg[q].kind = "claim"
    BY <1>16 DEF TypeInv, CancelRead, Enter, Seg
  <2>4. CountInv'
    BY <1>16, CountsKept DEF TypeInv, RowType, rowVars, CancelRead
  <2> QED
    BY <2>1, <2>2, <2>3, <2>4, CandidatesKept
<1>17. ASSUME NEW p \in Procs,
            CancelWrite(p)
     PROVE  CandidateInv' /\ CountInv'
  <2>1. \A q \in Procs : seen'[q] \subseteq seen[q]
    BY <1>17 DEF CancelWrite, UpdateStatus, SetStatus, Touch
  <2>2. \A q \in Procs : \A u \in seen'[q] :
                 status'[u] = status[u] /\ attempt'[u] = attempt[u]
    BY <1>17 DEF TypeInv, RowType, ProcType, CancelWrite, UpdateStatus,
         SetStatus, Touch
  <2>3. \A q \in Procs : seg'[q].kind = "claim" => seg[q].kind = "claim"
    BY <1>17 DEF CancelWrite, Enter, Idle, Seg
  <2>4. CountInv'
    BY <1>17, CountsKept DEF TypeInv, RowType, CancelWrite
  <2> QED
    BY <2>1, <2>2, <2>3, <2>4, CandidatesKept
<1>18. ASSUME NEW p \in Procs, NEW t \in Tasks,
            Delete(p, t)
     PROVE  CandidateInv' /\ CountInv'
  <2>1. \A q \in Procs : seen'[q] \subseteq seen[q]
    BY <1>18 DEF TypeInv, Delete, SetStatus, Touch
  <2>2. \A q \in Procs : \A u \in seen'[q] :
                 status'[u] = status[u] /\ attempt'[u] = attempt[u]
    BY <1>18 DEF TypeInv, Delete, SetStatus, SetDispatch, Touch
  <2>3. \A q \in Procs : seg'[q].kind = "claim" => seg[q].kind = "claim"
    BY <1>18 DEF TypeInv, Delete
  <2>4. CountInv'
    BY <1>18 DEF TypeInv, RowType, CountInv, Delete, SetDispatch
  <2> QED
    BY <2>1, <2>2, <2>3, <2>4, CandidatesKept
<1>19. ASSUME NEW p \in Procs,
            StartCheck(p)
     PROVE  CandidateInv' /\ CountInv'
  <2>1. \A q \in Procs : seen'[q] \subseteq seen[q]
    BY <1>19 DEF StartCheck
  <2>2. \A q \in Procs : \A u \in seen'[q] :
                 status'[u] = status[u] /\ attempt'[u] = attempt[u]
    BY <1>19 DEF rowVars, StartCheck
  <2>3. \A q \in Procs : seg'[q].kind = "claim" => seg[q].kind = "claim"
    <3>1. CASE Enter(p, Idle)
      BY <3>1 DEF Enter, Idle, Seg
    <3>2. CASE Enter(p, Seg("starting", seg[p].task, seg[p].worker))
      BY <3>2 DEF Enter, Seg
    <3> QED
      BY <1>19, <3>1, <3>2 DEF StartCheck
  <2>4. CountInv'
    BY <1>19, CountsKept DEF TypeInv, RowType, rowVars, StartCheck
  <2> QED
    BY <2>1, <2>2, <2>3, <2>4, CandidatesKept
<1>20. ASSUME NEW p \in Procs,
            StartWrite(p)
     PROVE  CandidateInv' /\ CountInv'
  <2>1. \A q \in Procs : seen'[q] \subseteq seen[q]
    BY <1>20 DEF StartWrite, UpdateStatus, SetStatus, Touch
  <2>2. \A q \in Procs : \A u \in seen'[q] :
                 status'[u] = status[u] /\ attempt'[u] = attempt[u]
    BY <1>20 DEF TypeInv, RowType, ProcType, StartWrite, UpdateStatus,
         SetStatus, Touch
  <2>3. \A q \in Procs : seg'[q].kind = "claim" => seg[q].kind = "claim"
    BY <1>20 DEF StartWrite, Enter, Idle, Seg
  <2>4. CountInv'
    BY <1>20, CountsKept DEF TypeInv, RowType, StartWrite
  <2> QED
    BY <2>1, <2>2, <2>3, <2>4, CandidatesKept
<1>21. ASSUME NEW w \in Workers,
            CancelledUnstarted(w)
     PROVE  CandidateInv' /\ CountInv'
  <2>1. \A q \in Procs : seen'[q] \subseteq seen[q]
    BY <1>21 DEF TypeInv, procVars, CancelledUnstarted
  <2>2. \A q \in Procs : \A u \in seen'[q] :
                 status'[u] = status[u] /\ attempt'[u] = attempt[u]
    BY <1>21 DEF TypeInv, rowVars, CancelledUnstarted
  <2>3. \A q \in Procs : seg'[q].kind = "claim" => seg[q].kind = "claim"
    BY <1>21 DEF TypeInv, procVars, CancelledUnstarted
  <2>4. CountInv'
    BY <1>21, CountsKept DEF TypeInv, RowType, rowVars, CancelledUnstarted
  <2> QED
    BY <2>1, <2>2, <2>3, <2>4, CandidatesKept
<1>22. ASSUME NEW w \in Workers,
            BeginSkipped(w)
     PROVE  CandidateInv' /\ CountInv'
  <2>1. \A q \in Procs : seen'[q] \subseteq seen[q]
    BY <1>22 DEF TypeInv, BeginSkipped
  <2>2. \A q \in Procs : \A u \in seen'[q] :
                 status'[u] = status[u] /\ attempt'[u] = attempt[u]
    BY <1>22 DEF TypeInv, rowVars, BeginSkipped
  <2>3. \A q \in Procs : seg'[q].kind = "claim" => seg[q].kind = "claim"
    BY <1>22 DEF TypeInv, BeginSkipped
  <2>4. CountInv'
    BY <1>22, CountsKept DEF TypeInv, RowType, rowVars, BeginSkipped
  <2> QED
    BY <2>1, <2>2, <2>3, <2>4, CandidatesKept
<1>23. ASSUME NEW w \in Workers,
            Begin(w)
     PROVE  CandidateInv' /\ CountInv'
  <2>1. \A q \in Procs : seen'[q] \subseteq seen[q]
    BY <1>23 DEF TypeInv, Begin, NewRow, SetStatus, Touch
  <2>2. \A q \in Procs : \A u \in seen'[q] :
                 status'[u] = status[u] /\ attempt'[u] = attempt[u]
    BY <1>23 DEF TypeInv, RowType, ProcType, rowVars, Begin, NewRow,
         SetStatus, SetDispatch, Touch
  <2>3. \A q \in Procs : seg'[q].kind = "claim" => seg[q].kind = "claim"
    BY <1>23 DEF TypeInv, Begin, Enter, Seg
  <2>4. CountInv'
    <3>1. CASE Exists(wtask[w])
      BY <1>23, <3>1 DEF CountInv, Begin, rowVars
    <3>2. CASE ~ Exists(wtask[w])
      BY <1>23, <3>2 DEF TypeInv, RowType, CountInv, Begin, NewRow,
           SetDispatch
    <3> QED
      BY <3>1, <3>2
  <2> QED
    BY <2>1, <2>2, <2>3, <2>4, CandidatesKept
<1>24. ASSUME NEW w \in Workers, NEW s \in Final \cup Waiting,
            Outcome(w, s)
     PROVE  CandidateInv' /\ CountInv'
  <2>1. \A q \in Procs : seen'[q] \subseteq seen[q]
    BY <1>24 DEF TypeInv, Outcome, UpdateStatus, SetStatus, Touch
  <2>2. \A q \in Procs : \A u \in seen'[q] :
                 status'[u] = status[u] /\ attempt'[u] = attempt[u]
    BY <1>24 DEF TypeInv, RowType, ProcType, Outcome, UpdateStatus, SetStatus,
         Touch
  <2>3. \A q \in Procs : seg'[q].kind = "claim" => seg[q].kind = "claim"
    BY <1>24 DEF TypeInv, Outcome
  <2>4. CountInv'
    BY <1>24, CountsKept DEF TypeInv, RowType, Outcome
  <2> QED
    BY <2>1, <2>2, <2>3, <2>4, CandidatesKept
<1>25. ASSUME NEW w \in Workers,
            Close(w)
     PROVE  CandidateInv' /\ CountInv'
  <2>1. \A q \in Procs : seen'[q] \subseteq seen[q]
    BY <1>25 DEF TypeInv, Close
  <2>2. \A q \in Procs : \A u \in seen'[q] :
                 status'[u] = status[u] /\ attempt'[u] = attempt[u]
    BY <1>25 DEF TypeInv, rowVars, Close
  <2>3. \A q \in Procs : seg'[q].kind = "claim" => seg[q].kind = "claim"
    BY <1>25 DEF TypeInv, Close
  <2>4. CountInv'
    BY <1>25, CountsKept DEF TypeInv, RowType, rowVars, Close
  <2> QED
    BY <2>1, <2>2, <2>3, <2>4, CandidatesKept
<1>26. ASSUME NEW w \in Workers,
            Done(w)
     PROVE  CandidateInv' /\ CountInv'
  <2>1. \A q \in Procs : seen'[q] \subseteq seen[q]
    BY <1>26 DEF TypeInv, Done, Touch
  <2>2. \A q \in Procs : \A u \in seen'[q] :
                 status'[u] = status[u] /\ attempt'[u] = attempt[u]
    BY <1>26 DEF TypeInv, RowType, Done, SetDispatch
  <2>3. \A q \in Procs : seg'[q].kind = "claim" => seg[q].kind = "claim"
    BY <1>26 DEF TypeInv, Done
  <2>4. CountInv'
    BY <1>26, CountsKept DEF TypeInv, RowType, Done, SetDispatch
  <2> QED
    BY <2>1, <2>2, <2>3, <2>4, CandidatesKept
<1>27. ASSUME NEW w \in Workers,
            Renew(w)
     PROVE  CandidateInv' /\ CountInv'
  <2>1. \A q \in Procs : seen'[q] \subseteq seen[q]
    BY <1>27 DEF TypeInv, Renew, Touch
  <2>2. \A q \in Procs : \A u \in seen'[q] :
                 status'[u] = status[u] /\ attempt'[u] = attempt[u]
    BY <1>27 DEF TypeInv, RowType, Renew, SetDispatch
  <2>3. \A q \in Procs : seg'[q].kind = "claim" => seg[q].kind = "claim"
    BY <1>27 DEF TypeInv, Renew
  <2>4. CountInv'
    BY <1>27, CountsKept DEF TypeInv, RowType, Renew, SetDispatch
  <2> QED
    BY <2>1, <2>2, <2>3, <2>4, CandidatesKept
<1>28. ASSUME NEW w \in Workers,
            AskInput(w)
     PROVE  CandidateInv' /\ CountInv'
  <2>1. \A q \in Procs : seen'[q] \subseteq seen[q]
    BY <1>28 DEF TypeInv, AskInput, SetStatus, Touch
  <2>2. \A q \in Procs : \A u \in seen'[q] :
                 status'[u] = status[u] /\ attempt'[u] = attempt[u]
    BY <1>28 DEF TypeInv, AskInput, SetStatus, Touch
  <2>3. \A q \in Procs : seg'[q].kind = "claim" => seg[q].kind = "claim"
    BY <1>28 DEF TypeInv, AskInput
  <2>4. CountInv'
    BY <1>28, CountsKept DEF TypeInv, RowType, AskInput
  <2> QED
    BY <2>1, <2>2, <2>3, <2>4, CandidatesKept
<1>29. ASSUME Tick
     PROVE  CandidateInv' /\ CountInv'
  <2>1. \A q \in Procs : seen'[q] \subseteq seen[q]
    BY <1>29 DEF TypeInv, procVars, Tick
  <2>2. \A q \in Procs : \A u \in seen'[q] :
                 status'[u] = status[u] /\ attempt'[u] = attempt[u]
    BY <1>29 DEF TypeInv, Tick
  <2>3. \A q \in Procs : seg'[q].kind = "claim" => seg[q].kind = "claim"
    BY <1>29 DEF TypeInv, procVars, Tick
  <2>4. CountInv'
    BY <1>29, CountsKept DEF TypeInv, RowType, Tick
  <2> QED
    BY <2>1, <2>2, <2>3, <2>4, CandidatesKept
<1>30. CASE UNCHANGED vars
  BY <1>30 DEF vars, CandidateInv, CountInv, rowVars, procVars, workerVars
<1> QED
  BY <1>1, <1>2, <1>3, <1>4, <1>5, <1>6, <1>7, <1>8, <1>9, <1>10, <1>11,
     <1>12, <1>13, <1>14, <1>15, <1>16, <1>17, <1>18, <1>19, <1>20, <1>21,
     <1>22, <1>23, <1>24, <1>25, <1>26, <1>27, <1>28, <1>29, <1>30 DEF Next,
     Recovery, Requests, Segments, Runs

\* The attempt counter bounds the recoveries of a row whatever starts, answers,
\* crashes and finishes come between them, and in every schedule: the claim of
\* a recovery that read its candidates before does not slip past the bound.
THEOREM RecoveriesCapped == Spec => []RecoveriesAreCapped
<1>1. CountInv => RecoveriesAreCapped
  BY DEF CountInv, RecoveriesAreCapped
<1> QED
  BY <1>1, InitType, TypeStep, InitCounts, CountStep, PTL DEF Spec

-----------------------------------------------------------------------------
\* A final status is overwritten by a final one, unless code that is past its
\* check writes.
LEMMA FinalStep ==
    ASSUME TypeInv, CandidateInv, [Next]_vars, NEW u \in Tasks, status[u] \in Final,
           ~ PastCheck(u)
    PROVE  status'[u] \in Final \cup {"deleted"}
<1> DEFINE Kept == status'[u] \in Final \cup {"deleted"}
<1>1. status \in [Tasks -> Status]
  BY DEF TypeInv, RowType
<1>2. ASSUME NEW p \in Procs,
            Boot(p)
     PROVE  Kept
  BY <1>2 DEF Boot, rowVars
<1>3. ASSUME NEW p \in Procs,
            ReadExhausted(p)
     PROVE  Kept
  BY <1>3 DEF ReadExhausted, rowVars
<1>4. ASSUME NEW p \in Procs, NEW t \in Tasks,
            FailExhausted(p, t)
     PROVE  Kept
  BY <1>1, <1>4 DEF FailExhausted, SetStatus, Final
<1>5. ASSUME NEW p \in Procs,
            ReadClaimable(p)
     PROVE  Kept
  BY <1>5 DEF ReadClaimable, rowVars
<1>6. ASSUME NEW p \in Procs, NEW t \in Tasks,
            Claim(p, t)
     PROVE  Kept
  BY <1>1, <1>6 DEF CandidateInv, Claim, SetStatus, Final, Recoverable
<1>7. ASSUME NEW p \in Procs,
            EndClaims(p)
     PROVE  Kept
  BY <1>7 DEF EndClaims, rowVars
<1>8. ASSUME NEW p \in Procs, NEW t \in Tasks, NEW w \in Workers,
            Restart(p, t, w)
     PROVE  Kept
  BY <1>8 DEF Restart, RunnerStart
<1>9. ASSUME NEW p \in Procs,
            EndRecovery(p)
     PROVE  Kept
  BY <1>9 DEF EndRecovery, rowVars
<1>10. ASSUME NEW p \in Procs,
            Crash(p)
     PROVE  Kept
  BY <1>10 DEF Crash
<1>11. ASSUME NEW p \in Procs, NEW t \in Tasks,
            CreateTask(p, t)
     PROVE  Kept
  BY <1>1, <1>11 DEF CreateTask, NewRow, SetStatus, Fresh, Final
<1>12. ASSUME NEW p \in Procs, NEW w \in Workers,
            StartCreated(p, w)
     PROVE  Kept
  BY <1>12 DEF StartCreated, RunnerStart
<1>13. ASSUME NEW p \in Procs, NEW t \in Tasks, NEW w \in Workers, NEW k \in {"runner", "foreground"},
            StartRowless(p, t, w, k)
     PROVE  Kept
  BY <1>13 DEF StartRowless, rowVars
<1>14. ASSUME NEW p \in Procs, NEW t \in Tasks,
            InputRead(p, t)
     PROVE  Kept
  BY <1>14 DEF InputRead, rowVars
<1>15. ASSUME NEW p \in Procs,
            InputCheck(p)
     PROVE  Kept
  BY <1>15 DEF InputCheck, rowVars
<1>16. ASSUME NEW p \in Procs,
            InputWrite(p)
     PROVE  Kept
  BY <1>1, <1>16 DEF PastCheck, InputWrite, UpdateStatus, SetStatus
<1>17. ASSUME NEW p \in Procs, NEW t \in Tasks,
            CancelRead(p, t)
     PROVE  Kept
  BY <1>17 DEF CancelRead, rowVars
<1>18. ASSUME NEW p \in Procs,
            CancelWrite(p)
     PROVE  Kept
  BY <1>1, <1>18 DEF CancelWrite, UpdateStatus, SetStatus, Final
<1>19. ASSUME NEW p \in Procs, NEW t \in Tasks,
            Delete(p, t)
     PROVE  Kept
  BY <1>1, <1>19 DEF Delete, SetStatus
<1>20. ASSUME NEW p \in Procs,
            StartCheck(p)
     PROVE  Kept
  BY <1>20 DEF StartCheck, rowVars
<1>21. ASSUME NEW p \in Procs,
            StartWrite(p)
     PROVE  Kept
  BY <1>1, <1>21 DEF PastCheck, StartWrite, UpdateStatus, SetStatus
<1>22. ASSUME NEW w \in Workers,
            CancelledUnstarted(w)
     PROVE  Kept
  BY <1>22 DEF CancelledUnstarted, rowVars
<1>23. ASSUME NEW w \in Workers,
            BeginSkipped(w)
     PROVE  Kept
  BY <1>23 DEF BeginSkipped, rowVars
<1>24. ASSUME NEW w \in Workers,
            Begin(w)
     PROVE  Kept
  BY <1>1, <1>24 DEF Begin, NewRow, SetStatus, rowVars
<1>25. ASSUME NEW w \in Workers, NEW s \in Final \cup Waiting,
            Outcome(w, s)
     PROVE  Kept
  BY <1>1, <1>25 DEF PastCheck, Outcome, UpdateStatus, SetStatus, Waiting,
       Executing
<1>26. ASSUME NEW w \in Workers,
            Close(w)
     PROVE  Kept
  BY <1>26 DEF Close, rowVars
<1>27. ASSUME NEW w \in Workers,
            Done(w)
     PROVE  Kept
  BY <1>27 DEF Done
<1>28. ASSUME NEW w \in Workers,
            Renew(w)
     PROVE  Kept
  BY <1>28 DEF Renew
<1>29. ASSUME NEW w \in Workers,
            AskInput(w)
     PROVE  Kept
  BY <1>1, <1>29 DEF PastCheck, AskInput, SetStatus
<1>30. ASSUME Tick
     PROVE  Kept
  BY <1>30 DEF Tick
<1>31. CASE UNCHANGED vars
  BY <1>31 DEF vars, rowVars
<1> QED
  BY <1>2, <1>3, <1>4, <1>5, <1>6, <1>7, <1>8, <1>9, <1>10, <1>11, <1>12,
       <1>13, <1>14, <1>15, <1>16, <1>17, <1>18, <1>19, <1>20, <1>21, <1>22,
       <1>23, <1>24, <1>25, <1>26, <1>27, <1>28, <1>29, <1>30, <1>31 DEF Next,
       Recovery, Requests, Segments, Runs

\* In every schedule a final task is reopened only by code that is past its
\* check of the status: a delayed start, a resumed run and a recovery that selected the
\* task before it became final leave it alone.
THEOREM FinalStable == Spec => FinalIsStable
<1>1. TypeInv /\ CandidateInv /\ [Next]_vars
         => [\A t \in Tasks :
               status[t] \in Final /\ ~ PastCheck(t)
               => status'[t] \in Final \cup {"deleted"}]_vars
  BY FinalStep
<1> QED
  BY <1>1, InitType, TypeStep, InitCounts, CountStep, PTL DEF Spec,
       FinalIsStable

-----------------------------------------------------------------------------
(***************************************************************************)
(* Why the lease works.  When the environment produces none of the awkward *)
(* schedules (Hazards = {}), for any number of processes, tasks and worker *)
(* slots and any lengths of lease and heartbeat:                           *)
(*   - a live run that has a dispatch record is no recovery candidate,     *)
(*   - two recoveries never hold the same task,                            *)
(*   - the dispatcher implements TaskExecution.                            *)
(* All three follow from one invariant, HInv: a task has one holder (a     *)
(* worker, a recovery that claimed it or a request that will start its     *)
(* worker), rows that a recovery selected have none, and the lease of a    *)
(* live run outlasts the time to its next renewal.                         *)
(***************************************************************************)


(***************************************************************************)
(* Who has a task in hand: one worker, one recovery that has claimed it,   *)
(* or one request that is about to start a worker.                         *)
(***************************************************************************)
Starters == {"start", "input", "answer", "resume"}

SegHolds(p, t) == seg[p].kind \in Starters /\ seg[p].task = t

Unheld(t) ==
    /\ \A w \in Workers : wtask[w] # t
    /\ \A p \in Procs : t \notin claimed[p] /\ ~ SegHolds(p, t)

OneWorker == \A v, w \in Workers : wtask[v] = wtask[w] /\ wtask[v] # None => v = w

NoWorkerYet ==
    \A p \in Procs, t \in Tasks :
       t \in claimed[p] \/ SegHolds(p, t) => \A w \in Workers : wtask[w] # t

ClaimOrRequest == \A p, q \in Procs, t \in Tasks : t \in claimed[p] => ~ SegHolds(q, t)

OneClaim == \A p, q \in Procs, t \in Tasks : t \in claimed[p] /\ t \in claimed[q] => p = q

OneRequest == \A p, q \in Procs, t \in Tasks : SegHolds(p, t) /\ SegHolds(q, t) => p = q

OneHolder == OneWorker /\ NoWorkerYet /\ ClaimOrRequest /\ OneClaim /\ OneRequest

\* The registry names workers of the process and the task; a free slot has none.
Books ==
    /\ \A p \in Procs, t \in Tasks, w \in Workers :
          registry[p][t] = w => wproc[w] = p /\ wtask[w] = t
    /\ \A w \in Workers : wpc[w] = "free" => wtask[w] = None
    /\ \A p \in Procs :
          seg[p].kind \in {"begin", "starting"} => wtask[seg[p].worker] = seg[p].task

\* A row that a recovery has read and nobody has written since.
SeenRows ==
    \A p \in Procs : \A t \in seen[p] : Interrupted(t) /\ Unheld(t)

\* A claim lasts until its worker is started: no time passes before that.
Claims ==
    \A p \in Procs, t \in Tasks : t \in claimed[p] =>
        /\ seg[p].kind \in {"claim", "restart"}
        /\ \/ status[t] = "deleted"
           \/ status[t] \in Final \cup {"queued"} /\ dstat[t] = "recovering" /\ lease[t] > 0

\* What code past its check of a row may rely on.
Statuses ==
    /\ \A p \in Procs, t \in Tasks : SegHolds(p, t) => status[t] # "none"
    /\ \A p \in Procs :
          /\ seg[p].kind = "start" => status[seg[p].task] \notin Waiting
          /\ seg[p].kind = "input" => status[seg[p].task] \notin Recoverable
          /\ seg[p].kind = "answer" => status[seg[p].task] \in {"waiting_input", "deleted"}
          /\ seg[p].kind = "starting" => status[seg[p].task] \notin Final
    /\ \A w \in Workers :
          /\ wpc[w] \in {"closing", "exited"} => status[wtask[w]] \notin Recoverable
          /\ wpc[w] = "scheduled" /\ wcancel[w] =>
                \/ status[wtask[w]] \notin Recoverable
                \/ seg[wproc[w]] = Seg("cancel", wtask[w], None)

\* The worker counts on the lease of its task.
CountsOn(w) ==
    /\ wpc[w] \in Live
    /\ dstat[wtask[w]] # "none"
    /\ \/ status[wtask[w]] \in Recoverable
       \/ status[wtask[w]] \in Waiting /\ wpc[w] \notin Executing

\* Beginning sets the heartbeat back and not the lease, which is why a lease
\* has to last two heartbeats.
Leases ==
    \A w \in Workers : CountsOn(w) =>
        /\ dstat[wtask[w]] \in Leased
        /\ owner[wtask[w]] = wproc[w]
        /\ lease[wtask[w]] + (IF wpc[w] = "scheduled" THEN Heartbeat ELSE 2 * Heartbeat)
              >= Lease + whb[w]

HInv == OneHolder /\ Books /\ SeenRows /\ Claims /\ Statuses /\ Leases

(***************************************************************************)
(* Holders of tasks.                                                       *)
(***************************************************************************)
LEMMA HoldersLeave ==
  ASSUME OneHolder,
         \A q \in Procs, u \in Tasks : SegHolds(q, u)' => SegHolds(q, u),
         \A q \in Procs : claimed'[q] \subseteq claimed[q],
         \A v \in Workers : wtask'[v] \in {wtask[v], None}
  PROVE  OneHolder'
BY DispatchAssumption DEF OneHolder, OneWorker, NoWorkerYet, ClaimOrRequest,
     OneClaim, OneRequest

\* The task t gets a new holder h, the only one, and other tasks get none.
NewHolder(t, kind, h) ==
    /\ \A v \in Workers :
          /\ wtask'[v] \in {wtask[v], t}
          /\ wtask'[v] = t => kind = "worker" /\ v = h
    /\ \A q \in Procs :
          /\ t \in claimed'[q] => kind = "claim" /\ q = h
          /\ SegHolds(q, t)' => kind = "request" /\ q = h
          /\ \A u \in Tasks \ {t} :
                /\ SegHolds(q, u)' => SegHolds(q, u)
                /\ u \in claimed'[q] => u \in claimed[q]

LEMMA HolderComes ==
  ASSUME OneHolder, NEW t \in Tasks, NEW kind, NEW h, NewHolder(t, kind, h)
  PROVE  OneHolder'
<1> USE DispatchAssumption DEF OneHolder, NewHolder
<1>1. OneWorker'
  BY DEF OneWorker
<1>2. NoWorkerYet'
  BY DEF NoWorkerYet
<1>3. ClaimOrRequest'
  BY DEF ClaimOrRequest
<1>4. OneClaim'
  BY DEF OneClaim
<1>5. OneRequest'
  BY DEF OneRequest
<1> QED  BY <1>1, <1>2, <1>3, <1>4, <1>5

\* Nobody is in the middle of starting a task that nobody has in hand.
LEMMA UnheldSegments ==
  ASSUME TypeInv, Books, NEW t \in Tasks, Unheld(t), NEW q \in Procs,
         seg[q].kind \in Starters \cup {"begin", "starting"}
  PROVE  seg[q].task # t
BY DEF TypeInv, SegShape, Books, Unheld, SegHolds

LEMMA SeenUnheld ==
  ASSUME TypeInv, HInv, NEW p \in Procs, NEW t \in Tasks, t \in seen[p]
  PROVE  /\ Interrupted(t) /\ Exists(t)
         /\ \A w \in Workers : wtask[w] # t
         /\ \A q \in Procs : t \notin claimed[q] /\ ~ SegHolds(q, t)
         /\ \A q \in Procs : seg[q].kind \in Starters \cup {"begin", "starting"} => seg[q].task # t
BY UnheldSegments DEF HInv, SeenRows, Unheld, Interrupted, Exists, Recoverable

\* A recovery reads what nobody has in hand, unless the schedule is awkward.
LEMMA InterruptedUnheld ==
  ASSUME Hazards = {}, TypeInv, HInv, QuietMoment, NEW t \in Tasks, Interrupted(t)
  PROVE  Unheld(t)
<1> USE DEF HInv, Interrupted
<1>1. QuietFor(t)
  BY DEF QuietMoment
<1>2. ASSUME NEW w \in Workers, wtask[w] = t  PROVE FALSE
  <2>1. wpc[w] # "free" /\ wpc[w] \in PC
    BY <1>2, DispatchAssumption DEF Books, TypeInv, WorkerType
  <2>2. wpc[w] \notin {"closing", "exited"}
    BY <1>2 DEF Statuses
  <2>3. wpc[w] \in Live
    BY <2>1, <2>2 DEF PC
  <2>4. dstat[t] # "none"
    BY <1>1, <1>2, <2>3 DEF QuietFor
  <2>5. /\ dstat[t] \in Leased
        /\ lease[t] + (IF wpc[w] = "scheduled" THEN Heartbeat ELSE 2 * Heartbeat) >= Lease + whb[w]
    BY <1>2, <2>3, <2>4 DEF Leases, CountsOn
  <2>6. lease[t] > 0
    BY <2>5, DispatchAssumption DEF TypeInv, RowType, WorkerType
  <2> QED  BY <2>5, <2>6 DEF LeaseFree
<1>3. \A q \in Procs : t \notin claimed[q]
  BY DEF Claims, LeaseFree, Leased, Recoverable
<1>4. ASSUME NEW q \in Procs, SegHolds(q, t)  PROVE FALSE
  <2>1. seg[q].kind \notin {"start", "resume"}
    BY <1>1, <1>4 DEF QuietFor, SegHolds
  <2>2. seg[q].kind \in {"input", "answer"} /\ seg[q].task = t
    BY <1>4, <2>1 DEF SegHolds, Starters
  <2> QED  BY <2>2 DEF Statuses, Recoverable
<1> QED  BY <1>2, <1>3, <1>4 DEF Unheld

LEMMA BootKeeps ==
  ASSUME Hazards = {}, TypeInv, HInv, NEW p \in Procs, Boot(p)
  PROVE  HInv'
<1>1. OneHolder'
  <2>1. \A q \in Procs, u \in Tasks : SegHolds(q, u)' => SegHolds(q, u)
    BY DispatchAssumption DEF Boot, Enter, Seg, SegHolds
  <2>2. /\ \A q \in Procs : claimed'[q] \subseteq claimed[q]
        /\ \A v \in Workers : wtask'[v] \in {wtask[v], None}
    BY DispatchAssumption DEF Boot, workerVars
  <2> QED  BY <2>1, <2>2, HoldersLeave DEF HInv
<1>2. Books'
  BY DispatchAssumption DEF HInv, Boot, Enter, Seg, workerVars, Books
<1>3. SeenRows'
  BY DispatchAssumption DEF HInv, Boot, Enter, Seg, rowVars, workerVars,
       SeenRows, Interrupted, LeaseFree, Unheld, SegHolds, Starters
<1>4. Claims'
  BY DispatchAssumption DEF HInv, Boot, Enter, Seg, Down, rowVars, Claims
<1>5. Statuses'
  BY DispatchAssumption DEF HInv, Boot, Enter, Seg, Down, rowVars, workerVars,
       Statuses, SegHolds
<1>6. Leases'
  BY DispatchAssumption DEF HInv, Boot, rowVars, workerVars, Leases, CountsOn
<1> QED  BY <1>1, <1>2, <1>3, <1>4, <1>5, <1>6 DEF HInv

LEMMA ReadExhaustedKeeps ==
  ASSUME Hazards = {}, TypeInv, HInv, NEW p \in Procs, ReadExhausted(p)
  PROVE  HInv'
<1>1. OneHolder'
  <2>1. \A q \in Procs, u \in Tasks : SegHolds(q, u)' => SegHolds(q, u)
    BY DispatchAssumption DEF ReadExhausted, Enter, Seg, SegHolds
  <2>2. /\ \A q \in Procs : claimed'[q] \subseteq claimed[q]
        /\ \A v \in Workers : wtask'[v] \in {wtask[v], None}
    BY DispatchAssumption DEF ReadExhausted, workerVars
  <2> QED  BY <2>1, <2>2, HoldersLeave DEF HInv
<1>2. Books'
  BY DispatchAssumption DEF HInv, ReadExhausted, Enter, Seg, workerVars, Books
<1>3. SeenRows'
  <2>1. \A t \in Tasks : Interrupted(t) => Unheld(t)
    BY InterruptedUnheld, DispatchAssumption DEF ReadExhausted
  <2>2. \A t \in Tasks : Unheld(t) => Unheld(t)'
    BY DispatchAssumption DEF ReadExhausted, Enter, Seg, workerVars, Unheld,
         SegHolds
  <2>3. ASSUME NEW q \in Procs, NEW t \in seen'[q]  PROVE t \in Tasks /\ Interrupted(t) /\ Unheld(t)
    BY <2>1, DispatchAssumption DEF HInv, TypeInv, ProcType, ReadExhausted,
         SeenRows, Exhausted
  <2>4. \A t \in Tasks : Interrupted(t) => Interrupted(t)'
    BY DispatchAssumption DEF ReadExhausted, rowVars, Interrupted, LeaseFree
  <2> QED  BY <2>2, <2>3, <2>4, DispatchAssumption DEF HInv, TypeInv, RowType, ProcType, WorkerType, SeenRows
<1>4. Claims'
  BY DispatchAssumption DEF HInv, ReadExhausted, Enter, rowVars, Claims
<1>5. Statuses'
  BY DispatchAssumption DEF HInv, ReadExhausted, Enter, Seg, rowVars,
       workerVars, Statuses, SegHolds
<1>6. Leases'
  BY DispatchAssumption DEF HInv, ReadExhausted, rowVars, workerVars, Leases,
       CountsOn
<1> QED  BY <1>1, <1>2, <1>3, <1>4, <1>5, <1>6 DEF HInv

LEMMA FailExhaustedKeeps ==
  ASSUME Hazards = {}, TypeInv, HInv, NEW p \in Procs, NEW t \in Tasks, FailExhausted(p, t)
  PROVE  HInv'
<1>u. /\ Interrupted(t) /\ Exists(t) /\ \A w \in Workers : wtask[w] # t
      /\ \A q \in Procs : t \notin claimed[q] /\ ~ SegHolds(q, t)
      /\ \A q \in Procs : seg[q].kind \in Starters \cup {"begin", "starting"} => seg[q].task # t
  BY SeenUnheld, DispatchAssumption DEF FailExhausted
<1>1. OneHolder'
  <2>1. \A q \in Procs, u \in Tasks : SegHolds(q, u)' => SegHolds(q, u)
    BY <1>u, DispatchAssumption DEF FailExhausted, SegHolds
  <2>2. /\ \A q \in Procs : claimed'[q] \subseteq claimed[q]
        /\ \A v \in Workers : wtask'[v] \in {wtask[v], None}
    BY <1>u, DispatchAssumption DEF FailExhausted, workerVars
  <2> QED  BY <2>1, <2>2, HoldersLeave DEF HInv
<1>2. Books'
  BY <1>u, DispatchAssumption DEF HInv, FailExhausted, workerVars, Books
<1>3. SeenRows'
  BY <1>u, DispatchAssumption DEF HInv, FailExhausted, SetStatus, Touch,
       SetDispatch, workerVars, SeenRows, Interrupted, LeaseFree, Unheld,
       SegHolds
<1>4. Claims'
  BY <1>u, DispatchAssumption DEF HInv, FailExhausted, SetStatus, SetDispatch,
       Claims
<1>5. Statuses'
  BY <1>u, DispatchAssumption DEF HInv, FailExhausted, SetStatus, workerVars,
       Statuses, SegHolds, Starters
<1>6. Leases'
  BY <1>u, DispatchAssumption DEF HInv, FailExhausted, SetStatus, SetDispatch,
       workerVars, Leases, CountsOn
<1> QED  BY <1>1, <1>2, <1>3, <1>4, <1>5, <1>6 DEF HInv

LEMMA ReadClaimableKeeps ==
  ASSUME Hazards = {}, TypeInv, HInv, NEW p \in Procs, ReadClaimable(p)
  PROVE  HInv'
<1>1. OneHolder'
  <2>1. \A q \in Procs, u \in Tasks : SegHolds(q, u)' => SegHolds(q, u)
    BY DispatchAssumption DEF ReadClaimable, Enter, Seg, SegHolds
  <2>2. /\ \A q \in Procs : claimed'[q] \subseteq claimed[q]
        /\ \A v \in Workers : wtask'[v] \in {wtask[v], None}
    BY DispatchAssumption DEF ReadClaimable, workerVars
  <2> QED  BY <2>1, <2>2, HoldersLeave DEF HInv
<1>2. Books'
  BY DispatchAssumption DEF HInv, ReadClaimable, Enter, Seg, workerVars, Books
<1>3. SeenRows'
  <2>1. \A t \in Tasks : Interrupted(t) => Unheld(t)
    BY InterruptedUnheld, DispatchAssumption DEF ReadClaimable
  <2>2. \A t \in Tasks : Unheld(t) => Unheld(t)'
    BY DispatchAssumption DEF ReadClaimable, Enter, Seg, workerVars, Unheld,
         SegHolds
  <2>3. ASSUME NEW q \in Procs, NEW t \in seen'[q]  PROVE t \in Tasks /\ Interrupted(t) /\ Unheld(t)
    BY <2>1, DispatchAssumption DEF HInv, TypeInv, ProcType, ReadClaimable,
         SeenRows, Claimable
  <2>4. \A t \in Tasks : Interrupted(t) => Interrupted(t)'
    BY DispatchAssumption DEF ReadClaimable, rowVars, Interrupted, LeaseFree
  <2> QED  BY <2>2, <2>3, <2>4, DispatchAssumption DEF HInv, TypeInv, RowType, ProcType, WorkerType, SeenRows
<1>4. Claims'
  BY DispatchAssumption DEF HInv, ReadClaimable, Enter, rowVars, Claims
<1>5. Statuses'
  BY DispatchAssumption DEF HInv, ReadClaimable, Enter, Seg, rowVars,
       workerVars, Statuses, SegHolds
<1>6. Leases'
  BY DispatchAssumption DEF HInv, ReadClaimable, rowVars, workerVars, Leases,
       CountsOn
<1> QED  BY <1>1, <1>2, <1>3, <1>4, <1>5, <1>6 DEF HInv

LEMMA ClaimKeeps ==
  ASSUME Hazards = {}, TypeInv, HInv, NEW p \in Procs, NEW t \in Tasks, Claim(p, t)
  PROVE  HInv'
<1>u. /\ Interrupted(t) /\ Exists(t) /\ \A w \in Workers : wtask[w] # t
      /\ \A q \in Procs : t \notin claimed[q] /\ ~ SegHolds(q, t)
      /\ \A q \in Procs : seg[q].kind \in Starters \cup {"begin", "starting"} => seg[q].task # t
  BY SeenUnheld, DispatchAssumption DEF Claim
<1>1. OneHolder'
  <2>1. t \in Tasks /\ (\A v \in Workers : wtask'[v] \in {wtask[v], t})
    BY <1>u, DispatchAssumption DEF Claim, workerVars
  <2>2. \A q \in Procs, u \in Tasks \ {t} :
          /\ SegHolds(q, u)' => SegHolds(q, u)
          /\ u \in claimed'[q] => u \in claimed[q]
    BY <1>u, DispatchAssumption DEF Claim, SegHolds
  <2>3. \A v \in Workers : wtask'[v] # t
    BY <1>u, DispatchAssumption DEF Claim, workerVars
  <2>4. \A q \in Procs : t \in claimed'[q] => q = p
    BY <1>u, DispatchAssumption DEF Claim
  <2>5. \A q \in Procs : ~ SegHolds(q, t)'
    BY <1>u, DispatchAssumption DEF Claim, SegHolds
  <2>6. NewHolder(t, "claim", p)
    BY <2>1, <2>2, <2>3, <2>4, <2>5 DEF NewHolder
  <2> QED  BY <2>1, <2>6, HolderComes DEF HInv
<1>2. Books'
  BY <1>u, DispatchAssumption DEF HInv, Claim, workerVars, Books
<1>3. SeenRows'
  BY <1>u, DispatchAssumption DEF HInv, Claim, SetStatus, Touch, SetDispatch,
       workerVars, SeenRows, Interrupted, LeaseFree, Unheld, SegHolds
<1>4. Claims'
  BY <1>u, DispatchAssumption DEF HInv, TypeInv, RowType, Claim, SetStatus,
       SetDispatch, Claims
<1>5. Statuses'
  BY <1>u, DispatchAssumption DEF HInv, Claim, SetStatus, workerVars,
       Statuses, SegHolds, Starters
<1>6. Leases'
  BY <1>u, DispatchAssumption DEF HInv, Claim, SetStatus, SetDispatch,
       workerVars, Leases, CountsOn
<1> QED  BY <1>1, <1>2, <1>3, <1>4, <1>5, <1>6 DEF HInv

LEMMA EndClaimsKeeps ==
  ASSUME Hazards = {}, TypeInv, HInv, NEW p \in Procs, EndClaims(p)
  PROVE  HInv'
<1>1. OneHolder'
  <2>1. \A q \in Procs, u \in Tasks : SegHolds(q, u)' => SegHolds(q, u)
    BY DispatchAssumption DEF EndClaims, Enter, Seg, SegHolds
  <2>2. /\ \A q \in Procs : claimed'[q] \subseteq claimed[q]
        /\ \A v \in Workers : wtask'[v] \in {wtask[v], None}
    BY DispatchAssumption DEF EndClaims, workerVars
  <2> QED  BY <2>1, <2>2, HoldersLeave DEF HInv
<1>2. Books'
  BY DispatchAssumption DEF HInv, EndClaims, Enter, Seg, workerVars, Books
<1>3. SeenRows'
  BY DispatchAssumption DEF HInv, EndClaims, Enter, Seg, rowVars, workerVars,
       SeenRows, Interrupted, LeaseFree, Unheld, SegHolds, Starters
<1>4. Claims'
  BY DispatchAssumption DEF HInv, EndClaims, Enter, Seg, rowVars, Claims
<1>5. Statuses'
  BY DispatchAssumption DEF HInv, EndClaims, Enter, Seg, rowVars, workerVars,
       Statuses, SegHolds
<1>6. Leases'
  BY DispatchAssumption DEF HInv, EndClaims, rowVars, workerVars, Leases,
       CountsOn
<1> QED  BY <1>1, <1>2, <1>3, <1>4, <1>5, <1>6 DEF HInv

LEMMA RestartKeeps ==
  ASSUME Hazards = {}, TypeInv, HInv, NEW p \in Procs, NEW t \in Tasks, NEW w \in Workers, Restart(p, t, w)
  PROVE  HInv'
<1>1. OneHolder'
  <2>1. t \in Tasks /\ (\A v \in Workers : wtask'[v] \in {wtask[v], t})
    BY DispatchAssumption DEF Restart, RunnerStart, NewWorker
  <2>2. \A q \in Procs, u \in Tasks \ {t} :
          /\ SegHolds(q, u)' => SegHolds(q, u)
          /\ u \in claimed'[q] => u \in claimed[q]
    BY DispatchAssumption DEF Restart, SegHolds
  <2>3. \A v \in Workers : wtask'[v] = t => v = w
    BY DispatchAssumption DEF HInv, Restart, RunnerStart, NewWorker,
         OneHolder, NoWorkerYet
  <2>4. \A q \in Procs : t \notin claimed'[q]
    BY DispatchAssumption DEF HInv, TypeInv, ProcType, Restart, OneHolder,
         OneClaim
  <2>5. \A q \in Procs : ~ SegHolds(q, t)'
    BY DispatchAssumption DEF HInv, Restart, SegHolds, OneHolder,
         ClaimOrRequest
  <2>6. NewHolder(t, "worker", w)
    BY <2>1, <2>2, <2>3, <2>4, <2>5 DEF NewHolder
  <2> QED  BY <2>1, <2>6, HolderComes DEF HInv
<1>2. Books'
  BY DispatchAssumption DEF HInv, TypeInv, WorkerType, Restart, RunnerStart,
       NewWorker, Register, Books, SegShape
<1>3. SeenRows'
  BY DispatchAssumption DEF HInv, TypeInv, RowType, ProcType, Restart,
       RunnerStart, NewWorker, MarkStarted, SetDispatch, Touch, SeenRows,
       Interrupted, LeaseFree, Unheld, SegHolds
<1>4. Claims'
  <2>1. /\ status' = status /\ seg' = seg
        /\ \A q \in Procs, u \in Tasks : u \in claimed'[q] => u \in claimed[q] /\ (q = p => u # t)
        /\ \A u \in Tasks \ {t} : dstat'[u] = dstat[u] /\ lease'[u] = lease[u]
    BY DispatchAssumption DEF TypeInv, RowType, ProcType, Restart,
         RunnerStart, MarkStarted, SetDispatch
  <2>2. \A q \in Procs, u \in Tasks : u \in claimed'[q] => u # t
    BY <2>1, DispatchAssumption DEF HInv, Restart, OneHolder, OneClaim
  <2> QED  BY <2>1, <2>2, DispatchAssumption DEF HInv, TypeInv, RowType, ProcType, WorkerType, Claims
<1>5. Statuses'
  BY DispatchAssumption DEF HInv, TypeInv, WorkerType, Restart, RunnerStart,
       NewWorker, Statuses, SegHolds
<1>6. Leases'
  BY DispatchAssumption DEF HInv, TypeInv, RowType, WorkerType, Restart,
       RunnerStart, NewWorker, MarkStarted, SetDispatch, Leases, CountsOn,
       OneHolder, NoWorkerYet, WorkerShape, Live, Executing, Exists, Waiting,
       Recoverable, Leased
<1> QED  BY <1>1, <1>2, <1>3, <1>4, <1>5, <1>6 DEF HInv

LEMMA EndRecoveryKeeps ==
  ASSUME Hazards = {}, TypeInv, HInv, NEW p \in Procs, EndRecovery(p)
  PROVE  HInv'
<1>1. OneHolder'
  <2>1. \A q \in Procs, u \in Tasks : SegHolds(q, u)' => SegHolds(q, u)
    BY DispatchAssumption DEF EndRecovery, Enter, Idle, Seg, SegHolds
  <2>2. /\ \A q \in Procs : claimed'[q] \subseteq claimed[q]
        /\ \A v \in Workers : wtask'[v] \in {wtask[v], None}
    BY DispatchAssumption DEF EndRecovery, workerVars
  <2> QED  BY <2>1, <2>2, HoldersLeave DEF HInv
<1>2. Books'
  BY DispatchAssumption DEF HInv, EndRecovery, Enter, Idle, Seg, workerVars,
       Books
<1>3. SeenRows'
  BY DispatchAssumption DEF HInv, EndRecovery, Enter, Idle, Seg, rowVars,
       workerVars, SeenRows, Interrupted, LeaseFree, Unheld, SegHolds,
       Starters
<1>4. Claims'
  BY DispatchAssumption DEF HInv, EndRecovery, Enter, rowVars, Claims
<1>5. Statuses'
  BY DispatchAssumption DEF HInv, EndRecovery, Enter, Idle, Seg, rowVars,
       workerVars, Statuses, SegHolds
<1>6. Leases'
  BY DispatchAssumption DEF HInv, EndRecovery, rowVars, workerVars, Leases,
       CountsOn
<1> QED  BY <1>1, <1>2, <1>3, <1>4, <1>5, <1>6 DEF HInv

LEMMA CrashKeeps ==
  ASSUME Hazards = {}, TypeInv, HInv, NEW p \in Procs, Crash(p)
  PROVE  HInv'
<1>1. OneHolder'
  <2>1. \A q \in Procs, u \in Tasks : SegHolds(q, u)' => SegHolds(q, u)
    BY DispatchAssumption DEF Crash, Enter, Down, Seg, SegHolds
  <2>2. /\ \A q \in Procs : claimed'[q] \subseteq claimed[q]
        /\ \A v \in Workers : wtask'[v] \in {wtask[v], None}
    BY DispatchAssumption DEF Crash, FreeWorkers
  <2> QED  BY <2>1, <2>2, HoldersLeave DEF HInv
<1>2. Books'
  BY DispatchAssumption DEF HInv, TypeInv, ProcType, Crash, Enter, Down, Seg,
       FreeWorkers, Books, SegShape
<1>3. SeenRows'
  BY DispatchAssumption DEF HInv, TypeInv, ProcType, Crash, Enter, Down, Seg,
       FreeWorkers, SeenRows, Interrupted, LeaseFree, Unheld, SegHolds
<1>4. Claims'
  BY DispatchAssumption DEF HInv, TypeInv, ProcType, Crash, Enter, Claims
<1>5. Statuses'
  BY DispatchAssumption DEF HInv, Crash, Enter, Down, Seg, FreeWorkers,
       Statuses, SegHolds
<1>6. Leases'
  BY DispatchAssumption DEF HInv, TypeInv, Crash, FreeWorkers, Leases,
       CountsOn, WorkerShape, Live, Executing
<1> QED  BY <1>1, <1>2, <1>3, <1>4, <1>5, <1>6 DEF HInv

LEMMA CreateTaskKeeps ==
  ASSUME Hazards = {}, TypeInv, HInv, NEW p \in Procs, NEW t \in Tasks, CreateTask(p, t)
  PROVE  HInv'
<1>1. OneHolder'
  <2>1. t \in Tasks /\ (\A v \in Workers : wtask'[v] \in {wtask[v], t})
    BY DispatchAssumption DEF CreateTask, workerVars
  <2>2. \A q \in Procs, u \in Tasks \ {t} :
          /\ SegHolds(q, u)' => SegHolds(q, u)
          /\ u \in claimed'[q] => u \in claimed[q]
    BY DispatchAssumption DEF CreateTask, Enter, Seg, SegHolds
  <2>3. \A v \in Workers : wtask'[v] # t
    BY DispatchAssumption DEF CreateTask, workerVars, Fresh
  <2>4. \A q \in Procs : t \notin claimed'[q]
    BY DispatchAssumption DEF HInv, CreateTask, Fresh, Claims, Final
  <2>5. \A q \in Procs : SegHolds(q, t)' => q = p
    BY DispatchAssumption DEF HInv, CreateTask, Fresh, Enter, SegHolds,
         Statuses
  <2>6. NewHolder(t, "request", p)
    BY <2>1, <2>2, <2>3, <2>4, <2>5 DEF NewHolder
  <2> QED  BY <2>1, <2>6, HolderComes DEF HInv
<1>2. Books'
  BY DispatchAssumption DEF HInv, CreateTask, Enter, Seg, workerVars, Books
<1>3. SeenRows'
  BY DispatchAssumption DEF HInv, CreateTask, NewRow, SetStatus, Touch,
       SetDispatch, Enter, Seg, workerVars, SeenRows, Interrupted, LeaseFree,
       Unheld, SegHolds
<1>4. Claims'
  BY DispatchAssumption DEF HInv, CreateTask, Fresh, NewRow, SetStatus,
       SetDispatch, Enter, Seg, Idle, Claims, Final
<1>5. Statuses'
  BY DispatchAssumption DEF HInv, TypeInv, RowType, CreateTask, Fresh, NewRow,
       SetStatus, Enter, Seg, Idle, workerVars, Statuses, SegHolds, Starters,
       Final, Waiting
<1>6. Leases'
  BY DispatchAssumption DEF HInv, CreateTask, Fresh, NewRow, SetStatus,
       SetDispatch, workerVars, Leases, CountsOn
<1> QED  BY <1>1, <1>2, <1>3, <1>4, <1>5, <1>6 DEF HInv

LEMMA StartCreatedKeeps ==
  ASSUME Hazards = {}, TypeInv, HInv, NEW p \in Procs, NEW w \in Workers, StartCreated(p, w)
  PROVE  HInv'
<1>t. PICK t \in Tasks : t = seg[p].task
  BY DispatchAssumption DEF TypeInv, StartCreated, SegShape
<1>u. /\ \A v \in Workers : wtask[v] # t
      /\ \A q \in Procs : /\ t \notin claimed[q]
                          /\ q # p => ~ SegHolds(q, t)
  BY <1>t, DispatchAssumption DEF HInv, StartCreated, SegHolds, Starters,
       OneHolder, NoWorkerYet, ClaimOrRequest, OneRequest
<1>1. OneHolder'
  <2>1. t \in Tasks /\ (\A v \in Workers : wtask'[v] \in {wtask[v], t})
    BY <1>t, <1>u, DispatchAssumption DEF StartCreated, RunnerStart, NewWorker
  <2>2. \A q \in Procs, u \in Tasks \ {t} :
          /\ SegHolds(q, u)' => SegHolds(q, u)
          /\ u \in claimed'[q] => u \in claimed[q]
    BY <1>t, <1>u, DispatchAssumption DEF StartCreated, Enter, Seg, Idle,
         SegHolds
  <2>3. \A v \in Workers : wtask'[v] = t => v = w
    BY <1>t, <1>u, DispatchAssumption DEF StartCreated, RunnerStart, NewWorker
  <2>4. \A q \in Procs : t \notin claimed'[q]
    BY <1>t, <1>u, DispatchAssumption DEF StartCreated
  <2>5. \A q \in Procs : ~ SegHolds(q, t)'
    <3>1. seg'[p] = Idle /\ \A q \in Procs : q # p => seg'[q] = seg[q]
      BY DispatchAssumption DEF TypeInv, ProcType, StartCreated, Enter
    <3>2. \A q \in Procs : q # p => ~ SegHolds(q, t)'
      BY <1>u, <3>1 DEF SegHolds
    <3>3. ~ SegHolds(p, t)'
      BY <3>1, DispatchAssumption DEF SegHolds, Idle, Seg
    <3> QED  BY <3>2, <3>3
  <2>6. NewHolder(t, "worker", w)
    BY <2>1, <2>2, <2>3, <2>4, <2>5 DEF NewHolder
  <2> QED  BY <2>1, <2>6, HolderComes DEF HInv
<1>2. Books'
  BY <1>t, <1>u, DispatchAssumption DEF HInv, TypeInv, WorkerType,
       StartCreated, RunnerStart, NewWorker, Register, Enter, Seg, Idle,
       Books, SegShape
<1>3. SeenRows'
  BY <1>t, <1>u, DispatchAssumption DEF HInv, TypeInv, RowType, ProcType,
       StartCreated, RunnerStart, NewWorker, MarkStarted, SetDispatch, Touch,
       Enter, Seg, Idle, SeenRows, Interrupted, LeaseFree, Unheld, SegHolds,
       Starters
<1>4. Claims'
  <2>1. /\ status' = status /\ claimed' = claimed
        /\ \A q \in Procs : q # p => seg'[q] = seg[q]
        /\ \A u \in Tasks \ {t} : dstat'[u] = dstat[u] /\ lease'[u] = lease[u]
    BY <1>t, DispatchAssumption DEF TypeInv, RowType, StartCreated,
         RunnerStart, MarkStarted, SetDispatch, Enter
  <2>2. \A q \in Procs, u \in Tasks : u \in claimed'[q] => u # t /\ q # p
    BY <2>1, <1>u, DispatchAssumption DEF HInv, StartCreated, Claims
  <2> QED  BY <2>1, <2>2, DispatchAssumption DEF HInv, TypeInv, RowType, ProcType, WorkerType, Claims
<1>5. Statuses'
  BY <1>t, <1>u, DispatchAssumption DEF HInv, TypeInv, WorkerType,
       StartCreated, RunnerStart, NewWorker, Enter, Seg, Idle, Statuses,
       SegHolds
<1>6. Leases'
  BY <1>t, <1>u, DispatchAssumption DEF HInv, TypeInv, RowType, WorkerType,
       StartCreated, RunnerStart, NewWorker, MarkStarted, SetDispatch, Leases,
       CountsOn, WorkerShape, Live, Executing, Exists, Waiting, Recoverable,
       Leased
<1> QED  BY <1>1, <1>2, <1>3, <1>4, <1>5, <1>6 DEF HInv

LEMMA StartRowlessKeeps ==
  ASSUME Hazards = {}, TypeInv, HInv, NEW p \in Procs, NEW t \in Tasks, NEW w \in Workers, NEW k \in {"runner", "foreground"}, StartRowless(p, t, w, k)
  PROVE  HInv'
<1>1. OneHolder'
  <2>1. t \in Tasks /\ (\A v \in Workers : wtask'[v] \in {wtask[v], t})
    BY DispatchAssumption DEF StartRowless, NewWorker
  <2>2. \A q \in Procs, u \in Tasks \ {t} :
          /\ SegHolds(q, u)' => SegHolds(q, u)
          /\ u \in claimed'[q] => u \in claimed[q]
    BY DispatchAssumption DEF StartRowless, SegHolds
  <2>3. \A v \in Workers : wtask'[v] = t => v = w
    BY DispatchAssumption DEF StartRowless, Fresh, NewWorker
  <2>4. \A q \in Procs : t \notin claimed'[q]
    BY DispatchAssumption DEF HInv, StartRowless, Fresh, Claims, Final
  <2>5. \A q \in Procs : ~ SegHolds(q, t)'
    BY DispatchAssumption DEF HInv, StartRowless, Fresh, SegHolds, Statuses
  <2>6. NewHolder(t, "worker", w)
    BY <2>1, <2>2, <2>3, <2>4, <2>5 DEF NewHolder
  <2> QED  BY <2>1, <2>6, HolderComes DEF HInv
<1>2. Books'
  <2>1. /\ seg' = seg /\ wpc[w] = "free" /\ wtask[w] = None
        /\ wpc'[w] = "scheduled" /\ wproc'[w] = p /\ wtask'[w] = t
        /\ \A v \in Workers : v # w => wpc'[v] = wpc[v] /\ wproc'[v] = wproc[v] /\ wtask'[v] = wtask[v]
    BY DispatchAssumption DEF HInv, TypeInv, WorkerType, StartRowless,
         NewWorker, Books
  <2>2. \A q \in Procs, u \in Tasks :
           registry'[q][u] # registry[q][u] => q = p /\ u = t /\ registry'[q][u] = w
    BY DispatchAssumption DEF TypeInv, ProcType, StartRowless, Register
  <2>3. \A q \in Procs, u \in Tasks : registry[q][u] # w
    BY <2>1, DispatchAssumption DEF HInv, Books
  <2>4. \A q \in Procs : seg[q].kind \in {"begin", "starting"} => seg[q].worker \in Workers \ {w}
    BY <2>1, DispatchAssumption DEF TypeInv, SegShape
  <2>5. ASSUME NEW q \in Procs, NEW u \in Tasks, NEW v \in Workers, registry'[q][u] = v
        PROVE  wproc'[v] = q /\ wtask'[v] = u
    BY <2>1, <2>2, <2>3, <2>5, DispatchAssumption DEF HInv, Books
  <2>6. \A v \in Workers : wpc'[v] = "free" => wtask'[v] = None
    BY <2>1, DispatchAssumption DEF HInv, Books
  <2>7. \A q \in Procs : seg'[q].kind \in {"begin", "starting"} => wtask'[seg'[q].worker] = seg'[q].task
    BY <2>1, <2>4, DispatchAssumption DEF HInv, Books
  <2> QED  BY <2>5, <2>6, <2>7, DispatchAssumption DEF HInv, TypeInv, RowType, ProcType, WorkerType, Books
<1>3. SeenRows'
  BY DispatchAssumption DEF HInv, StartRowless, Fresh, NewWorker, rowVars,
       SeenRows, Interrupted, LeaseFree, Unheld, SegHolds, Recoverable
<1>4. Claims'
  BY DispatchAssumption DEF HInv, StartRowless, rowVars, Claims
<1>5. Statuses'
  BY DispatchAssumption DEF HInv, TypeInv, WorkerType, StartRowless,
       NewWorker, rowVars, Statuses, SegHolds
<1>6. Leases'
  BY DispatchAssumption DEF HInv, TypeInv, WorkerType, StartRowless, Fresh,
       NewWorker, rowVars, Leases, CountsOn, Waiting, Recoverable
<1> QED  BY <1>1, <1>2, <1>3, <1>4, <1>5, <1>6 DEF HInv

LEMMA InputReadKeeps ==
  ASSUME Hazards = {}, TypeInv, HInv, NEW p \in Procs, NEW t \in Tasks, InputRead(p, t)
  PROVE  HInv'
<1>u. /\ \A v \in Workers : wtask[v] # t
      /\ \A q \in Procs : t \notin claimed[q] /\ ~ SegHolds(q, t)
  <2>1. \A v \in Workers : wtask[v] # t
    BY DispatchAssumption DEF InputRead
  <2>2. \A q \in Procs : seg[q].kind # "start" \/ seg[q].task # t
    BY DispatchAssumption DEF HInv, InputRead, Statuses, Waiting
  <2>3. \A q \in Procs : ~ SegHolds(q, t)
    BY <2>2, DispatchAssumption DEF InputRead, SegHolds, Starters
  <2>4. \A q \in Procs : t \notin claimed[q]
    BY DispatchAssumption DEF HInv, InputRead, Claims, Final
  <2> QED  BY <2>1, <2>3, <2>4
<1>1. OneHolder'
  <2>1. t \in Tasks /\ (\A v \in Workers : wtask'[v] \in {wtask[v], t})
    BY <1>u, DispatchAssumption DEF InputRead, workerVars
  <2>2. \A q \in Procs, u \in Tasks \ {t} :
          /\ SegHolds(q, u)' => SegHolds(q, u)
          /\ u \in claimed'[q] => u \in claimed[q]
    BY <1>u, DispatchAssumption DEF InputRead, Enter, Seg, SegHolds
  <2>3. \A v \in Workers : wtask'[v] # t
    BY <1>u, DispatchAssumption DEF InputRead, workerVars
  <2>4. \A q \in Procs : t \notin claimed'[q]
    BY <1>u, DispatchAssumption DEF InputRead
  <2>5. \A q \in Procs : SegHolds(q, t)' => q = p
    BY <1>u, DispatchAssumption DEF InputRead, Enter, SegHolds
  <2>6. NewHolder(t, "request", p)
    BY <2>1, <2>2, <2>3, <2>4, <2>5 DEF NewHolder
  <2> QED  BY <2>1, <2>6, HolderComes DEF HInv
<1>2. Books'
  BY <1>u, DispatchAssumption DEF HInv, InputRead, Enter, Seg, workerVars,
       Books
<1>3. SeenRows'
  BY <1>u, DispatchAssumption DEF HInv, InputRead, Enter, Seg, rowVars,
       workerVars, SeenRows, Interrupted, LeaseFree, Unheld, SegHolds,
       Recoverable
<1>4. Claims'
  BY <1>u, DispatchAssumption DEF HInv, InputRead, Enter, Seg, Idle, rowVars,
       Claims
<1>5. Statuses'
  BY <1>u, DispatchAssumption DEF HInv, InputRead, Enter, Seg, Idle, rowVars,
       workerVars, Statuses, SegHolds, Recoverable
<1>6. Leases'
  BY <1>u, DispatchAssumption DEF HInv, InputRead, rowVars, workerVars,
       Leases, CountsOn
<1> QED  BY <1>1, <1>2, <1>3, <1>4, <1>5, <1>6 DEF HInv

LEMMA InputCheckKeeps ==
  ASSUME Hazards = {}, TypeInv, HInv, NEW p \in Procs, InputCheck(p)
  PROVE  HInv'
<1>1. OneHolder'
  <2>1. \A q \in Procs, u \in Tasks : SegHolds(q, u)' => SegHolds(q, u)
    BY DispatchAssumption DEF InputCheck, Enter, Seg, Idle, SegHolds, Starters
  <2>2. /\ \A q \in Procs : claimed'[q] \subseteq claimed[q]
        /\ \A v \in Workers : wtask'[v] \in {wtask[v], None}
    BY DispatchAssumption DEF InputCheck, workerVars
  <2> QED  BY <2>1, <2>2, HoldersLeave DEF HInv
<1>2. Books'
  BY DispatchAssumption DEF HInv, InputCheck, Enter, Seg, Idle, workerVars,
       Books
<1>3. SeenRows'
  BY DispatchAssumption DEF HInv, InputCheck, Enter, Seg, Idle, rowVars,
       workerVars, SeenRows, Interrupted, LeaseFree, Unheld, SegHolds,
       Starters
<1>4. Claims'
  BY DispatchAssumption DEF HInv, InputCheck, Enter, rowVars, Claims
<1>5. Statuses'
  BY DispatchAssumption DEF HInv, InputCheck, Enter, Seg, Idle, rowVars,
       workerVars, Statuses, SegHolds, Starters
<1>6. Leases'
  BY DispatchAssumption DEF HInv, InputCheck, rowVars, workerVars, Leases,
       CountsOn
<1> QED  BY <1>1, <1>2, <1>3, <1>4, <1>5, <1>6 DEF HInv

LEMMA InputWriteKeeps ==
  ASSUME Hazards = {}, TypeInv, HInv, NEW p \in Procs, InputWrite(p)
  PROVE  HInv'
<1>1. OneHolder'
  <2>1. \A q \in Procs, u \in Tasks : SegHolds(q, u)' => SegHolds(q, u)
    BY DispatchAssumption DEF InputWrite, Enter, Seg, SegHolds, Starters
  <2>2. /\ \A q \in Procs : claimed'[q] \subseteq claimed[q]
        /\ \A v \in Workers : wtask'[v] \in {wtask[v], None}
    BY DispatchAssumption DEF InputWrite, workerVars
  <2> QED  BY <2>1, <2>2, HoldersLeave DEF HInv
<1>2. Books'
  BY DispatchAssumption DEF HInv, InputWrite, Enter, Seg, workerVars, Books
<1>3. SeenRows'
  BY DispatchAssumption DEF HInv, TypeInv, RowType, ProcType, InputWrite,
       UpdateStatus, SetStatus, Touch, Enter, Seg, workerVars, SeenRows,
       Interrupted, LeaseFree, Unheld, SegHolds, Starters
<1>4. Claims'
  BY DispatchAssumption DEF HInv, TypeInv, RowType, InputWrite, UpdateStatus,
       SetStatus, Enter, Claims, Exists
<1>5. Statuses'
  BY DispatchAssumption DEF HInv, TypeInv, RowType, ProcType, WorkerType,
       InputWrite, UpdateStatus, SetStatus, Enter, Seg, workerVars, Statuses,
       Books, OneHolder, NoWorkerYet, OneRequest, SegHolds, Starters,
       SegShape, WorkerShape
<1>6. Leases'
  BY DispatchAssumption DEF HInv, TypeInv, RowType, InputWrite, UpdateStatus,
       SetStatus, workerVars, Leases, CountsOn, OneHolder, NoWorkerYet,
       SegHolds, Starters, WorkerShape, Live, Executing
<1> QED  BY <1>1, <1>2, <1>3, <1>4, <1>5, <1>6 DEF HInv

LEMMA CancelReadKeeps ==
  ASSUME Hazards = {}, TypeInv, HInv, NEW p \in Procs, NEW t \in Tasks, CancelRead(p, t)
  PROVE  HInv'
<1>1. OneHolder'
  <2>1. \A q \in Procs, u \in Tasks : SegHolds(q, u)' => SegHolds(q, u)
    BY DispatchAssumption DEF CancelRead, Enter, Seg, SegHolds, Starters
  <2>2. /\ \A q \in Procs : claimed'[q] \subseteq claimed[q]
        /\ \A v \in Workers : wtask'[v] \in {wtask[v], None}
    BY DispatchAssumption DEF CancelRead
  <2> QED  BY <2>1, <2>2, HoldersLeave DEF HInv
<1>2. Books'
  BY DispatchAssumption DEF HInv, CancelRead, Enter, Seg, Books
<1>3. SeenRows'
  BY DispatchAssumption DEF HInv, CancelRead, Enter, Seg, rowVars, SeenRows,
       Interrupted, LeaseFree, Unheld, SegHolds, Starters
<1>4. Claims'
  BY DispatchAssumption DEF HInv, CancelRead, Enter, Seg, Idle, rowVars,
       Claims
<1>5. Statuses'
  <2>1. /\ status' = status /\ wpc' = wpc /\ wtask' = wtask /\ wproc' = wproc
        /\ seg[p] = Idle /\ seg'[p] = Seg("cancel", t, None)
        /\ \A q \in Procs : q # p => seg'[q] = seg[q]
    <3>1. /\ status' = status /\ wpc' = wpc /\ wtask' = wtask /\ wproc' = wproc
          /\ seg[p] = Idle
      BY DEF CancelRead, rowVars
    <3>2. seg = [q \in Procs |-> seg[q]] /\ seg' = [seg EXCEPT ![p] = Seg("cancel", t, None)]
      BY DEF CancelRead, Enter, TypeInv, ProcType
    <3> QED  BY <3>1, <3>2
  <2>2. \A v \in Workers : wcancel'[v] => wcancel[v] \/ (wproc[v] = p /\ wtask[v] = t)
    <3>1. \A v \in Workers : wcancel'[v] => wcancel[v] \/ registry[p][t] = v
      BY DEF CancelRead, CancelRegistered
    <3> QED  BY <3>1 DEF HInv, Books
  <2>3. \A q \in Procs, u \in Tasks : SegHolds(q, u)' => SegHolds(q, u)
    BY <2>1 DEF SegHolds, Starters, Seg
  <2>4. \A q \in Procs :
           seg'[q].kind \in {"start", "input", "answer", "starting"} => seg'[q] = seg[q]
    BY <2>1, DispatchAssumption DEF Seg
  <2>5. ASSUME NEW v \in Workers, wpc'[v] = "scheduled" /\ wcancel'[v]
        PROVE  status'[wtask'[v]] \notin Recoverable \/ seg'[wproc'[v]] = Seg("cancel", wtask'[v], None)
    <3>1. CASE wproc[v] = p /\ wtask[v] = t
      BY <2>1, <3>1
    <3>2. CASE wproc[v] = p /\ wcancel[v]
      BY <2>1, <2>5, <3>2, DispatchAssumption DEF HInv, Statuses, Idle, Seg
    <3>3. CASE wproc[v] # p /\ wcancel[v]
      <4>1. wproc[v] \in Procs
        BY <2>1, <2>5, DispatchAssumption DEF TypeInv, WorkerShape
      <4> QED  BY <2>1, <2>5, <3>3, <4>1, DispatchAssumption DEF HInv, TypeInv, RowType, ProcType, WorkerType, Statuses
    <3> QED  BY <2>2, <2>5, <3>1, <3>2, <3>3
  <2>6. \A v \in Workers : wpc'[v] \in {"closing", "exited"} => status'[wtask'[v]] \notin Recoverable
    BY <2>1, DispatchAssumption DEF HInv, Statuses
  <2>7. \A q \in Procs, u \in Tasks : SegHolds(q, u)' => status'[u] # "none"
    BY <2>1, <2>3, DispatchAssumption DEF HInv, Statuses
  <2>8. (\A q \in Procs :
          /\ seg[q].kind = "start" => status[seg[q].task] \notin Waiting
          /\ seg[q].kind = "input" => status[seg[q].task] \notin Recoverable
          /\ seg[q].kind = "answer" => status[seg[q].task] \in {"waiting_input", "deleted"}
          /\ seg[q].kind = "starting" => status[seg[q].task] \notin Final)'
    BY <2>1, <2>4, DispatchAssumption DEF HInv, Statuses
  <2> QED  BY <2>5, <2>6, <2>7, <2>8, DispatchAssumption DEF HInv, TypeInv, RowType, ProcType, WorkerType, Statuses
<1>6. Leases'
  BY DispatchAssumption DEF HInv, CancelRead, rowVars, Leases, CountsOn
<1> QED  BY <1>1, <1>2, <1>3, <1>4, <1>5, <1>6 DEF HInv

LEMMA CancelWriteKeeps ==
  ASSUME Hazards = {}, TypeInv, HInv, NEW p \in Procs, CancelWrite(p)
  PROVE  HInv'
<1>1. OneHolder'
  <2>1. \A q \in Procs, u \in Tasks : SegHolds(q, u)' => SegHolds(q, u)
    BY DispatchAssumption DEF CancelWrite, Enter, Seg, Idle, SegHolds
  <2>2. /\ \A q \in Procs : claimed'[q] \subseteq claimed[q]
        /\ \A v \in Workers : wtask'[v] \in {wtask[v], None}
    BY DispatchAssumption DEF CancelWrite, workerVars
  <2> QED  BY <2>1, <2>2, HoldersLeave DEF HInv
<1>2. Books'
  BY DispatchAssumption DEF HInv, CancelWrite, Enter, Seg, Idle, workerVars,
       Books
<1>3. SeenRows'
  BY DispatchAssumption DEF HInv, TypeInv, RowType, ProcType, CancelWrite,
       UpdateStatus, SetStatus, Touch, Enter, Seg, Idle, workerVars, SeenRows,
       Interrupted, LeaseFree, Unheld, SegHolds
<1>4. Claims'
  BY DispatchAssumption DEF HInv, TypeInv, RowType, CancelWrite, UpdateStatus,
       SetStatus, Enter, Claims, Exists, Final
<1>5. Statuses'
  BY DispatchAssumption DEF HInv, TypeInv, RowType, CancelWrite, Crossing,
       UpdateStatus, SetStatus, Enter, Seg, Idle, workerVars, Statuses,
       SegHolds, SegShape, WorkerShape, Exists, Waiting, Recoverable
<1>6. Leases'
  <2>1. /\ dstat' = dstat /\ lease' = lease /\ owner' = owner /\ wtask' = wtask
        /\ wproc' = wproc /\ wpc' = wpc /\ whb' = whb
    BY DEF CancelWrite, workerVars
  <2>2. \A u \in Tasks : status'[u] \in {status[u], "cancelled"}
    BY DEF CancelWrite, UpdateStatus, SetStatus, TypeInv, RowType
  <2>3. \A v \in Workers : wpc[v] \in Live => wtask[v] \in Tasks
    BY DEF TypeInv, WorkerShape, Live, Executing
  <2>4. \A v \in Workers : CountsOn(v)' => CountsOn(v)
    BY <2>1, <2>2, <2>3 DEF CountsOn, Recoverable, Waiting
  <2> QED  BY <2>1, <2>4 DEF HInv, Leases
<1> QED  BY <1>1, <1>2, <1>3, <1>4, <1>5, <1>6 DEF HInv

LEMMA DeleteKeeps ==
  ASSUME Hazards = {}, TypeInv, HInv, NEW p \in Procs, NEW t \in Tasks, Delete(p, t)
  PROVE  HInv'
<1>1. OneHolder'
  <2>1. \A q \in Procs, u \in Tasks : SegHolds(q, u)' => SegHolds(q, u)
    BY DispatchAssumption DEF Delete, SegHolds
  <2>2. /\ \A q \in Procs : claimed'[q] \subseteq claimed[q]
        /\ \A v \in Workers : wtask'[v] \in {wtask[v], None}
    BY DispatchAssumption DEF Delete
  <2> QED  BY <2>1, <2>2, HoldersLeave DEF HInv
<1>2. Books'
  BY DispatchAssumption DEF HInv, Delete, Books
<1>3. SeenRows'
  BY DispatchAssumption DEF HInv, Delete, SetStatus, Touch, SetDispatch,
       SeenRows, Interrupted, LeaseFree, Unheld, SegHolds
<1>4. Claims'
  BY DispatchAssumption DEF HInv, TypeInv, RowType, Delete, SetStatus,
       SetDispatch, Claims
<1>5. Statuses'
  <2>1. /\ seg' = seg /\ wpc' = wpc /\ wtask' = wtask /\ wproc' = wproc
        /\ status'[t] = "deleted"
        /\ \A u \in Tasks : u # t => status'[u] = status[u]
    BY DispatchAssumption DEF TypeInv, RowType, Delete, SetStatus
  <2>2. \A v \in Workers : wcancel'[v] => wcancel[v] \/ wtask[v] = t
    <3>1. \A v \in Workers : wcancel'[v] => wcancel[v] \/ registry[p][t] = v
      BY DEF Delete, CancelRegistered
    <3> QED  BY <3>1 DEF HInv, Books
  <2>3. \A v \in Workers : wpc[v] # "free" => wtask[v] \in Tasks
    BY DispatchAssumption DEF TypeInv, WorkerShape
  <2>4. \A q \in Procs : seg[q].kind \in {"start", "input", "answer", "starting"} => seg[q].task \in Tasks
    BY DispatchAssumption DEF TypeInv, SegShape
  <2>5. ASSUME NEW v \in Workers, wpc'[v] = "scheduled" /\ wcancel'[v]
        PROVE  status'[wtask'[v]] \notin Recoverable \/ seg'[wproc'[v]] = Seg("cancel", wtask'[v], None)
    <3>1. CASE wtask[v] = t
      BY <2>1, <3>1, DispatchAssumption DEF Recoverable
    <3>2. CASE wtask[v] # t
      BY <2>1, <2>2, <2>3, <2>5, <3>2, DispatchAssumption DEF HInv, Statuses
    <3> QED  BY <3>1, <3>2
  <2>6. \A v \in Workers : wpc'[v] \in {"closing", "exited"} => status'[wtask'[v]] \notin Recoverable
    BY <2>1, <2>3, DispatchAssumption DEF HInv, Statuses, Recoverable
  <2>7. \A q \in Procs, u \in Tasks : SegHolds(q, u)' => status'[u] # "none"
    BY <2>1, DispatchAssumption DEF HInv, Statuses, SegHolds
  <2>8. (\A q \in Procs :
          /\ seg[q].kind = "start" => status[seg[q].task] \notin Waiting
          /\ seg[q].kind = "input" => status[seg[q].task] \notin Recoverable
          /\ seg[q].kind = "answer" => status[seg[q].task] \in {"waiting_input", "deleted"}
          /\ seg[q].kind = "starting" => status[seg[q].task] \notin Final)'
    BY <2>1, <2>4, DispatchAssumption DEF HInv, Statuses, Recoverable,
         Waiting, Final
  <2> QED  BY <2>5, <2>6, <2>7, <2>8, DispatchAssumption DEF HInv, TypeInv, RowType, ProcType, WorkerType, Statuses
<1>6. Leases'
  BY DispatchAssumption DEF HInv, TypeInv, RowType, Delete, SetStatus,
       SetDispatch, Leases, CountsOn
<1> QED  BY <1>1, <1>2, <1>3, <1>4, <1>5, <1>6 DEF HInv

LEMMA CancelledUnstartedKeeps ==
  ASSUME Hazards = {}, TypeInv, HInv, NEW w \in Workers, CancelledUnstarted(w)
  PROVE  HInv'
<1>1. OneHolder'
  <2>1. \A q \in Procs, u \in Tasks : SegHolds(q, u)' => SegHolds(q, u)
    BY DispatchAssumption DEF CancelledUnstarted, procVars, SegHolds
  <2>2. /\ \A q \in Procs : claimed'[q] \subseteq claimed[q]
        /\ \A v \in Workers : wtask'[v] \in {wtask[v], None}
    BY DispatchAssumption DEF CancelledUnstarted, procVars
  <2> QED  BY <2>1, <2>2, HoldersLeave DEF HInv
<1>2. Books'
  BY DispatchAssumption DEF HInv, CancelledUnstarted, Goto, procVars, Books
<1>3. SeenRows'
  BY DispatchAssumption DEF HInv, CancelledUnstarted, rowVars, procVars,
       SeenRows, Interrupted, LeaseFree, Unheld, SegHolds
<1>4. Claims'
  BY DispatchAssumption DEF HInv, CancelledUnstarted, rowVars, procVars,
       Claims
<1>5. Statuses'
  BY DispatchAssumption DEF HInv, CancelledUnstarted, OnLoop, Goto, Idle, Seg,
       rowVars, procVars, Statuses, SegHolds
<1>6. Leases'
  BY DispatchAssumption DEF HInv, CancelledUnstarted, Goto, rowVars, Leases,
       CountsOn, Live, Executing
<1> QED  BY <1>1, <1>2, <1>3, <1>4, <1>5, <1>6 DEF HInv

LEMMA BeginSkippedKeeps ==
  ASSUME Hazards = {}, TypeInv, HInv, NEW w \in Workers, BeginSkipped(w)
  PROVE  HInv'
<1>1. CASE status[wtask[w]] \in Final /\ Goto(w, "closing") /\ Register(wproc[w], wtask[w], w)
  <2>1. OneHolder'
    <3>1. \A q \in Procs, u \in Tasks : SegHolds(q, u)' => SegHolds(q, u)
      BY <1>1, DispatchAssumption DEF BeginSkipped, SegHolds
    <3>2. /\ \A q \in Procs : claimed'[q] \subseteq claimed[q]
          /\ \A v \in Workers : wtask'[v] \in {wtask[v], None}
      BY <1>1, DispatchAssumption DEF BeginSkipped
    <3> QED  BY <3>1, <3>2, HoldersLeave DEF HInv
  <2>2. Books'
    BY <1>1, DispatchAssumption DEF HInv, BeginSkipped, Goto, Register, Books
  <2>3. SeenRows'
    BY <1>1, DispatchAssumption DEF HInv, BeginSkipped, rowVars, SeenRows,
         Interrupted, LeaseFree, Unheld, SegHolds
  <2>4. Claims'
    BY <1>1, DispatchAssumption DEF HInv, BeginSkipped, rowVars, Claims
  <2>5. Statuses'
    BY <1>1, DispatchAssumption DEF HInv, BeginSkipped, Goto, rowVars,
         Statuses, SegHolds, Final, Recoverable
  <2>6. Leases'
    BY <1>1, DispatchAssumption DEF HInv, BeginSkipped, Goto, rowVars, Leases,
         CountsOn, Final, Waiting, Recoverable
  <2> QED  BY <2>1, <2>2, <2>3, <2>4, <2>5, <2>6 DEF HInv
<1>2. CASE ~ (status[wtask[w]] \in Final /\ Goto(w, "closing") /\ Register(wproc[w], wtask[w], w))
  <2>1. OneHolder'
    <3>1. \A q \in Procs, u \in Tasks : SegHolds(q, u)' => SegHolds(q, u)
      BY <1>2, DispatchAssumption DEF BeginSkipped, SegHolds
    <3>2. /\ \A q \in Procs : claimed'[q] \subseteq claimed[q]
          /\ \A v \in Workers : wtask'[v] \in {wtask[v], None}
      BY <1>2, DispatchAssumption DEF BeginSkipped
    <3> QED  BY <3>1, <3>2, HoldersLeave DEF HInv
  <2>2. Books'
    BY <1>2, DispatchAssumption DEF HInv, TypeInv, WorkerType, BeginSkipped,
         Goto, Books
  <2>3. SeenRows'
    BY <1>2, DispatchAssumption DEF HInv, BeginSkipped, rowVars, SeenRows,
         Interrupted, LeaseFree, Unheld, SegHolds
  <2>4. Claims'
    BY <1>2, DispatchAssumption DEF HInv, BeginSkipped, rowVars, Claims
  <2>5. Statuses'
    BY <1>2, DispatchAssumption DEF HInv, TypeInv, WorkerType, BeginSkipped,
         Goto, rowVars, Statuses, SegHolds, Exists, Recoverable
  <2>6. Leases'
    BY <1>2, DispatchAssumption DEF HInv, TypeInv, WorkerType, BeginSkipped,
         Goto, rowVars, Leases, CountsOn, Exists, Waiting, Recoverable
  <2> QED  BY <2>1, <2>2, <2>3, <2>4, <2>5, <2>6 DEF HInv
<1> QED  BY <1>1, <1>2

LEMMA BeginKeeps ==
  ASSUME Hazards = {}, TypeInv, HInv, NEW w \in Workers, Begin(w)
  PROVE  HInv'
<1>1. OneHolder'
  <2>1. \A q \in Procs, u \in Tasks : SegHolds(q, u)' => SegHolds(q, u)
    BY DispatchAssumption DEF Begin, Enter, Seg, SegHolds, Starters
  <2>2. /\ \A q \in Procs : claimed'[q] \subseteq claimed[q]
        /\ \A v \in Workers : wtask'[v] \in {wtask[v], None}
    BY DispatchAssumption DEF Begin
  <2> QED  BY <2>1, <2>2, HoldersLeave DEF HInv
<1>2. Books'
  BY DispatchAssumption DEF HInv, Begin, Goto, Register, Enter, Seg, Books
<1>3. SeenRows'
  BY DispatchAssumption DEF HInv, TypeInv, RowType, ProcType, Begin, NewRow,
       SetStatus, Touch, SetDispatch, Enter, Seg, rowVars, SeenRows,
       Interrupted, LeaseFree, Unheld, SegHolds
<1>4. Claims'
  BY DispatchAssumption DEF HInv, TypeInv, RowType, Begin, OnLoop, NewRow,
       SetStatus, SetDispatch, Enter, Seg, Idle, rowVars, Claims, OneHolder,
       NoWorkerYet
<1>5. Statuses'
  BY DispatchAssumption DEF HInv, TypeInv, RowType, Begin, OnLoop, Goto,
       NewRow, SetStatus, Enter, Seg, Idle, rowVars, Statuses, OneHolder,
       OneWorker, NoWorkerYet, SegHolds, Starters, SegShape, WorkerShape,
       Final
<1>6. Leases'
  BY DispatchAssumption DEF HInv, TypeInv, RowType, WorkerType, Begin, Goto,
       NewRow, SetStatus, SetDispatch, rowVars, Leases, CountsOn, WorkerShape,
       Live, Executing
<1> QED  BY <1>1, <1>2, <1>3, <1>4, <1>5, <1>6 DEF HInv

LEMMA StartCheckKeeps ==
  ASSUME Hazards = {}, TypeInv, HInv, NEW p \in Procs, StartCheck(p)
  PROVE  HInv'
<1>a. /\ seg[p].kind = "begin" /\ seg[p].task \in Tasks /\ seg[p].worker \in Workers
      /\ wtask[seg[p].worker] = seg[p].task
      /\ \/ /\ seg'[p] = Seg("starting", seg[p].task, seg[p].worker)
            /\ Exists(seg[p].task) /\ status[seg[p].task] \notin Final
            /\ wpc' = wpc
         \/ /\ seg'[p] = Idle
            /\ ~ (Exists(seg[p].task) /\ status[seg[p].task] \notin Final)
            /\ wpc' = [wpc EXCEPT ![seg[p].worker] = "closing"]
  BY DispatchAssumption DEF HInv, TypeInv, ProcType, StartCheck, Enter, Goto,
       SegShape, Books
<1>b. /\ status' = status /\ dstat' = dstat /\ lease' = lease /\ owner' = owner
      /\ seen' = seen /\ claimed' = claimed /\ registry' = registry
      /\ wtask' = wtask /\ wproc' = wproc /\ wcancel' = wcancel /\ whb' = whb
      /\ \A q \in Procs : q # p => seg'[q] = seg[q]
  BY DispatchAssumption DEF TypeInv, ProcType, StartCheck, Enter, rowVars
<1>c. wpc[seg[p].worker] # "free" /\ wpc[seg[p].worker] # "scheduled"
  BY <1>a, DispatchAssumption DEF TypeInv, SegShape
<1>d. \A q \in Procs, u \in Tasks : SegHolds(q, u)' <=> SegHolds(q, u)
  <2>1. \A q \in Procs, u \in Tasks : q # p => (SegHolds(q, u)' <=> SegHolds(q, u))
    BY <1>b DEF SegHolds
  <2>2. \A u \in Tasks : ~ SegHolds(p, u)
    BY <1>a DEF SegHolds, Starters
  <2>3. \A u \in Tasks : ~ SegHolds(p, u)'
    BY <1>a DEF SegHolds, Starters, Seg, Idle
  <2> QED  BY <2>1, <2>2, <2>3
<1>1. OneHolder'
  BY <1>b, <1>d, HoldersLeave DEF HInv
<1>2. Books'
  <2>1. \A q \in Procs, u \in Tasks, v \in Workers :
           registry'[q][u] = v => wproc'[v] = q /\ wtask'[v] = u
    BY <1>b DEF HInv, Books
  <2>2. \A v \in Workers : wpc'[v] = "free" => wpc[v] = "free"
    BY <1>a, <1>c DEF TypeInv, WorkerType
  <2>3. \A q \in Procs : seg'[q].kind \in {"begin", "starting"} => wtask'[seg'[q].worker] = seg'[q].task
    BY <1>a, <1>b DEF HInv, Books, Seg, Idle
  <2> QED  BY <1>b, <2>1, <2>2, <2>3 DEF HInv, Books
<1>3. SeenRows'
  BY <1>b, <1>d, DispatchAssumption DEF HInv, TypeInv, ProcType, SeenRows,
       Interrupted, LeaseFree, Unheld
<1>4. Claims'
  BY <1>a, <1>b, DispatchAssumption DEF HInv, Claims
<1>5. Statuses'
  <2>1. \A q \in Procs, u \in Tasks : SegHolds(q, u)' => status'[u] # "none"
    BY <1>b, <1>d, DispatchAssumption DEF HInv, Statuses
  <2>2. (\A q \in Procs :
          /\ seg[q].kind = "start" => status[seg[q].task] \notin Waiting
          /\ seg[q].kind = "input" => status[seg[q].task] \notin Recoverable
          /\ seg[q].kind = "answer" => status[seg[q].task] \in {"waiting_input", "deleted"}
          /\ seg[q].kind = "starting" => status[seg[q].task] \notin Final)'
    <3>1. \A q \in Procs : q # p => seg'[q] = seg[q]
      BY <1>b
    <3>2. \/ seg'[p].kind = "starting" /\ seg'[p].task = seg[p].task /\ status[seg[p].task] \notin Final
          \/ seg'[p].kind = "idle"
      BY <1>a DEF Seg, Idle
    <3> QED  BY <1>b, <3>1, <3>2 DEF HInv, Statuses
  <2>3. \A v \in Workers : wpc'[v] \in {"closing", "exited"} => status'[wtask'[v]] \notin Recoverable
    BY <1>a, <1>b, DispatchAssumption DEF HInv, TypeInv, WorkerType, Statuses,
         Recoverable, Final, Exists
  <2>4. ASSUME NEW v \in Workers, wpc'[v] = "scheduled" /\ wcancel'[v]
        PROVE  status'[wtask'[v]] \notin Recoverable \/ seg'[wproc'[v]] = Seg("cancel", wtask'[v], None)
    <3>1. wpc[v] = "scheduled" /\ wcancel[v] /\ wproc[v] \in Procs
      BY <1>a, <1>b, <2>4, DispatchAssumption DEF TypeInv, WorkerType,
           WorkerShape
    <3> QED  BY <1>a, <1>b, <3>1, DispatchAssumption DEF HInv, TypeInv, RowType, ProcType, WorkerType, Statuses, Seg
  <2> QED  BY <2>1, <2>2, <2>3, <2>4, DispatchAssumption DEF HInv, TypeInv, RowType, ProcType, WorkerType, Statuses
<1>6. Leases'
  BY <1>a, <1>b, <1>c, <1>d, DispatchAssumption DEF HInv, TypeInv, WorkerType,
       Leases, CountsOn, Exists, Final, Waiting, Recoverable
<1> QED  BY <1>1, <1>2, <1>3, <1>4, <1>5, <1>6 DEF HInv

LEMMA StartWriteKeeps ==
  ASSUME Hazards = {}, TypeInv, HInv, NEW p \in Procs, StartWrite(p)
  PROVE  HInv'
<1>a. /\ seg[p].kind = "starting" /\ seg[p].task \in Tasks /\ seg[p].worker \in Workers
      /\ wpc[seg[p].worker] = "beginning" /\ wtask[seg[p].worker] = seg[p].task
      /\ wpc' = [wpc EXCEPT ![seg[p].worker] = IF Exists(seg[p].task) THEN "handling" ELSE "closing"]
      /\ status' = IF Exists(seg[p].task) THEN [status EXCEPT ![seg[p].task] = "running"] ELSE status
  BY DispatchAssumption DEF HInv, TypeInv, StartWrite, UpdateStatus,
       SetStatus, Goto, SegShape, Books
<1>b. /\ dstat' = dstat /\ lease' = lease /\ owner' = owner
      /\ claimed' = claimed /\ wtask' = wtask /\ wproc' = wproc /\ whb' = whb
      /\ \A q \in Procs : q # p => seg'[q] = seg[q]
  BY DispatchAssumption DEF StartWrite, Enter
<1>1. CASE Exists(seg[p].task)
  <2>1. OneHolder'
    <3>1. \A q \in Procs, u \in Tasks : SegHolds(q, u)' => SegHolds(q, u)
      BY <1>a, <1>b, <1>1, DispatchAssumption DEF StartWrite, Enter, Seg,
           Idle, SegHolds
    <3>2. /\ \A q \in Procs : claimed'[q] \subseteq claimed[q]
          /\ \A v \in Workers : wtask'[v] \in {wtask[v], None}
      BY <1>a, <1>b, <1>1, DispatchAssumption
    <3> QED  BY <3>1, <3>2, HoldersLeave DEF HInv
  <2>2. Books'
    BY <1>a, <1>b, <1>1, DispatchAssumption DEF HInv, StartWrite, Enter, Seg,
         Idle, Books
  <2>3. SeenRows'
    BY <1>a, <1>b, <1>1, DispatchAssumption DEF HInv, StartWrite,
         UpdateStatus, SetStatus, Touch, Enter, Seg, Idle, SeenRows,
         Interrupted, LeaseFree, Unheld, SegHolds, Starters
  <2>4. Claims'
    <3>1. ASSUME NEW q \in Procs, NEW u \in Tasks, u \in claimed'[q]
          PROVE  q # p /\ u # seg[p].task /\ u \in claimed[q]
      BY <3>1, <1>a, <1>b DEF HInv, Claims, OneHolder, NoWorkerYet
    <3>2. \A u \in Tasks : u # seg[p].task => status'[u] = status[u]
      BY <1>a
    <3> QED  BY <3>1, <3>2, <1>b DEF HInv, Claims
  <2>5. Statuses'
    BY <1>a, <1>b, <1>1, DispatchAssumption DEF HInv, StartWrite, Enter, Seg,
         Idle, Statuses, OneHolder, OneWorker, NoWorkerYet, SegHolds,
         Starters, Final
  <2>6. Leases'
    <3>1. \A v \in Workers : v # seg[p].worker /\ wpc[v] # "free" =>
             wtask[v] # seg[p].task /\ wtask[v] \in Tasks
      BY <1>a, DispatchAssumption DEF HInv, TypeInv, WorkerShape, OneHolder,
           OneWorker
    <3>2. \A u \in Tasks : u # seg[p].task => status'[u] = status[u]
      BY <1>a
    <3>3. \A v \in Workers : v # seg[p].worker => wpc'[v] = wpc[v]
      BY <1>a
    <3>4. ASSUME NEW v \in Workers, v # seg[p].worker, CountsOn(v)'
          PROVE  CountsOn(v)
      BY <3>1, <3>2, <3>3, <3>4, <1>b DEF CountsOn, Live, Executing
    <3>5. ASSUME NEW v \in Workers, v = seg[p].worker, CountsOn(v)'
          PROVE  CountsOn(v)
      <4>1. wpc'[v] \in Live /\ dstat[seg[p].task] # "none"
        BY <3>5, <1>a, <1>b DEF CountsOn
      <4>2. Exists(seg[p].task)
        BY <3>5, <4>1, <1>a DEF Live, Executing, TypeInv, WorkerType
      <4>3. status[seg[p].task] \notin Final
        BY <1>a DEF HInv, Statuses
      <4>4. status[seg[p].task] \in Recoverable \cup Waiting
        BY <1>a, <4>2, <4>3 DEF TypeInv, RowType, Status, Exists
      <4> QED  BY <1>a, <1>b, <3>5, <4>1, <4>4 DEF CountsOn, Live, Executing
    <3>6. \A v \in Workers : CountsOn(v)' => (wpc'[v] # "scheduled" /\ v = seg[p].worker) \/ wpc'[v] = wpc[v]
      BY <3>3, <1>a
    <3>7. wpc[seg[p].worker] = "beginning"
      BY <1>a
    <3> QED  BY <3>3, <3>4, <3>5, <3>6, <3>7, <1>b DEF HInv, Leases
  <2> QED  BY <2>1, <2>2, <2>3, <2>4, <2>5, <2>6 DEF HInv
<1>2. CASE ~ (Exists(seg[p].task))
  <2>1. OneHolder'
    <3>1. \A q \in Procs, u \in Tasks : SegHolds(q, u)' => SegHolds(q, u)
      BY <1>a, <1>b, <1>2, DispatchAssumption DEF StartWrite, Enter, Seg,
           Idle, SegHolds
    <3>2. /\ \A q \in Procs : claimed'[q] \subseteq claimed[q]
          /\ \A v \in Workers : wtask'[v] \in {wtask[v], None}
      BY <1>a, <1>b, <1>2, DispatchAssumption
    <3> QED  BY <3>1, <3>2, HoldersLeave DEF HInv
  <2>2. Books'
    BY <1>a, <1>b, <1>2, DispatchAssumption DEF HInv, StartWrite, Enter, Seg,
         Idle, Books
  <2>3. SeenRows'
    BY <1>a, <1>b, <1>2, DispatchAssumption DEF HInv, StartWrite,
         UpdateStatus, Enter, Seg, Idle, SeenRows, Interrupted, LeaseFree,
         Unheld, SegHolds, Starters
  <2>4. Claims'
    <3>1. ASSUME NEW q \in Procs, NEW u \in Tasks, u \in claimed'[q]
          PROVE  q # p /\ u # seg[p].task /\ u \in claimed[q]
      BY <3>1, <1>a, <1>b DEF HInv, Claims, OneHolder, NoWorkerYet
    <3>2. \A u \in Tasks : u # seg[p].task => status'[u] = status[u]
      BY <1>a
    <3> QED  BY <3>1, <3>2, <1>b DEF HInv, Claims
  <2>5. Statuses'
    BY <1>a, <1>b, <1>2, DispatchAssumption DEF HInv, StartWrite, Enter, Seg,
         Idle, Statuses, SegHolds, Exists, Recoverable
  <2>6. Leases'
    <3>1. \A v \in Workers : v # seg[p].worker /\ wpc[v] # "free" =>
             wtask[v] # seg[p].task /\ wtask[v] \in Tasks
      BY <1>a, DispatchAssumption DEF HInv, TypeInv, WorkerShape, OneHolder,
           OneWorker
    <3>2. \A u \in Tasks : u # seg[p].task => status'[u] = status[u]
      BY <1>a
    <3>3. \A v \in Workers : v # seg[p].worker => wpc'[v] = wpc[v]
      BY <1>a
    <3>4. ASSUME NEW v \in Workers, v # seg[p].worker, CountsOn(v)'
          PROVE  CountsOn(v)
      BY <3>1, <3>2, <3>3, <3>4, <1>b DEF CountsOn, Live, Executing
    <3>5. ASSUME NEW v \in Workers, v = seg[p].worker, CountsOn(v)'
          PROVE  CountsOn(v)
      <4>1. wpc'[v] \in Live /\ dstat[seg[p].task] # "none"
        BY <3>5, <1>a, <1>b DEF CountsOn
      <4>2. Exists(seg[p].task)
        BY <3>5, <4>1, <1>a DEF Live, Executing, TypeInv, WorkerType
      <4>3. status[seg[p].task] \notin Final
        BY <1>a DEF HInv, Statuses
      <4>4. status[seg[p].task] \in Recoverable \cup Waiting
        BY <1>a, <4>2, <4>3 DEF TypeInv, RowType, Status, Exists
      <4> QED  BY <1>a, <1>b, <3>5, <4>1, <4>4 DEF CountsOn, Live, Executing
    <3>6. \A v \in Workers : CountsOn(v)' => (wpc'[v] # "scheduled" /\ v = seg[p].worker) \/ wpc'[v] = wpc[v]
      BY <3>3, <1>a
    <3>7. wpc[seg[p].worker] = "beginning"
      BY <1>a
    <3> QED  BY <3>3, <3>4, <3>5, <3>6, <3>7, <1>b DEF HInv, Leases
  <2> QED  BY <2>1, <2>2, <2>3, <2>4, <2>5, <2>6 DEF HInv
<1> QED  BY <1>1, <1>2

LEMMA RenewKeeps ==
  ASSUME Hazards = {}, TypeInv, HInv, NEW w \in Workers, Renew(w)
  PROVE  HInv'
<1>1. OneHolder'
  <2>1. \A q \in Procs, u \in Tasks : SegHolds(q, u)' => SegHolds(q, u)
    BY DispatchAssumption DEF Renew, SegHolds
  <2>2. /\ \A q \in Procs : claimed'[q] \subseteq claimed[q]
        /\ \A v \in Workers : wtask'[v] \in {wtask[v], None}
    BY DispatchAssumption DEF Renew
  <2> QED  BY <2>1, <2>2, HoldersLeave DEF HInv
<1>2. Books'
  BY DispatchAssumption DEF HInv, Renew, Books
<1>3. SeenRows'
  BY DispatchAssumption DEF HInv, TypeInv, RowType, ProcType, Renew,
       SetDispatch, Touch, SeenRows, Interrupted, LeaseFree, Unheld, SegHolds
<1>4. Claims'
  BY DispatchAssumption DEF HInv, TypeInv, RowType, Renew, SetDispatch,
       Claims, OneHolder, NoWorkerYet
<1>5. Statuses'
  BY DispatchAssumption DEF HInv, Renew, Statuses, SegHolds
<1>6. Leases'
  BY DispatchAssumption DEF HInv, TypeInv, RowType, Renew, SetDispatch,
       Leases, CountsOn, OneHolder, OneWorker, WorkerShape, Live, Executing,
       Exists, Final, Recoverable, Leased
<1> QED  BY <1>1, <1>2, <1>3, <1>4, <1>5, <1>6 DEF HInv

LEMMA AskInputKeeps ==
  ASSUME Hazards = {}, TypeInv, HInv, NEW w \in Workers, AskInput(w)
  PROVE  HInv'
<1>1. OneHolder'
  <2>1. \A q \in Procs, u \in Tasks : SegHolds(q, u)' => SegHolds(q, u)
    BY DispatchAssumption DEF AskInput, SegHolds
  <2>2. /\ \A q \in Procs : claimed'[q] \subseteq claimed[q]
        /\ \A v \in Workers : wtask'[v] \in {wtask[v], None}
    BY DispatchAssumption DEF AskInput
  <2> QED  BY <2>1, <2>2, HoldersLeave DEF HInv
<1>2. Books'
  BY DispatchAssumption DEF HInv, AskInput, Goto, Books
<1>3. SeenRows'
  BY DispatchAssumption DEF HInv, AskInput, SetStatus, Touch, SeenRows,
       Interrupted, LeaseFree, Unheld, SegHolds
<1>4. Claims'
  BY DispatchAssumption DEF HInv, AskInput, SetStatus, Claims, OneHolder,
       NoWorkerYet
<1>5. Statuses'
  BY DispatchAssumption DEF HInv, TypeInv, AskInput, SetStatus, Goto,
       Statuses, OneHolder, NoWorkerYet, SegHolds, Starters, SegShape, Final,
       Recoverable
<1>6. Leases'
  BY DispatchAssumption DEF HInv, TypeInv, AskInput, SetStatus, Goto, Leases,
       CountsOn, OneHolder, OneWorker, WorkerShape, Live, Executing,
       Recoverable
<1> QED  BY <1>1, <1>2, <1>3, <1>4, <1>5, <1>6 DEF HInv

LEMMA OutcomeKeeps ==
  ASSUME Hazards = {}, TypeInv, HInv, NEW w \in Workers, NEW s \in Final \cup Waiting, Outcome(w, s)
  PROVE  HInv'
<1>1. CASE Exists(wtask[w])
  <2>1. OneHolder'
    <3>1. \A q \in Procs, u \in Tasks : SegHolds(q, u)' => SegHolds(q, u)
      BY <1>1, DispatchAssumption DEF Outcome, SegHolds
    <3>2. /\ \A q \in Procs : claimed'[q] \subseteq claimed[q]
          /\ \A v \in Workers : wtask'[v] \in {wtask[v], None}
      BY <1>1, DispatchAssumption DEF Outcome
    <3> QED  BY <3>1, <3>2, HoldersLeave DEF HInv
  <2>2. Books'
    BY <1>1, DispatchAssumption DEF HInv, Outcome, Goto, Books
  <2>3. SeenRows'
    BY <1>1, DispatchAssumption DEF HInv, TypeInv, RowType, ProcType, Outcome,
         UpdateStatus, SetStatus, Touch, SeenRows, Interrupted, LeaseFree,
         Unheld, SegHolds
  <2>4. Claims'
    BY <1>1, DispatchAssumption DEF HInv, TypeInv, RowType, Outcome,
         UpdateStatus, SetStatus, Claims, OneHolder, NoWorkerYet
  <2>5. Statuses'
    BY <1>1, DispatchAssumption DEF HInv, TypeInv, RowType, Outcome,
         UpdateStatus, SetStatus, Goto, Statuses, Books, OneHolder, OneWorker,
         NoWorkerYet, SegHolds, Starters, SegShape, WorkerShape, Executing,
         Recoverable
  <2>6. Leases'
    BY <1>1, DispatchAssumption DEF HInv, TypeInv, RowType, Outcome,
         UpdateStatus, SetStatus, Goto, Leases, CountsOn, OneHolder,
         OneWorker, WorkerShape, Live, Executing, Recoverable
  <2> QED  BY <2>1, <2>2, <2>3, <2>4, <2>5, <2>6 DEF HInv
<1>2. CASE ~ (Exists(wtask[w]))
  <2>1. OneHolder'
    <3>1. \A q \in Procs, u \in Tasks : SegHolds(q, u)' => SegHolds(q, u)
      BY <1>2, DispatchAssumption DEF Outcome, SegHolds
    <3>2. /\ \A q \in Procs : claimed'[q] \subseteq claimed[q]
          /\ \A v \in Workers : wtask'[v] \in {wtask[v], None}
      BY <1>2, DispatchAssumption DEF Outcome
    <3> QED  BY <3>1, <3>2, HoldersLeave DEF HInv
  <2>2. Books'
    BY <1>2, DispatchAssumption DEF HInv, Outcome, Goto, Books
  <2>3. SeenRows'
    BY <1>2, DispatchAssumption DEF HInv, Outcome, UpdateStatus, SeenRows,
         Interrupted, LeaseFree, Unheld, SegHolds
  <2>4. Claims'
    BY <1>2, DispatchAssumption DEF HInv, Outcome, UpdateStatus, Claims
  <2>5. Statuses'
    BY <1>2, DispatchAssumption DEF HInv, Outcome, UpdateStatus, Goto,
         Statuses, SegHolds, Exists, Recoverable
  <2>6. Leases'
    BY <1>2, DispatchAssumption DEF HInv, Outcome, UpdateStatus, Goto, Leases,
         CountsOn, Exists, Waiting, Recoverable
  <2> QED  BY <2>1, <2>2, <2>3, <2>4, <2>5, <2>6 DEF HInv
<1> QED  BY <1>1, <1>2

LEMMA CloseKeeps ==
  ASSUME Hazards = {}, TypeInv, HInv, NEW w \in Workers, Close(w)
  PROVE  HInv'
<1>1. CASE wkind[w] = "foreground"
  <2>1. OneHolder'
    <3>1. \A q \in Procs, u \in Tasks : SegHolds(q, u)' => SegHolds(q, u)
      BY <1>1, DispatchAssumption DEF Close, SegHolds
    <3>2. /\ \A q \in Procs : claimed'[q] \subseteq claimed[q]
          /\ \A v \in Workers : wtask'[v] \in {wtask[v], None}
      BY <1>1, DispatchAssumption DEF Close, FreeWorkers
    <3> QED  BY <3>1, <3>2, HoldersLeave DEF HInv
  <2>2. Books'
    BY <1>1, DispatchAssumption DEF HInv, TypeInv, ProcType, WorkerType,
         Close, Discard, FreeWorkers, Books, SegShape
  <2>3. SeenRows'
    BY <1>1, DispatchAssumption DEF HInv, TypeInv, ProcType, WorkerType,
         Close, FreeWorkers, rowVars, SeenRows, Interrupted, LeaseFree,
         Unheld, SegHolds
  <2>4. Claims'
    BY <1>1, DispatchAssumption DEF HInv, Close, rowVars, Claims
  <2>5. Statuses'
    <3>1. /\ status' = status /\ seg' = seg
          /\ \A v \in Workers : v # w => wpc'[v] = wpc[v] /\ wtask'[v] = wtask[v]
                                         /\ wproc'[v] = wproc[v] /\ (wcancel'[v] <=> wcancel[v])
      BY <1>1 DEF Close, FreeWorkers, rowVars
    <3>2. \/ wpc'[w] = "free"
          \/ wpc[w] = "closing" /\ wpc'[w] = "exited" /\ wtask'[w] = wtask[w]
      BY <1>1 DEF Close, FreeWorkers
    <3>3. \A q \in Procs, u \in Tasks : SegHolds(q, u)' => SegHolds(q, u)
      BY <3>1 DEF SegHolds
    <3>4. ASSUME NEW v \in Workers
          PROVE  /\ wpc'[v] \in {"closing", "exited"} => status'[wtask'[v]] \notin Recoverable
                 /\ wpc'[v] = "scheduled" /\ wcancel'[v] =>
                       \/ status'[wtask'[v]] \notin Recoverable
                       \/ seg'[wproc'[v]] = Seg("cancel", wtask'[v], None)
      <4>1. CASE v = w
        BY <4>1, <3>1, <3>2 DEF HInv, Statuses
      <4>2. CASE v # w
        BY <4>2, <3>1 DEF HInv, Statuses
      <4> QED  BY <4>1, <4>2
    <3> QED  BY <3>1, <3>3, <3>4 DEF HInv, Statuses
  <2>6. Leases'
    BY <1>1, DispatchAssumption DEF HInv, Close, FreeWorkers, rowVars, Leases,
         CountsOn, Live, Executing
  <2> QED  BY <2>1, <2>2, <2>3, <2>4, <2>5, <2>6 DEF HInv
<1>2. CASE ~ (wkind[w] = "foreground")
  <2>1. OneHolder'
    <3>1. \A q \in Procs, u \in Tasks : SegHolds(q, u)' => SegHolds(q, u)
      BY <1>2, DispatchAssumption DEF Close, SegHolds
    <3>2. /\ \A q \in Procs : claimed'[q] \subseteq claimed[q]
          /\ \A v \in Workers : wtask'[v] \in {wtask[v], None}
      BY <1>2, DispatchAssumption DEF Close
    <3> QED  BY <3>1, <3>2, HoldersLeave DEF HInv
  <2>2. Books'
    BY <1>2, DispatchAssumption DEF HInv, TypeInv, WorkerType, Close, Discard,
         Goto, Books
  <2>3. SeenRows'
    BY <1>2, DispatchAssumption DEF HInv, Close, rowVars, SeenRows,
         Interrupted, LeaseFree, Unheld, SegHolds
  <2>4. Claims'
    BY <1>2, DispatchAssumption DEF HInv, Close, rowVars, Claims
  <2>5. Statuses'
    <3>1. /\ status' = status /\ seg' = seg
          /\ \A v \in Workers : v # w => wpc'[v] = wpc[v] /\ wtask'[v] = wtask[v]
                                         /\ wproc'[v] = wproc[v] /\ (wcancel'[v] <=> wcancel[v])
      BY <1>2 DEF Close, Goto, rowVars, TypeInv, WorkerType
    <3>2. \/ wpc'[w] = "free"
          \/ wpc[w] = "closing" /\ wpc'[w] = "exited" /\ wtask'[w] = wtask[w]
      BY <1>2 DEF Close, Goto, TypeInv, WorkerType
    <3>3. \A q \in Procs, u \in Tasks : SegHolds(q, u)' => SegHolds(q, u)
      BY <3>1 DEF SegHolds
    <3>4. ASSUME NEW v \in Workers
          PROVE  /\ wpc'[v] \in {"closing", "exited"} => status'[wtask'[v]] \notin Recoverable
                 /\ wpc'[v] = "scheduled" /\ wcancel'[v] =>
                       \/ status'[wtask'[v]] \notin Recoverable
                       \/ seg'[wproc'[v]] = Seg("cancel", wtask'[v], None)
      <4>1. CASE v = w
        BY <4>1, <3>1, <3>2 DEF HInv, Statuses
      <4>2. CASE v # w
        BY <4>2, <3>1 DEF HInv, Statuses
      <4> QED  BY <4>1, <4>2
    <3> QED  BY <3>1, <3>3, <3>4 DEF HInv, Statuses
  <2>6. Leases'
    BY <1>2, DispatchAssumption, SMTT(30) DEF HInv, TypeInv, RowType, ProcType,
         WorkerType, Close, OnLoop, Discard, FreeWorkers, Goto, rowVars,
         Leases, CountsOn, Statuses, Books, OneHolder, OneWorker, NoWorkerYet,
         ClaimOrRequest, OneRequest, SegHolds, Starters, SegShape,
         WorkerShape, Live, Executing, Exists, Final, Waiting, Recoverable,
         Leased
  <2> QED  BY <2>1, <2>2, <2>3, <2>4, <2>5, <2>6 DEF HInv
<1> QED  BY <1>1, <1>2

LEMMA DoneKeeps ==
  ASSUME Hazards = {}, TypeInv, HInv, NEW w \in Workers, Done(w)
  PROVE  HInv'
<1>1. OneHolder'
  <2>1. \A q \in Procs, u \in Tasks : SegHolds(q, u)' => SegHolds(q, u)
    BY DispatchAssumption DEF Done, SegHolds
  <2>2. /\ \A q \in Procs : claimed'[q] \subseteq claimed[q]
        /\ \A v \in Workers : wtask'[v] \in {wtask[v], None}
    BY DispatchAssumption DEF Done, FreeWorkers
  <2> QED  BY <2>1, <2>2, HoldersLeave DEF HInv
<1>2. Books'
  BY DispatchAssumption DEF HInv, TypeInv, ProcType, Done, Discard,
       FreeWorkers, Books, SegShape
<1>3. SeenRows'
  BY DispatchAssumption DEF HInv, TypeInv, RowType, ProcType, Done,
       SetDispatch, Touch, FreeWorkers, SeenRows, Interrupted, LeaseFree,
       Unheld, SegHolds
<1>4. Claims'
  BY DispatchAssumption DEF HInv, TypeInv, RowType, Done, SetDispatch, Claims,
       OneHolder, NoWorkerYet
<1>5. Statuses'
  BY DispatchAssumption DEF HInv, Done, FreeWorkers, Statuses, SegHolds
<1>6. Leases'
  BY DispatchAssumption DEF HInv, TypeInv, RowType, Done, SetDispatch,
       FreeWorkers, Leases, CountsOn, OneHolder, OneWorker, WorkerShape, Live,
       Executing
<1> QED  BY <1>1, <1>2, <1>3, <1>4, <1>5, <1>6 DEF HInv

LEMMA TickKeeps ==
  ASSUME Hazards = {}, TypeInv, HInv, Tick
  PROVE  HInv'
<1>1. OneHolder'
  <2>1. \A q \in Procs, u \in Tasks : SegHolds(q, u)' => SegHolds(q, u)
    BY DispatchAssumption DEF Tick, procVars, SegHolds
  <2>2. /\ \A q \in Procs : claimed'[q] \subseteq claimed[q]
        /\ \A v \in Workers : wtask'[v] \in {wtask[v], None}
    BY DispatchAssumption DEF Tick, procVars
  <2> QED  BY <2>1, <2>2, HoldersLeave DEF HInv
<1>2. Books'
  BY DispatchAssumption DEF HInv, Tick, procVars, Books
<1>3. SeenRows'
  BY DispatchAssumption DEF HInv, TypeInv, ProcType, Tick, Minus1, procVars,
       SeenRows, Interrupted, LeaseFree, Unheld, SegHolds
<1>4. Claims'
  <2>1. \A q \in Procs : claimed'[q] = {}
    BY DispatchAssumption, SMTT(30) DEF HInv, TypeInv, RowType, ProcType, WorkerType,
         Tick, Claims, Idle, Down, Seg, procVars
  <2> QED  BY <2>1, DispatchAssumption DEF HInv, TypeInv, RowType, ProcType, WorkerType, Claims
<1>5. Statuses'
  BY DispatchAssumption DEF HInv, Tick, procVars, Statuses, SegHolds
<1>6. Leases'
  BY DispatchAssumption DEF HInv, TypeInv, RowType, WorkerType, Tick, Minus1,
       Leases, CountsOn, WorkerShape, Live, Executing
<1> QED  BY <1>1, <1>2, <1>3, <1>4, <1>5, <1>6 DEF HInv

LEMMA InitHolds == Init => HInv
BY DispatchAssumption DEF HInv, Init, OneHolder, OneWorker, NoWorkerYet,
     ClaimOrRequest, OneClaim, OneRequest, SegHolds, Books, SeenRows, Claims,
     Statuses, Leases, CountsOn, Live, Executing, Down, Seg

LEMMA HoldersStep ==
  ASSUME Hazards = {}, TypeInv, HInv, [Next]_vars
  PROVE  HInv'
<1>1. ASSUME NEW p \in Procs, Boot(p)  PROVE HInv'
  BY <1>1, BootKeeps
<1>2. ASSUME NEW p \in Procs, ReadExhausted(p)  PROVE HInv'
  BY <1>2, ReadExhaustedKeeps
<1>3. ASSUME NEW p \in Procs, NEW t \in Tasks, FailExhausted(p, t)  PROVE HInv'
  BY <1>3, FailExhaustedKeeps
<1>4. ASSUME NEW p \in Procs, ReadClaimable(p)  PROVE HInv'
  BY <1>4, ReadClaimableKeeps
<1>5. ASSUME NEW p \in Procs, NEW t \in Tasks, Claim(p, t)  PROVE HInv'
  BY <1>5, ClaimKeeps
<1>6. ASSUME NEW p \in Procs, EndClaims(p)  PROVE HInv'
  BY <1>6, EndClaimsKeeps
<1>7. ASSUME NEW p \in Procs, NEW t \in Tasks, NEW w \in Workers, Restart(p, t, w)  PROVE HInv'
  BY <1>7, RestartKeeps
<1>8. ASSUME NEW p \in Procs, EndRecovery(p)  PROVE HInv'
  BY <1>8, EndRecoveryKeeps
<1>9. ASSUME NEW p \in Procs, Crash(p)  PROVE HInv'
  BY <1>9, CrashKeeps
<1>10. ASSUME NEW p \in Procs, NEW t \in Tasks, CreateTask(p, t)  PROVE HInv'
  BY <1>10, CreateTaskKeeps
<1>11. ASSUME NEW p \in Procs, NEW w \in Workers, StartCreated(p, w)  PROVE HInv'
  BY <1>11, StartCreatedKeeps
<1>12. ASSUME NEW p \in Procs, NEW t \in Tasks, NEW w \in Workers, NEW k \in {"runner", "foreground"}, StartRowless(p, t, w, k)  PROVE HInv'
  BY <1>12, StartRowlessKeeps
<1>13. ASSUME NEW p \in Procs, NEW t \in Tasks, InputRead(p, t)  PROVE HInv'
  BY <1>13, InputReadKeeps
<1>14. ASSUME NEW p \in Procs, InputCheck(p)  PROVE HInv'
  BY <1>14, InputCheckKeeps
<1>15. ASSUME NEW p \in Procs, InputWrite(p)  PROVE HInv'
  BY <1>15, InputWriteKeeps
<1>16. ASSUME NEW p \in Procs, NEW t \in Tasks, CancelRead(p, t)  PROVE HInv'
  BY <1>16, CancelReadKeeps
<1>17. ASSUME NEW p \in Procs, CancelWrite(p)  PROVE HInv'
  BY <1>17, CancelWriteKeeps
<1>18. ASSUME NEW p \in Procs, NEW t \in Tasks, Delete(p, t)  PROVE HInv'
  BY <1>18, DeleteKeeps
<1>19. ASSUME NEW w \in Workers, CancelledUnstarted(w)  PROVE HInv'
  BY <1>19, CancelledUnstartedKeeps
<1>20. ASSUME NEW w \in Workers, BeginSkipped(w)  PROVE HInv'
  BY <1>20, BeginSkippedKeeps
<1>21. ASSUME NEW w \in Workers, Begin(w)  PROVE HInv'
  BY <1>21, BeginKeeps
<1>22. ASSUME NEW p \in Procs, StartCheck(p)  PROVE HInv'
  BY <1>22, StartCheckKeeps
<1>23. ASSUME NEW p \in Procs, StartWrite(p)  PROVE HInv'
  BY <1>23, StartWriteKeeps
<1>24. ASSUME NEW w \in Workers, Renew(w)  PROVE HInv'
  BY <1>24, RenewKeeps
<1>25. ASSUME NEW w \in Workers, AskInput(w)  PROVE HInv'
  BY <1>25, AskInputKeeps
<1>26. ASSUME NEW w \in Workers, NEW s \in Final \cup Waiting, Outcome(w, s)  PROVE HInv'
  BY <1>26, OutcomeKeeps
<1>27. ASSUME NEW w \in Workers, Close(w)  PROVE HInv'
  BY <1>27, CloseKeeps
<1>28. ASSUME NEW w \in Workers, Done(w)  PROVE HInv'
  BY <1>28, DoneKeeps
<1>29. ASSUME Tick  PROVE HInv'
  BY <1>29, TickKeeps
<1>30. CASE UNCHANGED vars
  BY <1>30 DEF vars, rowVars, procVars, workerVars, HInv, OneHolder,
       OneWorker, NoWorkerYet, ClaimOrRequest, OneClaim, OneRequest, SegHolds,
       Books, SeenRows, Unheld, Interrupted, LeaseFree, Claims, Statuses,
       Leases, CountsOn
<1> QED
  BY <1>1, <1>2, <1>3, <1>4, <1>5, <1>6, <1>7, <1>8, <1>9, <1>10, <1>11,
       <1>12, <1>13, <1>14, <1>15, <1>16, <1>17, <1>18, <1>19, <1>20,
       <1>21, <1>22, <1>23, <1>24, <1>25, <1>26, <1>27, <1>28, <1>29, <1>30 DEF Next, Recovery,
       Requests, Segments, Runs

\* Without awkward schedules, however many processes boot, crash and answer
\* requests, a live run whose task has a dispatch record keeps its lease.
THEOREM LeaseProtects ==
  ASSUME Hazards = {}
  PROVE  Spec => []LeaseProtectsLiveRun
<1>1. TypeInv /\ HInv => LeaseProtectsLiveRun
  <2> SUFFICES ASSUME TypeInv, HInv, NEW w \in Workers, wpc[w] \in Live,
                      dstat[wtask[w]] # "none", Interrupted(wtask[w])
               PROVE  FALSE
    BY DEF LeaseProtectsLiveRun
  <2>1. wtask[w] \in Tasks
    BY DEF TypeInv, WorkerShape, Live, Executing
  <2>2. CountsOn(w)
    BY DEF CountsOn, Interrupted
  <2>3. /\ dstat[wtask[w]] \in Leased
        /\ lease[wtask[w]] + (IF wpc[w] = "scheduled" THEN Heartbeat ELSE 2 * Heartbeat)
              >= Lease + whb[w]
    BY <2>2 DEF HInv, Leases
  <2>4. lease[wtask[w]] > 0
    BY <2>1, <2>3, DispatchAssumption DEF TypeInv, RowType, WorkerType
  <2> QED  BY <2>3, <2>4 DEF Interrupted, LeaseFree
<1> QED  BY <1>1, InitType, TypeStep, InitHolds, HoldersStep, PTL DEF Spec

\* No two recoveries hold the same task, whatever they read and in whatever
\* order they write.
THEOREM ClaimsAreExclusive ==
  ASSUME Hazards = {}
  PROVE  Spec => []ClaimIsExclusive
<1>1. TypeInv /\ HInv => ClaimIsExclusive
  BY DEF ClaimIsExclusive, HInv, OneHolder, OneClaim, TypeInv, ProcType
<1> QED  BY <1>1, InitType, TypeStep, InitHolds, HoldersStep, PTL DEF Spec

(***************************************************************************)
(* The refinement.  Exec and Fate are the values that ImplementsExecution  *)
(* gives to the variables of TaskExecution.                                *)
(***************************************************************************)
Executes(w, t) == wtask[w] = t /\ wpc[w] \in Executing
Exec == [t \in Tasks |-> {w \in Workers : Executes(w, t)}]

FateOf(s) == IF s \in {"none", "deleted"} THEN "absent"
             ELSE IF s \in Final THEN "final" ELSE "open"
Fate == [t \in Tasks |-> FateOf(status[t])]

LEMMA ExecKept ==
  ASSUME \A v \in Workers, u \in Tasks : Executes(v, u)' <=> Executes(v, u)
  PROVE  Exec' = Exec
BY DEF Exec

LEMMA FateKept ==
  ASSUME \A u \in Tasks : FateOf(status'[u]) = FateOf(status[u])
  PROVE  Fate' = Fate
BY DEF Fate

LEMMA Unmoved ==
  ASSUME Exec' = Exec, Fate' = Fate
  PROVE  [Execution!Next]_(Execution!vars)
BY DEF Execution!vars, Exec, Fate, Executes, FateOf, Exists

\* One task gets another fate.
LEMMA FateChanged ==
  ASSUME NEW t \in Tasks, \A u \in Tasks \ {t} : status'[u] = status[u]
  PROVE  Fate' = [Fate EXCEPT ![t] = FateOf(status'[t])]
BY DEF Fate

LEMMA StepImplements ==
  ASSUME Hazards = {}, TypeInv, HInv, [Next]_vars
  PROVE  [Execution!Next]_(Execution!vars)
<1>1. ASSUME NEW p \in Procs, Boot(p)  PROVE [Execution!Next]_(Execution!vars)
  <2>1. Exec' = Exec
    <3>1. \A v \in Workers, u \in Tasks : Executes(v, u)' <=> Executes(v, u)
      BY <1>1 DEF Boot, workerVars, Executes
    <3> QED  BY <3>1, ExecKept
  <2>2. Fate' = Fate
    <3>1. status' = status
      BY <1>1 DEF Boot, rowVars
    <3> QED  BY <3>1, FateKept
  <2> QED  BY <2>1, <2>2, Unmoved
<1>2. ASSUME NEW p \in Procs, ReadExhausted(p)  PROVE [Execution!Next]_(Execution!vars)
  <2>1. Exec' = Exec
    <3>1. \A v \in Workers, u \in Tasks : Executes(v, u)' <=> Executes(v, u)
      BY <1>2 DEF ReadExhausted, workerVars, Executes
    <3> QED  BY <3>1, ExecKept
  <2>2. Fate' = Fate
    <3>1. status' = status
      BY <1>2 DEF ReadExhausted, rowVars
    <3> QED  BY <3>1, FateKept
  <2> QED  BY <2>1, <2>2, Unmoved
<1>3. ASSUME NEW p \in Procs, NEW t \in Tasks, FailExhausted(p, t)  PROVE [Execution!Next]_(Execution!vars)
  <2>1. Exec' = Exec
    <3>1. \A v \in Workers, u \in Tasks : Executes(v, u)' <=> Executes(v, u)
      BY <1>3 DEF FailExhausted, workerVars, Executes
    <3> QED  BY <3>1, ExecKept
  <2>2. Fate[t] = "open" /\ Fate' = [Fate EXCEPT ![t] = "final"]
    <3>1. Interrupted(t)
      BY <1>3, SeenUnheld DEF FailExhausted
    <3>2. /\ status[t] \in Recoverable /\ status'[t] = "failed"
          /\ \A u \in Tasks \ {t} : status'[u] = status[u]
      BY <1>3, <3>1 DEF FailExhausted, SetStatus, Interrupted, TypeInv,
           RowType
    <3> QED  BY <3>2, FateChanged DEF Fate, FateOf, Final, Recoverable
  <2>3. Execution!Settle(t)
    BY <2>1, <2>2 DEF Execution!Settle, Exec, Fate, Executes, FateOf, Exists
  <2> QED  BY <2>3 DEF Execution!Next
<1>4. ASSUME NEW p \in Procs, ReadClaimable(p)  PROVE [Execution!Next]_(Execution!vars)
  <2>1. Exec' = Exec
    <3>1. \A v \in Workers, u \in Tasks : Executes(v, u)' <=> Executes(v, u)
      BY <1>4 DEF ReadClaimable, workerVars, Executes
    <3> QED  BY <3>1, ExecKept
  <2>2. Fate' = Fate
    <3>1. status' = status
      BY <1>4 DEF ReadClaimable, rowVars
    <3> QED  BY <3>1, FateKept
  <2> QED  BY <2>1, <2>2, Unmoved
<1>5. ASSUME NEW p \in Procs, NEW t \in Tasks, Claim(p, t)  PROVE [Execution!Next]_(Execution!vars)
  <2>1. Exec' = Exec
    <3>1. \A v \in Workers, u \in Tasks : Executes(v, u)' <=> Executes(v, u)
      BY <1>5 DEF Claim, workerVars, Executes
    <3> QED  BY <3>1, ExecKept
  <2>2. Fate' = Fate
    <3>1. Interrupted(t)
      BY <1>5, SeenUnheld DEF Claim
    <3>2. /\ status[t] \in Recoverable /\ status'[t] = "queued"
          /\ \A u \in Tasks \ {t} : status'[u] = status[u]
      BY <1>5, <3>1 DEF Claim, SetStatus, Interrupted, TypeInv, RowType
    <3> QED  BY <3>2, FateKept DEF FateOf, Recoverable, Final
  <2> QED  BY <2>1, <2>2, Unmoved
<1>6. ASSUME NEW p \in Procs, EndClaims(p)  PROVE [Execution!Next]_(Execution!vars)
  <2>1. Exec' = Exec
    <3>1. \A v \in Workers, u \in Tasks : Executes(v, u)' <=> Executes(v, u)
      BY <1>6 DEF EndClaims, workerVars, Executes
    <3> QED  BY <3>1, ExecKept
  <2>2. Fate' = Fate
    <3>1. status' = status
      BY <1>6 DEF EndClaims, rowVars
    <3> QED  BY <3>1, FateKept
  <2> QED  BY <2>1, <2>2, Unmoved
<1>7. ASSUME NEW p \in Procs, NEW t \in Tasks, NEW w \in Workers, Restart(p, t, w)  PROVE [Execution!Next]_(Execution!vars)
  <2>1. Exec' = Exec
    <3>1. \A v \in Workers, u \in Tasks : Executes(v, u)' <=> Executes(v, u)
      BY <1>7 DEF Restart, RunnerStart, NewWorker, Executes, Executing
    <3> QED  BY <3>1, ExecKept
  <2>2. Fate' = Fate
    <3>1. status' = status
      BY <1>7 DEF Restart, RunnerStart
    <3> QED  BY <3>1, FateKept
  <2> QED  BY <2>1, <2>2, Unmoved
<1>8. ASSUME NEW p \in Procs, EndRecovery(p)  PROVE [Execution!Next]_(Execution!vars)
  <2>1. Exec' = Exec
    <3>1. \A v \in Workers, u \in Tasks : Executes(v, u)' <=> Executes(v, u)
      BY <1>8 DEF EndRecovery, workerVars, Executes
    <3> QED  BY <3>1, ExecKept
  <2>2. Fate' = Fate
    <3>1. status' = status
      BY <1>8 DEF EndRecovery, rowVars
    <3> QED  BY <3>1, FateKept
  <2> QED  BY <2>1, <2>2, Unmoved
<1>9. ASSUME NEW p \in Procs, Crash(p)  PROVE [Execution!Next]_(Execution!vars)
  <2>1. PICK T \in SUBSET Tasks :
               \A u \in Tasks : u \in T <=> \E v \in Workers : wproc[v] = p /\ Executes(v, u)
    <3> DEFINE lost == {t \in Tasks : \E v \in Workers : wproc[v] = p /\ Executes(v, t)}
    <3>1. lost \in SUBSET Tasks /\ \A u \in Tasks : u \in lost <=> \E v \in Workers : wproc[v] = p /\ Executes(v, u)
      OBVIOUS
    <3> HIDE DEF lost
    <3> QED  BY <3>1
  <2>2. \A v \in Workers, u \in Tasks : Executes(v, u)' <=> Executes(v, u) /\ wproc[v] # p
    BY <1>9 DEF Crash, FreeWorkers, Executes, Executing
  <2>3. \A u \in T, v, x \in Workers : Executes(v, u) /\ Executes(x, u) => v = x
    BY DispatchAssumption DEF HInv, OneHolder, OneWorker, Executes
  <2>4. \A u \in T : \A v \in Workers : ~ Executes(v, u)'
    BY <2>1, <2>2, <2>3
  <2>5. \A u \in Tasks \ T : \A v \in Workers : Executes(v, u)' <=> Executes(v, u)
    BY <2>1, <2>2
  <2>6. Exec' = [t \in Tasks |-> IF t \in T THEN {} ELSE Exec[t]]
    <3>1. \A u \in Tasks : {v \in Workers : Executes(v, u)'}
                              = IF u \in T THEN {} ELSE {v \in Workers : Executes(v, u)}
      BY <2>4, <2>5
    <3> QED  BY <3>1 DEF Exec
  <2>7. Fate' = Fate
    BY <1>9, FateKept DEF Crash
  <2>8. Execution!Lose(T)
    BY <2>6, <2>7 DEF Execution!Lose, Exec, Fate, Executes, FateOf, Exists
  <2> QED  BY <2>8 DEF Execution!Next
<1>10. ASSUME NEW p \in Procs, NEW t \in Tasks, CreateTask(p, t)  PROVE [Execution!Next]_(Execution!vars)
  <2>1. Exec' = Exec
    <3>1. \A v \in Workers, u \in Tasks : Executes(v, u)' <=> Executes(v, u)
      BY <1>10 DEF CreateTask, workerVars, Executes
    <3> QED  BY <3>1, ExecKept
  <2>2. Fate[t] = "absent" /\ Fate' = [Fate EXCEPT ![t] = "open"]
    <3>1. /\ status[t] = "none" /\ status'[t] = "queued"
          /\ \A u \in Tasks \ {t} : status'[u] = status[u]
      BY <1>10 DEF CreateTask, Fresh, NewRow, SetStatus, TypeInv, RowType
    <3> QED  BY <3>1, FateChanged DEF Fate, FateOf, Final
  <2>3. Execution!Admit(t)
    BY <2>1, <2>2 DEF Execution!Admit, Exec, Fate, Executes, FateOf, Exists
  <2> QED  BY <2>3 DEF Execution!Next
<1>11. ASSUME NEW p \in Procs, NEW w \in Workers, StartCreated(p, w)  PROVE [Execution!Next]_(Execution!vars)
  <2>1. Exec' = Exec
    <3>1. \A v \in Workers, u \in Tasks : Executes(v, u)' <=> Executes(v, u)
      BY <1>11 DEF StartCreated, RunnerStart, NewWorker, Executes, Executing
    <3> QED  BY <3>1, ExecKept
  <2>2. Fate' = Fate
    <3>1. status' = status
      BY <1>11 DEF StartCreated, RunnerStart
    <3> QED  BY <3>1, FateKept
  <2> QED  BY <2>1, <2>2, Unmoved
<1>12. ASSUME NEW p \in Procs, NEW t \in Tasks, NEW w \in Workers, NEW k \in {"runner", "foreground"}, StartRowless(p, t, w, k)  PROVE [Execution!Next]_(Execution!vars)
  <2>1. Exec' = Exec
    <3>1. \A v \in Workers, u \in Tasks : Executes(v, u)' <=> Executes(v, u)
      BY <1>12 DEF StartRowless, NewWorker, Executes, Executing
    <3> QED  BY <3>1, ExecKept
  <2>2. Fate' = Fate
    <3>1. status' = status
      BY <1>12 DEF StartRowless, rowVars
    <3> QED  BY <3>1, FateKept
  <2> QED  BY <2>1, <2>2, Unmoved
<1>13. ASSUME NEW p \in Procs, NEW t \in Tasks, InputRead(p, t)  PROVE [Execution!Next]_(Execution!vars)
  <2>1. Exec' = Exec
    <3>1. \A v \in Workers, u \in Tasks : Executes(v, u)' <=> Executes(v, u)
      BY <1>13 DEF InputRead, workerVars, Executes
    <3> QED  BY <3>1, ExecKept
  <2>2. Fate' = Fate
    <3>1. status' = status
      BY <1>13 DEF InputRead, rowVars
    <3> QED  BY <3>1, FateKept
  <2> QED  BY <2>1, <2>2, Unmoved
<1>14. ASSUME NEW p \in Procs, InputCheck(p)  PROVE [Execution!Next]_(Execution!vars)
  <2>1. Exec' = Exec
    <3>1. \A v \in Workers, u \in Tasks : Executes(v, u)' <=> Executes(v, u)
      BY <1>14 DEF InputCheck, workerVars, Executes
    <3> QED  BY <3>1, ExecKept
  <2>2. Fate' = Fate
    <3>1. status' = status
      BY <1>14 DEF InputCheck, rowVars
    <3> QED  BY <3>1, FateKept
  <2> QED  BY <2>1, <2>2, Unmoved
<1>15. ASSUME NEW p \in Procs, InputWrite(p)  PROVE [Execution!Next]_(Execution!vars)
  <2>1. Exec' = Exec
    <3>1. \A v \in Workers, u \in Tasks : Executes(v, u)' <=> Executes(v, u)
      BY <1>15 DEF InputWrite, workerVars, Executes
    <3> QED  BY <3>1, ExecKept
  <2>2. Fate' = Fate
    <3>1. PICK t \in Tasks : t = seg[p].task
      BY <1>15 DEF InputWrite, TypeInv, SegShape
    <3>2. status[t] \in {"waiting_input", "deleted"}
      BY <1>15, <3>1 DEF InputWrite, HInv, Statuses
    <3>3. /\ status'[t] = IF Exists(t) THEN "queued" ELSE status[t]
          /\ \A u \in Tasks \ {t} : status'[u] = status[u]
      BY <1>15, <3>1 DEF InputWrite, UpdateStatus, SetStatus, TypeInv, RowType
    <3> QED  BY <3>2, <3>3, FateKept DEF FateOf, Exists, Final
  <2> QED  BY <2>1, <2>2, Unmoved
<1>16. ASSUME NEW p \in Procs, NEW t \in Tasks, CancelRead(p, t)  PROVE [Execution!Next]_(Execution!vars)
  <2>1. Exec' = Exec
    <3>1. \A v \in Workers, u \in Tasks : Executes(v, u)' <=> Executes(v, u)
      BY <1>16 DEF CancelRead, Executes
    <3> QED  BY <3>1, ExecKept
  <2>2. Fate' = Fate
    <3>1. status' = status
      BY <1>16 DEF CancelRead, rowVars
    <3> QED  BY <3>1, FateKept
  <2> QED  BY <2>1, <2>2, Unmoved
<1>17. ASSUME NEW p \in Procs, CancelWrite(p)  PROVE [Execution!Next]_(Execution!vars)
  <2>1. Exec' = Exec
    <3>1. \A v \in Workers, u \in Tasks : Executes(v, u)' <=> Executes(v, u)
      BY <1>17 DEF CancelWrite, workerVars, Executes
    <3> QED  BY <3>1, ExecKept
  <2>2. PICK t \in Tasks : t = seg[p].task
    BY <1>17 DEF CancelWrite, TypeInv, SegShape
  <2>3. /\ status'[t] = IF Exists(t) THEN "cancelled" ELSE status[t]
        /\ \A u \in Tasks \ {t} : status'[u] = status[u]
    BY <1>17, <2>2 DEF CancelWrite, UpdateStatus, SetStatus, TypeInv, RowType
  <2>4. CASE Fate[t] = "open"
    <3>1. Fate' = [Fate EXCEPT ![t] = "final"]
      BY <2>3, <2>4, FateChanged DEF Fate, FateOf, Final, Exists
    <3>2. Execution!Settle(t)
      BY <2>1, <2>4, <3>1 DEF Execution!Settle, Exec, Fate, Executes, FateOf,
           Exists
    <3> QED  BY <3>2 DEF Execution!Next
  <2>5. CASE Fate[t] # "open"
    <3>1. Fate' = Fate
      BY <2>3, <2>5, FateKept DEF Fate, FateOf, Final, Exists
    <3> QED  BY <2>1, <3>1, Unmoved
  <2> QED  BY <2>4, <2>5
<1>18. ASSUME NEW p \in Procs, NEW t \in Tasks, Delete(p, t)  PROVE [Execution!Next]_(Execution!vars)
  <2>1. Exec' = Exec
    <3>1. \A v \in Workers, u \in Tasks : Executes(v, u)' <=> Executes(v, u)
      BY <1>18 DEF Delete, Executes
    <3> QED  BY <3>1, ExecKept
  <2>2. Fate[t] # "absent" /\ Fate' = [Fate EXCEPT ![t] = "absent"]
    <3>1. /\ Exists(t) /\ status'[t] = "deleted"
          /\ \A u \in Tasks \ {t} : status'[u] = status[u]
      BY <1>18 DEF Delete, SetStatus, TypeInv, RowType
    <3> QED  BY <3>1, FateChanged DEF Fate, FateOf, Final, Exists
  <2>3. Execution!Forget(t)
    BY <2>1, <2>2 DEF Execution!Forget, Exec, Fate, Executes, FateOf, Exists
  <2> QED  BY <2>3 DEF Execution!Next
<1>19. ASSUME NEW w \in Workers, CancelledUnstarted(w)  PROVE [Execution!Next]_(Execution!vars)
  <2>1. Exec' = Exec
    <3>1. \A v \in Workers, u \in Tasks : Executes(v, u)' <=> Executes(v, u)
      BY <1>19 DEF CancelledUnstarted, Goto, Executes, Executing
    <3> QED  BY <3>1, ExecKept
  <2>2. Fate' = Fate
    <3>1. status' = status
      BY <1>19 DEF CancelledUnstarted, rowVars
    <3> QED  BY <3>1, FateKept
  <2> QED  BY <2>1, <2>2, Unmoved
<1>20. ASSUME NEW w \in Workers, BeginSkipped(w)  PROVE [Execution!Next]_(Execution!vars)
  <2>1. Exec' = Exec
    <3>1. \A v \in Workers, u \in Tasks : Executes(v, u)' <=> Executes(v, u)
      BY <1>20 DEF BeginSkipped, Goto, Executes, Executing, TypeInv,
           WorkerType
    <3> QED  BY <3>1, ExecKept
  <2>2. Fate' = Fate
    <3>1. status' = status
      BY <1>20 DEF BeginSkipped, rowVars
    <3> QED  BY <3>1, FateKept
  <2> QED  BY <2>1, <2>2, Unmoved
<1>21. ASSUME NEW w \in Workers, Begin(w)  PROVE [Execution!Next]_(Execution!vars)
  <2>1. Exec' = Exec
    <3>1. \A v \in Workers, u \in Tasks : Executes(v, u)' <=> Executes(v, u)
      BY <1>21 DEF Begin, Goto, Executes, Executing
    <3> QED  BY <3>1, ExecKept
  <2>2. PICK t \in Tasks : t = wtask[w]
    BY <1>21 DEF Begin, TypeInv, WorkerShape
  <2>3. CASE Exists(t)
    <3>1. Fate' = Fate
      BY <1>21, <2>2, <2>3, FateKept DEF Begin, rowVars
    <3> QED  BY <2>1, <3>1, Unmoved
  <2>4. CASE ~ Exists(t)
    <3>1. /\ status'[t] = "queued"
          /\ \A u \in Tasks \ {t} : status'[u] = status[u]
      BY <1>21, <2>2, <2>4 DEF Begin, NewRow, SetStatus, TypeInv, RowType
    <3>2. Fate[t] = "absent" /\ Fate' = [Fate EXCEPT ![t] = "open"]
      BY <2>4, <3>1, FateChanged DEF Fate, FateOf, Final, Exists
    <3>3. Execution!Admit(t)
      BY <2>1, <3>2 DEF Execution!Admit, Exec, Fate, Executes, FateOf, Exists
    <3> QED  BY <3>3 DEF Execution!Next
  <2> QED  BY <2>3, <2>4
<1>22. ASSUME NEW p \in Procs, StartCheck(p)  PROVE [Execution!Next]_(Execution!vars)
  <2>1. PICK w \in Workers : w = seg[p].worker
    BY <1>22 DEF StartCheck, TypeInv, SegShape
  <2>2. wpc[w] = "beginning"
    BY <1>22, <2>1 DEF StartCheck, TypeInv, SegShape
  <2>3. /\ wtask' = wtask /\ wpc'[w] \in {"beginning", "closing"}
        /\ \A v \in Workers \ {w} : wpc'[v] = wpc[v]
    BY <1>22, <2>1, <2>2 DEF StartCheck, Goto, TypeInv, WorkerType
  <2>4. \A v \in Workers, u \in Tasks : Executes(v, u)' <=> Executes(v, u)
    BY <2>2, <2>3 DEF Executes, Executing
  <2>5. status' = status
    BY <1>22 DEF StartCheck, rowVars
  <2> QED  BY <2>4, <2>5, ExecKept, FateKept, Unmoved
<1>23. ASSUME NEW p \in Procs, StartWrite(p)  PROVE [Execution!Next]_(Execution!vars)
  <2>1. PICK t \in Tasks, w \in Workers : t = seg[p].task /\ w = seg[p].worker
    BY <1>23 DEF StartWrite, TypeInv, SegShape
  <2>2. /\ wpc[w] = "beginning" /\ wtask[w] = t /\ status[t] \notin Final
        /\ \A v \in Workers \ {w} : wtask[v] # t
    BY <1>23, <2>1, DispatchAssumption DEF StartWrite, TypeInv, SegShape,
         HInv, Books, Statuses, OneHolder, OneWorker
  <2>3. /\ wtask' = wtask
        /\ wpc'[w] = IF Exists(t) THEN "handling" ELSE "closing"
        /\ \A v \in Workers \ {w} : wpc'[v] = wpc[v]
    BY <1>23, <2>1 DEF StartWrite, Goto, TypeInv, WorkerType
  <2>4. /\ status'[t] = IF Exists(t) THEN "running" ELSE status[t]
        /\ \A u \in Tasks \ {t} : status'[u] = status[u]
    BY <1>23, <2>1 DEF StartWrite, UpdateStatus, SetStatus, TypeInv, RowType
  <2>5. Fate' = Fate
    BY <2>2, <2>4, FateKept DEF FateOf, Final, Exists
  <2>6. CASE Exists(t)
    <3>1. Fate[t] = "open"
      BY <2>2, <2>6 DEF Fate, FateOf, Exists
    <3>2. Exec[t] = {}
      BY <2>2 DEF Exec, Executes, Executing
    <3>3. \A v \in Workers, u \in Tasks :
             Executes(v, u)' <=> Executes(v, u) \/ (v = w /\ u = t)
      BY <2>2, <2>3, <2>6 DEF Executes, Executing
    <3>4. Exec' = [Exec EXCEPT ![t] = {w}]
      <4>1. \A u \in Tasks : {v \in Workers : Executes(v, u)'} = IF u = t THEN {w} ELSE {v \in Workers : Executes(v, u)}
        BY <2>2, <3>2, <3>3 DEF Exec
      <4> QED  BY <4>1 DEF Exec
    <3>5. Execution!Start(t, w)
      BY <2>5, <3>1, <3>2, <3>4 DEF Execution!Start, Exec, Fate, Executes,
           FateOf, Exists
    <3> QED  BY <3>5 DEF Execution!Next
  <2>7. CASE ~ Exists(t)
    <3>1. \A v \in Workers, u \in Tasks : Executes(v, u)' <=> Executes(v, u)
      BY <2>2, <2>3, <2>7 DEF Executes, Executing
    <3> QED  BY <2>5, <3>1, ExecKept, Unmoved
  <2> QED  BY <2>6, <2>7
<1>24. ASSUME NEW w \in Workers, Renew(w)  PROVE [Execution!Next]_(Execution!vars)
  <2>1. Exec' = Exec
    <3>1. \A v \in Workers, u \in Tasks : Executes(v, u)' <=> Executes(v, u)
      BY <1>24 DEF Renew, Executes
    <3> QED  BY <3>1, ExecKept
  <2>2. Fate' = Fate
    <3>1. status' = status
      BY <1>24 DEF Renew
    <3> QED  BY <3>1, FateKept
  <2> QED  BY <2>1, <2>2, Unmoved
<1>25. ASSUME NEW w \in Workers, AskInput(w)  PROVE [Execution!Next]_(Execution!vars)
  <2>1. Exec' = Exec
    <3>1. \A v \in Workers, u \in Tasks : Executes(v, u)' <=> Executes(v, u)
      BY <1>25 DEF AskInput, Goto, Executes, Executing
    <3> QED  BY <3>1, ExecKept
  <2>2. PICK t \in Tasks : t = wtask[w]
    BY <1>25 DEF AskInput, TypeInv, WorkerShape, Executing
  <2>3. /\ Exists(t) /\ status'[t] = "waiting_input"
        /\ \A u \in Tasks \ {t} : status'[u] = status[u]
    BY <1>25, <2>2 DEF AskInput, SetStatus, TypeInv, RowType
  <2>4. CASE Fate[t] = "final"
    <3>1. Fate' = [Fate EXCEPT ![t] = "open"]
      BY <2>3, FateChanged DEF FateOf, Final
    <3>2. Exec[t] # {}
      BY <1>25, <2>2 DEF AskInput, Exec, Executes
    <3>3. Execution!Reopen(t)
      BY <2>1, <2>4, <3>1, <3>2 DEF Execution!Reopen, Exec, Fate, Executes,
           FateOf, Exists
    <3> QED  BY <3>3 DEF Execution!Next
  <2>5. CASE Fate[t] # "final"
    <3>1. Fate' = Fate
      BY <2>3, <2>5, FateKept DEF Fate, FateOf, Final, Exists
    <3> QED  BY <2>1, <3>1, Unmoved
  <2> QED  BY <2>4, <2>5
<1>26. ASSUME NEW w \in Workers, NEW s \in Final \cup Waiting, Outcome(w, s)  PROVE [Execution!Next]_(Execution!vars)
  <2>1. PICK t \in Tasks : t = wtask[w]
    BY <1>26 DEF Outcome, TypeInv, WorkerShape, Executing
  <2>2. /\ wpc[w] \in Executing
        /\ \A v \in Workers \ {w} : wtask[v] # t
    BY <1>26, <2>1, DispatchAssumption DEF Outcome, Executing, HInv,
         OneHolder, OneWorker
  <2>3. /\ wtask' = wtask /\ wpc'[w] = "closing"
        /\ \A v \in Workers \ {w} : wpc'[v] = wpc[v]
    BY <1>26 DEF Outcome, Goto, TypeInv, WorkerType
  <2>4. /\ status'[t] = IF Exists(t) THEN s ELSE status[t]
        /\ \A u \in Tasks \ {t} : status'[u] = status[u]
    BY <1>26, <2>1 DEF Outcome, UpdateStatus, SetStatus, TypeInv, RowType
  <2>5. Exec[t] # {}
    BY <2>1, <2>2 DEF Exec, Executes
  <2>6. Exec' = [Exec EXCEPT ![t] = {}]
    <3>1. \A v \in Workers, u \in Tasks : Executes(v, u)' <=> Executes(v, u) /\ u # t
      BY <2>1, <2>2, <2>3 DEF Executes, Executing
    <3>2. \A u \in Tasks : {v \in Workers : Executes(v, u)'} = IF u = t THEN {} ELSE {v \in Workers : Executes(v, u)}
      BY <3>1
    <3> QED  BY <3>2 DEF Exec
  <2>7. Fate' = [Fate EXCEPT ![t] = FateOf(status'[t])]
    BY <2>4, FateChanged
  <2>8. PICK f \in Execution!Fates : f = FateOf(status'[t]) /\ (f = "absent" <=> Fate[t] = "absent")
    BY <2>4 DEF Fate, FateOf, Exists, Final, Waiting, Execution!Fates
  <2>9. Execution!End(t, f)
    BY <2>5, <2>6, <2>7, <2>8 DEF Execution!End, Exec, Fate, Executes, FateOf,
         Exists
  <2> QED  BY <2>9 DEF Execution!Next
<1>27. ASSUME NEW w \in Workers, Close(w)  PROVE [Execution!Next]_(Execution!vars)
  <2>1. Exec' = Exec
    <3>1. \A v \in Workers, u \in Tasks : Executes(v, u)' <=> Executes(v, u)
      BY <1>27 DEF Close, FreeWorkers, Goto, Executes, Executing, TypeInv,
           WorkerType
    <3> QED  BY <3>1, ExecKept
  <2>2. Fate' = Fate
    <3>1. status' = status
      BY <1>27 DEF Close, rowVars
    <3> QED  BY <3>1, FateKept
  <2> QED  BY <2>1, <2>2, Unmoved
<1>28. ASSUME NEW w \in Workers, Done(w)  PROVE [Execution!Next]_(Execution!vars)
  <2>1. Exec' = Exec
    <3>1. \A v \in Workers, u \in Tasks : Executes(v, u)' <=> Executes(v, u)
      BY <1>28 DEF Done, FreeWorkers, Executes, Executing
    <3> QED  BY <3>1, ExecKept
  <2>2. Fate' = Fate
    <3>1. status' = status
      BY <1>28 DEF Done
    <3> QED  BY <3>1, FateKept
  <2> QED  BY <2>1, <2>2, Unmoved
<1>29. ASSUME Tick  PROVE [Execution!Next]_(Execution!vars)
  <2>1. Exec' = Exec
    <3>1. \A v \in Workers, u \in Tasks : Executes(v, u)' <=> Executes(v, u)
      BY <1>29 DEF Tick, Executes
    <3> QED  BY <3>1, ExecKept
  <2>2. Fate' = Fate
    <3>1. status' = status
      BY <1>29 DEF Tick
    <3> QED  BY <3>1, FateKept
  <2> QED  BY <2>1, <2>2, Unmoved
<1>30. CASE UNCHANGED vars
  <2>1. Exec' = Exec /\ Fate' = Fate
    BY <1>30 DEF vars, rowVars, workerVars, Exec, Fate, Executes
  <2> QED  BY <2>1, Unmoved
<1> QED
  BY <1>1, <1>2, <1>3, <1>4, <1>5, <1>6, <1>7, <1>8, <1>9, <1>10, <1>11,
       <1>12, <1>13, <1>14, <1>15, <1>16, <1>17, <1>18, <1>19, <1>20,
       <1>21, <1>22, <1>23, <1>24, <1>25, <1>26, <1>27, <1>28, <1>29, <1>30 DEF Next, Recovery,
       Requests, Segments, Runs

LEMMA InitImplements == Init => Execution!Init
BY DEF Init, Execution!Init, Executing, Exists

\* Without awkward schedules the dispatcher implements TaskExecution: one
\* execution at a time, started while the task is open, and only an execution
\* under way turns a final task into an open one.
THEOREM Implementation ==
  ASSUME Hazards = {}
  PROVE  Spec => ImplementsExecution
<1>1. TypeInv /\ HInv /\ [Next]_vars => [Execution!Next]_(Execution!vars)
  BY StepImplements
<1> QED
  BY <1>1, InitImplements, InitType, TypeStep, InitHolds, HoldersStep, PTL DEF
       Spec, ImplementsExecution, Execution!Spec
====

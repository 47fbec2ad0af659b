--------------------------- MODULE RunRecordsProofs ---------------------------
(***************************************************************************)
(* RunRecords: its types, one rerun for an approval, sessions that can be  *)
(* answered, records and artifacts of deleted tasks, ends that agree.      *)
(***************************************************************************)
EXTENDS RunRecords, FiniteSetTheorems, TLAPS

\* What was never used is as it was at first.
Blank(r) ==
    /\ ask[r] = "none" /\ copy[r] = "none" /\ reruns[r] = 0
    /\ art[r] = {} /\ mir[r] = {} /\ ~ disk[r] /\ ~ told[r]

UnusedIsBlank == \A r \in Runs : r \notin Used => Blank(r)

\* While the task is there, the record shows no other end than the task's; but a
\* run that asks for input after it was cancelled opens the task again.
RecordFollows ==
    ~ conf.fails => \A r \in Runs :
        HasTask(r) /\ rec[r] \in Final =>
            \/ task[r] = rec[r]
            \/ rec[r] = "cancelled" /\ task[r] \in Open \ {"waiting_approval"}

\* A run that is worked on, or that the session waits for, has not ended.
WorkedOnIsOpen ==
    ~ conf.fails => \A r \in Runs :
        Active(r) \/ (sstat = "waiting_input" /\ scur = r) =>
            task[r] \notin {"completed", "failed"} /\ rec[r] \notin {"completed", "failed"}

\* A record that is queued or running has a worker, and one that has not begun
\* goes to create the task.
RecordIsWorkedOn ==
    ~ conf.crash /\ ~ conf.fails => \A r \in Runs :
        rec[r] \in {"queued", "running"} =>
            /\ Active(r)
            /\ worker[r] = "scheduled" => ~ HasTask(r) /\ ~ told[r]

\* A worker that has begun has a record, ...
WorkersHaveRecords ==
    ~ conf.fails => \A r \in Runs : worker[r] \in {"running", "asked"} => HasRecord(r)

\* ... and a task as long as nobody told it to stop.
WorkersHaveTasks ==
    ~ conf.elsewhere => \A r \in Runs :
        worker[r] \in {"running", "asked"} /\ ~ told[r] => HasTask(r)

\* The approval a session waits for is open in both records.
WaitingIsOpen ==
    ~ conf.elsewhere /\ ~ conf.fails /\ ~ conf.api =>
        /\ sstat = "waiting_input" => scur # None /\ HasRecord(scur)
        /\ sstat = "waiting_approval" =>
              /\ scur # None /\ ~ Active(scur)
              /\ rec[scur] = "waiting_approval" /\ copy[scur] \in {"same", "other"}
              /\ HasTask(scur) => task[scur] = "waiting_approval" /\ ask[scur] = "requested"

Asked(r) == ask[r] # "none" \/ copy[r] # "none"

\* A run asks once: afterwards nobody works on it any more, or is going to.
AskedOnce ==
    \A r \in Runs : Asked(r) =>
        /\ ~ Active(r)
        /\ task[r] \notin {"queued", "running", "waiting_input"}
        /\ sstat = "waiting_input" => scur # r

\* What the copy of the request says of the answers.
CopyCounts ==
    ~ conf.fails => \A r \in Runs :
        /\ HasTask(r) /\ ask[r] # "none" => copy[r] # "none"
        /\ TaskOpen(r) => reruns[r] = 0
        /\ copy[r] \in {"none", "same"} => reruns[r] = 0
        /\ copy[r] # "late" => reruns[r] <= 1
        /\ copy[r] = "late" => reruns[r] <= 2 /\ ~ HasTask(r)
        /\ copy[r] # "none" /\ ~ HasTask(r) => r \in deleted

\* A run begins when one of its rows is written.
Begun(r) == HasTask(r) \/ HasRecord(r) \/ r \in deleted

\* A run that has not begun is as it was at first.
NotBegunIsBlank ==
    \A r \in Runs : ~ Begun(r) =>
        /\ ask[r] = "none" /\ copy[r] = "none" /\ reruns[r] = 0
        /\ art[r] = {} /\ mir[r] = {} /\ ~ disk[r]

\* Only a worker is told to stop, and one that runs has begun.
WorkersBegin ==
    \A r \in Runs :
        /\ told[r] => Active(r)
        /\ worker[r] \in {"running", "asked"} => Begun(r)

\* What the theorems rest on.
IInv ==
    /\ TypeOK
    /\ NotBegunIsBlank /\ WorkersBegin
    /\ RecordFollows /\ WorkedOnIsOpen
    /\ RecordIsWorkedOn /\ WorkersHaveRecords /\ WorkersHaveTasks
    /\ WaitingIsOpen
    /\ AskedOnce /\ CopyCounts
    /\ ListedIsThere

-----------------------------------------------------------------------------
(***************************************************************************)
(* What the actions do.                                                    *)
(***************************************************************************)
\* What can happen in an instance is chosen once.
LEMMA ConfIsFixed ==
  ASSUME [Next]_vars
  PROVE  conf' = conf
<1>1. ASSUME NEW r \in Runs, Begin(r)  PROVE conf' = conf
  BY <1>1 DEF Begin
<1>2. ASSUME NEW r \in Runs, Drop(r)  PROVE conf' = conf
  BY <1>2 DEF Drop
<1>3. ASSUME NEW r \in Runs, WriteFile(r)  PROVE conf' = conf
  BY <1>3 DEF WriteFile, workVars
<1>4. ASSUME NEW r \in Runs, AddRemoteArtifact(r)  PROVE conf' = conf
  BY <1>4 DEF AddRemoteArtifact, workVars
<1>5. ASSUME NEW r \in Runs, RequestInput(r)  PROVE conf' = conf
  BY <1>5 DEF RequestInput
<1>6. ASSUME NEW r \in Runs, Complete(r)  PROVE conf' = conf
  BY <1>6 DEF Complete, RegisterArtifacts, AddArtifact, MirrorArtifact, End
<1>7. ASSUME NEW r \in Runs, AwaitInput(r)  PROVE conf' = conf
  BY <1>7 DEF AwaitInput, RegisterArtifacts, AddArtifact, MirrorArtifact, End
<1>8. ASSUME NEW r \in Runs, Fail(r)  PROVE conf' = conf
  BY <1>8 DEF Fail, RegisterArtifacts, AddArtifact, MirrorArtifact, End
<1>9. ASSUME NEW r \in Runs, AwaitApproval(r)  PROVE conf' = conf
  BY <1>9 DEF AwaitApproval, End
<1>10. ASSUME NEW r \in Runs, Cancelled(r)  PROVE conf' = conf
  BY <1>10 DEF Cancelled, End
<1>11. ASSUME NEW r \in Runs, CancelTask(r)  PROVE conf' = conf
  BY <1>11 DEF CancelTask
<1>12. ASSUME NEW r \in Runs, AnswerTask(r)  PROVE conf' = conf
  BY <1>12 DEF AnswerTask
<1>13. ASSUME NEW r \in Runs, DeleteTask(r)  PROVE conf' = conf
  BY <1>13 DEF DeleteTask, Forget, CancelWorker
<1>14. ASSUME NEW r \in Runs, DeleteInterrupted(r)  PROVE conf' = conf
  BY <1>14 DEF DeleteInterrupted, Forget
<1>15. ASSUME NEW r \in Runs, Recover(r)  PROVE conf' = conf
  BY <1>15 DEF Recover
<1>16. ASSUME NEW r \in Runs, CancelRecord(r)  PROVE conf' = conf
  BY <1>16 DEF CancelRecord
<1>17. ASSUME NEW r \in Runs, CancelRun(r)  PROVE conf' = conf
  BY <1>17 DEF CancelRun, workVars
<1>18. ASSUME NEW r \in Runs, NEW st \in {"cancelled", "completed"},
             ResolveTask(r, st)
      PROVE  conf' = conf
  BY <1>18 DEF ResolveTask, workVars
<1>19. ASSUME NEW r \in Runs, NEW st \in {"cancelled", "completed"},
             ResolveRecord(r, st)
      PROVE  conf' = conf
  BY <1>19 DEF ResolveRecord, workVars
<1>20. ASSUME NEW r \in Runs, NEW n \in Runs, RetryTask(r, n)
      PROVE  conf' = conf
  BY <1>20 DEF RetryTask
<1>21. ASSUME NEW r \in Runs, NEW n \in Runs, RetryRecord(r, n)
      PROVE  conf' = conf
  BY <1>21 DEF RetryRecord
<1>22. ASSUME NEW r \in Runs, NEW n \in Runs, RetryRun(r, n)
      PROVE  conf' = conf
  BY <1>22 DEF RetryRun
<1>23. ASSUME NEW r \in Runs, NEW n \in Runs, RerunTask(r, n)
      PROVE  conf' = conf
  BY <1>23 DEF RerunTask
<1>24. ASSUME NEW r \in Runs, NEW n \in Runs, RerunRecord(r, n)
      PROVE  conf' = conf
  BY <1>24 DEF RerunRecord
<1>25. ASSUME NEW n \in Runs, Message(n)  PROVE conf' = conf
  BY <1>25 DEF Message
<1>26. ASSUME NEW n \in Runs, CreateTask(n)  PROVE conf' = conf
  BY <1>26 DEF CreateTask
<1>27. CASE Answer
  BY <1>27 DEF Answer
<1>28. CASE Archive
  BY <1>28 DEF Archive, workVars
<1>29. CASE Unarchive
  BY <1>29 DEF Unarchive, workVars
<1>30. CASE Crash
  BY <1>30 DEF Crash
<1>31. CASE UNCHANGED vars
  BY <1>31 DEF vars, workVars
<1> QED
  BY <1>1, <1>2, <1>3, <1>4, <1>5, <1>6, <1>7, <1>8, <1>9, <1>10, <1>11,
       <1>12, <1>13, <1>14, <1>15, <1>16, <1>17, <1>18, <1>19, <1>20, <1>21,
       <1>22, <1>23, <1>24, <1>25, <1>26, <1>27, <1>28, <1>29, <1>30, <1>31
       DEF Next, Worker, About

\* What the actions do to the rows, the answers and the workers: a worker that
\* starts.
LEMMA BeginEffect ==
  ASSUME NEW r \in Runs, Begin(r)
  PROVE  /\ worker[r] = "scheduled" /\ ~ told[r]
         /\ ask' = ask /\ copy' = copy /\ reruns' = reruns /\ deleted' = deleted
         /\ \/ /\ task[r] \in Final /\ Stop(r)
               /\ sstat' = sstat /\ scur' = scur /\ task' = task /\ rec' = rec
            \/ /\ task[r] \notin Final /\ sstat' = "running" /\ scur' = r
               /\ task' = [task EXCEPT ![r] = "running"]
               /\ ~ conf.fails => rec' = [rec EXCEPT ![r] = "running"]
               /\ worker' = [worker EXCEPT ![r] = "running"] /\ told' = told
<1> QED  BY DEF Begin, Copied, UpdateSession, sessVars, rowVars, eventVars,
     history

\* A cancelled run ends in both records, when it was open.
LEMMA CancelRunEffect ==
  ASSUME TypeOK, NEW r \in Runs, CancelRun(r)
  PROVE  /\ HasTask(r)
         /\ ask' = ask /\ copy' = copy /\ reruns' = reruns /\ deleted' = deleted
         /\ IF scur = r THEN sstat' = "idle" /\ scur' = None ELSE sstat' = sstat /\ scur' = scur
         /\ \/ /\ task[r] \in Open /\ task' = With(task, r, "cancelled") /\ CancelWorker(r)
               /\ ~ conf.fails => rec' = With(rec, r, "cancelled")
            \/ /\ task[r] \notin Open /\ task' = task /\ worker' = worker /\ told' = told
               /\ ~ conf.fails =>
                     rec' = IF task[r] = "cancelled" THEN With(rec, r, "cancelled") ELSE rec
<1>1. /\ HasTask(r)
      /\ ask' = ask /\ copy' = copy /\ reruns' = reruns /\ deleted' = deleted
      /\ IF scur = r THEN sstat' = "idle" /\ scur' = None ELSE sstat' = sstat /\ scur' = scur
      /\ ~ conf.fails => IF task'[r] = "cancelled" THEN rec' = With(rec, r, "cancelled") ELSE rec' = rec
  BY DEF CancelRun, Synced, Copied, UpdateSession, TaskEvents, sessVars,
       eventVars, history
<1>2. CASE task[r] \in Open
  <2>1. task' = With(task, r, "cancelled") /\ CancelWorker(r)
    BY <1>2 DEF CancelRun
  <2>2. task'[r] = "cancelled"
    BY <1>1, <2>1 DEF With, HasTask, TypeOK
  <2> QED  BY <1>1, <1>2, <2>1, <2>2
<1>3. CASE task[r] \notin Open
  BY <1>1, <1>3 DEF CancelRun, workVars
<1> QED  BY <1>2, <1>3

\* A rejected or confirmed request ends its run only while the run waits for
\* it.
LEMMA ResolveTaskEffect ==
  ASSUME NEW r \in Runs, NEW st \in {"cancelled", "completed"}, ResolveTask(r,
         st)
  PROVE  /\ TaskOpen(r) /\ worker' = worker /\ told' = told
         /\ ask' = [ask EXCEPT ![r] = "resolved"] /\ reruns' = reruns /\ deleted' = deleted
         /\ Answered(r) \/ copy' = copy
         /\ ~ conf.fails => Answered(r)
         /\ IF task[r] = "waiting_approval"
            THEN /\ task' = With(task, r, st)
                 /\ ~ conf.fails => rec' = With(rec, r, st)
                 /\ IF scur = r THEN sstat' = "idle" /\ scur' = None
                    ELSE sstat' = sstat /\ scur' = scur
            ELSE task' = task /\ rec' = rec /\ sstat' = sstat /\ scur' = scur
<1> QED  BY DEF ResolveTask, Synced, Copied, UpdateSession, rowVars, sessVars,
     workVars, history

\* The run that is answered is queued in one of the records.
LEMMA AnswerEffect ==
  ASSUME TypeOK, Answer
  PROVE  /\ scur \in Runs /\ ~ Active(scur) /\ Start(scur)
         /\ sstat = "waiting_input" /\ sstat' = "running" /\ scur' = scur
         /\ ask' = ask /\ copy' = copy /\ reruns' = reruns /\ deleted' = deleted
         /\ \/ /\ HasTask(scur) /\ rec' = rec
               /\ task' = IF task[scur] = "waiting_input" THEN With(task, scur, "queued") ELSE task
            \/ /\ ~ HasTask(scur) /\ HasRecord(scur) /\ task' = task
               /\ rec' = With(rec, scur, "queued")
<1> QED  BY DEF Answer, ResumeTask, ResumeRecord, TaskEvents, UpdateSession,
     history, TypeOK

\* An archived session cancels its run.
LEMMA ArchiveEffect ==
  ASSUME TypeOK, Archive
  PROVE  /\ sstat' = "archived" /\ scur' = None
         /\ ask' = ask /\ copy' = copy /\ reruns' = reruns /\ deleted' = deleted
         /\ \/ task' = task /\ rec' = rec /\ worker' = worker /\ told' = told
            \/ /\ scur \in Runs /\ Shown(scur) \in Open /\ CancelWorker(scur)
               /\ ~ conf.fails => rec' = With(rec, scur, "cancelled")
               /\ task' = IF HasTask(scur) THEN With(task, scur, "cancelled") ELSE task
<1> QED  BY DEF Archive, UpdateSession, Synced, Copied, TaskEvents, RunEvents,
     rowVars, workVars, eventVars, history, TypeOK

\* The tool that asks the user opens the task.
LEMMA RequestInputEffect ==
  ASSUME NEW r \in Runs, RequestInput(r)
  PROVE  /\ Works(r) /\ HasTask(r) /\ rec' = rec /\ told' = told /\ sstat' = sstat /\ scur' = scur
         /\ task' = With(task, r, "waiting_input") /\ worker' = [worker EXCEPT ![r] = "asked"]
         /\ ask' = ask /\ copy' = copy /\ reruns' = reruns /\ deleted' = deleted
<1> QED  BY DEF RequestInput, TaskEvents, sessVars, history

\* A file is registered in both tables, or in none.
LEMMA RegisterEffect ==
  ASSUME NEW r \in Runs, RegisterArtifacts(r), ~ conf.fails
  PROVE  /\ disk' = disk
         /\ \/ art' = art /\ mir' = mir
            \/ /\ HasTask(r) /\ disk[r]
               /\ art' = [art EXCEPT ![r] = @ \cup {"local"}]
               /\ mir' = [mir EXCEPT ![r] = @ \cup {"local"}]
<1> QED  BY DEF RegisterArtifacts, Unregistered, AddArtifact, MirrorArtifact,
     Copied, fileVars

-----------------------------------------------------------------------------
(***************************************************************************)
(* Runs that have not begun.                                               *)
(***************************************************************************)
\* What was never used has not begun and has no worker.
LEMMA Unused ==
  ASSUME NotBegunIsBlank, WorkersBegin
  PROVE  UnusedIsBlank
<1> QED  BY DEF UnusedIsBlank, NotBegunIsBlank, WorkersBegin, Blank, Begun,
     Used

\* A run that has begun leaves a row, or is known to be deleted.
LEMMA BegunStays ==
  ASSUME TypeOK, NEW i \in Runs, Begun(i), [Next]_vars
  PROVE  Begun(i)'
<1>1. ASSUME NEW r \in Runs, Begin(r)  PROVE Begun(i)'
  BY <1>1, RecordsAssumption DEF Begin, Begun, Stop, UpdateSession, Copied,
       With, sessVars, rowVars, eventVars, fileVars, history, HasTask,
       HasRecord, Final, Status, Open, TypeOK
<1>2. ASSUME NEW r \in Runs, Drop(r)  PROVE Begun(i)'
  BY <1>2, RecordsAssumption DEF Drop, Begun, rowVars, history, HasTask,
       HasRecord, TypeOK
<1>3. ASSUME NEW r \in Runs, WriteFile(r)  PROVE Begun(i)'
  BY <1>3, RecordsAssumption DEF WriteFile, Begun, rowVars, workVars, history,
       HasTask, HasRecord, TypeOK
<1>4. ASSUME NEW r \in Runs, AddRemoteArtifact(r)  PROVE Begun(i)'
  BY <1>4, RecordsAssumption DEF AddRemoteArtifact, Begun, AddArtifact,
       MirrorArtifact, rowVars, workVars, history, HasTask, HasRecord, TypeOK
<1>5. ASSUME NEW r \in Runs, RequestInput(r)  PROVE Begun(i)'
  BY <1>5, RecordsAssumption DEF RequestInput, Begun, With, history, HasTask,
       HasRecord, TypeOK
<1>6. ASSUME NEW r \in Runs, Complete(r)  PROVE Begun(i)'
  BY <1>6, RecordsAssumption DEF Complete, Begun, RegisterArtifacts,
       AddArtifact, MirrorArtifact, End, Synced, With, history, HasTask,
       HasRecord, TypeOK
<1>7. ASSUME NEW r \in Runs, AwaitInput(r)  PROVE Begun(i)'
  BY <1>7, RecordsAssumption DEF AwaitInput, Begun, RegisterArtifacts,
       AddArtifact, MirrorArtifact, End, Synced, With, history, HasTask,
       HasRecord, TypeOK
<1>8. ASSUME NEW r \in Runs, Fail(r)  PROVE Begun(i)'
  BY <1>8, RecordsAssumption DEF Fail, Begun, RegisterArtifacts, AddArtifact,
       MirrorArtifact, End, Synced, With, history, HasTask, HasRecord, TypeOK
<1>9. ASSUME NEW r \in Runs, AwaitApproval(r)  PROVE Begun(i)'
  BY <1>9, RecordsAssumption DEF AwaitApproval, Begun, End, Synced, With,
       history, HasTask, HasRecord, TypeOK
<1>10. ASSUME NEW r \in Runs, Cancelled(r)  PROVE Begun(i)'
  BY <1>10, RecordsAssumption DEF Cancelled, Begun, End, Synced, With,
       history, HasTask, HasRecord, TypeOK
<1>11. ASSUME NEW r \in Runs, CancelTask(r)  PROVE Begun(i)'
  BY <1>11, RecordsAssumption DEF CancelTask, Begun, With, CancelWorker,
       history, HasTask, HasRecord, TypeOK
<1>12. ASSUME NEW r \in Runs, AnswerTask(r)  PROVE Begun(i)'
  BY <1>12, RecordsAssumption DEF AnswerTask, Begun, With, history, HasTask,
       HasRecord, TypeOK
<1>13. ASSUME NEW r \in Runs, DeleteTask(r)  PROVE Begun(i)'
  BY <1>13, RecordsAssumption DEF DeleteTask, Begun, Forget, CancelWorker,
       HasTask, HasRecord, TypeOK
<1>14. ASSUME NEW r \in Runs, DeleteInterrupted(r)  PROVE Begun(i)'
  BY <1>14, RecordsAssumption DEF DeleteInterrupted, Begun, Forget, HasTask,
       HasRecord, TypeOK
<1>15. ASSUME NEW r \in Runs, Recover(r)  PROVE Begun(i)'
  BY <1>15, RecordsAssumption DEF Recover, Begun, With, history, HasTask,
       HasRecord, TypeOK
<1>16. ASSUME NEW r \in Runs, CancelRecord(r)  PROVE Begun(i)'
  BY <1>16, RecordsAssumption DEF CancelRecord, Begun, With, CancelWorker,
       history, HasTask, HasRecord, TypeOK
<1>17. ASSUME NEW r \in Runs, CancelRun(r)  PROVE Begun(i)'
  BY <1>17, RecordsAssumption DEF CancelRun, Begun, With, CancelWorker,
       TaskEvents, Copied, Synced, UpdateSession, sessVars, eventVars,
       workVars, fileVars, history, HasTask, HasRecord, Final, Status, Open,
       TypeOK
<1>18. ASSUME NEW r \in Runs, NEW st \in {"cancelled", "completed"},
             ResolveTask(r, st)
      PROVE  Begun(i)'
  BY <1>18, RecordsAssumption DEF ResolveTask, Begun, TaskOpen, Answered,
       With, Synced, Copied, UpdateSession, sessVars, rowVars, fileVars,
       workVars, history, HasTask, HasRecord, Final, Status, Open, TypeOK
<1>19. ASSUME NEW r \in Runs, NEW st \in {"cancelled", "completed"},
             ResolveRecord(r, st)
      PROVE  Begun(i)'
  BY <1>19, RecordsAssumption DEF ResolveRecord, Begun, With, workVars,
       history, HasTask, HasRecord, TypeOK
<1>20. ASSUME NEW r \in Runs, NEW n \in Runs, RetryTask(r, n)  PROVE Begun(i)'
  BY <1>20, RecordsAssumption DEF RetryTask, Begun, NewTask, history, HasTask,
       HasRecord, TypeOK
<1>21. ASSUME NEW r \in Runs, NEW n \in Runs, RetryRecord(r, n)
      PROVE  Begun(i)'
  BY <1>21, RecordsAssumption DEF RetryRecord, Begun, history, HasTask,
       HasRecord, TypeOK
<1>22. ASSUME NEW r \in Runs, NEW n \in Runs, RetryRun(r, n)  PROVE Begun(i)'
  BY <1>22, RecordsAssumption DEF RetryRun, Begun, NewTask, history, HasTask,
       HasRecord, TypeOK
<1>23. ASSUME NEW r \in Runs, NEW n \in Runs, RerunTask(r, n)  PROVE Begun(i)'
  BY <1>23, RecordsAssumption DEF RerunTask, Begun, HasTask, HasRecord, TypeOK
<1>24. ASSUME NEW r \in Runs, NEW n \in Runs, RerunRecord(r, n)
      PROVE  Begun(i)'
  BY <1>24, RecordsAssumption DEF RerunRecord, Begun, HasTask, HasRecord,
       TypeOK
<1>25. ASSUME NEW n \in Runs, Message(n)  PROVE Begun(i)'
  BY <1>25, RecordsAssumption DEF Message, Begun, rowVars, history, HasTask,
       HasRecord, TypeOK
<1>26. ASSUME NEW n \in Runs, CreateTask(n)  PROVE Begun(i)'
  BY <1>26, RecordsAssumption DEF CreateTask, Begun, NewTask, history,
       HasTask, HasRecord, TypeOK
<1>27. CASE Answer
  BY <1>27, RecordsAssumption DEF Answer, ResumeTask, ResumeRecord, With,
       TaskEvents, RunEvents, Copied, UpdateSession, Start, fileVars, history,
       Begun, HasTask, HasRecord, Final, Status, Open, TypeOK
<1>28. CASE Archive
  BY <1>28, RecordsAssumption DEF Archive, UpdateSession, Shown, CancelWorker,
       With, Synced, TaskEvents, RunEvents, Copied, rowVars, eventVars,
       workVars, fileVars, history, Begun, HasTask, HasRecord, Final, Status,
       Open, TypeOK
<1>29. CASE Unarchive
  BY <1>29, RecordsAssumption DEF Unarchive, rowVars, workVars, history,
       Begun, HasTask, HasRecord, TypeOK
<1>30. CASE Crash
  BY <1>30, RecordsAssumption DEF Crash, rowVars, history, Begun, HasTask,
       HasRecord, TypeOK
<1>31. CASE UNCHANGED vars
  BY <1>31, RecordsAssumption DEF vars, rowVars, workVars, history, Begun,
       HasTask, HasRecord, TypeOK
<1> QED
  BY <1>1, <1>2, <1>3, <1>4, <1>5, <1>6, <1>7, <1>8, <1>9, <1>10, <1>11,
       <1>12, <1>13, <1>14, <1>15, <1>16, <1>17, <1>18, <1>19, <1>20, <1>21,
       <1>22, <1>23, <1>24, <1>25, <1>26, <1>27, <1>28, <1>29, <1>30, <1>31
       DEF Next, Worker, About

\* A worker that runs has begun its run.
LEMMA BeginStep ==
  ASSUME TypeOK, WorkersBegin, [Next]_vars
  PROVE  WorkersBegin'
<1>1. ASSUME NEW r \in Runs, Begin(r)  PROVE WorkersBegin'
  BY <1>1, BeginEffect, BegunStays DEF WorkersBegin, Stop, Begun, Active,
       HasTask, HasRecord, TypeOK
<1>2. ASSUME NEW r \in Runs, Drop(r)  PROVE WorkersBegin'
  BY <1>2, BegunStays, RecordsAssumption DEF Drop, WorkersBegin, Stop, Begun,
       Active, HasTask, HasRecord, TypeOK
<1>3. ASSUME NEW r \in Runs, WriteFile(r)  PROVE WorkersBegin'
  BY <1>3, BegunStays, RecordsAssumption DEF WriteFile, WorkersBegin,
       workVars, Begun, Active, HasTask, HasRecord, TypeOK
<1>4. ASSUME NEW r \in Runs, AddRemoteArtifact(r)  PROVE WorkersBegin'
  BY <1>4, BegunStays, RecordsAssumption DEF AddRemoteArtifact, WorkersBegin,
       AddArtifact, MirrorArtifact, workVars, Begun, Active, HasTask,
       HasRecord, TypeOK
<1>5. ASSUME NEW r \in Runs, RequestInput(r)  PROVE WorkersBegin'
  BY <1>5, BegunStays, RecordsAssumption DEF RequestInput, WorkersBegin,
       Begun, Active, HasTask, HasRecord, TypeOK
<1>6. ASSUME NEW r \in Runs, Complete(r)  PROVE WorkersBegin'
  BY <1>6, BegunStays, RecordsAssumption DEF Complete, WorkersBegin,
       RegisterArtifacts, AddArtifact, MirrorArtifact, End, Stop, Begun,
       Active, HasTask, HasRecord, TypeOK
<1>7. ASSUME NEW r \in Runs, AwaitInput(r)  PROVE WorkersBegin'
  BY <1>7, BegunStays, RecordsAssumption DEF AwaitInput, WorkersBegin,
       RegisterArtifacts, AddArtifact, MirrorArtifact, End, Stop, Begun,
       Active, HasTask, HasRecord, TypeOK
<1>8. ASSUME NEW r \in Runs, Fail(r)  PROVE WorkersBegin'
  BY <1>8, BegunStays, RecordsAssumption DEF Fail, WorkersBegin,
       RegisterArtifacts, AddArtifact, MirrorArtifact, End, Stop, Begun,
       Active, HasTask, HasRecord, TypeOK
<1>9. ASSUME NEW r \in Runs, AwaitApproval(r)  PROVE WorkersBegin'
  BY <1>9, BegunStays, RecordsAssumption DEF AwaitApproval, WorkersBegin, End,
       Stop, Begun, Active, HasTask, HasRecord, TypeOK
<1>10. ASSUME NEW r \in Runs, Cancelled(r)  PROVE WorkersBegin'
  BY <1>10, BegunStays, RecordsAssumption DEF Cancelled, WorkersBegin, End,
       Stop, Begun, Active, HasTask, HasRecord, TypeOK
<1>11. ASSUME NEW r \in Runs, CancelTask(r)  PROVE WorkersBegin'
  BY <1>11, BegunStays, RecordsAssumption DEF CancelTask, WorkersBegin,
       CancelWorker, Begun, Active, HasTask, HasRecord, TypeOK
<1>12. ASSUME NEW r \in Runs, AnswerTask(r)  PROVE WorkersBegin'
  BY <1>12, BegunStays, RecordsAssumption DEF AnswerTask, WorkersBegin, Start,
       Begun, Active, HasTask, HasRecord, TypeOK
<1>13. ASSUME NEW r \in Runs, DeleteTask(r)  PROVE WorkersBegin'
  BY <1>13, BegunStays, RecordsAssumption DEF DeleteTask, WorkersBegin,
       CancelWorker, Begun, Active, HasTask, HasRecord, TypeOK
<1>14. ASSUME NEW r \in Runs, DeleteInterrupted(r)  PROVE WorkersBegin'
  BY <1>14, BegunStays, RecordsAssumption DEF DeleteInterrupted, WorkersBegin,
       Gone, Begun, HasTask, HasRecord, TypeOK
<1>15. ASSUME NEW r \in Runs, Recover(r)  PROVE WorkersBegin'
  BY <1>15, BegunStays, RecordsAssumption DEF Recover, WorkersBegin, Start,
       Begun, Active, HasTask, HasRecord, TypeOK
<1>16. ASSUME NEW r \in Runs, CancelRecord(r)  PROVE WorkersBegin'
  BY <1>16, BegunStays, RecordsAssumption DEF CancelRecord, WorkersBegin,
       CancelWorker, Begun, Active, HasTask, HasRecord, TypeOK
<1>17. ASSUME NEW r \in Runs, CancelRun(r)  PROVE WorkersBegin'
  BY <1>17, BegunStays, RecordsAssumption DEF CancelRun, WorkersBegin, With,
       CancelWorker, TaskEvents, Copied, Synced, UpdateSession, sessVars,
       eventVars, workVars, fileVars, history, Begun, Active, Works, HasTask,
       HasRecord, Final, Status, Open, TypeOK
<1>18. ASSUME NEW r \in Runs, NEW st \in {"cancelled", "completed"},
             ResolveTask(r, st)
      PROVE  WorkersBegin'
  BY <1>18, BegunStays, RecordsAssumption DEF ResolveTask, WorkersBegin,
       workVars, Begun, Active, HasTask, HasRecord, TypeOK
<1>19. ASSUME NEW r \in Runs, NEW st \in {"cancelled", "completed"},
             ResolveRecord(r, st)
      PROVE  WorkersBegin'
  BY <1>19, BegunStays, RecordsAssumption DEF ResolveRecord, WorkersBegin,
       workVars, Begun, Active, HasTask, HasRecord, TypeOK
<1>20. ASSUME NEW r \in Runs, NEW n \in Runs, RetryTask(r, n)
      PROVE  WorkersBegin'
  BY <1>20, BegunStays, RecordsAssumption DEF RetryTask, WorkersBegin,
       NewTask, Start, Begun, Active, HasTask, HasRecord, TypeOK
<1>21. ASSUME NEW r \in Runs, NEW n \in Runs, RetryRecord(r, n)
      PROVE  WorkersBegin'
  BY <1>21, BegunStays, RecordsAssumption DEF RetryRecord, WorkersBegin,
       NewRecord, Start, Begun, Active, HasTask, HasRecord, TypeOK
<1>22. ASSUME NEW r \in Runs, NEW n \in Runs, RetryRun(r, n)
      PROVE  WorkersBegin'
  BY <1>22, BegunStays, RecordsAssumption DEF RetryRun, WorkersBegin, NewTask,
       Start, Begun, Active, HasTask, HasRecord, TypeOK
<1>23. ASSUME NEW r \in Runs, NEW n \in Runs, RerunTask(r, n)
      PROVE  WorkersBegin'
  BY <1>23, BegunStays, RecordsAssumption DEF RerunTask, WorkersBegin, Shown,
       Start, Begun, Active, HasTask, HasRecord, TypeOK
<1>24. ASSUME NEW r \in Runs, NEW n \in Runs, RerunRecord(r, n)
      PROVE  WorkersBegin'
  BY <1>24, BegunStays, RecordsAssumption DEF RerunRecord, WorkersBegin,
       Shown, NewRecord, Start, Begun, Active, HasTask, HasRecord, TypeOK
<1>25. ASSUME NEW n \in Runs, Message(n)  PROVE WorkersBegin'
  BY <1>25, BegunStays, RecordsAssumption DEF Message, WorkersBegin, Start,
       Begun, Active, HasTask, HasRecord, TypeOK
<1>26. ASSUME NEW n \in Runs, CreateTask(n)  PROVE WorkersBegin'
  BY <1>26, BegunStays, RecordsAssumption DEF CreateTask, WorkersBegin,
       NewTask, Start, Begun, Active, HasTask, HasRecord, TypeOK
<1>27. CASE Answer
  BY <1>27, BegunStays, RecordsAssumption DEF Answer, ResumeRecord, Start,
       Begun, WorkersBegin, Active, HasTask, HasRecord, TypeOK
<1>28. CASE Archive
  BY <1>28, BegunStays, RecordsAssumption DEF Archive, UpdateSession, Shown,
       CancelWorker, With, Synced, TaskEvents, RunEvents, Copied, rowVars,
       eventVars, workVars, fileVars, history, Begun, WorkersBegin, Active,
       Works, HasTask, HasRecord, Final, Status, Open, TypeOK
<1>29. CASE Unarchive
  BY <1>29, BegunStays, RecordsAssumption DEF Unarchive, workVars, Begun,
       WorkersBegin, Active, HasTask, HasRecord, TypeOK
<1>30. CASE Crash
  BY <1>30, BegunStays, RecordsAssumption DEF Crash, Gone, Begun,
       WorkersBegin, HasTask, HasRecord, TypeOK
<1>31. CASE UNCHANGED vars
  BY <1>31, BegunStays, RecordsAssumption DEF vars, workVars, Begun,
       WorkersBegin, Active, HasTask, HasRecord, TypeOK
<1> QED
  BY <1>1, <1>2, <1>3, <1>4, <1>5, <1>6, <1>7, <1>8, <1>9, <1>10, <1>11,
       <1>12, <1>13, <1>14, <1>15, <1>16, <1>17, <1>18, <1>19, <1>20, <1>21,
       <1>22, <1>23, <1>24, <1>25, <1>26, <1>27, <1>28, <1>29, <1>30, <1>31
       DEF Next, Worker, About

\* Nothing is asked, counted or written for a run that has not begun.
LEMMA BlankStep ==
  ASSUME TypeOK, NotBegunIsBlank, WorkersBegin, [Next]_vars
  PROVE  NotBegunIsBlank'
<1>1. ASSUME NEW r \in Runs, Begin(r)  PROVE NotBegunIsBlank'
  BY <1>1, BegunStays DEF Begin, NotBegunIsBlank, Stop, UpdateSession, Copied,
       With, sessVars, rowVars, eventVars, fileVars, history, WorkersBegin,
       Begun, Active, Works, HasTask, HasRecord, Final, Status, Open, TypeOK
<1>2. ASSUME NEW r \in Runs, Drop(r)  PROVE NotBegunIsBlank'
  BY <1>2, BegunStays DEF Drop, NotBegunIsBlank, eventVars, fileVars, history,
       WorkersBegin, Begun, HasTask, HasRecord, TypeOK
<1>3. ASSUME NEW r \in Runs, WriteFile(r)  PROVE NotBegunIsBlank'
  BY <1>3, BegunStays DEF WriteFile, NotBegunIsBlank, Works, eventVars,
       workVars, history, WorkersBegin, Begun, HasTask, HasRecord, TypeOK
<1>4. ASSUME NEW r \in Runs, AddRemoteArtifact(r)  PROVE NotBegunIsBlank'
  BY <1>4, BegunStays DEF AddRemoteArtifact, NotBegunIsBlank, AddArtifact,
       MirrorArtifact, TaskEvents, workVars, history, WorkersBegin, Begun,
       HasTask, HasRecord, TypeOK
<1>5. ASSUME NEW r \in Runs, RequestInput(r)  PROVE NotBegunIsBlank'
  BY <1>5, BegunStays DEF RequestInput, NotBegunIsBlank, TaskEvents, fileVars,
       history, WorkersBegin, Begun, HasTask, HasRecord, TypeOK
<1>6. ASSUME NEW r \in Runs, Complete(r)  PROVE NotBegunIsBlank'
  <2>1. ask' = ask /\ copy' = copy /\ reruns' = reruns
    BY <1>6 DEF Complete, End, TaskEvents, history
  <2>2. HasTask(r) \/ (art' = art /\ mir' = mir /\ disk' = disk)
    BY <1>6 DEF Complete, RegisterArtifacts, AddArtifact, fileVars
  <2>3. disk' = disk
    BY <1>6 DEF Complete, RegisterArtifacts, AddArtifact, fileVars
  <2>4. \A i \in Runs : i # r => art'[i] = art[i] /\ mir'[i] = mir[i]
    BY <1>6 DEF Complete, RegisterArtifacts, AddArtifact, MirrorArtifact,
         fileVars, TypeOK
  <2> QED  BY <2>1, <2>2, <2>3, <2>4, BegunStays DEF NotBegunIsBlank, Begun
<1>7. ASSUME NEW r \in Runs, AwaitInput(r)  PROVE NotBegunIsBlank'
  <2>1. ask' = ask /\ copy' = copy /\ reruns' = reruns
    BY <1>7 DEF AwaitInput, End, TaskEvents, history
  <2>2. HasTask(r) \/ (art' = art /\ mir' = mir /\ disk' = disk)
    BY <1>7 DEF AwaitInput
  <2>3. disk' = disk
    BY <1>7 DEF AwaitInput, RegisterArtifacts, AddArtifact, fileVars
  <2>4. \A i \in Runs : i # r => art'[i] = art[i] /\ mir'[i] = mir[i]
    BY <1>7 DEF AwaitInput, RegisterArtifacts, AddArtifact, MirrorArtifact,
         fileVars, TypeOK
  <2> QED  BY <2>1, <2>2, <2>3, <2>4, BegunStays DEF NotBegunIsBlank, Begun
<1>8. ASSUME NEW r \in Runs, Fail(r)  PROVE NotBegunIsBlank'
  <2>1. ask' = ask /\ copy' = copy /\ reruns' = reruns
    BY <1>8 DEF Fail, End, TaskEvents, history
  <2>2. HasTask(r) \/ (art' = art /\ mir' = mir /\ disk' = disk)
    BY <1>8 DEF Fail, fileVars
  <2>3. disk' = disk
    BY <1>8 DEF Fail, RegisterArtifacts, AddArtifact, fileVars
  <2>4. \A i \in Runs : i # r => art'[i] = art[i] /\ mir'[i] = mir[i]
    BY <1>8 DEF Fail, RegisterArtifacts, AddArtifact, MirrorArtifact,
         fileVars, TypeOK
  <2> QED  BY <2>1, <2>2, <2>3, <2>4, BegunStays DEF NotBegunIsBlank, Begun
<1>9. ASSUME NEW r \in Runs, AwaitApproval(r)  PROVE NotBegunIsBlank'
  BY <1>9, BegunStays DEF AwaitApproval, NotBegunIsBlank, Works, End,
       fileVars, history, WorkersBegin, Begun, HasTask, HasRecord, TypeOK
<1>10. ASSUME NEW r \in Runs, Cancelled(r)  PROVE NotBegunIsBlank'
  BY <1>10, BegunStays DEF Cancelled, NotBegunIsBlank, End, TaskEvents,
       fileVars, history, WorkersBegin, Begun, HasTask, HasRecord, TypeOK
<1>11. ASSUME NEW r \in Runs, CancelTask(r)  PROVE NotBegunIsBlank'
  BY <1>11, BegunStays DEF CancelTask, NotBegunIsBlank, CancelWorker,
       TaskEvents, fileVars, history, WorkersBegin, Begun, HasTask, HasRecord,
       TypeOK
<1>12. ASSUME NEW r \in Runs, AnswerTask(r)  PROVE NotBegunIsBlank'
  BY <1>12, BegunStays DEF AnswerTask, NotBegunIsBlank, TaskEvents, fileVars,
       history, WorkersBegin, Begun, HasTask, HasRecord, TypeOK
<1>13. ASSUME NEW r \in Runs, DeleteTask(r)  PROVE NotBegunIsBlank'
  BY <1>13, BegunStays DEF DeleteTask, NotBegunIsBlank, Forget, CancelWorker,
       WorkersBegin, Begun, HasTask, HasRecord, TypeOK
<1>14. ASSUME NEW r \in Runs, DeleteInterrupted(r)  PROVE NotBegunIsBlank'
  BY <1>14, BegunStays DEF DeleteInterrupted, NotBegunIsBlank, Forget,
       WorkersBegin, Begun, HasTask, HasRecord, TypeOK
<1>15. ASSUME NEW r \in Runs, Recover(r)  PROVE NotBegunIsBlank'
  BY <1>15, BegunStays DEF Recover, NotBegunIsBlank, eventVars, fileVars,
       history, WorkersBegin, Begun, HasTask, HasRecord, TypeOK
<1>16. ASSUME NEW r \in Runs, CancelRecord(r)  PROVE NotBegunIsBlank'
  BY <1>16, BegunStays DEF CancelRecord, NotBegunIsBlank, CancelWorker,
       fileVars, history, WorkersBegin, Begun, HasTask, HasRecord, TypeOK
<1>17. ASSUME NEW r \in Runs, CancelRun(r)  PROVE NotBegunIsBlank'
  BY <1>17, BegunStays DEF CancelRun, NotBegunIsBlank, With, CancelWorker,
       TaskEvents, Copied, Synced, UpdateSession, sessVars, eventVars,
       workVars, fileVars, history, WorkersBegin, Begun, Active, Works,
       HasTask, HasRecord, Final, Status, Open, TypeOK
<1>18. ASSUME NEW r \in Runs, NEW st \in {"cancelled", "completed"},
             ResolveTask(r, st)
      PROVE  NotBegunIsBlank'
  BY <1>18, BegunStays DEF ResolveTask, NotBegunIsBlank, TaskOpen, Answered,
       fileVars, workVars, history, WorkersBegin, Begun, HasTask, HasRecord,
       TypeOK
<1>19. ASSUME NEW r \in Runs, NEW st \in {"cancelled", "completed"},
             ResolveRecord(r, st)
      PROVE  NotBegunIsBlank'
  BY <1>19, BegunStays DEF ResolveRecord, NotBegunIsBlank, RecordOpen,
       AnsweredHere, fileVars, workVars, history, WorkersBegin, Begun,
       HasTask, HasRecord, TypeOK
<1>20. ASSUME NEW r \in Runs, NEW n \in Runs, RetryTask(r, n)
      PROVE  NotBegunIsBlank'
  BY <1>20, BegunStays DEF RetryTask, NotBegunIsBlank, NewTask, fileVars,
       history, WorkersBegin, Begun, HasTask, HasRecord, TypeOK
<1>21. ASSUME NEW r \in Runs, NEW n \in Runs, RetryRecord(r, n)
      PROVE  NotBegunIsBlank'
  BY <1>21, BegunStays DEF RetryRecord, NotBegunIsBlank, fileVars, history,
       WorkersBegin, Begun, HasTask, HasRecord, TypeOK
<1>22. ASSUME NEW r \in Runs, NEW n \in Runs, RetryRun(r, n)
      PROVE  NotBegunIsBlank'
  BY <1>22, BegunStays DEF RetryRun, NotBegunIsBlank, NewTask, fileVars,
       history, WorkersBegin, Begun, HasTask, HasRecord, TypeOK
<1>23. ASSUME NEW r \in Runs, NEW n \in Runs, RerunTask(r, n)
      PROVE  NotBegunIsBlank'
  BY <1>23, BegunStays DEF RerunTask, NotBegunIsBlank, TaskOpen, Shown,
       Answered, Count, fileVars, WorkersBegin, Begun, HasTask, HasRecord,
       TypeOK
<1>24. ASSUME NEW r \in Runs, NEW n \in Runs, RerunRecord(r, n)
      PROVE  NotBegunIsBlank'
  BY <1>24, BegunStays DEF RerunRecord, NotBegunIsBlank, RecordOpen, Shown,
       NewRecord, AnsweredHere, Count, fileVars, WorkersBegin, Begun, HasTask,
       HasRecord, TypeOK
<1>25. ASSUME NEW n \in Runs, Message(n)  PROVE NotBegunIsBlank'
  BY <1>25, BegunStays DEF Message, NotBegunIsBlank, eventVars, fileVars,
       history, WorkersBegin, Begun, HasTask, HasRecord, TypeOK
<1>26. ASSUME NEW n \in Runs, CreateTask(n)  PROVE NotBegunIsBlank'
  BY <1>26, BegunStays DEF CreateTask, NotBegunIsBlank, NewTask, fileVars,
       history, WorkersBegin, Begun, HasTask, HasRecord, TypeOK
<1>27. CASE Answer
  BY <1>27, BegunStays DEF Answer, ResumeTask, ResumeRecord, With, TaskEvents,
       RunEvents, Copied, UpdateSession, Start, fileVars, history,
       NotBegunIsBlank, WorkersBegin, Begun, Active, Works, HasTask,
       HasRecord, Final, Status, Open, TypeOK
<1>28. CASE Archive
  BY <1>28, BegunStays DEF Archive, UpdateSession, Shown, CancelWorker, With,
       Synced, TaskEvents, RunEvents, Copied, rowVars, eventVars, workVars,
       fileVars, history, NotBegunIsBlank, WorkersBegin, Begun, Active, Works,
       HasTask, HasRecord, Final, Status, Open, TypeOK
<1>29. CASE Unarchive
  BY <1>29, BegunStays DEF Unarchive, eventVars, fileVars, workVars, history,
       NotBegunIsBlank, WorkersBegin, Begun, HasTask, HasRecord, TypeOK
<1>30. CASE Crash
  BY <1>30, BegunStays DEF Crash, eventVars, fileVars, history,
       NotBegunIsBlank, WorkersBegin, Begun, HasTask, HasRecord, TypeOK
<1>31. CASE UNCHANGED vars
  BY <1>31, BegunStays DEF vars, eventVars, fileVars, workVars, history,
       NotBegunIsBlank, WorkersBegin, Begun, HasTask, HasRecord, TypeOK
<1> QED
  BY <1>1, <1>2, <1>3, <1>4, <1>5, <1>6, <1>7, <1>8, <1>9, <1>10, <1>11,
       <1>12, <1>13, <1>14, <1>15, <1>16, <1>17, <1>18, <1>19, <1>20, <1>21,
       <1>22, <1>23, <1>24, <1>25, <1>26, <1>27, <1>28, <1>29, <1>30, <1>31
       DEF Next, Worker, About

-----------------------------------------------------------------------------
(***************************************************************************)
(* The task, the record and the artifacts of a run.                        *)
(***************************************************************************)
\* The record tells no other end than the task.
LEMMA FollowsStep ==
  ASSUME TypeOK, RecordFollows, WorkedOnIsOpen, UnusedIsBlank, [Next]_vars
  PROVE  RecordFollows'
<1>1. ASSUME NEW r \in Runs, Begin(r)  PROVE RecordFollows'
  BY <1>1, BeginEffect, ConfIsFixed DEF RecordFollows, Used, HasTask,
       HasRecord, TypeOK
<1>2. ASSUME NEW r \in Runs, Drop(r)  PROVE RecordFollows'
  BY <1>2 DEF Drop, RecordFollows, rowVars, Used, HasTask, HasRecord, TypeOK
<1>3. ASSUME NEW r \in Runs, WriteFile(r)  PROVE RecordFollows'
  BY <1>3 DEF WriteFile, RecordFollows, rowVars, workVars, Used, HasTask,
       HasRecord, TypeOK
<1>4. ASSUME NEW r \in Runs, AddRemoteArtifact(r)  PROVE RecordFollows'
  BY <1>4 DEF AddRemoteArtifact, RecordFollows, AddArtifact, MirrorArtifact,
       rowVars, workVars, Used, HasTask, HasRecord, TypeOK
<1>5. ASSUME NEW r \in Runs, RequestInput(r)  PROVE RecordFollows'
  BY <1>5, RequestInputEffect, ConfIsFixed DEF RecordFollows, With, Works,
       WorkedOnIsOpen, Active, Used, HasTask, HasRecord, Final, Status, Open,
       TypeOK
<1>6. ASSUME NEW r \in Runs, Complete(r)  PROVE RecordFollows'
  BY <1>6 DEF Complete, RecordFollows, RegisterArtifacts, AddArtifact,
       MirrorArtifact, End, Synced, With, Copied, Used, HasTask, HasRecord,
       TypeOK
<1>7. ASSUME NEW r \in Runs, AwaitInput(r)  PROVE RecordFollows'
  BY <1>7 DEF AwaitInput, RecordFollows, RegisterArtifacts, AddArtifact,
       MirrorArtifact, End, Synced, With, Stop, TaskEvents, WorkedOnIsOpen,
       Active, Used, HasTask, HasRecord, Final, Status, Open, TypeOK
<1>8. ASSUME NEW r \in Runs, Fail(r)  PROVE RecordFollows'
  BY <1>8 DEF Fail, RecordFollows, RegisterArtifacts, AddArtifact,
       MirrorArtifact, End, Synced, With, Copied, Used, HasTask, HasRecord,
       TypeOK
<1>9. ASSUME NEW r \in Runs, AwaitApproval(r)  PROVE RecordFollows'
  BY <1>9 DEF AwaitApproval, RecordFollows, End, Synced, With, Copied, Used,
       HasTask, HasRecord, TypeOK
<1>10. ASSUME NEW r \in Runs, Cancelled(r)  PROVE RecordFollows'
  BY <1>10 DEF Cancelled, RecordFollows, End, Synced, With, WorkedOnIsOpen,
       Active, Used, HasTask, HasRecord, Final, TypeOK
<1>11. ASSUME NEW r \in Runs, CancelTask(r)  PROVE RecordFollows'
  BY <1>11 DEF CancelTask, RecordFollows, With, CancelWorker, Used, HasTask,
       HasRecord, Open, TypeOK
<1>12. ASSUME NEW r \in Runs, AnswerTask(r)  PROVE RecordFollows'
  BY <1>12 DEF AnswerTask, RecordFollows, With, Used, HasTask, HasRecord,
       Final, Status, Open, TypeOK
<1>13. ASSUME NEW r \in Runs, DeleteTask(r)  PROVE RecordFollows'
  BY <1>13 DEF DeleteTask, RecordFollows, Forget, CancelWorker, Used, HasTask,
       HasRecord, TypeOK
<1>14. ASSUME NEW r \in Runs, DeleteInterrupted(r)  PROVE RecordFollows'
  BY <1>14 DEF DeleteInterrupted, RecordFollows, Forget, Used, HasTask,
       HasRecord, TypeOK
<1>15. ASSUME NEW r \in Runs, Recover(r)  PROVE RecordFollows'
  BY <1>15 DEF Recover, RecordFollows, With, Used, HasTask, HasRecord, Final,
       Status, Open, TypeOK
<1>16. ASSUME NEW r \in Runs, CancelRecord(r)  PROVE RecordFollows'
  BY <1>16 DEF CancelRecord, RecordFollows, With, CancelWorker, Used, HasTask,
       HasRecord, TypeOK
<1>17. ASSUME NEW r \in Runs, CancelRun(r)  PROVE RecordFollows'
  BY <1>17, CancelRunEffect, ConfIsFixed DEF RecordFollows, With,
       CancelWorker, Used, HasTask, HasRecord, TypeOK
<1>18. ASSUME NEW r \in Runs, NEW st \in {"cancelled", "completed"},
             ResolveTask(r, st)
      PROVE  RecordFollows'
  BY <1>18, ResolveTaskEffect, ConfIsFixed DEF RecordFollows, With, Used,
       HasTask, HasRecord, TypeOK
<1>19. ASSUME NEW r \in Runs, NEW st \in {"cancelled", "completed"},
             ResolveRecord(r, st)
      PROVE  RecordFollows'
  BY <1>19 DEF ResolveRecord, RecordFollows, RecordOpen, With, workVars, Used,
       HasTask, HasRecord, TypeOK
<1>20. ASSUME NEW r \in Runs, NEW n \in Runs, RetryTask(r, n)
      PROVE  RecordFollows'
  BY <1>20 DEF RetryTask, RecordFollows, NewTask, Fresh, Used, HasTask,
       HasRecord, Final, TypeOK
<1>21. ASSUME NEW r \in Runs, NEW n \in Runs, RetryRecord(r, n)
      PROVE  RecordFollows'
  BY <1>21 DEF RetryRecord, RecordFollows, Used, HasTask, HasRecord, Final,
       TypeOK
<1>22. ASSUME NEW r \in Runs, NEW n \in Runs, RetryRun(r, n)
      PROVE  RecordFollows'
  BY <1>22 DEF RetryRun, RecordFollows, NewTask, Fresh, Used, HasTask,
       HasRecord, Final, TypeOK
<1>23. ASSUME NEW r \in Runs, NEW n \in Runs, RerunTask(r, n)
      PROVE  RecordFollows'
  BY <1>23 DEF RerunTask, RecordFollows, Shown, Fresh, Used, HasTask,
       HasRecord, Final, TypeOK
<1>24. ASSUME NEW r \in Runs, NEW n \in Runs, RerunRecord(r, n)
      PROVE  RecordFollows'
  BY <1>24 DEF RerunRecord, RecordFollows, RecordOpen, Shown, NewRecord, Used,
       HasTask, HasRecord, Final, TypeOK
<1>25. ASSUME NEW n \in Runs, Message(n)  PROVE RecordFollows'
  BY <1>25 DEF Message, RecordFollows, rowVars, Used, HasTask, HasRecord,
       TypeOK
<1>26. ASSUME NEW n \in Runs, CreateTask(n)  PROVE RecordFollows'
  BY <1>26 DEF CreateTask, RecordFollows, NewTask, Fresh, Used, HasTask,
       HasRecord, Final, TypeOK
<1>27. CASE Answer
  BY <1>27, AnswerEffect, ConfIsFixed DEF With, RecordFollows, Used, HasTask,
       HasRecord, Final, Status, Open, TypeOK
<1>28. CASE Archive
  BY <1>28, ArchiveEffect, ConfIsFixed DEF With, CancelWorker, Shown,
       RecordFollows, Used, HasTask, HasRecord, TypeOK
<1>29. CASE Unarchive
  BY <1>29 DEF Unarchive, rowVars, workVars, RecordFollows, Used, HasTask,
       HasRecord, TypeOK
<1>30. CASE Crash
  BY <1>30 DEF Crash, rowVars, RecordFollows, Used, HasTask, HasRecord, TypeOK
<1>31. CASE UNCHANGED vars
  BY <1>31 DEF vars, rowVars, workVars, RecordFollows, Used, HasTask,
       HasRecord, TypeOK
<1> QED
  BY <1>1, <1>2, <1>3, <1>4, <1>5, <1>6, <1>7, <1>8, <1>9, <1>10, <1>11,
       <1>12, <1>13, <1>14, <1>15, <1>16, <1>17, <1>18, <1>19, <1>20, <1>21,
       <1>22, <1>23, <1>24, <1>25, <1>26, <1>27, <1>28, <1>29, <1>30, <1>31
       DEF Next, Worker, About

\* What is worked on, or waited for, has not ended.
LEMMA OpenStep ==
  ASSUME TypeOK, RecordFollows, WorkedOnIsOpen, AskedOnce, UnusedIsBlank,
         [Next]_vars
  PROVE  WorkedOnIsOpen'
<1>1. ASSUME NEW r \in Runs, Begin(r)  PROVE WorkedOnIsOpen'
  BY <1>1, BeginEffect, ConfIsFixed DEF WorkedOnIsOpen, Stop, RecordFollows,
       Asked, Blank, Active, Used, HasTask, HasRecord, TypeOK
<1>2. ASSUME NEW r \in Runs, Drop(r)  PROVE WorkedOnIsOpen'
  BY <1>2 DEF Drop, WorkedOnIsOpen, Stop, sessVars, rowVars, RecordFollows,
       Asked, Blank, Active, Used, HasTask, HasRecord, TypeOK
<1>3. ASSUME NEW r \in Runs, WriteFile(r)  PROVE WorkedOnIsOpen'
  BY <1>3 DEF WriteFile, WorkedOnIsOpen, sessVars, rowVars, workVars,
       RecordFollows, Asked, Blank, Active, Used, HasTask, HasRecord, TypeOK
<1>4. ASSUME NEW r \in Runs, AddRemoteArtifact(r)  PROVE WorkedOnIsOpen'
  BY <1>4 DEF AddRemoteArtifact, WorkedOnIsOpen, AddArtifact, MirrorArtifact,
       sessVars, rowVars, workVars, RecordFollows, Asked, Blank, Active, Used,
       HasTask, HasRecord, TypeOK
<1>5. ASSUME NEW r \in Runs, RequestInput(r)  PROVE WorkedOnIsOpen'
  BY <1>5, RequestInputEffect, ConfIsFixed DEF WorkedOnIsOpen, With, Works,
       RecordFollows, Asked, Blank, Active, Used, HasTask, HasRecord, TypeOK
<1>6. ASSUME NEW r \in Runs, Complete(r)  PROVE WorkedOnIsOpen'
  BY <1>6 DEF Complete, WorkedOnIsOpen, RegisterArtifacts, AddArtifact,
       MirrorArtifact, End, Synced, With, UpdateSession, Stop, RecordFollows,
       Asked, Blank, Active, Used, HasTask, HasRecord, TypeOK
<1>7. ASSUME NEW r \in Runs, AwaitInput(r)  PROVE WorkedOnIsOpen'
  BY <1>7 DEF AwaitInput, WorkedOnIsOpen, RegisterArtifacts, AddArtifact,
       MirrorArtifact, End, Synced, With, UpdateSession, Stop, RecordFollows,
       Asked, Blank, Active, Used, HasTask, HasRecord, TypeOK
<1>8. ASSUME NEW r \in Runs, Fail(r)  PROVE WorkedOnIsOpen'
  BY <1>8 DEF Fail, WorkedOnIsOpen, RegisterArtifacts, AddArtifact,
       MirrorArtifact, End, Synced, With, UpdateSession, Stop, RecordFollows,
       Asked, Blank, Active, Used, HasTask, HasRecord, TypeOK
<1>9. ASSUME NEW r \in Runs, AwaitApproval(r)  PROVE WorkedOnIsOpen'
  BY <1>9 DEF AwaitApproval, WorkedOnIsOpen, End, Synced, With, UpdateSession,
       Stop, RecordFollows, Asked, Blank, Active, Used, HasTask, HasRecord,
       TypeOK
<1>10. ASSUME NEW r \in Runs, Cancelled(r)  PROVE WorkedOnIsOpen'
  BY <1>10 DEF Cancelled, WorkedOnIsOpen, End, Synced, With, UpdateSession,
       Stop, RecordFollows, Asked, Blank, Active, Used, HasTask, HasRecord,
       TypeOK
<1>11. ASSUME NEW r \in Runs, CancelTask(r)  PROVE WorkedOnIsOpen'
  BY <1>11 DEF CancelTask, WorkedOnIsOpen, With, CancelWorker, sessVars,
       RecordFollows, Asked, Blank, Active, Used, HasTask, HasRecord, TypeOK
<1>12. ASSUME NEW r \in Runs, AnswerTask(r)  PROVE WorkedOnIsOpen'
  BY <1>12 DEF AnswerTask, WorkedOnIsOpen, With, Start, sessVars,
       RecordFollows, Asked, Blank, Active, Used, HasTask, HasRecord, Status,
       TypeOK
<1>13. ASSUME NEW r \in Runs, DeleteTask(r)  PROVE WorkedOnIsOpen'
  BY <1>13 DEF DeleteTask, WorkedOnIsOpen, Forget, CancelWorker, sessVars,
       RecordFollows, Asked, Blank, Active, Used, HasTask, HasRecord, TypeOK
<1>14. ASSUME NEW r \in Runs, DeleteInterrupted(r)  PROVE WorkedOnIsOpen'
  BY <1>14 DEF DeleteInterrupted, WorkedOnIsOpen, Forget, Gone, sessVars,
       RecordFollows, Asked, Blank, Active, Used, HasTask, HasRecord, TypeOK
<1>15. ASSUME NEW r \in Runs, Recover(r)  PROVE WorkedOnIsOpen'
  BY <1>15 DEF Recover, WorkedOnIsOpen, With, Start, sessVars, RecordFollows,
       Asked, Blank, Active, Used, HasTask, HasRecord, Status, TypeOK
<1>16. ASSUME NEW r \in Runs, CancelRecord(r)  PROVE WorkedOnIsOpen'
  BY <1>16 DEF CancelRecord, WorkedOnIsOpen, With, CancelWorker,
       UpdateSession, sessVars, RecordFollows, Asked, Blank, Active, Used,
       HasTask, HasRecord, TypeOK
<1>17. ASSUME NEW r \in Runs, CancelRun(r)  PROVE WorkedOnIsOpen'
  BY <1>17, CancelRunEffect, ConfIsFixed DEF WorkedOnIsOpen, With,
       CancelWorker, RecordFollows, Asked, Blank, Active, Used, HasTask,
       HasRecord, TypeOK
<1>18. ASSUME NEW r \in Runs, NEW st \in {"cancelled", "completed"},
             ResolveTask(r, st)
      PROVE  WorkedOnIsOpen'
  BY <1>18, ResolveTaskEffect, ConfIsFixed DEF WorkedOnIsOpen, With, TaskOpen,
       RecordFollows, AskedOnce, Asked, Blank, Active, Used, HasTask,
       HasRecord, TypeOK
<1>19. ASSUME NEW r \in Runs, NEW st \in {"cancelled", "completed"},
             ResolveRecord(r, st)
      PROVE  WorkedOnIsOpen'
  BY <1>19 DEF ResolveRecord, WorkedOnIsOpen, RecordOpen, With, UpdateSession,
       sessVars, workVars, RecordFollows, AskedOnce, Asked, Blank, Active,
       Used, HasTask, HasRecord, TypeOK
<1>20. ASSUME NEW r \in Runs, NEW n \in Runs, RetryTask(r, n)
      PROVE  WorkedOnIsOpen'
  BY <1>20 DEF RetryTask, WorkedOnIsOpen, NewTask, Fresh, Start, sessVars,
       RecordFollows, Asked, Blank, Active, Used, HasTask, HasRecord, TypeOK
<1>21. ASSUME NEW r \in Runs, NEW n \in Runs, RetryRecord(r, n)
      PROVE  WorkedOnIsOpen'
  BY <1>21 DEF RetryRecord, WorkedOnIsOpen, NewRecord, Fresh, Start,
       UpdateSession, RecordFollows, Asked, Blank, Active, Used, HasTask,
       HasRecord, TypeOK
<1>22. ASSUME NEW r \in Runs, NEW n \in Runs, RetryRun(r, n)
      PROVE  WorkedOnIsOpen'
  BY <1>22 DEF RetryRun, WorkedOnIsOpen, NewTask, Fresh, Start, UpdateSession,
       RecordFollows, Asked, Blank, Active, Used, HasTask, HasRecord, TypeOK
<1>23. ASSUME NEW r \in Runs, NEW n \in Runs, RerunTask(r, n)
      PROVE  WorkedOnIsOpen'
  BY <1>23 DEF RerunTask, WorkedOnIsOpen, TaskOpen, Shown, Fresh, Start,
       UpdateSession, RecordFollows, AskedOnce, Asked, Blank, Active, Used,
       HasTask, HasRecord, TypeOK
<1>24. ASSUME NEW r \in Runs, NEW n \in Runs, RerunRecord(r, n)
      PROVE  WorkedOnIsOpen'
  BY <1>24 DEF RerunRecord, WorkedOnIsOpen, RecordOpen, Shown, NewRecord,
       Fresh, Start, UpdateSession, RecordFollows, AskedOnce, Asked, Blank,
       Active, Used, HasTask, HasRecord, TypeOK
<1>25. ASSUME NEW n \in Runs, Message(n)  PROVE WorkedOnIsOpen'
  BY <1>25 DEF Message, WorkedOnIsOpen, Fresh, UpdateSession, Start, rowVars,
       RecordFollows, Asked, Blank, Active, Used, HasTask, HasRecord, TypeOK
<1>26. ASSUME NEW n \in Runs, CreateTask(n)  PROVE WorkedOnIsOpen'
  BY <1>26 DEF CreateTask, WorkedOnIsOpen, NewTask, Fresh, Start, sessVars,
       RecordFollows, Asked, Blank, Active, Used, HasTask, HasRecord, TypeOK
<1>27. CASE Answer
  BY <1>27, AnswerEffect, ConfIsFixed DEF With, Start, RecordFollows,
       WorkedOnIsOpen, Asked, Blank, Active, Used, HasTask, HasRecord, TypeOK
<1>28. CASE Archive
  BY <1>28, ArchiveEffect, ConfIsFixed DEF With, CancelWorker, Shown,
       RecordFollows, WorkedOnIsOpen, Asked, Blank, Active, Used, HasTask,
       HasRecord, TypeOK
<1>29. CASE Unarchive
  BY <1>29 DEF Unarchive, UpdateSession, rowVars, workVars, RecordFollows,
       WorkedOnIsOpen, Asked, Blank, Active, Used, HasTask, HasRecord, TypeOK
<1>30. CASE Crash
  BY <1>30 DEF Crash, Gone, sessVars, rowVars, RecordFollows, WorkedOnIsOpen,
       Asked, Blank, Active, Used, HasTask, HasRecord, TypeOK
<1>31. CASE UNCHANGED vars
  BY <1>31 DEF vars, sessVars, rowVars, workVars, RecordFollows,
       WorkedOnIsOpen, Asked, Blank, Active, Used, HasTask, HasRecord, TypeOK
<1> QED
  BY <1>1, <1>2, <1>3, <1>4, <1>5, <1>6, <1>7, <1>8, <1>9, <1>10, <1>11,
       <1>12, <1>13, <1>14, <1>15, <1>16, <1>17, <1>18, <1>19, <1>20, <1>21,
       <1>22, <1>23, <1>24, <1>25, <1>26, <1>27, <1>28, <1>29, <1>30, <1>31
       DEF Next, Worker, About

\* What is listed stays there.
LEMMA ListedStep ==
  ASSUME TypeOK, ListedIsThere, UnusedIsBlank, [Next]_vars
  PROVE  ListedIsThere'
<1>1. ASSUME NEW r \in Runs, Begin(r)  PROVE ListedIsThere'
  BY <1>1 DEF Begin, ListedIsThere, Stop, UpdateSession, Copied, With,
       sessVars, rowVars, eventVars, fileVars, history, Used, HasTask,
       HasRecord, Final, Status, Open, TypeOK
<1>2. ASSUME NEW r \in Runs, Drop(r)  PROVE ListedIsThere'
  BY <1>2 DEF Drop, ListedIsThere, rowVars, fileVars, Used, HasTask,
       HasRecord, TypeOK
<1>3. ASSUME NEW r \in Runs, WriteFile(r)  PROVE ListedIsThere'
  BY <1>3 DEF WriteFile, ListedIsThere, rowVars, workVars, Used, HasTask,
       HasRecord, TypeOK
<1>4. ASSUME NEW r \in Runs, AddRemoteArtifact(r)  PROVE ListedIsThere'
  <2>1. ASSUME ~ conf.fails
        PROVE  /\ HasTask(r) /\ disk' = disk /\ task' = task
               /\ art' = [art EXCEPT ![r] = @ \cup {"remote"}]
               /\ mir' = [mir EXCEPT ![r] = @ \cup {"remote"}]
    BY <1>4, <2>1 DEF AddRemoteArtifact, AddArtifact, MirrorArtifact, Copied,
         rowVars
  <2>2. ASSUME ~ conf.crash, ~ conf.fails, NEW n \in Runs
        PROVE  /\ "local" \in art'[n] \cup mir'[n] => disk'[n]
               /\ mir'[n] = art'[n]
               /\ ~ HasTask(n)' => mir'[n] = {}
    <3>1. /\ art'[n] = IF n = r THEN art[n] \cup {"remote"} ELSE art[n]
          /\ mir'[n] = IF n = r THEN mir[n] \cup {"remote"} ELSE mir[n]
      BY <2>1, <2>2 DEF TypeOK
    <3>2. HasTask(n)' <=> HasTask(n)
      BY <2>1, <2>2 DEF HasTask
    <3>3. /\ "local" \in art[n] \cup mir[n] => disk'[n]
          /\ mir[n] = art[n]
          /\ ~ HasTask(n) => mir[n] = {}
      BY <2>1, <2>2 DEF ListedIsThere
    <3>4. CASE n = r
      BY <2>1, <2>2, <3>1, <3>2, <3>3, <3>4
    <3>5. CASE n # r
      BY <3>1, <3>2, <3>3, <3>5
    <3> QED  BY <3>4, <3>5
  <2> QED  BY <2>2, ConfIsFixed DEF ListedIsThere
<1>5. ASSUME NEW r \in Runs, RequestInput(r)  PROVE ListedIsThere'
  BY <1>5 DEF RequestInput, ListedIsThere, With, fileVars, Used, HasTask,
       HasRecord, TypeOK
<1>6. ASSUME NEW r \in Runs, Complete(r)  PROVE ListedIsThere'
  <2>1. ASSUME ~ conf.fails
        PROVE  /\ disk' = disk
               /\ \/ art' = art /\ mir' = mir
                  \/ /\ HasTask(r) /\ disk[r]
                     /\ art' = [art EXCEPT ![r] = @ \cup {"local"}]
                     /\ mir' = [mir EXCEPT ![r] = @ \cup {"local"}]
    BY <1>6, <2>1, RegisterEffect DEF Complete
  <2>2. \A n \in Runs : HasTask(n) => HasTask(n)'
    BY <1>6 DEF Complete, HasTask, End, With, TypeOK
  <2>3. ASSUME ~ conf.crash, ~ conf.fails, NEW n \in Runs
        PROVE  /\ "local" \in art'[n] \cup mir'[n] => disk'[n]
               /\ mir'[n] = art'[n]
               /\ ~ HasTask(n)' => mir'[n] = {}
    <3>1. \/ art'[n] = art[n] /\ mir'[n] = mir[n]
          \/ /\ HasTask(n) /\ disk[n]
             /\ art'[n] = art[n] \cup {"local"} /\ mir'[n] = mir[n] \cup {"local"}
      BY <2>1, <2>3 DEF TypeOK
    <3> QED  BY <2>1, <2>2, <2>3, <3>1 DEF ListedIsThere
  <2> QED  BY <2>3, ConfIsFixed DEF ListedIsThere
<1>7. ASSUME NEW r \in Runs, AwaitInput(r)  PROVE ListedIsThere'
  <2>1. ASSUME ~ conf.fails
        PROVE  /\ disk' = disk
               /\ \/ art' = art /\ mir' = mir
                  \/ /\ HasTask(r) /\ disk[r]
                     /\ art' = [art EXCEPT ![r] = @ \cup {"local"}]
                     /\ mir' = [mir EXCEPT ![r] = @ \cup {"local"}]
    BY <1>7, <2>1, RegisterEffect DEF AwaitInput
  <2>2. \A n \in Runs : HasTask(n) => HasTask(n)'
    BY <1>7 DEF AwaitInput, HasTask, End, With, TypeOK
  <2>3. ASSUME ~ conf.crash, ~ conf.fails, NEW n \in Runs
        PROVE  /\ "local" \in art'[n] \cup mir'[n] => disk'[n]
               /\ mir'[n] = art'[n]
               /\ ~ HasTask(n)' => mir'[n] = {}
    <3>1. \/ art'[n] = art[n] /\ mir'[n] = mir[n]
          \/ /\ HasTask(n) /\ disk[n]
             /\ art'[n] = art[n] \cup {"local"} /\ mir'[n] = mir[n] \cup {"local"}
      BY <2>1, <2>3 DEF TypeOK
    <3> QED  BY <2>1, <2>2, <2>3, <3>1 DEF ListedIsThere
  <2> QED  BY <2>3, ConfIsFixed DEF ListedIsThere
<1>8. ASSUME NEW r \in Runs, Fail(r)  PROVE ListedIsThere'
  <2>1. ASSUME ~ conf.fails
        PROVE  /\ disk' = disk
               /\ \/ art' = art /\ mir' = mir
                  \/ /\ HasTask(r) /\ disk[r]
                     /\ art' = [art EXCEPT ![r] = @ \cup {"local"}]
                     /\ mir' = [mir EXCEPT ![r] = @ \cup {"local"}]
    BY <1>8, <2>1, RegisterEffect DEF Fail, fileVars
  <2>2. \A n \in Runs : HasTask(n) => HasTask(n)'
    BY <1>8 DEF Fail, HasTask, End, With, TypeOK
  <2>3. ASSUME ~ conf.crash, ~ conf.fails, NEW n \in Runs
        PROVE  /\ "local" \in art'[n] \cup mir'[n] => disk'[n]
               /\ mir'[n] = art'[n]
               /\ ~ HasTask(n)' => mir'[n] = {}
    <3>1. \/ art'[n] = art[n] /\ mir'[n] = mir[n]
          \/ /\ HasTask(n) /\ disk[n]
             /\ art'[n] = art[n] \cup {"local"} /\ mir'[n] = mir[n] \cup {"local"}
      BY <2>1, <2>3 DEF TypeOK
    <3> QED  BY <2>1, <2>2, <2>3, <3>1 DEF ListedIsThere
  <2> QED  BY <2>3, ConfIsFixed DEF ListedIsThere
<1>9. ASSUME NEW r \in Runs, AwaitApproval(r)  PROVE ListedIsThere'
  BY <1>9 DEF AwaitApproval, ListedIsThere, End, With, fileVars, Used,
       HasTask, HasRecord, TypeOK
<1>10. ASSUME NEW r \in Runs, Cancelled(r)  PROVE ListedIsThere'
  BY <1>10 DEF Cancelled, ListedIsThere, End, With, fileVars, Used, HasTask,
       HasRecord, TypeOK
<1>11. ASSUME NEW r \in Runs, CancelTask(r)  PROVE ListedIsThere'
  BY <1>11 DEF CancelTask, ListedIsThere, With, CancelWorker, fileVars, Used,
       HasTask, HasRecord, TypeOK
<1>12. ASSUME NEW r \in Runs, AnswerTask(r)  PROVE ListedIsThere'
  BY <1>12 DEF AnswerTask, ListedIsThere, With, fileVars, Used, HasTask,
       HasRecord, TypeOK
<1>13. ASSUME NEW r \in Runs, DeleteTask(r)  PROVE ListedIsThere'
  BY <1>13 DEF DeleteTask, ListedIsThere, Forget, CancelWorker, Copied, Used,
       HasTask, HasRecord, TypeOK
<1>14. ASSUME NEW r \in Runs, DeleteInterrupted(r)  PROVE ListedIsThere'
  BY <1>14 DEF DeleteInterrupted, ListedIsThere, Forget, Used, HasTask,
       HasRecord, TypeOK
<1>15. ASSUME NEW r \in Runs, Recover(r)  PROVE ListedIsThere'
  BY <1>15 DEF Recover, ListedIsThere, With, fileVars, Used, HasTask,
       HasRecord, TypeOK
<1>16. ASSUME NEW r \in Runs, CancelRecord(r)  PROVE ListedIsThere'
  BY <1>16 DEF CancelRecord, ListedIsThere, CancelWorker, fileVars, Used,
       HasTask, HasRecord, TypeOK
<1>17. ASSUME NEW r \in Runs, CancelRun(r)  PROVE ListedIsThere'
  BY <1>17 DEF CancelRun, ListedIsThere, With, CancelWorker, TaskEvents,
       Copied, Synced, UpdateSession, sessVars, eventVars, workVars, fileVars,
       history, Used, HasTask, HasRecord, Final, Status, Open, TypeOK
<1>18. ASSUME NEW r \in Runs, NEW st \in {"cancelled", "completed"},
             ResolveTask(r, st)
      PROVE  ListedIsThere'
  BY <1>18 DEF ResolveTask, ListedIsThere, TaskOpen, Answered, With, Synced,
       Copied, UpdateSession, sessVars, rowVars, fileVars, workVars, history,
       Used, HasTask, HasRecord, Final, Status, Open, TypeOK
<1>19. ASSUME NEW r \in Runs, NEW st \in {"cancelled", "completed"},
             ResolveRecord(r, st)
      PROVE  ListedIsThere'
  BY <1>19 DEF ResolveRecord, ListedIsThere, With, fileVars, workVars, Used,
       HasTask, HasRecord, TypeOK
<1>20. ASSUME NEW r \in Runs, NEW n \in Runs, RetryTask(r, n)
      PROVE  ListedIsThere'
  BY <1>20 DEF RetryTask, ListedIsThere, NewTask, fileVars, Used, HasTask,
       HasRecord, TypeOK
<1>21. ASSUME NEW r \in Runs, NEW n \in Runs, RetryRecord(r, n)
      PROVE  ListedIsThere'
  BY <1>21 DEF RetryRecord, ListedIsThere, fileVars, Used, HasTask, HasRecord,
       TypeOK
<1>22. ASSUME NEW r \in Runs, NEW n \in Runs, RetryRun(r, n)
      PROVE  ListedIsThere'
  BY <1>22 DEF RetryRun, ListedIsThere, NewTask, fileVars, Used, HasTask,
       HasRecord, TypeOK
<1>23. ASSUME NEW r \in Runs, NEW n \in Runs, RerunTask(r, n)
      PROVE  ListedIsThere'
  BY <1>23 DEF RerunTask, ListedIsThere, fileVars, Used, HasTask, HasRecord,
       TypeOK
<1>24. ASSUME NEW r \in Runs, NEW n \in Runs, RerunRecord(r, n)
      PROVE  ListedIsThere'
  BY <1>24 DEF RerunRecord, ListedIsThere, fileVars, Used, HasTask, HasRecord,
       TypeOK
<1>25. ASSUME NEW n \in Runs, Message(n)  PROVE ListedIsThere'
  BY <1>25 DEF Message, ListedIsThere, rowVars, fileVars, Used, HasTask,
       HasRecord, TypeOK
<1>26. ASSUME NEW n \in Runs, CreateTask(n)  PROVE ListedIsThere'
  BY <1>26 DEF CreateTask, ListedIsThere, NewTask, fileVars, Used, HasTask,
       HasRecord, TypeOK
<1>27. CASE Answer
  BY <1>27 DEF Answer, ResumeTask, ResumeRecord, With, TaskEvents, RunEvents,
       Copied, UpdateSession, Start, fileVars, history, ListedIsThere, Used,
       HasTask, HasRecord, Final, Status, Open, TypeOK
<1>28. CASE Archive
  BY <1>28 DEF Archive, UpdateSession, Shown, CancelWorker, With, Synced,
       TaskEvents, RunEvents, Copied, rowVars, eventVars, workVars, fileVars,
       history, ListedIsThere, Used, HasTask, HasRecord, Final, Status, Open,
       TypeOK
<1>29. CASE Unarchive
  BY <1>29 DEF Unarchive, rowVars, fileVars, workVars, ListedIsThere, Used,
       HasTask, HasRecord, TypeOK
<1>30. CASE Crash
  BY <1>30 DEF Crash, ListedIsThere, Used, HasRecord, TypeOK
<1>31. CASE UNCHANGED vars
  BY <1>31 DEF vars, rowVars, fileVars, workVars, ListedIsThere, Used,
       HasTask, HasRecord, TypeOK
<1> QED
  BY <1>1, <1>2, <1>3, <1>4, <1>5, <1>6, <1>7, <1>8, <1>9, <1>10, <1>11,
       <1>12, <1>13, <1>14, <1>15, <1>16, <1>17, <1>18, <1>19, <1>20, <1>21,
       <1>22, <1>23, <1>24, <1>25, <1>26, <1>27, <1>28, <1>29, <1>30, <1>31
       DEF Next, Worker, About

\* What claims to be going on is worked on.
LEMMA WorkedStep ==
  ASSUME TypeOK, RecordIsWorkedOn, UnusedIsBlank, [Next]_vars
  PROVE  RecordIsWorkedOn'
<1>1. ASSUME NEW r \in Runs, Begin(r)  PROVE RecordIsWorkedOn'
  BY <1>1, BeginEffect, ConfIsFixed DEF RecordIsWorkedOn, Stop, Blank, Active,
       Used, HasTask, HasRecord, Final, TypeOK
<1>2. ASSUME NEW r \in Runs, Drop(r)  PROVE RecordIsWorkedOn'
  BY <1>2 DEF Drop, RecordIsWorkedOn, Stop, rowVars, Blank, Active, Used,
       HasTask, HasRecord, TypeOK
<1>3. ASSUME NEW r \in Runs, WriteFile(r)  PROVE RecordIsWorkedOn'
  BY <1>3 DEF WriteFile, RecordIsWorkedOn, rowVars, workVars, Blank, Active,
       Used, HasTask, HasRecord, TypeOK
<1>4. ASSUME NEW r \in Runs, AddRemoteArtifact(r)  PROVE RecordIsWorkedOn'
  BY <1>4 DEF AddRemoteArtifact, RecordIsWorkedOn, AddArtifact,
       MirrorArtifact, rowVars, workVars, Blank, Active, Used, HasTask,
       HasRecord, TypeOK
<1>5. ASSUME NEW r \in Runs, RequestInput(r)  PROVE RecordIsWorkedOn'
  BY <1>5, RequestInputEffect, ConfIsFixed DEF RecordIsWorkedOn, With, Blank,
       Active, Used, HasTask, HasRecord, TypeOK
<1>6. ASSUME NEW r \in Runs, Complete(r)  PROVE RecordIsWorkedOn'
  BY <1>6 DEF Complete, RecordIsWorkedOn, RegisterArtifacts, AddArtifact,
       MirrorArtifact, End, Synced, With, Stop, Copied, Blank, Active, Used,
       HasTask, HasRecord, TypeOK
<1>7. ASSUME NEW r \in Runs, AwaitInput(r)  PROVE RecordIsWorkedOn'
  BY <1>7 DEF AwaitInput, RecordIsWorkedOn, RegisterArtifacts, AddArtifact,
       MirrorArtifact, End, Synced, With, Stop, Copied, Blank, Active, Used,
       HasTask, HasRecord, TypeOK
<1>8. ASSUME NEW r \in Runs, Fail(r)  PROVE RecordIsWorkedOn'
  BY <1>8 DEF Fail, RecordIsWorkedOn, RegisterArtifacts, AddArtifact,
       MirrorArtifact, End, Synced, With, Stop, Copied, Blank, Active, Used,
       HasTask, HasRecord, TypeOK
<1>9. ASSUME NEW r \in Runs, AwaitApproval(r)  PROVE RecordIsWorkedOn'
  BY <1>9 DEF AwaitApproval, RecordIsWorkedOn, End, Synced, With, Stop,
       Copied, Blank, Active, Used, HasTask, HasRecord, TypeOK
<1>10. ASSUME NEW r \in Runs, Cancelled(r)  PROVE RecordIsWorkedOn'
  BY <1>10 DEF Cancelled, RecordIsWorkedOn, End, Synced, With, Stop, Copied,
       Blank, Active, Used, HasTask, HasRecord, TypeOK
<1>11. ASSUME NEW r \in Runs, CancelTask(r)  PROVE RecordIsWorkedOn'
  BY <1>11 DEF CancelTask, RecordIsWorkedOn, With, CancelWorker, Blank,
       Active, Used, HasTask, HasRecord, Status, Open, TypeOK
<1>12. ASSUME NEW r \in Runs, AnswerTask(r)  PROVE RecordIsWorkedOn'
  BY <1>12 DEF AnswerTask, RecordIsWorkedOn, With, Start, Blank, Active, Used,
       HasTask, HasRecord, TypeOK
<1>13. ASSUME NEW r \in Runs, DeleteTask(r)  PROVE RecordIsWorkedOn'
  BY <1>13 DEF DeleteTask, RecordIsWorkedOn, Forget, CancelWorker, Blank,
       Active, Used, HasTask, HasRecord, TypeOK
<1>14. ASSUME NEW r \in Runs, DeleteInterrupted(r)  PROVE RecordIsWorkedOn'
  BY <1>14 DEF DeleteInterrupted, RecordIsWorkedOn, Forget, Blank, Used,
       HasTask, HasRecord, TypeOK
<1>15. ASSUME NEW r \in Runs, Recover(r)  PROVE RecordIsWorkedOn'
  BY <1>15 DEF Recover, RecordIsWorkedOn, With, Start, Blank, Active, Used,
       HasTask, HasRecord, TypeOK
<1>16. ASSUME NEW r \in Runs, CancelRecord(r)  PROVE RecordIsWorkedOn'
  BY <1>16 DEF CancelRecord, RecordIsWorkedOn, With, CancelWorker, Blank,
       Active, Used, HasTask, HasRecord, TypeOK
<1>17. ASSUME NEW r \in Runs, CancelRun(r)  PROVE RecordIsWorkedOn'
  BY <1>17, CancelRunEffect, ConfIsFixed DEF RecordIsWorkedOn, With,
       CancelWorker, Blank, Active, Used, HasTask, HasRecord, TypeOK
<1>18. ASSUME NEW r \in Runs, NEW st \in {"cancelled", "completed"},
             ResolveTask(r, st)
      PROVE  RecordIsWorkedOn'
  BY <1>18, ResolveTaskEffect, ConfIsFixed DEF RecordIsWorkedOn, With, Blank,
       Active, Used, HasTask, HasRecord, TypeOK
<1>19. ASSUME NEW r \in Runs, NEW st \in {"cancelled", "completed"},
             ResolveRecord(r, st)
      PROVE  RecordIsWorkedOn'
  BY <1>19 DEF ResolveRecord, RecordIsWorkedOn, With, workVars, Blank, Active,
       Used, HasTask, HasRecord, TypeOK
<1>20. ASSUME NEW r \in Runs, NEW n \in Runs, RetryTask(r, n)
      PROVE  RecordIsWorkedOn'
  BY <1>20 DEF RetryTask, RecordIsWorkedOn, NewTask, Fresh, Start, Blank,
       Active, Used, HasTask, HasRecord, TypeOK
<1>21. ASSUME NEW r \in Runs, NEW n \in Runs, RetryRecord(r, n)
      PROVE  RecordIsWorkedOn'
  BY <1>21 DEF RetryRecord, RecordIsWorkedOn, NewRecord, Fresh, Start, Blank,
       Active, Used, HasTask, HasRecord, TypeOK
<1>22. ASSUME NEW r \in Runs, NEW n \in Runs, RetryRun(r, n)
      PROVE  RecordIsWorkedOn'
  BY <1>22 DEF RetryRun, RecordIsWorkedOn, NewTask, Fresh, Start, Blank,
       Active, Used, HasTask, HasRecord, TypeOK
<1>23. ASSUME NEW r \in Runs, NEW n \in Runs, RerunTask(r, n)
      PROVE  RecordIsWorkedOn'
  BY <1>23 DEF RerunTask, RecordIsWorkedOn, Shown, Fresh, Start, Blank,
       Active, Used, HasTask, HasRecord, TypeOK
<1>24. ASSUME NEW r \in Runs, NEW n \in Runs, RerunRecord(r, n)
      PROVE  RecordIsWorkedOn'
  BY <1>24 DEF RerunRecord, RecordIsWorkedOn, Shown, NewRecord, Fresh, Start,
       Blank, Active, Used, HasTask, HasRecord, TypeOK
<1>25. ASSUME NEW n \in Runs, Message(n)  PROVE RecordIsWorkedOn'
  BY <1>25 DEF Message, RecordIsWorkedOn, Fresh, Start, rowVars, Blank,
       Active, Used, HasTask, HasRecord, TypeOK
<1>26. ASSUME NEW n \in Runs, CreateTask(n)  PROVE RecordIsWorkedOn'
  BY <1>26 DEF CreateTask, RecordIsWorkedOn, NewTask, Fresh, Start, Blank,
       Active, Used, HasTask, HasRecord, TypeOK
<1>27. CASE Answer
  BY <1>27, AnswerEffect, ConfIsFixed DEF With, Start, RecordIsWorkedOn,
       Blank, Active, Used, HasTask, HasRecord, TypeOK
<1>28. CASE Archive
  BY <1>28, ArchiveEffect, ConfIsFixed DEF With, CancelWorker, Shown,
       RecordIsWorkedOn, Blank, Active, Used, HasTask, HasRecord, TypeOK
<1>29. CASE Unarchive
  BY <1>29 DEF Unarchive, rowVars, workVars, RecordIsWorkedOn, Blank, Active,
       Used, HasTask, HasRecord, TypeOK
<1>30. CASE Crash
  BY <1>30 DEF Crash, rowVars, RecordIsWorkedOn, Blank, Used, HasTask,
       HasRecord, TypeOK
<1>31. CASE UNCHANGED vars
  BY <1>31 DEF vars, rowVars, workVars, RecordIsWorkedOn, Blank, Active, Used,
       HasTask, HasRecord, TypeOK
<1> QED
  BY <1>1, <1>2, <1>3, <1>4, <1>5, <1>6, <1>7, <1>8, <1>9, <1>10, <1>11,
       <1>12, <1>13, <1>14, <1>15, <1>16, <1>17, <1>18, <1>19, <1>20, <1>21,
       <1>22, <1>23, <1>24, <1>25, <1>26, <1>27, <1>28, <1>29, <1>30, <1>31
       DEF Next, Worker, About

\* Workers have records,
LEMMA RecordsStep ==
  ASSUME TypeOK, WorkersHaveRecords, [Next]_vars
  PROVE  WorkersHaveRecords'
<1>1. ASSUME NEW r \in Runs, Begin(r)  PROVE WorkersHaveRecords'
  BY <1>1, BeginEffect, ConfIsFixed DEF WorkersHaveRecords, Stop, HasRecord,
       TypeOK
<1>2. ASSUME NEW r \in Runs, Drop(r)  PROVE WorkersHaveRecords'
  BY <1>2 DEF Drop, WorkersHaveRecords, Stop, rowVars, HasRecord, TypeOK
<1>3. ASSUME NEW r \in Runs, WriteFile(r)  PROVE WorkersHaveRecords'
  BY <1>3 DEF WriteFile, WorkersHaveRecords, rowVars, workVars, HasRecord,
       TypeOK
<1>4. ASSUME NEW r \in Runs, AddRemoteArtifact(r)  PROVE WorkersHaveRecords'
  BY <1>4 DEF AddRemoteArtifact, WorkersHaveRecords, AddArtifact,
       MirrorArtifact, rowVars, workVars, HasTask, HasRecord, TypeOK
<1>5. ASSUME NEW r \in Runs, RequestInput(r)  PROVE WorkersHaveRecords'
  BY <1>5, RequestInputEffect, ConfIsFixed DEF WorkersHaveRecords, Works,
       HasTask, HasRecord, TypeOK
<1>6. ASSUME NEW r \in Runs, Complete(r)  PROVE WorkersHaveRecords'
  BY <1>6 DEF Complete, WorkersHaveRecords, RegisterArtifacts, AddArtifact,
       MirrorArtifact, End, Synced, With, Stop, HasTask, HasRecord, TypeOK
<1>7. ASSUME NEW r \in Runs, AwaitInput(r)  PROVE WorkersHaveRecords'
  BY <1>7 DEF AwaitInput, WorkersHaveRecords, RegisterArtifacts, AddArtifact,
       MirrorArtifact, End, Synced, With, Stop, HasTask, HasRecord, TypeOK
<1>8. ASSUME NEW r \in Runs, Fail(r)  PROVE WorkersHaveRecords'
  BY <1>8 DEF Fail, WorkersHaveRecords, RegisterArtifacts, AddArtifact,
       MirrorArtifact, End, Synced, With, Stop, HasTask, HasRecord, TypeOK
<1>9. ASSUME NEW r \in Runs, AwaitApproval(r)  PROVE WorkersHaveRecords'
  BY <1>9 DEF AwaitApproval, WorkersHaveRecords, End, Synced, With, Stop,
       HasTask, HasRecord, TypeOK
<1>10. ASSUME NEW r \in Runs, Cancelled(r)  PROVE WorkersHaveRecords'
  BY <1>10 DEF Cancelled, WorkersHaveRecords, End, Synced, With, Stop,
       HasTask, HasRecord, TypeOK
<1>11. ASSUME NEW r \in Runs, CancelTask(r)  PROVE WorkersHaveRecords'
  BY <1>11 DEF CancelTask, WorkersHaveRecords, CancelWorker, HasTask,
       HasRecord, TypeOK
<1>12. ASSUME NEW r \in Runs, AnswerTask(r)  PROVE WorkersHaveRecords'
  BY <1>12 DEF AnswerTask, WorkersHaveRecords, Start, HasTask, HasRecord,
       TypeOK
<1>13. ASSUME NEW r \in Runs, DeleteTask(r)  PROVE WorkersHaveRecords'
  BY <1>13 DEF DeleteTask, WorkersHaveRecords, Forget, CancelWorker, HasTask,
       HasRecord, TypeOK
<1>14. ASSUME NEW r \in Runs, DeleteInterrupted(r)  PROVE WorkersHaveRecords'
  BY <1>14 DEF DeleteInterrupted, WorkersHaveRecords, Gone, HasTask,
       HasRecord, TypeOK
<1>15. ASSUME NEW r \in Runs, Recover(r)  PROVE WorkersHaveRecords'
  BY <1>15 DEF Recover, WorkersHaveRecords, Start, HasRecord, TypeOK
<1>16. ASSUME NEW r \in Runs, CancelRecord(r)  PROVE WorkersHaveRecords'
  BY <1>16 DEF CancelRecord, WorkersHaveRecords, With, CancelWorker, HasTask,
       HasRecord, TypeOK
<1>17. ASSUME NEW r \in Runs, CancelRun(r)  PROVE WorkersHaveRecords'
  BY <1>17, CancelRunEffect, ConfIsFixed DEF WorkersHaveRecords, With,
       CancelWorker, HasTask, HasRecord, TypeOK
<1>18. ASSUME NEW r \in Runs, NEW st \in {"cancelled", "completed"},
             ResolveTask(r, st)
      PROVE  WorkersHaveRecords'
  BY <1>18, ResolveTaskEffect, ConfIsFixed DEF WorkersHaveRecords, With,
       HasTask, HasRecord, TypeOK
<1>19. ASSUME NEW r \in Runs, NEW st \in {"cancelled", "completed"},
             ResolveRecord(r, st)
      PROVE  WorkersHaveRecords'
  BY <1>19 DEF ResolveRecord, WorkersHaveRecords, With, workVars, HasTask,
       HasRecord, TypeOK
<1>20. ASSUME NEW r \in Runs, NEW n \in Runs, RetryTask(r, n)
      PROVE  WorkersHaveRecords'
  BY <1>20 DEF RetryTask, WorkersHaveRecords, NewTask, Start, HasTask,
       HasRecord, TypeOK
<1>21. ASSUME NEW r \in Runs, NEW n \in Runs, RetryRecord(r, n)
      PROVE  WorkersHaveRecords'
  BY <1>21 DEF RetryRecord, WorkersHaveRecords, NewRecord, Start, HasTask,
       HasRecord, TypeOK
<1>22. ASSUME NEW r \in Runs, NEW n \in Runs, RetryRun(r, n)
      PROVE  WorkersHaveRecords'
  BY <1>22 DEF RetryRun, WorkersHaveRecords, NewTask, Start, HasTask,
       HasRecord, TypeOK
<1>23. ASSUME NEW r \in Runs, NEW n \in Runs, RerunTask(r, n)
      PROVE  WorkersHaveRecords'
  BY <1>23 DEF RerunTask, WorkersHaveRecords, Shown, Start, HasTask,
       HasRecord, TypeOK
<1>24. ASSUME NEW r \in Runs, NEW n \in Runs, RerunRecord(r, n)
      PROVE  WorkersHaveRecords'
  BY <1>24 DEF RerunRecord, WorkersHaveRecords, Shown, NewRecord, Start,
       HasTask, HasRecord, TypeOK
<1>25. ASSUME NEW n \in Runs, Message(n)  PROVE WorkersHaveRecords'
  BY <1>25 DEF Message, WorkersHaveRecords, Start, rowVars, HasRecord, TypeOK
<1>26. ASSUME NEW n \in Runs, CreateTask(n)  PROVE WorkersHaveRecords'
  BY <1>26 DEF CreateTask, WorkersHaveRecords, NewTask, Start, HasRecord,
       TypeOK
<1>27. CASE Answer
  BY <1>27, AnswerEffect, ConfIsFixed DEF With, Start, WorkersHaveRecords,
       HasTask, HasRecord, TypeOK
<1>28. CASE Archive
  BY <1>28, ArchiveEffect, ConfIsFixed DEF With, CancelWorker, Shown,
       WorkersHaveRecords, HasTask, HasRecord, TypeOK
<1>29. CASE Unarchive
  BY <1>29 DEF Unarchive, rowVars, workVars, WorkersHaveRecords, HasRecord,
       TypeOK
<1>30. CASE Crash
  BY <1>30 DEF Crash, Gone, rowVars, WorkersHaveRecords, HasRecord, TypeOK
<1>31. CASE UNCHANGED vars
  BY <1>31 DEF vars, rowVars, workVars, WorkersHaveRecords, HasRecord, TypeOK
<1> QED
  BY <1>1, <1>2, <1>3, <1>4, <1>5, <1>6, <1>7, <1>8, <1>9, <1>10, <1>11,
       <1>12, <1>13, <1>14, <1>15, <1>16, <1>17, <1>18, <1>19, <1>20, <1>21,
       <1>22, <1>23, <1>24, <1>25, <1>26, <1>27, <1>28, <1>29, <1>30, <1>31
       DEF Next, Worker, About

\* and tasks, unless they are told to stop.
LEMMA TasksStep ==
  ASSUME TypeOK, WorkersHaveTasks, [Next]_vars
  PROVE  WorkersHaveTasks'
<1>1. ASSUME NEW r \in Runs, Begin(r)  PROVE WorkersHaveTasks'
  BY <1>1, BeginEffect, ConfIsFixed DEF WorkersHaveTasks, Stop, HasTask,
       TypeOK
<1>2. ASSUME NEW r \in Runs, Drop(r)  PROVE WorkersHaveTasks'
  BY <1>2 DEF Drop, WorkersHaveTasks, Stop, rowVars, HasTask, TypeOK
<1>3. ASSUME NEW r \in Runs, WriteFile(r)  PROVE WorkersHaveTasks'
  BY <1>3 DEF WriteFile, WorkersHaveTasks, rowVars, workVars, HasTask, TypeOK
<1>4. ASSUME NEW r \in Runs, AddRemoteArtifact(r)  PROVE WorkersHaveTasks'
  BY <1>4 DEF AddRemoteArtifact, WorkersHaveTasks, rowVars, workVars, HasTask,
       TypeOK
<1>5. ASSUME NEW r \in Runs, RequestInput(r)  PROVE WorkersHaveTasks'
  BY <1>5, RequestInputEffect, ConfIsFixed DEF WorkersHaveTasks, With,
       HasTask, TypeOK
<1>6. ASSUME NEW r \in Runs, Complete(r)  PROVE WorkersHaveTasks'
  BY <1>6 DEF Complete, WorkersHaveTasks, RegisterArtifacts, AddArtifact,
       MirrorArtifact, End, With, Stop, HasTask, TypeOK
<1>7. ASSUME NEW r \in Runs, AwaitInput(r)  PROVE WorkersHaveTasks'
  BY <1>7 DEF AwaitInput, WorkersHaveTasks, RegisterArtifacts, AddArtifact,
       MirrorArtifact, End, With, Stop, HasTask, TypeOK
<1>8. ASSUME NEW r \in Runs, Fail(r)  PROVE WorkersHaveTasks'
  BY <1>8 DEF Fail, WorkersHaveTasks, RegisterArtifacts, AddArtifact,
       MirrorArtifact, End, With, Stop, HasTask, TypeOK
<1>9. ASSUME NEW r \in Runs, AwaitApproval(r)  PROVE WorkersHaveTasks'
  BY <1>9 DEF AwaitApproval, WorkersHaveTasks, End, With, Stop, HasTask,
       TypeOK
<1>10. ASSUME NEW r \in Runs, Cancelled(r)  PROVE WorkersHaveTasks'
  BY <1>10 DEF Cancelled, WorkersHaveTasks, End, With, Stop, HasTask, TypeOK
<1>11. ASSUME NEW r \in Runs, CancelTask(r)  PROVE WorkersHaveTasks'
  BY <1>11 DEF CancelTask, WorkersHaveTasks, With, CancelWorker, HasTask,
       TypeOK
<1>12. ASSUME NEW r \in Runs, AnswerTask(r)  PROVE WorkersHaveTasks'
  BY <1>12 DEF AnswerTask, WorkersHaveTasks, With, Start, HasTask, TypeOK
<1>13. ASSUME NEW r \in Runs, DeleteTask(r)  PROVE WorkersHaveTasks'
  BY <1>13 DEF DeleteTask, WorkersHaveTasks, Forget, CancelWorker, Copied,
       sessVars, Active, Works, HasTask, HasRecord, Final, Status, Open,
       TypeOK
<1>14. ASSUME NEW r \in Runs, DeleteInterrupted(r)  PROVE WorkersHaveTasks'
  BY <1>14 DEF DeleteInterrupted, WorkersHaveTasks, Gone, HasTask, TypeOK
<1>15. ASSUME NEW r \in Runs, Recover(r)  PROVE WorkersHaveTasks'
  BY <1>15 DEF Recover, WorkersHaveTasks, With, Start, HasTask, TypeOK
<1>16. ASSUME NEW r \in Runs, CancelRecord(r)  PROVE WorkersHaveTasks'
  BY <1>16 DEF CancelRecord, WorkersHaveTasks, CancelWorker, HasTask,
       HasRecord, TypeOK
<1>17. ASSUME NEW r \in Runs, CancelRun(r)  PROVE WorkersHaveTasks'
  BY <1>17, CancelRunEffect, ConfIsFixed DEF WorkersHaveTasks, With,
       CancelWorker, HasTask, TypeOK
<1>18. ASSUME NEW r \in Runs, NEW st \in {"cancelled", "completed"},
             ResolveTask(r, st)
      PROVE  WorkersHaveTasks'
  BY <1>18, ResolveTaskEffect, ConfIsFixed DEF WorkersHaveTasks, With,
       HasTask, TypeOK
<1>19. ASSUME NEW r \in Runs, NEW st \in {"cancelled", "completed"},
             ResolveRecord(r, st)
      PROVE  WorkersHaveTasks'
  BY <1>19 DEF ResolveRecord, WorkersHaveTasks, workVars, HasTask, TypeOK
<1>20. ASSUME NEW r \in Runs, NEW n \in Runs, RetryTask(r, n)
      PROVE  WorkersHaveTasks'
  BY <1>20 DEF RetryTask, WorkersHaveTasks, NewTask, Start, HasTask, TypeOK
<1>21. ASSUME NEW r \in Runs, NEW n \in Runs, RetryRecord(r, n)
      PROVE  WorkersHaveTasks'
  BY <1>21 DEF RetryRecord, WorkersHaveTasks, NewRecord, Start, HasTask,
       HasRecord, TypeOK
<1>22. ASSUME NEW r \in Runs, NEW n \in Runs, RetryRun(r, n)
      PROVE  WorkersHaveTasks'
  BY <1>22 DEF RetryRun, WorkersHaveTasks, NewTask, Start, HasTask, TypeOK
<1>23. ASSUME NEW r \in Runs, NEW n \in Runs, RerunTask(r, n)
      PROVE  WorkersHaveTasks'
  BY <1>23 DEF RerunTask, WorkersHaveTasks, Shown, Start, HasTask, TypeOK
<1>24. ASSUME NEW r \in Runs, NEW n \in Runs, RerunRecord(r, n)
      PROVE  WorkersHaveTasks'
  BY <1>24 DEF RerunRecord, WorkersHaveTasks, Shown, NewRecord, Start,
       HasTask, HasRecord, TypeOK
<1>25. ASSUME NEW n \in Runs, Message(n)  PROVE WorkersHaveTasks'
  BY <1>25 DEF Message, WorkersHaveTasks, Start, rowVars, HasTask, TypeOK
<1>26. ASSUME NEW n \in Runs, CreateTask(n)  PROVE WorkersHaveTasks'
  BY <1>26 DEF CreateTask, WorkersHaveTasks, NewTask, Start, HasTask, TypeOK
<1>27. CASE Answer
  BY <1>27, AnswerEffect, ConfIsFixed DEF With, Start, WorkersHaveTasks,
       HasTask, HasRecord, TypeOK
<1>28. CASE Archive
  BY <1>28, ArchiveEffect, ConfIsFixed DEF With, CancelWorker, Shown,
       WorkersHaveTasks, HasTask, TypeOK
<1>29. CASE Unarchive
  BY <1>29 DEF Unarchive, rowVars, workVars, WorkersHaveTasks, HasTask, TypeOK
<1>30. CASE Crash
  BY <1>30 DEF Crash, Gone, rowVars, WorkersHaveTasks, HasTask, TypeOK
<1>31. CASE UNCHANGED vars
  BY <1>31 DEF vars, rowVars, workVars, WorkersHaveTasks, HasTask, TypeOK
<1> QED
  BY <1>1, <1>2, <1>3, <1>4, <1>5, <1>6, <1>7, <1>8, <1>9, <1>10, <1>11,
       <1>12, <1>13, <1>14, <1>15, <1>16, <1>17, <1>18, <1>19, <1>20, <1>21,
       <1>22, <1>23, <1>24, <1>25, <1>26, <1>27, <1>28, <1>29, <1>30, <1>31
       DEF Next, Worker, About

-----------------------------------------------------------------------------
(***************************************************************************)
(* What a session waits for, and the answers.                              *)
(***************************************************************************)
\* What a session waits for stays open.
LEMMA WaitingStep ==
  ASSUME TypeOK, WaitingIsOpen, WorkersHaveRecords, WorkersHaveTasks,
         UnusedIsBlank, [Next]_vars
  PROVE  WaitingIsOpen'
<1>1. ASSUME NEW r \in Runs, Begin(r)  PROVE WaitingIsOpen'
  BY <1>1, BeginEffect, ConfIsFixed, RecordsAssumption DEF WaitingIsOpen,
       Stop, Blank, Used, Active, HasTask, HasRecord, TypeOK
<1>2. ASSUME NEW r \in Runs, Drop(r)  PROVE WaitingIsOpen'
  BY <1>2, RecordsAssumption DEF Drop, WaitingIsOpen, Stop, sessVars, rowVars,
       eventVars, Blank, Used, Active, HasTask, HasRecord, TypeOK
<1>3. ASSUME NEW r \in Runs, WriteFile(r)  PROVE WaitingIsOpen'
  BY <1>3, RecordsAssumption DEF WriteFile, WaitingIsOpen, sessVars, rowVars,
       eventVars, workVars, Blank, Used, Active, HasTask, HasRecord, TypeOK
<1>4. ASSUME NEW r \in Runs, AddRemoteArtifact(r)  PROVE WaitingIsOpen'
  BY <1>4, RecordsAssumption DEF AddRemoteArtifact, WaitingIsOpen,
       AddArtifact, MirrorArtifact, TaskEvents, sessVars, rowVars, workVars,
       Blank, Used, Active, HasTask, HasRecord, TypeOK
<1>5. ASSUME NEW r \in Runs, RequestInput(r)  PROVE WaitingIsOpen'
  BY <1>5, RequestInputEffect, ConfIsFixed, RecordsAssumption DEF
       WaitingIsOpen, With, Works, Blank, Used, Active, HasTask, HasRecord,
       TypeOK
<1>6. ASSUME NEW r \in Runs, Complete(r)  PROVE WaitingIsOpen'
  BY <1>6, RecordsAssumption DEF Complete, WaitingIsOpen, RegisterArtifacts,
       AddArtifact, MirrorArtifact, End, UpdateSession, Blank, Used, HasTask,
       HasRecord, TypeOK
<1>7. ASSUME NEW r \in Runs, AwaitInput(r)  PROVE WaitingIsOpen'
  BY <1>7, RecordsAssumption DEF AwaitInput, WaitingIsOpen, RegisterArtifacts,
       AddArtifact, MirrorArtifact, End, Synced, With, UpdateSession,
       WorkersHaveRecords, Blank, Used, HasTask, HasRecord, TypeOK
<1>8. ASSUME NEW r \in Runs, Fail(r)  PROVE WaitingIsOpen'
  BY <1>8, RecordsAssumption DEF Fail, WaitingIsOpen, RegisterArtifacts,
       AddArtifact, MirrorArtifact, End, UpdateSession, Blank, Used, HasTask,
       HasRecord, TypeOK
<1>9. ASSUME NEW r \in Runs, AwaitApproval(r)  PROVE WaitingIsOpen'
  BY <1>9, RecordsAssumption DEF AwaitApproval, WaitingIsOpen, Works, End,
       Synced, With, UpdateSession, Stop, Copied, WorkersHaveRecords,
       WorkersHaveTasks, Blank, Used, Active, HasTask, HasRecord, TypeOK
<1>10. ASSUME NEW r \in Runs, Cancelled(r)  PROVE WaitingIsOpen'
  BY <1>10, RecordsAssumption DEF Cancelled, WaitingIsOpen, End,
       UpdateSession, Blank, Used, HasTask, HasRecord, TypeOK
<1>11. ASSUME NEW r \in Runs, CancelTask(r)  PROVE WaitingIsOpen'
  BY <1>11, RecordsAssumption DEF CancelTask, WaitingIsOpen, Blank, Used,
       HasTask, HasRecord, TypeOK
<1>12. ASSUME NEW r \in Runs, AnswerTask(r)  PROVE WaitingIsOpen'
  BY <1>12, RecordsAssumption DEF AnswerTask, WaitingIsOpen, With, Start,
       TaskEvents, sessVars, Blank, Used, Active, HasTask, HasRecord, TypeOK
<1>13. ASSUME NEW r \in Runs, DeleteTask(r)  PROVE WaitingIsOpen'
  BY <1>13, RecordsAssumption DEF DeleteTask, WaitingIsOpen, Forget,
       CancelWorker, sessVars, Blank, Used, Active, HasTask, HasRecord, TypeOK
<1>14. ASSUME NEW r \in Runs, DeleteInterrupted(r)  PROVE WaitingIsOpen'
  BY <1>14, RecordsAssumption DEF DeleteInterrupted, WaitingIsOpen, Forget,
       Gone, sessVars, Blank, Used, Active, HasTask, HasRecord, TypeOK
<1>15. ASSUME NEW r \in Runs, Recover(r)  PROVE WaitingIsOpen'
  BY <1>15, RecordsAssumption DEF Recover, WaitingIsOpen, With, Start,
       sessVars, eventVars, Blank, Used, Active, HasTask, HasRecord, TypeOK
<1>16. ASSUME NEW r \in Runs, CancelRecord(r)  PROVE WaitingIsOpen'
  BY <1>16, RecordsAssumption DEF CancelRecord, WaitingIsOpen, With,
       CancelWorker, UpdateSession, sessVars, Blank, Used, Active, HasTask,
       HasRecord, TypeOK
<1>17. ASSUME NEW r \in Runs, CancelRun(r)  PROVE WaitingIsOpen'
  BY <1>17, CancelRunEffect, ConfIsFixed, RecordsAssumption DEF WaitingIsOpen,
       With, CancelWorker, Blank, Used, Active, HasTask, HasRecord, TypeOK
<1>18. ASSUME NEW r \in Runs, NEW st \in {"cancelled", "completed"},
             ResolveTask(r, st)
      PROVE  WaitingIsOpen'
  BY <1>18, ResolveTaskEffect, ConfIsFixed, RecordsAssumption DEF
       WaitingIsOpen, With, TaskOpen, Answered, Blank, Used, Active, HasTask,
       HasRecord, TypeOK
<1>19. ASSUME NEW r \in Runs, NEW st \in {"cancelled", "completed"},
             ResolveRecord(r, st)
      PROVE  WaitingIsOpen'
  BY <1>19, RecordsAssumption DEF ResolveRecord, WaitingIsOpen, AnsweredHere,
       With, UpdateSession, sessVars, workVars, Blank, Used, Active, HasTask,
       HasRecord, TypeOK
<1>20. ASSUME NEW r \in Runs, NEW n \in Runs, RetryTask(r, n)
      PROVE  WaitingIsOpen'
  BY <1>20, RecordsAssumption DEF RetryTask, WaitingIsOpen, NewTask, Fresh,
       Start, sessVars, Blank, Used, Active, HasTask, HasRecord, TypeOK
<1>21. ASSUME NEW r \in Runs, NEW n \in Runs, RetryRecord(r, n)
      PROVE  WaitingIsOpen'
  BY <1>21, RecordsAssumption DEF RetryRecord, WaitingIsOpen, NewRecord,
       UpdateSession, Blank, Used, HasTask, HasRecord, TypeOK
<1>22. ASSUME NEW r \in Runs, NEW n \in Runs, RetryRun(r, n)
      PROVE  WaitingIsOpen'
  BY <1>22, RecordsAssumption DEF RetryRun, WaitingIsOpen, UpdateSession,
       Blank, Used, HasTask, HasRecord, TypeOK
<1>23. ASSUME NEW r \in Runs, NEW n \in Runs, RerunTask(r, n)
      PROVE  WaitingIsOpen'
  BY <1>23, RecordsAssumption DEF RerunTask, WaitingIsOpen, Shown, Start,
       UpdateSession, Blank, Used, HasTask, HasRecord, TypeOK
<1>24. ASSUME NEW r \in Runs, NEW n \in Runs, RerunRecord(r, n)
      PROVE  WaitingIsOpen'
  BY <1>24, RecordsAssumption DEF RerunRecord, WaitingIsOpen, Shown,
       NewRecord, UpdateSession, Blank, Used, HasTask, HasRecord, TypeOK
<1>25. ASSUME NEW n \in Runs, Message(n)  PROVE WaitingIsOpen'
  BY <1>25, RecordsAssumption DEF Message, WaitingIsOpen, UpdateSession,
       Blank, Used, HasTask, HasRecord, TypeOK
<1>26. ASSUME NEW n \in Runs, CreateTask(n)  PROVE WaitingIsOpen'
  BY <1>26, RecordsAssumption DEF CreateTask, WaitingIsOpen, NewTask, Fresh,
       Start, sessVars, Blank, Used, Active, HasTask, HasRecord, TypeOK
<1>27. CASE Answer
  BY <1>27, AnswerEffect, ConfIsFixed, RecordsAssumption DEF WaitingIsOpen,
       Blank, Used, HasTask, HasRecord, TypeOK
<1>28. CASE Archive
  BY <1>28, ArchiveEffect, ConfIsFixed, RecordsAssumption DEF CancelWorker,
       Shown, WaitingIsOpen, Blank, Used, HasTask, HasRecord, TypeOK
<1>29. CASE Unarchive
  BY <1>29, RecordsAssumption DEF Unarchive, UpdateSession, workVars,
       WaitingIsOpen, Blank, Used, HasTask, HasRecord, TypeOK
<1>30. CASE Crash
  BY <1>30, RecordsAssumption DEF Crash, Gone, sessVars, rowVars, eventVars,
       WaitingIsOpen, Blank, Used, Active, HasTask, HasRecord, TypeOK
<1>31. CASE UNCHANGED vars
  BY <1>31, RecordsAssumption DEF vars, sessVars, rowVars, eventVars,
       workVars, WaitingIsOpen, Blank, Used, Active, HasTask, HasRecord,
       TypeOK
<1> QED
  BY <1>1, <1>2, <1>3, <1>4, <1>5, <1>6, <1>7, <1>8, <1>9, <1>10, <1>11,
       <1>12, <1>13, <1>14, <1>15, <1>16, <1>17, <1>18, <1>19, <1>20, <1>21,
       <1>22, <1>23, <1>24, <1>25, <1>26, <1>27, <1>28, <1>29, <1>30, <1>31
       DEF Next, Worker, About

\* A run asks once.
LEMMA AskedStep ==
  ASSUME TypeOK, AskedOnce, UnusedIsBlank, [Next]_vars
  PROVE  AskedOnce'
<1>1. ASSUME NEW r \in Runs, Begin(r)  PROVE AskedOnce'
  BY <1>1, BeginEffect, ConfIsFixed, RecordsAssumption DEF AskedOnce, Stop,
       Asked, Blank, Active, Used, HasTask, HasRecord, TypeOK
<1>2. ASSUME NEW r \in Runs, Drop(r)  PROVE AskedOnce'
  BY <1>2, RecordsAssumption DEF Drop, AskedOnce, Stop, sessVars, rowVars,
       eventVars, Asked, Blank, Active, Used, HasTask, HasRecord, TypeOK
<1>3. ASSUME NEW r \in Runs, WriteFile(r)  PROVE AskedOnce'
  BY <1>3, RecordsAssumption DEF WriteFile, AskedOnce, sessVars, rowVars,
       eventVars, workVars, Asked, Blank, Active, Used, HasTask, HasRecord,
       TypeOK
<1>4. ASSUME NEW r \in Runs, AddRemoteArtifact(r)  PROVE AskedOnce'
  BY <1>4, RecordsAssumption DEF AddRemoteArtifact, AskedOnce, AddArtifact,
       MirrorArtifact, TaskEvents, sessVars, rowVars, workVars, Asked, Blank,
       Active, Used, HasTask, HasRecord, TypeOK
<1>5. ASSUME NEW r \in Runs, RequestInput(r)  PROVE AskedOnce'
  BY <1>5, RequestInputEffect, ConfIsFixed, RecordsAssumption DEF AskedOnce,
       With, Works, Asked, Blank, Active, Used, HasTask, HasRecord, TypeOK
<1>6. ASSUME NEW r \in Runs, Complete(r)  PROVE AskedOnce'
  BY <1>6, RecordsAssumption DEF Complete, AskedOnce, RegisterArtifacts,
       AddArtifact, MirrorArtifact, End, With, UpdateSession, Stop,
       TaskEvents, Asked, Blank, Active, Used, HasTask, HasRecord, TypeOK
<1>7. ASSUME NEW r \in Runs, AwaitInput(r)  PROVE AskedOnce'
  BY <1>7, RecordsAssumption DEF AwaitInput, AskedOnce, RegisterArtifacts,
       AddArtifact, MirrorArtifact, End, With, UpdateSession, Stop,
       TaskEvents, Asked, Blank, Active, Used, HasTask, HasRecord, TypeOK
<1>8. ASSUME NEW r \in Runs, Fail(r)  PROVE AskedOnce'
  BY <1>8, RecordsAssumption DEF Fail, AskedOnce, RegisterArtifacts,
       AddArtifact, MirrorArtifact, End, With, UpdateSession, Stop,
       TaskEvents, Asked, Blank, Active, Used, HasTask, HasRecord, TypeOK
<1>9. ASSUME NEW r \in Runs, AwaitApproval(r)  PROVE AskedOnce'
  BY <1>9, RecordsAssumption DEF AwaitApproval, AskedOnce, End, With,
       UpdateSession, Stop, Asked, Blank, Active, Used, HasTask, HasRecord,
       TypeOK
<1>10. ASSUME NEW r \in Runs, Cancelled(r)  PROVE AskedOnce'
  BY <1>10, RecordsAssumption DEF Cancelled, AskedOnce, End, With,
       UpdateSession, Stop, TaskEvents, Asked, Blank, Active, Used, HasTask,
       HasRecord, TypeOK
<1>11. ASSUME NEW r \in Runs, CancelTask(r)  PROVE AskedOnce'
  BY <1>11, RecordsAssumption DEF CancelTask, AskedOnce, With, CancelWorker,
       TaskEvents, sessVars, Asked, Blank, Active, Used, HasTask, HasRecord,
       TypeOK
<1>12. ASSUME NEW r \in Runs, AnswerTask(r)  PROVE AskedOnce'
  BY <1>12, RecordsAssumption DEF AnswerTask, AskedOnce, With, Start,
       TaskEvents, sessVars, Asked, Blank, Active, Used, HasTask, HasRecord,
       TypeOK
<1>13. ASSUME NEW r \in Runs, DeleteTask(r)  PROVE AskedOnce'
  BY <1>13, RecordsAssumption DEF DeleteTask, AskedOnce, Forget, CancelWorker,
       sessVars, Asked, Blank, Active, Used, HasTask, HasRecord, TypeOK
<1>14. ASSUME NEW r \in Runs, DeleteInterrupted(r)  PROVE AskedOnce'
  BY <1>14, RecordsAssumption DEF DeleteInterrupted, AskedOnce, Forget, Gone,
       sessVars, Asked, Blank, Active, Used, HasTask, HasRecord, TypeOK
<1>15. ASSUME NEW r \in Runs, Recover(r)  PROVE AskedOnce'
  BY <1>15, RecordsAssumption DEF Recover, AskedOnce, With, Start, sessVars,
       eventVars, Asked, Blank, Active, Used, HasTask, HasRecord, TypeOK
<1>16. ASSUME NEW r \in Runs, CancelRecord(r)  PROVE AskedOnce'
  BY <1>16, RecordsAssumption DEF CancelRecord, AskedOnce, CancelWorker,
       UpdateSession, sessVars, Asked, Blank, Active, Used, HasTask,
       HasRecord, TypeOK
<1>17. ASSUME NEW r \in Runs, CancelRun(r)  PROVE AskedOnce'
  BY <1>17, CancelRunEffect, ConfIsFixed, RecordsAssumption DEF AskedOnce,
       With, CancelWorker, Asked, Blank, Active, Used, HasTask, HasRecord,
       TypeOK
<1>18. ASSUME NEW r \in Runs, NEW st \in {"cancelled", "completed"},
             ResolveTask(r, st)
      PROVE  AskedOnce'
  BY <1>18, ResolveTaskEffect, ConfIsFixed, RecordsAssumption DEF AskedOnce,
       With, TaskOpen, Answered, Asked, Blank, Active, Used, HasTask,
       HasRecord, TypeOK
<1>19. ASSUME NEW r \in Runs, NEW st \in {"cancelled", "completed"},
             ResolveRecord(r, st)
      PROVE  AskedOnce'
  BY <1>19, RecordsAssumption DEF ResolveRecord, AskedOnce, RecordOpen,
       AnsweredHere, With, UpdateSession, sessVars, workVars, Asked, Blank,
       Active, Used, HasTask, HasRecord, TypeOK
<1>20. ASSUME NEW r \in Runs, NEW n \in Runs, RetryTask(r, n)
      PROVE  AskedOnce'
  BY <1>20, RecordsAssumption DEF RetryTask, AskedOnce, NewTask, Fresh, Start,
       sessVars, Asked, UnusedIsBlank, Blank, Active, Used, HasTask,
       HasRecord, TypeOK
<1>21. ASSUME NEW r \in Runs, NEW n \in Runs, RetryRecord(r, n)
      PROVE  AskedOnce'
  BY <1>21, RecordsAssumption DEF RetryRecord, AskedOnce, NewRecord, Fresh,
       Start, UpdateSession, Asked, UnusedIsBlank, Blank, Active, Used,
       HasTask, HasRecord, TypeOK
<1>22. ASSUME NEW r \in Runs, NEW n \in Runs, RetryRun(r, n)  PROVE AskedOnce'
  BY <1>22, RecordsAssumption DEF RetryRun, AskedOnce, NewTask, Fresh, Start,
       UpdateSession, Asked, UnusedIsBlank, Blank, Active, Used, HasTask,
       HasRecord, TypeOK
<1>23. ASSUME NEW r \in Runs, NEW n \in Runs, RerunTask(r, n)
      PROVE  AskedOnce'
  BY <1>23, RecordsAssumption DEF RerunTask, AskedOnce, TaskOpen, Shown,
       Fresh, Start, Answered, UpdateSession, Asked, UnusedIsBlank, Blank,
       Active, Used, HasTask, HasRecord, TypeOK
<1>24. ASSUME NEW r \in Runs, NEW n \in Runs, RerunRecord(r, n)
      PROVE  AskedOnce'
  BY <1>24, RecordsAssumption DEF RerunRecord, AskedOnce, RecordOpen, Shown,
       NewRecord, Fresh, Start, AnsweredHere, UpdateSession, Asked,
       UnusedIsBlank, Blank, Active, Used, HasTask, HasRecord, TypeOK
<1>25. ASSUME NEW n \in Runs, Message(n)  PROVE AskedOnce'
  BY <1>25, RecordsAssumption DEF Message, AskedOnce, Fresh, UpdateSession,
       Start, rowVars, eventVars, Asked, UnusedIsBlank, Blank, Active, Used,
       HasTask, HasRecord, TypeOK
<1>26. ASSUME NEW n \in Runs, CreateTask(n)  PROVE AskedOnce'
  BY <1>26, RecordsAssumption DEF CreateTask, AskedOnce, NewTask, Fresh,
       Start, sessVars, Asked, UnusedIsBlank, Blank, Active, Used, HasTask,
       HasRecord, TypeOK
<1>27. CASE Answer
  BY <1>27, AnswerEffect, ConfIsFixed, RecordsAssumption DEF With, Start,
       AskedOnce, Asked, Blank, Active, Used, HasTask, HasRecord, TypeOK
<1>28. CASE Archive
  BY <1>28, ArchiveEffect, ConfIsFixed, RecordsAssumption DEF With,
       CancelWorker, Shown, AskedOnce, Asked, Blank, Active, Used, HasTask,
       HasRecord, TypeOK
<1>29. CASE Unarchive
  BY <1>29, RecordsAssumption DEF Unarchive, UpdateSession, rowVars,
       eventVars, workVars, AskedOnce, Asked, Blank, Active, Used, HasTask,
       HasRecord, TypeOK
<1>30. CASE Crash
  BY <1>30, RecordsAssumption DEF Crash, Gone, sessVars, rowVars, eventVars,
       AskedOnce, Asked, Blank, Active, Used, HasTask, HasRecord, TypeOK
<1>31. CASE UNCHANGED vars
  BY <1>31, RecordsAssumption DEF vars, sessVars, rowVars, eventVars,
       workVars, AskedOnce, Asked, Blank, Active, Used, HasTask, HasRecord,
       TypeOK
<1> QED
  BY <1>1, <1>2, <1>3, <1>4, <1>5, <1>6, <1>7, <1>8, <1>9, <1>10, <1>11,
       <1>12, <1>13, <1>14, <1>15, <1>16, <1>17, <1>18, <1>19, <1>20, <1>21,
       <1>22, <1>23, <1>24, <1>25, <1>26, <1>27, <1>28, <1>29, <1>30, <1>31
       DEF Next, Worker, About

\* The copy of the request counts the answers.
LEMMA CountsStep ==
  ASSUME TypeOK, CopyCounts, AskedOnce, UnusedIsBlank, [Next]_vars
  PROVE  CopyCounts'
<1>1. ASSUME NEW r \in Runs, Begin(r)  PROVE CopyCounts'
  BY <1>1, BeginEffect, ConfIsFixed, RecordsAssumption DEF CopyCounts,
       AskedOnce, Asked, Blank, Active, Used, TaskOpen, HasTask, HasRecord,
       TypeOK
<1>2. ASSUME NEW r \in Runs, Drop(r)  PROVE CopyCounts'
  BY <1>2 DEF Drop, CopyCounts, rowVars, eventVars, history, Asked, Blank,
       Used, TaskOpen, HasTask, HasRecord, TypeOK
<1>3. ASSUME NEW r \in Runs, WriteFile(r)  PROVE CopyCounts'
  BY <1>3 DEF WriteFile, CopyCounts, rowVars, eventVars, workVars, history,
       Asked, Blank, Used, TaskOpen, HasTask, HasRecord, TypeOK
<1>4. ASSUME NEW r \in Runs, AddRemoteArtifact(r)  PROVE CopyCounts'
  BY <1>4 DEF AddRemoteArtifact, CopyCounts, AddArtifact, MirrorArtifact,
       TaskEvents, rowVars, workVars, history, Asked, Blank, Used, TaskOpen,
       HasTask, HasRecord, TypeOK
<1>5. ASSUME NEW r \in Runs, RequestInput(r)  PROVE CopyCounts'
  BY <1>5, RequestInputEffect, ConfIsFixed, RecordsAssumption DEF CopyCounts,
       With, Asked, Blank, Used, TaskOpen, HasTask, HasRecord, TypeOK
<1>6. ASSUME NEW r \in Runs, Complete(r)  PROVE CopyCounts'
  BY <1>6 DEF Complete, CopyCounts, RegisterArtifacts, AddArtifact,
       MirrorArtifact, End, With, TaskEvents, history, Asked, Blank, Used,
       TaskOpen, HasTask, HasRecord, TypeOK
<1>7. ASSUME NEW r \in Runs, AwaitInput(r)  PROVE CopyCounts'
  BY <1>7 DEF AwaitInput, CopyCounts, RegisterArtifacts, AddArtifact,
       MirrorArtifact, End, With, TaskEvents, history, Asked, Blank, Used,
       TaskOpen, HasTask, HasRecord, TypeOK
<1>8. ASSUME NEW r \in Runs, Fail(r)  PROVE CopyCounts'
  BY <1>8 DEF Fail, CopyCounts, RegisterArtifacts, AddArtifact,
       MirrorArtifact, End, With, TaskEvents, history, Asked, Blank, Used,
       TaskOpen, HasTask, HasRecord, TypeOK
<1>9. ASSUME NEW r \in Runs, AwaitApproval(r)  PROVE CopyCounts'
  BY <1>9 DEF AwaitApproval, CopyCounts, Works, End, Synced, With, Copied,
       history, AskedOnce, Asked, Blank, Active, Used, TaskOpen, HasTask,
       HasRecord, TypeOK
<1>10. ASSUME NEW r \in Runs, Cancelled(r)  PROVE CopyCounts'
  BY <1>10 DEF Cancelled, CopyCounts, End, With, TaskEvents, history, Asked,
       Blank, Used, TaskOpen, HasTask, HasRecord, TypeOK
<1>11. ASSUME NEW r \in Runs, CancelTask(r)  PROVE CopyCounts'
  BY <1>11 DEF CancelTask, CopyCounts, With, CancelWorker, TaskEvents,
       history, Asked, Blank, Used, TaskOpen, HasTask, HasRecord, TypeOK
<1>12. ASSUME NEW r \in Runs, AnswerTask(r)  PROVE CopyCounts'
  BY <1>12 DEF AnswerTask, CopyCounts, With, TaskEvents, history, Asked,
       Blank, Used, TaskOpen, HasTask, HasRecord, TypeOK
<1>13. ASSUME NEW r \in Runs, DeleteTask(r)  PROVE CopyCounts'
  BY <1>13 DEF DeleteTask, CopyCounts, Forget, CancelWorker, Asked, Blank,
       Used, TaskOpen, HasTask, HasRecord, TypeOK
<1>14. ASSUME NEW r \in Runs, DeleteInterrupted(r)  PROVE CopyCounts'
  BY <1>14 DEF DeleteInterrupted, CopyCounts, Forget, Asked, Blank, Used,
       TaskOpen, HasTask, HasRecord, TypeOK
<1>15. ASSUME NEW r \in Runs, Recover(r)  PROVE CopyCounts'
  BY <1>15 DEF Recover, CopyCounts, With, eventVars, history, Asked, Blank,
       Used, TaskOpen, HasTask, HasRecord, TypeOK
<1>16. ASSUME NEW r \in Runs, CancelRecord(r)  PROVE CopyCounts'
  BY <1>16 DEF CancelRecord, CopyCounts, CancelWorker, history, Asked, Blank,
       Used, TaskOpen, HasTask, HasRecord, TypeOK
<1>17. ASSUME NEW r \in Runs, CancelRun(r)  PROVE CopyCounts'
  BY <1>17, CancelRunEffect, ConfIsFixed, RecordsAssumption DEF CopyCounts,
       With, CancelWorker, Asked, Blank, Used, TaskOpen, HasTask, HasRecord,
       TypeOK
<1>18. ASSUME NEW r \in Runs, NEW st \in {"cancelled", "completed"},
             ResolveTask(r, st)
      PROVE  CopyCounts'
  BY <1>18, ResolveTaskEffect, ConfIsFixed, RecordsAssumption DEF CopyCounts,
       With, TaskOpen, Answered, Asked, Blank, Used, HasTask, HasRecord,
       TypeOK
<1>19. ASSUME NEW r \in Runs, NEW st \in {"cancelled", "completed"},
             ResolveRecord(r, st)
      PROVE  CopyCounts'
  BY <1>19 DEF ResolveRecord, CopyCounts, RecordOpen, AnsweredHere, With,
       workVars, history, Asked, Blank, Used, TaskOpen, HasTask, HasRecord,
       TypeOK
<1>20. ASSUME NEW r \in Runs, NEW n \in Runs, RetryTask(r, n)
      PROVE  CopyCounts'
  BY <1>20 DEF RetryTask, CopyCounts, NewTask, Fresh, history, Asked,
       UnusedIsBlank, Blank, Used, TaskOpen, HasTask, HasRecord, TypeOK
<1>21. ASSUME NEW r \in Runs, NEW n \in Runs, RetryRecord(r, n)
      PROVE  CopyCounts'
  BY <1>21 DEF RetryRecord, CopyCounts, history, Asked, Blank, Used, TaskOpen,
       HasTask, HasRecord, TypeOK
<1>22. ASSUME NEW r \in Runs, NEW n \in Runs, RetryRun(r, n)
      PROVE  CopyCounts'
  BY <1>22 DEF RetryRun, CopyCounts, NewTask, Fresh, history, Asked,
       UnusedIsBlank, Blank, Used, TaskOpen, HasTask, HasRecord, TypeOK
<1>23. ASSUME NEW r \in Runs, NEW n \in Runs, RerunTask(r, n)
      PROVE  CopyCounts'
  BY <1>23 DEF RerunTask, CopyCounts, TaskOpen, Shown, Fresh, Answered,
       Copied, Count, Asked, UnusedIsBlank, Blank, Used, HasTask, HasRecord,
       TypeOK
<1>24. ASSUME NEW r \in Runs, NEW n \in Runs, RerunRecord(r, n)
      PROVE  CopyCounts'
  BY <1>24 DEF RerunRecord, CopyCounts, RecordOpen, Shown, NewRecord,
       AnsweredHere, Count, Asked, Blank, Used, TaskOpen, HasTask, HasRecord,
       TypeOK
<1>25. ASSUME NEW n \in Runs, Message(n)  PROVE CopyCounts'
  BY <1>25 DEF Message, CopyCounts, rowVars, eventVars, history, Asked, Blank,
       Used, TaskOpen, HasTask, HasRecord, TypeOK
<1>26. ASSUME NEW n \in Runs, CreateTask(n)  PROVE CopyCounts'
  BY <1>26 DEF CreateTask, CopyCounts, NewTask, Fresh, history, Asked,
       UnusedIsBlank, Blank, Used, TaskOpen, HasTask, HasRecord, TypeOK
<1>27. CASE Answer
  BY <1>27, AnswerEffect, ConfIsFixed, RecordsAssumption DEF With, CopyCounts,
       Asked, Blank, Used, TaskOpen, HasTask, HasRecord, TypeOK
<1>28. CASE Archive
  BY <1>28, ArchiveEffect, ConfIsFixed, RecordsAssumption DEF With,
       CancelWorker, Shown, CopyCounts, Asked, Blank, Used, TaskOpen, HasTask,
       HasRecord, TypeOK
<1>29. CASE Unarchive
  BY <1>29 DEF Unarchive, rowVars, eventVars, workVars, history, CopyCounts,
       Asked, Blank, Used, TaskOpen, HasTask, HasRecord, TypeOK
<1>30. CASE Crash
  BY <1>30 DEF Crash, rowVars, eventVars, history, CopyCounts, Asked, Blank,
       Used, TaskOpen, HasTask, HasRecord, TypeOK
<1>31. CASE UNCHANGED vars
  BY <1>31 DEF vars, rowVars, eventVars, workVars, history, CopyCounts, Asked,
       Blank, Used, TaskOpen, HasTask, HasRecord, TypeOK
<1> QED
  BY <1>1, <1>2, <1>3, <1>4, <1>5, <1>6, <1>7, <1>8, <1>9, <1>10, <1>11,
       <1>12, <1>13, <1>14, <1>15, <1>16, <1>17, <1>18, <1>19, <1>20, <1>21,
       <1>22, <1>23, <1>24, <1>25, <1>26, <1>27, <1>28, <1>29, <1>30, <1>31
       DEF Next, Worker, About

-----------------------------------------------------------------------------
(***************************************************************************)
(* Types.                                                                  *)
(***************************************************************************)
\* The types of the session and of the rows of runs, ...
RowTypes ==
    /\ conf \in Confs /\ scur \in Runs \cup {None}
    /\ sstat \in {"idle", "running", "waiting_input", "waiting_approval", "archived"}
    /\ task \in [Runs -> Status \cup {"none"}] /\ rec \in [Runs -> Status \cup {"none"}]

\* ... of what their events say, ...
EventTypes ==
    /\ aligned \in BOOLEAN
    /\ ask \in [Runs -> {"none", "requested", "resolved"}]
    /\ copy \in [Runs -> {"none", "same", "other", "answered", "late"}]
    /\ reruns \in [Runs -> Nat]
    /\ deleted \subseteq Runs

\* ... of the files and artifacts, ...
FileTypes ==
    /\ art \in [Runs -> SUBSET {"local", "remote"}] /\ mir \in [Runs -> SUBSET {"local", "remote"}]
    /\ disk \in [Runs -> BOOLEAN]

\* ... and of the workers.
WorkTypes ==
    /\ told \in [Runs -> BOOLEAN]
    /\ worker \in [Runs -> {"none", "scheduled", "running", "asked"}]

\* The type invariant by kinds of variables.
LEMMA Types == TypeOK <=> /\ RowTypes /\ EventTypes /\ FileTypes /\ WorkTypes
                          /\ Cardinality(Used) <= conf.limit
<1> QED  BY DEF TypeOK, RowTypes, EventTypes, FileTypes, WorkTypes

\* Rows,
LEMMA RowTypesStep ==
  ASSUME RowTypes, [Next]_vars
  PROVE  RowTypes'
<1>1. ASSUME NEW r \in Runs, Begin(r)  PROVE RowTypes'
  BY <1>1, RecordsAssumption DEF Begin, RowTypes, Stop, UpdateSession, Copied,
       With, sessVars, rowVars, eventVars, fileVars, history, Final, Status,
       Open
<1>2. ASSUME NEW r \in Runs, Drop(r)  PROVE RowTypes'
  BY <1>2, RecordsAssumption DEF Drop, RowTypes, sessVars, rowVars
<1>3. ASSUME NEW r \in Runs, WriteFile(r)  PROVE RowTypes'
  BY <1>3, RecordsAssumption DEF WriteFile, RowTypes, sessVars, rowVars,
       workVars
<1>4. ASSUME NEW r \in Runs, AddRemoteArtifact(r)  PROVE RowTypes'
  BY <1>4, RecordsAssumption DEF AddRemoteArtifact, RowTypes, sessVars,
       rowVars, workVars
<1>5. ASSUME NEW r \in Runs, RequestInput(r)  PROVE RowTypes'
  BY <1>5, RecordsAssumption DEF RequestInput, RowTypes, With, sessVars,
       Status
<1>6. ASSUME NEW r \in Runs, Complete(r)  PROVE RowTypes'
  BY <1>6, RecordsAssumption DEF Complete, RowTypes, RegisterArtifacts,
       AddArtifact, MirrorArtifact, End, Synced, With, UpdateSession, Final,
       Status
<1>7. ASSUME NEW r \in Runs, AwaitInput(r)  PROVE RowTypes'
  BY <1>7, RecordsAssumption DEF AwaitInput, RowTypes, RegisterArtifacts,
       AddArtifact, MirrorArtifact, End, Synced, With, UpdateSession, Status
<1>8. ASSUME NEW r \in Runs, Fail(r)  PROVE RowTypes'
  BY <1>8, RecordsAssumption DEF Fail, RowTypes, RegisterArtifacts,
       AddArtifact, MirrorArtifact, End, Synced, With, UpdateSession, Final,
       Status
<1>9. ASSUME NEW r \in Runs, AwaitApproval(r)  PROVE RowTypes'
  BY <1>9, RecordsAssumption DEF AwaitApproval, RowTypes, End, Synced, With,
       UpdateSession, Status
<1>10. ASSUME NEW r \in Runs, Cancelled(r)  PROVE RowTypes'
  BY <1>10, RecordsAssumption DEF Cancelled, RowTypes, End, Synced, With,
       UpdateSession, Final, Status
<1>11. ASSUME NEW r \in Runs, CancelTask(r)  PROVE RowTypes'
  BY <1>11, RecordsAssumption DEF CancelTask, RowTypes, With, CancelWorker,
       sessVars, Final, Status
<1>12. ASSUME NEW r \in Runs, AnswerTask(r)  PROVE RowTypes'
  BY <1>12, RecordsAssumption DEF AnswerTask, RowTypes, With, sessVars, Status
<1>13. ASSUME NEW r \in Runs, DeleteTask(r)  PROVE RowTypes'
  BY <1>13, RecordsAssumption DEF DeleteTask, RowTypes, Forget, CancelWorker,
       sessVars
<1>14. ASSUME NEW r \in Runs, DeleteInterrupted(r)  PROVE RowTypes'
  BY <1>14, RecordsAssumption DEF DeleteInterrupted, RowTypes, Forget,
       sessVars
<1>15. ASSUME NEW r \in Runs, Recover(r)  PROVE RowTypes'
  BY <1>15, RecordsAssumption DEF Recover, RowTypes, With, sessVars, Status
<1>16. ASSUME NEW r \in Runs, CancelRecord(r)  PROVE RowTypes'
  BY <1>16, RecordsAssumption DEF CancelRecord, RowTypes, With, CancelWorker,
       UpdateSession, sessVars, Final, Status
<1>17. ASSUME NEW r \in Runs, CancelRun(r)  PROVE RowTypes'
  BY <1>17, RecordsAssumption DEF CancelRun, RowTypes, With, CancelWorker,
       TaskEvents, Copied, Synced, UpdateSession, sessVars, eventVars,
       workVars, fileVars, history, Final, Status, Open
<1>18. ASSUME NEW r \in Runs, NEW st \in {"cancelled", "completed"},
             ResolveTask(r, st)
      PROVE  RowTypes'
  BY <1>18, RecordsAssumption DEF ResolveTask, RowTypes, TaskOpen, Answered,
       With, Synced, Copied, UpdateSession, sessVars, rowVars, fileVars,
       workVars, history, Final, Status, Open
<1>19. ASSUME NEW r \in Runs, NEW st \in {"cancelled", "completed"},
             ResolveRecord(r, st)
      PROVE  RowTypes'
  BY <1>19, RecordsAssumption DEF ResolveRecord, RowTypes, With,
       UpdateSession, sessVars, workVars, Final, Status
<1>20. ASSUME NEW r \in Runs, NEW n \in Runs, RetryTask(r, n)  PROVE RowTypes'
  BY <1>20, RecordsAssumption DEF RetryTask, RowTypes, NewTask, sessVars,
       Status
<1>21. ASSUME NEW r \in Runs, NEW n \in Runs, RetryRecord(r, n)
      PROVE  RowTypes'
  BY <1>21, RecordsAssumption DEF RetryRecord, RowTypes, NewRecord,
       UpdateSession, Status
<1>22. ASSUME NEW r \in Runs, NEW n \in Runs, RetryRun(r, n)  PROVE RowTypes'
  BY <1>22, RecordsAssumption DEF RetryRun, RowTypes, NewTask, UpdateSession,
       Status
<1>23. ASSUME NEW r \in Runs, NEW n \in Runs, RerunTask(r, n)  PROVE RowTypes'
  BY <1>23, RecordsAssumption DEF RerunTask, RowTypes, UpdateSession, Final,
       Status
<1>24. ASSUME NEW r \in Runs, NEW n \in Runs, RerunRecord(r, n)
      PROVE  RowTypes'
  BY <1>24, RecordsAssumption DEF RerunRecord, RowTypes, Shown, NewRecord,
       UpdateSession, Final, Status
<1>25. ASSUME NEW n \in Runs, Message(n)  PROVE RowTypes'
  BY <1>25, RecordsAssumption DEF Message, RowTypes, UpdateSession, rowVars
<1>26. ASSUME NEW n \in Runs, CreateTask(n)  PROVE RowTypes'
  BY <1>26, RecordsAssumption DEF CreateTask, RowTypes, NewTask, sessVars,
       Status
<1>27. CASE Answer
  BY <1>27, RecordsAssumption DEF Answer, ResumeTask, ResumeRecord, With,
       TaskEvents, RunEvents, Copied, UpdateSession, Start, fileVars, history,
       RowTypes, Final, Status, Open
<1>28. CASE Archive
  BY <1>28, RecordsAssumption DEF Archive, UpdateSession, Shown, CancelWorker,
       With, Synced, TaskEvents, RunEvents, Copied, rowVars, eventVars,
       workVars, fileVars, history, RowTypes, Final, Status, Open
<1>29. CASE Unarchive
  BY <1>29, RecordsAssumption DEF Unarchive, UpdateSession, rowVars, workVars,
       RowTypes
<1>30. CASE Crash
  BY <1>30, RecordsAssumption DEF Crash, sessVars, rowVars, RowTypes
<1>31. CASE UNCHANGED vars
  BY <1>31, RecordsAssumption DEF vars, sessVars, rowVars, workVars, RowTypes
<1> QED
  BY <1>1, <1>2, <1>3, <1>4, <1>5, <1>6, <1>7, <1>8, <1>9, <1>10, <1>11,
       <1>12, <1>13, <1>14, <1>15, <1>16, <1>17, <1>18, <1>19, <1>20, <1>21,
       <1>22, <1>23, <1>24, <1>25, <1>26, <1>27, <1>28, <1>29, <1>30, <1>31
       DEF Next, Worker, About

\* events,
LEMMA EventTypesStep ==
  ASSUME RowTypes, EventTypes, [Next]_vars
  PROVE  EventTypes'
<1>1. ASSUME NEW r \in Runs, Begin(r)  PROVE EventTypes'
  BY <1>1 DEF Begin, EventTypes, Stop, UpdateSession, Copied, With, sessVars,
       rowVars, eventVars, fileVars, history
<1>2. ASSUME NEW r \in Runs, Drop(r)  PROVE EventTypes'
  BY <1>2 DEF Drop, EventTypes, eventVars, history
<1>3. ASSUME NEW r \in Runs, WriteFile(r)  PROVE EventTypes'
  BY <1>3 DEF WriteFile, EventTypes, eventVars, workVars, history
<1>4. ASSUME NEW r \in Runs, AddRemoteArtifact(r)  PROVE EventTypes'
  BY <1>4 DEF AddRemoteArtifact, EventTypes, AddArtifact, MirrorArtifact,
       TaskEvents, workVars, history
<1>5. ASSUME NEW r \in Runs, RequestInput(r)  PROVE EventTypes'
  BY <1>5 DEF RequestInput, EventTypes, TaskEvents, history
<1>6. ASSUME NEW r \in Runs, Complete(r)  PROVE EventTypes'
  BY <1>6 DEF Complete, EventTypes, RegisterArtifacts, AddArtifact,
       MirrorArtifact, End, TaskEvents, history
<1>7. ASSUME NEW r \in Runs, AwaitInput(r)  PROVE EventTypes'
  BY <1>7 DEF AwaitInput, EventTypes, RegisterArtifacts, AddArtifact,
       MirrorArtifact, End, TaskEvents, history
<1>8. ASSUME NEW r \in Runs, Fail(r)  PROVE EventTypes'
  BY <1>8 DEF Fail, EventTypes, RegisterArtifacts, AddArtifact,
       MirrorArtifact, End, TaskEvents, history
<1>9. ASSUME NEW r \in Runs, AwaitApproval(r)  PROVE EventTypes'
  BY <1>9 DEF AwaitApproval, EventTypes, End, history
<1>10. ASSUME NEW r \in Runs, Cancelled(r)  PROVE EventTypes'
  BY <1>10 DEF Cancelled, EventTypes, End, TaskEvents, history
<1>11. ASSUME NEW r \in Runs, CancelTask(r)  PROVE EventTypes'
  BY <1>11 DEF CancelTask, EventTypes, CancelWorker, TaskEvents, history
<1>12. ASSUME NEW r \in Runs, AnswerTask(r)  PROVE EventTypes'
  BY <1>12 DEF AnswerTask, EventTypes, TaskEvents, history
<1>13. ASSUME NEW r \in Runs, DeleteTask(r)  PROVE EventTypes'
  BY <1>13 DEF DeleteTask, EventTypes, Forget, CancelWorker
<1>14. ASSUME NEW r \in Runs, DeleteInterrupted(r)  PROVE EventTypes'
  BY <1>14 DEF DeleteInterrupted, EventTypes, Forget
<1>15. ASSUME NEW r \in Runs, Recover(r)  PROVE EventTypes'
  BY <1>15 DEF Recover, EventTypes, eventVars, history
<1>16. ASSUME NEW r \in Runs, CancelRecord(r)  PROVE EventTypes'
  BY <1>16 DEF CancelRecord, EventTypes, With, CancelWorker, RunEvents,
       UpdateSession, sessVars, fileVars, history
<1>17. ASSUME NEW r \in Runs, CancelRun(r)  PROVE EventTypes'
  BY <1>17 DEF CancelRun, EventTypes, With, CancelWorker, TaskEvents, Copied,
       Synced, UpdateSession, sessVars, eventVars, workVars, fileVars, history
<1>18. ASSUME NEW r \in Runs, NEW st \in {"cancelled", "completed"},
             ResolveTask(r, st)
      PROVE  EventTypes'
  BY <1>18 DEF ResolveTask, EventTypes, Answered, workVars, history
<1>19. ASSUME NEW r \in Runs, NEW st \in {"cancelled", "completed"},
             ResolveRecord(r, st)
      PROVE  EventTypes'
  BY <1>19 DEF ResolveRecord, EventTypes, RecordOpen, AnsweredHere, RunEvents,
       With, UpdateSession, sessVars, fileVars, workVars, history
<1>20. ASSUME NEW r \in Runs, NEW n \in Runs, RetryTask(r, n)
      PROVE  EventTypes'
  BY <1>20 DEF RetryTask, EventTypes, NewTask, history
<1>21. ASSUME NEW r \in Runs, NEW n \in Runs, RetryRecord(r, n)
      PROVE  EventTypes'
  BY <1>21 DEF RetryRecord, EventTypes, NewRecord, Fresh, Start,
       UpdateSession, RunEvents, fileVars, history
<1>22. ASSUME NEW r \in Runs, NEW n \in Runs, RetryRun(r, n)
      PROVE  EventTypes'
  BY <1>22 DEF RetryRun, EventTypes, NewTask, history
<1>23. ASSUME NEW r \in Runs, NEW n \in Runs, RerunTask(r, n)
      PROVE  EventTypes'
  BY <1>23 DEF RerunTask, EventTypes, Answered, Count
<1>24. ASSUME NEW r \in Runs, NEW n \in Runs, RerunRecord(r, n)
      PROVE  EventTypes'
  <2>1. aligned' = FALSE /\ ask' = ask /\ deleted' = deleted
    BY <1>24 DEF RerunRecord, NewRecord, RunEvents
  <2>2. copy' = [copy EXCEPT ![r] = IF @ = "same" THEN "answered" ELSE "late"]
    BY <1>24 DEF RerunRecord, AnsweredHere
  <2>3. reruns' = [reruns EXCEPT ![r] = @ + 1]
    BY <1>24 DEF RerunRecord, Count
  <2>4. copy' \in [Runs -> {"none", "same", "other", "answered", "late"}]
    BY <2>2 DEF EventTypes
  <2>5. reruns' \in [Runs -> Nat]
    BY <2>3 DEF EventTypes
  <2> QED  BY <2>1, <2>4, <2>5 DEF EventTypes
<1>25. ASSUME NEW n \in Runs, Message(n)  PROVE EventTypes'
  BY <1>25 DEF Message, EventTypes, eventVars, history
<1>26. ASSUME NEW n \in Runs, CreateTask(n)  PROVE EventTypes'
  BY <1>26 DEF CreateTask, EventTypes, NewTask, history
<1>27. CASE Answer
  BY <1>27 DEF Answer, ResumeTask, ResumeRecord, With, TaskEvents, RunEvents,
       Copied, UpdateSession, Start, fileVars, history, EventTypes
<1>28. CASE Archive
  BY <1>28 DEF Archive, UpdateSession, Shown, CancelWorker, With, Synced,
       TaskEvents, RunEvents, Copied, rowVars, eventVars, workVars, fileVars,
       history, EventTypes
<1>29. CASE Unarchive
  BY <1>29 DEF Unarchive, eventVars, workVars, history, EventTypes
<1>30. CASE Crash
  BY <1>30 DEF Crash, eventVars, history, EventTypes
<1>31. CASE UNCHANGED vars
  BY <1>31 DEF vars, eventVars, workVars, history, EventTypes
<1> QED
  BY <1>1, <1>2, <1>3, <1>4, <1>5, <1>6, <1>7, <1>8, <1>9, <1>10, <1>11,
       <1>12, <1>13, <1>14, <1>15, <1>16, <1>17, <1>18, <1>19, <1>20, <1>21,
       <1>22, <1>23, <1>24, <1>25, <1>26, <1>27, <1>28, <1>29, <1>30, <1>31
       DEF Next, Worker, About

\* files
LEMMA FileTypesStep ==
  ASSUME FileTypes, [Next]_vars
  PROVE  FileTypes'
<1>1. ASSUME NEW r \in Runs, Begin(r)  PROVE FileTypes'
  BY <1>1 DEF Begin, FileTypes, fileVars
<1>2. ASSUME NEW r \in Runs, Drop(r)  PROVE FileTypes'
  BY <1>2 DEF Drop, FileTypes, fileVars
<1>3. ASSUME NEW r \in Runs, WriteFile(r)  PROVE FileTypes'
  BY <1>3 DEF WriteFile, FileTypes, workVars
<1>4. ASSUME NEW r \in Runs, AddRemoteArtifact(r)  PROVE FileTypes'
  BY <1>4 DEF AddRemoteArtifact, FileTypes, AddArtifact, MirrorArtifact,
       workVars
<1>5. ASSUME NEW r \in Runs, RequestInput(r)  PROVE FileTypes'
  BY <1>5 DEF RequestInput, FileTypes, fileVars
<1>6. ASSUME NEW r \in Runs, Complete(r)  PROVE FileTypes'
  <2>1. CASE UNCHANGED fileVars
    BY <2>1 DEF FileTypes, fileVars
  <2>2. CASE AddArtifact(r, "local")
    BY <2>2 DEF AddArtifact, FileTypes, MirrorArtifact
  <2> QED  BY <1>6, <2>1, <2>2 DEF Complete, RegisterArtifacts
<1>7. ASSUME NEW r \in Runs, AwaitInput(r)  PROVE FileTypes'
  <2>1. CASE UNCHANGED fileVars
    BY <2>1 DEF FileTypes, fileVars
  <2>2. CASE AddArtifact(r, "local")
    BY <2>2 DEF AddArtifact, FileTypes, MirrorArtifact
  <2> QED  BY <1>7, <2>1, <2>2 DEF AwaitInput, RegisterArtifacts
<1>8. ASSUME NEW r \in Runs, Fail(r)  PROVE FileTypes'
  <2>1. CASE UNCHANGED fileVars
    BY <2>1 DEF FileTypes, fileVars
  <2>2. CASE AddArtifact(r, "local")
    BY <2>2 DEF AddArtifact, FileTypes, MirrorArtifact
  <2> QED  BY <1>8, <2>1, <2>2 DEF Fail, RegisterArtifacts
<1>9. ASSUME NEW r \in Runs, AwaitApproval(r)  PROVE FileTypes'
  BY <1>9 DEF AwaitApproval, FileTypes, fileVars
<1>10. ASSUME NEW r \in Runs, Cancelled(r)  PROVE FileTypes'
  BY <1>10 DEF Cancelled, FileTypes, fileVars
<1>11. ASSUME NEW r \in Runs, CancelTask(r)  PROVE FileTypes'
  BY <1>11 DEF CancelTask, FileTypes, fileVars
<1>12. ASSUME NEW r \in Runs, AnswerTask(r)  PROVE FileTypes'
  BY <1>12 DEF AnswerTask, FileTypes, fileVars
<1>13. ASSUME NEW r \in Runs, DeleteTask(r)  PROVE FileTypes'
  BY <1>13 DEF DeleteTask, FileTypes, Forget, CancelWorker
<1>14. ASSUME NEW r \in Runs, DeleteInterrupted(r)  PROVE FileTypes'
  BY <1>14 DEF DeleteInterrupted, FileTypes, Forget, Gone, sessVars
<1>15. ASSUME NEW r \in Runs, Recover(r)  PROVE FileTypes'
  BY <1>15 DEF Recover, FileTypes, fileVars
<1>16. ASSUME NEW r \in Runs, CancelRecord(r)  PROVE FileTypes'
  BY <1>16 DEF CancelRecord, FileTypes, fileVars
<1>17. ASSUME NEW r \in Runs, CancelRun(r)  PROVE FileTypes'
  BY <1>17 DEF CancelRun, FileTypes, workVars, fileVars
<1>18. ASSUME NEW r \in Runs, NEW st \in {"cancelled", "completed"},
             ResolveTask(r, st)
      PROVE  FileTypes'
  BY <1>18 DEF ResolveTask, FileTypes, fileVars, workVars
<1>19. ASSUME NEW r \in Runs, NEW st \in {"cancelled", "completed"},
             ResolveRecord(r, st)
      PROVE  FileTypes'
  BY <1>19 DEF ResolveRecord, FileTypes, fileVars, workVars
<1>20. ASSUME NEW r \in Runs, NEW n \in Runs, RetryTask(r, n)
      PROVE  FileTypes'
  BY <1>20 DEF RetryTask, FileTypes, fileVars
<1>21. ASSUME NEW r \in Runs, NEW n \in Runs, RetryRecord(r, n)
      PROVE  FileTypes'
  BY <1>21 DEF RetryRecord, FileTypes, fileVars
<1>22. ASSUME NEW r \in Runs, NEW n \in Runs, RetryRun(r, n)  PROVE FileTypes'
  BY <1>22 DEF RetryRun, FileTypes, fileVars
<1>23. ASSUME NEW r \in Runs, NEW n \in Runs, RerunTask(r, n)
      PROVE  FileTypes'
  BY <1>23 DEF RerunTask, FileTypes, fileVars
<1>24. ASSUME NEW r \in Runs, NEW n \in Runs, RerunRecord(r, n)
      PROVE  FileTypes'
  BY <1>24 DEF RerunRecord, FileTypes, fileVars
<1>25. ASSUME NEW n \in Runs, Message(n)  PROVE FileTypes'
  BY <1>25 DEF Message, FileTypes, fileVars
<1>26. ASSUME NEW n \in Runs, CreateTask(n)  PROVE FileTypes'
  BY <1>26 DEF CreateTask, FileTypes, fileVars
<1>27. CASE Answer
  BY <1>27 DEF Answer, fileVars, FileTypes
<1>28. CASE Archive
  BY <1>28 DEF Archive, workVars, fileVars, FileTypes
<1>29. CASE Unarchive
  BY <1>29 DEF Unarchive, fileVars, workVars, FileTypes
<1>30. CASE Crash
  BY <1>30 DEF Crash, fileVars, FileTypes
<1>31. CASE UNCHANGED vars
  BY <1>31 DEF vars, fileVars, workVars, FileTypes
<1> QED
  BY <1>1, <1>2, <1>3, <1>4, <1>5, <1>6, <1>7, <1>8, <1>9, <1>10, <1>11,
       <1>12, <1>13, <1>14, <1>15, <1>16, <1>17, <1>18, <1>19, <1>20, <1>21,
       <1>22, <1>23, <1>24, <1>25, <1>26, <1>27, <1>28, <1>29, <1>30, <1>31
       DEF Next, Worker, About

\* and workers keep their types.
LEMMA WorkTypesStep ==
  ASSUME RowTypes, WorkTypes, [Next]_vars
  PROVE  WorkTypes'
<1>1. ASSUME NEW r \in Runs, Begin(r)  PROVE WorkTypes'
  BY <1>1 DEF Begin, WorkTypes, Stop, UpdateSession, Copied, With, sessVars,
       rowVars, eventVars, fileVars, history, RowTypes, Active
<1>2. ASSUME NEW r \in Runs, Drop(r)  PROVE WorkTypes'
  BY <1>2 DEF Drop, WorkTypes, Stop, RowTypes
<1>3. ASSUME NEW r \in Runs, WriteFile(r)  PROVE WorkTypes'
  BY <1>3 DEF WriteFile, WorkTypes, workVars, RowTypes
<1>4. ASSUME NEW r \in Runs, AddRemoteArtifact(r)  PROVE WorkTypes'
  BY <1>4 DEF AddRemoteArtifact, WorkTypes, workVars, RowTypes
<1>5. ASSUME NEW r \in Runs, RequestInput(r)  PROVE WorkTypes'
  BY <1>5 DEF RequestInput, WorkTypes, RowTypes
<1>6. ASSUME NEW r \in Runs, Complete(r)  PROVE WorkTypes'
  BY <1>6 DEF Complete, WorkTypes, RegisterArtifacts, AddArtifact,
       MirrorArtifact, End, Stop, RowTypes
<1>7. ASSUME NEW r \in Runs, AwaitInput(r)  PROVE WorkTypes'
  BY <1>7 DEF AwaitInput, WorkTypes, RegisterArtifacts, AddArtifact,
       MirrorArtifact, End, Stop, RowTypes
<1>8. ASSUME NEW r \in Runs, Fail(r)  PROVE WorkTypes'
  BY <1>8 DEF Fail, WorkTypes, RegisterArtifacts, AddArtifact, MirrorArtifact,
       End, Stop, RowTypes
<1>9. ASSUME NEW r \in Runs, AwaitApproval(r)  PROVE WorkTypes'
  BY <1>9 DEF AwaitApproval, WorkTypes, End, Stop, RowTypes
<1>10. ASSUME NEW r \in Runs, Cancelled(r)  PROVE WorkTypes'
  BY <1>10 DEF Cancelled, WorkTypes, End, Stop, RowTypes
<1>11. ASSUME NEW r \in Runs, CancelTask(r)  PROVE WorkTypes'
  BY <1>11 DEF CancelTask, WorkTypes, CancelWorker, RowTypes
<1>12. ASSUME NEW r \in Runs, AnswerTask(r)  PROVE WorkTypes'
  BY <1>12 DEF AnswerTask, WorkTypes, Start, RowTypes
<1>13. ASSUME NEW r \in Runs, DeleteTask(r)  PROVE WorkTypes'
  BY <1>13 DEF DeleteTask, WorkTypes, CancelWorker, RowTypes
<1>14. ASSUME NEW r \in Runs, DeleteInterrupted(r)  PROVE WorkTypes'
  BY <1>14 DEF DeleteInterrupted, WorkTypes, Gone, RowTypes
<1>15. ASSUME NEW r \in Runs, Recover(r)  PROVE WorkTypes'
  BY <1>15 DEF Recover, WorkTypes, Start, RowTypes
<1>16. ASSUME NEW r \in Runs, CancelRecord(r)  PROVE WorkTypes'
  BY <1>16 DEF CancelRecord, WorkTypes, CancelWorker, RowTypes
<1>17. ASSUME NEW r \in Runs, CancelRun(r)  PROVE WorkTypes'
  BY <1>17 DEF CancelRun, WorkTypes, With, CancelWorker, TaskEvents, Copied,
       Synced, UpdateSession, sessVars, eventVars, workVars, fileVars,
       history, RowTypes, Active
<1>18. ASSUME NEW r \in Runs, NEW st \in {"cancelled", "completed"},
             ResolveTask(r, st)
      PROVE  WorkTypes'
  BY <1>18 DEF ResolveTask, WorkTypes, workVars, RowTypes
<1>19. ASSUME NEW r \in Runs, NEW st \in {"cancelled", "completed"},
             ResolveRecord(r, st)
      PROVE  WorkTypes'
  BY <1>19 DEF ResolveRecord, WorkTypes, workVars, RowTypes
<1>20. ASSUME NEW r \in Runs, NEW n \in Runs, RetryTask(r, n)
      PROVE  WorkTypes'
  BY <1>20 DEF RetryTask, WorkTypes, NewTask, Start, RowTypes
<1>21. ASSUME NEW r \in Runs, NEW n \in Runs, RetryRecord(r, n)
      PROVE  WorkTypes'
  BY <1>21 DEF RetryRecord, WorkTypes, NewRecord, Start, RowTypes
<1>22. ASSUME NEW r \in Runs, NEW n \in Runs, RetryRun(r, n)  PROVE WorkTypes'
  BY <1>22 DEF RetryRun, WorkTypes, NewTask, Start, RowTypes
<1>23. ASSUME NEW r \in Runs, NEW n \in Runs, RerunTask(r, n)
      PROVE  WorkTypes'
  BY <1>23 DEF RerunTask, WorkTypes, Shown, Start, RowTypes
<1>24. ASSUME NEW r \in Runs, NEW n \in Runs, RerunRecord(r, n)
      PROVE  WorkTypes'
  BY <1>24 DEF RerunRecord, WorkTypes, Shown, NewRecord, Start, RowTypes
<1>25. ASSUME NEW n \in Runs, Message(n)  PROVE WorkTypes'
  BY <1>25 DEF Message, WorkTypes, Start, RowTypes
<1>26. ASSUME NEW n \in Runs, CreateTask(n)  PROVE WorkTypes'
  BY <1>26 DEF CreateTask, WorkTypes, NewTask, Start, RowTypes
<1>27. CASE Answer
  BY <1>27 DEF Answer, Start, RowTypes, WorkTypes
<1>28. CASE Archive
  BY <1>28 DEF Archive, UpdateSession, Shown, CancelWorker, With, Synced,
       TaskEvents, RunEvents, Copied, rowVars, eventVars, workVars, fileVars,
       history, RowTypes, WorkTypes, Active
<1>29. CASE Unarchive
  BY <1>29 DEF Unarchive, workVars, RowTypes, WorkTypes
<1>30. CASE Crash
  BY <1>30 DEF Crash, Gone, RowTypes, WorkTypes
<1>31. CASE UNCHANGED vars
  BY <1>31 DEF vars, workVars, RowTypes, WorkTypes
<1> QED
  BY <1>1, <1>2, <1>3, <1>4, <1>5, <1>6, <1>7, <1>8, <1>9, <1>10, <1>11,
       <1>12, <1>13, <1>14, <1>15, <1>16, <1>17, <1>18, <1>19, <1>20, <1>21,
       <1>22, <1>23, <1>24, <1>25, <1>26, <1>27, <1>28, <1>29, <1>30, <1>31
       DEF Next, Worker, About

\* At most one run more is used, and only while the bound allows it.
GrowsByOne ==
    \/ Used' \subseteq Used
    \/ \E i \in Runs : Fresh(i) /\ Used' \subseteq Used \cup {i}

\* A step uses one run more at most, and only while the bound allows it.
LEMMA UsedGrows ==
  ASSUME TypeOK, [Next]_vars
  PROVE  GrowsByOne
<1>1. ASSUME NEW r \in Runs, Begin(r)  PROVE GrowsByOne
  <2>1. scur' \in {scur, r} /\ deleted' = deleted
    BY <1>1 DEF Begin, UpdateSession, sessVars, history
  <2>2. \A i \in Runs \ {r} : task'[i] = task[i]
    BY <1>1 DEF Begin, rowVars, TypeOK
  <2>3. \A i \in Runs \ {r} : rec'[i] = rec[i]
    <3>1. rec' = rec \/ rec' = [rec EXCEPT ![r] = "running"]
      BY <1>1 DEF Begin, rowVars
    <3> QED  BY <3>1 DEF TypeOK
  <2>4. \A i \in Runs \ {r} : worker'[i] = worker[i]
    BY <1>1 DEF Begin, Stop, TypeOK
  <2>5. r \in Used
    BY <1>1 DEF Begin, Used, Active
  <2> QED  BY <2>1, <2>2, <2>3, <2>4, <2>5, RecordsAssumption DEF GrowsByOne,
       Used, HasTask, HasRecord, Active
<1>2. ASSUME NEW r \in Runs, Drop(r)  PROVE GrowsByOne
  BY <1>2, RecordsAssumption DEF Drop, GrowsByOne, Stop, sessVars, rowVars,
       history, Used, Active, HasTask, HasRecord, TypeOK
<1>3. ASSUME NEW r \in Runs, WriteFile(r)  PROVE GrowsByOne
  BY <1>3, RecordsAssumption DEF WriteFile, GrowsByOne, sessVars, rowVars,
       workVars, history, Used, Active, HasTask, HasRecord, TypeOK
<1>4. ASSUME NEW r \in Runs, AddRemoteArtifact(r)  PROVE GrowsByOne
  BY <1>4, RecordsAssumption DEF AddRemoteArtifact, GrowsByOne, AddArtifact,
       MirrorArtifact, sessVars, rowVars, workVars, history, Used, Active,
       HasTask, HasRecord, TypeOK
<1>5. ASSUME NEW r \in Runs, RequestInput(r)  PROVE GrowsByOne
  BY <1>5, RecordsAssumption DEF RequestInput, GrowsByOne, With, sessVars,
       history, Used, Active, HasTask, HasRecord, TypeOK
<1>6. ASSUME NEW r \in Runs, Complete(r)  PROVE GrowsByOne
  BY <1>6, RecordsAssumption DEF Complete, GrowsByOne, RegisterArtifacts,
       AddArtifact, MirrorArtifact, End, Synced, With, UpdateSession, Stop,
       history, Used, Active, HasTask, HasRecord, TypeOK
<1>7. ASSUME NEW r \in Runs, AwaitInput(r)  PROVE GrowsByOne
  BY <1>7, RecordsAssumption DEF AwaitInput, GrowsByOne, RegisterArtifacts,
       AddArtifact, MirrorArtifact, End, Synced, With, UpdateSession, Stop,
       history, Used, Active, HasTask, HasRecord, TypeOK
<1>8. ASSUME NEW r \in Runs, Fail(r)  PROVE GrowsByOne
  BY <1>8, RecordsAssumption DEF Fail, GrowsByOne, RegisterArtifacts,
       AddArtifact, MirrorArtifact, End, Synced, With, UpdateSession, Stop,
       history, Used, Active, HasTask, HasRecord, Final, TypeOK
<1>9. ASSUME NEW r \in Runs, AwaitApproval(r)  PROVE GrowsByOne
  BY <1>9, RecordsAssumption DEF AwaitApproval, GrowsByOne, Works, End,
       Synced, With, UpdateSession, Stop, history, Used, Active, HasTask,
       HasRecord, TypeOK
<1>10. ASSUME NEW r \in Runs, Cancelled(r)  PROVE GrowsByOne
  BY <1>10, RecordsAssumption DEF Cancelled, GrowsByOne, End, Synced, With,
       UpdateSession, Stop, history, Used, Active, HasTask, HasRecord, TypeOK
<1>11. ASSUME NEW r \in Runs, CancelTask(r)  PROVE GrowsByOne
  BY <1>11, RecordsAssumption DEF CancelTask, GrowsByOne, With, CancelWorker,
       sessVars, history, Used, Active, HasTask, HasRecord, TypeOK
<1>12. ASSUME NEW r \in Runs, AnswerTask(r)  PROVE GrowsByOne
  BY <1>12, RecordsAssumption DEF AnswerTask, GrowsByOne, With, Start,
       sessVars, history, Used, Active, HasTask, HasRecord, TypeOK
<1>13. ASSUME NEW r \in Runs, DeleteTask(r)  PROVE GrowsByOne
  BY <1>13, RecordsAssumption DEF DeleteTask, GrowsByOne, Forget,
       CancelWorker, sessVars, Used, Active, HasTask, HasRecord, TypeOK
<1>14. ASSUME NEW r \in Runs, DeleteInterrupted(r)  PROVE GrowsByOne
  BY <1>14, RecordsAssumption DEF DeleteInterrupted, GrowsByOne, Forget, Gone,
       sessVars, Used, Active, HasTask, HasRecord, TypeOK
<1>15. ASSUME NEW r \in Runs, Recover(r)  PROVE GrowsByOne
  BY <1>15, RecordsAssumption DEF Recover, GrowsByOne, With, Start, sessVars,
       history, Used, Active, HasTask, HasRecord, TypeOK
<1>16. ASSUME NEW r \in Runs, CancelRecord(r)  PROVE GrowsByOne
  BY <1>16, RecordsAssumption DEF CancelRecord, GrowsByOne, With,
       CancelWorker, UpdateSession, sessVars, history, Used, Active, HasTask,
       HasRecord, TypeOK
<1>17. ASSUME NEW r \in Runs, CancelRun(r)  PROVE GrowsByOne
  <2>1. scur' \in {scur, r, None} /\ deleted' = deleted
    BY <1>17 DEF CancelRun, CancelWorker, UpdateSession, sessVars, workVars,
         history, HasTask, TypeOK
  <2>2. \A i \in Runs \ {r} : task'[i] = task[i] /\ rec'[i] = rec[i] /\ worker'[i] = worker[i]
    BY <1>17 DEF CancelRun, With, CancelWorker, TaskEvents, Copied, Synced,
         UpdateSession, sessVars, eventVars, workVars, fileVars, history,
         HasTask, HasRecord, Active, TypeOK
  <2>3. r \in Used
    BY <1>17 DEF CancelRun, Used
  <2> QED  BY <2>1, <2>2, <2>3, RecordsAssumption DEF GrowsByOne, Used,
       HasTask, HasRecord, Active
<1>18. ASSUME NEW r \in Runs, NEW st \in {"cancelled", "completed"},
             ResolveTask(r, st)
      PROVE  GrowsByOne
  <2>1. scur' \in {scur, r, None} /\ deleted' = deleted
    BY <1>18 DEF ResolveTask, TaskOpen, Answered, With, Synced, Copied,
         UpdateSession, sessVars, rowVars, fileVars, workVars, history,
         HasTask, HasRecord, Active, TypeOK
  <2>2. \A i \in Runs \ {r} : task'[i] = task[i] /\ rec'[i] = rec[i] /\ worker'[i] = worker[i]
    BY <1>18 DEF ResolveTask, TaskOpen, Answered, With, Synced, Copied,
         UpdateSession, sessVars, rowVars, fileVars, workVars, history,
         HasTask, HasRecord, Active, TypeOK
  <2>3. r \in Used
    BY <1>18 DEF ResolveTask, Used, TaskOpen, HasTask, TypeOK
  <2> QED  BY <2>1, <2>2, <2>3, RecordsAssumption DEF GrowsByOne, Used,
       HasTask, HasRecord, Active
<1>19. ASSUME NEW r \in Runs, NEW st \in {"cancelled", "completed"},
             ResolveRecord(r, st)
      PROVE  GrowsByOne
  BY <1>19, RecordsAssumption DEF ResolveRecord, GrowsByOne, With,
       UpdateSession, sessVars, workVars, history, Used, Active, HasTask,
       HasRecord, TypeOK
<1>20. ASSUME NEW r \in Runs, NEW n \in Runs, RetryTask(r, n)
      PROVE  GrowsByOne
  BY <1>20, RecordsAssumption DEF RetryTask, GrowsByOne, NewTask, Fresh,
       Start, Copied, sessVars, fileVars, history, Used, Active, Works,
       HasTask, HasRecord, Final, Status, Open, TypeOK
<1>21. ASSUME NEW r \in Runs, NEW n \in Runs, RetryRecord(r, n)
      PROVE  GrowsByOne
  BY <1>21, RecordsAssumption DEF RetryRecord, GrowsByOne, NewRecord, Fresh,
       Start, UpdateSession, RunEvents, fileVars, history, Used, Active,
       Works, HasTask, HasRecord, Final, Status, Open, TypeOK
<1>22. ASSUME NEW r \in Runs, NEW n \in Runs, RetryRun(r, n)  PROVE GrowsByOne
  BY <1>22, RecordsAssumption DEF RetryRun, GrowsByOne, NewTask, Fresh, Start,
       Copied, UpdateSession, fileVars, history, Used, Active, Works, HasTask,
       HasRecord, Final, Status, Open, TypeOK
<1>23. ASSUME NEW r \in Runs, NEW n \in Runs, RerunTask(r, n)
      PROVE  GrowsByOne
  BY <1>23, RecordsAssumption DEF RerunTask, GrowsByOne, TaskOpen, MayRerun,
       Shown, Fresh, Start, Answered, Copied, UpdateSession, Count, fileVars,
       Used, Active, Works, HasTask, HasRecord, Final, Status, Open, TypeOK
<1>24. ASSUME NEW r \in Runs, NEW n \in Runs, RerunRecord(r, n)
      PROVE  GrowsByOne
  BY <1>24, RecordsAssumption DEF RerunRecord, GrowsByOne, RecordOpen,
       MayRerun, Shown, NewRecord, Fresh, Start, AnsweredHere, RunEvents,
       UpdateSession, Count, fileVars, Used, Active, Works, HasTask,
       HasRecord, Final, Status, Open, TypeOK
<1>25. ASSUME NEW n \in Runs, Message(n)  PROVE GrowsByOne
  BY <1>25, RecordsAssumption DEF Message, GrowsByOne, Fresh, UpdateSession,
       Start, rowVars, eventVars, fileVars, history, Used, Active, Works,
       HasTask, HasRecord, Final, Status, Open, TypeOK
<1>26. ASSUME NEW n \in Runs, CreateTask(n)  PROVE GrowsByOne
  BY <1>26, RecordsAssumption DEF CreateTask, GrowsByOne, NewTask, Fresh,
       Start, Copied, sessVars, fileVars, history, Used, Active, Works,
       HasTask, HasRecord, Final, Status, Open, TypeOK
<1>27. CASE Answer
  <2>1. /\ scur \in Runs /\ scur' = scur /\ deleted' = deleted /\ Start(scur)
        /\ \/ /\ rec' = rec
              /\ task' = task \/ task' = With(task, scur, "queued")
           \/ task' = task /\ rec' = With(rec, scur, "queued")
    BY <1>27, AnswerEffect
  <2>2. \A i \in Runs \ {scur} : HasTask(i)' = HasTask(i) /\ HasRecord(i)' = HasRecord(i)
    BY <2>1 DEF With, HasTask, HasRecord, TypeOK
  <2>3. \A i \in Runs \ {scur} : worker'[i] = worker[i]
    BY <2>1 DEF Start, TypeOK
  <2> QED  BY <2>1, <2>2, <2>3 DEF GrowsByOne, Used, Active
<1>28. CASE Archive
  <2>1. scur' = None /\ deleted' = deleted /\ worker' = worker
    BY <1>28 DEF Archive, UpdateSession, CancelWorker, workVars, history
  <2>2. \A i \in Runs : HasTask(i)' => HasTask(i)
    BY <1>28 DEF Archive, HasTask, With, rowVars, TypeOK
  <2>3. \A i \in Runs : HasRecord(i)' => HasRecord(i)
    BY <1>28 DEF Archive, HasRecord, With, Synced, Copied, rowVars, TypeOK
  <2> QED  BY <2>1, <2>2, <2>3, RecordsAssumption DEF GrowsByOne, Used, Active
<1>29. CASE Unarchive
  BY <1>29, RecordsAssumption DEF Unarchive, UpdateSession, rowVars, workVars,
       history, GrowsByOne, Used, Active, HasTask, HasRecord, TypeOK
<1>30. CASE Crash
  BY <1>30, RecordsAssumption DEF Crash, Gone, sessVars, rowVars, history,
       GrowsByOne, Used, Active, HasTask, HasRecord, TypeOK
<1>31. CASE UNCHANGED vars
  BY <1>31, RecordsAssumption DEF vars, sessVars, rowVars, workVars, history,
       GrowsByOne, Used, Active, HasTask, HasRecord, TypeOK
<1> QED
  BY <1>1, <1>2, <1>3, <1>4, <1>5, <1>6, <1>7, <1>8, <1>9, <1>10, <1>11,
       <1>12, <1>13, <1>14, <1>15, <1>16, <1>17, <1>18, <1>19, <1>20, <1>21,
       <1>22, <1>23, <1>24, <1>25, <1>26, <1>27, <1>28, <1>29, <1>30, <1>31
       DEF Next, Worker, About

\* Hence the bound is kept.
LEMMA UsedBound ==
  ASSUME TypeOK, [Next]_vars
  PROVE  Cardinality(Used') <= conf'.limit
<1>1. IsFiniteSet(Used)
  BY FS_Subset, RecordsAssumption DEF Used
<1>2. Cardinality(Used) \in Nat /\ conf' = conf /\ conf.limit \in Nat
  BY <1>1, FS_CardinalityType, ConfIsFixed, RecordsAssumption DEF TypeOK, Conf
<1>3. CASE Used' \subseteq Used
  <2>1. Cardinality(Used') <= Cardinality(Used) /\ Cardinality(Used') \in Nat
    BY <1>1, <1>3, FS_Subset, FS_CardinalityType
  <2>2. Cardinality(Used) <= conf.limit
    BY DEF TypeOK
  <2> QED  BY <1>2, <2>1, <2>2
<1>4. ASSUME NEW i \in Runs, Fresh(i), Used' \subseteq Used \cup {i}
      PROVE  Cardinality(Used') <= conf'.limit
  <2>1. i \notin Used /\ Cardinality(Used) < conf.limit
    BY <1>4 DEF Fresh
  <2>2. IsFiniteSet(Used \cup {i}) /\ Cardinality(Used \cup {i}) = Cardinality(Used) + 1
    BY <1>1, <2>1, FS_AddElement
  <2>3. Cardinality(Used') <= Cardinality(Used) + 1 /\ Cardinality(Used') \in Nat
    BY <1>4, <2>2, FS_Subset, FS_CardinalityType
  <2> QED  BY <1>2, <2>1, <2>3
<1> QED  BY <1>3, <1>4, UsedGrows DEF GrowsByOne

\* Every step keeps the types.
LEMMA TypeStep ==
  ASSUME TypeOK, [Next]_vars
  PROVE  TypeOK'
<1>1. RowTypes /\ EventTypes /\ FileTypes /\ WorkTypes
  BY Types
<1>2. RowTypes' /\ EventTypes' /\ FileTypes' /\ WorkTypes'
  BY <1>1, RowTypesStep, EventTypesStep, FileTypesStep, WorkTypesStep
<1>3. Cardinality(Used') <= conf'.limit
  BY UsedBound
<1> QED  BY <1>2, <1>3 DEF TypeOK, RowTypes, EventTypes, FileTypes, WorkTypes

-----------------------------------------------------------------------------
(***************************************************************************)
(* The theorems.                                                           *)
(***************************************************************************)
\* The invariant holds at first,
LEMMA InitInv == Init => IInv
<1> SUFFICES ASSUME Init  PROVE IInv
  OBVIOUS
<1>1. TypeOK
  <2>1. Used = {}
    BY RecordsAssumption DEF Used, Init, HasTask, HasRecord, Active
  <2>2. Cardinality(Used) = 0
    BY <2>1, FS_EmptySet
  <2>3. Cardinality(Used) <= conf.limit
    <3>1. conf.limit \in 1 .. Cardinality(Runs) /\ Cardinality(Runs) \in Nat
      BY FS_CardinalityType, RecordsAssumption DEF Init, Conf
    <3> QED  BY <2>2, <3>1
  <2> QED  BY <2>3 DEF Init, TypeOK
<1>2. NotBegunIsBlank /\ WorkersBegin
  BY DEF NotBegunIsBlank, WorkersBegin, Init
<1>3. RecordFollows /\ WorkedOnIsOpen
  BY RecordsAssumption DEF RecordFollows, WorkedOnIsOpen, Init
<1>4. RecordIsWorkedOn /\ WorkersHaveRecords /\ WorkersHaveTasks
  BY DEF RecordIsWorkedOn, WorkersHaveRecords, WorkersHaveTasks, Init
<1>5. WaitingIsOpen
  BY DEF WaitingIsOpen, Init
<1>6. AskedOnce /\ CopyCounts
  BY DEF AskedOnce, CopyCounts, Init, Asked, HasTask
<1>7. ListedIsThere
  BY DEF ListedIsThere, Init
<1> QED  BY <1>1, <1>2, <1>3, <1>4, <1>5, <1>6, <1>7 DEF IInv

\* is kept by every step,
LEMMA NextInv == IInv /\ [Next]_vars => IInv'
<1> SUFFICES ASSUME IInv, [Next]_vars  PROVE IInv'
  OBVIOUS
<1>1. TypeOK'
  BY TypeStep DEF IInv
<1>2. UnusedIsBlank
  BY Unused DEF IInv
<1>3. NotBegunIsBlank' /\ WorkersBegin'
  BY BlankStep, BeginStep DEF IInv
<1>4. RecordFollows' /\ WorkedOnIsOpen'
  BY <1>2, FollowsStep, OpenStep DEF IInv
<1>5. RecordIsWorkedOn' /\ WorkersHaveRecords' /\ WorkersHaveTasks'
  BY <1>2, WorkedStep, RecordsStep, TasksStep DEF IInv
<1>6. WaitingIsOpen'
  BY <1>2, WaitingStep DEF IInv
<1>7. AskedOnce' /\ CopyCounts'
  BY <1>2, AskedStep, CountsStep DEF IInv
<1>8. ListedIsThere'
  BY <1>2, ListedStep DEF IInv
<1> QED  BY <1>1, <1>3, <1>4, <1>5, <1>6, <1>7, <1>8 DEF IInv

\* and so always holds.
THEOREM RecordsInvariant == Spec => []IInv
<1>1. UNCHANGED vars /\ IInv => IInv'
  BY NextInv
<1> QED  BY InitInv, NextInv, PTL DEF Spec

\* Every variable keeps its type in every instance, and a history never uses more
\* runs than its bound lets it.
THEOREM RecordsTypeCorrect == Spec => []TypeOK
<1>1. IInv => TypeOK
  BY DEF IInv
<1> QED  BY <1>1, RecordsInvariant, PTL

\* One approval starts one rerun, whichever of the two records it is given to
\* (resolve_agent_task_approval, resolve_session_run_record_approval), but for a
\* request with two ids whose task was deleted.
THEOREM RecordsOneRerunEach == Spec => []OneRerunEach
<1>1. IInv => OneRerunEach
  <2> SUFFICES ASSUME IInv, ~ conf.fails, NEW r \in Runs
               PROVE  reruns[r] <= IF r \in deleted /\ copy[r] = "late" THEN 2 ELSE 1
    BY DEF OneRerunEach
  <2>1. copy[r] # "late" => reruns[r] <= 1
    BY DEF IInv, CopyCounts
  <2>2. copy[r] = "late" => reruns[r] <= 2 /\ r \in deleted
    BY DEF IInv, CopyCounts
  <2> QED  BY <2>1, <2>2
<1> QED  BY <1>1, RecordsInvariant, PTL

\* A session that waits for the user can be answered, also after the task of the
\* run was deleted (_resume_waiting_session_message, the two approval endpoints).
THEOREM RecordsWaitingCanEnd == Spec => []WaitingCanEnd
<1>1. IInv => WaitingCanEnd
  BY DEF IInv, WaitingCanEnd, WaitingIsOpen, TaskOpen, RecordOpen, Shown,
       HasTask, HasRecord
<1> QED  BY <1>1, RecordsInvariant, PTL

\* What is shown of a deleted task does not claim to be going on for ever
\* (delete_agent_task leaves the record to the worker).
THEOREM RecordsNoGhosts == Spec => []NoGhosts
<1>1. IInv => NoGhosts
  BY DEF IInv, NoGhosts, RecordIsWorkedOn
<1> QED  BY <1>1, RecordsInvariant, PTL

\* What the session lists as a file of a run can be downloaded, and a deleted task
\* leaves no artifact behind (add_artifact, delete_task and their copies).
THEOREM RecordsListedIsThere == Spec => []ListedIsThere
<1>1. IInv => ListedIsThere
  BY DEF IInv
<1> QED  BY <1>1, RecordsInvariant, PTL

\* Task and record never tell two different ends of a run (_sync_session_run).
THEOREM RecordsEndsAgree == Spec => []EndsAgree
<1>1. IInv => EndsAgree
  BY DEF IInv, EndsAgree, RecordFollows, HasTask, Final, Open
<1> QED  BY <1>1, RecordsInvariant, PTL
=============================================================================

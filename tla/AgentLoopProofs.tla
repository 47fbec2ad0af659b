--------------------------- MODULE AgentLoopProofs ---------------------------
(***************************************************************************)
(* AgentLoop: its types, what is shown of the plan and of its end, one     *)
(* step in work, questions that stay open, phases that end.                *)
(***************************************************************************)
EXTENDS AgentLoop, SequenceTheorems, WellFoundedInduction, TLAPS

(***************************************************************************)
(* Plans.                                                                  *)
(***************************************************************************)
PlanSteps == Seq(Step(StepStatus))
ShownSteps == Seq(Step(StepStatus \cup {"cancelled"}))

RunningOf(steps) == {i \in DOMAIN steps : steps[i].st = "running"}
AtMostOne(S) == \A i, j \in S : i = j

LEMMA Least ==
  ASSUME NEW S \in SUBSET Nat, S # {}
  PROVE  Min(S) \in S /\ \A k \in S : Min(S) <= k
<1>1. PICK m \in S : \A k \in S : ~ (<<k, m>> \in OpToRel(<, Nat))
  BY NatLessThanWellFounded, WFMin
<1>2. \A k \in S : m <= k
  <2> SUFFICES ASSUME NEW k \in S, k < m  PROVE FALSE
    OBVIOUS
  <2>1. <<k, m>> \in OpToRel(<, Nat)
    BY DEF OpToRel
  <2> QED  BY <1>1, <2>1
<1> QED  BY <1>2 DEF Min

\* The first step with a status is one, is the first, and is 0 if there is none.
LEMMA First ==
  ASSUME NEW S, NEW steps \in Seq(S), NEW st
  PROVE  /\ FirstOf(steps, st) \in 0 .. Len(steps)
         /\ FirstOf(steps, st) # 0 => steps[FirstOf(steps, st)].st = st
         /\ \A i \in 1 .. Len(steps) : steps[i].st = st =>
               FirstOf(steps, st) # 0 /\ FirstOf(steps, st) <= i
<1> DEFINE I == {i \in 1 .. Len(steps) : steps[i].st = st}
<1>1. FirstOf(steps, st) = IF I # {} THEN Min(I) ELSE 0
  BY DEF FirstOf, SelectInSeq
<1>2. I \in SUBSET Nat
  OBVIOUS
<1>3. CASE I = {}
  BY <1>1, <1>3
<1>4. CASE I # {}
  <2>1. Min(I) \in I /\ \A k \in I : Min(I) <= k
    BY <1>2, <1>4, Least
  <2>2. FirstOf(steps, st) = Min(I)
    BY <1>1, <1>4
  <2>3. /\ FirstOf(steps, st) \in 1 .. Len(steps)
        /\ steps[FirstOf(steps, st)].st = st
    BY <2>1, <2>2
  <2>4. \A i \in 1 .. Len(steps) : steps[i].st = st => FirstOf(steps, st) <= i
    BY <2>1, <2>2
  <2> HIDE DEF I
  <2> QED  BY <2>3, <2>4
<1> QED  BY <1>3, <1>4

LEMMA MarkedFacts ==
  ASSUME NEW steps \in PlanSteps, NEW i \in Nat, NEW st \in StepStatus
  PROVE  /\ Marked(steps, i, st) \in PlanSteps
         /\ Len(Marked(steps, i, st)) = Len(steps)
         /\ DOMAIN Marked(steps, i, st) = DOMAIN steps
         /\ \A j \in DOMAIN steps :
               /\ Marked(steps, i, st)[j].name = steps[j].name
               /\ Marked(steps, i, st)[j].st = IF j = i THEN st ELSE steps[j].st
<1>1. \A j \in DOMAIN steps : steps[j] \in Step(StepStatus)
  BY DEF PlanSteps
<1> DEFINE m == Marked(steps, i, st)
<1>2. /\ m \in [DOMAIN steps -> Step(StepStatus)]
      /\ \A j \in DOMAIN steps : m[j] = IF j = i THEN [steps[j] EXCEPT !.st = st] ELSE steps[j]
  BY <1>1 DEF Marked, Step
<1>3. DOMAIN steps = 1 .. Len(steps) /\ Len(steps) \in Nat
  BY DEF PlanSteps
<1>4. m \in PlanSteps /\ DOMAIN m = DOMAIN steps /\ Len(m) = Len(steps)
  BY <1>2, <1>3 DEF PlanSteps
<1> QED  BY <1>1, <1>2, <1>4 DEF Step

\* Outside of the commands of the model.
Ahead(old, new) ==
    /\ Len(new) = Len(old)
    /\ \A i \in DOMAIN old : new[i].name = old[i].name /\ Forward(old[i].st, new[i].st)

LEMMA AheadOfItself ==
  ASSUME NEW steps  PROVE Ahead(steps, steps)
BY DEF Ahead, Forward

LEMMA SyncedFacts ==
  ASSUME NEW steps \in PlanSteps, NEW failed \in BOOLEAN, FirstOf(steps, "running") # 0
  PROVE  /\ Synced(steps, failed) \in PlanSteps
         /\ Ahead(steps, Synced(steps, failed))
         /\ AtMostOne(RunningOf(steps)) => AtMostOne(RunningOf(Synced(steps, failed)))
<1> DEFINE running == FirstOf(steps, "running")
           ended == IF failed THEN "failed" ELSE "completed"
           done == Marked(steps, running, ended)
           next == FirstOf(done, "not_started")
<1>1. /\ DOMAIN steps = 1 .. Len(steps) /\ Len(steps) \in Nat
      /\ \A i \in DOMAIN steps : steps[i] \in Step(StepStatus)
  BY DEF PlanSteps
<1>2. running \in Nat /\ running \in 1 .. Len(steps) /\ steps[running].st = "running"
  BY First, <1>1 DEF PlanSteps
<1>3. ended \in {"failed", "completed"} /\ ended \in StepStatus
  BY DEF StepStatus
<1>4. Synced(steps, failed) = IF failed \/ next = 0 THEN done ELSE Marked(done, next, "running")
  BY DEF Synced
<1> HIDE DEF running, ended
<1>5. /\ done \in PlanSteps /\ Len(done) = Len(steps) /\ DOMAIN done = DOMAIN steps
      /\ \A j \in DOMAIN steps : /\ done[j].name = steps[j].name
                                 /\ done[j].st = IF j = running THEN ended ELSE steps[j].st
  BY <1>2, <1>3, MarkedFacts
<1> HIDE DEF done
<1>6. next \in 0 .. Len(done) /\ (next # 0 => done[next].st = "not_started")
  BY <1>5, First DEF PlanSteps
<1> HIDE DEF next
<1>7. CASE failed \/ next = 0
  <2>1. Synced(steps, failed) = done
    BY <1>4, <1>7
  <2>2. Ahead(steps, done)
    BY <1>2, <1>3, <1>5 DEF Ahead, Forward
  <2>3. RunningOf(done) \subseteq RunningOf(steps)
    BY <1>2, <1>3, <1>5 DEF RunningOf
  <2> QED  BY <1>5, <2>1, <2>2, <2>3 DEF AtMostOne
<1>8. CASE ~ failed /\ next # 0
  <2> DEFINE new == Marked(done, next, "running")
  <2>1. Synced(steps, failed) = new
    BY <1>4, <1>8
  <2>2. "running" \in StepStatus /\ next \in Nat
    BY <1>1, <1>5, <1>6 DEF StepStatus
  <2>3. /\ new \in PlanSteps /\ Len(new) = Len(done) /\ DOMAIN new = DOMAIN done
        /\ \A j \in DOMAIN done : /\ new[j].name = done[j].name
                                  /\ new[j].st = IF j = next THEN "running" ELSE done[j].st
    BY <1>5, <2>2, MarkedFacts
  <2> HIDE DEF new
  <2>4. next # running /\ next \in DOMAIN steps /\ steps[next].st = "not_started"
    BY <1>1, <1>2, <1>3, <1>5, <1>6, <1>8
  <2>5. Ahead(steps, new)
    BY <1>2, <1>3, <1>5, <2>3, <2>4 DEF Ahead, Forward
  <2>6. AtMostOne(RunningOf(steps)) => AtMostOne(RunningOf(new))
    <3> SUFFICES ASSUME AtMostOne(RunningOf(steps))  PROVE RunningOf(new) \subseteq {next}
      BY DEF AtMostOne
    <3> QED  BY <1>1, <1>2, <1>3, <1>5, <2>3, <2>4 DEF RunningOf, AtMostOne
  <2> QED  BY <2>1, <2>3, <2>5, <2>6
<1> QED  BY <1>7, <1>8

LEMMA NewStepsFacts ==
  ASSUME NEW ns \in Seq(Names)
  PROVE  /\ NewSteps(ns) \in PlanSteps /\ RunningOf(NewSteps(ns)) = {}
         /\ DOMAIN NewSteps(ns) = DOMAIN ns
<1>1. NewSteps(ns) \in [1 .. Len(ns) -> Step(StepStatus)] /\ Len(ns) \in Nat
  BY DEF NewSteps, Step, StepStatus
<1>2. \A i \in DOMAIN NewSteps(ns) : NewSteps(ns)[i].st = "not_started"
  BY DEF NewSteps
<1> QED  BY <1>1, <1>2 DEF PlanSteps, RunningOf

LEMMA TextsAreSequences ==
  ASSUME NEW ns \in Texts  PROVE ns \in Seq(Names)
<1>1. PICK n \in 0 .. MaxLen : ns \in [1 .. n -> Names]
  BY DEF Texts
<1> QED  BY <1>1, AgentLoopAssumption

LEMMA UpdatedFacts ==
  ASSUME NEW steps \in PlanSteps, NEW ns \in Seq(Names)
  PROVE  /\ Updated(steps, ns) \in PlanSteps
         /\ AtMostOne(RunningOf(steps)) => AtMostOne(RunningOf(Updated(steps, ns)))
<1>1. /\ DOMAIN steps = 1 .. Len(steps) /\ Len(steps) \in Nat /\ Len(ns) \in Nat
      /\ \A i \in DOMAIN steps : steps[i] \in Step(StepStatus)
  BY DEF PlanSteps
<1>2. \A i \in 1 .. Len(ns) : [name |-> ns[i], st |-> "not_started"] \in Step(StepStatus)
  BY DEF Step, StepStatus
<1>3. Updated(steps, ns) \in [1 .. Len(ns) -> Step(StepStatus)]
  BY <1>1, <1>2 DEF Updated
<1>4. \A i \in 1 .. Len(ns) : \/ i \in DOMAIN steps /\ Updated(steps, ns)[i] = steps[i]
                              \/ Updated(steps, ns)[i].st = "not_started"
  BY <1>1 DEF Updated
<1>5. RunningOf(Updated(steps, ns)) \subseteq RunningOf(steps)
  BY <1>3, <1>4 DEF RunningOf
<1> QED  BY <1>1, <1>3, <1>5 DEF PlanSteps, AtMostOne

LEMMA InsertFacts ==
  ASSUME NEW steps \in PlanSteps, NEW i \in 1 .. Len(steps) + 1, NEW n \in Names
  PROVE  InsertAt(steps, i, [name |-> n, st |-> "not_started"]) \in PlanSteps
<1> DEFINE e == [name |-> n, st |-> "not_started"]
<1>1. e \in Step(StepStatus)
  BY DEF Step, StepStatus
<1> HIDE DEF e
<1>2. /\ SubSeq(steps, 1, i - 1) \in PlanSteps /\ SubSeq(steps, i, Len(steps)) \in PlanSteps
      /\ <<e>> \in PlanSteps
  BY <1>1 DEF PlanSteps
<1>3. SubSeq(steps, 1, i - 1) \o <<e>> \o SubSeq(steps, i, Len(steps)) \in PlanSteps
  BY <1>2 DEF PlanSteps
<1> QED  BY <1>3 DEF InsertAt, e

(***************************************************************************)
(* What is shown of a plan when its run ends.                              *)
(***************************************************************************)
AllDone(steps) == \A i \in DOMAIN steps : steps[i].st = "completed"
BrokenOff(steps) == \E i \in DOMAIN steps : steps[i].st \in {"failed", "cancelled"}

Shown == [type : {"none", "plan_open"} \cup {TerminalType(e) : e \in Final}, steps : ShownSteps]

\* What the type of a plan event says of its steps.
ShownShape(s) ==
    /\ s.type = "none" => s.steps = <<>>
    /\ s.type = "plan_completed" => AllDone(s.steps)
    /\ s.type \in {"plan_failed", "plan_cancelled"} =>
          Over(s.steps) /\ (AllDone(s.steps) \/ BrokenOff(s.steps))

\* What EndIsShown says of them.
ShowsEnd(steps, end) ==
    /\ Over(steps)
    /\ end = "completed" => AllDone(steps)
    /\ end # "completed" => AllDone(steps) \/ BrokenOff(steps)

LEMMA ShownSequence ==
  ASSUME NEW n \in Nat, NEW f \in [1 .. n -> Step(StepStatus \cup {"cancelled"})]
  PROVE  f \in ShownSteps
BY SeqDef DEF ShownSteps

LEMMA TerminalPlanFacts ==
  ASSUME NEW steps \in ShownSteps, NEW end \in Final
  PROVE  TerminalPlan(steps, end) \in ShownSteps /\ ShowsEnd(TerminalPlan(steps, end), end)
<1> DEFINE over == {"running", "failed", "cancelled"}
           rest == SelectInSeq(steps, LAMBDA s : s.st # "completed")
           I == {i \in 1 .. Len(steps) : steps[i].st # "completed"}
<1>1. /\ DOMAIN steps = 1 .. Len(steps) /\ Len(steps) \in Nat
      /\ \A i \in DOMAIN steps : steps[i] \in Step(StepStatus \cup {"cancelled"})
  BY DEF ShownSteps
<1>2. rest = IF I # {} THEN Min(I) ELSE 0
  BY DEF SelectInSeq
<1>3. I # {} => Min(I) \in I
  <2>1. I \in SUBSET Nat
    OBVIOUS
  <2> HIDE DEF I
  <2> QED  BY <2>1, Least
<1>4. rest = 0 => AllDone(steps)
  BY <1>1, <1>2, <1>3 DEF AllDone
<1>5. rest # 0 => rest \in DOMAIN steps
  BY <1>1, <1>2, <1>3
<1>6. TerminalPlan(steps, end) =
        IF end = "completed" THEN [i \in DOMAIN steps |-> [steps[i] EXCEPT !.st = "completed"]]
        ELSE IF \E i \in DOMAIN steps : steps[i].st \in over
             THEN [i \in DOMAIN steps |->
                      IF steps[i].st = "running" THEN [steps[i] EXCEPT !.st = end] ELSE steps[i]]
             ELSE IF rest = 0 THEN steps ELSE Marked(steps, rest, end)
  BY DEF TerminalPlan
<1> HIDE DEF rest, I
<1>7. \A i \in DOMAIN steps : [steps[i] EXCEPT !.st = end] \in Step(StepStatus \cup {"cancelled"})
  BY <1>1 DEF Step, Final, StepStatus
<1>8. CASE end = "completed"
  <2> DEFINE new == [i \in DOMAIN steps |-> [steps[i] EXCEPT !.st = end]]
  <2>1. TerminalPlan(steps, end) = new
    BY <1>6, <1>8
  <2>2. new \in ShownSteps /\ DOMAIN new = DOMAIN steps
    <3>1. new \in [1 .. Len(steps) -> Step(StepStatus \cup {"cancelled"})]
      BY <1>1, <1>7
    <3> HIDE DEF new
    <3> QED  BY <1>1, <3>1, ShownSequence
  <2>3. \A i \in DOMAIN steps : new[i].st = "completed"
    BY <1>1, <1>8 DEF Step
  <2> HIDE DEF new
  <2> QED  BY <1>8, <2>1, <2>2, <2>3 DEF ShowsEnd, Over, AllDone
<1>9. CASE end # "completed" /\ \E i \in DOMAIN steps : steps[i].st \in over
  <2> DEFINE new == [i \in DOMAIN steps |->
                        IF steps[i].st = "running" THEN [steps[i] EXCEPT !.st = end] ELSE steps[i]]
  <2>1. TerminalPlan(steps, end) = new
    BY <1>6, <1>9
  <2>2. new \in ShownSteps /\ DOMAIN new = DOMAIN steps
    <3>1. new \in [1 .. Len(steps) -> Step(StepStatus \cup {"cancelled"})]
      BY <1>1, <1>7
    <3> HIDE DEF new
    <3> QED  BY <1>1, <3>1, ShownSequence
  <2>3. \A i \in DOMAIN steps :
           new[i].st = IF steps[i].st = "running" THEN end ELSE steps[i].st
    BY <1>1 DEF Step
  <2> HIDE DEF new
  <2>4. Over(new)
    BY <1>9, <2>2, <2>3 DEF Over, Final
  <2>5. BrokenOff(new)
    BY <1>9, <2>2, <2>3 DEF BrokenOff, Final
  <2> QED  BY <1>9, <2>1, <2>2, <2>4, <2>5 DEF ShowsEnd
<1>10. CASE end # "completed" /\ ~ (\E i \in DOMAIN steps : steps[i].st \in over) /\ rest = 0
  <2>1. TerminalPlan(steps, end) = steps
    BY <1>6, <1>10
  <2> QED  BY <1>4, <1>10, <2>1 DEF ShowsEnd, Over
<1>11. CASE end # "completed" /\ ~ (\E i \in DOMAIN steps : steps[i].st \in over) /\ rest # 0
  <2> DEFINE new == Marked(steps, rest, end)
  <2>1. TerminalPlan(steps, end) = new
    BY <1>6, <1>11
  <2>2. new = [steps EXCEPT ![rest] = [steps[rest] EXCEPT !.st = end]]
    BY <1>5, <1>11 DEF Marked
  <2>3. new \in ShownSteps /\ DOMAIN new = DOMAIN steps
    <3>1. new \in [1 .. Len(steps) -> Step(StepStatus \cup {"cancelled"})]
      BY <1>1, <1>5, <1>7, <1>11, <2>2
    <3> HIDE DEF new
    <3> QED  BY <1>1, <3>1, ShownSequence
  <2>4. /\ new[rest].st = end
        /\ \A i \in DOMAIN steps : i # rest => new[i] = steps[i]
    BY <1>1, <1>5, <1>11, <2>2 DEF Step
  <2> HIDE DEF new
  <2>5. Over(new)
    BY <1>11, <2>3, <2>4 DEF Over, Final
  <2>6. BrokenOff(new)
    BY <1>5, <1>11, <2>3, <2>4 DEF BrokenOff, Final
  <2> QED  BY <1>11, <2>1, <2>3, <2>5, <2>6 DEF ShowsEnd
<1> QED  BY <1>8, <1>9, <1>10, <1>11

LEMMA EndedFacts ==
  ASSUME NEW s \in Shown, ShownShape(s), NEW end \in Final
  PROVE  /\ Ended(s, end) \in Shown /\ ShownShape(Ended(s, end))
         /\ ShowsEnd(Ended(s, end).steps, end)
<1>0. s.steps \in ShownSteps
  BY DEF Shown
<1>1. CASE s.type = "none"
  <2>1. Ended(s, end) = s /\ DOMAIN s.steps = {}
    BY <1>1 DEF Ended, ShownShape
  <2> QED  BY <2>1 DEF ShowsEnd, Over, AllDone
<1>2. CASE s.type = TerminalType(end)
  <2>1. Ended(s, end) = s
    BY <1>2 DEF Ended
  <2>2. AllDone(s.steps) => Over(s.steps)
    BY DEF AllDone, Over
  <2> QED  BY <1>2, <2>1, <2>2 DEF ShowsEnd, ShownShape, TerminalType, Final
<1>3. CASE s.type \notin {"none", TerminalType(end)}
  <2> DEFINE new == TerminalPlan(s.steps, end)
  <2>1. Ended(s, end) = [type |-> TerminalType(end), steps |-> new]
    BY <1>3 DEF Ended
  <2>2. new \in ShownSteps /\ ShowsEnd(new, end)
    BY <1>0, TerminalPlanFacts
  <2> HIDE DEF new
  <2> QED  BY <2>1, <2>2 DEF Shown, ShownShape, ShowsEnd, TerminalType, Final
<1> QED  BY <1>1, <1>2, <1>3

(***************************************************************************)
(* The inductive invariant.                                                *)
(***************************************************************************)
Early == {"building", "delegating", "planning"}
Late == {"queued", "completing", "ended"}
Looping == {"thinking", "calling", "reasoned", "judging", "concluding"}

\* Where the worker is, and what that says of the row and of its plan.
Control ==
    /\ pc \in Early \cup Late \cup Looping \cup {"summing", "handled"}
    /\ pc = "queued" => status \in {"queued", "cancelled"}
    /\ pc = "completing" => status = "completed" /\ by = "run"
    /\ ~ conf.remote /\ pc \notin Late => by = "nobody"
    /\ ~ plan.made => plan.steps = <<>>
    /\ pc \in Early => ~ plan.made

Phases ==
    /\ pc \in {"building", "delegating", "completing"} => open = {}
    /\ pc \in {"planning", "thinking", "calling", "reasoned"} => open \subseteq {"agent", "react"}
    /\ pc \in {"judging", "concluding", "handled"} => open \subseteq {"agent"}
    /\ pc = "summing" => open \subseteq {"agent", "summary"}

\* What is shown of a run that has ended, or that was cancelled before its
\* worker began.
ShownOK ==
    /\ ShownShape(shown)
    /\ pc \in {"ended", "queued"} /\ by \in {"run", "task"} => ShowsEnd(shown.steps, status)

\* Until the summary one step is in work at most, and the summary is one.
InWork ==
    /\ OneStepRunning
    /\ pc \in Early \cup Looping => summary = 0
    /\ pc = "summing" /\ summary # 0 =>
          /\ plan.made /\ summary \in DOMAIN plan.steps
          /\ plan.steps[summary].st = "running"

IInv == TypeOK /\ Control /\ QuestionIsKept /\ Phases /\ PhasesEnd /\ ShownIsPlan
        /\ ShownOK /\ InWork

(***************************************************************************)
(* Steps of the loop, by what they do to the plan.                         *)
(***************************************************************************)
Plan == [made : BOOLEAN, steps : PlanSteps]

PlanMoves ==
    \/ UNCHANGED plans
    \/ /\ plan' \in Plan /\ shown' \in Shown
       /\ shown'.steps = plan'.steps /\ ShownShape(shown')
       /\ ~ plan'.made => plan'.steps = <<>>
       /\ ~ conf.marks /\ AtMostOne(RunningOf(plan.steps)) => AtMostOne(RunningOf(plan'.steps))

LEMMA OneRunning ==
  ASSUME IInv, summary = 0, ~ conf.marks  PROVE AtMostOne(RunningOf(plan.steps))
<1>0. plan.steps \in Seq(Step(StepStatus))
  BY DEF IInv, TypeOK
<1>1. DOMAIN plan.steps = 1 .. Len(plan.steps) /\ Len(plan.steps) \in Nat
  BY <1>0
<1>2. \A i, j \in Running : ~ (i < j)
  BY <1>1 DEF IInv, InWork, OneStepRunning, Running
<1> QED  BY <1>1, <1>2 DEF Running, RunningOf, AtMostOne

LEMMA PlanIsShown ==
  ASSUME NEW s \in PlanSteps  PROVE s \in ShownSteps
<1>1. Step(StepStatus) \subseteq Step(StepStatus \cup {"cancelled"})
  BY DEF Step
<1> QED  BY <1>1, SeqMonotonic DEF PlanSteps, ShownSteps

LEMMA PlannedFacts ==
  ASSUME NEW steps \in PlanSteps, NEW command, Planned(steps, command),
         command = "finish" => AllDone(steps)
  PROVE  /\ plan' \in Plan /\ shown' \in Shown /\ ShownShape(shown')
         /\ plan'.made /\ plan'.steps = steps /\ shown'.steps = steps
<1>1. steps \in ShownSteps
  BY PlanIsShown
<1>2. plan' = [made |-> TRUE, steps |-> steps] /\ shown' = [type |-> EventType(command), steps |-> steps]
  BY DEF Planned
<1>3. EventType(command) \in {"plan_completed", "plan_open"}
      /\ (EventType(command) = "plan_completed" => AllDone(steps))
  BY DEF EventType
<1>4. shown' \in Shown
  BY <1>1, <1>2, <1>3 DEF Shown, TerminalType, Final
<1>5. ShownShape(shown')
  BY <1>2, <1>3 DEF ShownShape
<1> QED  BY <1>2, <1>4, <1>5 DEF Plan

LEMMA PlannedMoves ==
  ASSUME NEW steps \in PlanSteps, NEW command, Planned(steps, command),
         command = "finish" => AllDone(steps),
         ~ conf.marks /\ AtMostOne(RunningOf(plan.steps)) => AtMostOne(RunningOf(steps))
  PROVE  PlanMoves /\ plan'.made /\ plan'.steps = steps
BY PlannedFacts DEF PlanMoves

LEMMA LoopStep ==
  ASSUME IInv, pc \in {"thinking", "calling"}, NextStep, PlanMoves,
         waiting' \in BOOLEAN,
         \/ status' = status /\ by' = by /\ (waiting' <=> waiting)
         \/ status' = "waiting_input" /\ by' = "nobody",
         found' \subseteq Calls, call' \in Calls \cup {"none"}
  PROVE  IInv'
<1> USE DEF IInv
<1>0. /\ pc' \in {"thinking", "reasoned"} /\ answered' \in BOOLEAN
      /\ UNCHANGED <<conf, needs, summary, open, workers>>
  BY DEF NextStep
<1>s. step' \in 0 .. MaxSteps
  <2>1. step \in 0 .. MaxSteps /\ MaxSteps \in Nat
    BY AgentLoopAssumption DEF TypeOK
  <2>2. step' = step \/ (step < MaxSteps /\ step' = step + 1)
    BY DEF NextStep
  <2> QED  BY <2>1, <2>2
<1>p. plan \in Plan /\ shown \in Shown
  BY DEF TypeOK, Plan, Shown, PlanSteps, ShownSteps
<1>a. /\ plan' \in Plan /\ shown' \in Shown
      /\ ShownShape(shown') /\ (~ plan'.made => plan'.steps = <<>>)
  <2>1. CASE UNCHANGED plans
    BY <1>p, <2>1 DEF Control, ShownOK, plans
  <2> QED  BY <2>1 DEF PlanMoves
<1>t. /\ plan' \in [made : BOOLEAN, steps : Seq(Step(StepStatus))]
      /\ shown' \in [type : {"none", "plan_open"} \cup {TerminalType(e) : e \in Final},
                     steps : Seq(Step(StepStatus \cup {"cancelled"}))]
  BY <1>a DEF Plan, Shown, PlanSteps, ShownSteps
<1>r. /\ status' \in {"queued", "running", "waiting_input", "waiting_approval"} \cup Final
      /\ by' \in {"nobody", "run", "task", "archive", "approval"} /\ (by' = "nobody" <=> status' \notin Final)
      /\ waiting' \in BOOLEAN
  BY DEF TypeOK, row, Final
<1>1. TypeOK'
  BY <1>0, <1>s, <1>r, <1>t DEF TypeOK
<1>2. Control'
  BY <1>0, <1>a DEF Control, Early, Late, Looping, row
<1>3. QuestionIsKept'
  BY DEF QuestionIsKept, row
<1>4. Phases' /\ PhasesEnd'
  BY <1>0 DEF Phases, PhasesEnd
<1>5. ShownIsPlan'
  BY <1>0 DEF ShownIsPlan, PlanMoves, plans, Control, Late, row
<1>6. ShownOK'
  BY <1>0, <1>a DEF ShownOK
<1>7. InWork'
  <2>1. summary' = 0 /\ summary = 0
    BY <1>0 DEF InWork, Looping
  <2>2. ~ conf.marks => AtMostOne(RunningOf(plan'.steps))
    BY <2>1, OneRunning DEF PlanMoves, plans
  <2>3. plan'.steps \in Seq(Step(StepStatus))
    BY <1>t
  <2>4. \A i \in DOMAIN plan'.steps : i \in Nat
    BY <2>3
  <2>5. \A i \in DOMAIN plan'.steps : ~ (i < i)
    BY <2>4
  <2>6. OneStepRunning'
    BY <1>0, <2>2, <2>5 DEF OneStepRunning, Running, RunningOf, AtMostOne
  <2> QED  BY <1>0, <2>1, <2>6 DEF InWork, Early, Looping
<1> QED  BY <1>1, <1>2, <1>3, <1>4, <1>5, <1>6, <1>7

LEMMA SyncMoves ==
  ASSUME IInv, NEW failed \in BOOLEAN, SyncPlanStep(failed)
  PROVE  PlanMoves /\ (plan.made /\ plan'.made => Ahead(plan.steps, plan'.steps))
<1>1. plan.steps \in PlanSteps
  BY DEF IInv, TypeOK, PlanSteps
<1>2. CASE HasPlanTool /\ plan.made /\ FirstOf(plan.steps, "running") # 0
  <2>1. Planned(Synced(plan.steps, failed), "mark_step")
    BY <1>2 DEF SyncPlanStep
  <2>2. /\ Synced(plan.steps, failed) \in PlanSteps
        /\ Ahead(plan.steps, Synced(plan.steps, failed))
        /\ AtMostOne(RunningOf(plan.steps)) => AtMostOne(RunningOf(Synced(plan.steps, failed)))
    BY <1>1, <1>2, SyncedFacts
  <2> QED  BY <2>1, <2>2, PlannedMoves
<1>3. CASE ~ (HasPlanTool /\ plan.made /\ FirstOf(plan.steps, "running") # 0)
  <2>1. UNCHANGED plans
    BY <1>3 DEF SyncPlanStep
  <2> QED  BY <2>1, AheadOfItself DEF PlanMoves, plans
<1> QED  BY <1>2, <1>3

LEMMA RequestInputMoves ==
  ASSUME IInv, RequestInput
  PROVE  PlanMoves /\ (plan.made /\ plan'.made => Ahead(plan.steps, plan'.steps))
<1> DEFINE running == FirstOf(plan.steps, "running")
           held == Marked(plan.steps, running, "waiting_input")
           after == IF FirstOf(held, "running") = 0 THEN held ELSE Synced(held, FALSE)
<1>0. plan.steps \in PlanSteps
  BY DEF IInv, TypeOK, PlanSteps
<1>1. CASE ~ HasPlanTool \/ running = 0
  <2>1. UNCHANGED plans
    BY <1>1 DEF RequestInput
  <2> QED  BY <2>1, AheadOfItself DEF PlanMoves, plans
<1>2. CASE ~ (~ HasPlanTool \/ running = 0)
  <2>1. Planned(after, "mark_step")
    BY <1>2 DEF RequestInput
  <2>2. running \in Nat /\ plan.steps[running].st = "running" /\ "waiting_input" \in StepStatus
    BY <1>0, <1>2, First DEF PlanSteps, StepStatus
  <2> HIDE DEF running
  <2>3. /\ held \in PlanSteps /\ Len(held) = Len(plan.steps) /\ DOMAIN held = DOMAIN plan.steps
        /\ \A j \in DOMAIN plan.steps :
              /\ held[j].name = plan.steps[j].name
              /\ held[j].st = IF j = running THEN "waiting_input" ELSE plan.steps[j].st
    BY <1>0, <2>2, MarkedFacts
  <2> HIDE DEF held
  <2>4. RunningOf(held) \subseteq RunningOf(plan.steps)
    BY <2>3 DEF RunningOf
  <2>5. AtMostOne(RunningOf(plan.steps)) => AtMostOne(RunningOf(held))
    BY <2>4 DEF AtMostOne
  <2>6. /\ after \in PlanSteps /\ Ahead(held, after)
        /\ AtMostOne(RunningOf(held)) => AtMostOne(RunningOf(after))
    BY <2>3, SyncedFacts, AheadOfItself
  <2> HIDE DEF after
  <2>7. Ahead(plan.steps, after)
    BY <2>2, <2>3, <2>6 DEF Ahead, Forward
  <2> QED  BY <2>1, <2>5, <2>6, <2>7, PlannedMoves
<1> QED  BY <1>1, <1>2


(***************************************************************************)
(* The commands of the model and the other steps of the loop.              *)
(***************************************************************************)
LEMMA RowOfIInv ==
  ASSUME IInv
  PROVE  /\ plan.steps \in PlanSteps /\ plan \in Plan /\ shown \in Shown
         /\ found \subseteq Calls /\ call \in Calls \cup {"none"} /\ waiting \in BOOLEAN
BY DEF IInv, TypeOK, Plan, PlanSteps, Shown, ShownSteps

LEMMA CommandedKeeps ==
  ASSUME IInv, Plans, NEW steps \in PlanSteps, NEW command, Commanded(steps, command),
         command = "finish" => AllDone(steps),
         ~ conf.marks /\ AtMostOne(RunningOf(plan.steps)) => AtMostOne(RunningOf(steps))
  PROVE  IInv'
<1>1. PlanMoves
  BY PlannedMoves DEF Commanded
<1>2. /\ NextStep /\ pc = "thinking" /\ found' \subseteq Calls /\ call' \in Calls \cup {"none"}
      /\ waiting' \in BOOLEAN
      /\ status' = status /\ by' = by /\ (waiting' <=> waiting)
  BY RowOfIInv DEF Commanded, Plans, row
<1> QED  BY <1>1, <1>2, LoopStep

LEMMA CreateKeeps ==
  ASSUME IInv, Create  PROVE IInv'
<1>1. PICK ns \in Texts \ {<<>>} : Commanded(NewSteps(ns), "create")
  BY DEF Create
<1>2. NewSteps(ns) \in PlanSteps /\ RunningOf(NewSteps(ns)) = {}
  BY NewStepsFacts, TextsAreSequences
<1>3. AtMostOne(RunningOf(NewSteps(ns)))
  BY <1>2 DEF AtMostOne
<1> QED  BY <1>1, <1>2, <1>3, CommandedKeeps DEF Create

LEMMA UpdateKeeps ==
  ASSUME IInv, Update  PROVE IInv'
<1>1. PICK ns \in Texts : Commanded(Updated(plan.steps, ns), "update")
  BY DEF Update
<1>2. /\ Updated(plan.steps, ns) \in PlanSteps
      /\ AtMostOne(RunningOf(plan.steps)) => AtMostOne(RunningOf(Updated(plan.steps, ns)))
  BY UpdatedFacts, TextsAreSequences, RowOfIInv
<1> QED  BY <1>1, <1>2, CommandedKeeps DEF Update

LEMMA MarkStepKeeps ==
  ASSUME IInv, MarkStep  PROVE IInv'
<1>1. PICK i \in DOMAIN plan.steps, st \in StepStatus \ {"not_started"} :
         Commanded(Marked(plan.steps, i, st), "mark_step")
  BY DEF MarkStep
<1>2. i \in Nat
  BY RowOfIInv DEF PlanSteps
<1>3. Marked(plan.steps, i, st) \in PlanSteps
  BY <1>2, MarkedFacts, RowOfIInv
<1> QED  BY <1>1, <1>3, CommandedKeeps DEF MarkStep

LEMMA AddStepKeeps ==
  ASSUME IInv, AddStep  PROVE IInv'
<1>1. PICK i \in 1 .. Len(plan.steps) + 1, n \in Names :
         Commanded(InsertAt(plan.steps, i, [name |-> n, st |-> "not_started"]), "add_step")
  BY DEF AddStep
<1> DEFINE new == InsertAt(plan.steps, i, [name |-> n, st |-> "not_started"])
<1>2. new \in PlanSteps
  BY InsertFacts, RowOfIInv
<1> HIDE DEF new
<1>3. Commanded(new, "add_step")
  BY <1>1 DEF new
<1> QED  BY <1>2, <1>3, CommandedKeeps DEF AddStep

LEMMA FinishPlanKeeps ==
  ASSUME IInv, FinishPlan  PROVE IInv'
<1> DEFINE new == [i \in DOMAIN plan.steps |-> [plan.steps[i] EXCEPT !.st = "completed"]]
<1>1. TerminalPlan(plan.steps, "completed") = new
  BY DEF TerminalPlan
<1>2. plan.steps \in Seq(Step(StepStatus))
  BY RowOfIInv DEF PlanSteps
<1>3. /\ new \in [1 .. Len(plan.steps) -> Step(StepStatus)] /\ Len(plan.steps) \in Nat
      /\ \A i \in DOMAIN new : new[i].st = "completed"
  <2>1. DOMAIN plan.steps = 1 .. Len(plan.steps) /\ Len(plan.steps) \in Nat
    BY <1>2
  <2>2. \A i \in DOMAIN plan.steps : plan.steps[i] \in Step(StepStatus)
    BY <1>2
  <2>3. \A i \in DOMAIN plan.steps :
           /\ [plan.steps[i] EXCEPT !.st = "completed"] \in Step(StepStatus)
           /\ [plan.steps[i] EXCEPT !.st = "completed"].st = "completed"
    BY <2>2 DEF Step, StepStatus
  <2> QED  BY <2>1, <2>3
<1> HIDE DEF new
<1>4. new \in PlanSteps
  BY <1>3, SeqDef DEF PlanSteps
<1>5. RunningOf(new) = {}
  BY <1>3 DEF RunningOf
<1>6. AtMostOne(RunningOf(new)) /\ AllDone(new)
  BY <1>3, <1>5 DEF AtMostOne, AllDone
<1>7. Commanded(new, "finish") /\ Plans
  BY <1>1 DEF FinishPlan
<1> QED  BY <1>4, <1>6, <1>7, CommandedKeeps

LEMMA ReadPlanKeeps ==
  ASSUME IInv, ReadPlan  PROVE IInv'
<1>1. shown' \in Shown /\ ShownShape(shown')
  BY PlanIsShown, RowOfIInv DEF ReadPlan, Shown, ShownShape
<1>2. PlanMoves
  BY <1>1, RowOfIInv DEF ReadPlan, PlanMoves, IInv, Control
<1>3. /\ NextStep /\ pc = "thinking" /\ found' \subseteq Calls /\ call' \in Calls \cup {"none"}
      /\ waiting' \in BOOLEAN
      /\ status' = status /\ by' = by /\ (waiting' <=> waiting)
  BY RowOfIInv DEF ReadPlan, Plans, row
<1> QED  BY <1>2, <1>3, LoopStep

LEMMA RefusedCommandKeeps ==
  ASSUME IInv, RefusedCommand  PROVE IInv'
<1>1. /\ NextStep /\ pc = "thinking" /\ found' \subseteq Calls /\ call' \in Calls \cup {"none"}
      /\ waiting' \in BOOLEAN /\ PlanMoves
      /\ status' = status /\ by' = by /\ (waiting' <=> waiting)
  BY RowOfIInv DEF RefusedCommand, Plans, row, PlanMoves
<1> QED  BY <1>1, LoopStep

LEMMA RequestInputKeeps ==
  ASSUME IInv, RequestInput  PROVE IInv'
<1>1. /\ NextStep /\ pc = "thinking" /\ found' \subseteq Calls /\ call' \in Calls \cup {"none"}
      /\ waiting' \in BOOLEAN
      /\ status' = "waiting_input" /\ by' = "nobody"
  BY RowOfIInv DEF RequestInput
<1> QED  BY <1>1, RequestInputMoves, LoopStep

LEMMA ObserveKeeps ==
  ASSUME IInv, Observe  PROVE IInv'
<1>1. PICK failed \in BOOLEAN, reusable \in BOOLEAN :
         /\ found' = IF reusable THEN found \cup {call} ELSE found
         /\ SyncPlanStep(failed)
  BY DEF Observe
<1>2. call \in Calls
  BY DEF Observe, IInv, TypeOK
<1>3. /\ NextStep /\ pc = "calling" /\ found' \subseteq Calls /\ call' \in Calls \cup {"none"}
      /\ waiting' \in BOOLEAN
      /\ status' = status /\ by' = by /\ (waiting' <=> waiting)
  BY <1>1, <1>2, RowOfIInv DEF Observe, row
<1> QED  BY <1>1, <1>3, SyncMoves, LoopStep

(***************************************************************************)
(* Steps that leave plan and shown alone, and the beginning.               *)
(***************************************************************************)
LEMMA BeginKeeps ==
  ASSUME IInv, Begin  PROVE IInv'
<1> USE DEF IInv, Begin, row, loop, plans, NoPlan
<1>1. TypeOK'
  <2>1. 0 \in 0 .. MaxSteps /\ {} \subseteq Calls
    BY AgentLoopAssumption
  <2>2. NoPlan \in [made : BOOLEAN, steps : Seq(Step(StepStatus))]
    OBVIOUS
  <2> HIDE DEF NoPlan
  <2>3. CASE status = "queued"
    <3>1. /\ status' = "running" /\ needs' = "unknown" /\ step' = 0 /\ found' = {} /\ call' = "none"
          /\ answered' = FALSE /\ waiting' = FALSE /\ summary' = 0 /\ plan' = NoPlan /\ open' = {}
          /\ pc' = "building" /\ UNCHANGED <<conf, by, shown, workers>>
      BY <2>3
    <3>2. TypeOK!1' /\ TypeOK!2' /\ TypeOK!3'
      BY <2>3, <3>1 DEF TypeOK, Final
    <3> QED  BY <2>1, <2>2, <3>1, <3>2 DEF TypeOK
  <2>4. CASE status # "queued"
    BY <2>4 DEF TypeOK, Final
  <2> QED  BY <2>3, <2>4
<1>2. Control'
  BY DEF Control, Early, Late, Looping, TypeOK, Final
<1>3. QuestionIsKept' /\ Phases' /\ PhasesEnd'
  <2>1. CASE status = "queued"
    BY <2>1 DEF QuestionIsKept, Phases, PhasesEnd, TypeOK, Final
  <2>2. CASE status # "queued"
    BY <2>2 DEF QuestionIsKept, Phases, PhasesEnd, TypeOK, Final, Control
  <2> QED  BY <2>1, <2>2
<1>4. ShownIsPlan'
  BY DEF ShownIsPlan, Control, Late, TypeOK, Final
<1>5. ShownOK'
  BY DEF ShownOK, Control, TypeOK, Final
<1>6. InWork'
  BY DEF InWork, OneStepRunning, Running, Early, Looping
<1> QED  BY <1>1, <1>2, <1>3, <1>4, <1>5, <1>6

LEMMA BuildKeeps ==
  ASSUME IInv, Build  PROVE IInv'
<1> USE DEF IInv, Build, row, plans
<1>1. TypeOK'
  BY AgentLoopAssumption DEF TypeOK, Final, Control
<1>2. Control'
  BY DEF Control, Early, Late, Looping, TypeOK, Final
<1>3. QuestionIsKept' /\ Phases' /\ PhasesEnd'
  BY DEF QuestionIsKept, Phases, PhasesEnd, TypeOK, Final
<1>4. ShownIsPlan'
  BY DEF ShownIsPlan, Control, Late, TypeOK, Final
<1>5. ShownOK'
  BY DEF ShownOK, Control, TypeOK, Final
<1>6. InWork'
  BY DEF InWork, OneStepRunning, Running, Early, Looping
<1> QED  BY <1>1, <1>2, <1>3, <1>4, <1>5, <1>6

LEMMA DelegateKeeps ==
  ASSUME IInv, Delegate  PROVE IInv'
<1> USE DEF IInv, Delegate, row, loop, plans
<1>1. TypeOK'
  BY AgentLoopAssumption DEF TypeOK, Final, Control
<1>2. Control'
  BY DEF Control, Early, Late, Looping, TypeOK, Final
<1>3. QuestionIsKept' /\ Phases' /\ PhasesEnd'
  BY DEF QuestionIsKept, Phases, PhasesEnd, TypeOK, Final
<1>4. ShownIsPlan'
  BY DEF ShownIsPlan, Control, Late, TypeOK, Final
<1>5. ShownOK'
  BY DEF ShownOK, Control, TypeOK, Final
<1>6. InWork'
  BY DEF InWork, OneStepRunning, Running, Early, Looping
<1> QED  BY <1>1, <1>2, <1>3, <1>4, <1>5, <1>6

LEMMA CallKeeps ==
  ASSUME IInv, NEW c \in Calls, Call(c)  PROVE IInv'
<1> USE DEF IInv, Call, row, plans
<1>1. TypeOK'
  <2>1. c # "none"
    BY AgentLoopAssumption
  <2> QED  BY <2>1 DEF TypeOK
<1>2. Control'
  BY DEF Control, Early, Late, Looping, TypeOK, Final
<1>3. QuestionIsKept' /\ Phases' /\ PhasesEnd'
  BY DEF QuestionIsKept, Phases, PhasesEnd, TypeOK, Final
<1>4. ShownIsPlan'
  BY DEF ShownIsPlan, Control, Late, TypeOK, Final
<1>5. ShownOK'
  BY DEF ShownOK, Control, TypeOK, Final
<1>6. InWork'
  BY DEF InWork, OneStepRunning, Running, Early, Looping
<1> QED  BY <1>1, <1>2, <1>3, <1>4, <1>5, <1>6

LEMMA RepeatedKeeps ==
  ASSUME IInv, NEW c \in Calls, Repeated(c)  PROVE IInv'
<1> USE DEF IInv, Repeated, row, plans
<1>1. TypeOK'
  BY AgentLoopAssumption DEF TypeOK, Final, Control
<1>2. Control'
  BY DEF Control, Early, Late, Looping, TypeOK, Final
<1>3. QuestionIsKept' /\ Phases' /\ PhasesEnd'
  BY DEF QuestionIsKept, Phases, PhasesEnd, TypeOK, Final
<1>4. ShownIsPlan'
  BY DEF ShownIsPlan, Control, Late, TypeOK, Final
<1>5. ShownOK'
  BY DEF ShownOK, Control, TypeOK, Final
<1>6. InWork'
  BY DEF InWork, OneStepRunning, Running, Early, Looping
<1> QED  BY <1>1, <1>2, <1>3, <1>4, <1>5, <1>6

LEMMA FinishKeeps ==
  ASSUME IInv, Finish  PROVE IInv'
<1> USE DEF IInv, Finish, row, plans
<1>1. TypeOK'
  BY AgentLoopAssumption DEF TypeOK, Final, Control
<1>2. Control'
  BY DEF Control, Early, Late, Looping, TypeOK, Final
<1>3. QuestionIsKept' /\ Phases' /\ PhasesEnd'
  BY DEF QuestionIsKept, Phases, PhasesEnd, TypeOK, Final
<1>4. ShownIsPlan'
  BY DEF ShownIsPlan, Control, Late, TypeOK, Final
<1>5. ShownOK'
  BY DEF ShownOK, Control, TypeOK, Final
<1>6. InWork'
  BY DEF InWork, OneStepRunning, Running, Early, Looping
<1> QED  BY <1>1, <1>2, <1>3, <1>4, <1>5, <1>6

LEMMA ApprovalRequiredKeeps ==
  ASSUME IInv, ApprovalRequired  PROVE IInv'
<1> USE DEF IInv, ApprovalRequired, Wait, loop, plans
<1>1. TypeOK'
  BY AgentLoopAssumption DEF TypeOK, Final, Control
<1>2. Control'
  BY DEF Control, Early, Late, Looping, TypeOK, Final
<1>3. QuestionIsKept' /\ Phases' /\ PhasesEnd'
  BY DEF QuestionIsKept, Phases, PhasesEnd, TypeOK, Final
<1>4. ShownIsPlan'
  BY DEF ShownIsPlan, Control, Late, TypeOK, Final
<1>5. ShownOK'
  BY DEF ShownOK, Control, TypeOK, Final
<1>6. InWork'
  BY DEF InWork, OneStepRunning, Running, Early, Looping
<1> QED  BY <1>1, <1>2, <1>3, <1>4, <1>5, <1>6

LEMMA ReasonedKeeps ==
  ASSUME IInv, Reasoned  PROVE IInv'
<1> USE DEF IInv, Reasoned, row, loop, plans
<1>1. TypeOK'
  BY AgentLoopAssumption DEF TypeOK, Final, Control
<1>2. Control'
  BY DEF Control, Early, Late, Looping, TypeOK, Final
<1>3. QuestionIsKept' /\ Phases' /\ PhasesEnd'
  BY DEF QuestionIsKept, Phases, PhasesEnd, TypeOK, Final
<1>4. ShownIsPlan'
  BY DEF ShownIsPlan, Control, Late, TypeOK, Final
<1>5. ShownOK'
  BY DEF ShownOK, Control, TypeOK, Final
<1>6. InWork'
  BY DEF InWork, OneStepRunning, Running, Early, Looping
<1> QED  BY <1>1, <1>2, <1>3, <1>4, <1>5, <1>6

LEMMA JudgeKeeps ==
  ASSUME IInv, Judge  PROVE IInv'
<1> USE DEF IInv, Judge, row, plans
<1>1. TypeOK'
  BY AgentLoopAssumption DEF TypeOK, Final, Control
<1>2. Control'
  BY DEF Control, Early, Late, Looping, TypeOK, Final
<1>3. QuestionIsKept' /\ Phases' /\ PhasesEnd'
  BY DEF QuestionIsKept, Phases, PhasesEnd, TypeOK, Final
<1>4. ShownIsPlan'
  BY DEF ShownIsPlan, Control, Late, TypeOK, Final
<1>5. ShownOK'
  BY DEF ShownOK, Control, TypeOK, Final
<1>6. InWork'
  BY DEF InWork, OneStepRunning, Running, Early, Looping
<1> QED  BY <1>1, <1>2, <1>3, <1>4, <1>5, <1>6

LEMMA ReturnAnswerKeeps ==
  ASSUME IInv, ReturnAnswer  PROVE IInv'
<1> USE DEF IInv, ReturnAnswer, row, loop, plans
<1>1. TypeOK'
  BY AgentLoopAssumption DEF TypeOK, Final, Control
<1>2. Control'
  BY DEF Control, Early, Late, Looping, TypeOK, Final
<1>3. QuestionIsKept' /\ Phases' /\ PhasesEnd'
  BY DEF QuestionIsKept, Phases, PhasesEnd, TypeOK, Final
<1>4. ShownIsPlan'
  BY DEF ShownIsPlan, Control, Late, TypeOK, Final
<1>5. ShownOK'
  BY DEF ShownOK, Control, TypeOK, Final
<1>6. InWork'
  BY DEF InWork, OneStepRunning, Running, Early, Looping
<1> QED  BY <1>1, <1>2, <1>3, <1>4, <1>5, <1>6

LEMMA AwaitInputKeeps ==
  ASSUME IInv, AwaitInput  PROVE IInv'
<1> USE DEF IInv, AwaitInput, Wait, loop, plans
<1>1. TypeOK'
  BY AgentLoopAssumption DEF TypeOK, Final, Control
<1>2. Control'
  BY DEF Control, Early, Late, Looping, TypeOK, Final
<1>3. QuestionIsKept' /\ Phases' /\ PhasesEnd'
  BY DEF QuestionIsKept, Phases, PhasesEnd, TypeOK, Final
<1>4. ShownIsPlan'
  BY DEF ShownIsPlan, Control, Late, TypeOK, Final
<1>5. ShownOK'
  BY DEF ShownOK, Control, TypeOK, Final
<1>6. InWork'
  BY DEF InWork, OneStepRunning, Running, Early, Looping
<1> QED  BY <1>1, <1>2, <1>3, <1>4, <1>5, <1>6

LEMMA CompleteKeeps ==
  ASSUME IInv, Complete  PROVE IInv'
<1> USE DEF IInv, Complete, loop, plans
<1>1. TypeOK'
  BY AgentLoopAssumption DEF TypeOK, Final, Control
<1>2. Control'
  BY DEF Control, Early, Late, Looping, TypeOK, Final
<1>3. QuestionIsKept' /\ Phases' /\ PhasesEnd'
  BY DEF QuestionIsKept, Phases, PhasesEnd, TypeOK, Final
<1>4. ShownIsPlan'
  BY DEF ShownIsPlan, Control, Late, TypeOK, Final
<1>5. ShownOK'
  BY DEF ShownOK, Control, TypeOK, Final
<1>6. InWork'
  BY DEF InWork, OneStepRunning, Running, Early, Looping
<1> QED  BY <1>1, <1>2, <1>3, <1>4, <1>5, <1>6

LEMMA ResolveApprovalKeeps ==
  ASSUME IInv, ResolveApproval  PROVE IInv'
<1> USE DEF IInv, ResolveApproval, loop, plans
<1>1. TypeOK'
  BY AgentLoopAssumption DEF TypeOK, Final, Control
<1>2. Control'
  BY DEF Control, Early, Late, Looping, TypeOK, Final
<1>3. QuestionIsKept' /\ Phases' /\ PhasesEnd'
  BY DEF QuestionIsKept, Phases, PhasesEnd, TypeOK, Final
<1>4. ShownIsPlan'
  BY DEF ShownIsPlan, Control, Late, TypeOK, Final
<1>5. ShownOK'
  BY DEF ShownOK, Control, TypeOK, Final
<1>6. InWork'
  BY DEF InWork, OneStepRunning, Running, Early, Looping
<1> QED  BY <1>1, <1>2, <1>3, <1>4, <1>5, <1>6

LEMMA AnswerKeeps ==
  ASSUME IInv, Answer  PROVE IInv'
<1> USE DEF IInv, Answer, loop, plans
<1>1. TypeOK'
  BY AgentLoopAssumption DEF TypeOK, Final, Control
<1>2. Control'
  BY DEF Control, Early, Late, Looping, TypeOK, Final
<1>3. QuestionIsKept' /\ Phases' /\ PhasesEnd'
  BY DEF QuestionIsKept, Phases, PhasesEnd, TypeOK, Final
<1>4. ShownIsPlan'
  BY DEF ShownIsPlan, Control, Late, TypeOK, Final
<1>5. ShownOK'
  BY DEF ShownOK, Control, TypeOK, Final
<1>6. InWork'
  BY DEF InWork, OneStepRunning, Running, Early, Looping
<1> QED  BY <1>1, <1>2, <1>3, <1>4, <1>5, <1>6

(***************************************************************************)
(* Steps that change the plan or what is shown of it.                      *)
(***************************************************************************)
LEMMA CreateInitialPlanKeeps ==
  ASSUME IInv, CreateInitialPlan  PROVE IInv'
<1> USE DEF IInv
<1> DEFINE new == Marked(NewSteps(Initial), 1, "running")
<1>0. pc = "planning" /\ pc' = "thinking" /\ step' = 1 /\ needs' \in {"unknown", "yes", "no"}
      /\ ~ plan.made
      /\ UNCHANGED <<conf, status, by, found, call, answered, waiting, summary, open, workers>>
  BY DEF CreateInitialPlan, TypeOK, row, Control, Early
<1>1. new \in PlanSteps /\ AtMostOne(RunningOf(new))
  <2>1. Initial \in Seq(Names)
    BY AgentLoopAssumption
  <2>2. /\ NewSteps(Initial) \in PlanSteps /\ RunningOf(NewSteps(Initial)) = {}
    BY <2>1, NewStepsFacts
  <2>3. "running" \in StepStatus /\ 1 \in Nat
    BY DEF StepStatus
  <2>4. /\ new \in PlanSteps /\ DOMAIN new = DOMAIN NewSteps(Initial)
        /\ \A j \in DOMAIN new : new[j].st = IF j = 1 THEN "running" ELSE NewSteps(Initial)[j].st
    BY <2>2, <2>3, MarkedFacts
  <2> HIDE DEF new
  <2>5. RunningOf(new) \subseteq {1}
    BY <2>2, <2>4 DEF RunningOf
  <2> QED  BY <2>4, <2>5 DEF AtMostOne
<1>2. Planned(new, "mark_step") \/ UNCHANGED plans
  BY DEF CreateInitialPlan
<1> HIDE DEF new
<1>3. PlanMoves
  BY <1>1, <1>2, PlannedMoves DEF PlanMoves
<1>p. plan \in Plan /\ shown \in Shown
  BY RowOfIInv
<1>4. /\ plan' \in Plan /\ shown' \in Shown
      /\ ShownShape(shown') /\ (~ plan'.made => plan'.steps = <<>>)
  BY <1>3, <1>p DEF Control, ShownOK, plans, PlanMoves
<1>5. TypeOK'
  <2>1. 1 \in 0 .. MaxSteps
    BY AgentLoopAssumption
  <2>2. /\ plan' \in [made : BOOLEAN, steps : Seq(Step(StepStatus))]
        /\ shown' \in [type : {"none", "plan_open"} \cup {TerminalType(e) : e \in Final},
                       steps : Seq(Step(StepStatus \cup {"cancelled"}))]
    BY <1>4 DEF Plan, Shown, PlanSteps, ShownSteps
  <2> QED  BY <1>0, <2>1, <2>2 DEF TypeOK
<1>6. Control' /\ QuestionIsKept' /\ Phases' /\ PhasesEnd'
  BY <1>0, <1>4 DEF Control, Early, Late, Looping, QuestionIsKept, Phases, PhasesEnd
<1>7. ShownIsPlan'
  BY <1>0, <1>3 DEF ShownIsPlan, PlanMoves, plans
<1>8. ShownOK'
  BY <1>0, <1>4 DEF ShownOK
<1>9. InWork'
  <2>1. summary' = 0 /\ summary = 0
    BY <1>0 DEF InWork, Early
  <2>2. ~ conf.marks => AtMostOne(RunningOf(plan'.steps))
    BY <2>1, <1>3, OneRunning DEF PlanMoves, plans
  <2>3. plan'.steps \in Seq(Step(StepStatus))
    BY <1>4 DEF Plan, PlanSteps
  <2>4. \A i \in DOMAIN plan'.steps : i \in Nat
    BY <2>3
  <2>5. \A i \in DOMAIN plan'.steps : ~ (i < i)
    BY <2>4
  <2>6. OneStepRunning'
    BY <1>0, <2>2, <2>5 DEF OneStepRunning, Running, RunningOf, AtMostOne
  <2> QED  BY <1>0, <2>1, <2>6 DEF InWork, Looping
<1> QED  BY <1>5, <1>6, <1>7, <1>8, <1>9

\* The plan with the summary in work.
LEMMA SummaryRunningFacts ==
  ASSUME NEW steps \in PlanSteps, FirstOf(steps, "not_started") # 0
  PROVE  LET new == SummaryRunning(steps)
             next == FirstOf(steps, "not_started")
         IN  /\ new \in PlanSteps /\ Ahead(steps, new) /\ DOMAIN new = DOMAIN steps
             /\ next \in DOMAIN new /\ new[next].st = "running"
             /\ AtMostOne(RunningOf(steps)) =>
                   \A i, j \in RunningOf(new) : i < j => i = next
<1> DEFINE next == FirstOf(steps, "not_started")
           running == FirstOf(steps, "running")
           over == running # 0 /\ running < next
           cleared == IF over THEN Marked(steps, running, "completed") ELSE steps
           new == Marked(cleared, next, "running")
<1>1. SummaryRunning(steps) = new
  BY DEF SummaryRunning
<1>2. DOMAIN steps = 1 .. Len(steps) /\ Len(steps) \in Nat
  BY DEF PlanSteps
<1>3. next \in DOMAIN steps /\ next \in Nat /\ steps[next].st = "not_started"
  BY First, <1>2 DEF PlanSteps
<1>4. /\ running \in 0 .. Len(steps) /\ running \in Nat
      /\ running # 0 => running \in DOMAIN steps /\ steps[running].st = "running"
      /\ \A i \in DOMAIN steps : steps[i].st = "running" => running # 0 /\ running <= i
  BY First, <1>2 DEF PlanSteps
<1> HIDE DEF next, running
<1>5. {"completed", "running"} \subseteq StepStatus
  BY DEF StepStatus
<1>6. /\ cleared \in PlanSteps /\ Len(cleared) = Len(steps) /\ DOMAIN cleared = DOMAIN steps
      /\ \A j \in DOMAIN steps :
            /\ cleared[j].name = steps[j].name
            /\ cleared[j].st = IF over /\ j = running THEN "completed" ELSE steps[j].st
  <2>1. CASE over
    <3>1. cleared = Marked(steps, running, "completed") /\ "completed" \in StepStatus
      BY <1>5, <2>1
    <3>2. LET m == Marked(steps, running, "completed")
          IN  /\ m \in PlanSteps /\ Len(m) = Len(steps) /\ DOMAIN m = DOMAIN steps
              /\ \A j \in DOMAIN steps : /\ m[j].name = steps[j].name
                                         /\ m[j].st = IF j = running THEN "completed" ELSE steps[j].st
      BY <1>4, <3>1, MarkedFacts
    <3> HIDE DEF cleared, over
    <3> QED  BY <2>1, <3>1, <3>2
  <2>2. CASE ~ over
    BY <2>2
  <2> QED  BY <2>1, <2>2
<1> HIDE DEF cleared
<1>7. /\ new \in PlanSteps /\ Len(new) = Len(cleared) /\ DOMAIN new = DOMAIN cleared
      /\ \A j \in DOMAIN cleared :
            /\ new[j].name = cleared[j].name
            /\ new[j].st = IF j = next THEN "running" ELSE cleared[j].st
  <2>1. next \in Nat /\ "running" \in StepStatus /\ cleared \in PlanSteps
    BY <1>3, <1>5, <1>6
  <2>2. LET m == Marked(cleared, next, "running")
        IN  /\ m \in PlanSteps /\ Len(m) = Len(cleared) /\ DOMAIN m = DOMAIN cleared
            /\ \A j \in DOMAIN cleared : /\ m[j].name = cleared[j].name
                                         /\ m[j].st = IF j = next THEN "running" ELSE cleared[j].st
    BY <2>1, MarkedFacts
  <2> QED  BY <2>2
<1> HIDE DEF new
<1>8. next # running
  BY <1>3, <1>4
<1>9. \A j \in DOMAIN steps :
         /\ new[j].name = steps[j].name
         /\ new[j].st = IF j = next THEN "running"
                        ELSE IF over /\ j = running THEN "completed" ELSE steps[j].st
  BY <1>6, <1>7
<1>10. Ahead(steps, new)
  BY <1>3, <1>4, <1>6, <1>7, <1>9 DEF Ahead, Forward
<1>11. ASSUME AtMostOne(RunningOf(steps)), NEW i \in RunningOf(new), NEW j \in RunningOf(new), i < j
       PROVE  i = next
  <2> SUFFICES ASSUME i # next  PROVE FALSE
    OBVIOUS
  <2>1. i \in DOMAIN steps /\ steps[i].st = "running" /\ ~ (over /\ i = running)
    BY <1>6, <1>7, <1>9, <1>11 DEF RunningOf
  <2>2. \A k \in DOMAIN steps : steps[k].st = "running" => k = i
    BY <1>11, <2>1 DEF RunningOf, AtMostOne
  <2>3. running = i
    BY <1>4, <2>1, <2>2
  <2>4. j = next
    <3>1. j \in DOMAIN steps /\ (j = next \/ steps[j].st = "running")
      BY <1>6, <1>7, <1>9 DEF RunningOf
    <3>2. i # j
      BY <1>2, <1>11, <2>1
    <3> QED  BY <2>2, <3>1, <3>2
  <2> QED  BY <1>2, <1>4, <1>11, <2>1, <2>3, <2>4
<1>12. new[next].st = "running" /\ next \in DOMAIN new
  BY <1>3, <1>6, <1>7
<1> QED  BY <1>1, <1>6, <1>7, <1>10, <1>11, <1>12 DEF next

LEMMA StartSummaryMoves ==
  ASSUME IInv, StartSummary
  PROVE  /\ plan' \in Plan /\ shown' \in Shown /\ ShownShape(shown')
         /\ ~ plan'.made => plan'.steps = <<>>
         /\ shown'.steps = plan'.steps \/ UNCHANGED plans
         /\ plan.made /\ plan'.made => Ahead(plan.steps, plan'.steps)
         /\ summary' \in Nat
         /\ summary' # 0 => /\ plan'.made /\ summary' \in DOMAIN plan'.steps
                           /\ plan'.steps[summary'].st = "running"
         /\ ~ conf.marks => \A i, j \in RunningOf(plan'.steps) : i < j => i = summary'
<1> DEFINE next == FirstOf(plan.steps, "not_started")
           running == FirstOf(plan.steps, "running")
<1>0. plan.steps \in PlanSteps /\ plan \in Plan /\ shown \in Shown
  BY RowOfIInv
<1>1. DOMAIN plan.steps = 1 .. Len(plan.steps) /\ Len(plan.steps) \in Nat
  BY <1>0 DEF PlanSteps
<1>2. /\ next \in Nat /\ next \in 0 .. Len(plan.steps)
      /\ running \in Nat /\ (running # 0 => running \in DOMAIN plan.steps /\ plan.steps[running].st = "running")
  BY <1>0, <1>1, First DEF PlanSteps
<1>3. ~ conf.marks => AtMostOne(RunningOf(plan.steps))
  BY OneRunning DEF IInv, InWork, StartSummary, Looping
<1>4. next # 0 \/ running # 0 => plan.made
  <2>1. ~ plan.made => DOMAIN plan.steps = {}
    BY DEF IInv, Control
  <2> QED  BY <1>1, <1>2, <2>1
<1>5. summary' = IF HasPlanTool THEN IF next # 0 THEN next ELSE running ELSE 0
  BY DEF StartSummary, SummaryStep
<1>6. \A i, j \in DOMAIN plan.steps : AtMostOne(RunningOf(plan.steps)) =>
         ~ (i \in RunningOf(plan.steps) /\ j \in RunningOf(plan.steps) /\ i < j)
  BY <1>1 DEF AtMostOne
<1>7. CASE ~ (HasPlanTool /\ next # 0)
  <2>1. UNCHANGED plans
    BY <1>7 DEF StartSummary
  <2>2. summary' = 0 \/ summary' = running
    BY <1>5, <1>7
  <2>3. plan' = plan /\ shown' = shown
    BY <2>1 DEF plans
  <2> HIDE DEF next, running
  <2>4. ~ conf.marks => \A i, j \in RunningOf(plan.steps) : ~ (i < j)
    BY <1>3, <1>6 DEF RunningOf
  <2>5. ShownShape(shown) /\ (~ plan.made => plan.steps = <<>>)
    BY DEF IInv, ShownOK, Control
  <2>6. summary' \in Nat /\ (summary' # 0 => /\ plan.made /\ summary' \in DOMAIN plan.steps
                                             /\ plan.steps[summary'].st = "running")
    BY <1>2, <1>4, <2>2
  <2> QED  BY <1>0, <2>3, <2>1, <2>4, <2>5, <2>6, AheadOfItself
<1>8. CASE HasPlanTool /\ next # 0
  <2> DEFINE new == SummaryRunning(plan.steps)
  <2>1. Planned(new, "mark_step")
    BY <1>8 DEF StartSummary
  <2>2. /\ new \in PlanSteps /\ Ahead(plan.steps, new) /\ DOMAIN new = DOMAIN plan.steps
        /\ next \in DOMAIN new /\ new[next].st = "running"
        /\ AtMostOne(RunningOf(plan.steps)) =>
              \A i, j \in RunningOf(new) : i < j => i = next
    BY <1>0, <1>8, SummaryRunningFacts
  <2> HIDE DEF new
  <2>3. /\ plan' \in Plan /\ shown' \in Shown /\ ShownShape(shown')
        /\ plan'.made /\ plan'.steps = new /\ shown'.steps = new
    BY <2>1, <2>2, PlannedFacts
  <2>4. summary' = next
    BY <1>5, <1>8
  <2> HIDE DEF next
  <2> QED  BY <1>2, <1>3, <2>2, <2>3, <2>4
<1> QED  BY <1>7, <1>8

LEMMA StartSummaryKeeps ==
  ASSUME IInv, StartSummary  PROVE IInv'
<1> USE StartSummaryMoves DEF IInv
<1>0. /\ pc = "concluding" /\ pc' = "summing" /\ open' = open \cup {"summary"}
      /\ UNCHANGED <<conf, status, by, needs, step, found, call, answered, waiting, workers>>
  BY DEF StartSummary, row
<1>1. TypeOK'
  <2>1. /\ plan' \in [made : BOOLEAN, steps : Seq(Step(StepStatus))]
        /\ shown' \in [type : {"none", "plan_open"} \cup {TerminalType(e) : e \in Final},
                       steps : Seq(Step(StepStatus \cup {"cancelled"}))]
    BY DEF Plan, Shown, PlanSteps, ShownSteps
  <2> QED  BY <1>0, <2>1 DEF TypeOK
<1>2. Control' /\ QuestionIsKept' /\ Phases' /\ PhasesEnd'
  BY <1>0 DEF Control, Early, Late, Looping, QuestionIsKept, Phases, PhasesEnd
<1>3. ShownIsPlan'
  BY <1>0 DEF ShownIsPlan, plans
<1>4. ShownOK'
  BY <1>0 DEF ShownOK
<1>5. InWork'
  BY <1>0 DEF InWork, OneStepRunning, Running, RunningOf, Early, Looping
<1> QED  BY <1>1, <1>2, <1>3, <1>4, <1>5

\* The plan and what is shown of it, once the summary has ended one way or the other.
LEMMA SummedFacts ==
  ASSUME IInv, pc = "summing", NEW st \in {"completed", "failed"}
  PROVE  /\ Summed(st) \in Plan /\ ShownSummed(st) \in Shown /\ ShownShape(ShownSummed(st))
         /\ Summed(st).made = plan.made
         /\ ~ plan.made => Summed(st).steps = <<>>
         /\ Ahead(plan.steps, Summed(st).steps)
         /\ ShownSummed(st).steps = Summed(st).steps \/ (ShownSummed(st) = shown /\ Summed(st) = plan)
         /\ ~ conf.marks => \A i, j \in RunningOf(Summed(st).steps) : i < j => i = summary
<1>0. /\ plan.steps \in PlanSteps /\ plan \in Plan /\ shown \in Shown /\ ShownShape(shown)
      /\ ~ plan.made => plan.steps = <<>>
  BY RowOfIInv DEF IInv, ShownOK, Control
<1>1. summary \in Nat /\ st \in StepStatus
  BY DEF IInv, TypeOK, StepStatus
<1>2. ~ conf.marks => \A i, j \in RunningOf(plan.steps) : i < j => i = summary
  BY DEF IInv, InWork, OneStepRunning, Running, RunningOf
<1>3. CASE summary = 0
  <2>1. Summed(st) = plan /\ ShownSummed(st) = shown
    BY <1>0, <1>3 DEF Summed, ShownSummed, Plan
  <2> QED  BY <1>0, <1>2, <1>3, <2>1, AheadOfItself
<1>4. CASE summary # 0
  <2> DEFINE new == Marked(plan.steps, summary, st)
  <2>1. Summed(st) = [plan EXCEPT !.steps = new]
    BY <1>4 DEF Summed
  <2>2. Summed(st) = [made |-> plan.made, steps |-> new]
    BY <1>0, <2>1 DEF Plan
  <2>3. /\ new \in PlanSteps /\ Len(new) = Len(plan.steps) /\ DOMAIN new = DOMAIN plan.steps
        /\ \A j \in DOMAIN plan.steps :
              /\ new[j].name = plan.steps[j].name
              /\ new[j].st = IF j = summary THEN st ELSE plan.steps[j].st
    <3>1. PICK i \in Nat, steps \in PlanSteps : i = summary /\ steps = plan.steps
      BY <1>0, <1>1
    <3>2. LET m == Marked(steps, i, st)
          IN  /\ m \in PlanSteps /\ Len(m) = Len(steps) /\ DOMAIN m = DOMAIN steps
              /\ \A j \in DOMAIN steps : /\ m[j].name = steps[j].name
                                         /\ m[j].st = IF j = i THEN st ELSE steps[j].st
      BY <1>1, MarkedFacts
    <3> QED  BY <3>1, <3>2
  <2> HIDE DEF new
  <2>4. plan.made /\ summary \in DOMAIN plan.steps /\ plan.steps[summary].st = "running"
    BY <1>4 DEF IInv, InWork
  <2>5. Ahead(plan.steps, new)
    BY <2>3, <2>4 DEF Ahead, Forward
  <2>6. RunningOf(new) \subseteq RunningOf(plan.steps)
    BY <2>3 DEF RunningOf
  <2>7. ShownSummed(st) = [type |-> "plan_open", steps |-> new]
    BY <1>4, <2>2 DEF ShownSummed, EventType
  <2>8. ShownSummed(st) \in Shown /\ ShownShape(ShownSummed(st))
    BY <2>3, <2>7, PlanIsShown DEF Shown, ShownShape
  <2>9. Summed(st) \in Plan
    BY <1>0, <2>2, <2>3 DEF Plan
  <2> QED  BY <1>2, <2>2, <2>4, <2>5, <2>6, <2>7, <2>8, <2>9
<1> QED  BY <1>3, <1>4

LEMMA SummarizeKeeps ==
  ASSUME IInv, Summarize  PROVE IInv'
<1> USE DEF IInv
<1>0. /\ pc = "summing" /\ pc' = "handled" /\ open' = open \ {"summary"}
      /\ UNCHANGED <<conf, status, by, needs, step, found, call, answered, waiting, summary, workers>>
  BY DEF Summarize, row, loop
<1>1. /\ plan' \in Plan /\ shown' \in Shown /\ ShownShape(shown')
      /\ plan'.made = plan.made
      /\ ~ plan'.made => plan'.steps = <<>>
      /\ shown'.steps = plan'.steps \/ (shown' = shown /\ plan' = plan)
      /\ ~ conf.marks => \A i, j \in RunningOf(plan'.steps) : i < j => i = summary
  BY SummedFacts DEF Summarize
<1>2. TypeOK'
  <2>1. /\ plan' \in [made : BOOLEAN, steps : Seq(Step(StepStatus))]
        /\ shown' \in [type : {"none", "plan_open"} \cup {TerminalType(e) : e \in Final},
                       steps : Seq(Step(StepStatus \cup {"cancelled"}))]
    BY <1>1 DEF Plan, Shown, PlanSteps, ShownSteps
  <2> QED  BY <1>0, <2>1 DEF TypeOK
<1>3. Control' /\ QuestionIsKept' /\ Phases' /\ PhasesEnd'
  BY <1>0, <1>1 DEF Control, Early, Late, Looping, QuestionIsKept, Phases, PhasesEnd
<1>4. ShownIsPlan'
  BY <1>0, <1>1 DEF ShownIsPlan
<1>5. ShownOK'
  BY <1>0, <1>1 DEF ShownOK
<1>6. InWork'
  BY <1>0, <1>1 DEF InWork, OneStepRunning, Running, RunningOf, Early, Looping
<1> QED  BY <1>2, <1>3, <1>4, <1>5, <1>6

\* A worker that records a failure, from a plan as it is shown or about to be.
LEMMA FailureKeeps ==
  ASSUME IInv, NEW s \in Shown, ShownShape(s), RecordFailure(s),
         plan' \in Plan, ~ plan'.made => plan'.steps = <<>>,
         ~ conf.marks => \A i, j \in RunningOf(plan'.steps) : i < j => i = summary,
         open' = {}, UNCHANGED <<needs, step, found, call, answered, waiting, summary>>
  PROVE  IInv'
<1> USE DEF IInv
<1>0. /\ pc' = "ended" /\ status' = "failed" /\ by' = "run"
      /\ UNCHANGED <<conf, workers>>
  BY DEF RecordFailure, End
<1>1. shown' \in Shown /\ ShownShape(shown') /\ ShowsEnd(shown'.steps, "failed")
  BY EndedFacts DEF RecordFailure, Final
<1>2. TypeOK'
  <2>1. /\ plan' \in [made : BOOLEAN, steps : Seq(Step(StepStatus))]
        /\ shown' \in [type : {"none", "plan_open"} \cup {TerminalType(e) : e \in Final},
                       steps : Seq(Step(StepStatus \cup {"cancelled"}))]
    BY <1>1 DEF Plan, Shown, PlanSteps, ShownSteps
  <2> QED  BY <1>0, <2>1 DEF TypeOK, Final
<1>3. Control' /\ QuestionIsKept' /\ Phases' /\ PhasesEnd'
  BY <1>0 DEF Control, Early, Late, Looping, QuestionIsKept, Phases, PhasesEnd
<1>4. ShownIsPlan' /\ ShownOK'
  BY <1>0, <1>1 DEF ShownIsPlan, ShownOK
<1>5. InWork'
  BY <1>0 DEF InWork, OneStepRunning, Running, RunningOf, Early, Looping
<1> QED  BY <1>2, <1>3, <1>4, <1>5

\* What a failure of the worker finds.
LEMMA PlanOfIInv ==
  ASSUME IInv
  PROVE  /\ plan \in Plan /\ shown \in Shown /\ ShownShape(shown)
         /\ ~ plan.made => plan.steps = <<>>
         /\ ~ conf.marks => \A i, j \in RunningOf(plan.steps) : i < j => i = summary
BY RowOfIInv DEF IInv, ShownOK, Control, InWork, OneStepRunning, Running, RunningOf

LEMMA SummaryFailsKeeps ==
  ASSUME IInv, SummaryFails  PROVE IInv'
<1>1. /\ pc = "summing" /\ plan' = Summed("failed") /\ RecordFailure(ShownSummed("failed"))
      /\ UNCHANGED <<needs, step, found, call, answered, waiting, summary>>
  BY DEF SummaryFails, loop
<1>2. open' = {}
  BY DEF SummaryFails, IInv, Phases
<1> QED  BY <1>1, <1>2, SummedFacts, FailureKeeps

LEMMA ThinkFailsKeeps ==
  ASSUME IInv, ThinkFails  PROVE IInv'
<1>1. /\ RecordFailure(shown) /\ plan' = plan
      /\ UNCHANGED <<needs, step, found, call, answered, waiting, summary>>
  BY DEF ThinkFails, loop
<1>2. open' = {}
  BY DEF ThinkFails, IInv, Phases
<1> QED  BY <1>1, <1>2, PlanOfIInv, FailureKeeps

LEMMA CompletedFailsKeeps ==
  ASSUME IInv, CompletedFails  PROVE IInv'
<1>1. PICK s \in {shown, Ended(shown, "completed")} : RecordFailure(s)
  BY DEF CompletedFails
<1>2. plan' = plan /\ UNCHANGED <<needs, step, found, call, answered, waiting, summary>>
  BY DEF CompletedFails, loop
<1>3. open' = {}
  BY DEF CompletedFails, IInv, Phases
<1>4. s \in Shown /\ ShownShape(s)
  BY PlanOfIInv, EndedFacts DEF Final
<1> QED  BY <1>1, <1>2, <1>3, <1>4, PlanOfIInv, FailureKeeps

\* What is shown changes to the end of the run, and nothing of its plan.
LEMMA EndShownKeeps ==
  ASSUME IInv, NEW end \in Final, shown' = Ended(shown, end), status' = end,
         by' \in {"run", "task"}, UNCHANGED <<conf, loop, plan, open, workers>>,
         pc' \in {pc, "ended"},
         end = "cancelled" \/ (open = {} /\ pc' # "completing" /\ ~ waiting),
         pc' = "queued" => status' = "cancelled", pc' # "completing",
         ~ conf.remote => pc' \in Late
  PROVE  IInv'
<1> USE DEF IInv, loop
<1>1. shown' \in Shown /\ ShownShape(shown') /\ ShowsEnd(shown'.steps, end)
  BY PlanOfIInv, EndedFacts
<1>2. TypeOK'
  <2>1. shown' \in [type : {"none", "plan_open"} \cup {TerminalType(e) : e \in Final},
                    steps : Seq(Step(StepStatus \cup {"cancelled"}))]
    BY <1>1 DEF Shown, ShownSteps
  <2> QED  BY <2>1 DEF TypeOK, Final
<1>3. Control'
  BY DEF Control, Early, Late, Looping
<1>4. QuestionIsKept' /\ Phases' /\ PhasesEnd'
  BY DEF QuestionIsKept, Phases, PhasesEnd, Final
<1>5. ShownIsPlan' /\ ShownOK'
  BY <1>1 DEF ShownIsPlan, ShownOK
<1>6. InWork'
  BY DEF InWork, OneStepRunning, Running, Early, Looping
<1> QED  BY <1>2, <1>3, <1>4, <1>5, <1>6

LEMMA CompletedKeeps ==
  ASSUME IInv, Completed  PROVE IInv'
<1>1. /\ shown' = Ended(shown, "completed") /\ status' = "completed" /\ by' = "run"
      /\ UNCHANGED <<conf, loop, plan, open, workers>> /\ pc' = "ended" /\ open = {} /\ ~ waiting
  BY DEF Completed, row, IInv, Control, Phases, QuestionIsKept
<1> QED  BY <1>1, EndShownKeeps DEF Final, Late

LEMMA CancelTaskKeeps ==
  ASSUME IInv, CancelTask  PROVE IInv'
<1>1. /\ shown' = Ended(shown, "cancelled") /\ status' = "cancelled" /\ by' = "task"
      /\ UNCHANGED <<conf, loop, plan, open, workers>> /\ pc' \in {pc, "ended"}
  BY DEF CancelTask
<1>2. pc' # "completing"
  BY DEF CancelTask, IInv, Control, Final
<1>3. ~ conf.remote => pc' \in Late
  BY DEF CancelTask, Arrives, Reached, Late
<1> QED  BY <1>1, <1>2, <1>3, EndShownKeeps DEF Final

LEMMA ArchiveKeeps ==
  ASSUME IInv, Archive  PROVE IInv'
<1>1. CASE Reached /\ pc # "queued"
  <2>1. /\ shown' = Ended(shown, "cancelled") /\ status' = "cancelled" /\ by' = "run"
        /\ UNCHANGED <<conf, loop, plan, open, workers>> /\ pc' = "ended"
    BY <1>1 DEF Archive
  <2> QED  BY <2>1, EndShownKeeps DEF Final, Late
<1>2. CASE ~ (Reached /\ pc # "queued")
  <2> USE DEF IInv, loop
  <2>1. /\ status' = "cancelled" /\ by' = "archive" /\ pc' \in {pc, "ended"}
        /\ UNCHANGED <<conf, needs, step, found, call, answered, waiting, summary,
                      plan, shown, open, workers>>
    BY <1>2 DEF Archive
  <2>2. pc' # "completing" /\ (~ conf.remote => pc' \in Late)
    BY <1>2 DEF Archive, Control, Final, Arrives, Reached, Late
  <2>3. TypeOK'
    BY <2>1 DEF TypeOK, Final
  <2>4. Control'
    BY <2>1, <2>2 DEF Control, Early, Late, Looping
  <2>5. QuestionIsKept' /\ Phases' /\ PhasesEnd'
    BY <2>1, <2>2 DEF QuestionIsKept, Phases, PhasesEnd, Final
  <2>6. ShownIsPlan' /\ ShownOK'
    BY <2>1 DEF ShownIsPlan, ShownOK
  <2>7. InWork'
    BY <2>1 DEF InWork, OneStepRunning, Running, Early, Looping
  <2> QED  BY <2>3, <2>4, <2>5, <2>6, <2>7
<1> QED  BY <1>1, <1>2

(***************************************************************************)
(* The invariant is inductive.                                             *)
(***************************************************************************)
LEMMA InitIInv == Init => IInv
<1> SUFFICES ASSUME Init  PROVE IInv
  OBVIOUS
<1> USE DEF Init
<1>1. TypeOK
  <2>1. 0 \in 0 .. MaxSteps /\ 1 \in 1 .. MaxWorkers
    BY AgentLoopAssumption
  <2>2. /\ NoPlan \in [made : BOOLEAN, steps : Seq(Step(StepStatus))]
        /\ <<>> \in Seq(Step(StepStatus \cup {"cancelled"}))
    BY DEF NoPlan
  <2> QED  BY <2>1, <2>2 DEF TypeOK, Final
<1>2. Control /\ QuestionIsKept /\ Phases /\ PhasesEnd
  BY DEF Control, Early, Late, Looping, QuestionIsKept, Phases, PhasesEnd, NoPlan
<1>3. ShownIsPlan /\ ShownOK
  BY DEF ShownIsPlan, ShownOK, ShownShape
<1>4. InWork
  BY DEF InWork, OneStepRunning, Running, NoPlan, Early, Looping
<1> QED  BY <1>1, <1>2, <1>3, <1>4 DEF IInv

LEMMA StutterKeeps ==
  ASSUME IInv, UNCHANGED vars  PROVE IInv'
<1>1. UNCHANGED <<conf, status, by, pc, needs, step, found, call, answered, waiting, summary,
                  plan, shown, open, workers>>
  BY DEF vars, row, loop, plans
<1> USE <1>1 DEF IInv
<1>2. TypeOK' /\ Control' /\ QuestionIsKept' /\ Phases' /\ PhasesEnd'
  BY DEF TypeOK, Control, QuestionIsKept, Phases, PhasesEnd
<1>3. ShownIsPlan' /\ ShownOK' /\ InWork'
  BY DEF ShownIsPlan, ShownOK, InWork, OneStepRunning, Running
<1> QED  BY <1>2, <1>3

LEMMA NextIInv == IInv /\ [Next]_vars => IInv'
<1> SUFFICES ASSUME IInv, [Next]_vars  PROVE IInv'
  OBVIOUS
<1>1. CASE Begin
  BY <1>1, BeginKeeps
<1>2. CASE Build
  BY <1>2, BuildKeeps
<1>3. CASE Delegate
  BY <1>3, DelegateKeeps
<1>4. CASE CreateInitialPlan
  BY <1>4, CreateInitialPlanKeeps
<1>5. CASE Create
  BY <1>5, CreateKeeps
<1>6. CASE Update
  BY <1>6, UpdateKeeps
<1>7. CASE MarkStep
  BY <1>7, MarkStepKeeps
<1>8. CASE AddStep
  BY <1>8, AddStepKeeps
<1>9. CASE FinishPlan
  BY <1>9, FinishPlanKeeps
<1>10. CASE ReadPlan
  BY <1>10, ReadPlanKeeps
<1>11. CASE RefusedCommand
  BY <1>11, RefusedCommandKeeps
<1>12. CASE RequestInput
  BY <1>12, RequestInputKeeps
<1>13. CASE Finish
  BY <1>13, FinishKeeps
<1>14. CASE Observe
  BY <1>14, ObserveKeeps
<1>15. CASE ThinkFails
  BY <1>15, ThinkFailsKeeps
<1>16. CASE ApprovalRequired
  BY <1>16, ApprovalRequiredKeeps
<1>17. CASE Reasoned
  BY <1>17, ReasonedKeeps
<1>18. CASE Judge
  BY <1>18, JudgeKeeps
<1>19. CASE ReturnAnswer
  BY <1>19, ReturnAnswerKeeps
<1>20. CASE StartSummary
  BY <1>20, StartSummaryKeeps
<1>21. CASE Summarize
  BY <1>21, SummarizeKeeps
<1>22. CASE SummaryFails
  BY <1>22, SummaryFailsKeeps
<1>23. CASE AwaitInput
  BY <1>23, AwaitInputKeeps
<1>24. CASE Complete
  BY <1>24, CompleteKeeps
<1>25. CASE Completed
  BY <1>25, CompletedKeeps
<1>26. CASE CompletedFails
  BY <1>26, CompletedFailsKeeps
<1>27. CASE CancelTask
  BY <1>27, CancelTaskKeeps
<1>28. CASE Archive
  BY <1>28, ArchiveKeeps
<1>29. CASE ResolveApproval
  BY <1>29, ResolveApprovalKeeps
<1>30. CASE Answer
  BY <1>30, AnswerKeeps
<1>31. CASE \E c \in Calls : Call(c) \/ Repeated(c)
  BY <1>31, CallKeeps, RepeatedKeeps
<1>32. CASE UNCHANGED vars
  BY <1>32, StutterKeeps
<1> QED
  BY <1>1, <1>2, <1>3, <1>4, <1>5, <1>6, <1>7, <1>8, <1>9, <1>10, <1>11, <1>12, <1>13, <1>14, <1>15, <1>16, <1>17, <1>18, <1>19, <1>20, <1>21, <1>22, <1>23, <1>24, <1>25, <1>26, <1>27, <1>28, <1>29, <1>30, <1>31, <1>32
     DEF Next, Worker, User

\* The invariant holds in every state of every run.
THEOREM AgentLoopInvariant == Spec => []IInv
BY InitIInv, NextIInv, PTL DEF Spec

(***************************************************************************)
(* Theorems.                                                               *)
(***************************************************************************)
\* Every state has its type.
THEOREM TypeCorrect == Spec => []TypeOK
<1>1. IInv => TypeOK
  BY DEF IInv
<1> QED  BY <1>1, AgentLoopInvariant, PTL

\* What is shown of the plan is the plan of the agent at every moment of the loop.
THEOREM ShownPlanIsThePlan == Spec => []ShownIsPlan
<1>1. IInv => ShownIsPlan
  BY DEF IInv
<1> QED  BY <1>1, AgentLoopInvariant, PTL

\* An ended run does not show a step as running for ever, and shows how it ended.
THEOREM ShownEnd == Spec => []EndIsShown
<1>1. IInv => EndIsShown
  <2> SUFFICES ASSUME IInv, pc = "ended", by \in {"run", "task"}
               PROVE  ShowsEnd(shown.steps, status)
    BY DEF EndIsShown, ShowsEnd, AllDone, BrokenOff
  <2> QED  BY DEF IInv, ShownOK
<1> QED  BY <1>1, AgentLoopInvariant, PTL

\* Results of tools and the summary never leave two steps in work.
THEOREM OneStepInWork == Spec => []OneStepRunning
<1>1. IInv => OneStepRunning
  BY DEF IInv, InWork
<1> QED  BY <1>1, AgentLoopInvariant, PTL

\* No worker completes a run over a question that it has put to the user.
THEOREM QuestionsStayOpen == Spec => []QuestionIsKept
<1>1. IInv => QuestionIsKept
  BY DEF IInv
<1> QED  BY <1>1, AgentLoopInvariant, PTL

\* Every phase that was started has ended when the run has, unless it was cancelled.
THEOREM PhasesAreClosed == Spec => []PhasesEnd
<1>1. IInv => PhasesEnd
  BY DEF IInv
<1> QED  BY <1>1, AgentLoopInvariant, PTL

\* Outside of the commands of the model no step of the plan goes back.
THEOREM PlanNeverGoesBack == Spec => PlanGoesForward
<1> DEFINE Goes == plan.made /\ plan'.made => Ahead(plan.steps, plan'.steps)
<1>1. ASSUME IInv, [Next]_vars, ~ ByModel  PROVE Goes
  <2>1. CASE plan' = plan
    BY <2>1, AheadOfItself
  <2>2. CASE Begin
    <3>1. CASE status = "queued"
      BY <2>2, <3>1 DEF Begin, NoPlan
    <3>2. CASE status # "queued"
      BY <2>1, <2>2, <3>2 DEF Begin, plans
    <3> QED  BY <3>1, <3>2
  <2>3. CASE CreateInitialPlan
    BY <1>1, <2>3 DEF CreateInitialPlan, IInv, Control, Early
  <2>4. CASE RequestInput
    BY <1>1, <2>4, RequestInputMoves
  <2>5. CASE Observe
    BY <1>1, <2>5, SyncMoves DEF Observe
  <2>6. CASE StartSummary
    BY <1>1, <2>6, StartSummaryMoves
  <2>7. CASE Summarize
    BY <1>1, <2>7, SummedFacts DEF Summarize
  <2>8. CASE SummaryFails
    BY <1>1, <2>8, SummedFacts DEF SummaryFails
  <2>9. CASE \/ Build \/ Delegate \/ ReadPlan \/ RefusedCommand \/ Finish \/ ThinkFails
             \/ ApprovalRequired \/ Reasoned \/ Judge \/ ReturnAnswer \/ AwaitInput
             \/ Complete \/ Completed \/ CompletedFails
             \/ (\E c \in Calls : Call(c) \/ Repeated(c)) \/ User \/ UNCHANGED vars
    <3>1. plan' = plan
      BY <2>9 DEF Build, Delegate, ReadPlan, RefusedCommand, Finish, ThinkFails, ApprovalRequired,
           Reasoned, Judge, ReturnAnswer, AwaitInput, Complete, Completed, CompletedFails, Call,
           Repeated, User, CancelTask, Archive, ResolveApproval, Answer, vars, plans
    <3> QED  BY <2>1, <3>1
  <2> QED  BY <1>1, <2>2, <2>3, <2>4, <2>5, <2>6, <2>7, <2>8, <2>9 DEF Next, Worker, ByModel
<1>2. IInv /\ [Next]_vars =>
         [plan.made /\ plan'.made /\ ~ ByModel =>
            /\ Len(plan'.steps) = Len(plan.steps)
            /\ \A i \in DOMAIN plan.steps :
                  /\ plan'.steps[i].name = plan.steps[i].name
                  /\ Forward(plan.steps[i].st, plan'.steps[i].st)]_vars
  BY <1>1 DEF Ahead
<1> QED  BY <1>2, AgentLoopInvariant, PTL DEF Spec, PlanGoesForward
=============================================================================

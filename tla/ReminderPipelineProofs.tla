----------------------- MODULE ReminderPipelineProofs -----------------------
(***************************************************************************)
(* Proofs about ReminderPipeline, for every number of workers, reminders,  *)
(* jobs and crashes, and for every window and hour.  Each action preserves *)
(* one invariant, PipelineInv, which says besides the properties what a    *)
(* run knows of the jobs it has drained: before it triggers, that their    *)
(* time has come, and after it, that nothing is left to do for them.       *)
(***************************************************************************)
EXTENDS ReminderPipeline, SequenceTheorems, TLAPS

\* A job, and a reminder about to get one, is about a row of the table.
RemindersExist ==
    /\ \A i \in DOMAIN jobs : reminder[jobs[i].reminder] # "none"
    /\ \A w \in Worker : \A r \in toEnqueue[w] : reminder[r] # "none"

\* What the stage of a run says of the jobs it has drained.
DrainedJobs ==
    \A w \in Worker : \A i \in drained[w] :
        /\ stage[w] = "trigger" => At[jobs[i].reminder] <= now[w]
        /\ stage[w] = "complete" => reminder[jobs[i].reminder] # "scheduled"

PipelineInv ==
    /\ TypeOK
    /\ RemindersExist
    /\ DrainedJobs
    /\ NoJobInTwoHands
    /\ CompletedJobsAreDone
    /\ ClaimedJobsAreInHand

-----------------------------------------------------------------------------
(* The job queue *)

\* The UPDATEs of drain and complete keep the jobs and change their status.
LEMMA MarkedJobs ==
    ASSUME jobs \in Seq(Job), NEW which, NEW st \in {"queued", "claimed", "completed"},
           MarkJobs(which, st)
    PROVE  /\ jobs' \in Seq(Job)
           /\ Len(jobs') = Len(jobs)
           /\ DOMAIN jobs' = DOMAIN jobs
           /\ \A i \in DOMAIN jobs :
                /\ jobs'[i].reminder = jobs[i].reminder
                /\ jobs'[i].status = IF i \in which THEN st ELSE jobs[i].status
<1>1. /\ Len(jobs) \in Nat /\ DOMAIN jobs = 1..Len(jobs)
      /\ \A i \in DOMAIN jobs : jobs[i] \in Job
  BY LenProperties
<1>2. jobs' = [i \in DOMAIN jobs |->
                 IF i \in which THEN [jobs[i] EXCEPT !.status = st] ELSE jobs[i]]
  BY DEF MarkJobs
<1>3. \A i \in DOMAIN jobs :
         /\ jobs'[i] \in Job
         /\ jobs'[i].reminder = jobs[i].reminder
         /\ jobs'[i].status = IF i \in which THEN st ELSE jobs[i].status
  BY <1>1, <1>2 DEF Job
<1>4. jobs' \in [1..Len(jobs) -> Job]
  BY <1>1, <1>2, <1>3
<1>5. jobs' \in Seq(Job)
  BY <1>1, <1>4, SeqDef
<1>6. Len(jobs') = Len(jobs)
  BY <1>1, <1>4, <1>5, LenProperties
<1> QED BY <1>1, <1>3, <1>4, <1>5, <1>6

\* A new job is queued behind the others.
LEMMA EnqueuedJobs ==
    ASSUME jobs \in Seq(Job), NEW r \in Reminder,
           jobs' = Append(jobs, [reminder |-> r, status |-> "queued"])
    PROVE  /\ jobs' \in Seq(Job)
           /\ Len(jobs') = Len(jobs) + 1
           /\ DOMAIN jobs = 1..Len(jobs)
           /\ DOMAIN jobs' = 1..(Len(jobs) + 1)
           /\ Len(jobs) \in Nat
           /\ \A i \in DOMAIN jobs : jobs'[i] = jobs[i]
           /\ jobs'[Len(jobs) + 1].reminder = r
           /\ jobs'[Len(jobs) + 1].status = "queued"
<1> DEFINE new == [reminder |-> r, status |-> "queued"]
<1>1. new \in Job /\ new.reminder = r /\ new.status = "queued"
  BY DEF Job
<1> HIDE DEF new
<1>2. Len(jobs) \in Nat /\ DOMAIN jobs = 1..Len(jobs)
  BY LenProperties
<1>3. /\ Append(jobs, new) \in Seq(Job)
      /\ Len(Append(jobs, new)) = Len(jobs) + 1
      /\ \A i \in 1..Len(jobs) : Append(jobs, new)[i] = jobs[i]
      /\ Append(jobs, new)[Len(jobs) + 1] = new
  BY <1>1, AppendProperties
<1>4. jobs' = Append(jobs, new)
  BY DEF new
<1>5. DOMAIN jobs' = 1..(Len(jobs) + 1)
  BY <1>3, <1>4, LenProperties
<1> QED BY <1>1, <1>2, <1>3, <1>4, <1>5

-----------------------------------------------------------------------------
(* The steps *)

\* Facts of every state that the steps below use.
LEMMA JobFacts ==
    ASSUME PipelineInv
    PROVE  /\ jobs \in Seq(Job)
           /\ Len(jobs) \in Nat
           /\ DOMAIN jobs = 1..Len(jobs)
           /\ \A i \in DOMAIN jobs : jobs[i] \in Job
<1>1. jobs \in Seq(Job)
  BY DEF PipelineInv, TypeOK
<1> QED BY <1>1, LenProperties

\* A new reminder has no job yet; a cancelled one needs none.
LEMMA TableSteps ==
    ASSUME PipelineInv, NEW r \in Reminder, ScheduleReminder(r) \/ CancelReminder(r)
    PROVE  PipelineInv'
<1> USE DEF PipelineInv
<1>1. /\ reminder \in [Reminder -> {"none", "scheduled", "triggered", "cancelled"}]
      /\ \E s \in {"scheduled", "cancelled"} :
           /\ reminder' = [reminder EXCEPT ![r] = s]
           /\ s = "scheduled" => reminder[r] = "none"
      /\ UNCHANGED <<clock, jobs, stage, now, toEnqueue, drained, ran, crashes>>
  BY DEF ScheduleReminder, CancelReminder, TypeOK, workerVars
<1>2. TypeOK'
  BY <1>1 DEF TypeOK
<1>3. RemindersExist'
  BY <1>1, JobFacts DEF RemindersExist, TypeOK, Job
<1>4. \A i \in DOMAIN jobs : reminder[jobs[i].reminder] # "scheduled" =>
                             reminder'[jobs[i].reminder] # "scheduled"
  BY <1>1, JobFacts DEF RemindersExist, Job
<1>5. DrainedJobs' /\ CompletedJobsAreDone'
  BY <1>1, <1>4 DEF DrainedJobs, CompletedJobsAreDone, TypeOK
<1>6. NoJobInTwoHands' /\ ClaimedJobsAreInHand'
  BY <1>1 DEF NoJobInTwoHands, ClaimedJobsAreInHand
<1> QED BY <1>2, <1>3, <1>5, <1>6

\* The hour passes, and a run begins.
LEMMA BatchSteps ==
    ASSUME PipelineInv, Tick \/ \E w \in Worker : StartRun(w)
    PROVE  PipelineInv'
<1> USE DEF PipelineInv
<1>1. CASE Tick
  <2>1. TypeOK'
    BY <1>1, ReminderPipelineAssumption DEF Tick, TypeOK
  <2> QED BY <1>1, <2>1 DEF Tick, RemindersExist, DrainedJobs, NoJobInTwoHands,
             CompletedJobsAreDone, ClaimedJobsAreInHand
<1>2. ASSUME NEW w \in Worker, StartRun(w) PROVE PipelineInv'
  <2>1. InWindow(clock) \subseteq Reminder
    BY DEF InWindow
  <2>2. TypeOK'
    BY <1>2, <2>1 DEF StartRun, TypeOK
  <2>3. RemindersExist'
    BY <1>2 DEF StartRun, RemindersExist, InWindow, TypeOK
  <2>4. DrainedJobs'
    BY <1>2 DEF StartRun, DrainedJobs, TypeOK
  <2>5. NoJobInTwoHands' /\ CompletedJobsAreDone' /\ ClaimedJobsAreInHand'
    BY <1>2 DEF StartRun, NoJobInTwoHands, CompletedJobsAreDone, ClaimedJobsAreInHand
  <2> QED BY <2>2, <2>3, <2>4, <2>5
<1> QED BY <1>1, <1>2

\* A job is enqueued.
LEMMA EnqueueStep ==
    ASSUME PipelineInv, NEW w \in Worker, NEW r \in Reminder, Enqueue(w, r)
    PROVE  PipelineInv'
<1> USE DEF PipelineInv
<1>1. /\ jobs' \in Seq(Job)
      /\ Len(jobs') = Len(jobs) + 1
      /\ DOMAIN jobs = 1..Len(jobs)
      /\ DOMAIN jobs' = 1..(Len(jobs) + 1)
      /\ Len(jobs) \in Nat
      /\ \A i \in DOMAIN jobs : jobs'[i] = jobs[i]
      /\ jobs'[Len(jobs) + 1].reminder = r
      /\ jobs'[Len(jobs) + 1].status = "queued"
  BY EnqueuedJobs DEF Enqueue, TypeOK
<1>2. /\ r \in toEnqueue[w] /\ stage[w] = "enqueue"
      /\ toEnqueue' = [toEnqueue EXCEPT ![w] = @ \ {r}]
      /\ UNCHANGED <<clock, reminder, stage, now, drained, ran, crashes>>
  BY DEF Enqueue
<1>3. \A v \in Worker : drained[v] \subseteq DOMAIN jobs
  BY <1>1 DEF TypeOK
<1>4. TypeOK'
  BY <1>1, <1>2, <1>3 DEF TypeOK
<1>5. RemindersExist'
  <2>1. reminder'[r] # "none" /\ \A v \in Worker : toEnqueue'[v] \subseteq toEnqueue[v]
    BY <1>2 DEF RemindersExist, TypeOK
  <2>2. ASSUME NEW i \in DOMAIN jobs' PROVE reminder'[jobs'[i].reminder] # "none"
    <3>1. CASE i = Len(jobs) + 1
      BY <1>1, <2>1, <3>1
    <3>2. CASE i # Len(jobs) + 1
      BY <1>1, <1>2, <3>2 DEF RemindersExist
    <3> QED BY <3>1, <3>2
  <2> QED BY <1>2, <2>1, <2>2 DEF RemindersExist
<1>6. \A v \in Worker : \A i \in drained[v] : jobs'[i] = jobs[i]
  BY <1>1, <1>3
<1>7. DrainedJobs'
  BY <1>2, <1>6 DEF DrainedJobs
<1>8. NoJobInTwoHands'
  BY <1>2, <1>6 DEF NoJobInTwoHands
<1>9. CompletedJobsAreDone' /\ ClaimedJobsAreInHand'
  BY <1>1, <1>2 DEF CompletedJobsAreDone, ClaimedJobsAreInHand
<1> QED BY <1>4, <1>5, <1>7, <1>8, <1>9

\* The available jobs come into the hands of the run that drains them.
LEMMA DrainStep ==
    ASSUME PipelineInv, NEW w \in Worker, Drain(w)
    PROVE  PipelineInv'
<1> USE DEF PipelineInv
<1> DEFINE avail == Available(now[w])
<1>1. /\ jobs' \in Seq(Job) /\ Len(jobs') = Len(jobs)
      /\ DOMAIN jobs' = DOMAIN jobs
      /\ \A i \in DOMAIN jobs :
           /\ jobs'[i].reminder = jobs[i].reminder
           /\ jobs'[i].status = IF i \in avail THEN "claimed" ELSE jobs[i].status
  BY MarkedJobs DEF Drain, TypeOK
<1>2. /\ avail \subseteq DOMAIN jobs
      /\ \A i \in avail : /\ jobs[i].status = "queued"
                          /\ At[jobs[i].reminder] <= now[w]
  BY DEF Available
<1>3. /\ drained' = [drained EXCEPT ![w] = avail]
      /\ stage[w] = "enqueue" /\ toEnqueue[w] = {}
      /\ avail # {} => stage' = [stage EXCEPT ![w] = "trigger"] /\ ran' = ran
      /\ avail = {} => /\ stage' = [stage EXCEPT ![w] = "idle"]
                       /\ ran' = [ran EXCEPT ![w] = TRUE]
      /\ UNCHANGED <<clock, reminder, now, toEnqueue, crashes>>
  BY DEF Drain, Enqueued
<1> HIDE DEF avail
<1>4. drained[w] = {} /\ \A v \in Worker : drained[v] \subseteq DOMAIN jobs
  BY <1>3, JobFacts DEF TypeOK
<1>5. TypeOK'
  <2>1. drained' \in [Worker -> SUBSET (1..Len(jobs'))]
    BY <1>1, <1>2, <1>3, JobFacts DEF TypeOK
  <2>2. stage' \in [Worker -> {"idle", "enqueue", "trigger", "complete"}]
        /\ ran' \in [Worker -> BOOLEAN]
    BY <1>3 DEF TypeOK
  <2>3. \A v \in Worker : /\ toEnqueue'[v] # {} => stage'[v] = "enqueue"
                          /\ drained'[v] # {} <=> stage'[v] \in {"trigger", "complete"}
    BY <1>3 DEF TypeOK
  <2> QED BY <1>1, <1>3, <2>1, <2>2, <2>3 DEF TypeOK
<1>6. RemindersExist'
  BY <1>1, <1>3 DEF RemindersExist
<1>7. DrainedJobs'
  <2> SUFFICES ASSUME NEW v \in Worker, NEW i \in drained'[v]
               PROVE  /\ stage'[v] = "trigger" => At[jobs'[i].reminder] <= now'[v]
                      /\ stage'[v] = "complete" => reminder'[jobs'[i].reminder] # "scheduled"
    BY DEF DrainedJobs
  <2>1. CASE v = w
    BY <1>1, <1>2, <1>3, <2>1 DEF TypeOK
  <2>2. CASE v # w
    BY <1>1, <1>3, <1>4, <2>2 DEF TypeOK, DrainedJobs
  <2> QED BY <2>1, <2>2
<1>8. NoJobInTwoHands'
  <2>1. \A v \in Worker : v # w => /\ drained'[v] = drained[v]
                                  /\ drained[v] \cap avail = {}
    BY <1>2, <1>3 DEF NoJobInTwoHands, TypeOK
  <2>2. drained'[w] = avail
    BY <1>3 DEF TypeOK
  <2> QED BY <1>1, <1>2, <1>4, <2>1, <2>2 DEF NoJobInTwoHands
<1>9. CompletedJobsAreDone'
  BY <1>1, <1>3 DEF CompletedJobsAreDone
<1>10. ClaimedJobsAreInHand'
  <2>1. drained'[w] = avail /\ \A v \in Worker : v # w => drained'[v] = drained[v]
    BY <1>3 DEF TypeOK
  <2> QED BY <1>1, <1>3, <1>4, <2>1 DEF ClaimedJobsAreInHand
<1> QED BY <1>5, <1>6, <1>7, <1>8, <1>9, <1>10

\* Every reminder of the drained jobs is due, and is dealt with.
LEMMA TriggerStep ==
    ASSUME PipelineInv, NEW w \in Worker, Trigger(w)
    PROVE  PipelineInv'
<1> USE DEF PipelineInv
<1>1. /\ reminder' = [r \in Reminder |->
                        IF reminder[r] = "scheduled" /\ At[r] <= now[w]
                        THEN "triggered" ELSE reminder[r]]
      /\ stage[w] = "trigger"
      /\ stage' = [stage EXCEPT ![w] = "complete"]
      /\ UNCHANGED <<clock, jobs, now, toEnqueue, drained, ran, crashes>>
  BY DEF Trigger, TriggerDue
<1>2. TypeOK'
  BY <1>1 DEF TypeOK
<1>3. \A r \in Reminder : /\ reminder'[r] = "none" => reminder[r] = "none"
                          /\ reminder'[r] = "scheduled" => reminder[r] = "scheduled"
                          /\ At[r] <= now[w] => reminder'[r] # "scheduled"
  BY <1>1 DEF TypeOK
<1>4. /\ \A i \in DOMAIN jobs : jobs[i].reminder \in Reminder
      /\ \A v \in Worker : drained[v] \subseteq DOMAIN jobs
  BY JobFacts DEF Job, TypeOK
<1>5. RemindersExist'
  BY <1>1, <1>3, <1>4 DEF RemindersExist, TypeOK
<1>6. DrainedJobs'
  BY <1>1, <1>3, <1>4 DEF DrainedJobs, TypeOK
<1>7. CompletedJobsAreDone'
  BY <1>1, <1>3, <1>4 DEF CompletedJobsAreDone
<1>8. NoJobInTwoHands' /\ ClaimedJobsAreInHand'
  BY <1>1 DEF NoJobInTwoHands, ClaimedJobsAreInHand
<1> QED BY <1>2, <1>5, <1>6, <1>7, <1>8

\* The drained jobs are completed, and leave the hands of the run.
LEMMA CompleteStep ==
    ASSUME PipelineInv, NEW w \in Worker, Complete(w)
    PROVE  PipelineInv'
<1> USE DEF PipelineInv
<1>1. /\ jobs' \in Seq(Job) /\ Len(jobs') = Len(jobs)
      /\ DOMAIN jobs' = DOMAIN jobs
      /\ \A i \in DOMAIN jobs :
           /\ jobs'[i].reminder = jobs[i].reminder
           /\ jobs'[i].status = IF i \in drained[w] THEN "completed" ELSE jobs[i].status
  BY MarkedJobs DEF Complete, TypeOK
<1>2. /\ stage[w] = "complete"
      /\ drained' = [drained EXCEPT ![w] = {}]
      /\ stage' = [stage EXCEPT ![w] = "idle"]
      /\ ran' = [ran EXCEPT ![w] = TRUE]
      /\ UNCHANGED <<clock, reminder, now, toEnqueue, crashes>>
  BY DEF Complete
<1>3. \A v \in Worker : drained[v] \subseteq DOMAIN jobs
  BY JobFacts DEF TypeOK
<1>4. TypeOK'
  <2>1. drained' \in [Worker -> SUBSET (1..Len(jobs'))]
    BY <1>1, <1>2 DEF TypeOK
  <2>2. \A v \in Worker : /\ toEnqueue'[v] # {} => stage'[v] = "enqueue"
                          /\ drained'[v] # {} <=> stage'[v] \in {"trigger", "complete"}
    BY <1>2 DEF TypeOK
  <2> QED BY <1>1, <1>2, <2>1, <2>2 DEF TypeOK
<1>5. RemindersExist'
  BY <1>1, <1>2 DEF RemindersExist
<1>6. DrainedJobs'
  BY <1>1, <1>2, <1>3 DEF DrainedJobs, TypeOK
<1>7. \A v \in Worker : drained'[v] = IF v = w THEN {} ELSE drained[v]
  BY <1>2 DEF TypeOK
<1>8. NoJobInTwoHands'
  BY <1>1, <1>3, <1>7 DEF NoJobInTwoHands
<1>9. CompletedJobsAreDone'
  BY <1>1, <1>2, <1>3 DEF CompletedJobsAreDone, DrainedJobs
<1>10. ClaimedJobsAreInHand'
  BY <1>1, <1>2, <1>7 DEF ClaimedJobsAreInHand
<1> QED BY <1>4, <1>5, <1>6, <1>8, <1>9, <1>10

\* A run that dies drops its jobs, which stay claimed.
LEMMA CrashStep ==
    ASSUME PipelineInv, NEW w \in Worker, Crash(w)
    PROVE  PipelineInv'
<1> USE DEF PipelineInv
<1>1. /\ crashes < MaxCrashes /\ crashes' = crashes + 1
      /\ stage' = [stage EXCEPT ![w] = "idle"]
      /\ toEnqueue' = [toEnqueue EXCEPT ![w] = {}]
      /\ drained' = [drained EXCEPT ![w] = {}]
      /\ UNCHANGED <<clock, reminder, jobs, now, ran>>
  BY DEF Crash
<1>2. TypeOK'
  BY <1>1, ReminderPipelineAssumption DEF TypeOK
<1>3. RemindersExist' /\ DrainedJobs' /\ NoJobInTwoHands' /\ CompletedJobsAreDone'
  BY <1>1 DEF RemindersExist, DrainedJobs, NoJobInTwoHands, CompletedJobsAreDone, TypeOK
<1>4. ClaimedJobsAreInHand'
  BY <1>1 DEF ClaimedJobsAreInHand, TypeOK
<1> QED BY <1>2, <1>3, <1>4

\* The invariant is inductive.
LEMMA PipelineInvStep ==
    ASSUME PipelineInv, [Next]_vars
    PROVE  PipelineInv'
<1>1. CASE UNCHANGED vars
  BY <1>1 DEF vars, PipelineInv, TypeOK, RemindersExist, DrainedJobs,
     NoJobInTwoHands, CompletedJobsAreDone, ClaimedJobsAreInHand
<1> QED BY <1>1, TableSteps, BatchSteps, EnqueueStep, DrainStep, TriggerStep,
           CompleteStep, CrashStep DEF Next, Run

\* There are no jobs at first.
LEMMA PipelineInvInit == Init => PipelineInv
<1> SUFFICES ASSUME Init PROVE PipelineInv
  OBVIOUS
<1>1. jobs \in Seq(Job) /\ DOMAIN jobs = {}
  BY EmptySeq DEF Init
<1>2. TypeOK
  BY <1>1, ReminderPipelineAssumption DEF Init, TypeOK
<1>3. /\ RemindersExist /\ DrainedJobs /\ NoJobInTwoHands
      /\ CompletedJobsAreDone /\ ClaimedJobsAreInHand
  BY <1>1 DEF Init, RemindersExist, DrainedJobs, NoJobInTwoHands,
     CompletedJobsAreDone, ClaimedJobsAreInHand
<1> QED BY <1>2, <1>3 DEF PipelineInv

\* The tables and the runs keep their types; a run has jobs in hand exactly
\* between drain and complete.
THEOREM PipelineTypeCorrect == Spec => []TypeOK
<1>1. PipelineInv => TypeOK
  BY DEF PipelineInv
<1> QED BY <1>1, PipelineInvInit, PipelineInvStep, PTL DEF Spec

\* However many runs overlap, no job is in the hands of two of them.
THEOREM JobsAreNotShared == Spec => []NoJobInTwoHands
<1>1. PipelineInv => NoJobInTwoHands
  BY DEF PipelineInv
<1> QED BY <1>1, PipelineInvInit, PipelineInvStep, PTL DEF Spec

\* A completed job's reminder was triggered or cancelled.
THEOREM CompletedAreDone == Spec => []CompletedJobsAreDone
<1>1. PipelineInv => CompletedJobsAreDone
  BY DEF PipelineInv
<1> QED BY <1>1, PipelineInvInit, PipelineInvStep, PTL DEF Spec

\* Until a run dies, every claimed job is in the hands of some run.
THEOREM ClaimedAreInHand == Spec => []ClaimedJobsAreInHand
<1>1. PipelineInv => ClaimedJobsAreInHand
  BY DEF PipelineInv
<1> QED BY <1>1, PipelineInvInit, PipelineInvStep, PTL DEF Spec

-----------------------------------------------------------------------------
(* In time.  TriggeredInTime is about two states that may be hours apart.   *)
(* OnItsWay is what holds of a reminder in between: its hour is still to    *)
(* come, or is here and every run that has listed it will enqueue it, or is *)
(* over and its jobs wait to be drained.                                    *)

\* The hour does not pass while a run is under way.
RunsAreOfThisHour ==
    \A w \in Worker : stage[w] # "idle" => now[w] = clock /\ ~ran[w]

HasJob(r) == \E i \in DOMAIN jobs : jobs[i].reminder = r

\* The worker has drained the queue in this hour.
HasDrained(w) == ran[w] \/ stage[w] \in {"trigger", "complete"}

Coming(r) ==
    /\ clock <= At[r] /\ At[r] < clock + Hour
    /\ \A w \in Worker :
         /\ HasDrained(w) => HasJob(r)
         /\ stage[w] = "enqueue" => r \in toEnqueue[w] \/ HasJob(r)

Passed(r) ==
    /\ At[r] < clock /\ clock <= At[r] + Hour
    /\ HasJob(r)
    /\ \A w \in Worker :
         /\ r \notin toEnqueue[w]
         /\ HasDrained(w) =>
              \A i \in DOMAIN jobs : jobs[i].reminder = r => jobs[i].status # "queued"

OnItsWay(r) ==
    /\ reminder[r] # "none"
    /\ (crashes = 0 /\ reminder[r] = "scheduled") =>
         clock + Hour <= At[r] \/ Coming(r) \/ Passed(r)

\* Times are natural numbers.
LEMMA Times ==
    ASSUME TypeOK, NEW r \in Reminder
    PROVE  clock \in Nat /\ At[r] \in Nat /\ Hour \in Nat /\ Hour > 0
                /\ Window \in Nat /\ MaxTime \in Nat /\ At[r] < MaxTime
BY ReminderPipelineAssumption DEF TypeOK

\* A run takes its time from the clock, and the clock waits for it.
LEMMA RunsOfThisHourStep ==
    ASSUME TypeOK, RunsAreOfThisHour, [Next]_vars
    PROVE  RunsAreOfThisHour'
<1> USE DEF RunsAreOfThisHour
<1>1. CASE UNCHANGED <<clock, workerVars>>
  BY <1>1 DEF workerVars
<1>2. CASE Tick
  BY <1>2 DEF Tick
<1>3. ASSUME NEW w \in Worker, Run(w)
      PROVE  RunsAreOfThisHour'
  <2>1. CASE StartRun(w)
    BY <2>1 DEF TypeOK, StartRun
  <2>2. CASE \E r \in Reminder : Enqueue(w, r)
    BY <2>2 DEF Enqueue
  <2>3. CASE Drain(w)
    BY <2>3 DEF TypeOK, Drain, Enqueued
  <2>4. CASE Trigger(w)
    BY <2>4 DEF TypeOK, Trigger
  <2>5. CASE Complete(w)
    BY <2>5 DEF TypeOK, Complete
  <2> QED BY <1>3, <2>1, <2>2, <2>3, <2>4, <2>5 DEF Run
<1>4. ASSUME NEW w \in Worker, Crash(w)
      PROVE  RunsAreOfThisHour'
  BY <1>4 DEF TypeOK, Crash
<1> QED BY <1>1, <1>2, <1>3, <1>4
        DEF Next, ScheduleReminder, CancelReminder, vars, workerVars

\* Listing: a run that starts while the reminder is coming lists it.
LEMMA StartKeepsComing ==
    ASSUME TypeOK, Hour <= Window, NEW r \in Reminder, reminder[r] = "scheduled",
           Coming(r) \/ Passed(r), NEW w \in Worker, StartRun(w)
    PROVE  Coming(r)' \/ Passed(r)'
<1>1. /\ ~ran[w]
      /\ stage' = [stage EXCEPT ![w] = "enqueue"]
      /\ toEnqueue' = [toEnqueue EXCEPT ![w] = InWindow(clock)]
      /\ UNCHANGED <<clock, jobs, ran>>
  BY DEF StartRun
<1>2. \A v \in Worker : /\ HasDrained(v)' => HasDrained(v)
                        /\ v # w => /\ stage'[v] = stage[v]
                                    /\ toEnqueue'[v] = toEnqueue[v]
  BY <1>1 DEF TypeOK, HasDrained
<1>3. toEnqueue'[w] = InWindow(clock) /\ stage'[w] = "enqueue"
  BY <1>1 DEF TypeOK
<1>4. CASE Coming(r)
  <2>1. r \in InWindow(clock)
    BY <1>4, Times DEF Coming, InWindow
  <2> QED BY <1>1, <1>2, <1>3, <1>4, <2>1 DEF Coming, HasJob
<1>5. CASE Passed(r)
  <2>1. r \notin InWindow(clock)
    BY <1>5, Times DEF Passed, InWindow
  <2> QED BY <1>1, <1>2, <1>3, <1>5, <2>1 DEF Passed, HasJob
<1> QED BY <1>4, <1>5

\* Enqueueing: the reminder that leaves the list has its job.
LEMMA EnqueueKeepsComing ==
    ASSUME PipelineInv, NEW r \in Reminder, Coming(r) \/ Passed(r),
           NEW w \in Worker, NEW q \in Reminder, Enqueue(w, q)
    PROVE  Coming(r)' \/ Passed(r)'
<1>1. /\ q \in toEnqueue[w]
      /\ jobs' = Append(jobs, [reminder |-> q, status |-> "queued"])
      /\ toEnqueue' = [toEnqueue EXCEPT ![w] = @ \ {q}]
      /\ UNCHANGED <<clock, stage, ran>>
  BY DEF Enqueue
<1>2. /\ DOMAIN jobs = 1..Len(jobs) /\ Len(jobs) \in Nat
      /\ DOMAIN jobs' = 1..(Len(jobs) + 1)
      /\ \A i \in DOMAIN jobs : jobs'[i] = jobs[i]
      /\ jobs'[Len(jobs) + 1].reminder = q
  BY <1>1, EnqueuedJobs DEF PipelineInv, TypeOK
<1>3. HasJob(r) => HasJob(r)'
  BY <1>2 DEF HasJob
<1>4. HasJob(q)'
  BY <1>2 DEF HasJob
<1>5. \A v \in Worker : /\ toEnqueue'[v] \subseteq toEnqueue[v]
                        /\ r # q => (r \in toEnqueue[v] => r \in toEnqueue'[v])
                        /\ HasDrained(v)' = HasDrained(v)
  BY <1>1 DEF PipelineInv, TypeOK, HasDrained
<1>6. CASE Coming(r)
  <2>1. CASE r = q
    BY <1>1, <1>4, <1>6, <2>1 DEF Coming
  <2>2. CASE r # q
    BY <1>1, <1>3, <1>5, <1>6, <2>2 DEF Coming
  <2> QED BY <2>1, <2>2
<1>7. CASE Passed(r)
  <2>1. r # q
    BY <1>1, <1>7 DEF Passed
  <2>2. \A i \in DOMAIN jobs' : jobs'[i].reminder = r =>
          i \in DOMAIN jobs /\ jobs'[i] = jobs[i]
    BY <1>2, <2>1
  <2>3. \A v \in Worker : r \notin toEnqueue'[v]
    BY <1>5, <1>7 DEF Passed
  <2> QED BY <1>1, <1>3, <1>5, <1>7, <2>2, <2>3 DEF Passed
<1> QED BY <1>6, <1>7

\* Draining: the queue holds a job of the reminder before, and after its time
\* none that is still queued is left.
LEMMA DrainKeepsComing ==
    ASSUME PipelineInv, RunsAreOfThisHour, NEW r \in Reminder,
           Coming(r) \/ Passed(r), NEW w \in Worker, Drain(w)
    PROVE  Coming(r)' \/ Passed(r)'
<1>1. /\ stage[w] = "enqueue" /\ toEnqueue[w] = {} /\ now[w] = clock
      /\ UNCHANGED <<clock, toEnqueue>>
      /\ \A v \in Worker : v # w => /\ stage'[v] = stage[v]
                                    /\ ran'[v] = ran[v]
      /\ stage'[w] # "enqueue"
  BY DEF Drain, Enqueued, RunsAreOfThisHour, PipelineInv, TypeOK
<1>2. /\ DOMAIN jobs' = DOMAIN jobs
      /\ \A i \in DOMAIN jobs :
           /\ jobs'[i].reminder = jobs[i].reminder
           /\ jobs'[i].status =
                IF i \in Available(now[w]) THEN "claimed" ELSE jobs[i].status
  BY MarkedJobs DEF Drain, PipelineInv, TypeOK
<1>3. HasJob(r)' <=> HasJob(r)
  BY <1>2 DEF HasJob
<1>4. CASE Coming(r)
  <2>1. HasJob(r)
    BY <1>1, <1>4 DEF Coming
  <2> QED BY <1>1, <1>3, <1>4, <2>1 DEF Coming
<1>5. CASE Passed(r)
  <2>1. At[r] <= now[w]
    BY <1>1, <1>5, Times DEF PipelineInv, Passed
  <2>2. ASSUME NEW i \in DOMAIN jobs', jobs'[i].reminder = r
        PROVE  jobs'[i].status # "queued"
    BY <1>2, <2>1, <2>2 DEF Available
  <2> QED BY <1>1, <1>3, <1>5, <2>2 DEF Passed
<1> QED BY <1>4, <1>5

\* Triggering and completing: no job becomes queued again.
LEMMA EndKeepsComing ==
    ASSUME PipelineInv, NEW r \in Reminder, Coming(r) \/ Passed(r),
           NEW w \in Worker, Trigger(w) \/ Complete(w)
    PROVE  Coming(r)' \/ Passed(r)'
<1>1. /\ UNCHANGED <<clock, toEnqueue>>
      /\ \A v \in Worker : /\ HasDrained(v)' <=> HasDrained(v)
                           /\ stage'[v] = "enqueue" => stage[v] = "enqueue"
  BY DEF Trigger, Complete, HasDrained, PipelineInv, TypeOK
<1>2. /\ DOMAIN jobs' = DOMAIN jobs
      /\ \A i \in DOMAIN jobs :
           /\ jobs'[i].reminder = jobs[i].reminder
           /\ jobs[i].status # "queued" => jobs'[i].status # "queued"
           /\ jobs'[i].status = "queued" => jobs[i].status = "queued"
  <2>1. CASE Trigger(w)
    BY <2>1 DEF Trigger
  <2>2. CASE Complete(w)
    BY <2>2, MarkedJobs DEF Complete, PipelineInv, TypeOK
  <2> QED BY <2>1, <2>2
<1>3. HasJob(r)' <=> HasJob(r)
  BY <1>2 DEF HasJob
<1>4. CASE Coming(r)
  BY <1>1, <1>3, <1>4 DEF Coming
<1>5. CASE Passed(r)
  <2>1. ASSUME NEW v \in Worker, HasDrained(v)',
               NEW i \in DOMAIN jobs', jobs'[i].reminder = r
        PROVE  jobs'[i].status # "queued"
    BY <1>1, <1>2, <1>5, <2>1 DEF Passed
  <2> QED BY <1>1, <1>3, <1>5, <2>1 DEF Passed
<1> QED BY <1>4, <1>5

\* When the hour passes every worker has finished a run in it: a reminder that
\* was coming has a job, and one whose time was over has been triggered.
LEMMA TickKeepsOnItsWay ==
    ASSUME PipelineInv, RunsAreOfThisHour, Worker # {},
           NEW r \in Reminder, reminder[r] = "scheduled", crashes = 0,
           clock + Hour <= At[r] \/ Coming(r) \/ Passed(r), Tick
    PROVE  clock' + Hour <= At[r] \/ Coming(r)' \/ Passed(r)'
<1>1. /\ \A w \in Worker : ran[w]
      /\ clock' = IF clock + Hour <= MaxTime THEN clock + Hour ELSE clock
      /\ ran' = [w \in Worker |-> FALSE]
      /\ UNCHANGED <<jobs, stage, toEnqueue, drained>>
  BY DEF Tick
<1>2. \A w \in Worker : stage[w] = "idle" /\ toEnqueue[w] = {} /\ drained[w] = {}
  BY <1>1 DEF RunsAreOfThisHour, PipelineInv, TypeOK
<1>3. \A w \in Worker : ~HasDrained(w)' /\ stage'[w] # "enqueue"
  BY <1>1, <1>2 DEF HasDrained
<1>4. /\ clock \in Nat /\ At[r] \in Nat /\ Hour \in Nat /\ Hour > 0
      /\ MaxTime \in Nat /\ At[r] < MaxTime
  BY Times DEF PipelineInv
<1>5. CASE clock + Hour <= At[r]
  BY <1>1, <1>3, <1>4, <1>5 DEF Coming
<1>6. CASE Coming(r)
  <2>1. HasJob(r)
    BY <1>1, <1>6 DEF Coming, HasDrained
  <2>2. HasJob(r)'
    BY <1>1, <2>1 DEF HasJob
  <2>3. CASE clock + Hour <= MaxTime
    BY <1>1, <1>2, <1>3, <1>4, <1>6, <2>2, <2>3 DEF Coming, Passed
  <2>4. CASE ~(clock + Hour <= MaxTime)
    BY <1>1, <1>3, <1>6, <2>4 DEF Coming
  <2> QED BY <2>3, <2>4
<1>7. CASE Passed(r)
  <2>1. PICK i \in DOMAIN jobs : jobs[i].reminder = r
    BY <1>7 DEF Passed, HasJob
  <2>2. jobs[i].status # "queued"
    BY <1>1, <1>7, <2>1 DEF Passed, HasDrained
  <2>3. jobs[i].status \in {"claimed", "completed"}
    BY <2>2, JobFacts DEF Job
  <2>4. jobs[i].status # "completed"
    BY <2>1 DEF PipelineInv, CompletedJobsAreDone
  <2>5. \E w \in Worker : i \in drained[w]
    BY <2>3, <2>4 DEF PipelineInv, ClaimedJobsAreInHand
  <2> QED BY <1>2, <2>5
<1> QED BY <1>5, <1>6, <1>7

\* A reminder that is on its way stays so, until it is triggered or cancelled
\* or a run dies.
LEMMA OnItsWayStep ==
    ASSUME PipelineInv, RunsAreOfThisHour, Worker # {}, Hour <= Window,
           NEW r \in Reminder, OnItsWay(r), [Next]_vars
    PROVE  OnItsWay(r)'
<1> DEFINE There == clock + Hour <= At[r] \/ Coming(r) \/ Passed(r)
<1>1. reminder'[r] # "none" /\ (reminder'[r] = "scheduled" => reminder[r] = "scheduled")
  <2>1. reminder[r] # "none" /\ reminder \in [Reminder -> {"none", "scheduled", "triggered", "cancelled"}]
    BY DEF OnItsWay, PipelineInv, TypeOK
  <2>2. CASE UNCHANGED reminder
    BY <2>1, <2>2
  <2>3. ASSUME NEW q \in Reminder, ScheduleReminder(q) \/ CancelReminder(q)
        PROVE  reminder'[r] # "none"
                 /\ (reminder'[r] = "scheduled" => reminder[r] = "scheduled")
    BY <2>1, <2>3 DEF ScheduleReminder, CancelReminder
  <2>4. ASSUME NEW w \in Worker, Trigger(w)
        PROVE  reminder'[r] # "none"
                 /\ (reminder'[r] = "scheduled" => reminder[r] = "scheduled")
    BY <2>1, <2>4 DEF Trigger, TriggerDue
  <2> QED BY <2>2, <2>3, <2>4 DEF Next, Run, Tick, StartRun, Enqueue, Drain,
             Complete, Crash, vars
<1>2. ASSUME crashes' = 0, reminder'[r] = "scheduled"
      PROVE  There'
  <2>1. crashes = 0 /\ \A w \in Worker : ~Crash(w)
    <3>1. crashes \in Nat
      BY ReminderPipelineAssumption DEF PipelineInv, TypeOK
    <3>2. \A w \in Worker : ~Crash(w)
      BY <1>2, <3>1 DEF Crash
    <3> QED BY <1>2, <3>2 DEF Next, ScheduleReminder, CancelReminder, Tick, Run,
               StartRun, Enqueue, Drain, Trigger, Complete, vars
  <2>2. reminder[r] = "scheduled" /\ There
    BY <1>1, <1>2, <2>1 DEF OnItsWay
  <2>3. CASE UNCHANGED <<clock, jobs, workerVars>>
    BY <2>2, <2>3 DEF workerVars, Coming, Passed, HasJob, HasDrained
  <2>4. CASE Tick
    BY <2>1, <2>2, <2>4, TickKeepsOnItsWay
  <2>5. ASSUME NEW w \in Worker, Run(w)
        PROVE  There'
    <3>1. clock' = clock
      BY <2>5 DEF Run, StartRun, Enqueue, Drain, Trigger, Complete
    <3>2. CASE clock + Hour <= At[r]
      BY <3>1, <3>2
    <3>3. CASE Coming(r) \/ Passed(r)
      BY <2>2, <2>5, <3>3, StartKeepsComing, EnqueueKeepsComing, DrainKeepsComing,
         EndKeepsComing DEF Run, PipelineInv
    <3> QED BY <2>2, <3>2, <3>3
  <2> QED BY <2>1, <2>3, <2>4, <2>5 DEF Next, ScheduleReminder, CancelReminder, vars, workerVars
<1> QED BY <1>1, <1>2 DEF OnItsWay

\* Where a run is made every hour and looks at least an hour ahead, a reminder
\* that is there one batch ahead is triggered or cancelled before the clock is
\* more than an hour past its time, unless a run dies: for every number of
\* workers, however they interleave.
THEOREM InTime ==
    ASSUME Hour <= Window, Worker # {}
    PROVE  Spec => TriggeredInTime
<1>1. Spec => []PipelineInv
  BY PipelineInvInit, PipelineInvStep, PTL DEF Spec
<1>2. Spec => []RunsAreOfThisHour
  <2>1. Init => RunsAreOfThisHour
    BY DEF Init, RunsAreOfThisHour
  <2>2. PipelineInv => TypeOK
    BY DEF PipelineInv
  <2> QED BY <1>1, <2>1, <2>2, RunsOfThisHourStep, PTL DEF Spec
<1>3. ASSUME NEW r \in Reminder
      PROVE  Spec => []((reminder[r] = "scheduled" /\ clock + Hour <= At[r])
                          => [](crashes = 0 /\ At[r] + Hour < clock
                                  => reminder[r] # "scheduled"))
  <2> DEFINE Planned == reminder[r] = "scheduled" /\ clock + Hour <= At[r]
             NotLate == crashes = 0 /\ At[r] + Hour < clock
                          => reminder[r] # "scheduled"
  <2>1. Planned => OnItsWay(r)
    BY DEF OnItsWay
  <2>2. PipelineInv /\ OnItsWay(r) => NotLate
    BY Times DEF PipelineInv, OnItsWay, Coming, Passed
  <2>3. PipelineInv /\ RunsAreOfThisHour /\ OnItsWay(r) /\ [Next]_vars => OnItsWay(r)'
    BY OnItsWayStep
  <2>4. Spec => [](Planned => []NotLate)
    <3> HIDE DEF Planned, NotLate
    <3> QED BY <1>1, <1>2, <2>1, <2>2, <2>3, PTL DEF Spec
  <2> QED BY <2>4
<1> QED BY <1>3 DEF TriggeredInTime

=============================================================================

-------------------------- MODULE ReminderPipeline --------------------------
(***************************************************************************)
(* The batch that sends reminders on time: ReminderScheduler,              *)
(* PersistentJobQueue and ReminderWorker of core/workers.py, run one after *)
(* the other by `worker schedule-reminders` and by the Celery task         *)
(* schedule_reminders, for one tenant.                                     *)
(*                                                                         *)
(* A run lists the reminders of the coming window, enqueues a job for each *)
(* (a transaction per job), drains the jobs that are available by now      *)
(* (they become `claimed`), triggers whatever reminder of the tenant is    *)
(* due if it drained any job, and marks what it drained `completed`.  Runs *)
(* overlap, and a run may die between any two of these steps.              *)
(*                                                                         *)
(* Nothing in the repository starts a run.  The product design says that   *)
(* one is started every hour; FairSpec assumes that, in the form that the  *)
(* hour does not pass (Tick) before each worker has finished a run in it;   *)
(* a run that dies is started again in the same hour.                      *)
(***************************************************************************)
EXTENDS Integers, Sequences

CONSTANTS
    Reminder,     \* rows of the table reminders, of one tenant
    At,           \* scheduled_at of each reminder
    Window,       \* the window of a run: --hours, 24 by default
    Hour,         \* the time from one batch to the next
    Worker,       \* processes that do the runs
    MaxTime,      \* bound: the time that is looked at
    MaxCrashes    \* bound: runs that die

ASSUME ReminderPipelineAssumption ==
    /\ At \in [Reminder -> 0..(MaxTime - 1)]
    /\ Window \in Nat
    /\ Hour \in Nat \ {0}
    /\ MaxTime \in Nat
    /\ MaxCrashes \in Nat

VARIABLES
    clock,
    reminder,     \* reminders.status, "none" before the row is inserted
    jobs,         \* the table job_queue in order of insertion
    stage,        \* where each worker is in its run
    now,          \* the time its run was started with
    toEnqueue,    \* reminders its run has listed and not enqueued yet
    drained,      \* the jobs its run has drained, as indices of `jobs`
    ran,          \* has it finished a run this hour?
    crashes

vars == <<clock, reminder, jobs, stage, now, toEnqueue, drained, ran, crashes>>
workerVars == <<stage, now, toEnqueue, drained, ran>>

Job == [reminder: Reminder, status: {"queued", "claimed", "completed"}]

TypeOK ==
    /\ clock \in 0..MaxTime
    /\ reminder \in [Reminder -> {"none", "scheduled", "triggered", "cancelled"}]
    /\ jobs \in Seq(Job)
    /\ stage \in [Worker -> {"idle", "enqueue", "trigger", "complete"}]
    /\ now \in [Worker -> 0..MaxTime]
    /\ toEnqueue \in [Worker -> SUBSET Reminder]
    /\ drained \in [Worker -> SUBSET (1..Len(jobs))]
    /\ ran \in [Worker -> BOOLEAN]
    /\ crashes \in 0..MaxCrashes
    /\ \A w \in Worker :
         /\ toEnqueue[w] # {} => stage[w] = "enqueue"
         /\ drained[w] # {} <=> stage[w] \in {"trigger", "complete"}

Init ==
    /\ clock = 0
    /\ reminder = [r \in Reminder |-> "none"]
    /\ jobs = <<>>
    /\ stage = [w \in Worker |-> "idle"]
    /\ now = [w \in Worker |-> 0]
    /\ toEnqueue = [w \in Worker |-> {}]
    /\ drained = [w \in Worker |-> {}]
    /\ ran = [w \in Worker |-> FALSE]
    /\ crashes = 0

-----------------------------------------------------------------------------
(* The rest of the program *)

\* _rebuild_reminders inserts a reminder, whether or not its time has passed.
ScheduleReminder(r) ==
    /\ reminder[r] = "none"
    /\ reminder' = [reminder EXCEPT ![r] = "scheduled"]
    /\ UNCHANGED <<clock, jobs, workerVars, crashes>>

CancelReminder(r) ==
    /\ reminder[r] = "scheduled"
    /\ reminder' = [reminder EXCEPT ![r] = "cancelled"]
    /\ UNCHANGED <<clock, jobs, workerVars, crashes>>

\* Faulty variant: a reminder is not due in its own hour.
TriggerDue_Before(time) ==
    reminder' = [r \in Reminder |->
                   IF reminder[r] = "scheduled" /\ At[r] < time
                   THEN "triggered" ELSE reminder[r]]

\* trigger_due_reminders for the tenant
TriggerDue(time) ==
    reminder' = [r \in Reminder |->
                   IF reminder[r] = "scheduled" /\ At[r] <= time
                   THEN "triggered" ELSE reminder[r]]

\* The bound makes the last hour come again and again; no reminder that is
\* due before it is in the window of its batches.
Tick ==
    /\ \A w \in Worker : ran[w]
    /\ clock' = IF clock + Hour <= MaxTime THEN clock + Hour ELSE clock
    /\ ran' = [w \in Worker |-> FALSE]
    /\ UNCHANGED <<reminder, jobs, stage, now, toEnqueue, drained, crashes>>

-----------------------------------------------------------------------------
(* A run *)

\* Faulty variant: both ends of the window are left out.
InWindow_Open(time) ==
    {r \in Reminder : /\ reminder[r] = "scheduled"
                      /\ time < At[r]
                      /\ At[r] < time + Window}

\* enqueue_next_window lists what is scheduled from now to the cutoff.  What
\* should have been sent before now is not in the window.
InWindow(time) ==
    {r \in Reminder : /\ reminder[r] = "scheduled"
                      /\ time <= At[r]
                      /\ At[r] <= time + Window}

StartRun(w) ==
    /\ stage[w] = "idle"
    /\ ~ran[w]
    /\ stage' = [stage EXCEPT ![w] = "enqueue"]
    /\ now' = [now EXCEPT ![w] = clock]
    /\ toEnqueue' = [toEnqueue EXCEPT ![w] = InWindow(clock)]
    /\ UNCHANGED <<clock, reminder, jobs, drained, ran, crashes>>

\* One transaction per job.  A reminder that has a job gets another one.
Enqueue(w, r) ==
    /\ stage[w] = "enqueue"
    /\ r \in toEnqueue[w]
    /\ jobs' = Append(jobs, [reminder |-> r, status |-> "queued"])
    /\ toEnqueue' = [toEnqueue EXCEPT ![w] = @ \ {r}]
    /\ UNCHANGED <<clock, reminder, stage, now, drained, ran, crashes>>

\* Faulty variant: claimed jobs are handed out again.
Available_Claimed(time) ==
    {i \in DOMAIN jobs : /\ jobs[i].status \in {"queued", "claimed"}
                         /\ At[jobs[i].reminder] <= time}

Available(time) ==
    {i \in DOMAIN jobs : jobs[i].status = "queued" /\ At[jobs[i].reminder] <= time}

\* Faulty variant: an UPDATE without the job_id.
MarkJobs_All(which, status) ==
    jobs' = [i \in DOMAIN jobs |-> [jobs[i] EXCEPT !.status = status]]

MarkJobs(which, status) ==
    jobs' = [i \in DOMAIN jobs |->
               IF i \in which THEN [jobs[i] EXCEPT !.status = status] ELSE jobs[i]]

\* Faulty variant: the queue is drained while jobs are still enqueued.
Enqueued_Some(w) == stage[w] = "enqueue"

Enqueued(w) == stage[w] = "enqueue" /\ toEnqueue[w] = {}

\* drain: in one transaction, so that no job is handed out twice.
Drain(w) ==
    /\ Enqueued(w)
    /\ drained' = [drained EXCEPT ![w] = Available(now[w])]
    /\ MarkJobs(Available(now[w]), "claimed")
    /\ \/ /\ Available(now[w]) # {}
          /\ stage' = [stage EXCEPT ![w] = "trigger"]
          /\ UNCHANGED ran
       \/ /\ Available(now[w]) = {}
          /\ stage' = [stage EXCEPT ![w] = "idle"]
          /\ ran' = [ran EXCEPT ![w] = TRUE]
    /\ UNCHANGED <<clock, reminder, now, toEnqueue, crashes>>

\* ReminderWorker.run does not look at the reminders its jobs are about: it
\* triggers all that are due.
Trigger(w) ==
    /\ stage[w] = "trigger"
    /\ TriggerDue(now[w])
    /\ stage' = [stage EXCEPT ![w] = "complete"]
    /\ UNCHANGED <<clock, jobs, now, toEnqueue, drained, ran, crashes>>

Complete(w) ==
    /\ stage[w] = "complete"
    /\ MarkJobs(drained[w], "completed")
    /\ drained' = [drained EXCEPT ![w] = {}]
    /\ stage' = [stage EXCEPT ![w] = "idle"]
    /\ ran' = [ran EXCEPT ![w] = TRUE]
    /\ UNCHANGED <<clock, reminder, now, toEnqueue, crashes>>

\* The process dies.  Its jobs stay claimed; drain takes only queued ones.
Crash(w) ==
    /\ stage[w] # "idle"
    /\ crashes < MaxCrashes
    /\ crashes' = crashes + 1
    /\ stage' = [stage EXCEPT ![w] = "idle"]
    /\ toEnqueue' = [toEnqueue EXCEPT ![w] = {}]
    /\ drained' = [drained EXCEPT ![w] = {}]
    /\ UNCHANGED <<clock, reminder, jobs, now, ran>>

Run(w) ==
    \/ StartRun(w) \/ Drain(w) \/ Trigger(w) \/ Complete(w)
    \/ \E r \in Reminder : Enqueue(w, r)

-----------------------------------------------------------------------------
Next ==
    \/ \E r \in Reminder : ScheduleReminder(r) \/ CancelReminder(r)
    \/ Tick
    \/ \E w \in Worker : Run(w) \/ Crash(w)

Spec == Init /\ [][Next]_vars

FairSpec == Spec /\ WF_vars(Tick) /\ \A w \in Worker : WF_vars(Run(w))

-----------------------------------------------------------------------------
(* Properties *)

\* A job is marked completed only when its reminder needs nothing more: it
\* was triggered, or cancelled meanwhile.
CompletedJobsAreDone ==
    \A i \in DOMAIN jobs :
        jobs[i].status = "completed" => reminder[jobs[i].reminder] # "scheduled"

\* No two runs work on the same job, and what a run works on is claimed.
NoJobInTwoHands ==
    \A v, w \in Worker : \A i \in drained[w] :
        /\ jobs[i].status = "claimed"
        /\ v # w => i \notin drained[v]

\* Without crashes nothing stays claimed for ever: a claimed job is in the
\* hands of a run.
ClaimedJobsAreInHand ==
    \A i \in DOMAIN jobs :
        (jobs[i].status = "claimed" /\ crashes = 0)
            => \E w \in Worker : i \in drained[w]

\* A reminder that is there one batch ahead of its time is triggered, or
\* cancelled: some batch finds it in its window and enqueues it, and the job
\* is drained when its time has come ("triggered on time").
PlannedRemindersAreTriggered ==
    \A r \in Reminder :
        (reminder[r] = "scheduled" /\ clock + Hour <= At[r])
            ~> reminder[r] \in {"triggered", "cancelled"}

\* Where no run dies, such a reminder is triggered or cancelled, whatever the
\* overlap of the runs and the place of its time in the window.
TriggeredUnlessARunDies ==
    \A r \in Reminder :
        (reminder[r] = "scheduled" /\ clock + Hour <= At[r])
            ~> (reminder[r] \in {"triggered", "cancelled"} \/ crashes > 0)

\* And it is in time: when the hour that began with the first batch after the
\* reminder's time is over, the reminder is not left, whatever was scheduled,
\* cancelled or enqueued beside it and however the runs overlapped.
TriggeredInTime ==
    \A r \in Reminder :
        []((reminder[r] = "scheduled" /\ clock + Hour <= At[r])
              => [](crashes = 0 /\ At[r] + Hour < clock => reminder[r] # "scheduled"))

=============================================================================

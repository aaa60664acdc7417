------------------------------ MODULE Delivery ------------------------------
(***************************************************************************)
(* Deadlines and Notifications composed: what is told to whom, and when,   *)
(* about deadlines that are completed, moved, snoozed and reopened while   *)
(* messages about them are waiting.  The two meet in one transaction,      *)
(* trigger_due_reminders of core/engine.py, which marks reminders, writes  *)
(* the text of a delivery for each route, and publishes an event for each  *)
(* reminder while the transaction is still open.                           *)
(*                                                                         *)
(* D and N are the component modules.  N knows a reminder by its deadline, *)
(* build and day only; a row that has not been inserted counts as          *)
(* scheduled there.                                                        *)
(***************************************************************************)
EXTENDS Integers, FiniteSets

CONSTANTS
    Deadline, Tenant, TenantOf, Date, Offset, Instant, Resumer, NoDate,
    MaxEvents,                                  \* see Deadlines
    Route, RouteTenant, Channel, ChannelOf, Dispatcher, None, MaxCrashes,
                                                \* see Notifications
    MaxBuilds,     \* bound: builds of the reminders of each deadline
    MaxRollbacks   \* bound: rollbacks of trigger_due_reminders

VARIABLES
    status, dueDate, overrideDate, snoozedUntil, reminders, builds,
    transitions, audit, toResume,                         \* see Deadlines
    routes, delivery, accepted, kept, console, todo, inHand, outcome, crashes,
                                                          \* see Notifications
    text,        \* the due date in the text of each delivery
    announced,   \* reminders a REMINDER_TRIGGERED event was published for
    rollbacks

RowId ==
    UNION {[deadline: {d}, build: 1..MaxBuilds[d], day: Offset] : d \in Deadline}

Id(r) == [deadline |-> r.deadline, build |-> r.build, day |-> r.day]

\* The ids of the rows that have this status.
With(st) == {Id(r) : r \in {x \in reminders : x.status = st}}

ReminderStatus ==
    [id \in RowId |-> IF id \in With("triggered") THEN "triggered"
                      ELSE IF id \in With("cancelled") THEN "cancelled"
                      ELSE "scheduled"]

D == INSTANCE Deadlines
N == INSTANCE Notifications
         WITH Reminder <- RowId,
              TenantOf <- [id \in RowId |-> TenantOf[id.deadline]],
              reminder <- ReminderStatus

ASSUME DeliveryAssumption ==
    /\ D!DeadlinesAssumption
    /\ N!NotificationsAssumption
    /\ MaxBuilds \in [Deadline -> Nat]
    /\ MaxRollbacks \in Nat

deadlineVars == <<status, dueDate, overrideDate, snoozedUntil, reminders,
                  builds, transitions, audit, toResume>>
queueVars == <<routes, delivery, accepted, kept, console, todo, inHand, outcome,
               crashes>>
messageVars == <<text, announced, rollbacks>>
vars == <<deadlineVars, queueVars, messageVars>>

Init ==
    /\ D!Init
    /\ routes = {}
    /\ delivery = [x \in N!Delivery |-> "none"]
    /\ accepted = [x \in N!Delivery |-> 0]
    /\ kept = [x \in N!Delivery |-> 0]
    /\ console = [p \in Dispatcher |-> {}]
    /\ todo = [p \in Dispatcher |-> {}]
    /\ inHand = [p \in Dispatcher |-> None]
    /\ outcome = [p \in Dispatcher |-> "sent"]
    /\ crashes = 0
    /\ text = [x \in N!Delivery |-> NoDate]
    /\ announced = {}
    /\ rollbacks = 0

-----------------------------------------------------------------------------
(* trigger_due_reminders *)

DueRows(now, tenants) ==
    {r \in reminders : /\ r.status = "scheduled"
                       /\ r.at <= now
                       /\ TenantOf[r.deadline] \in tenants}

\* Faulty variant: the messages that wait are rewritten.
WriteText_All(queued) ==
    text' = [x \in N!Delivery |->
               IF x \in queued \/ delivery[x] = "pending"
               THEN dueDate[x[1].deadline] ELSE text[x]]

\* The text is written when the delivery is: `queued` are those written now.
WriteText(queued) ==
    text' = [x \in N!Delivery |->
               IF x \in queued THEN dueDate[x[1].deadline] ELSE text[x]]

\* Faulty variant: an event for each reminder somebody is notified of.
TriggerDueReminders_TellsOfRouted(now, tenants) ==
    LET ids == {Id(r) : r \in DueRows(now, tenants)}
    IN /\ D!TriggerDueReminders(now, tenants)
       /\ N!QueueDeliveries(ids)
       /\ WriteText({x \in N!Delivery : delivery[x] # delivery'[x]})
       /\ announced' = announced \cup {id \in ids : \E route \in routes :
                                         RouteTenant[route] = TenantOf[id.deadline]}
       /\ UNCHANGED <<routes, accepted, kept, console, todo, inHand, outcome, crashes,
                      rollbacks>>

TriggerDueReminders(now, tenants) ==
    LET ids == {Id(r) : r \in DueRows(now, tenants)}
    IN /\ D!TriggerDueReminders(now, tenants)
       /\ N!QueueDeliveries(ids)
       /\ WriteText({x \in N!Delivery : delivery[x] # delivery'[x]})
       /\ announced' = announced \cup ids
       /\ UNCHANGED <<routes, accepted, kept, console, todo, inHand, outcome, crashes,
                      rollbacks>>

\* A failed audit insert, a locked database or a failing commit takes the rows
\* back, but not the events published until then, in order of scheduled_at.
TriggerRollsBack(now, tenants) ==
    /\ rollbacks < MaxRollbacks
    /\ rollbacks' = rollbacks + 1
    /\ \E told \in SUBSET DueRows(now, tenants) :
         /\ told # {}
         /\ \A r \in told, s \in DueRows(now, tenants) \ told : r.at <= s.at
         /\ announced' = announced \cup {Id(r) : r \in told}
    /\ UNCHANGED <<deadlineVars, queueVars, text>>

-----------------------------------------------------------------------------
(* The steps of one component that the other one does not take part in *)

\* _upsert_deadline_from_rule inserts a deadline, or moves it.
MovedByRule ==
    \E d \in Deadline, date \in Date : D!CreateDeadline(d, date) \/ D!UpdateDeadline(d, date)

\* apply_deadline_action, by a user or by resume_due_snoozes.
ActedOn ==
    \/ \E d \in Deadline : D!UserAction(d)
    \/ \E p \in Resumer :
         \/ \E now \in Instant : D!ListDueSnoozes(p, now)
         \/ \E d \in Deadline : D!ResumeListed(p, d)
         \/ D!ResumeFails(p)

DeadlineStep ==
    /\ MovedByRule \/ ActedOn
    /\ \A d \in Deadline : builds'[d] <= MaxBuilds[d]
    /\ UNCHANGED <<queueVars, messageVars>>

QueueStep ==
    /\ UNCHANGED <<deadlineVars, messageVars>>
    /\ \/ \E route \in Route : N!ConfigureRoute(route)
       \/ \E p \in Dispatcher :
            \/ \E t \in Tenant, channels \in SUBSET Channel : N!ListPending(p, t, channels)
            \/ N!Dispatch(p)
            \/ N!Crash(p)

-----------------------------------------------------------------------------
Next ==
    \/ \E now \in Instant, tenants \in {Tenant} \cup {{t} : t \in Tenant} :
         TriggerDueReminders(now, tenants) \/ TriggerRollsBack(now, tenants)
    \/ DeadlineStep
    \/ QueueStep

Spec == Init /\ [][Next]_vars

-----------------------------------------------------------------------------
(* Properties *)

TypeOK ==
    /\ D!TypeOK
    /\ N!TypeOK
    /\ text \in [N!Delivery -> Date \cup {NoDate}]
    /\ announced \subseteq RowId
    /\ rollbacks \in 0..MaxRollbacks

\* A message tells the due date its reminder was computed from: one for day
\* -7 names the day seven days after the time it was scheduled for, however
\* often the deadline was moved, closed and reopened before it was triggered.
TextFitsItsReminder ==
    \A x \in N!Delivery, r \in reminders :
        (delivery[x] # "none" /\ x[1] = Id(r)) => text[x] = r.at + r.day

\* A text that names another date than the deadline has now is that of a
\* message written before the reminders were last built: nothing that is
\* triggered after a move tells the old date.
StaleTextIsOfAnEarlierBuild ==
    \A x \in N!Delivery :
        (delivery[x] # "none" /\ text[x] # dueDate[x[1].deadline])
            => x[1].build < builds[x[1].deadline]

\* No message is written about a deadline that is completed or waived; what
\* is sent about one was waiting when it was closed.
NoMessageIsWrittenWhenClosed ==
    [][\A x \in N!Delivery :
         (delivery[x] = "none" /\ delivery'[x] # "none")
             => status[x[1].deadline] \notin D!Closed]_vars

\* Whoever listens for REMINDER_TRIGGERED hears of every reminder that is
\* triggered, and of others only where a transaction was rolled back.
EventsMatchTriggers ==
    /\ With("triggered") \subseteq announced
    /\ rollbacks = 0 => announced \subseteq With("triggered")

-----------------------------------------------------------------------------
(* Refinement *)

\* The queue gets from the deadlines what Notifications expects: a reminder
\* is triggered or cancelled once, and its deliveries are written with it.
ImplementsNotifications == N!Spec

=============================================================================

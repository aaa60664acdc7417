--------------------------- MODULE DeliveryProofs ---------------------------
(***************************************************************************)
(* Proofs about Delivery, the composition of Deadlines and Notifications,  *)
(* for all values of the constants of both.  Every step of the composition *)
(* is a step of Deadlines, so that what DeadlinesProofs shows of the       *)
(* deadlines holds here; with it, every step is one of Notifications, and  *)
(* what is written about a reminder is what the reminder was built for.    *)
(***************************************************************************)
EXTENDS Delivery, TLAPS

DP == INSTANCE DeadlinesProofs
NP == INSTANCE NotificationsProofs
         WITH Reminder <- RowId,
              TenantOf <- [id \in RowId |-> TenantOf[id.deadline]],
              reminder <- ReminderStatus

-----------------------------------------------------------------------------
(* The steps of Deadlines *)

\* What DeadlinesProofs assumes of the constants.
LEMMA DeadlineConstants == DP!DeadlinesAssumption
BY DeliveryAssumption DEF DP!DeadlinesAssumption, D!DeadlinesAssumption

\* The operations of D are those that DeadlinesProofs is about.
LEMMA SameUpserts ==
    ASSUME NEW d \in Deadline, NEW date \in Date
    PROVE  /\ D!CreateDeadline(d, date) => DP!CreateDeadline(d, date)
           /\ D!UpdateDeadline(d, date) => DP!UpdateDeadline(d, date)
BY Zenon DEF D!CreateDeadline, DP!CreateDeadline, D!UpdateDeadline, DP!UpdateDeadline,
   D!KeepsItsDate, DP!KeepsItsDate, D!Bounded, DP!Bounded, D!Audit, DP!Audit, D!NoRow,
   DP!NoRow, D!RebuildReminders, DP!RebuildReminders, D!Mark, DP!Mark, D!Batch, DP!Batch,
   D!ScheduledOf, DP!ScheduledOf, D!Closed, DP!Closed

\* The same for the actions on one deadline.
LEMMA SameApply ==
    ASSUME NEW d, NEW a, NEW u, NEW n, D!ApplyDeadlineAction(d, a, u, n)
    PROVE  DP!ApplyDeadlineAction(d, a, u, n)
BY Zenon DEF D!ApplyDeadlineAction, DP!ApplyDeadlineAction, D!Status, DP!Status, D!Moves,
   DP!Moves, D!SnoozedUntilAfter, DP!SnoozedUntilAfter, D!InsertTransition,
   DP!InsertTransition, D!Audit, DP!Audit, D!Rebuilding, DP!Rebuilding,
   D!RebuildReminders, DP!RebuildReminders, D!Mark, DP!Mark, D!Batch, DP!Batch,
   D!ScheduledOf, DP!ScheduledOf, D!Closed, DP!Closed

\* The same for users, resuming processes and triggers.
LEMMA SameSteps ==
    /\ \A d \in Deadline : D!UserAction(d) => DP!UserAction(d)
    /\ \A p \in Resumer, d \in Deadline : D!ResumeListed(p, d) => DP!ResumeListed(p, d)
    /\ \A p \in Resumer, now \in Instant : D!ListDueSnoozes(p, now) => DP!ListDueSnoozes(p, now)
    /\ \A p \in Resumer : D!ResumeFails(p) => DP!ResumeFails(p)
    /\ \A now \in Instant, ts \in SUBSET Tenant :
          D!TriggerDueReminders(now, ts) => DP!TriggerDueReminders(now, ts)
<1>1. ASSUME NEW d \in Deadline, D!UserAction(d) PROVE DP!UserAction(d)
  BY <1>1, SameApply DEF D!UserAction, DP!UserAction, D!Bounded, DP!Bounded
<1>2. ASSUME NEW p \in Resumer, NEW d \in Deadline, D!ResumeListed(p, d)
      PROVE  DP!ResumeListed(p, d)
  BY <1>2, SameApply DEF D!ResumeListed, DP!ResumeListed
<1>3. ASSUME NEW p \in Resumer, NEW now \in Instant, D!ListDueSnoozes(p, now)
      PROVE  DP!ListDueSnoozes(p, now)
  BY <1>3 DEF D!ListDueSnoozes, DP!ListDueSnoozes, D!rowVars, DP!rowVars
<1>4. ASSUME NEW p \in Resumer, D!ResumeFails(p) PROVE DP!ResumeFails(p)
  BY <1>4 DEF D!ResumeFails, DP!ResumeFails, D!rowVars, DP!rowVars
<1>5. ASSUME NEW now \in Instant, NEW ts \in SUBSET Tenant,
             D!TriggerDueReminders(now, ts)
      PROVE  DP!TriggerDueReminders(now, ts)
  BY <1>5, Zenon DEF D!TriggerDueReminders, DP!TriggerDueReminders, D!Mark, DP!Mark,
     D!rowVars, DP!rowVars
<1> QED BY <1>1, <1>2, <1>3, <1>4, <1>5

\* A step of the deadlines alone writes one row, or none.
LEMMA DeadlineCases ==
    ASSUME DeadlineStep
    PROVE  /\ DP!Next
           /\ \/ \E d \in Deadline, date \in Date :
                    DP!CreateDeadline(d, date) \/ DP!UpdateDeadline(d, date)
              \/ \E d \in Deadline, a \in DP!Action, u \in Instant \cup {NoDate},
                    n \in Date \cup {NoDate} :
                   DP!Inputs(a, u, n) /\ DP!ApplyDeadlineAction(d, a, u, n)
              \/ DP!TablesUnchanged
<1>1. ASSUME NEW d \in Deadline, NEW date \in Date,
             D!CreateDeadline(d, date) \/ D!UpdateDeadline(d, date)
      PROVE  DP!CreateDeadline(d, date) \/ DP!UpdateDeadline(d, date)
  BY <1>1, SameUpserts
<1>2. ASSUME NEW d \in Deadline,
             D!UserAction(d) \/ \E p \in Resumer : D!ResumeListed(p, d)
      PROVE  /\ DP!UserAction(d) \/ \E p \in Resumer : DP!ResumeListed(p, d)
             /\ \E a \in DP!Action, u \in Instant \cup {NoDate}, n \in Date \cup {NoDate} :
                  DP!Inputs(a, u, n) /\ DP!ApplyDeadlineAction(d, a, u, n)
  BY <1>2, SameSteps, DP!ActionCases, DeadlineConstants
<1>3. ASSUME NEW p \in Resumer,
             (\E now \in Instant : D!ListDueSnoozes(p, now)) \/ D!ResumeFails(p)
      PROVE  /\ (\E now \in Instant : DP!ListDueSnoozes(p, now)) \/ DP!ResumeFails(p)
             /\ DP!TablesUnchanged
  <2>1. (\E now \in Instant : DP!ListDueSnoozes(p, now)) \/ DP!ResumeFails(p)
    BY <1>3, SameSteps
  <2> QED BY <2>1 DEF DP!TablesUnchanged, DP!ListDueSnoozes, DP!ResumeFails
<1> QED BY <1>1, <1>2, <1>3 DEF DeadlineStep, MovedByRule, ActedOn, DP!Next

\* Every step of the composition is a step of the deadlines, or none.
LEMMA DeadlinesMove ==
    ASSUME [Next]_vars
    PROVE  [DP!Next]_DP!vars
<1>1. CASE DeadlineStep
  BY <1>1, DeadlineCases
<1>2. CASE QueueStep \/ UNCHANGED vars
  BY <1>2 DEF QueueStep, vars, deadlineVars, DP!vars, DP!rowVars
<1>3. ASSUME NEW now \in Instant, NEW tenants \in {Tenant} \cup {{t} : t \in Tenant},
             TriggerDueReminders(now, tenants)
      PROVE  DP!Next
  <2>1. tenants \in SUBSET Tenant /\ DP!TriggerDueReminders(now, tenants)
    BY <1>3, SameSteps DEF TriggerDueReminders
  <2>2. \/ DP!TriggerDueReminders(now, Tenant)
        \/ \E t \in Tenant : DP!TriggerDueReminders(now, {t})
    BY <2>1
  <2> QED BY <2>2 DEF DP!Next
<1>4. ASSUME NEW now, NEW tenants, TriggerRollsBack(now, tenants)
      PROVE  UNCHANGED DP!vars
  BY <1>4 DEF TriggerRollsBack, deadlineVars, DP!vars, DP!rowVars
<1> QED BY <1>1, <1>2, <1>3, <1>4 DEF Next

\* What DeadlinesProofs shows of every state of the deadlines.
DeadlineInv == DP!TypeOK /\ DP!ReminderInv /\ DP!KeyInv

\* The deadlines of the composition are those of Deadlines.
LEMMA DeadlinesAlways == Spec => []DeadlineInv
<1>1. Init => DP!Init /\ DP!ReminderInv
  BY DEF Init, D!Init, DP!Init, D!NoRow, DP!NoRow, DP!ReminderInv
<1>2. Spec => DP!Spec
  BY <1>1, DeadlinesMove, PTL DEF Spec, DP!Spec
<1>3. DP!Spec => []DP!TypeOK
  BY DP!TypeCorrect, DeadlineConstants
<1>4. DP!Spec => []DP!KeyInv
  BY DP!KeysTellRowsApart, DeadlineConstants
<1>5. DP!TypeOK /\ DP!ReminderInv /\ [Next]_vars => DP!ReminderInv'
  BY DeadlinesMove, DP!ReminderInvStep, DeadlineConstants
<1> QED BY <1>1, <1>2, <1>3, <1>4, <1>5, PTL DEF Spec, DeadlineInv

\* No deadline has more builds than the bound allows.
BuildsInBound == \A d \in Deadline : builds[d] <= MaxBuilds[d]

\* The bound holds of every state.
LEMMA BuildsBounded == Spec => []BuildsInBound
<1>1. Init => BuildsInBound
  BY DeliveryAssumption DEF Init, D!Init, BuildsInBound
<1>2. ASSUME BuildsInBound, [Next]_vars PROVE BuildsInBound'
  <2>1. CASE DeadlineStep
    BY <2>1 DEF DeadlineStep, BuildsInBound
  <2>2. CASE UNCHANGED builds
    BY <1>2, <2>2 DEF BuildsInBound
  <2> QED BY <1>2, <2>1, <2>2 DEF Next, QueueStep, TriggerDueReminders, D!TriggerDueReminders,
             TriggerRollsBack, vars, deadlineVars
<1> QED BY <1>1, <1>2, PTL DEF Spec

-----------------------------------------------------------------------------
(* The reminders as the queue sees them *)

\* A row of the table has an id.
LEMMA RowsHaveIds ==
    ASSUME DeadlineInv, BuildsInBound, NEW r \in reminders
    PROVE  Id(r) \in RowId
<1>1. /\ r.deadline \in Deadline /\ r.day \in Offset
      /\ r.build \in Nat /\ 1 <= r.build /\ r.build <= builds[r.deadline]
      /\ builds[r.deadline] \in Nat
  BY DEF DeadlineInv, DP!TypeOK, DP!Reminder, DP!KeyInv
<1>2. r.build \in 1..MaxBuilds[r.deadline]
  BY <1>1, DeliveryAssumption DEF BuildsInBound
<1>3. Id(r) \in [deadline: {r.deadline}, build: 1..MaxBuilds[r.deadline], day: Offset]
  BY <1>1, <1>2 DEF Id
<1> QED BY <1>1, <1>3 DEF RowId

\* A scheduled row shares its id with no settled one.
LEMMA ScheduledApart ==
    ASSUME DeadlineInv, NEW r \in reminders, r.status = "scheduled"
    PROVE  Id(r) \notin With("triggered") \cup With("cancelled")
<1>1. ASSUME NEW s \in reminders, Id(s) = Id(r) PROVE s = r
  <2>1. s.deadline = r.deadline /\ s.build = r.build /\ s.day = r.day
    BY <1>1 DEF Id
  <2> QED BY <2>1 DEF DeadlineInv, DP!KeyInv, DP!SameKey
<1> QED BY <1>1 DEF With

\* Marking scheduled rows, and adding scheduled ones, changes the statuses the
\* queue sees for the ids of the marked rows.
LEMMA MarkedAsSeen ==
    ASSUME DeadlineInv, NEW which \in SUBSET reminders,
           \A r \in which : r.status = "scheduled",
           NEW new \in {"triggered", "cancelled"},
           NEW fresh, \A r \in fresh : r.status = "scheduled",
           reminders' = DP!Mark(which, new) \cup fresh
    PROVE  /\ ReminderStatus' = [id \in RowId |-> IF id \in {Id(r) : r \in which}
                                                  THEN new ELSE ReminderStatus[id]]
           /\ With(new)' = With(new) \cup {Id(r) : r \in which}
           /\ \A st \in {"triggered", "cancelled"} : st # new => With(st)' = With(st)
<1> DEFINE ids == {Id(r) : r \in which}
<1>1. \A r \in reminders : [r EXCEPT !.status = new].status = new
                           /\ Id([r EXCEPT !.status = new]) = Id(r)
  BY DEF DeadlineInv, DP!TypeOK, DP!Reminder, Id
<1>2. \A r : r \in reminders' <=> \/ r \in reminders /\ r \notin which
                                  \/ \E x \in which : r = [x EXCEPT !.status = new]
                                  \/ r \in fresh
  BY DEF DP!Mark
<1>3. ASSUME NEW st \in {"triggered", "cancelled"}, NEW id
      PROVE  id \in With(st)' <=> id \in With(st) \/ (st = new /\ id \in ids)
  <2>1. ASSUME id \in With(st)' PROVE id \in With(st) \/ (st = new /\ id \in ids)
    <3>1. PICK r \in reminders' : r.status = st /\ id = Id(r)
      BY <2>1 DEF With, Id
    <3> QED BY <1>1, <1>2, <3>1 DEF With
  <2>2. ASSUME id \in With(st) PROVE id \in With(st)'
    <3>1. PICK r \in reminders : r.status = st /\ id = Id(r)
      BY <2>2 DEF With
    <3>2. r \in reminders'
      BY <1>2, <3>1
    <3> QED BY <3>1, <3>2 DEF With, Id
  <2>3. ASSUME st = new, id \in ids PROVE id \in With(st)'
    <3>1. PICK x \in which : id = Id(x)
      BY <2>3
    <3>2. [x EXCEPT !.status = new] \in reminders'
      BY <1>2
    <3> QED BY <1>1, <2>3, <3>1, <3>2 DEF With, Id
  <2> QED BY <2>1, <2>2, <2>3
<1>4. \A id \in ids : id \notin With("triggered") \cup With("cancelled")
  BY ScheduledApart
<1> HIDE DEF ids
<1>5. ReminderStatus' = [id \in RowId |-> IF id \in With("triggered")' THEN "triggered"
                                          ELSE IF id \in With("cancelled")' THEN "cancelled"
                                          ELSE "scheduled"]
  BY DEF ReminderStatus
<1>6. \A id \in RowId :
        (IF id \in With("triggered")' THEN "triggered"
         ELSE IF id \in With("cancelled")' THEN "cancelled" ELSE "scheduled")
        = IF id \in ids THEN new ELSE ReminderStatus[id]
  BY <1>3, <1>4 DEF ReminderStatus
<1>7. /\ With(new)' = With(new) \cup ids
      /\ \A st \in {"triggered", "cancelled"} : st # new => With(st)' = With(st)
  BY <1>3
<1> QED BY <1>5, <1>6, <1>7 DEF ids

\* The queue sees a reminder as triggered when a row with its id is.
LEMMA SeenTriggered ==
    ASSUME NEW id \in RowId
    PROVE  ReminderStatus[id] = "triggered" <=> id \in With("triggered")
BY DEF ReminderStatus

\* A step of the deadlines cancels reminders, as far as the queue can see.
LEMMA DeadlineStepSeen ==
    ASSUME DeadlineInv, BuildsInBound, DeadlineStep
    PROVE  /\ DP!Builds
           /\ With("triggered")' = With("triggered")
           /\ \E gone \in SUBSET N!Scheduled :
                ReminderStatus' = [id \in RowId |-> IF id \in gone THEN "cancelled"
                                                    ELSE ReminderStatus[id]]
<1>1. ASSUME UNCHANGED reminders
      PROVE  /\ With("triggered")' = With("triggered")
             /\ \E gone \in SUBSET N!Scheduled :
                  ReminderStatus' = [id \in RowId |-> IF id \in gone THEN "cancelled"
                                                      ELSE ReminderStatus[id]]
  <2>1. With("triggered")' = With("triggered")
    BY <1>1 DEF With, Id
  <2>2. ReminderStatus' = ReminderStatus
    BY <1>1 DEF ReminderStatus, With, Id
  <2>3. ReminderStatus' = [id \in RowId |-> IF id \in {} THEN "cancelled"
                                            ELSE ReminderStatus[id]]
    BY <2>2 DEF ReminderStatus
  <2>4. {} \in SUBSET N!Scheduled
    OBVIOUS
  <2> QED BY <2>1, <2>3, <2>4
<1>2. ASSUME DP!Builds, NEW d \in Deadline, NEW new \in SUBSET DP!Reminder,
             DP!Rebuilt(d, new)
      PROVE  /\ With("triggered")' = With("triggered")
             /\ \E gone \in SUBSET N!Scheduled :
                  ReminderStatus' = [id \in RowId |-> IF id \in gone THEN "cancelled"
                                                      ELSE ReminderStatus[id]]
  <2> DEFINE which == DP!ScheduledOf(d)
             gone == {Id(r) : r \in which}
  <2>1. which \in SUBSET reminders /\ \A r \in which : r.status = "scheduled"
    BY DEF DP!ScheduledOf
  <2>2. reminders' = DP!Mark(which, "cancelled") \cup new
        /\ \A r \in new : r.status = "scheduled"
    BY <1>2 DEF DP!Rebuilt
  <2> HIDE DEF which
  <2>3. /\ ReminderStatus' = [id \in RowId |-> IF id \in gone THEN "cancelled"
                                               ELSE ReminderStatus[id]]
        /\ With("triggered")' = With("triggered")
    BY <2>1, <2>2, MarkedAsSeen
  <2>4. gone \in SUBSET N!Scheduled
    <3>1. \A r \in which : /\ Id(r) \in RowId
                           /\ Id(r) \notin With("triggered") \cup With("cancelled")
      BY <2>1, RowsHaveIds, ScheduledApart
    <3> QED BY <3>1 DEF N!Scheduled, ReminderStatus
  <2> QED BY <2>3, <2>4
<1>3. DP!Builds
  <2>1. CASE DP!TablesUnchanged
    BY <2>1 DEF DP!TablesUnchanged, DP!rowVars, DP!Builds
  <2> QED BY <2>1, DeadlineCases, DP!StepBuilds, DeadlineConstants DEF DeadlineInv
<1> QED BY <1>1, <1>2, <1>3 DEF DP!Builds

\* A trigger is one for the queue too: of the ids of the rows that are due.
LEMMA TriggerSeen ==
    ASSUME DeadlineInv, BuildsInBound, NEW now \in Instant, NEW ts \in SUBSET Tenant,
           D!TriggerDueReminders(now, ts),
           NEW ids, ids = {Id(r) : r \in DueRows(now, ts)}
    PROVE  /\ ids \in (SUBSET N!Scheduled) \ {{}}
           /\ ReminderStatus' = [id \in RowId |-> IF id \in ids THEN "triggered"
                                                  ELSE ReminderStatus[id]]
           /\ With("triggered")' = With("triggered") \cup ids
           /\ UNCHANGED <<status, dueDate, builds>>
           /\ reminders' = DP!Mark(DueRows(now, ts), "triggered")
<1>1. /\ DueRows(now, ts) # {}
      /\ reminders' = DP!Mark(DueRows(now, ts), "triggered")
      /\ UNCHANGED <<status, dueDate, builds>>
  BY DEF D!TriggerDueReminders, D!Mark, DP!Mark, DueRows, D!rowVars
<1>2. DueRows(now, ts) \in SUBSET reminders
      /\ \A r \in DueRows(now, ts) : r.status = "scheduled"
  BY DEF DueRows
<1> DEFINE due == DueRows(now, ts)
           none == {r \in reminders : FALSE}
<1>3. /\ ReminderStatus' = [id \in RowId |-> IF id \in ids THEN "triggered"
                                             ELSE ReminderStatus[id]]
      /\ With("triggered")' = With("triggered") \cup ids
  <2>1. none = {}
    OBVIOUS
  <2> HIDE DEF due, none
  <2>2. reminders' = DP!Mark(due, "triggered") \cup none
    BY <1>1, <2>1 DEF due
  <2>3. due \in SUBSET reminders /\ \A r \in due : r.status = "scheduled"
    BY <1>2 DEF due
  <2>4. ids = {Id(r) : r \in due}
    BY DEF due
  <2>5. "triggered" \in {"triggered", "cancelled"} /\ \A r \in none : r.status = "scheduled"
    BY <2>1
  <2>6. /\ ReminderStatus' = [id \in RowId |-> IF id \in {Id(r) : r \in due}
                                               THEN "triggered" ELSE ReminderStatus[id]]
        /\ With("triggered")' = With("triggered") \cup {Id(r) : r \in due}
    BY <2>2, <2>3, <2>5, MarkedAsSeen
  <2> QED BY <2>4, <2>6
<1>4. ids \in SUBSET N!Scheduled
  <2>1. \A r \in DueRows(now, ts) :
           /\ Id(r) \in RowId
           /\ Id(r) \notin With("triggered") \cup With("cancelled")
    BY <1>2, RowsHaveIds, ScheduledApart
  <2> QED BY <2>1 DEF N!Scheduled, ReminderStatus
<1>5. ids # {}
  BY <1>1
<1> QED BY <1>1, <1>3, <1>4, <1>5

-----------------------------------------------------------------------------
(* The steps of Notifications *)

\* Every step of the composition is a step of the queue, or none.
LEMMA QueueMoves ==
    ASSUME DeadlineInv, BuildsInBound, [Next]_vars
    PROVE  [N!Next]_N!vars
<1>1. CASE DeadlineStep
  <2>1. UNCHANGED queueVars
    BY <1>1 DEF DeadlineStep
  <2>2. PICK gone \in SUBSET N!Scheduled :
          ReminderStatus' = [id \in RowId |-> IF id \in gone THEN "cancelled"
                                              ELSE ReminderStatus[id]]
    BY <1>1, DeadlineStepSeen
  <2>3. CASE gone = {}
    <3>1. ReminderStatus' = ReminderStatus
      BY <2>2, <2>3 DEF ReminderStatus
    <3> QED BY <2>1, <3>1 DEF N!vars, queueVars
  <2>4. CASE gone # {}
    <3>1. N!CancelReminders(gone)
      BY <2>1, <2>2 DEF N!CancelReminders, queueVars
    <3>2. gone \in (SUBSET N!Scheduled) \ {{}}
      BY <2>4
    <3> QED BY <3>1, <3>2 DEF N!Next
  <2> QED BY <2>3, <2>4
<1>2. CASE QueueStep
  <2>1. ReminderStatus' = ReminderStatus
    BY <1>2 DEF QueueStep, deadlineVars, ReminderStatus, With, Id
  <2> QED BY <1>2 DEF QueueStep, N!Next
<1>3. ASSUME NEW now \in Instant, NEW tenants \in SUBSET Tenant,
             TriggerDueReminders(now, tenants)
      PROVE  N!Next
  <2> DEFINE ids == {Id(r) : r \in DueRows(now, tenants)}
  <2>1. /\ D!TriggerDueReminders(now, tenants)
        /\ N!QueueDeliveries(ids)
        /\ UNCHANGED <<routes, accepted, kept, console, todo, inHand, outcome, crashes>>
    BY <1>3 DEF TriggerDueReminders
  <2> HIDE DEF ids
  <2>2. /\ ids \in (SUBSET N!Scheduled) \ {{}}
        /\ ReminderStatus' = [id \in RowId |-> IF id \in ids THEN "triggered"
                                               ELSE ReminderStatus[id]]
    BY <2>1, TriggerSeen DEF ids
  <2>3. N!TriggerDueReminders(ids)
    BY <2>1, <2>2 DEF N!TriggerDueReminders
  <2> QED BY <2>2, <2>3 DEF N!Next
<1>4. CASE UNCHANGED <<deadlineVars, queueVars>>
  <2>1. ReminderStatus' = ReminderStatus
    BY <1>4 DEF deadlineVars, ReminderStatus, With, Id
  <2> QED BY <1>4, <2>1 DEF N!vars, queueVars
<1>5. \A tenants \in {Tenant} \cup {{t} : t \in Tenant} : tenants \in SUBSET Tenant
  OBVIOUS
<1> QED BY <1>1, <1>2, <1>3, <1>4, <1>5 DEF Next, TriggerRollsBack, vars

\* The deadlines give the queue what Notifications expects: each reminder is
\* triggered or cancelled at most once, and its deliveries are written in the
\* transaction that triggers it.
THEOREM QueueIsServed == Spec => ImplementsNotifications
<1>1. Init => N!Init
  <2>1. ASSUME Init PROVE ReminderStatus = [id \in RowId |-> "scheduled"]
    BY <2>1 DEF Init, D!Init, ReminderStatus, With
  <2> QED BY <2>1 DEF Init, N!Init
<1> QED BY <1>1, QueueMoves, DeadlinesAlways, BuildsBounded, PTL
       DEF Spec, ImplementsNotifications, N!Spec

-----------------------------------------------------------------------------
(* The messages *)

\* What NotificationsProofs assumes of the constants.
LEMMA QueueConstants == NP!NotificationsAssumption
BY DeliveryAssumption DEF NP!NotificationsAssumption, N!NotificationsAssumption,
   N!IsFiniteSet, NP!IsFiniteSet

\* The steps of N are those that NotificationsProofs is about.
LEMMA SameQueueSteps == [N!Next]_N!vars => [NP!Next]_NP!vars
<1>1. N!Scheduled = NP!Scheduled
  BY DEF N!Scheduled, NP!Scheduled
<1>2. /\ \A route \in Route : N!ConfigureRoute(route) => NP!ConfigureRoute(route)
      /\ \A due : N!TriggerDueReminders(due) => NP!TriggerDueReminders(due)
      /\ \A gone : N!CancelReminders(gone) => NP!CancelReminders(gone)
  BY Zenon DEF N!ConfigureRoute, NP!ConfigureRoute, N!TriggerDueReminders,
     NP!TriggerDueReminders, N!QueueDeliveries, NP!QueueDeliveries, N!Delivery,
     NP!Delivery, N!CancelReminders, NP!CancelReminders
<1>3. /\ \A p \in Dispatcher, t \in Tenant, channels \in SUBSET Channel :
           N!ListPending(p, t, channels) => NP!ListPending(p, t, channels)
      /\ \A p \in Dispatcher : N!Crash(p) => NP!Crash(p)
      /\ \A p \in Dispatcher : N!Dispatch(p) => NP!Dispatch(p)
  BY Zenon DEF N!ListPending, NP!ListPending, N!Idle, NP!Idle, N!PendingOf, NP!PendingOf,
     N!Delivery, NP!Delivery, N!Crash, NP!Crash, N!Dispatch, NP!Dispatch, N!Mark, NP!Mark,
     N!MayMark, NP!MayMark, N!Rest, NP!Rest, N!Send, NP!Send, N!IsNext, NP!IsNext,
     N!ConsoleSend, NP!ConsoleSend, N!ProviderSend, NP!ProviderSend
<1>4. ASSUME N!Next PROVE NP!Next
  <2>1. CASE \E route \in Route : N!ConfigureRoute(route)
    BY <1>2, <2>1 DEF NP!Next
  <2>2. CASE \E due \in (SUBSET N!Scheduled) \ {{}} : N!TriggerDueReminders(due)
    BY <1>1, <1>2, <2>2 DEF NP!Next
  <2>3. CASE \E gone \in (SUBSET N!Scheduled) \ {{}} : N!CancelReminders(gone)
    BY <1>1, <1>2, <2>3 DEF NP!Next
  <2>4. CASE \E p \in Dispatcher : \/ \E t \in Tenant, channels \in SUBSET Channel :
                                         N!ListPending(p, t, channels)
                                   \/ N!Dispatch(p)
                                   \/ N!Crash(p)
    BY <1>3, <2>4 DEF NP!Next
  <2> QED BY <1>4, <2>1, <2>2, <2>3, <2>4 DEF N!Next
<1>5. UNCHANGED N!vars => UNCHANGED NP!vars
  BY DEF N!vars, NP!vars
<1> QED BY <1>4, <1>5

QueueInv == NP!TypeOK /\ NP!RecordInv

\* The composition is a queue as NotificationsProofs knows it.
LEMMA QueueSpec == Spec => NP!Spec
<1>1. N!Init => NP!Init
  BY DEF N!Init, NP!Init, N!Delivery, NP!Delivery
<1> QED BY <1>1, SameQueueSteps, QueueIsServed, PTL
        DEF ImplementsNotifications, N!Spec, NP!Spec

\* What NotificationsProofs shows of every state of the queue.
LEMMA QueueAlways == Spec => []QueueInv
<1>1. NP!Spec => []NP!TypeOK
  BY NP!TypeCorrect, QueueConstants
<1>2. NP!Spec => []NP!RecordInv
  BY NP!RecordAlways, QueueConstants
<1> QED BY <1>1, <1>2, QueueSpec, PTL DEF QueueInv

\* The invariants of both components.
Inv == DeadlineInv /\ BuildsInBound /\ QueueInv

\* They hold of every state of the composition.
LEMMA InvAlways == Spec => []Inv
BY DeadlinesAlways, BuildsBounded, QueueAlways, PTL DEF Inv

\* A message is about a row that was triggered.
LEMMA MessagesHaveRows ==
    ASSUME Inv, NEW x \in N!Delivery, delivery[x] # "none"
    PROVE  /\ x[1] \in RowId
           /\ x[1] \in With("triggered")
           /\ \E r \in reminders : Id(r) = x[1] /\ r.status = "triggered"
<1>1. x[1] \in RowId
  BY DEF N!Delivery
<1>2. ReminderStatus[x[1]] = "triggered"
  BY DEF Inv, QueueInv, NP!RecordInv, NP!Delivery, N!Delivery
<1> QED BY <1>1, <1>2, SeenTriggered DEF With

\* A step of the queue writes no message.
LEMMA QueueWritesNone ==
    ASSUME Inv, QueueStep, NEW x \in N!Delivery, delivery'[x] # "none"
    PROVE  delivery[x] # "none"
<1>1. ASSUME NEW p \in Dispatcher, N!Mark(p) PROVE delivery[x] # "none"
  <2>1. inHand[p] # None /\ inHand[p] \in todo[p]
    BY <1>1 DEF N!Mark, N!MayMark, Inv, QueueInv, NP!TypeOK
  <2>2. delivery[inHand[p]] # "none"
    BY <2>1 DEF Inv, QueueInv, NP!RecordInv
  <2> QED BY <1>1, <2>2 DEF N!Mark, N!Delivery, NP!Delivery, Inv, QueueInv, NP!TypeOK
<1>2. UNCHANGED delivery \/ \E p \in Dispatcher : N!Mark(p)
  BY DEF QueueStep, N!ConfigureRoute, N!ListPending, N!Dispatch, N!Send, N!Crash
<1> QED BY <1>1, <1>2

\* What a trigger writes, and about which row.
LEMMA TriggerWrites ==
    ASSUME Inv, NEW now \in Instant, NEW tenants \in SUBSET Tenant,
           TriggerDueReminders(now, tenants), NEW x \in N!Delivery,
           delivery'[x] # "none"
    PROVE  \/ /\ delivery[x] = delivery'[x]
              /\ text'[x] = text[x]
           \/ \E r \in reminders : /\ Id(r) = x[1]
                                   /\ r.status = "scheduled"
                                   /\ text'[x] = dueDate[r.deadline]
<1> DEFINE ids == {Id(r) : r \in DueRows(now, tenants)}
<1>1. /\ delivery' = [y \in N!Delivery |->
                       IF /\ y[1] \in ids
                          /\ y[2] \in routes
                          /\ RouteTenant[y[2]] = [id \in RowId |-> TenantOf[id.deadline]][y[1]]
                       THEN "pending" ELSE delivery[y]]
      /\ text' = [y \in N!Delivery |-> IF delivery[y] # delivery'[y]
                                       THEN dueDate[y[1].deadline] ELSE text[y]]
  BY DEF TriggerDueReminders, N!QueueDeliveries, WriteText
<1>2. CASE delivery[x] = delivery'[x]
  BY <1>1, <1>2
<1>3. CASE delivery[x] # delivery'[x]
  <2>1. x[1] \in ids /\ text'[x] = dueDate[x[1].deadline]
    BY <1>1, <1>3
  <2>2. PICK r \in DueRows(now, tenants) : x[1] = Id(r)
    BY <2>1
  <2>3. x[1].deadline = r.deadline
    BY <2>2 DEF Id
  <2> QED BY <2>1, <2>2, <2>3 DEF DueRows
<1> QED BY <1>2, <1>3

\* The steps of the composition, by what they do to rows and messages.
LEMMA StepKinds ==
    ASSUME Inv, [Next]_vars
    PROVE  \/ DeadlineStep /\ UNCHANGED <<delivery, text, announced, rollbacks>>
           \/ QueueStep /\ UNCHANGED <<deadlineVars, text, announced, rollbacks>>
           \/ \E now \in Instant, tenants \in SUBSET Tenant :
                TriggerDueReminders(now, tenants)
           \/ \E now \in Instant, tenants \in SUBSET Tenant :
                TriggerRollsBack(now, tenants)
           \/ UNCHANGED <<deadlineVars, queueVars, text, announced, rollbacks>>
<1>1. \A tenants \in {Tenant} \cup {{t} : t \in Tenant} : tenants \in SUBSET Tenant
  OBVIOUS
<1> QED BY <1>1 DEF Next, DeadlineStep, QueueStep, vars, queueVars, messageVars

\* A trigger, in terms of the rows and of the builds.
LEMMA TriggerEffect ==
    ASSUME Inv, NEW now \in Instant, NEW tenants \in SUBSET Tenant,
           TriggerDueReminders(now, tenants)
    PROVE  /\ UNCHANGED <<status, dueDate, builds>>
           /\ DueRows(now, tenants) \in SUBSET reminders
           /\ reminders' = DP!Mark(DueRows(now, tenants), "triggered")
           /\ With("triggered")' = With("triggered") \cup {Id(r) : r \in DueRows(now, tenants)}
           /\ announced' = announced \cup {Id(r) : r \in DueRows(now, tenants)}
           /\ rollbacks' = rollbacks
<1>1. DueRows(now, tenants) \in SUBSET reminders
  BY DEF DueRows
<1>2. /\ D!TriggerDueReminders(now, tenants)
      /\ announced' = announced \cup {Id(r) : r \in DueRows(now, tenants)}
      /\ rollbacks' = rollbacks
  BY DEF TriggerDueReminders
<1> QED BY <1>1, <1>2, TriggerSeen DEF Inv

\* A row after a step of the deadlines is an old one, as far as its id and its
\* time go, or it is of a build to come.
LEMMA RowsOfDeadlineStep ==
    ASSUME Inv, DeadlineStep, NEW r \in reminders'
    PROVE  \/ \E x \in reminders : Id(x) = Id(r) /\ x.at = r.at /\ x.day = r.day
           \/ r.deadline \in Deadline /\ r.build > builds[r.deadline]
<1>1. DP!Builds
  BY DeadlineStepSeen DEF Inv
<1>2. CASE r \in reminders
  BY <1>2
<1>3. ASSUME NEW d \in Deadline, NEW new \in SUBSET DP!Reminder, DP!Rebuilt(d, new)
      PROVE  \/ \E x \in reminders : Id(x) = Id(r) /\ x.at = r.at /\ x.day = r.day
             \/ r.deadline \in Deadline /\ r.build > builds[r.deadline]
  <2>1. CASE r \in new
    <3>1. r.deadline = d /\ r.build = builds[d] + 1 /\ builds[d] \in Nat
      BY <1>3, <2>1 DEF DP!Rebuilt, Inv, DeadlineInv, DP!TypeOK
    <3> QED BY <3>1
  <2>2. CASE r \in DP!Mark(DP!ScheduledOf(d), "cancelled")
    <3>1. DP!ScheduledOf(d) \in SUBSET reminders /\ reminders \subseteq DP!Reminder
      BY DEF DP!ScheduledOf, Inv, DeadlineInv, DP!TypeOK
    <3>2. "cancelled" \in DP!ReminderStatus
      BY DEF DP!ReminderStatus
    <3>3. PICK x \in reminders : DP!ComesFrom(r, x, DP!ScheduledOf(d), "cancelled")
      BY <2>2, <3>1, <3>2, DP!MarkMembers, DeadlineConstants
    <3> QED BY <3>3 DEF DP!ComesFrom, Id
  <2> QED BY <1>3, <2>1, <2>2 DEF DP!Rebuilt
<1> QED BY <1>1, <1>2, <1>3 DEF DP!Builds

\* A row after a trigger is an old one but for its status.
LEMMA RowsOfTrigger ==
    ASSUME Inv, NEW now \in Instant, NEW tenants \in SUBSET Tenant,
           TriggerDueReminders(now, tenants), NEW r \in reminders'
    PROVE  \E x \in reminders : Id(x) = Id(r) /\ x.at = r.at /\ x.day = r.day
<1>1. DueRows(now, tenants) \in SUBSET reminders /\ reminders \subseteq DP!Reminder
  BY TriggerEffect DEF Inv, DeadlineInv, DP!TypeOK
<1>2. "triggered" \in DP!ReminderStatus /\ r \in DP!Mark(DueRows(now, tenants), "triggered")
  BY TriggerEffect DEF DP!ReminderStatus
<1>3. PICK x \in reminders : DP!ComesFrom(r, x, DueRows(now, tenants), "triggered")
  BY <1>1, <1>2, DP!MarkMembers, DeadlineConstants
<1> QED BY <1>3 DEF DP!ComesFrom, Id

\* A row with the id of a scheduled one is that row, and was placed before the
\* due date the deadline has now.
LEMMA ScheduledRow ==
    ASSUME Inv, NEW r \in reminders, r.status = "scheduled",
           NEW s \in reminders, Id(s) = Id(r)
    PROVE  /\ s = r
           /\ dueDate[r.deadline] = r.at + r.day
           /\ status[r.deadline] \notin DP!Closed
<1>1. s = r
  BY DEF Id, Inv, DeadlineInv, DP!KeyInv, DP!SameKey
<1>2. /\ r.at = dueDate[r.deadline] - r.day
      /\ status[r.deadline] \notin DP!Closed /\ status[r.deadline] # DP!NoRow
      /\ r.deadline \in Deadline /\ r.day \in Offset
  BY DEF Inv, DeadlineInv, DP!ReminderInv, DP!RowOfReminder, DP!TypeOK, DP!Reminder
<1>3. dueDate[r.deadline] \in Date
  BY <1>2 DEF Inv, DeadlineInv, DP!TypeOK
<1>4. dueDate[r.deadline] \in Int /\ r.day \in Int
  BY <1>2, <1>3, DeadlineConstants DEF DP!DeadlinesAssumption
<1> QED BY <1>1, <1>2, <1>4

\* Every step keeps the texts of the messages true to their reminders.
LEMMA TextStep ==
    ASSUME Inv, TextFitsItsReminder, [Next]_vars
    PROVE  TextFitsItsReminder'
<1> SUFFICES ASSUME NEW x \in N!Delivery, NEW r \in reminders',
                    delivery'[x] # "none", x[1] = Id(r)
             PROVE  text'[x] = r.at + r.day
  BY DEF TextFitsItsReminder, N!Delivery, Id
<1>1. CASE DeadlineStep /\ UNCHANGED <<delivery, text, announced, rollbacks>>
  <2>1. delivery[x] # "none"
    BY <1>1
  <2>2. PICK s \in reminders : Id(s) = x[1]
    BY <2>1, MessagesHaveRows
  <2>3. s.deadline = r.deadline /\ s.build = r.build /\ s.build <= builds[r.deadline]
    BY <2>2 DEF Id, Inv, DeadlineInv, DP!KeyInv
  <2>4. ~(r.deadline \in Deadline /\ r.build > builds[r.deadline])
    BY <2>3 DEF Inv, DeadlineInv, DP!TypeOK, DP!Reminder
  <2>5. PICK y \in reminders : Id(y) = Id(r) /\ y.at = r.at /\ y.day = r.day
    BY <1>1, <2>4, RowsOfDeadlineStep
  <2>6. text[x] = y.at + y.day
    BY <2>1, <2>5 DEF TextFitsItsReminder
  <2> QED BY <1>1, <2>5, <2>6
<1>2. CASE QueueStep /\ UNCHANGED <<deadlineVars, text, announced, rollbacks>>
  BY <1>2, QueueWritesNone DEF TextFitsItsReminder, deadlineVars
<1>3. ASSUME NEW now \in Instant, NEW tenants \in SUBSET Tenant,
             TriggerDueReminders(now, tenants)
      PROVE  text'[x] = r.at + r.day
  <2>1. PICK y \in reminders : Id(y) = Id(r) /\ y.at = r.at /\ y.day = r.day
    BY <1>3, RowsOfTrigger
  <2>2. CASE delivery[x] = delivery'[x] /\ text'[x] = text[x]
    BY <2>1, <2>2 DEF TextFitsItsReminder
  <2>3. ASSUME NEW s \in reminders, Id(s) = x[1], s.status = "scheduled",
               text'[x] = dueDate[s.deadline]
        PROVE  text'[x] = r.at + r.day
    BY <2>1, <2>3, ScheduledRow
  <2> QED BY <1>3, <2>2, <2>3, TriggerWrites
<1>4. ASSUME UNCHANGED <<deadlineVars, queueVars, text>>
      PROVE  text'[x] = r.at + r.day
  BY <1>4 DEF TextFitsItsReminder, deadlineVars, queueVars
<1> QED BY <1>1, <1>2, <1>3, <1>4, StepKinds DEF TriggerRollsBack

\* A message tells the due date that its reminder was computed from, after
\* any number of moves, closings and reopenings.
THEOREM TextFits == Spec => []TextFitsItsReminder
<1>1. Init => TextFitsItsReminder
  BY DEF Init, D!Init, TextFitsItsReminder
<1> QED BY <1>1, TextStep, InvAlways, PTL DEF Spec

\* A message on record is of a build that has been made.
LEMMA MessageBuild ==
    ASSUME Inv, NEW x \in N!Delivery, delivery[x] # "none"
    PROVE  /\ x[1].deadline \in Deadline
           /\ x[1].build \in Nat /\ builds[x[1].deadline] \in Nat
           /\ x[1].build <= builds[x[1].deadline]
<1>1. PICK r \in reminders : Id(r) = x[1]
  BY MessagesHaveRows
<1> QED BY <1>1 DEF Id, Inv, DeadlineInv, DP!KeyInv, DP!TypeOK, DP!Reminder

\* A step of the deadlines builds anew, or leaves builds and due dates alone.
LEMMA BuildsGrow ==
    ASSUME Inv, DeadlineStep, NEW d \in Deadline
    PROVE  \/ builds'[d] = builds[d] /\ dueDate'[d] = dueDate[d]
           \/ builds'[d] = builds[d] + 1
<1>1. DP!Builds
  BY DeadlineStepSeen DEF Inv
<1>2. builds \in [Deadline -> Nat]
  BY DEF Inv, DeadlineInv, DP!TypeOK
<1>3. builds'[d] = builds[d] \/ builds'[d] = builds[d] + 1
  BY <1>1, <1>2 DEF DP!Builds, DP!Rebuilt
<1>4. builds[d] # builds[d] + 1
  BY <1>2
<1> QED BY <1>1, <1>3, <1>4 DEF DP!Builds

\* Every step keeps stale texts to earlier builds.
LEMMA StaleStep ==
    ASSUME Inv, StaleTextIsOfAnEarlierBuild, [Next]_vars
    PROVE  StaleTextIsOfAnEarlierBuild'
<1> SUFFICES ASSUME NEW x \in N!Delivery, delivery'[x] # "none",
                    text'[x] # dueDate'[x[1].deadline]
             PROVE  x[1].build < builds'[x[1].deadline]
  BY DEF StaleTextIsOfAnEarlierBuild, N!Delivery
<1>1. CASE DeadlineStep /\ UNCHANGED <<delivery, text, announced, rollbacks>>
  <2>1. delivery[x] # "none" /\ text[x] = text'[x]
    BY <1>1
  <2>2. /\ x[1].deadline \in Deadline
        /\ x[1].build \in Nat /\ builds[x[1].deadline] \in Nat
        /\ x[1].build <= builds[x[1].deadline]
    BY <2>1, MessageBuild
  <2>3. CASE builds'[x[1].deadline] = builds[x[1].deadline] + 1
    BY <2>2, <2>3
  <2>4. CASE /\ builds'[x[1].deadline] = builds[x[1].deadline]
             /\ dueDate'[x[1].deadline] = dueDate[x[1].deadline]
    BY <2>1, <2>4 DEF StaleTextIsOfAnEarlierBuild
  <2> QED BY <1>1, <2>2, <2>3, <2>4, BuildsGrow
<1>2. CASE QueueStep /\ UNCHANGED <<deadlineVars, text, announced, rollbacks>>
  BY <1>2, QueueWritesNone DEF StaleTextIsOfAnEarlierBuild, deadlineVars
<1>3. ASSUME NEW now \in Instant, NEW tenants \in SUBSET Tenant,
             TriggerDueReminders(now, tenants)
      PROVE  x[1].build < builds'[x[1].deadline]
  <2>1. UNCHANGED <<dueDate, builds>>
    BY <1>3, TriggerEffect
  <2>2. ASSUME NEW r \in reminders, Id(r) = x[1], text'[x] = dueDate[r.deadline]
        PROVE  FALSE
    <3>1. x[1].deadline = r.deadline
      BY <2>2 DEF Id
    <3> QED BY <2>1, <2>2, <3>1
  <2>3. delivery[x] = delivery'[x] /\ text'[x] = text[x]
    BY <1>3, <2>2, TriggerWrites
  <2> QED BY <2>1, <2>3 DEF StaleTextIsOfAnEarlierBuild
<1>4. ASSUME UNCHANGED <<deadlineVars, queueVars, text>>
      PROVE  x[1].build < builds'[x[1].deadline]
  BY <1>4 DEF StaleTextIsOfAnEarlierBuild, deadlineVars, queueVars
<1> QED BY <1>1, <1>2, <1>3, <1>4, StepKinds DEF TriggerRollsBack

\* Only a message written before the reminders were last built tells another
\* date than the deadline has now.
THEOREM StaleTextsAreOld == Spec => []StaleTextIsOfAnEarlierBuild
<1>1. Init => StaleTextIsOfAnEarlierBuild
  BY DEF Init, StaleTextIsOfAnEarlierBuild
<1> QED BY <1>1, StaleStep, InvAlways, PTL DEF Spec

\* A message is written only while its deadline is open, since the scheduled
\* reminders of a closed one were cancelled in the transaction that closed it.
THEOREM ClosedGetNoMessage == Spec => NoMessageIsWrittenWhenClosed
<1>1. ASSUME Inv, [Next]_vars, NEW x \in N!Delivery,
             delivery[x] = "none", delivery'[x] # "none"
      PROVE  status[x[1].deadline] \notin D!Closed
  <2>1. ASSUME NEW now \in Instant, NEW tenants \in SUBSET Tenant,
               TriggerDueReminders(now, tenants)
        PROVE  status[x[1].deadline] \notin D!Closed
    <3>1. PICK r \in reminders : Id(r) = x[1] /\ r.status = "scheduled"
      BY <1>1, <2>1, TriggerWrites
    <3>2. status[r.deadline] \notin DP!Closed /\ r.deadline = x[1].deadline
      BY <1>1, <3>1, ScheduledRow DEF Id
    <3> QED BY <3>2 DEF D!Closed, DP!Closed
  <2> QED BY <1>1, <2>1, StepKinds, QueueWritesNone DEF TriggerRollsBack, queueVars
<1>2. Inv /\ [Next]_vars =>
        [\A x \in N!Delivery : (delivery[x] = "none" /\ delivery'[x] # "none")
                                 => status[x[1].deadline] \notin D!Closed]_vars
  BY <1>1
<1> QED BY <1>2, InvAlways, PTL DEF Spec, NoMessageIsWrittenWhenClosed

-----------------------------------------------------------------------------
(* The events *)

EventInv == EventsMatchTriggers /\ rollbacks \in Nat

\* Every step keeps events and triggers together.
LEMMA EventStep ==
    ASSUME Inv, EventInv, [Next]_vars
    PROVE  EventInv'
<1> USE DEF EventInv
<1>1. CASE DeadlineStep /\ UNCHANGED <<delivery, text, announced, rollbacks>>
  <2>1. With("triggered")' = With("triggered")
    BY <1>1, DeadlineStepSeen DEF Inv
  <2> QED BY <1>1, <2>1 DEF EventsMatchTriggers
<1>2. CASE UNCHANGED <<deadlineVars, announced, rollbacks>>
  <2>1. With("triggered")' = With("triggered")
    BY <1>2 DEF With, Id, deadlineVars
  <2> QED BY <1>2, <2>1 DEF EventsMatchTriggers
<1>3. ASSUME NEW now \in Instant, NEW tenants \in SUBSET Tenant,
             TriggerDueReminders(now, tenants)
      PROVE  EventInv'
  BY <1>3, TriggerEffect DEF EventsMatchTriggers
<1>4. ASSUME NEW now \in Instant, NEW tenants \in SUBSET Tenant,
             TriggerRollsBack(now, tenants)
      PROVE  EventInv'
  <2>1. /\ UNCHANGED deadlineVars
        /\ rollbacks' = rollbacks + 1
        /\ announced \subseteq announced'
    BY <1>4 DEF TriggerRollsBack
  <2>2. With("triggered")' = With("triggered")
    BY <2>1 DEF With, Id, deadlineVars
  <2> QED BY <2>1, <2>2 DEF EventsMatchTriggers
<1> QED BY <1>1, <1>2, <1>3, <1>4, StepKinds

\* A listener hears of every reminder that is triggered, and of others only
\* where a transaction was rolled back.
THEOREM ListenersHearOfTriggers == Spec => []EventsMatchTriggers
<1>1. Init => EventInv
  BY DEF Init, D!Init, EventInv, EventsMatchTriggers, With
<1>2. EventInv => EventsMatchTriggers
  BY DEF EventInv
<1> QED BY <1>1, <1>2, EventStep, InvAlways, PTL DEF Spec

-----------------------------------------------------------------------------
(* Types *)

\* The variables that the composition adds to those of the components.
MessageTypes ==
    /\ text \in [N!Delivery -> Date \cup {NoDate}]
    /\ announced \subseteq RowId
    /\ rollbacks \in 0..MaxRollbacks

\* The rows that a trigger finds have ids.
LEMMA DueHaveIds ==
    ASSUME Inv, NEW now, NEW tenants
    PROVE  {Id(r) : r \in DueRows(now, tenants)} \subseteq RowId
<1>1. DueRows(now, tenants) \in SUBSET reminders
  BY DEF DueRows
<1> QED BY <1>1, RowsHaveIds DEF Inv

\* A text is the date of a row, and events are about rows.
LEMMA MessageTypesStep ==
    ASSUME Inv, MessageTypes, [Next]_vars
    PROVE  MessageTypes'
<1> USE DEF MessageTypes
<1>1. CASE UNCHANGED <<text, announced, rollbacks>>
  BY <1>1 DEF N!Delivery
<1>2. ASSUME NEW now \in Instant, NEW tenants \in SUBSET Tenant,
             TriggerDueReminders(now, tenants)
      PROVE  MessageTypes'
  <2>1. ASSUME NEW x \in N!Delivery PROVE dueDate[x[1].deadline] \in Date \cup {NoDate}
    <3>1. x[1].deadline \in Deadline
      BY DEF N!Delivery, RowId
    <3> QED BY <3>1 DEF Inv, DeadlineInv, DP!TypeOK
  <2>2. PICK queued : WriteText(queued)
    BY <1>2 DEF TriggerDueReminders
  <2>3. text' \in [N!Delivery -> Date \cup {NoDate}]
    BY <2>1, <2>2 DEF WriteText
  <2> QED BY <1>2, <2>3, DueHaveIds, TriggerEffect DEF N!Delivery
<1>3. ASSUME NEW now \in Instant, NEW tenants \in SUBSET Tenant,
             TriggerRollsBack(now, tenants)
      PROVE  MessageTypes'
  <2>1. PICK told \in SUBSET DueRows(now, tenants) :
          announced' = announced \cup {Id(r) : r \in told}
    BY <1>3 DEF TriggerRollsBack
  <2>2. announced' \subseteq RowId
    BY <2>1, DueHaveIds
  <2>3. rollbacks' \in 0..MaxRollbacks /\ text' = text
    BY <1>3, DeliveryAssumption DEF TriggerRollsBack
  <2> QED BY <2>2, <2>3 DEF N!Delivery
<1> QED BY <1>1, <1>2, <1>3, StepKinds

\* The variables of the composition keep their types; those of the components
\* keep them because it implements both.
THEOREM DeliveryTypeCorrect == Spec => []TypeOK
<1>1. Init => MessageTypes
  BY DeliveryAssumption DEF Init, MessageTypes
<1>2. Inv => D!TypeOK
  BY Zenon DEF Inv, DeadlineInv, D!TypeOK, DP!TypeOK, D!Status, DP!Status, D!NoRow,
     DP!NoRow, D!Reminder, DP!Reminder, D!ReminderStatus, DP!ReminderStatus, D!Moves,
     DP!Moves, D!AuditRecord, DP!AuditRecord
<1>3. Inv => N!TypeOK
  BY Zenon DEF Inv, QueueInv, N!TypeOK, NP!TypeOK, N!Delivery, NP!Delivery, N!Outcome,
     NP!Outcome
<1>4. Inv /\ MessageTypes => TypeOK
  BY <1>2, <1>3 DEF MessageTypes, TypeOK
<1> QED BY <1>1, <1>4, MessageTypesStep, InvAlways, PTL DEF Spec

-----------------------------------------------------------------------------
(* From end to end *)

\* What a mail server or webhook took is about a reminder that was triggered,
\* tells the date that reminder was computed from, and went through a route of
\* the tenant whose deadline it is: across all tables, for any number of
\* moves, dispatchers, crashes and rollbacks.
THEOREM WhatGoesOut ==
    Spec => [](\A x \in N!Delivery : accepted[x] > 0 =>
                 /\ RouteTenant[x[2]] = TenantOf[x[1].deadline]
                 /\ \E r \in reminders : /\ Id(r) = x[1]
                                         /\ r.status = "triggered"
                                         /\ text[x] = r.at + r.day)
<1> DEFINE Good == \A x \in N!Delivery : accepted[x] > 0 =>
                     /\ RouteTenant[x[2]] = TenantOf[x[1].deadline]
                     /\ \E r \in reminders : /\ Id(r) = x[1]
                                             /\ r.status = "triggered"
                                             /\ text[x] = r.at + r.day
<1>1. ASSUME Inv, TextFitsItsReminder PROVE Good
  <2> SUFFICES ASSUME NEW x \in N!Delivery, accepted[x] > 0
               PROVE  /\ RouteTenant[x[2]] = TenantOf[x[1].deadline]
                      /\ \E r \in reminders : /\ Id(r) = x[1]
                                              /\ r.status = "triggered"
                                              /\ text[x] = r.at + r.day
    OBVIOUS
  <2>1. delivery[x] # "none"
    BY <1>1 DEF Inv, QueueInv, NP!RecordInv, NP!HandedOver, NP!TypeOK, NP!Delivery,
       N!Delivery
  <2>2. PICK r \in reminders : Id(r) = x[1] /\ r.status = "triggered"
    BY <1>1, <2>1, MessagesHaveRows
  <2>3. text[x] = r.at + r.day
    BY <1>1, <2>1, <2>2 DEF TextFitsItsReminder
  <2>4. x[1] \in RowId
    BY DEF N!Delivery
  <2>5. RouteTenant[x[2]] = [id \in RowId |-> TenantOf[id.deadline]][x[1]]
    BY <1>1, <2>1 DEF Inv, QueueInv, NP!RecordInv, NP!Delivery, N!Delivery
  <2> QED BY <2>2, <2>3, <2>4, <2>5
<1>2. Spec => []Good
  <2> HIDE DEF Good
  <2> QED BY <1>1, TextFits, InvAlways, PTL
<1> QED BY <1>2

\* Where one dispatcher serves the queue, its notifiers get a message at most
\* once, and once more for each time it died between sending and marking; and
\* what is marked sent stays so, whatever happens to its deadline.
THEOREM OneDispatcherSendsOnce ==
    ASSUME \A p, q \in Dispatcher : p = q
    PROVE  Spec => /\ [](\A x \in N!Delivery : accepted[x] + kept[x] <= 1 + crashes)
                   /\ N!SentIsFinal
<1> DEFINE Once == \A x \in N!Delivery : accepted[x] + kept[x] <= 1 + crashes
<1>1. NP!Spec => []NP!SentOnce
  BY NP!OneSendsOnce, QueueConstants
<1>2. NP!Spec => NP!SentIsFinal
  BY NP!SentStaysSent, QueueConstants
<1>3. NP!SentOnce => Once
  BY DEF NP!SentOnce, NP!HandedOver, NP!Delivery, N!Delivery
<1>4. NP!SentIsFinal => N!SentIsFinal
  BY DEF NP!SentIsFinal, N!SentIsFinal, NP!Delivery, N!Delivery, NP!vars, N!vars
<1>5. Spec => []Once
  <2> HIDE DEF Once
  <2> QED BY <1>1, <1>3, QueueSpec, PTL
<1> QED BY <1>2, <1>4, <1>5, QueueSpec

=============================================================================

-------------------------- MODULE DeadlinesProofs --------------------------
(***************************************************************************)
(* Proofs about Deadlines, for every set of deadlines, tenants, dates,     *)
(* offsets and resuming processes.  StepCases reduces Next to four kinds   *)
(* of step, so that each invariant is proved once for every action of      *)
(* apply_deadline_action, whoever calls it.                                *)
(***************************************************************************)
EXTENDS Deadlines, FiniteSetTheorems, TLAPS

\* The arguments apply_deadline_action is called with: a snooze has its
\* `until`, an override its `new_date`.
Inputs(action, until, newDate) ==
    /\ action \in Action
    /\ until \in Instant \cup {NoDate}
    /\ newDate \in Date \cup {NoDate}
    /\ action = "snooze" => until \in Instant
    /\ action = "override" => newDate \in Date

\* A step that leaves the tables as they were.
TablesUnchanged ==
    UNCHANGED <<rowVars, reminders, builds, transitions, audit>>

\* Users and resuming processes change a deadline through
\* apply_deadline_action only.
LEMMA ActionCases ==
    ASSUME NEW d \in Deadline,
           UserAction(d) \/ \E p \in Resumer : ResumeListed(p, d)
    PROVE  \E a \in Action, u \in Instant \cup {NoDate}, n \in Date \cup {NoDate} :
             Inputs(a, u, n) /\ ApplyDeadlineAction(d, a, u, n)
<1>1. NoDate \in Instant \cup {NoDate} /\ NoDate \in Date \cup {NoDate}
  OBVIOUS
<1>2. CASE UserAction(d)
  <2>1. ASSUME NEW a \in {"complete", "waive", "reopen"},
               ApplyDeadlineAction(d, a, NoDate, NoDate)
        PROVE  Inputs(a, NoDate, NoDate) /\ a \in Action
    BY <2>1 DEF Inputs, Action
  <2>2. ASSUME NEW u \in Instant, ApplyDeadlineAction(d, "snooze", u, NoDate)
        PROVE  Inputs("snooze", u, NoDate) /\ "snooze" \in Action
    BY DEF Inputs, Action
  <2>3. ASSUME NEW n \in Date, ApplyDeadlineAction(d, "override", NoDate, n)
        PROVE  Inputs("override", NoDate, n) /\ "override" \in Action
    BY DEF Inputs, Action
  <2> QED BY <1>1, <1>2, <2>1, <2>2, <2>3 DEF UserAction
<1>3. CASE \E p \in Resumer : ResumeListed(p, d)
  <2>1. /\ "resume" \in Action
        /\ Inputs("resume", NoDate, NoDate)
        /\ ApplyDeadlineAction(d, "resume", NoDate, NoDate)
    BY <1>3 DEF Inputs, Action, ResumeListed
  <2> QED BY <1>1, <2>1
<1> QED BY <1>2, <1>3

\* Every step of Next is an upsert, an action, a trigger or a step of a
\* resuming process that writes no table.
LEMMA StepCases ==
    ASSUME Next
    PROVE  \/ \E d \in Deadline, date \in Date : CreateDeadline(d, date)
           \/ \E d \in Deadline, date \in Date : UpdateDeadline(d, date)
           \/ \E d \in Deadline, a \in Action, u \in Instant \cup {NoDate},
                 n \in Date \cup {NoDate} :
                Inputs(a, u, n) /\ ApplyDeadlineAction(d, a, u, n)
           \/ \E now \in Instant, ts \in SUBSET Tenant :
                TriggerDueReminders(now, ts)
           \/ TablesUnchanged
<1>1. ASSUME NEW p \in Resumer, NEW now \in Instant, ListDueSnoozes(p, now)
      PROVE  TablesUnchanged
  BY <1>1 DEF ListDueSnoozes, TablesUnchanged
<1>2. ASSUME NEW p \in Resumer, ResumeFails(p)
      PROVE  TablesUnchanged
  BY <1>2 DEF ResumeFails, TablesUnchanged
<1>3. ASSUME NEW now \in Instant,
             \/ TriggerDueReminders(now, Tenant)
             \/ \E t \in Tenant : TriggerDueReminders(now, {t})
      PROVE  \E ts \in SUBSET Tenant : TriggerDueReminders(now, ts)
  BY <1>3
<1> QED BY <1>1, <1>2, <1>3, ActionCases DEF Next

-----------------------------------------------------------------------------
(* What the operators on the reminder table return *)

\* Row r of the marked table comes from row x of the old one: x was not
\* marked, or differs from r in its status only.
ComesFrom(r, x, which, new) ==
    \/ r = x /\ x \notin which
    \/ /\ x \in which
       /\ r.status = new
       /\ r.deadline = x.deadline
       /\ r.build = x.build
       /\ r.day = x.day
       /\ r.at = x.at

\* Marking changes the status of rows and nothing else about them, as the
\* UPDATEs of reminders in _rebuild_reminders and trigger_due_reminders do.
LEMMA MarkMembers ==
    ASSUME reminders \subseteq Reminder, NEW which \in SUBSET reminders,
           NEW new \in ReminderStatus, NEW r \in Mark(which, new)
    PROVE  /\ r \in Reminder
           /\ \E x \in reminders : ComesFrom(r, x, which, new)
<1>1. CASE r \in reminders \ which
  BY <1>1 DEF ComesFrom
<1>2. CASE r \in {[x EXCEPT !.status = new] : x \in which}
  <2>1. PICK x \in which : r = [x EXCEPT !.status = new]
    BY <1>2
  <2>2. x \in Reminder
    OBVIOUS
  <2> QED BY <2>1, <2>2 DEF Reminder, ComesFrom
<1> QED BY <1>1, <1>2 DEF Mark

\* The rows built for a date belong to the next build and keep their distance
\* from it.
LEMMA BatchMembers ==
    ASSUME TypeOK, NEW d \in Deadline, NEW due \in Date, NEW r \in Batch(d, due)
    PROVE  /\ r \in Reminder
           /\ r.deadline = d
           /\ r.build = builds[d] + 1
           /\ r.at = due - r.day
           /\ r.status = "scheduled"
<1>1. PICK o \in Offset :
          r = [deadline |-> d, build |-> builds[d] + 1, day |-> o,
               at |-> due - o, status |-> "scheduled"]
  BY DEF Batch
<1>2. builds[d] + 1 \in Nat
  BY DEF TypeOK
<1>3. due - o \in Int
  BY DeadlinesAssumption
<1>4. "scheduled" \in ReminderStatus
  BY DEF ReminderStatus
<1> QED BY <1>1, <1>2, <1>3, <1>4 DEF Reminder

\* After a rebuild a row is new, or old and no longer scheduled if it is of
\* this deadline.
LEMMA RebuildMembers ==
    ASSUME TypeOK, NEW d \in Deadline, NEW st, NEW due \in Date,
           RebuildReminders(d, st, due), NEW r \in reminders'
    PROVE  /\ r \in Reminder
           /\ \/ r \in Batch(d, due) /\ st \notin Closed
              \/ r \in Mark(ScheduledOf(d), "cancelled")
<1>1. ScheduledOf(d) \in SUBSET reminders /\ "cancelled" \in ReminderStatus
  BY DEF ScheduledOf, ReminderStatus
<1>2. r \in Mark(ScheduledOf(d), "cancelled")
        \/ (r \in Batch(d, due) /\ st \notin Closed)
  BY DEF RebuildReminders
<1>3. reminders \subseteq Reminder
  BY DEF TypeOK
<1> QED BY <1>1, <1>2, <1>3, MarkMembers, BatchMembers

-----------------------------------------------------------------------------
(* Types *)

\* What apply_deadline_action writes, with the status and the due date it
\* leaves named.
Effect(d, a, u, n, new, due) ==
    /\ due = IF a = "override" THEN n ELSE dueDate[d]
    /\ <<status[d], a, new>> \in Moves
    /\ status' = [status EXCEPT ![d] = new]
    /\ dueDate' = [dueDate EXCEPT ![d] = due]
    /\ overrideDate' = [overrideDate EXCEPT
                          ![d] = IF a = "override" THEN due ELSE @]
    /\ snoozedUntil' = [snoozedUntil EXCEPT
                          ![d] = IF a = "snooze" THEN u ELSE NoDate]
    /\ transitions' = [transitions EXCEPT
                         ![d] = Append(@, <<status[d], a, new>>)]
    /\ Audit(d, "status_changed", dueDate[d], due, status[d], new)
    /\ \/ /\ new \in Closed
          /\ reminders' = Mark(ScheduledOf(d), "cancelled")
          /\ UNCHANGED builds
       \/ /\ new \notin Closed
          /\ a \in Rebuilding
          /\ RebuildReminders(d, new, due)
       \/ /\ new \notin Closed
          /\ a \notin Rebuilding
          /\ UNCHANGED <<reminders, builds>>

\* apply_deadline_action writes exactly what Effect lists, for some status the
\* state machine allows.
LEMMA ApplyEffect ==
    ASSUME TypeOK, NEW d \in Deadline, NEW a, NEW u, NEW n,
           Inputs(a, u, n), ApplyDeadlineAction(d, a, u, n)
    PROVE  /\ status[d] \in Status
           /\ dueDate[d] \in Date
           /\ \E new \in Status, due \in Date : Effect(d, a, u, n, new, due)
<1> DEFINE due == IF a = "override" THEN n ELSE dueDate[d]
<1>1. PICK new \in Status : Effect(d, a, u, n, new, due)
  BY DEF ApplyDeadlineAction, Effect, SnoozedUntilAfter, InsertTransition
<1>2. status[d] \in Status
  BY <1>1 DEF Moves, Status, Effect
<1>3. dueDate[d] \in Date /\ due \in Date
  BY <1>2, DeadlinesAssumption DEF TypeOK, Inputs, Status, NoRow
<1> QED BY <1>1, <1>2, <1>3

\* Every action of apply_deadline_action keeps the types.
LEMMA ApplyKeepsTypes ==
    ASSUME TypeOK, NEW d \in Deadline, NEW a, NEW u, NEW n,
           Inputs(a, u, n), ApplyDeadlineAction(d, a, u, n),
           toResume' \in [Resumer -> SUBSET Deadline]
    PROVE  TypeOK'
<1>1. PICK new \in Status, due \in Date : Effect(d, a, u, n, new, due)
  BY ApplyEffect
<1>2. status[d] \in Status /\ new # NoRow
  BY ApplyEffect DEF Status, NoRow
<1>3. dueDate[d] \in Date /\ due \in Date
  BY ApplyEffect
<1>4. /\ status' \in [Deadline -> Status \cup {NoRow}]
      /\ dueDate' \in [Deadline -> Date \cup {NoDate}]
      /\ \A e \in Deadline : status'[e] = NoRow <=> dueDate'[e] = NoDate
  BY <1>1, <1>2, <1>3, DeadlinesAssumption DEF Effect, TypeOK
<1>5. /\ overrideDate' \in [Deadline -> Date \cup {NoDate}]
      /\ snoozedUntil' \in [Deadline -> Instant \cup {NoDate}]
  BY <1>1 DEF Effect, TypeOK, Inputs
<1>6. reminders' \subseteq Reminder /\ builds' \in [Deadline -> Nat]
  <2>1. CASE new \in Closed
    <3>1. reminders' = Mark(ScheduledOf(d), "cancelled") /\ builds' = builds
      BY <1>1, <2>1 DEF Effect, RebuildReminders
    <3> QED BY <3>1, MarkMembers DEF TypeOK, ScheduledOf, ReminderStatus
  <2>2. CASE RebuildReminders(d, new, due)
    <3>1. reminders' \subseteq Reminder
      BY <1>3, <2>2, RebuildMembers
    <3> QED BY <2>2, <3>1 DEF TypeOK, RebuildReminders
  <2>3. CASE UNCHANGED <<reminders, builds>>
    BY <2>3 DEF TypeOK
  <2> QED BY <1>1, <2>1, <2>2, <2>3 DEF Effect
<1>7. transitions' \in [Deadline -> Seq(Moves)]
  BY <1>1 DEF Effect, TypeOK
<1>8. audit' \in [Deadline -> Seq(AuditRecord)]
  <2>1. [type |-> "status_changed", dueBefore |-> dueDate[d], dueAfter |-> due,
         statusBefore |-> status[d], statusAfter |-> new] \in AuditRecord
    BY <1>2, <1>3 DEF AuditRecord
  <2> QED BY <1>1, <2>1 DEF Effect, Audit, TypeOK
<1> QED BY <1>4, <1>5, <1>6, <1>7, <1>8 DEF TypeOK

\* The insert branch of _upsert_deadline_from_rule keeps the types.
LEMMA CreateKeepsTypes ==
    ASSUME TypeOK, NEW d \in Deadline, NEW date \in Date, CreateDeadline(d, date)
    PROVE  TypeOK'
<1>1. reminders' \subseteq Reminder /\ builds' \in [Deadline -> Nat]
  <2>1. reminders' \subseteq Reminder
    BY RebuildMembers DEF CreateDeadline
  <2> QED BY <2>1 DEF TypeOK, RebuildReminders, CreateDeadline
<1>2. audit' \in [Deadline -> Seq(AuditRecord)]
  <2>1. [type |-> "deadline_created", dueBefore |-> NoDate, dueAfter |-> date,
         statusBefore |-> NoRow, statusAfter |-> NoRow] \in AuditRecord
    BY DEF AuditRecord
  <2> QED BY <2>1 DEF CreateDeadline, Audit, TypeOK
<1>3. /\ status' \in [Deadline -> Status \cup {NoRow}]
      /\ dueDate' \in [Deadline -> Date \cup {NoDate}]
      /\ \A e \in Deadline : status'[e] = NoRow <=> dueDate'[e] = NoDate
  BY DeadlinesAssumption DEF CreateDeadline, TypeOK, Status, NoRow
<1> QED BY <1>1, <1>2, <1>3 DEF CreateDeadline, TypeOK

\* The update branch of _upsert_deadline_from_rule keeps the types.
LEMMA UpdateKeepsTypes ==
    ASSUME TypeOK, NEW d \in Deadline, NEW date \in Date, UpdateDeadline(d, date)
    PROVE  TypeOK'
<1>1. reminders' \subseteq Reminder /\ builds' \in [Deadline -> Nat]
  <2>1. reminders' \subseteq Reminder
    BY RebuildMembers DEF UpdateDeadline, KeepsItsDate
  <2> QED BY <2>1 DEF TypeOK, RebuildReminders, UpdateDeadline
<1>2. audit' \in [Deadline -> Seq(AuditRecord)]
  <2>1. [type |-> "deadline_updated", dueBefore |-> dueDate[d], dueAfter |-> date,
         statusBefore |-> NoRow, statusAfter |-> NoRow] \in AuditRecord
    BY DEF AuditRecord, TypeOK
  <2> QED BY <2>1 DEF UpdateDeadline, KeepsItsDate, Audit, TypeOK
<1>3. /\ dueDate' \in [Deadline -> Date \cup {NoDate}]
      /\ \A e \in Deadline : status'[e] = NoRow <=> dueDate'[e] = NoDate
  BY DeadlinesAssumption DEF UpdateDeadline, KeepsItsDate, TypeOK
<1> QED BY <1>1, <1>2, <1>3 DEF UpdateDeadline, KeepsItsDate, TypeOK

\* The tables always hold rows of their declared types.
THEOREM TypeCorrect == Spec => []TypeOK
<1>1. Init => TypeOK
  BY DEF Init, TypeOK
<1>2. TypeOK /\ [Next]_vars => TypeOK'
  <2> SUFFICES ASSUME TypeOK, [Next]_vars PROVE TypeOK'
    OBVIOUS
  <2>1. CASE UNCHANGED vars
    BY <2>1 DEF TypeOK, vars, rowVars
  <2>2. toResume' \in [Resumer -> SUBSET Deadline]
    BY <2>1 DEF TypeOK, Next, CreateDeadline, UpdateDeadline, UserAction,
       TriggerDueReminders, ListDueSnoozes, ResumeListed, ResumeFails
  <2>3. ASSUME NEW now \in Instant, NEW ts \in SUBSET Tenant,
               TriggerDueReminders(now, ts)
        PROVE  TypeOK'
    <3>1. reminders' \subseteq Reminder
      BY <2>3, MarkMembers DEF TriggerDueReminders, TypeOK, ReminderStatus
    <3> QED BY <2>3, <3>1 DEF TriggerDueReminders, TypeOK, rowVars
  <2>4. CASE TablesUnchanged
    BY <2>2, <2>4 DEF TablesUnchanged, TypeOK, rowVars
  <2> QED BY <2>1, <2>2, <2>3, <2>4, StepCases, ApplyKeepsTypes,
             CreateKeepsTypes, UpdateKeepsTypes
<1> QED BY <1>1, <1>2, PTL DEF Spec

-----------------------------------------------------------------------------
(* The row of a deadline *)

RowInv == OverrideSticks /\ SnoozedUntilWhileSnoozed

\* Every step keeps override and snoozed_until consistent with the row.
LEMMA RowInvStep ==
    ASSUME TypeOK, RowInv, [Next]_vars
    PROVE  RowInv'
<1> USE DEF RowInv, OverrideSticks, SnoozedUntilWhileSnoozed
<1>1. ASSUME NEW d \in Deadline, NEW date \in Date, CreateDeadline(d, date)
      PROVE  RowInv'
  BY <1>1 DEF CreateDeadline, TypeOK, NoRow
<1>2. ASSUME NEW d \in Deadline, NEW date \in Date, UpdateDeadline(d, date)
      PROVE  RowInv'
  BY <1>2 DEF UpdateDeadline, KeepsItsDate, TypeOK
<1>3. ASSUME NEW d \in Deadline, NEW a, NEW u, NEW n,
             Inputs(a, u, n), ApplyDeadlineAction(d, a, u, n)
      PROVE  RowInv'
  <2>1. PICK new \in Status, due \in Date :
        Effect(d, a, u, n, new, due)
    BY <1>3, ApplyEffect
  <2>2. new = "snoozed" <=> a = "snooze"
    BY <2>1 DEF Effect, Moves
  <2>3. a = "snooze" => u # NoDate
    BY <1>3, DeadlinesAssumption DEF Inputs
  <2>4. OverrideSticks'
    BY <2>1 DEF Effect, TypeOK
  <2> QED BY <2>1, <2>2, <2>3, <2>4 DEF Effect, TypeOK
<1>4. ASSUME NEW now, NEW ts, TriggerDueReminders(now, ts)
      PROVE  RowInv'
  BY <1>4 DEF TriggerDueReminders, rowVars
<1>5. CASE TablesUnchanged \/ UNCHANGED vars
  BY <1>5 DEF TablesUnchanged, vars, rowVars
<1> QED BY <1>1, <1>2, <1>3, <1>4, <1>5, StepCases

\* The due date is the one a user set, as long as one is set; snoozed_until
\* is set exactly while the deadline is snoozed.
THEOREM RowIsConsistent == Spec => [](OverrideSticks /\ SnoozedUntilWhileSnoozed)
<1>1. Init => RowInv
  BY DEF Init, RowInv, OverrideSticks, SnoozedUntilWhileSnoozed, NoRow
<1>2. RowInv => OverrideSticks /\ SnoozedUntilWhileSnoozed
  BY DEF RowInv
<1> QED BY <1>1, <1>2, RowInvStep, TypeCorrect, PTL DEF Spec

\* A date a user set is moved by the override action only: no refresh from a
\* rule, and no other action, touches it.
THEOREM OverrideIsRespected == Spec => OnlyOverrideMovesOverridden
<1> DEFINE Respects ==
      \A d \in Deadline :
         (overrideDate[d] # NoDate /\ dueDate'[d] # dueDate[d])
           => status'[d] = "overridden"
<1>1. ASSUME TypeOK, RowInv, [Next]_vars PROVE [Respects]_vars
  <2>1. ASSUME NEW d \in Deadline, NEW date \in Date,
               CreateDeadline(d, date) \/ UpdateDeadline(d, date)
        PROVE  Respects
    <3>1. overrideDate[d] = NoDate
      BY <1>1, <2>1 DEF CreateDeadline, UpdateDeadline, KeepsItsDate, RowInv, OverrideSticks, TypeOK
    <3>2. dueDate' = [dueDate EXCEPT ![d] = date]
      BY <2>1 DEF CreateDeadline, UpdateDeadline
    <3> QED BY <1>1, <3>1, <3>2 DEF TypeOK
  <2>2. ASSUME NEW d \in Deadline, NEW a, NEW u, NEW n,
               Inputs(a, u, n), ApplyDeadlineAction(d, a, u, n)
        PROVE  Respects
    <3>1. PICK new \in Status, due \in Date :
          Effect(d, a, u, n, new, due)
      BY <1>1, <2>2, ApplyEffect
    <3>2. a = "override" => new = "overridden"
      BY <3>1 DEF Effect, Moves
    <3> QED BY <1>1, <3>1, <3>2 DEF Effect, TypeOK
  <2>3. ASSUME NEW now, NEW ts, TriggerDueReminders(now, ts)
        PROVE  Respects
    BY <2>3 DEF TriggerDueReminders, rowVars
  <2>4. CASE TablesUnchanged
    BY <2>4 DEF TablesUnchanged, rowVars
  <2> QED BY <1>1, <2>1, <2>2, <2>3, <2>4, StepCases
<1>2. Init => RowInv
  BY DEF Init, RowInv, OverrideSticks, SnoozedUntilWhileSnoozed, NoRow
<1> QED BY <1>1, <1>2, RowInvStep, TypeCorrect, PTL DEF Spec, OnlyOverrideMovesOverridden

-----------------------------------------------------------------------------
(* The reminders of a deadline.  ReminderInv adds to the two invariants what *)
(* makes them inductive: a reminder has a row and a build of the past.     *)

RowOfReminder(r) ==
    /\ status[r.deadline] # NoRow
    /\ r.status = "scheduled" =>
         /\ status[r.deadline] \notin Closed
         /\ r.build = builds[r.deadline]
         /\ r.at = dueDate[r.deadline] - r.day

ReminderInv == \A r \in reminders : RowOfReminder(r)

\* A rebuild for the row's new status and due date re-establishes it.
LEMMA RebuildKeepsReminders ==
    ASSUME TypeOK, ReminderInv, NEW d \in Deadline, NEW st, NEW due \in Date,
           RebuildReminders(d, st, due), st # NoRow,
           status' = [status EXCEPT ![d] = st],
           dueDate' = [dueDate EXCEPT ![d] = due]
    PROVE  ReminderInv'
<1> SUFFICES ASSUME NEW r \in reminders' PROVE RowOfReminder(r)'
  BY DEF ReminderInv
<1>1. builds' = [builds EXCEPT ![d] = @ + 1]
  BY DEF RebuildReminders
<1>2. CASE r \in Batch(d, due) /\ st \notin Closed
  BY <1>1, <1>2, BatchMembers DEF RowOfReminder, TypeOK
<1>3. CASE r \in Mark(ScheduledOf(d), "cancelled")
  <2>1. PICK x \in reminders : ComesFrom(r, x, ScheduledOf(d), "cancelled")
    BY <1>3, MarkMembers DEF TypeOK, ScheduledOf, ReminderStatus
  <2>2. x \in Reminder /\ RowOfReminder(x)
    BY DEF TypeOK, ReminderInv
  <2>3. CASE x \in ScheduledOf(d)
    BY <2>1, <2>2, <2>3 DEF ComesFrom, RowOfReminder, ScheduledOf, TypeOK
  <2>4. CASE r = x /\ x.deadline # d
    BY <1>1, <2>2, <2>4 DEF RowOfReminder, TypeOK, Reminder
  <2>5. CASE r = x /\ x.status # "scheduled"
    BY <2>2, <2>5 DEF RowOfReminder, TypeOK, Reminder
  <2> QED BY <2>1, <2>3, <2>4, <2>5 DEF ComesFrom, ScheduledOf
<1> QED BY <1>2, <1>3, RebuildMembers

\* Every step keeps the scheduled reminders of every deadline in step with
\* its status and its due date.
LEMMA ReminderInvStep ==
    ASSUME TypeOK, ReminderInv, [Next]_vars
    PROVE  ReminderInv'
<1>1. ASSUME NEW d \in Deadline, NEW date \in Date, CreateDeadline(d, date)
      PROVE  ReminderInv'
  BY <1>1, RebuildKeepsReminders, "pending" # NoRow DEF CreateDeadline, NoRow
<1>2. ASSUME NEW d \in Deadline, NEW date \in Date, UpdateDeadline(d, date)
      PROVE  ReminderInv'
  <2>1. status' = [status EXCEPT ![d] = status[d]]
    BY <1>2 DEF UpdateDeadline, KeepsItsDate, TypeOK
  <2> QED BY <1>2, <2>1, RebuildKeepsReminders DEF UpdateDeadline, KeepsItsDate
<1>3. ASSUME NEW d \in Deadline, NEW a, NEW u, NEW n,
             Inputs(a, u, n), ApplyDeadlineAction(d, a, u, n)
      PROVE  ReminderInv'
  <2>1. PICK new \in Status, due \in Date : Effect(d, a, u, n, new, due)
    BY <1>3, ApplyEffect
  <2>2. /\ status[d] # NoRow /\ new # NoRow
        /\ status' = [status EXCEPT ![d] = new]
        /\ dueDate' = [dueDate EXCEPT ![d] = due]
    BY <1>3, <2>1, ApplyEffect DEF Effect, Status, NoRow
  <2>3. CASE RebuildReminders(d, new, due)
    BY <2>2, <2>3, RebuildKeepsReminders
  <2>4. CASE new \in Closed /\ reminders' = Mark(ScheduledOf(d), "cancelled")
             /\ UNCHANGED builds
    <3> SUFFICES ASSUME NEW r \in reminders' PROVE RowOfReminder(r)'
      BY DEF ReminderInv
    <3>1. PICK x \in reminders : ComesFrom(r, x, ScheduledOf(d), "cancelled")
      BY <2>4, MarkMembers DEF TypeOK, ScheduledOf, ReminderStatus
    <3>2. x \in Reminder /\ RowOfReminder(x)
      BY DEF TypeOK, ReminderInv
    <3>3. CASE x \in ScheduledOf(d)
      BY <2>2, <3>1, <3>2, <3>3 DEF ComesFrom, RowOfReminder, ScheduledOf, TypeOK
    <3>4. CASE r = x /\ x.deadline # d
      BY <2>2, <2>4, <3>2, <3>4 DEF RowOfReminder, TypeOK, Reminder
    <3>5. CASE r = x /\ x.status # "scheduled"
      BY <2>2, <3>2, <3>5 DEF RowOfReminder, TypeOK, Reminder
    <3> QED BY <3>1, <3>3, <3>4, <3>5 DEF ComesFrom, ScheduledOf
  <2>5. CASE new \notin Closed /\ a \notin Rebuilding
             /\ UNCHANGED <<reminders, builds>>
    <3>1. dueDate' = dueDate
      BY <2>1, <2>5 DEF Effect, Rebuilding, TypeOK
    <3> QED BY <2>2, <2>5, <3>1 DEF ReminderInv, RowOfReminder, TypeOK, Reminder
  <2> QED BY <2>1, <2>3, <2>4, <2>5 DEF Effect
<1>4. ASSUME NEW now, NEW ts, TriggerDueReminders(now, ts)
      PROVE  ReminderInv'
  <2> DEFINE triggered == {r \in reminders : /\ r.status = "scheduled"
                                             /\ r.at <= now
                                             /\ TenantOf[r.deadline] \in ts}
  <2> SUFFICES ASSUME NEW r \in reminders' PROVE RowOfReminder(r)'
    BY DEF ReminderInv
  <2>1. triggered \in SUBSET reminders /\ "triggered" \in ReminderStatus
    BY DEF ReminderStatus
  <2>2. r \in Mark(triggered, "triggered") /\ UNCHANGED <<rowVars, builds>>
    BY <1>4 DEF TriggerDueReminders
  <2> HIDE DEF triggered
  <2>3. PICK x \in reminders : ComesFrom(r, x, triggered, "triggered")
    BY <2>1, <2>2, MarkMembers DEF TypeOK
  <2> QED BY <2>2, <2>3 DEF ComesFrom, ReminderInv, RowOfReminder, rowVars
<1>5. CASE TablesUnchanged \/ UNCHANGED vars
  BY <1>5 DEF TablesUnchanged, vars, rowVars, ReminderInv, RowOfReminder
<1> QED BY <1>1, <1>2, <1>3, <1>4, <1>5, StepCases

\* No reminder of a completed or waived deadline is left to send, and what is
\* left to send of an open one is placed before its present due date.
THEOREM RemindersAreCorrect ==
    Spec => [](ClosedDeadlinesAreQuiet /\ RemindersFollowDueDate)
<1>1. Init => ReminderInv
  BY DEF Init, ReminderInv
<1>2. ReminderInv => ClosedDeadlinesAreQuiet /\ RemindersFollowDueDate
  BY DEF ReminderInv, RowOfReminder, ClosedDeadlinesAreQuiet, RemindersFollowDueDate
<1> QED BY <1>1, <1>2, ReminderInvStep, TypeCorrect, PTL DEF Spec

-----------------------------------------------------------------------------
(* Nothing is lost: NoReminderIsLost is inductive beside the types.        *)

Kept(d, o) == \E r \in reminders : /\ r.deadline = d /\ r.day = o
                                   /\ r.build = builds[d]
                                   /\ r.status # "cancelled"

\* Marking rows that are not of this deadline, or as anything but cancelled,
\* keeps its reminders.
LEMMA MarkKeeps ==
    ASSUME TypeOK, NEW which \in SUBSET reminders, NEW new,
           NEW e \in Deadline, NEW o \in Offset, Kept(e, o),
           new # "cancelled" \/ \A x \in which : x.deadline # e,
           Mark(which, new) \subseteq reminders', builds'[e] = builds[e]
    PROVE  Kept(e, o)'
<1>1. PICK r \in reminders : /\ r.deadline = e /\ r.day = o
                             /\ r.build = builds[e]
                             /\ r.status # "cancelled"
  BY DEF Kept
<1>2. CASE r \notin which
  BY <1>1, <1>2 DEF Mark, Kept
<1>3. CASE r \in which
  <2> DEFINE s == [r EXCEPT !.status = new]
  <2>1. s \in reminders'
    BY <1>3 DEF Mark
  <2>2. s.deadline = e /\ s.day = o /\ s.build = builds[e] /\ s.status = new
    BY <1>1 DEF TypeOK, Reminder
  <2>3. new # "cancelled"
    BY <1>1, <1>3
  <2> QED BY <2>1, <2>2, <2>3 DEF Kept
<1> QED BY <1>2, <1>3

\* A rebuild of an open deadline gives it every reminder, and leaves those of
\* the others.
LEMMA RebuildKeeps ==
    ASSUME TypeOK, NoReminderIsLost, NEW d \in Deadline, NEW st,
           NEW due \in Date, RebuildReminders(d, st, due), st # NoRow,
           status' = [status EXCEPT ![d] = st]
    PROVE  NoReminderIsLost'
<1> SUFFICES ASSUME NEW e \in Deadline, status'[e] \notin Closed \cup {NoRow},
                    NEW o \in Offset
             PROVE  Kept(e, o)'
  BY DEF NoReminderIsLost, Kept
<1>1. CASE e = d
  <2> DEFINE r == [deadline |-> d, build |-> builds[d] + 1, day |-> o,
                   at |-> due - o, status |-> "scheduled"]
  <2>1. st \notin Closed /\ builds'[d] = builds[d] + 1
    BY <1>1 DEF TypeOK, RebuildReminders
  <2>2. r \in reminders'
    BY <2>1 DEF RebuildReminders, Batch
  <2> QED BY <1>1, <2>1, <2>2 DEF Kept
<1>2. CASE e # d
  <2>1. Kept(e, o) /\ builds'[e] = builds[e]
    BY <1>2 DEF NoReminderIsLost, Kept, TypeOK, RebuildReminders
  <2>2. Mark(ScheduledOf(d), "cancelled") \subseteq reminders'
    BY DEF RebuildReminders
  <2> QED BY <1>2, <2>1, <2>2, MarkKeeps DEF ScheduledOf
<1> QED BY <1>1, <1>2

\* Every step leaves each open deadline a scheduled or triggered reminder for
\* every offset of its last build.
LEMMA NoReminderIsLostStep ==
    ASSUME TypeOK, NoReminderIsLost, [Next]_vars
    PROVE  NoReminderIsLost'
<1>1. ASSUME NEW d \in Deadline, NEW date \in Date, CreateDeadline(d, date)
      PROVE  NoReminderIsLost'
  BY <1>1, RebuildKeeps, "pending" # NoRow DEF CreateDeadline, NoRow
<1>2. ASSUME NEW d \in Deadline, NEW date \in Date, UpdateDeadline(d, date)
      PROVE  NoReminderIsLost'
  <2>1. status' = [status EXCEPT ![d] = status[d]]
    BY <1>2 DEF UpdateDeadline, KeepsItsDate, TypeOK
  <2> QED BY <1>2, <2>1, RebuildKeeps DEF UpdateDeadline, KeepsItsDate
<1>3. ASSUME NEW d \in Deadline, NEW a, NEW u, NEW n,
             Inputs(a, u, n), ApplyDeadlineAction(d, a, u, n)
      PROVE  NoReminderIsLost'
  <2>1. PICK new \in Status, due \in Date : Effect(d, a, u, n, new, due)
    BY <1>3, ApplyEffect
  <2>2. /\ status[d] # NoRow /\ new # NoRow
        /\ status' = [status EXCEPT ![d] = new]
    BY <1>3, <2>1, ApplyEffect DEF Effect, Status, NoRow
  <2>3. CASE RebuildReminders(d, new, due)
    BY <2>2, <2>3, RebuildKeeps
  <2>4. CASE new \in Closed /\ reminders' = Mark(ScheduledOf(d), "cancelled")
             /\ UNCHANGED builds
    <3> SUFFICES ASSUME NEW e \in Deadline, status'[e] \notin Closed \cup {NoRow},
                        NEW o \in Offset
                 PROVE  Kept(e, o)'
      BY DEF NoReminderIsLost, Kept
    <3>1. e # d /\ status'[e] = status[e]
      BY <2>2, <2>4 DEF TypeOK
    <3>2. Kept(e, o)
      BY <3>1 DEF NoReminderIsLost, Kept
    <3> QED BY <2>4, <3>1, <3>2, MarkKeeps DEF ScheduledOf
  <2>5. CASE new \notin Closed /\ a \notin Rebuilding
             /\ UNCHANGED <<reminders, builds>>
    <3>1. status[d] \notin Closed
      BY <2>1, <2>5 DEF Effect, Moves, Closed, Rebuilding
    <3> QED BY <2>2, <2>5, <3>1 DEF NoReminderIsLost, TypeOK
  <2> QED BY <2>1, <2>3, <2>4, <2>5 DEF Effect
<1>4. ASSUME NEW now, NEW ts, TriggerDueReminders(now, ts)
      PROVE  NoReminderIsLost'
  <2> SUFFICES ASSUME NEW e \in Deadline, status'[e] \notin Closed \cup {NoRow},
                      NEW o \in Offset
               PROVE  Kept(e, o)'
    BY DEF NoReminderIsLost, Kept
  <2>1. Kept(e, o) /\ builds' = builds
    BY <1>4 DEF NoReminderIsLost, Kept, TriggerDueReminders, rowVars
  <2> QED BY <1>4, <2>1, MarkKeeps DEF TriggerDueReminders
<1>5. CASE TablesUnchanged \/ UNCHANGED vars
  BY <1>5 DEF TablesUnchanged, vars, rowVars, NoReminderIsLost
<1> QED BY <1>1, <1>2, <1>3, <1>4, <1>5, StepCases

\* An open deadline has, for each offset before its present due date, a
\* reminder that is still to be sent or was sent.
THEOREM RemindersAreComplete == Spec => []NoReminderIsLost
<1>1. Init => NoReminderIsLost
  BY DEF Init, NoReminderIsLost
<1> QED BY <1>1, NoReminderIsLostStep, TypeCorrect, PTL DEF Spec

-----------------------------------------------------------------------------
(* The two logs *)

\* Appending an entry keeps the old ones and puts it last.
LEMMA AppendEntry ==
    ASSUME NEW S, NEW log \in Seq(S), NEW e \in S
    PROVE  /\ Append(log, e) \in Seq(S)
           /\ Append(log, e) # <<>>
           /\ Len(Append(log, e)) = Len(log) + 1
           /\ Append(log, e)[Len(log) + 1] = e
           /\ \A i \in 1..Len(log) : Append(log, e)[i] = log[i]
           /\ log # <<>> => Len(log) \in 1..Len(log)
  OBVIOUS

\* Every step keeps the transition log a path to the status in the row.
LEMMA TransitionLogStep ==
    ASSUME TypeOK, TransitionLogExplainsStatus, [Next]_vars
    PROVE  TransitionLogExplainsStatus'
<1> USE DEF TransitionLogExplainsStatus
<1>1. ASSUME NEW d \in Deadline, NEW date \in Date, CreateDeadline(d, date)
      PROVE  TransitionLogExplainsStatus'
  <2>1. transitions[d] = <<>>
    <3>1. CASE transitions[d] # <<>>
      <4>1. transitions[d] \in Seq(Moves) /\ Len(transitions[d]) \in 1..Len(transitions[d])
        BY <3>1, AppendEntry DEF TypeOK
      <4>2. transitions[d][Len(transitions[d])] \in Moves
        BY <4>1
      <4> QED BY <1>1, <3>1, <4>2 DEF CreateDeadline, Moves, NoRow
    <3> QED BY <3>1
  <2> QED BY <1>1, <2>1 DEF CreateDeadline, TypeOK
<1>2. ASSUME NEW d \in Deadline, NEW date \in Date, UpdateDeadline(d, date)
      PROVE  TransitionLogExplainsStatus'
  BY <1>2 DEF UpdateDeadline, KeepsItsDate
<1>3. ASSUME NEW d \in Deadline, NEW a, NEW u, NEW n,
             Inputs(a, u, n), ApplyDeadlineAction(d, a, u, n)
      PROVE  TransitionLogExplainsStatus'
  <2>1. PICK new \in Status, due \in Date : Effect(d, a, u, n, new, due)
    BY <1>3, ApplyEffect
  <2> DEFINE log == transitions[d]
             move == <<status[d], a, new>>
             longer == Append(log, move)
  <2>2. /\ status[d] \in Status
        /\ log \in Seq(Moves) /\ move \in Moves
        /\ status' = [status EXCEPT ![d] = new]
        /\ transitions' = [transitions EXCEPT ![d] = longer]
    BY <1>3, <2>1, ApplyEffect DEF Effect, TypeOK
  <2>3. /\ longer # <<>>
        /\ Len(longer) = Len(log) + 1
        /\ longer[Len(log) + 1] = move
        /\ \A i \in 1..Len(log) : longer[i] = log[i]
        /\ log # <<>> => Len(log) \in 1..Len(log)
    BY <2>2, AppendEntry
  <2>4. CASE log = <<>>
    <3>1. status[d] = "pending"
      BY <2>2, <2>4 DEF Status, NoRow
    <3> QED BY <2>2, <2>3, <2>4, <3>1 DEF TypeOK
  <2>5. CASE log # <<>>
    <3>1. /\ log[1][1] = "pending"
          /\ log[Len(log)][3] = status[d]
          /\ \A i \in 1..(Len(log) - 1) : log[i][3] = log[i + 1][1]
      BY <2>5
    <3>2. 1 \in 1..Len(log) /\ Len(log) \in Nat
      BY <2>3, <2>5, <2>2
    <3> HIDE DEF log, longer
    <3>3. longer[1][1] = "pending" /\ longer[Len(longer)][3] = new
      BY <2>3, <3>1, <3>2
    <3>4. ASSUME NEW i \in 1..(Len(longer) - 1)
          PROVE  longer[i][3] = longer[i + 1][1]
      <4>1. CASE i = Len(log)
        BY <2>3, <2>5, <3>1, <3>2, <4>1
      <4>2. CASE i # Len(log)
        <5>1. i \in 1..(Len(log) - 1) /\ i \in 1..Len(log) /\ i + 1 \in 1..Len(log)
          BY <2>3, <3>2, <4>2
        <5> QED BY <2>3, <3>1, <5>1
      <4> QED BY <4>1, <4>2
    <3>5. ASSUME NEW e \in Deadline, e # d
          PROVE  transitions'[e] = transitions[e] /\ status'[e] = status[e]
      BY <2>2, <3>5 DEF TypeOK
    <3>6. transitions'[d] = longer /\ status'[d] = new
      BY <2>2 DEF TypeOK
    <3> QED BY <2>3, <3>3, <3>4, <3>5, <3>6
  <2> QED BY <2>4, <2>5
<1>4. ASSUME NEW now, NEW ts, TriggerDueReminders(now, ts)
      PROVE  TransitionLogExplainsStatus'
  BY <1>4 DEF TriggerDueReminders, rowVars
<1>5. CASE TablesUnchanged \/ UNCHANGED vars
  BY <1>5 DEF TablesUnchanged, vars, rowVars
<1> QED BY <1>1, <1>2, <1>3, <1>4, <1>5, StepCases

\* deadline_transitions leads from `pending` to the status in the row without
\* a gap.
THEOREM TransitionsAreLogged == Spec => []TransitionLogExplainsStatus
<1>1. Init => TransitionLogExplainsStatus
  BY DEF Init, TransitionLogExplainsStatus
<1> QED BY <1>1, TransitionLogStep, TypeCorrect, PTL DEF Spec

\* An entry that takes the due date over from the row, and hands it over to
\* the row as the step leaves it, keeps the audit log complete.
LEMMA AuditEntryKeeps ==
    ASSUME TypeOK, AuditExplainsDueDate, NEW d \in Deadline,
           NEW entry \in AuditRecord,
           audit' = [audit EXCEPT ![d] = Append(@, entry)],
           entry.dueBefore = dueDate[d],
           NEW st \in Status, status' = [status EXCEPT ![d] = st],
           dueDate' = [dueDate EXCEPT ![d] = entry.dueAfter]
    PROVE  AuditExplainsDueDate'
<1> DEFINE log == audit[d]
           longer == Append(log, entry)
<1>1. /\ log \in Seq(AuditRecord)
      /\ audit'[d] = longer
      /\ status'[d] = st /\ st # NoRow
      /\ dueDate'[d] = entry.dueAfter
  BY DEF TypeOK, Status, NoRow
<1>2. /\ longer # <<>>
      /\ Len(longer) = Len(log) + 1
      /\ longer[Len(log) + 1] = entry
      /\ \A i \in 1..Len(log) : longer[i] = log[i]
      /\ log # <<>> => Len(log) \in 1..Len(log)
      /\ Len(log) \in Nat
  BY <1>1, AppendEntry
<1>3. ASSUME NEW i \in 1..(Len(longer) - 1)
      PROVE  longer[i].dueAfter = longer[i + 1].dueBefore
  <2>1. CASE i = Len(log)
    <3>1. log # <<>> /\ log[Len(log)].dueAfter = dueDate[d]
      BY <1>1, <2>1 DEF AuditExplainsDueDate
    <3> HIDE DEF log, longer
    <3> QED BY <1>2, <2>1, <3>1
  <2>2. CASE i # Len(log)
    <3>1. \A j \in 1..(Len(log) - 1) : log[j].dueAfter = log[j + 1].dueBefore
      BY DEF AuditExplainsDueDate
    <3> HIDE DEF log, longer
    <3>2. i \in 1..(Len(log) - 1) /\ i \in 1..Len(log) /\ i + 1 \in 1..Len(log)
      BY <1>2, <2>2
    <3> QED BY <1>2, <3>1, <3>2
  <2> QED BY <2>1, <2>2
<1>4. longer[Len(longer)].dueAfter = dueDate'[d]
  BY <1>1, <1>2
<1>5. ASSUME NEW e \in Deadline, e # d
      PROVE  audit'[e] = audit[e] /\ status'[e] = status[e] /\ dueDate'[e] = dueDate[e]
  BY <1>5 DEF TypeOK
<1> HIDE DEF log, longer
<1> QED BY <1>1, <1>2, <1>3, <1>4, <1>5 DEF AuditExplainsDueDate

\* Every step that writes a due date, or closes or reopens a deadline, logs it
\* in the same transaction.
LEMMA AuditStep ==
    ASSUME TypeOK, AuditExplainsDueDate, [Next]_vars
    PROVE  AuditExplainsDueDate'
<1>1. ASSUME NEW d \in Deadline, NEW date \in Date, CreateDeadline(d, date)
      PROVE  AuditExplainsDueDate'
  <2> DEFINE entry == [type |-> "deadline_created", dueBefore |-> NoDate,
                       dueAfter |-> date, statusBefore |-> NoRow,
                       statusAfter |-> NoRow]
  <2>1. entry \in AuditRecord /\ "pending" \in Status /\ dueDate[d] = NoDate
    BY <1>1 DEF AuditRecord, Status, CreateDeadline, TypeOK
  <2> QED BY <1>1, <2>1, AuditEntryKeeps DEF CreateDeadline, Audit
<1>2. ASSUME NEW d \in Deadline, NEW date \in Date, UpdateDeadline(d, date)
      PROVE  AuditExplainsDueDate'
  <2> DEFINE entry == [type |-> "deadline_updated", dueBefore |-> dueDate[d],
                       dueAfter |-> date, statusBefore |-> NoRow,
                       statusAfter |-> NoRow]
  <2>1. entry \in AuditRecord /\ status[d] \in Status
    BY <1>2 DEF AuditRecord, UpdateDeadline, TypeOK
  <2>2. status' = [status EXCEPT ![d] = status[d]]
    BY <1>2 DEF UpdateDeadline, TypeOK
  <2> QED BY <1>2, <2>1, <2>2, AuditEntryKeeps DEF UpdateDeadline, Audit
<1>3. ASSUME NEW d \in Deadline, NEW a, NEW u, NEW n,
             Inputs(a, u, n), ApplyDeadlineAction(d, a, u, n)
      PROVE  AuditExplainsDueDate'
  <2>1. PICK new \in Status, due \in Date : Effect(d, a, u, n, new, due)
    BY <1>3, ApplyEffect
  <2> DEFINE entry == [type |-> "status_changed", dueBefore |-> dueDate[d],
                       dueAfter |-> due, statusBefore |-> status[d],
                       statusAfter |-> new]
  <2>2. entry \in AuditRecord
    BY <1>3, ApplyEffect DEF AuditRecord
  <2> QED BY <2>1, <2>2, AuditEntryKeeps DEF Effect, Audit
<1>4. ASSUME NEW now, NEW ts, TriggerDueReminders(now, ts)
      PROVE  AuditExplainsDueDate'
  BY <1>4 DEF TriggerDueReminders, rowVars, AuditExplainsDueDate
<1>5. CASE TablesUnchanged \/ UNCHANGED vars
  BY <1>5 DEF TablesUnchanged, vars, rowVars, AuditExplainsDueDate
<1> QED BY <1>1, <1>2, <1>3, <1>4, <1>5, StepCases

\* The audit log of a deadline accounts for its due date: every change of the
\* date, from the rule's to the present one, has an entry.
THEOREM DatesAreAudited == Spec => []AuditExplainsDueDate
<1>1. Init => AuditExplainsDueDate
  BY DEF Init, AuditExplainsDueDate
<1> QED BY <1>1, AuditStep, TypeCorrect, PTL DEF Spec

-----------------------------------------------------------------------------
(* The two logs agree *)

\* The places of a log's status changes are finitely many, and counting them
\* up to one of them gives a number between one and all of them.
LEMMA ChangesAreCounted ==
    ASSUME NEW log, Len(log) \in Nat
    PROVE  /\ IsFiniteSet(StatusChanges(log))
           /\ \A k \in StatusChanges(log) :
                ChangesUpTo(log, k) \in 1..Cardinality(StatusChanges(log))
<1>1. IsFiniteSet(StatusChanges(log))
  <2>1. IsFiniteSet(1..Len(log))
    BY FS_Interval
  <2>2. StatusChanges(log) \in SUBSET (1..Len(log))
    BY DEF StatusChanges
  <2> QED BY <2>1, <2>2, FS_Subset
<1>2. ASSUME NEW k \in StatusChanges(log)
      PROVE  ChangesUpTo(log, k) \in 1..Cardinality(StatusChanges(log))
  <2> DEFINE upTo == {j \in StatusChanges(log) : j <= k}
  <2>1. upTo \in SUBSET StatusChanges(log)
    OBVIOUS
  <2>2. k \in upTo
    BY DEF StatusChanges
  <2> HIDE DEF upTo
  <2>3. /\ IsFiniteSet(upTo)
        /\ Cardinality(upTo) <= Cardinality(StatusChanges(log))
    BY <1>1, <2>1, FS_Subset
  <2>4. /\ Cardinality(upTo) \in Nat
        /\ Cardinality(StatusChanges(log)) \in Nat
    BY <1>1, <2>3, FS_CardinalityType
  <2>5. Cardinality(upTo) # 0
    BY <2>2, <2>3, FS_EmptySet
  <2>6. Cardinality(upTo) \in 1..Cardinality(StatusChanges(log))
    BY <2>3, <2>4, <2>5
  <2> QED BY <2>6 DEF upTo, ChangesUpTo
<1> QED BY <1>1, <1>2

\* An entry of another type changes nothing: the same changes are counted in
\* the same places.
LEMMA OtherEntryRecords ==
    ASSUME NEW log \in Seq(AuditRecord), NEW entry \in AuditRecord,
           entry.type # "status_changed", NEW moves, Records(log, moves)
    PROVE  Records(Append(log, entry), moves)
<1> DEFINE longer == Append(log, entry)
<1>1. /\ Len(longer) = Len(log) + 1 /\ Len(log) \in Nat
      /\ longer[Len(log) + 1] = entry
      /\ \A i \in 1..Len(log) : longer[i] = log[i]
  BY AppendEntry
<1> HIDE DEF longer
<1>2. StatusChanges(longer) = StatusChanges(log)
  BY <1>1 DEF StatusChanges
<1>3. \A k \in StatusChanges(log) :
        ChangesUpTo(longer, k) = ChangesUpTo(log, k) /\ longer[k] = log[k]
  BY <1>1, <1>2 DEF ChangesUpTo, StatusChanges
<1>4. Records(longer, moves)
  BY <1>2, <1>3 DEF Records
<1> QED BY <1>4 DEF longer

\* An entry for a change, appended together with the row for its move, is the
\* last of both and leaves the earlier ones in their places.
LEMMA ChangeEntryRecords ==
    ASSUME NEW log \in Seq(AuditRecord), NEW entry \in AuditRecord,
           entry.type = "status_changed",
           NEW moves \in Seq(Moves), NEW move \in Moves,
           entry.statusBefore = move[1], entry.statusAfter = move[3],
           Records(log, moves)
    PROVE  Records(Append(log, entry), Append(moves, move))
<1> DEFINE longer == Append(log, entry)
           more == Append(moves, move)
           last == Len(log) + 1
<1>1. /\ Len(longer) = last /\ Len(log) \in Nat
      /\ longer[last] = entry
      /\ \A i \in 1..Len(log) : longer[i] = log[i]
  BY AppendEntry
<1>2. /\ Len(more) = Len(moves) + 1 /\ Len(moves) \in Nat
      /\ more[Len(moves) + 1] = move
      /\ \A i \in 1..Len(moves) : more[i] = moves[i]
  BY AppendEntry
<1> HIDE DEF longer, more
<1>3. StatusChanges(longer) = StatusChanges(log) \cup {last}
  BY <1>1 DEF StatusChanges
<1>4. last \notin StatusChanges(log) /\ StatusChanges(log) \subseteq 1..Len(log)
  BY <1>1 DEF StatusChanges
<1>5. /\ IsFiniteSet(StatusChanges(log))
      /\ Cardinality(StatusChanges(log)) = Len(moves)
      /\ \A k \in StatusChanges(log) : ChangesUpTo(log, k) \in 1..Len(moves)
  BY <1>1, ChangesAreCounted DEF Records
<1>6. Cardinality(StatusChanges(longer)) = Len(more)
  BY <1>2, <1>3, <1>4, <1>5, FS_AddElement
<1>7. ASSUME NEW k \in StatusChanges(longer)
      PROVE  /\ longer[k].statusBefore = more[ChangesUpTo(longer, k)][1]
             /\ longer[k].statusAfter = more[ChangesUpTo(longer, k)][3]
  <2>1. CASE k = last
    <3>1. {j \in StatusChanges(longer) : j <= last} = StatusChanges(longer)
      BY <1>1, <1>3, <1>4
    <3>2. ChangesUpTo(longer, k) = Len(moves) + 1
      BY <1>2, <1>6, <2>1, <3>1 DEF ChangesUpTo
    <3> QED BY <1>1, <1>2, <2>1, <3>2
  <2>2. CASE k # last
    <3>1. k \in StatusChanges(log) /\ k \in 1..Len(log)
      BY <1>3, <1>4, <2>2
    <3>2. {j \in StatusChanges(longer) : j <= k} = {j \in StatusChanges(log) : j <= k}
      BY <1>1, <1>3, <3>1
    <3>3. ChangesUpTo(longer, k) = ChangesUpTo(log, k)
      BY <3>2 DEF ChangesUpTo
    <3>4. more[ChangesUpTo(log, k)] = moves[ChangesUpTo(log, k)]
      BY <1>2, <1>5, <3>1
    <3> QED BY <1>1, <3>1, <3>3, <3>4 DEF Records
  <2> QED BY <2>1, <2>2
<1>8. Records(longer, more)
  BY <1>6, <1>7 DEF Records
<1> QED BY <1>8 DEF longer, more

\* Every step appends to both logs or to neither, except for entries that
\* record no status change.
LEMMA LogsAgreeStep ==
    ASSUME TypeOK, LogsAgree, [Next]_vars
    PROVE  LogsAgree'
<1> SUFFICES ASSUME NEW e \in Deadline
             PROVE  Records(audit'[e], transitions'[e])
  BY DEF LogsAgree
<1>0. /\ Records(audit[e], transitions[e])
      /\ audit[e] \in Seq(AuditRecord) /\ transitions[e] \in Seq(Moves)
  BY DEF LogsAgree, TypeOK
<1>1. ASSUME NEW d \in Deadline, NEW entry \in AuditRecord,
             entry.type # "status_changed",
             audit' = [audit EXCEPT ![d] = Append(@, entry)],
             UNCHANGED transitions
      PROVE  Records(audit'[e], transitions'[e])
  <2>1. audit'[e] = IF e = d THEN Append(audit[e], entry) ELSE audit[e]
    BY <1>1 DEF TypeOK
  <2> QED BY <1>0, <1>1, <2>1, OtherEntryRecords
<1>2. ASSUME NEW d \in Deadline, NEW date \in Date, CreateDeadline(d, date)
      PROVE  Records(audit'[e], transitions'[e])
  <2> DEFINE entry == [type |-> "deadline_created", dueBefore |-> NoDate,
                       dueAfter |-> date, statusBefore |-> NoRow,
                       statusAfter |-> NoRow]
  <2>1. entry \in AuditRecord /\ entry.type # "status_changed"
    BY DEF AuditRecord
  <2> QED BY <1>1, <1>2, <2>1 DEF CreateDeadline, Audit
<1>3. ASSUME NEW d \in Deadline, NEW date \in Date, UpdateDeadline(d, date)
      PROVE  Records(audit'[e], transitions'[e])
  <2> DEFINE entry == [type |-> "deadline_updated", dueBefore |-> dueDate[d],
                       dueAfter |-> date, statusBefore |-> NoRow,
                       statusAfter |-> NoRow]
  <2>1. entry \in AuditRecord /\ entry.type # "status_changed"
    BY DEF AuditRecord, TypeOK
  <2> QED BY <1>1, <1>3, <2>1 DEF UpdateDeadline, KeepsItsDate, Audit
<1>4. ASSUME NEW d \in Deadline, NEW a, NEW u, NEW n,
             Inputs(a, u, n), ApplyDeadlineAction(d, a, u, n)
      PROVE  Records(audit'[e], transitions'[e])
  <2>1. PICK new \in Status, due \in Date : Effect(d, a, u, n, new, due)
    BY <1>4, ApplyEffect
  <2> DEFINE entry == [type |-> "status_changed", dueBefore |-> dueDate[d],
                       dueAfter |-> due, statusBefore |-> status[d],
                       statusAfter |-> new]
             move == <<status[d], a, new>>
  <2>2. /\ entry \in AuditRecord /\ entry.type = "status_changed"
        /\ entry.statusBefore = move[1] /\ entry.statusAfter = move[3]
    BY <1>4, ApplyEffect DEF AuditRecord
  <2>3. move \in Moves
    BY <2>1 DEF Effect
  <2>4. /\ audit' = [audit EXCEPT ![d] = Append(@, entry)]
        /\ transitions' = [transitions EXCEPT ![d] = Append(@, move)]
    BY <2>1 DEF Effect, Audit
  <2> HIDE DEF entry, move
  <2>5. /\ audit'[e] = IF e = d THEN Append(audit[e], entry) ELSE audit[e]
        /\ transitions'[e] =
             IF e = d THEN Append(transitions[e], move) ELSE transitions[e]
    BY <2>4 DEF TypeOK
  <2> QED BY <1>0, <2>2, <2>3, <2>5, ChangeEntryRecords
<1>5. ASSUME NEW now, NEW ts, TriggerDueReminders(now, ts)
      PROVE  Records(audit'[e], transitions'[e])
  BY <1>0, <1>5 DEF TriggerDueReminders
<1>6. CASE TablesUnchanged \/ UNCHANGED vars
  BY <1>0, <1>6 DEF TablesUnchanged, vars
<1> QED BY <1>2, <1>3, <1>4, <1>5, <1>6, StepCases

\* The audit log and deadline_transitions tell the same history: they hold as
\* many status changes, with the same statuses, in the same order.
THEOREM LogsTellTheSame == Spec => []LogsAgree
<1>1. Init => LogsAgree
  <2>1. StatusChanges(<<>>) = {}
    BY DEF StatusChanges
  <2>2. Cardinality(StatusChanges(<<>>)) = 0
    BY <2>1, FS_EmptySet
  <2>3. Records(<<>>, <<>>)
    BY <2>1, <2>2 DEF Records
  <2> QED BY <2>3 DEF Init, LogsAgree
<1> QED BY <1>1, LogsAgreeStep, TypeCorrect, PTL DEF Spec

-----------------------------------------------------------------------------
(* What was sent *)

Settled == {r \in reminders : r.status # "scheduled"}

\* An UPDATE of scheduled rows leaves the settled ones.
LEMMA MarkLeavesSettled ==
    ASSUME NEW which, \A r \in which : r.status = "scheduled", NEW new,
           Mark(which, new) \subseteq reminders'
    PROVE  Settled \subseteq reminders'
BY DEF Settled, Mark

\* A reminder that was triggered or cancelled stays in the table as it is:
\* no rebuild, reopening or later trigger touches its row.
THEOREM SettledStay == Spec => SettledRemindersStay
<1>1. ASSUME [Next]_vars, TypeOK
      PROVE  [Settled \subseteq reminders']_vars
  <2>1. ASSUME NEW d, NEW st, NEW due, RebuildReminders(d, st, due)
        PROVE  Settled \subseteq reminders'
    <3>1. Mark(ScheduledOf(d), "cancelled") \subseteq reminders'
      BY <2>1 DEF RebuildReminders
    <3>2. \A r \in ScheduledOf(d) : r.status = "scheduled"
      BY DEF ScheduledOf
    <3> QED BY <3>1, <3>2, MarkLeavesSettled
  <2>2. ASSUME NEW d \in Deadline, NEW date \in Date,
               CreateDeadline(d, date) \/ UpdateDeadline(d, date)
        PROVE  Settled \subseteq reminders'
    BY <2>1, <2>2 DEF CreateDeadline, UpdateDeadline
  <2>3. ASSUME NEW d \in Deadline, NEW a, NEW u, NEW n,
               Inputs(a, u, n), ApplyDeadlineAction(d, a, u, n)
        PROVE  Settled \subseteq reminders'
    <3>1. PICK new \in Status, due \in Date : Effect(d, a, u, n, new, due)
      BY <1>1, <2>3, ApplyEffect
    <3>2. CASE RebuildReminders(d, new, due)
      BY <2>1, <3>2
    <3>3. CASE reminders' = Mark(ScheduledOf(d), "cancelled")
      <4>1. \A r \in ScheduledOf(d) : r.status = "scheduled"
        BY DEF ScheduledOf
      <4> QED BY <3>3, <4>1, MarkLeavesSettled
    <3>4. CASE UNCHANGED reminders
      BY <3>4 DEF Settled
    <3> QED BY <3>1, <3>2, <3>3, <3>4 DEF Effect
  <2>4. ASSUME NEW now \in Instant, NEW ts \in SUBSET Tenant,
               TriggerDueReminders(now, ts)
        PROVE  Settled \subseteq reminders'
    <3> DEFINE due == {r \in reminders : /\ r.status = "scheduled"
                                         /\ r.at <= now
                                         /\ TenantOf[r.deadline] \in ts}
    <3>1. reminders' = Mark(due, "triggered")
      BY <2>4 DEF TriggerDueReminders
    <3>2. \A r \in due : r.status = "scheduled"
      OBVIOUS
    <3> HIDE DEF due
    <3> QED BY <3>1, <3>2, MarkLeavesSettled
  <2>5. CASE TablesUnchanged
    BY <2>5 DEF TablesUnchanged, Settled
  <2> QED BY <1>1, <2>2, <2>3, <2>4, <2>5, StepCases
<1> QED BY <1>1, TypeCorrect, PTL DEF Spec, SettledRemindersStay, Settled

-----------------------------------------------------------------------------
(* The rows of a build *)

\* The reminders of d are built anew, or only cancelled: `new` are the rows
\* that are added for the date the deadline has after the step.
Rebuilt(d, new) ==
    /\ reminders' = Mark(ScheduledOf(d), "cancelled") \cup new
    /\ \/ new = {} /\ builds' = builds
       \/ builds' = [builds EXCEPT ![d] = @ + 1]
    /\ \A r \in new : /\ r.deadline = d
                      /\ r.build = builds[d] + 1
                      /\ r.at = dueDate'[d] - r.day
                      /\ r.status = "scheduled"
    /\ \A r, s \in new : r.day = s.day => r = s

\* What an operation other than a trigger does to the reminders, and that it
\* moves no due date without a build.
Builds ==
    /\ \/ UNCHANGED <<reminders, builds>>
       \/ \E d \in Deadline, new \in SUBSET Reminder : Rebuilt(d, new)
    /\ \A e \in Deadline : dueDate'[e] = dueDate[e] \/ builds'[e] = builds[e] + 1

\* _rebuild_reminders with the date the row gets is a build.
LEMMA RebuildBuilds ==
    ASSUME TypeOK, NEW d \in Deadline, NEW st, NEW due \in Date,
           RebuildReminders(d, st, due), dueDate' = [dueDate EXCEPT ![d] = due]
    PROVE  Builds
<1> DEFINE new == IF st \in Closed THEN {} ELSE Batch(d, due)
<1>1. dueDate'[d] = due /\ \A e \in Deadline : e # d => dueDate'[e] = dueDate[e]
  BY DEF TypeOK
<1>2. \A r \in Batch(d, due) : /\ r \in Reminder
                               /\ r.deadline = d
                               /\ r.build = builds[d] + 1
                               /\ r.at = due - r.day
                               /\ r.status = "scheduled"
  BY BatchMembers
<1>3. \A r, s \in Batch(d, due) : r.day = s.day => r = s
  BY DEF Batch
<1>4. /\ reminders' = Mark(ScheduledOf(d), "cancelled") \cup new
      /\ builds' = [builds EXCEPT ![d] = @ + 1]
  BY DEF RebuildReminders
<1>5. new \in SUBSET Reminder /\ Rebuilt(d, new)
  BY <1>1, <1>2, <1>3, <1>4 DEF Rebuilt
<1>6. builds'[d] = builds[d] + 1
  BY <1>4 DEF TypeOK
<1> HIDE DEF new
<1> QED BY <1>1, <1>5, <1>6 DEF Builds

\* Every upsert and every action builds, cancels or leaves the reminders.
LEMMA StepBuilds ==
    ASSUME TypeOK, NEW d \in Deadline,
           \/ \E date \in Date : CreateDeadline(d, date) \/ UpdateDeadline(d, date)
           \/ \E a \in Action, u \in Instant \cup {NoDate}, n \in Date \cup {NoDate} :
                Inputs(a, u, n) /\ ApplyDeadlineAction(d, a, u, n)
    PROVE  Builds
<1>1. ASSUME NEW date \in Date, CreateDeadline(d, date) \/ UpdateDeadline(d, date)
      PROVE  Builds
  <2>1. dueDate' = [dueDate EXCEPT ![d] = date]
        /\ \E st : RebuildReminders(d, st, date)
    BY <1>1 DEF CreateDeadline, UpdateDeadline
  <2> QED BY <2>1, RebuildBuilds
<1>2. ASSUME NEW a \in Action, NEW u, NEW n,
             Inputs(a, u, n), ApplyDeadlineAction(d, a, u, n)
      PROVE  Builds
  <2>1. PICK new \in Status, due \in Date : Effect(d, a, u, n, new, due)
    BY <1>2, ApplyEffect
  <2>2. dueDate' = [dueDate EXCEPT ![d] = due]
    BY <2>1 DEF Effect
  <2>3. CASE RebuildReminders(d, new, due)
    BY <2>2, <2>3, RebuildBuilds
  <2>4. CASE a \notin Rebuilding \/ new \in Closed
    <3>1. a # "override"
      BY <2>1, <2>4 DEF Effect, Moves, Rebuilding, Closed
    <3>2. dueDate' = dueDate
      BY <2>1, <2>2, <3>1 DEF Effect, TypeOK
    <3>3. UNCHANGED <<reminders, builds>> \/ Rebuilt(d, {})
      BY <2>1, <2>4 DEF Effect, Rebuilt
    <3> QED BY <3>2, <3>3 DEF Builds
  <2> QED BY <2>1, <2>3, <2>4 DEF Effect
<1> QED BY <1>1, <1>2

SameKey(r, s) == r.deadline = s.deadline /\ r.build = s.build /\ r.day = s.day

\* Deadline, build and day tell the rows apart, and no row is of a build to
\* come.
KeyInv ==
    /\ \A r \in reminders : 1 <= r.build /\ r.build <= builds[r.deadline]
    /\ \A r, s \in reminders : SameKey(r, s) => r = s

\* Marking rows keeps their keys.
LEMMA MarkKeepsKeys ==
    ASSUME TypeOK, KeyInv, NEW which \in SUBSET reminders, NEW new \in ReminderStatus
    PROVE  /\ \A r \in Mark(which, new) :
                 1 <= r.build /\ r.build <= builds[r.deadline]
           /\ \A r, s \in Mark(which, new) : SameKey(r, s) => r = s
<1>1. ASSUME NEW r \in Mark(which, new)
      PROVE  r \in Reminder /\ \E x \in reminders : ComesFrom(r, x, which, new)
  BY MarkMembers DEF TypeOK
<1>2. ASSUME NEW r \in Mark(which, new)
      PROVE  1 <= r.build /\ r.build <= builds[r.deadline]
  <2>1. PICK x \in reminders : ComesFrom(r, x, which, new)
    BY <1>1
  <2> QED BY <2>1 DEF ComesFrom, KeyInv
<1>3. ASSUME NEW r \in Mark(which, new), NEW s \in Mark(which, new), SameKey(r, s)
      PROVE  r = s
  <2>1. PICK x \in reminders : ComesFrom(r, x, which, new)
    BY <1>1
  <2>2. PICK y \in reminders : ComesFrom(s, y, which, new)
    BY <1>1
  <2>3. x = y
    BY <1>3, <2>1, <2>2 DEF ComesFrom, KeyInv, SameKey
  <2>4. r \in Reminder /\ s \in Reminder
    BY <1>1
  <2> QED BY <2>1, <2>2, <2>3, <2>4 DEF ComesFrom, Reminder
<1> QED BY <1>2, <1>3

\* Every step keeps the keys of the rows.
LEMMA KeyInvStep ==
    ASSUME TypeOK, KeyInv, [Next]_vars
    PROVE  KeyInv'
<1>1. ASSUME UNCHANGED <<reminders, builds>> PROVE KeyInv'
  BY <1>1 DEF KeyInv, SameKey
<1>2. ASSUME NEW d \in Deadline, NEW new \in SUBSET Reminder, Rebuilt(d, new)
      PROVE  KeyInv'
  <2> DEFINE old == Mark(ScheduledOf(d), "cancelled")
  <2>1. /\ \A r \in old : 1 <= r.build /\ r.build <= builds[r.deadline]
        /\ \A r, s \in old : SameKey(r, s) => r = s
    BY MarkKeepsKeys DEF ScheduledOf, ReminderStatus
  <2>2. \A r \in old : r \in Reminder
    BY MarkMembers DEF TypeOK, ScheduledOf, ReminderStatus
  <2>3. /\ reminders' = old \cup new
        /\ \A r \in new : r.deadline = d /\ r.build = builds[d] + 1
        /\ \A r, s \in new : r.day = s.day => r = s
        /\ (new = {} /\ builds' = builds) \/ builds' = [builds EXCEPT ![d] = @ + 1]
    BY <1>2 DEF Rebuilt
  <2> HIDE DEF old
  <2>4. /\ new # {} => builds'[d] = builds[d] + 1
        /\ \A e \in Deadline : /\ builds[e] \in Nat /\ builds'[e] \in Nat
                               /\ builds'[e] >= builds[e]
    <3>1. builds \in [Deadline -> Nat]
      BY DEF TypeOK
    <3>2. CASE new = {} /\ builds' = builds
      BY <3>1, <3>2
    <3>3. CASE builds' = [builds EXCEPT ![d] = @ + 1]
      BY <3>1, <3>3
    <3> QED BY <2>3, <3>2, <3>3
  <2>5. \A r \in old, s \in new : ~SameKey(r, s) /\ ~SameKey(s, r)
    BY <2>1, <2>2, <2>3, <2>4 DEF SameKey, Reminder
  <2>6. \A r, s \in reminders' : SameKey(r, s) => r = s
    BY <2>1, <2>3, <2>5 DEF SameKey
  <2>7. ASSUME NEW r \in reminders'
        PROVE  1 <= r.build /\ r.build <= builds'[r.deadline]
    <3>1. CASE r \in old
      BY <2>1, <2>2, <2>3, <2>4, <3>1 DEF Reminder
    <3>2. CASE r \in new
      BY <2>3, <2>4, <3>2
    <3> QED BY <2>3, <3>1, <3>2
  <2> QED BY <2>6, <2>7 DEF KeyInv, SameKey
<1>3. ASSUME NEW now \in Instant, NEW ts \in SUBSET Tenant,
             TriggerDueReminders(now, ts)
      PROVE  KeyInv'
  BY <1>3, MarkKeepsKeys DEF TriggerDueReminders, KeyInv, SameKey, ReminderStatus
<1>4. CASE TablesUnchanged \/ UNCHANGED vars
  BY <1>1, <1>4 DEF TablesUnchanged, vars
<1> QED BY <1>1, <1>2, <1>3, <1>4, StepCases, StepBuilds DEF Builds

\* Deadline, build and day are a key of the reminders table in every
\* reachable state.
LEMMA KeysTellRowsApart == Spec => []KeyInv
<1>1. Init => KeyInv
  BY DEF Init, KeyInv
<1> QED BY <1>1, KeyInvStep, TypeCorrect, PTL DEF Spec

=============================================================================

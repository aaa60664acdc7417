------------------------ MODULE DeadlineBoardProofs ------------------------
(***************************************************************************)
(* Proof that the deadline store implements DeadlineBoard, for every set   *)
(* of deadlines, tenants, dates, offsets, times and resuming processes.    *)
(* What an operation does to the table of reminders is reduced to what it  *)
(* does to the reminders owed; the rest follows StepCases of               *)
(* DeadlinesProofs.                                                        *)
(***************************************************************************)
EXTENDS DeadlinesProofs

\* The mapping's view of the rows, in one place: no deadline has a date
\* pinned unless a user has overridden it.
Pinned == [d \in Deadline |-> overrideDate[d] # NoDate]

OwedBy == [d \in Deadline |-> Owed(d)]

\* The same by the column `day`, which is easier to follow through the rows.
Days(d) == {r.day : r \in ScheduledOf(d)}

DaysBy == [d \in Deadline |-> Days(d)]

\* A scheduled row is that of its day before the present due date, so that
\* the two views agree.
ViewsAgree == OwedBy = DaysBy

\* It is ReminderInv that makes them agree.
LEMMA ReminderInvViews == TypeOK /\ ReminderInv => ViewsAgree
<1> SUFFICES ASSUME TypeOK, ReminderInv, NEW d \in Deadline PROVE Owed(d) = Days(d)
  BY DEF ViewsAgree, OwedBy, DaysBy
<1>1. ASSUME NEW r \in ScheduledOf(d) PROVE dueDate[d] - r.at = r.day
  <2>1. r \in reminders /\ r.deadline = d /\ r.status = "scheduled"
    BY DEF ScheduledOf
  <2>2. r.at = dueDate[d] - r.day /\ r.day \in Int /\ dueDate[d] \in Int
    BY <2>1, DeadlinesAssumption DEF ReminderInv, RowOfReminder, TypeOK, Reminder
  <2> QED BY <2>2
<1> QED BY <1>1 DEF Owed, Days

-----------------------------------------------------------------------------
(* What is still to be sent *)

\* Rows that are marked triggered or cancelled are the ones that are no
\* longer scheduled; the others stay.
LEMMA MarkScheduled ==
    ASSUME TypeOK, NEW which \in SUBSET reminders,
           NEW new \in {"triggered", "cancelled"}, NEW r
    PROVE  (r \in Mark(which, new) /\ r.status = "scheduled")
             <=> (r \in reminders /\ r \notin which /\ r.status = "scheduled")
<1>1. ASSUME NEW x \in which PROVE [x EXCEPT !.status = new].status # "scheduled"
  BY DEF TypeOK, Reminder
<1> QED BY <1>1 DEF Mark

\* Cancelling what a deadline has scheduled leaves it owing nothing, and the
\* other deadlines what they owed.
LEMMA CancelOwes ==
    ASSUME TypeOK, NEW d \in Deadline,
           reminders' = Mark(ScheduledOf(d), "cancelled")
    PROVE  DaysBy' = [DaysBy EXCEPT ![d] = {}]
<1>1. ASSUME NEW e \in Deadline
      PROVE  ScheduledOf(e)' = IF e = d THEN {} ELSE ScheduledOf(e)
  <2>1. ScheduledOf(d) \in SUBSET reminders
    BY DEF ScheduledOf
  <2>2. \A r : (r \in reminders' /\ r.status = "scheduled")
                 <=> (r \in reminders /\ r \notin ScheduledOf(d) /\ r.status = "scheduled")
    BY <2>1, MarkScheduled
  <2> QED BY <2>2 DEF ScheduledOf
<1>2. \A e \in Deadline : Days(e)' = IF e = d THEN {} ELSE Days(e)
  BY <1>1 DEF Days
<1> QED BY <1>2 DEF DaysBy

\* After a rebuild an open deadline owes every offset, a closed one none, and
\* the others what they owed.
LEMMA RebuildOwes ==
    ASSUME TypeOK, NEW d \in Deadline, NEW st, NEW due \in Date,
           RebuildReminders(d, st, due)
    PROVE  DaysBy' = [DaysBy EXCEPT ![d] = IF st \in Closed THEN {} ELSE Offset]
<1> DEFINE new == IF st \in Closed THEN {} ELSE Batch(d, due)
<1>1. ScheduledOf(d) \in SUBSET reminders
  BY DEF ScheduledOf
<1>2. \A r \in new : r.deadline = d /\ r.status = "scheduled"
  BY BatchMembers
<1>3. reminders' = Mark(ScheduledOf(d), "cancelled") \cup new
  BY DEF RebuildReminders
<1> HIDE DEF new
<1>4. \A r : (r \in reminders' /\ r.status = "scheduled")
               <=> \/ r \in reminders /\ r \notin ScheduledOf(d) /\ r.status = "scheduled"
                   \/ r \in new
  BY <1>1, <1>2, <1>3, MarkScheduled
<1>5. ASSUME NEW e \in Deadline
      PROVE  ScheduledOf(e)' = IF e = d THEN new ELSE ScheduledOf(e)
  BY <1>2, <1>4 DEF ScheduledOf
<1>6. {r.day : r \in new} = IF st \in Closed THEN {} ELSE Offset
  <2> DEFINE row(o) == [deadline |-> d, build |-> builds[d] + 1, day |-> o,
                        at |-> due - o, status |-> "scheduled"]
  <2>1. Batch(d, due) = {row(o) : o \in Offset} /\ \A o \in Offset : row(o).day = o
    BY DEF Batch
  <2> HIDE DEF row
  <2>2. {r.day : r \in Batch(d, due)} = Offset
    BY <2>1
  <2> QED BY <2>2 DEF new
<1>7. \A e \in Deadline :
        Days(e)' = IF e = d THEN IF st \in Closed THEN {} ELSE Offset ELSE Days(e)
  BY <1>5, <1>6 DEF Days
<1> QED BY <1>7 DEF DaysBy

\* Triggering what is due sends the owed reminders whose time before the
\* present due date has come, since what is scheduled was placed before it.
LEMMA TriggerOwes ==
    ASSUME TypeOK, ReminderInv, NEW now \in Instant, NEW ts \in SUBSET Tenant,
           TriggerDueReminders(now, ts)
    PROVE  DaysBy' = [d \in Deadline |->
                        IF TenantOf[d] \in ts
                        THEN {o \in DaysBy[d] : dueDate[d] - o > now} ELSE DaysBy[d]]
<1> DEFINE due == {r \in reminders : /\ r.status = "scheduled"
                                     /\ r.at <= now
                                     /\ TenantOf[r.deadline] \in ts}
<1>1. due \in SUBSET reminders /\ reminders' = Mark(due, "triggered")
  BY DEF TriggerDueReminders
<1>2. \A r \in reminders : r \in due <=> /\ r.status = "scheduled"
                                        /\ r.at <= now
                                        /\ TenantOf[r.deadline] \in ts
  OBVIOUS
<1> HIDE DEF due
<1>3. \A r : (r \in reminders' /\ r.status = "scheduled")
               <=> (r \in reminders /\ r \notin due /\ r.status = "scheduled")
  BY <1>1, MarkScheduled
<1>4. ASSUME NEW d \in Deadline, NEW r \in ScheduledOf(d)
      PROVE  /\ r \in reminders /\ r.deadline = d /\ r.status = "scheduled"
             /\ r.at = dueDate[d] - r.day
             /\ r.at \in Int /\ now \in Int
  BY DeadlinesAssumption DEF ScheduledOf, ReminderInv, RowOfReminder, TypeOK, Reminder
<1>5. ASSUME NEW d \in Deadline
      PROVE  ScheduledOf(d)' = {r \in ScheduledOf(d) :
                                  TenantOf[d] \in ts => dueDate[d] - r.day > now}
  <2>1. ScheduledOf(d)' = {r \in ScheduledOf(d) : r \notin due}
    BY <1>3 DEF ScheduledOf
  <2>2. ASSUME NEW r \in ScheduledOf(d)
        PROVE  r \notin due <=> (TenantOf[d] \in ts => dueDate[d] - r.day > now)
    BY <1>2, <1>4
  <2> QED BY <2>1, <2>2
<1>6. ASSUME NEW d \in Deadline
      PROVE  Days(d)' = IF TenantOf[d] \in ts
                        THEN {o \in Days(d) : dueDate[d] - o > now} ELSE Days(d)
  <2>1. Days(d)' = {r.day : r \in ScheduledOf(d)'}
    BY DEF Days
  <2> QED BY <1>5, <2>1 DEF Days
<1> QED BY <1>6 DEF DaysBy

-----------------------------------------------------------------------------
(* The steps of the board *)

\* A new row is an insertion.
LEMMA CreateIsInsert ==
    ASSUME TypeOK, ViewsAgree, ViewsAgree', NEW d \in Deadline, NEW date \in Date, CreateDeadline(d, date)
    PROVE  Board!Insert(d, date)
<1>1. OwedBy' = [OwedBy EXCEPT ![d] = Offset]
  BY RebuildOwes DEF CreateDeadline, Closed, ViewsAgree
<1>2. Pinned' = Pinned
  BY DEF CreateDeadline, Pinned
<1> QED BY <1>1, <1>2 DEF CreateDeadline, Board!Insert, Board!NoRow, NoRow, OwedBy, Pinned

\* A row whose date a rule moves was not pinned.
LEMMA UpdateIsMove ==
    ASSUME TypeOK, ViewsAgree, ViewsAgree', NEW d \in Deadline, NEW date \in Date, UpdateDeadline(d, date)
    PROVE  Board!Move(d, date)
<1>1. OwedBy' = [OwedBy EXCEPT ![d] = Board!AllOf(status[d])]
  BY RebuildOwes DEF UpdateDeadline, Board!AllOf, Board!Closed, Closed, ViewsAgree
<1>2. Pinned' = Pinned /\ ~Pinned[d]
  BY DEF UpdateDeadline, KeepsItsDate, Pinned
<1> QED BY <1>1, <1>2 DEF UpdateDeadline, KeepsItsDate, Board!Move, Board!NoRow, NoRow, OwedBy, Pinned

\* An override pins the date; every other action is a step of the life cycle.
LEMMA ApplyIsActOrPin ==
    ASSUME TypeOK, ViewsAgree, ViewsAgree', NEW d \in Deadline,
           NEW a \in Action, NEW u, NEW n,
           Inputs(a, u, n), ApplyDeadlineAction(d, a, u, n)
    PROVE  \/ \E due \in Date : Board!Pin(d, due)
           \/ \E new \in Status : Board!Act(d, a, new)
<1>1. PICK new \in Status, due \in Date : Effect(d, a, u, n, new, due)
  BY ApplyEffect
<1>2. OwedBy' = [OwedBy EXCEPT ![d] = IF new \in Closed THEN {}
                                      ELSE IF a \in Rebuilding THEN Offset ELSE @]
  <2>1. CASE new \in Closed /\ reminders' = Mark(ScheduledOf(d), "cancelled")
    BY <2>1, CancelOwes DEF ViewsAgree
  <2>2. CASE new \notin Closed /\ a \in Rebuilding /\ RebuildReminders(d, new, due)
    BY <2>2, RebuildOwes DEF ViewsAgree
  <2>3. CASE new \notin Closed /\ a \notin Rebuilding /\ UNCHANGED <<reminders, builds>>
    <3>1. OwedBy' = OwedBy
      BY <2>3 DEF DaysBy, Days, ScheduledOf, ViewsAgree
    <3> QED BY <2>3, <3>1 DEF OwedBy
  <2> QED BY <1>1, <2>1, <2>2, <2>3 DEF Effect
<1>3. CASE a = "override"
  <2>1. new = "overridden" /\ due # NoDate
    BY <1>1, <1>3, DeadlinesAssumption DEF Effect, Moves
  <2>2. Pinned' = [Pinned EXCEPT ![d] = TRUE]
    BY <1>1, <1>3, <2>1 DEF Effect, TypeOK, Pinned
  <2>3. OwedBy' = [OwedBy EXCEPT ![d] = Offset]
    BY <1>2, <1>3, <2>1 DEF Closed, Rebuilding
  <2>4. Board!Pin(d, due)
    BY <1>1, <1>3, <2>1, <2>2, <2>3 DEF Effect, Board!Pin, Board!Moves, Moves, OwedBy, Pinned
  <2> QED BY <2>4
<1>4. CASE a # "override"
  <2>1. dueDate' = dueDate
    BY <1>1, <1>4 DEF Effect, TypeOK
  <2>2. Pinned' = Pinned
    BY <1>1, <1>4 DEF Effect, TypeOK, Pinned
  <2>3. Board!Act(d, a, new)
    BY <1>1, <1>2, <1>4, <2>1, <2>2
       DEF Effect, Board!Act, Board!Moves, Moves, Board!Closed, Closed, Board!Rebuilding,
           Rebuilding, OwedBy, Pinned
  <2> QED BY <2>3
<1> QED BY <1>3, <1>4

\* Every step of the store is a step of the board, or none.
LEMMA StepImplements ==
    ASSUME TypeOK, ReminderInv, ViewsAgree, ViewsAgree', [Next]_vars
    PROVE  [Board!Next]_Board!boardVars
<1>1. ASSUME NEW d \in Deadline, NEW date \in Date,
             CreateDeadline(d, date) \/ UpdateDeadline(d, date)
      PROVE  Board!Next
  BY <1>1, CreateIsInsert, UpdateIsMove DEF Board!Next
<1>2. ASSUME NEW d \in Deadline, NEW a \in Action, NEW u, NEW n,
             Inputs(a, u, n), ApplyDeadlineAction(d, a, u, n)
      PROVE  Board!Next
  BY <1>2, ApplyIsActOrPin DEF Board!Next, Board!Action, Action, Board!Status, Status
<1>3. ASSUME NEW now \in Instant, NEW ts \in SUBSET Tenant,
             TriggerDueReminders(now, ts)
      PROVE  Board!Next
  <2>1. OwedBy' = [d \in Deadline |->
                     IF TenantOf[d] \in ts
                     THEN {o \in OwedBy[d] : dueDate[d] - o > now} ELSE OwedBy[d]]
    BY <1>3, TriggerOwes DEF ViewsAgree
  <2>2. Board!Remind(now, ts)
    BY <1>3, <2>1 DEF Board!Remind, TriggerDueReminders, rowVars, OwedBy
  <2> QED BY <2>2 DEF Board!Next
<1>4. CASE TablesUnchanged \/ UNCHANGED vars
  <2>1. UNCHANGED <<status, dueDate, overrideDate, reminders>>
    BY <1>4 DEF TablesUnchanged, vars, rowVars
  <2>2. \A d \in Deadline : Owed(d)' = Owed(d)
    BY <2>1 DEF Owed, ScheduledOf
  <2> QED BY <2>1, <2>2 DEF Board!boardVars
<1> QED BY <1>1, <1>2, <1>3, <1>4, StepCases

\* The rows, builds and statuses of the deadline store implement a board on
\* which each open deadline owes its reminders at their distance from the due
\* date it has now, and a closed one none.
THEOREM StoreImplementsBoard == Spec => ImplementsBoard
<1>1. Init => ReminderInv
  BY DEF Init, ReminderInv
<1>2. Init => Board!Init
  <2>1. ASSUME Init, NEW d \in Deadline PROVE Owed(d) = {} /\ overrideDate[d] = NoDate
    BY <2>1 DEF Init, Owed, ScheduledOf
  <2> QED BY <2>1 DEF Init, Board!Init, Board!NoRow, NoRow
<1> QED BY <1>1, <1>2, ReminderInvStep, ReminderInvViews,
       StepImplements, TypeCorrect, PTL
       DEF Spec, ImplementsBoard, Board!Spec

=============================================================================

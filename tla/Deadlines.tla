----------------------------- MODULE Deadlines -----------------------------
(***************************************************************************)
(* The deadline store of core/engine.py: the tables deadlines, reminders,  *)
(* deadline_transitions and audit_log, and every operation of the program  *)
(* that writes them.  An operation is one `with self._transaction(...)`    *)
(* block.  On SQLite such a block is serialised against every other one    *)
(* and either commits or leaves nothing behind (storage.py, transaction),  *)
(* so an operation that commits is ONE step and an operation that raises   *)
(* (unknown row, illegal transition, missing argument, a failed audit      *)
(* insert, "database is locked") is no step.  resume_due_snoozes is not    *)
(* one transaction: it lists rows and then resumes them one by one.        *)
(*                                                                         *)
(* Time is an integer.  Every operation takes its own `now` (the command   *)
(* line's --at), which need not grow, so there is no clock variable.       *)
(***************************************************************************)
EXTENDS Integers, Sequences, FiniteSets, StateMachine

CONSTANTS
    Deadline,    \* the (client, tax_type, jurisdiction) slots: one row each
    Tenant,      \* the tenants that own them
    TenantOf,    \* the owner of each slot
    Date,        \* due dates a rule or an override may give
    Offset,      \* how long before the due date to remind: 30, 14, 7, 1 days
    Instant,     \* values of `now` and `until`
    Resumer,     \* processes that run resume_due_snoozes
    NoDate,      \* SQL NULL
    MaxEvents    \* bound: audit entries of each deadline

ASSUME DeadlinesAssumption ==
    /\ Date \subseteq Int
    /\ Instant \subseteq Int
    /\ Offset \subseteq Int
    /\ NoDate \notin Date \cup Instant
    /\ TenantOf \in [Deadline -> Tenant]
    /\ MaxEvents \in [Deadline -> Nat]

VARIABLES
    status,        \* deadlines.status, NoRow before the row is inserted
    dueDate,       \* deadlines.due_date
    overrideDate,  \* deadlines.override_date
    snoozedUntil,  \* deadlines.snoozed_until
    reminders,     \* the rows of the table reminders
    builds,        \* how many times the reminders were built: makes rows unique
    transitions,   \* the rows of deadline_transitions, per deadline, in order
    audit,         \* the audit_log rows about each deadline, in order
    toResume       \* the rows each run of resume_due_snoozes has still to do

rowVars == <<status, dueDate, overrideDate, snoozedUntil>>
vars == <<rowVars, reminders, builds, transitions, audit, toResume>>

ReminderStatus == {"scheduled", "triggered", "cancelled"}

Reminder == [deadline: Deadline, build: Nat, day: Offset, at: Int,
             status: ReminderStatus]

AuditRecord ==
    [type: {"deadline_created", "deadline_updated", "status_changed"},
     dueBefore: Date \cup {NoDate}, dueAfter: Date,
     statusBefore: Status \cup {NoRow}, statusAfter: Status \cup {NoRow}]

TypeOK ==
    /\ status \in [Deadline -> Status \cup {NoRow}]
    /\ dueDate \in [Deadline -> Date \cup {NoDate}]
    /\ \A d \in Deadline : status[d] = NoRow <=> dueDate[d] = NoDate
    /\ overrideDate \in [Deadline -> Date \cup {NoDate}]
    /\ snoozedUntil \in [Deadline -> Instant \cup {NoDate}]
    /\ reminders \subseteq Reminder
    /\ builds \in [Deadline -> Nat]
    /\ transitions \in [Deadline -> Seq(Moves)]
    /\ audit \in [Deadline -> Seq(AuditRecord)]
    /\ toResume \in [Resumer -> SUBSET Deadline]

Init ==
    /\ status = [d \in Deadline |-> NoRow]
    /\ dueDate = [d \in Deadline |-> NoDate]
    /\ overrideDate = [d \in Deadline |-> NoDate]
    /\ snoozedUntil = [d \in Deadline |-> NoDate]
    /\ reminders = {}
    /\ builds = [d \in Deadline |-> 0]
    /\ transitions = [d \in Deadline |-> <<>>]
    /\ audit = [d \in Deadline |-> <<>>]
    /\ toResume = [p \in Resumer |-> {}]

-----------------------------------------------------------------------------
(* Reminders *)

\* Faulty variants: every row of the deadline; every scheduled row there is.
ScheduledOf_AnyStatus(d) == {r \in reminders : r.deadline = d}

ScheduledOf_AnyDeadline(d) == {r \in reminders : r.status = "scheduled"}

\* The rows an UPDATE of reminders with this deadline_id, and status
\* `scheduled`, applies to.
ScheduledOf(d) == {r \in reminders : r.deadline = d /\ r.status = "scheduled"}

\* The table after the rows of `which` got the status `new`.
Mark(which, new) ==
    (reminders \ which) \cup {[r EXCEPT !.status = new] : r \in which}

\* The four rows _rebuild_reminders inserts for a due date.
Batch(d, due) ==
    {[deadline |-> d, build |-> builds[d] + 1, day |-> o, at |-> due - o,
      status |-> "scheduled"] : o \in Offset}

\* Faulty variants: for a closed deadline too; on top of what is scheduled.
RebuildReminders_Closed(d, st, due) ==
    /\ reminders' = Mark(ScheduledOf(d), "cancelled") \cup Batch(d, due)
    /\ builds' = [builds EXCEPT ![d] = @ + 1]

RebuildReminders_OnTop(d, st, due) ==
    /\ reminders' = reminders \cup (IF st \in Closed THEN {} ELSE Batch(d, due))
    /\ builds' = [builds EXCEPT ![d] = @ + 1]

\* _rebuild_reminders: cancel what is scheduled, and unless the deadline is
\* closed schedule every offset of the due date again, those past included.
RebuildReminders(d, st, due) ==
    /\ reminders' = Mark(ScheduledOf(d), "cancelled")
                      \cup (IF st \in Closed THEN {} ELSE Batch(d, due))
    /\ builds' = [builds EXCEPT ![d] = @ + 1]

\* Faulty variant: `before` is taken after the row was updated.
Audit_Late(d, type, dueBefore, dueAfter, statusBefore, statusAfter) ==
    audit' = [audit EXCEPT ![d] = Append(@,
        [type |-> type, dueBefore |-> dueAfter, dueAfter |-> dueAfter,
         statusBefore |-> statusAfter, statusAfter |-> statusAfter])]

\* _insert_audit and the `before` and `after` of its callers.
Audit(d, type, dueBefore, dueAfter, statusBefore, statusAfter) ==
    audit' = [audit EXCEPT ![d] = Append(@,
        [type |-> type, dueBefore |-> dueBefore, dueAfter |-> dueAfter,
         statusBefore |-> statusBefore, statusAfter |-> statusAfter])]

\* A bound on the model, not of the program.  Resuming is exempt, since every
\* resume uses up a snooze, and must not be cut off in the middle of a loop.
Bounded(d) == Len(audit[d]) < MaxEvents[d]

-----------------------------------------------------------------------------
(* _upsert_deadline_from_rule, reached from register_client,               *)
(* update_client_states and create_rule, with the date of some rule.  When *)
(* the row is overridden or has that date already, nothing is written.     *)

\* Faulty variant: the row is inserted without its date.
CreateDeadline_NoDate(d, date) ==
    /\ Bounded(d)
    /\ status[d] = NoRow
    /\ status' = [status EXCEPT ![d] = "pending"]
    /\ Audit(d, "deadline_created", NoDate, date, NoRow, NoRow)
    /\ RebuildReminders(d, "pending", date)
    /\ UNCHANGED <<dueDate, overrideDate, snoozedUntil, transitions, toResume>>

CreateDeadline(d, date) ==
    /\ Bounded(d)
    /\ status[d] = NoRow
    /\ status' = [status EXCEPT ![d] = "pending"]
    /\ dueDate' = [dueDate EXCEPT ![d] = date]
    /\ Audit(d, "deadline_created", NoDate, date, NoRow, NoRow)
    /\ RebuildReminders(d, "pending", date)
    /\ UNCHANGED <<overrideDate, snoozedUntil, transitions, toResume>>

\* Faulty variant: the override is not looked at.
KeepsItsDate_OnlyIfSame(d, date) == dueDate[d] = date

KeepsItsDate(d, date) == overrideDate[d] # NoDate \/ dueDate[d] = date

\* Faulty variant: the date moves, and its reminders stay.
UpdateDeadline_KeepsReminders(d, date) ==
    /\ Bounded(d)
    /\ status[d] # NoRow
    /\ ~KeepsItsDate(d, date)
    /\ dueDate' = [dueDate EXCEPT ![d] = date]
    /\ Audit(d, "deadline_updated", dueDate[d], date, NoRow, NoRow)
    /\ UNCHANGED <<status, overrideDate, snoozedUntil, reminders, builds,
                   transitions, toResume>>

UpdateDeadline(d, date) ==
    /\ Bounded(d)
    /\ status[d] # NoRow
    /\ ~KeepsItsDate(d, date)
    /\ dueDate' = [dueDate EXCEPT ![d] = date]
    /\ Audit(d, "deadline_updated", dueDate[d], date, NoRow, NoRow)
    /\ RebuildReminders(d, status[d], date)
    /\ UNCHANGED <<status, overrideDate, snoozedUntil, transitions, toResume>>

-----------------------------------------------------------------------------
(* apply_deadline_action: the state machine, the row, the transition log,  *)
(* the audit log and the reminders, in one transaction.                    *)

SnoozedUntilAfter(d, action, until) ==
    IF action = "snooze" THEN until ELSE NoDate

\* Faulty variant: only what a user does is logged.
InsertTransition_Users(d, action, new) ==
    transitions' = IF action = "resume" THEN transitions
                   ELSE [transitions EXCEPT ![d] = Append(@, <<status[d], action, new>>)]

InsertTransition(d, action, new) ==
    transitions' = [transitions EXCEPT ![d] = Append(@, <<status[d], action, new>>)]

ApplyDeadlineAction(d, action, until, newDate) ==
    LET due == IF action = "override" THEN newDate ELSE dueDate[d]
    IN \E new \in Status :
         /\ <<status[d], action, new>> \in Moves
         /\ status' = [status EXCEPT ![d] = new]
         /\ dueDate' = [dueDate EXCEPT ![d] = due]
         /\ overrideDate' = [overrideDate EXCEPT
                               ![d] = IF action = "override" THEN newDate ELSE @]
         /\ snoozedUntil' = [snoozedUntil EXCEPT
                               ![d] = SnoozedUntilAfter(d, action, until)]
         /\ InsertTransition(d, action, new)
         /\ Audit(d, "status_changed", dueDate[d], due, status[d], new)
         /\ \/ /\ new \in Closed
               /\ reminders' = Mark(ScheduledOf(d), "cancelled")
               /\ UNCHANGED builds
            \/ /\ new \notin Closed
               /\ action \in Rebuilding
               /\ RebuildReminders(d, new, due)
            \/ /\ new \notin Closed
               /\ action \notin Rebuilding
               /\ UNCHANGED <<reminders, builds>>

\* The command line offers every action but resume.
UserAction(d) ==
    /\ Bounded(d)
    /\ \/ \E a \in {"complete", "waive", "reopen"} :
             ApplyDeadlineAction(d, a, NoDate, NoDate)
       \/ \E until \in Instant : ApplyDeadlineAction(d, "snooze", until, NoDate)
       \/ \E date \in Date : ApplyDeadlineAction(d, "override", NoDate, date)
    /\ UNCHANGED toResume

-----------------------------------------------------------------------------
(* trigger_due_reminders, for all tenants or for one.                      *)

TriggerDueReminders(now, tenants) ==
    LET due == {r \in reminders : /\ r.status = "scheduled"
                                  /\ r.at <= now
                                  /\ TenantOf[r.deadline] \in tenants}
    IN /\ due # {}
       /\ reminders' = Mark(due, "triggered")
       /\ UNCHANGED <<rowVars, builds, transitions, audit, toResume>>

-----------------------------------------------------------------------------
(* resume_due_snoozes: one query, then one transaction per row it found.   *)
(* A row that is no longer snoozed raises InvalidTransitionError, and the  *)
(* rows after it are not resumed.                                          *)

ListDueSnoozes(p, now) ==
    /\ toResume[p] = {}
    /\ toResume' = [toResume EXCEPT ![p] =
           {d \in Deadline : status[d] = "snoozed" /\ snoozedUntil[d] <= now}]
    /\ UNCHANGED <<rowVars, reminders, builds, transitions, audit>>

\* Faulty variant: the row is resumed as it was when it was listed.
ResumeListed_AsListed(p, d) ==
    /\ d \in toResume[p]
    /\ status' = [status EXCEPT ![d] = "pending"]
    /\ snoozedUntil' = [snoozedUntil EXCEPT ![d] = NoDate]
    /\ transitions' = [transitions EXCEPT
                         ![d] = Append(@, <<"snoozed", "resume", "pending">>)]
    /\ Audit(d, "status_changed", dueDate[d], dueDate[d], "snoozed", "pending")
    /\ RebuildReminders(d, "pending", dueDate[d])
    /\ toResume' = [toResume EXCEPT ![p] = @ \ {d}]
    /\ UNCHANGED <<dueDate, overrideDate>>

ResumeListed(p, d) ==
    /\ d \in toResume[p]
    /\ ApplyDeadlineAction(d, "resume", NoDate, NoDate)
    /\ toResume' = [toResume EXCEPT ![p] = @ \ {d}]

\* The loop ends early: a row raises, the database is locked, the process dies.
ResumeFails(p) ==
    /\ toResume[p] # {}
    /\ toResume' = [toResume EXCEPT ![p] = {}]
    /\ UNCHANGED <<rowVars, reminders, builds, transitions, audit>>

-----------------------------------------------------------------------------
Next ==
    \/ \E d \in Deadline, date \in Date :
         CreateDeadline(d, date) \/ UpdateDeadline(d, date)
    \/ \E d \in Deadline : UserAction(d)
    \/ \E now \in Instant :
         \/ TriggerDueReminders(now, Tenant)
         \/ \E t \in Tenant : TriggerDueReminders(now, {t})
    \/ \E p \in Resumer :
         \/ \E now \in Instant : ListDueSnoozes(p, now)
         \/ \E d \in Deadline : ResumeListed(p, d)
         \/ ResumeFails(p)

Spec == Init /\ [][Next]_vars

-----------------------------------------------------------------------------
(* Safety *)

\* Completing or waiving a deadline, and any later change of its due date,
\* leaves no reminder that trigger_due_reminders could still send.
ClosedDeadlinesAreQuiet ==
    \A r \in reminders :
        status[r.deadline] \in Closed => r.status # "scheduled"

\* A reminder still to be sent belongs to the last build and is placed
\* before the due date the deadline has NOW, however often it moved.
RemindersFollowDueDate ==
    \A r \in reminders : r.status = "scheduled" =>
        /\ r.build = builds[r.deadline]
        /\ r.at = dueDate[r.deadline] - r.day

\* An open deadline never loses a reminder: each offset of the last build is
\* still to be sent or was sent, under any order of actions and date changes.
NoReminderIsLost ==
    \A d \in Deadline : status[d] \notin Closed \cup {NoRow} =>
        \A o \in Offset : \E r \in reminders :
            /\ r.deadline = d /\ r.day = o /\ r.build = builds[d]
            /\ r.status # "cancelled"

\* deadline_transitions is a path of the state machine from `pending` to the
\* status in the row: nothing but a logged action moves a deadline.
TransitionLogExplainsStatus ==
    \A d \in Deadline :
        LET log == transitions[d]
        IN /\ log = <<>> => status[d] \in {NoRow, "pending"}
           /\ log # <<>> => /\ log[1][1] = "pending"
                            /\ log[Len(log)][3] = status[d]
           /\ \A i \in 1..(Len(log) - 1) : log[i][3] = log[i + 1][1]

\* Read in order, the audit entries of a deadline hand its due date over from
\* one to the next and end at the date in the row: no date change escapes.
AuditExplainsDueDate ==
    \A d \in Deadline :
        LET log == audit[d]
        IN /\ log = <<>> <=> status[d] = NoRow
           /\ log = <<>> => dueDate[d] = NoDate
           /\ log # <<>> => log[Len(log)].dueAfter = dueDate[d]
           /\ \A i \in 1..(Len(log) - 1) : log[i].dueAfter = log[i + 1].dueBefore

\* The entries of an audit log that record a status change, and how many of
\* them there are up to the k-th entry.
StatusChanges(log) == {k \in 1..Len(log) : log[k].type = "status_changed"}

ChangesUpTo(log, k) == Cardinality({j \in StatusChanges(log) : j <= k})

\* The status changes that `log` records are those of `moves`, in the same order.
Records(log, moves) ==
    /\ Cardinality(StatusChanges(log)) = Len(moves)
    /\ \A k \in StatusChanges(log) :
         /\ log[k].statusBefore = moves[ChangesUpTo(log, k)][1]
         /\ log[k].statusAfter = moves[ChangesUpTo(log, k)][3]

\* The two logs agree: the status changes the audit log records are those of
\* deadline_transitions, in the same order.
LogsAgree == \A d \in Deadline : Records(audit[d], transitions[d])

\* Once a user has set a date, it is the due date, through snoozes, closing,
\* reopening, resuming and every refresh from a rule.
OverrideSticks ==
    \A d \in Deadline :
        overrideDate[d] # NoDate => dueDate[d] = overrideDate[d]

\* snoozed_until is set exactly while the deadline is snoozed, so
\* resume_due_snoozes never overlooks a snoozed row for want of a date.
SnoozedUntilWhileSnoozed ==
    \A d \in Deadline : status[d] = "snoozed" <=> snoozedUntil[d] # NoDate

\* A date a user set moves only by the override action, never by a rule.
OnlyOverrideMovesOverridden ==
    [][\A d \in Deadline :
         (overrideDate[d] # NoDate /\ dueDate'[d] # dueDate[d])
           => status'[d] = "overridden"]_vars

\* What was sent stays on record and is not sent again from the same row; a
\* cancelled reminder stays cancelled, even when its deadline is reopened.
SettledRemindersStay ==
    [][{r \in reminders : r.status # "scheduled"} \subseteq reminders']_vars

\* Snoozing defers reminders ("remind me again next week", interaction dev
\* guide): none is sent before the time its deadline is snoozed until.
SnoozeDefersReminders ==
    [][\A now \in Instant : TriggerDueReminders(now, Tenant) =>
         \A r \in reminders :
           (/\ r.status = "scheduled"
            /\ r.at <= now
            /\ status[r.deadline] = "snoozed") => snoozedUntil[r.deadline] <= now]_vars

-----------------------------------------------------------------------------
(* Refinement *)

\* How long before the present due date trigger_due_reminders would still send
\* a reminder, whatever day that reminder was built for.
Owed(d) == {dueDate[d] - r.at : r \in ScheduledOf(d)}

Board == INSTANCE DeadlineBoard
             WITH date <- dueDate,
                  pinned <- [d \in Deadline |-> overrideDate[d] # NoDate],
                  owed <- [d \in Deadline |-> Owed(d)]

\* The store keeps the promise of DeadlineBoard through rows that are
\* cancelled, built anew and stored with the time they were computed for: an
\* open deadline owes its reminders at their distance from the due date it
\* has now, and at no other time, and a closed one owes none.
ImplementsBoard == Board!Spec

=============================================================================

---------------------------- MODULE StateMachine ----------------------------
(***************************************************************************)
(* The life cycle of a deadline: the table ACTION_TRANSITIONS of           *)
(* src/src/duedatehq/layers/state_machine.py and the enumerations of       *)
(* core/models.py it is written over.  A lookup that the table does not    *)
(* have raises InvalidTransitionError: here there is no such triple.       *)
(***************************************************************************)

Status == {"pending", "completed", "snoozed", "waived", "overridden"}

Action == {"complete", "snooze", "waive", "reopen", "override", "resume"}

\* A triple <<current, action, new>> for every entry of the table.
Moves == { <<"pending",    "complete", "completed">>,
           <<"pending",    "snooze",   "snoozed">>,
           <<"pending",    "waive",    "waived">>,
           <<"pending",    "override", "overridden">>,
           <<"snoozed",    "resume",   "pending">>,
           <<"snoozed",    "complete", "completed">>,
           <<"snoozed",    "waive",    "waived">>,
           <<"completed",  "reopen",   "pending">>,
           <<"waived",     "reopen",   "pending">>,
           <<"overridden", "complete", "completed">>,
           <<"overridden", "snooze",   "snoozed">>,
           <<"overridden", "waive",    "waived">> }

\* Work on the deadline is over: apply_deadline_action and _rebuild_reminders
\* both test for these two statuses.
Closed == {"completed", "waived"}

\* The actions after which apply_deadline_action rebuilds the reminders.
Rebuilding == {"override", "reopen", "resume"}

\* A deadline that has no row in the table yet.
NoRow == "none"

=============================================================================

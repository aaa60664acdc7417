---------------------------- MODULE DeadlineBoard ----------------------------
(***************************************************************************)
(* What the deadline store promises, without rows, builds and logs: a      *)
(* deadline has a status, a due date, which is pinned once a user has set  *)
(* it, and the reminders it still owes, each named by how long before the  *)
(* due date it is sent.  An open deadline that gets a date owes all its    *)
(* reminders; a closed one owes none; a reminder is sent when its time     *)
(* before the PRESENT due date has come, and then is no longer owed.       *)
(* Deadlines implements this under the mapping given there.                *)
(***************************************************************************)
EXTENDS Integers, StateMachine

CONSTANTS Deadline, Tenant, TenantOf, Date, Offset, Instant, NoDate

VARIABLES
    status,
    date,     \* the due date
    pinned,   \* has a user set it?
    owed      \* the reminders still to be sent

boardVars == <<status, date, pinned, owed>>

Init ==
    /\ status = [d \in Deadline |-> NoRow]
    /\ date = [d \in Deadline |-> NoDate]
    /\ pinned = [d \in Deadline |-> FALSE]
    /\ owed = [d \in Deadline |-> {}]

\* The reminders a deadline owes when it gets the status `st` and a date.
AllOf(st) == IF st \in Closed THEN {} ELSE Offset

Insert(d, due) ==
    /\ status[d] = NoRow
    /\ status' = [status EXCEPT ![d] = "pending"]
    /\ date' = [date EXCEPT ![d] = due]
    /\ owed' = [owed EXCEPT ![d] = Offset]
    /\ UNCHANGED pinned

\* A rule moves a deadline, unless a user has set its date.
Move(d, due) ==
    /\ status[d] # NoRow
    /\ ~pinned[d]
    /\ date[d] # due
    /\ date' = [date EXCEPT ![d] = due]
    /\ owed' = [owed EXCEPT ![d] = AllOf(status[d])]
    /\ UNCHANGED <<status, pinned>>

\* A step of the life cycle that closes, reopens or resumes the deadline, or
\* leaves what it owes as it was.
Act(d, action, new) ==
    /\ <<status[d], action, new>> \in Moves
    /\ action # "override"
    /\ status' = [status EXCEPT ![d] = new]
    /\ owed' = [owed EXCEPT ![d] = IF new \in Closed THEN {}
                                   ELSE IF action \in Rebuilding THEN Offset ELSE @]
    /\ UNCHANGED <<date, pinned>>

Pin(d, due) ==
    /\ <<status[d], "override", "overridden">> \in Moves
    /\ status' = [status EXCEPT ![d] = "overridden"]
    /\ date' = [date EXCEPT ![d] = due]
    /\ pinned' = [pinned EXCEPT ![d] = TRUE]
    /\ owed' = [owed EXCEPT ![d] = Offset]

\* Everything that is due is sent, for some tenants, and nothing else.
Remind(now, tenants) ==
    /\ owed' = [d \in Deadline |->
                  IF TenantOf[d] \in tenants
                  THEN {o \in owed[d] : date[d] - o > now} ELSE owed[d]]
    /\ UNCHANGED <<status, date, pinned>>

Next ==
    \/ \E d \in Deadline, due \in Date : Insert(d, due) \/ Move(d, due) \/ Pin(d, due)
    \/ \E d \in Deadline, action \in Action, new \in Status : Act(d, action, new)
    \/ \E now \in Instant, tenants \in SUBSET Tenant : Remind(now, tenants)

Spec == Init /\ [][Next]_boardVars

=============================================================================

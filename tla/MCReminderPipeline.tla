------------------------ MODULE MCReminderPipeline ------------------------
(***************************************************************************)
(* Batches at 0, 2, 4 and 6, each looking ahead to the next one.  r1 is due *)
(* between two batches, r2 at the very time of one.                        *)
(***************************************************************************)
EXTENDS ReminderPipeline

CONSTANTS r1, r2

MCAt == [r \in Reminder |-> IF r = r1 THEN 3 ELSE 2]

=============================================================================

---------------------------- MODULE MCDeadlines ----------------------------
(***************************************************************************)
(* Instances of Deadlines for TLC.  Dates are 10 and 12, reminders come 1  *)
(* and 4 before them, and calls happen at 7 and 11: at 7 the reminder 4    *)
(* before 10 is due and the others are not, at 11 those of both dates have *)
(* a due and (for 12, exactly at its hour) a last one.  d1 has a long      *)
(* history and d2 a short one.                                             *)
(***************************************************************************)
EXTENDS Deadlines, TLC

MCDate == {10, 12}
MCOffset == {1, 4}
MCInstant == {7, 11}

CONSTANTS d1, d2, t1, t2, p1, p2

MCMaxEvents == [d \in Deadline |-> IF d = d1 THEN 4 ELSE 2]
MCSymmetry == Permutations(Resumer)

MCTenantOf == [d \in Deadline |-> IF d = d1 THEN t1 ELSE t2]

=============================================================================

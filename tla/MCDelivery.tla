----------------------------- MODULE MCDelivery -----------------------------
(***************************************************************************)
(* d1 may be moved, closed and reopened; d2 of another tenant, which has   *)
(* no route, only gets its date.  At 9 the reminders of the first of two   *)
(* dates are due, at 11 those of both.                                     *)
(***************************************************************************)
EXTENDS Delivery

CONSTANTS d1, d2, t1, t2, mail

MCDate == {10, 12}
MCOffset == {1}
MCInstant == {9, 11}
MCTenantOf == [d \in Deadline |-> IF d = d1 THEN t1 ELSE t2]
MCRouteTenant == [r \in Route |-> t1]
MCChannelOf == [r \in Route |-> r]
MCMaxEvents == [d \in Deadline |-> IF d = d1 THEN 4 ELSE 1]
MCMaxBuilds == [d \in Deadline |-> IF d = d1 THEN 2 ELSE 1]

=============================================================================

-------------------------- MODULE MCNotifications --------------------------
(***************************************************************************)
(* Two reminders of one tenant and one of another, a route of each tenant  *)
(* and each on a channel of its own.                                       *)
(***************************************************************************)
EXTENDS Notifications

CONSTANTS t1, t2, r1, r2, r3, mail, slack

MCTenantOf == [r \in Reminder |-> IF r = r3 THEN t2 ELSE t1]
MCChannelOf == [rt \in Route |-> rt]
MCRouteTenant == [rt \in Route |-> IF rt = slack THEN t2 ELSE t1]

=============================================================================

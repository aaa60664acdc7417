--------------------------- MODULE Notifications ---------------------------
(***************************************************************************)
(* From triggered reminders to messages: configure_notification_route,     *)
(* trigger_due_reminders with _queue_notification_deliveries, and          *)
(* dispatch_notification_deliveries of core/engine.py, with the notifiers  *)
(* of core/notifiers.py.  Each call brings its notifiers: for a channel it *)
(* has one that hands messages to a mail server or a webhook, or else the  *)
(* ConsoleNotifier, which keeps them in memory and reaches nobody.  The    *)
(* command `notify send-pending` takes that one for every channel without  *)
(* an option, the task send_notifications for all of them.                 *)
(*                                                                         *)
(* A delivery is the row that tells one route about one reminder.          *)
(* Triggering creates the rows in the transaction that triggers the        *)
(* reminder.  Dispatching lists the pending rows, and then for each of     *)
(* them sends the message and, in a transaction that follows, marks the    *)
(* row.  Nothing claims a row: any number of `notify send-pending`         *)
(* commands and send_notifications tasks may run at once, and each may die *)
(* or fail between the two.                                                *)
(***************************************************************************)
EXTENDS Integers, FiniteSets

CONSTANTS
    Tenant,
    Reminder,       \* rows of the table reminders
    TenantOf,       \* the tenant of each reminder
    Route,          \* rows of notification_routes
    RouteTenant,    \* the tenant of each route
    Channel,        \* e-mail, SMS, Slack
    ChannelOf,      \* the channel of each route
    Dispatcher,     \* processes that run dispatch_notification_deliveries
    None,           \* a dispatcher's empty hands
    MaxCrashes      \* bound: dispatchers that die

ASSUME NotificationsAssumption ==
    /\ TenantOf \in [Reminder -> Tenant]
    /\ RouteTenant \in [Route -> Tenant]
    /\ ChannelOf \in [Route -> Channel]
    /\ None \notin Reminder \X Route
    /\ IsFiniteSet(Dispatcher)
    /\ MaxCrashes \in Nat

VARIABLES
    routes,      \* the routes configured so far
    reminder,    \* reminders.status
    delivery,    \* notification_deliveries.status of each reminder and route
    accepted,    \* how many times a mail server or webhook took the message
    kept,        \* how many times a ConsoleNotifier did: sent_messages
    console,     \* the channels that its call has a ConsoleNotifier for
    todo,        \* rows a dispatcher listed and has not come to yet
    inHand,      \* the row a dispatcher has sent and not marked
    outcome,     \* what the notifier returned for it; a loop starts with sent
    crashes

vars == <<routes, reminder, delivery, accepted, kept, console, todo, inHand,
          outcome, crashes>>

Delivery == Reminder \X Route

Outcome == {"sent", "failed"}

TypeOK ==
    /\ routes \subseteq Route
    /\ reminder \in [Reminder -> {"scheduled", "triggered", "cancelled"}]
    /\ delivery \in [Delivery -> {"none", "pending"} \cup Outcome]
    /\ accepted \in [Delivery -> Nat]
    /\ kept \in [Delivery -> Nat]
    /\ console \in [Dispatcher -> SUBSET Channel]
    /\ todo \in [Dispatcher -> SUBSET Delivery]
    /\ inHand \in [Dispatcher -> Delivery \cup {None}]
    /\ \A p \in Dispatcher : inHand[p] \in todo[p] \cup {None}
    /\ outcome \in [Dispatcher -> Outcome]
    /\ crashes \in 0..MaxCrashes

Init ==
    /\ routes = {}
    /\ reminder = [r \in Reminder |-> "scheduled"]
    /\ delivery = [d \in Delivery |-> "none"]
    /\ accepted = [d \in Delivery |-> 0]
    /\ kept = [d \in Delivery |-> 0]
    /\ console = [p \in Dispatcher |-> {}]
    /\ todo = [p \in Dispatcher |-> {}]
    /\ inHand = [p \in Dispatcher |-> None]
    /\ outcome = [p \in Dispatcher |-> "sent"]
    /\ crashes = 0

-----------------------------------------------------------------------------
(* Routes and reminders *)

ConfigureRoute(route) ==
    /\ routes' = routes \cup {route}
    /\ UNCHANGED <<reminder, delivery, accepted, kept, console, todo, inHand,
                   outcome, crashes>>

\* Faulty variant: the routes of all tenants.
QueueDeliveries_AnyTenant(triggered) ==
    delivery' = [d \in Delivery |->
        IF d[1] \in triggered /\ d[2] \in routes THEN "pending" ELSE delivery[d]]

\* _queue_notification_deliveries: a pending row for every route the tenant
\* has at this moment; with no route there is no row, now or later.
QueueDeliveries(triggered) ==
    delivery' = [d \in Delivery |->
        IF /\ d[1] \in triggered
           /\ d[2] \in routes
           /\ RouteTenant[d[2]] = TenantOf[d[1]]
        THEN "pending" ELSE delivery[d]]

Scheduled == {r \in Reminder : reminder[r] = "scheduled"}

\* trigger_due_reminders; which of the scheduled reminders are due depends on
\* the time of the call.
TriggerDueReminders(due) ==
    /\ reminder' = [r \in Reminder |->
                      IF r \in due THEN "triggered" ELSE reminder[r]]
    /\ QueueDeliveries(due)
    /\ UNCHANGED <<routes, accepted, kept, console, todo, inHand, outcome, crashes>>

\* A deadline is closed or moved: one UPDATE cancels its scheduled reminders.
\* The deliveries of those already triggered stay as they are.
CancelReminders(gone) ==
    /\ reminder' = [r \in Reminder |->
                      IF r \in gone THEN "cancelled" ELSE reminder[r]]
    /\ UNCHANGED <<routes, delivery, accepted, kept, console, todo, inHand, outcome,
                   crashes>>

-----------------------------------------------------------------------------
(* dispatch_notification_deliveries *)

Idle(p) == todo[p] = {} /\ inHand[p] = None

\* Faulty variants: failed deliveries are tried again; all are listed.
PendingOf_OrFailed(t) ==
    {d \in Delivery : TenantOf[d[1]] = t /\ delivery[d] \in {"pending", "failed"}}

PendingOf_All(t) == {d \in Delivery : TenantOf[d[1]] = t /\ delivery[d] # "none"}

PendingOf(t) == {d \in Delivery : TenantOf[d[1]] = t /\ delivery[d] = "pending"}

\* A call begins, with a ConsoleNotifier for some of the channels.  One that
\* finds no pending row ends at once.
ListPending(p, t, channels) ==
    /\ Idle(p)
    /\ PendingOf(t) # {}
    /\ todo' = [todo EXCEPT ![p] = PendingOf(t)]
    /\ console' = [console EXCEPT ![p] = channels]
    /\ UNCHANGED <<routes, reminder, delivery, accepted, kept, inHand, outcome, crashes>>

\* ConsoleNotifier.send always returns; nobody has the message.
ConsoleSend(p, d) ==
    /\ ChannelOf[d[2]] \in console[p]
    /\ outcome' = [outcome EXCEPT ![p] = "sent"]
    /\ kept' = [kept EXCEPT ![d] = @ + 1]
    /\ UNCHANGED accepted

\* Faulty variant: an exception is swallowed and taken for success.
ProviderSend_Optimistic(p, d) ==
    /\ ChannelOf[d[2]] \notin console[p]
    /\ outcome' = [outcome EXCEPT ![p] = "sent"]
    /\ \/ UNCHANGED accepted
       \/ accepted' = [accepted EXCEPT ![d] = @ + 1]
    /\ UNCHANGED kept

\* The others return, or raise.  They may raise after the message was taken,
\* when the answer is lost or does not come within 30 seconds.
ProviderSend(p, d) ==
    /\ ChannelOf[d[2]] \notin console[p]
    /\ \/ /\ outcome' = [outcome EXCEPT ![p] = "sent"]
          /\ accepted' = [accepted EXCEPT ![d] = @ + 1]
       \/ /\ outcome' = [outcome EXCEPT ![p] = "failed"]
          /\ \/ UNCHANGED accepted
             \/ accepted' = [accepted EXCEPT ![d] = @ + 1]
    /\ UNCHANGED kept

\* Faulty variant: the rows are looked up again, without the tenant.
IsNext_AnyPending(p, d) == inHand[p] = None /\ delivery[d] = "pending"

IsNext(p, d) == inHand[p] = None /\ d \in todo[p]

Send(p, d) ==
    /\ IsNext(p, d)
    /\ inHand' = [inHand EXCEPT ![p] = d]
    /\ ConsoleSend(p, d) \/ ProviderSend(p, d)
    /\ UNCHANGED <<routes, reminder, delivery, console, todo, crashes>>

\* What is left of the list after row d.  Faulty variant: d itself.
Rest_WithIt(p, d) == todo[p]

Rest(p, d) == todo[p] \ {d}

\* Faulty variant: a failure is not written back, and ends the loop there.
MayMark_OnlySent(p) == inHand[p] # None /\ outcome[p] = "sent"

MayMark(p) == inHand[p] # None

\* The transaction that follows sets the row, whatever it holds by now.
Mark(p) ==
    /\ MayMark(p)
    /\ delivery' = [delivery EXCEPT ![inHand[p]] = outcome[p]]
    /\ todo' = [todo EXCEPT ![p] = Rest(p, inHand[p])]
    /\ console' = [console EXCEPT ![p] = IF Rest(p, inHand[p]) = {} THEN {} ELSE @]
    /\ inHand' = [inHand EXCEPT ![p] = None]
    /\ outcome' = [outcome EXCEPT ![p] = "sent"]
    /\ UNCHANGED <<routes, reminder, accepted, kept, crashes>>

\* The process dies, or the transaction of Mark raises: what was sent stays
\* unmarked, and what follows in the list is not sent.
Crash(p) ==
    /\ ~Idle(p)
    /\ crashes < MaxCrashes
    /\ crashes' = crashes + 1
    /\ todo' = [todo EXCEPT ![p] = {}]
    /\ console' = [console EXCEPT ![p] = {}]
    /\ inHand' = [inHand EXCEPT ![p] = None]
    /\ outcome' = [outcome EXCEPT ![p] = "sent"]
    /\ UNCHANGED <<routes, reminder, delivery, accepted, kept>>

-----------------------------------------------------------------------------
Dispatch(p) == Mark(p) \/ \E d \in Delivery : Send(p, d)

Next ==
    \/ \E route \in Route : ConfigureRoute(route)
    \/ \E due \in (SUBSET Scheduled) \ {{}} : TriggerDueReminders(due)
    \/ \E gone \in (SUBSET Scheduled) \ {{}} : CancelReminders(gone)
    \/ \E p \in Dispatcher :
         \/ \E t \in Tenant, channels \in SUBSET Channel :
              ListPending(p, t, channels)
         \/ Dispatch(p)
         \/ Crash(p)

Spec == Init /\ [][Next]_vars

\* A dispatcher that has started goes on; nothing says that one is started.
FairSpec == Spec /\ \A p \in Dispatcher : WF_vars(Dispatch(p))

-----------------------------------------------------------------------------
(* Properties *)

\* The messages of a row that notifiers took, whatever became of them.
HandedOver(d) == accepted[d] + kept[d]

\* A row marked sent was taken by a mail server or webhook, under any
\* interleaving of dispatchers and crashes, unless a dispatcher that has no
\* such notifier for its channel came by it: then nobody may have the message.
SentMeansHandedOver ==
    \A d \in Delivery : (delivery[d] = "sent" /\ kept[d] = 0) => accepted[d] > 0

\* What goes out is about a reminder that was triggered, through a route of
\* the same tenant, and is on record: "written to the database before send".
OnlyRecordedIsSent ==
    \A d \in Delivery : HandedOver(d) > 0 =>
        /\ delivery[d] # "none"
        /\ reminder[d[1]] = "triggered"
        /\ d[2] \in routes /\ RouteTenant[d[2]] = TenantOf[d[1]]

\* A message is handed over at most once for each dispatcher, and once more
\* for each that died between sending and marking: a single dispatcher that is
\* not killed never sends one twice.
SendsAreBounded ==
    \A d \in Delivery : HandedOver(d) <= Cardinality(Dispatcher) + crashes

\* What a single dispatcher is about to send or to mark is still pending: the
\* list it works from does not go stale while it works alone.
ListedIsPending ==
    \A p \in Dispatcher : \A d \in todo[p] : delivery[d] = "pending"

\* A delivery marked sent stays so ("then marked `sent` or `failed`").
SentIsFinal ==
    [][\A d \in Delivery : delivery[d] = "sent" => delivery'[d] = "sent"]_vars

\* A dispatch settles every row it listed, unless its process dies.
DispatchSettlesItsList ==
    \A p \in Dispatcher, d \in Delivery :
        (d \in todo[p]) ~> (delivery[d] \in Outcome \/ crashes > 0)

=============================================================================

------------------------ MODULE NotificationsProofs ------------------------
(***************************************************************************)
(* Proofs about Notifications, for every set of tenants, reminders and     *)
(* routes, every finite set of dispatchers, and any number of crashes.     *)
(***************************************************************************)
EXTENDS Notifications, FiniteSetTheorems, TLAPS

\* What is marked sent was handed over.
SentIsHonest == \A d \in Delivery : delivery[d] = "sent" => HandedOver(d) > 0

\* So was what a dispatcher holds and takes for sent.
HandsAreHonest ==
    \A p \in Dispatcher :
        inHand[p] # None /\ outcome[p] = "sent" => HandedOver(inHand[p]) > 0

\* Every row is about a triggered reminder and goes through a route of its
\* tenant; only rows are listed, and only rows are sent.
RecordInv ==
    /\ \A d \in Delivery : delivery[d] # "none" =>
         /\ reminder[d[1]] = "triggered"
         /\ d[2] \in routes
         /\ RouteTenant[d[2]] = TenantOf[d[1]]
    /\ \A p \in Dispatcher : \A d \in todo[p] : delivery[d] # "none"
    /\ \A d \in Delivery : HandedOver(d) > 0 => delivery[d] # "none"

\* The dispatchers that sent d and have not marked it.
Holding(d) == {p \in Dispatcher : inHand[p] = d}

\* The dispatchers that listed d and will still send it.
Waiting(d) == {p \in Dispatcher : d \in todo[p] /\ inHand[p] # d}

\* The sends of a row are paid for: while it is pending by those who hold it
\* and by crashes, later by every dispatcher that will not send it any more.
InBudget(d) ==
    /\ delivery[d] = "pending" =>
         HandedOver(d) <= Cardinality(Holding(d)) + crashes
    /\ delivery[d] \in Outcome =>
         HandedOver(d) + Cardinality(Waiting(d))
           <= Cardinality(Dispatcher) + crashes

SendBudget == \A d \in Delivery : InBudget(d)

-----------------------------------------------------------------------------
(* Types *)

\* What is handed over is counted.
LEMMA HandedIsNat ==
    ASSUME TypeOK, NEW d \in Delivery
    PROVE  HandedOver(d) \in Nat
BY DEF TypeOK, HandedOver

\* A send hands over one message or none, and one if it returns.
LEMMA SendHands ==
    ASSUME TypeOK, NEW p \in Dispatcher, NEW d \in Delivery, Send(p, d)
    PROVE  /\ accepted' \in [Delivery -> Nat] /\ kept' \in [Delivery -> Nat]
           /\ outcome' \in [Dispatcher -> Outcome]
           /\ HandedOver(d)' \in {HandedOver(d), HandedOver(d) + 1}
           /\ outcome'[p] = "sent" => HandedOver(d)' = HandedOver(d) + 1
           /\ \A e \in Delivery : e # d => HandedOver(e)' = HandedOver(e)
           /\ \A q \in Dispatcher : q # p => outcome'[q] = outcome[q]
<1>1. CASE ConsoleSend(p, d)
  BY <1>1 DEF TypeOK, ConsoleSend, Outcome, HandedOver
<1>2. CASE ProviderSend(p, d)
  BY <1>2 DEF TypeOK, ProviderSend, Outcome, HandedOver
<1> QED BY <1>1, <1>2 DEF Send

\* Every step keeps the types of Notifications.
LEMMA TypeStep ==
    ASSUME TypeOK, Next
    PROVE  TypeOK'
<1> USE NotificationsAssumption
<1>1. ASSUME NEW route \in Route, ConfigureRoute(route)
      PROVE  TypeOK'
  BY <1>1 DEF TypeOK, ConfigureRoute
<1>2. ASSUME NEW due \in SUBSET Scheduled, TriggerDueReminders(due)
      PROVE  TypeOK'
  BY <1>2 DEF TypeOK, TriggerDueReminders, QueueDeliveries, Scheduled
<1>3. ASSUME NEW gone \in SUBSET Scheduled, CancelReminders(gone)
      PROVE  TypeOK'
  BY <1>3 DEF TypeOK, CancelReminders
<1>4. ASSUME NEW p \in Dispatcher, NEW t \in Tenant, NEW channels \in SUBSET Channel,
             ListPending(p, t, channels)
      PROVE  TypeOK'
  <2>1. PendingOf(t) \in SUBSET Delivery
    BY DEF PendingOf
  <2> QED BY <1>4, <2>1 DEF TypeOK, ListPending, Idle
<1>5. ASSUME NEW p \in Dispatcher, Mark(p)
      PROVE  TypeOK'
  BY <1>5 DEF TypeOK, Mark, MayMark, Rest, Outcome
<1>6. ASSUME NEW p \in Dispatcher, NEW d \in Delivery, Send(p, d)
      PROVE  TypeOK'
  <2>1. /\ accepted' \in [Delivery -> Nat] /\ kept' \in [Delivery -> Nat]
        /\ outcome' \in [Dispatcher -> Outcome]
    BY <1>6, SendHands
  <2> QED BY <1>6, <2>1 DEF TypeOK, Send, IsNext
<1>7. ASSUME NEW p \in Dispatcher, Crash(p)
      PROVE  TypeOK'
  BY <1>7 DEF TypeOK, Crash, Idle, Outcome
<1> QED BY <1>1, <1>2, <1>3, <1>4, <1>5, <1>6, <1>7 DEF Next, Dispatch

\* The tables and the dispatchers keep their types; what a dispatcher holds
\* is on its list.
THEOREM TypeCorrect == Spec => []TypeOK
<1>1. Init => TypeOK
  BY NotificationsAssumption DEF Init, TypeOK, Outcome
<1>2. TypeOK /\ UNCHANGED vars => TypeOK'
  BY DEF TypeOK, vars
<1> QED BY <1>1, <1>2, TypeStep, PTL DEF Spec

-----------------------------------------------------------------------------
(* Nothing is marked sent that was not handed over *)

\* The count of what was handed over never falls.
LEMMA HandedGrows ==
    ASSUME TypeOK, Next, NEW d \in Delivery
    PROVE  HandedOver(d) > 0 => HandedOver(d)' > 0
<1>1. ASSUME NEW p \in Dispatcher, NEW e \in Delivery, Send(p, e)
      PROVE  HandedOver(d) > 0 => HandedOver(d)' > 0
  BY <1>1, SendHands, HandedIsNat
<1>2. ASSUME UNCHANGED <<accepted, kept>>
      PROVE  HandedOver(d) > 0 => HandedOver(d)' > 0
  BY <1>2 DEF HandedOver
<1> QED BY <1>1, <1>2 DEF Next, Dispatch, ConfigureRoute, TriggerDueReminders,
             CancelReminders, ListPending, Mark, Crash

\* Sending makes the hands honest, and marking writes what they hold.
LEMMA HonestStep ==
    ASSUME TypeOK, SentIsHonest, HandsAreHonest, Next
    PROVE  SentIsHonest' /\ HandsAreHonest'
<1> USE NotificationsAssumption
<1>1. \A d \in Delivery : HandedOver(d) > 0 => HandedOver(d)' > 0
  BY HandedGrows
<1>2. ASSUME UNCHANGED <<inHand, outcome>>,
             \A d \in Delivery : delivery'[d] = "sent" => delivery[d] = "sent"
      PROVE  SentIsHonest' /\ HandsAreHonest'
  BY <1>1, <1>2 DEF TypeOK, SentIsHonest, HandsAreHonest
<1>3. ASSUME NEW route \in Route, ConfigureRoute(route)
      PROVE  SentIsHonest' /\ HandsAreHonest'
  BY <1>2, <1>3 DEF ConfigureRoute
<1>4. ASSUME NEW due \in SUBSET Scheduled, TriggerDueReminders(due)
      PROVE  SentIsHonest' /\ HandsAreHonest'
  <2>1. \A d \in Delivery : delivery'[d] = "sent" => delivery[d] = "sent"
    BY <1>4 DEF TriggerDueReminders, QueueDeliveries
  <2> QED BY <1>2, <1>4, <2>1 DEF TriggerDueReminders
<1>5. ASSUME NEW gone \in SUBSET Scheduled, CancelReminders(gone)
      PROVE  SentIsHonest' /\ HandsAreHonest'
  BY <1>2, <1>5 DEF CancelReminders
<1>6. ASSUME NEW p \in Dispatcher, NEW t \in Tenant, NEW channels,
             ListPending(p, t, channels)
      PROVE  SentIsHonest' /\ HandsAreHonest'
  BY <1>2, <1>6 DEF ListPending
<1>7. ASSUME NEW p \in Dispatcher, Mark(p)
      PROVE  SentIsHonest' /\ HandsAreHonest'
  <2>1. SentIsHonest'
    BY <1>1, <1>7 DEF TypeOK, Mark, MayMark, SentIsHonest, HandsAreHonest
  <2>2. HandsAreHonest'
    BY <1>1, <1>7 DEF TypeOK, Mark, HandsAreHonest
  <2> QED BY <2>1, <2>2
<1>8. ASSUME NEW p \in Dispatcher, NEW d \in Delivery, Send(p, d)
      PROVE  SentIsHonest' /\ HandsAreHonest'
  <2>1. SentIsHonest'
    BY <1>1, <1>8 DEF Send, SentIsHonest
  <2>2. ASSUME outcome'[p] = "sent"
        PROVE  HandedOver(d)' > 0
    BY <1>8, <2>2, SendHands, HandedIsNat
  <2>3. inHand' = [inHand EXCEPT ![p] = d]
        /\ \A q \in Dispatcher : q # p => outcome'[q] = outcome[q]
    BY <1>8, SendHands DEF Send
  <2>4. HandsAreHonest'
    BY <1>1, <2>2, <2>3 DEF TypeOK, HandsAreHonest
  <2> QED BY <2>1, <2>4
<1>9. ASSUME NEW p \in Dispatcher, Crash(p)
      PROVE  SentIsHonest' /\ HandsAreHonest'
  BY <1>1, <1>9 DEF TypeOK, Crash, SentIsHonest, HandsAreHonest
<1> QED BY <1>3, <1>4, <1>5, <1>6, <1>7, <1>8, <1>9 DEF Next, Dispatch

\* SentIsHonest in every reachable state.
LEMMA HonestAlways == Spec => []SentIsHonest
<1>1. Init => SentIsHonest /\ HandsAreHonest
  BY DEF Init, SentIsHonest, HandsAreHonest
<1>2. ASSUME TypeOK, SentIsHonest /\ HandsAreHonest, [Next]_vars
      PROVE  (SentIsHonest /\ HandsAreHonest)'
  <2>1. CASE Next
    BY <1>2, <2>1, HonestStep
  <2>2. CASE UNCHANGED vars
    BY <1>2, <2>2 DEF vars, SentIsHonest, HandsAreHonest, HandedOver
  <2> QED BY <1>2, <2>1, <2>2
<1> QED BY <1>1, <1>2, TypeCorrect, PTL DEF Spec

\* A delivery marked sent was taken by its mail server or webhook, whoever
\* marked it, for every number of dispatchers and crashes, unless a
\* ConsoleNotifier had it.
THEOREM SentWasHandedOver == Spec => []SentMeansHandedOver
<1>1. TypeOK /\ SentIsHonest => SentMeansHandedOver
  BY DEF TypeOK, SentIsHonest, SentMeansHandedOver, HandedOver
<1> QED BY <1>1, HonestAlways, TypeCorrect, PTL

\* No call brings a ConsoleNotifier for this channel.
ProviderFor(ch) == \A p \in Dispatcher : ch \notin console[p]

\* Whatever is marked sent on this channel was taken by its provider.
TakenOn(ch) ==
    \A d \in Delivery :
        (ChannelOf[d[2]] = ch /\ delivery[d] = "sent") => accepted[d] > 0

\* Where every call has a mail server or webhook for a channel, a delivery on
\* it that is marked sent was taken by that one, for every number of
\* dispatchers and crashes and whatever notifiers the other channels have.
THEOREM SentWasAccepted ==
    ASSUME NEW ch \in Channel
    PROVE  Spec /\ []ProviderFor(ch) => []TakenOn(ch)
<1> DEFINE NoneKept == \A d \in Delivery : ChannelOf[d[2]] = ch => kept[d] = 0
<1>1. Init => NoneKept
  BY DEF Init
<1>2. ASSUME TypeOK, NoneKept, ProviderFor(ch), [Next]_vars PROVE NoneKept'
  <2>1. ASSUME NEW p \in Dispatcher, NEW d \in Delivery, Send(p, d) PROVE NoneKept'
    <3>1. CASE ConsoleSend(p, d)
      <4>1. ChannelOf[d[2]] # ch
        BY <1>2, <3>1 DEF ConsoleSend, ProviderFor
      <4> QED BY <1>2, <3>1, <4>1 DEF TypeOK, ConsoleSend
    <3>2. CASE ProviderSend(p, d)
      BY <1>2, <3>2 DEF ProviderSend
    <3> QED BY <2>1, <3>1, <3>2 DEF Send
  <2>2. CASE UNCHANGED kept
    BY <1>2, <2>2
  <2> HIDE DEF NoneKept
  <2> QED BY <1>2, <2>1, <2>2 DEF Next, Dispatch, ConfigureRoute, TriggerDueReminders,
           CancelReminders, ListPending, Mark, Crash, vars
<1>3. NoneKept /\ SentMeansHandedOver => TakenOn(ch)
  BY DEF SentMeansHandedOver, TakenOn
<1> HIDE DEF NoneKept
<1> QED BY <1>1, <1>2, <1>3, SentWasHandedOver, TypeCorrect, PTL DEF Spec

-----------------------------------------------------------------------------
(* Nothing is sent that is not on record *)

\* A row appears when its reminder is triggered; it is listed and sent after.
LEMMA RecordStep ==
    ASSUME TypeOK, RecordInv, Next
    PROVE  RecordInv'
<1> USE NotificationsAssumption
<1>1. ASSUME NEW route \in Route, ConfigureRoute(route)
      PROVE  RecordInv'
  BY <1>1 DEF ConfigureRoute, RecordInv, HandedOver
<1>2. ASSUME NEW due \in SUBSET Scheduled, TriggerDueReminders(due)
      PROVE  RecordInv'
  <2>1. \A d \in Delivery : d[1] \in Reminder
    BY DEF Delivery
  <2>2. \A d \in Delivery : delivery[d] # "none" => delivery'[d] # "none"
    BY <1>2 DEF TriggerDueReminders, QueueDeliveries
  <2>3. ASSUME NEW d \in Delivery, delivery'[d] # "none"
        PROVE  /\ reminder'[d[1]] = "triggered"
               /\ d[2] \in routes'
               /\ RouteTenant[d[2]] = TenantOf[d[1]]
    BY <1>2, <2>1, <2>3 DEF TypeOK, TriggerDueReminders, QueueDeliveries,
         RecordInv
  <2>4. UNCHANGED <<todo, accepted, kept>>
    BY <1>2 DEF TriggerDueReminders
  <2> QED BY <2>2, <2>3, <2>4 DEF TypeOK, RecordInv, HandedOver
<1>3. ASSUME NEW gone \in SUBSET Scheduled, CancelReminders(gone)
      PROVE  RecordInv'
  <2>1. \A s \in Reminder : reminder[s] = "triggered" => reminder'[s] = "triggered"
    BY <1>3 DEF TypeOK, CancelReminders, Scheduled
  <2>2. \A d \in Delivery : d[1] \in Reminder
    BY DEF Delivery
  <2> QED BY <1>3, <2>1, <2>2 DEF CancelReminders, RecordInv, HandedOver
<1>4. ASSUME NEW p \in Dispatcher, NEW t \in Tenant, NEW channels,
             ListPending(p, t, channels)
      PROVE  RecordInv'
  <2>1. \A d \in PendingOf(t) : delivery[d] # "none"
    BY DEF PendingOf
  <2> QED BY <1>4, <2>1 DEF TypeOK, ListPending, RecordInv, HandedOver
<1>5. ASSUME NEW p \in Dispatcher, Mark(p)
      PROVE  RecordInv'
  <2>1. delivery[inHand[p]] # "none" /\ inHand[p] \in Delivery
    BY <1>5 DEF TypeOK, Mark, MayMark, RecordInv
  <2>2. \A d \in Delivery : delivery'[d] # "none" <=> delivery[d] # "none"
    BY <1>5, <2>1 DEF TypeOK, Outcome, Mark
  <2>3. \A q \in Dispatcher : todo'[q] \subseteq todo[q]
    BY <1>5 DEF TypeOK, Mark, Rest
  <2> QED BY <1>5, <2>2, <2>3 DEF TypeOK, Mark, RecordInv, HandedOver
<1>6. ASSUME NEW p \in Dispatcher, NEW d \in Delivery, Send(p, d)
      PROVE  RecordInv'
  <2>1. delivery[d] # "none"
    BY <1>6 DEF Send, IsNext, RecordInv
  <2>2. \A e \in Delivery : e # d => HandedOver(e)' = HandedOver(e)
    BY <1>6, SendHands
  <2> QED BY <1>6, <2>1, <2>2 DEF Send, RecordInv
<1>7. ASSUME NEW p \in Dispatcher, Crash(p)
      PROVE  RecordInv'
  <2>1. \A q \in Dispatcher : todo'[q] \subseteq todo[q]
    BY <1>7 DEF TypeOK, Crash
  <2> QED BY <1>7, <2>1 DEF TypeOK, Crash, RecordInv, HandedOver
<1> QED BY <1>1, <1>2, <1>3, <1>4, <1>5, <1>6, <1>7 DEF Next, Dispatch

\* RecordInv in every reachable state.
LEMMA RecordAlways == Spec => []RecordInv
<1>1. Init => RecordInv
  BY DEF Init, RecordInv, HandedOver
<1>2. ASSUME TypeOK, RecordInv, [Next]_vars
      PROVE  RecordInv'
  <2>1. CASE UNCHANGED vars
    BY <1>2, <2>1 DEF vars, RecordInv, HandedOver
  <2> QED BY <1>2, <2>1, RecordStep
<1> QED BY <1>1, <1>2, TypeCorrect, PTL DEF Spec

\* What goes out is on record before it is sent, is about a reminder that was
\* triggered, and goes through a route of the reminder's tenant.
THEOREM OnlyRecordedGoesOut == Spec => []OnlyRecordedIsSent
<1>1. RecordInv => OnlyRecordedIsSent
  BY DEF RecordInv, OnlyRecordedIsSent
<1> QED BY <1>1, RecordAlways, PTL

-----------------------------------------------------------------------------
(* How often a message goes out *)

\* Sets of dispatchers can be counted.
LEMMA Counted ==
    ASSUME NEW S \in SUBSET Dispatcher
    PROVE  /\ IsFiniteSet(S)
           /\ Cardinality(S) \in Nat
           /\ Cardinality(Dispatcher) \in Nat
           /\ Cardinality(S) <= Cardinality(Dispatcher)
BY NotificationsAssumption, FS_Subset, FS_CardinalityType

\* Two groups of dispatchers without a common member fit in all of them.
LEMMA CountedApart ==
    ASSUME NEW S \in SUBSET Dispatcher, NEW T \in SUBSET Dispatcher,
           S \cap T = {}
    PROVE  Cardinality(S) + Cardinality(T) <= Cardinality(Dispatcher)
<1>1. Cardinality(S \cup T) = Cardinality(S) + Cardinality(T) - Cardinality({})
  BY Counted, FS_Union
<1>2. S \cup T \in SUBSET Dispatcher
  OBVIOUS
<1>3. Cardinality(S) \in Nat /\ Cardinality(T) \in Nat
  BY Counted
<1>4. Cardinality(S \cup T) <= Cardinality(Dispatcher)
  BY <1>2, Counted
<1> QED BY <1>1, <1>3, <1>4, FS_EmptySet

\* A row nobody sent or marked in this step keeps its budget: the same hands
\* hold it, the same wait for it.
LEMMA BudgetKept ==
    ASSUME TypeOK, SendBudget, UNCHANGED crashes,
           NEW d \in Delivery,
           delivery'[d] = delivery[d],
           HandedOver(d)' = HandedOver(d),
           Holding(d)' = Holding(d),
           delivery[d] \in Outcome => Waiting(d)' = Waiting(d)
    PROVE  InBudget(d)'
BY DEF SendBudget, InBudget

\* Triggering makes pending rows out of what was no row.
LEMMA TriggerKeepsBudget ==
    ASSUME TypeOK, RecordInv, SendBudget,
           NEW due \in SUBSET Scheduled, TriggerDueReminders(due)
    PROVE  SendBudget'
<1> SUFFICES ASSUME NEW d \in Delivery
             PROVE  InBudget(d)'
  BY DEF SendBudget
<1>1. Holding(d)' = Holding(d) /\ Waiting(d)' = Waiting(d)
  BY DEF TriggerDueReminders, Holding, Waiting
<1>2. /\ HandedOver(d)' = HandedOver(d) /\ crashes' = crashes
      /\ delivery'[d] # delivery[d] =>
            d[1] \in due /\ delivery'[d] = "pending"
      /\ d[1] \in due => delivery[d] = "none"
  BY DEF TypeOK, TriggerDueReminders, QueueDeliveries, RecordInv, Scheduled, HandedOver
<1>3. CASE delivery'[d] = delivery[d]
  BY <1>1, <1>2, <1>3, BudgetKept
<1>4. CASE delivery'[d] # delivery[d]
  <2>1. HandedOver(d)' = 0 /\ delivery'[d] = "pending"
    BY <1>2, <1>4, HandedIsNat DEF RecordInv
  <2>2. Holding(d)' \in SUBSET Dispatcher
    BY <1>1 DEF Holding
  <2>3. Cardinality(Holding(d)') \in Nat
    BY <2>2, Counted
  <2>4. crashes' \in Nat
    BY <1>2, NotificationsAssumption DEF TypeOK
  <2> QED BY <2>1, <2>3, <2>4 DEF InBudget, Outcome
<1> QED BY <1>3, <1>4

\* Only pending rows are listed, so nobody begins to wait for a settled one.
LEMMA ListKeepsBudget ==
    ASSUME TypeOK, SendBudget,
           NEW p \in Dispatcher, NEW t \in Tenant, NEW channels,
             ListPending(p, t, channels)
    PROVE  SendBudget'
<1>1. ASSUME NEW d \in Delivery
      PROVE  /\ Holding(d)' = Holding(d)
             /\ delivery[d] \in Outcome => Waiting(d)' = Waiting(d)
  <2>1. delivery[d] \in Outcome => d \notin PendingOf(t)
    BY DEF PendingOf, Outcome
  <2> QED BY <2>1 DEF TypeOK, ListPending, Idle, Holding, Waiting
<1>2. /\ UNCHANGED <<delivery, crashes>>
      /\ \A d \in Delivery : HandedOver(d)' = HandedOver(d)
  BY DEF ListPending, HandedOver
<1> QED BY <1>1, <1>2, BudgetKept DEF SendBudget

\* A send takes one dispatcher from those that wait for the row to those that
\* hold it.
LEMMA SendKeepsBudget ==
    ASSUME TypeOK, SendBudget,
           NEW p \in Dispatcher, NEW d \in Delivery, Send(p, d)
    PROVE  SendBudget'
<1>1. /\ inHand[p] = None /\ d \in todo[p] /\ d # None
      /\ UNCHANGED <<delivery, todo, crashes>>
      /\ inHand' = [inHand EXCEPT ![p] = d]
      /\ HandedOver(d)' \in {HandedOver(d), HandedOver(d) + 1}
      /\ \A e \in Delivery : e # d => HandedOver(e)' = HandedOver(e)
      /\ HandedOver(d) \in Nat
      /\ crashes \in Nat
  <2>1. /\ HandedOver(d)' \in {HandedOver(d), HandedOver(d) + 1}
        /\ HandedOver(d) \in Nat
        /\ \A e \in Delivery : e # d => HandedOver(e)' = HandedOver(e)
    BY SendHands, HandedIsNat
  <2>2. crashes \in Nat /\ d # None
    BY NotificationsAssumption DEF TypeOK, Delivery
  <2> QED BY <2>1, <2>2 DEF Send, IsNext
<1>2. Holding(d)' = Holding(d) \cup {p} /\ p \notin Holding(d)
  BY <1>1 DEF TypeOK, Holding
<1>3. Waiting(d)' = Waiting(d) \ {p} /\ p \in Waiting(d)
  BY <1>1 DEF TypeOK, Waiting
<1>4. Cardinality(Holding(d)') = Cardinality(Holding(d)) + 1
      /\ Cardinality(Holding(d)) \in Nat
  <2>1. Holding(d) \in SUBSET Dispatcher
    BY DEF Holding
  <2> QED BY <1>2, <2>1, Counted, FS_AddElement
<1>5. Cardinality(Waiting(d)') = Cardinality(Waiting(d)) - 1
      /\ Cardinality(Waiting(d)) \in Nat
  <2>1. Waiting(d) \in SUBSET Dispatcher
    BY DEF Waiting
  <2> QED BY <1>3, <2>1, Counted, FS_RemoveElement
<1>6. Cardinality(Dispatcher) \in Nat
  BY Counted
<1>7. InBudget(d)'
  <2>1. /\ delivery'[d] = delivery[d] /\ crashes' = crashes
        /\ HandedOver(d)' \in {HandedOver(d), HandedOver(d) + 1}
        /\ HandedOver(d) \in Nat /\ crashes \in Nat
    BY <1>1
  <2> DEFINE H  == Cardinality(Holding(d))
             H2 == Cardinality(Holding(d)')
             W  == Cardinality(Waiting(d))
             W2 == Cardinality(Waiting(d)')
             N  == Cardinality(Dispatcher)
  <2>2. /\ delivery[d] = "pending" => HandedOver(d) <= H + crashes
        /\ delivery[d] \in Outcome => HandedOver(d) + W <= N + crashes
    BY DEF SendBudget, InBudget
  <2>3. /\ H \in Nat /\ H2 = H + 1
        /\ W \in Nat /\ W2 = W - 1
        /\ N \in Nat
    BY <1>4, <1>5, <1>6
  <2> HIDE DEF H, H2, W, W2, N
  <2>4. /\ delivery'[d] = "pending" => HandedOver(d)' <= H2 + crashes'
        /\ delivery'[d] \in Outcome => HandedOver(d)' + W2 <= N + crashes'
    BY <2>1, <2>2, <2>3
  <2> QED BY <2>4 DEF InBudget, H2, W2, N
<1>8. ASSUME NEW e \in Delivery, e # d
      PROVE  Holding(e)' = Holding(e) /\ Waiting(e)' = Waiting(e)
  <2>1. e # None
    BY NotificationsAssumption DEF Delivery
  <2> QED BY <1>1, <1>8, <2>1 DEF TypeOK, Holding, Waiting
<1>9. ASSUME NEW e \in Delivery, e # d
      PROVE  InBudget(e)'
  BY <1>1, <1>8, <1>9, BudgetKept
<1> QED BY <1>7, <1>9 DEF SendBudget

\* Marking settles the row in hand; those that still wait for it are not
\* those that held it.
LEMMA MarkKeepsBudget ==
    ASSUME TypeOK, RecordInv, SendBudget, NEW p \in Dispatcher, Mark(p)
    PROVE  SendBudget'
<1>1. PICK d \in Delivery : d = inHand[p]
  BY DEF TypeOK, Mark, MayMark
<1>2. /\ d # None
      /\ delivery' = [delivery EXCEPT ![d] = outcome[p]]
      /\ delivery'[d] \in Outcome
      /\ todo' = [todo EXCEPT ![p] = todo[p] \ {d}]
      /\ inHand' = [inHand EXCEPT ![p] = None]
      /\ crashes' = crashes
      /\ \A e \in Delivery : HandedOver(e)' = HandedOver(e)
  BY <1>1 DEF TypeOK, Mark, MayMark, Rest, HandedOver
<1>3. ASSUME NEW e \in Delivery, e # d
      PROVE  InBudget(e)'
  <2>1. e # None
    BY NotificationsAssumption DEF Delivery
  <2>2. Holding(e)' = Holding(e) /\ Waiting(e)' = Waiting(e)
    BY <1>1, <1>2, <1>3, <2>1 DEF TypeOK, Holding, Waiting
  <2>3. delivery'[e] = delivery[e] /\ HandedOver(e)' = HandedOver(e)
    BY <1>2, <1>3 DEF TypeOK
  <2> QED BY <1>2, <2>2, <2>3, BudgetKept
<1>4. Waiting(d)' = Waiting(d)
  BY <1>1, <1>2 DEF TypeOK, Waiting
<1>5. Cardinality(Holding(d)) + Cardinality(Waiting(d))
        <= Cardinality(Dispatcher)
  <2>1. /\ Holding(d) \in SUBSET Dispatcher
        /\ Waiting(d) \in SUBSET Dispatcher
        /\ Holding(d) \cap Waiting(d) = {}
    BY DEF Holding, Waiting
  <2> QED BY <2>1, CountedApart
<1>6. Cardinality(Holding(d)) \in Nat /\ Cardinality(Waiting(d)) \in Nat
      /\ Cardinality(Dispatcher) \in Nat
  <2>1. Holding(d) \in SUBSET Dispatcher /\ Waiting(d) \in SUBSET Dispatcher
    BY DEF Holding, Waiting
  <2> QED BY <2>1, Counted
<1>7. HandedOver(d) \in Nat /\ crashes \in Nat
  BY HandedIsNat, NotificationsAssumption DEF TypeOK
<1>8. HandedOver(d) + Cardinality(Waiting(d))
        <= Cardinality(Dispatcher) + crashes
  <2>1. delivery[d] \in {"pending"} \cup Outcome
    BY <1>1, <1>2 DEF TypeOK, RecordInv
  <2>2. CASE delivery[d] = "pending"
    <3>1. HandedOver(d) <= Cardinality(Holding(d)) + crashes
      BY <2>2 DEF SendBudget, InBudget
    <3> QED BY <1>5, <1>6, <1>7, <3>1
  <2>3. CASE delivery[d] \in Outcome
    BY <2>3 DEF SendBudget, InBudget
  <2> QED BY <2>1, <2>2, <2>3
<1>9. InBudget(d)'
  BY <1>2, <1>4, <1>8 DEF InBudget, Outcome
<1> QED BY <1>3, <1>9 DEF SendBudget

\* A crash drops at most one hand, and pays for it.
LEMMA CrashKeepsBudget ==
    ASSUME TypeOK, SendBudget, NEW p \in Dispatcher, Crash(p)
    PROVE  SendBudget'
<1> SUFFICES ASSUME NEW d \in Delivery
             PROVE  InBudget(d)'
  BY DEF SendBudget
<1>1. /\ delivery' = delivery /\ HandedOver(d)' = HandedOver(d)
      /\ crashes' = crashes + 1
      /\ HandedOver(d) \in Nat /\ crashes \in Nat
  BY HandedIsNat, NotificationsAssumption DEF TypeOK, Crash, HandedOver
<1>2. Holding(d)' = Holding(d) \ {p}
  <2>1. d # None
    BY NotificationsAssumption DEF Delivery
  <2> QED BY <2>1 DEF TypeOK, Crash, Holding
<1>3. Waiting(d)' \in SUBSET Waiting(d)
  BY DEF TypeOK, Crash, Waiting
<1>4. /\ Cardinality(Holding(d)) \in Nat
      /\ Cardinality(Holding(d)') \in Nat
      /\ Cardinality(Holding(d)) <= Cardinality(Holding(d)') + 1
  <2>1. Holding(d) \in SUBSET Dispatcher
    BY DEF Holding
  <2>2. IsFiniteSet(Holding(d)) /\ Cardinality(Holding(d)) \in Nat
    BY <2>1, Counted
  <2>3. Cardinality(Holding(d) \ {p}) =
          IF p \in Holding(d) THEN Cardinality(Holding(d)) - 1
                              ELSE Cardinality(Holding(d))
    BY <2>2, FS_RemoveElement
  <2>4. Holding(d)' \in SUBSET Dispatcher
    BY <1>2, <2>1
  <2>5. Cardinality(Holding(d)') \in Nat
    BY <2>4, Counted
  <2> QED BY <1>2, <2>2, <2>3, <2>5
<1>5. /\ Cardinality(Waiting(d)) \in Nat
      /\ Cardinality(Waiting(d)') \in Nat
      /\ Cardinality(Waiting(d)') <= Cardinality(Waiting(d))
      /\ Cardinality(Dispatcher) \in Nat
  <2>1. Waiting(d) \in SUBSET Dispatcher
    BY DEF Waiting
  <2>2. Waiting(d)' \in SUBSET Dispatcher
    BY <1>3, <2>1
  <2>3. IsFiniteSet(Waiting(d))
    BY <2>1, Counted
  <2> QED BY <1>3, <2>1, <2>2, <2>3, Counted, FS_Subset
<1>6. /\ delivery[d] = "pending" =>
           HandedOver(d) <= Cardinality(Holding(d)) + crashes
      /\ delivery[d] \in Outcome =>
           HandedOver(d) + Cardinality(Waiting(d))
             <= Cardinality(Dispatcher) + crashes
  BY DEF SendBudget, InBudget
<1> QED BY <1>1, <1>4, <1>5, <1>6 DEF InBudget

\* A message goes out at most once for each dispatcher and once more for each
\* that died, for every number of dispatchers and of crashes.
THEOREM SendsBounded == Spec => []SendsAreBounded
<1>1. Init => SendBudget
  BY DEF Init, SendBudget, InBudget, Outcome
<1>2. ASSUME TypeOK, RecordInv, SendBudget, [Next]_vars
      PROVE  SendBudget'
  <2>1. ASSUME UNCHANGED <<delivery, accepted, kept, todo, inHand, crashes>>
        PROVE  SendBudget'
    BY <1>2, <2>1 DEF SendBudget, InBudget, Holding, Waiting, HandedOver
  <2>2. ASSUME NEW route \in Route, ConfigureRoute(route)
        PROVE  SendBudget'
    BY <2>1, <2>2 DEF ConfigureRoute
  <2>3. ASSUME NEW gone \in SUBSET Scheduled, CancelReminders(gone)
        PROVE  SendBudget'
    BY <2>1, <2>3 DEF CancelReminders
  <2>4. CASE UNCHANGED vars
    BY <2>1, <2>4 DEF vars
  <2> QED BY <1>2, <2>2, <2>3, <2>4, TriggerKeepsBudget, ListKeepsBudget,
            SendKeepsBudget, MarkKeepsBudget, CrashKeepsBudget
          DEF Next, Dispatch
<1>3. TypeOK /\ RecordInv /\ SendBudget => SendsAreBounded
  <2> SUFFICES ASSUME TypeOK, RecordInv, SendBudget, NEW d \in Delivery
               PROVE  HandedOver(d) <= Cardinality(Dispatcher) + crashes
    BY DEF SendsAreBounded
  <2>1. Holding(d) \in SUBSET Dispatcher /\ Waiting(d) \in SUBSET Dispatcher
    BY DEF Holding, Waiting
  <2>2. /\ Cardinality(Dispatcher) \in Nat
        /\ Cardinality(Holding(d)) \in Nat
        /\ Cardinality(Holding(d)) <= Cardinality(Dispatcher)
        /\ Cardinality(Waiting(d)) \in Nat
    BY <2>1, Counted
  <2>3. HandedOver(d) \in Nat /\ crashes \in Nat
    BY HandedIsNat, NotificationsAssumption DEF TypeOK
  <2>4. CASE delivery[d] = "none"
    BY <2>2, <2>3, <2>4 DEF RecordInv
  <2>5. CASE delivery[d] = "pending"
    <3>1. HandedOver(d) <= Cardinality(Holding(d)) + crashes
      BY <2>5 DEF SendBudget, InBudget
    <3> QED BY <2>2, <2>3, <3>1
  <2>6. CASE delivery[d] \in Outcome
    <3>1. HandedOver(d) + Cardinality(Waiting(d))
            <= Cardinality(Dispatcher) + crashes
      BY <2>6 DEF SendBudget, InBudget
    <3> QED BY <2>2, <2>3, <3>1
  <2> QED BY <2>4, <2>5, <2>6 DEF TypeOK
<1> QED BY <1>1, <1>2, <1>3, TypeCorrect, RecordAlways, PTL DEF Spec

-----------------------------------------------------------------------------
(* One dispatcher *)

\* The list of the only dispatcher does not go stale: what it is about to send
\* or to mark is still pending.  With two it may be settled by the other.
THEOREM ListOfOneIsFresh ==
    ASSUME \A p, q \in Dispatcher : p = q
    PROVE  Spec => []ListedIsPending
<1>1. Init => ListedIsPending
  BY DEF Init, ListedIsPending
<1>2. ASSUME TypeOK, RecordInv, ListedIsPending, [Next]_vars
      PROVE  ListedIsPending'
  <2>1. ASSUME UNCHANGED <<delivery, todo>>
        PROVE  ListedIsPending'
    BY <1>2, <2>1 DEF ListedIsPending
  <2>2. ASSUME NEW due \in SUBSET Scheduled, TriggerDueReminders(due)
        PROVE  ListedIsPending'
    <3>1. \A d \in Delivery :
            delivery[d] = "pending" => delivery'[d] = "pending"
      BY <2>2 DEF TriggerDueReminders, QueueDeliveries
    <3> QED BY <1>2, <2>2, <3>1 DEF TypeOK, TriggerDueReminders, ListedIsPending
  <2>3. ASSUME NEW p \in Dispatcher, NEW t \in Tenant, NEW channels,
             ListPending(p, t, channels)
        PROVE  ListedIsPending'
    BY <1>2, <2>3 DEF TypeOK, ListPending, PendingOf, ListedIsPending
  <2>4. ASSUME NEW p \in Dispatcher, Mark(p)
        PROVE  ListedIsPending'
    <3>1. \A q \in Dispatcher : todo'[q] = todo[q] \ {inHand[p]}
      BY <1>2, <2>4 DEF TypeOK, Mark, Rest
    <3>2. \A d \in Delivery : d # inHand[p] => delivery'[d] = delivery[d]
      BY <1>2, <2>4 DEF TypeOK, Mark
    <3> QED BY <1>2, <3>1, <3>2 DEF TypeOK, ListedIsPending
  <2>5. ASSUME NEW p \in Dispatcher, Crash(p)
        PROVE  ListedIsPending'
    BY <1>2, <2>5 DEF TypeOK, Crash, ListedIsPending
  <2> QED BY <1>2, <2>1, <2>2, <2>3, <2>4, <2>5
          DEF Next, Dispatch, ConfigureRoute, CancelReminders, Send, vars
<1> QED BY <1>1, <1>2, TypeCorrect, RecordAlways, PTL DEF Spec

SentOnce == \A d \in Delivery : HandedOver(d) <= 1 + crashes

\* One dispatcher sends a message once, and once more for each time it died
\* between sending and marking: SendsAreBounded where there is one.
LEMMA OneSendsOnce ==
    ASSUME \A p, q \in Dispatcher : p = q
    PROVE  Spec => []SentOnce
<1>1. Cardinality(Dispatcher) \in {0, 1}
  <2>1. CASE Dispatcher = {}
    BY <2>1, FS_EmptySet
  <2>2. CASE Dispatcher # {}
    <3>1. PICK p \in Dispatcher : TRUE
      BY <2>2
    <3>2. Dispatcher = {p}
      BY <3>1
    <3> QED BY <3>2, FS_Singleton
  <2> QED BY <2>1, <2>2
<1>2. TypeOK /\ SendsAreBounded => SentOnce
  BY <1>1, HandedIsNat, NotificationsAssumption DEF TypeOK, SendsAreBounded, SentOnce
<1> QED BY <1>2, SendsBounded, TypeCorrect, PTL

\* A row one dispatcher has marked sent is never marked failed or pending
\* again: the mark of a later answer finds no such row on its list, and
\* _queue_notification_deliveries inserts rows for reminders that had none.
THEOREM SentStaysSent ==
    ASSUME \A p, q \in Dispatcher : p = q
    PROVE  Spec => SentIsFinal
<1> DEFINE Stays == \A d \in Delivery : delivery[d] = "sent" => delivery'[d] = "sent"
<1>1. ASSUME TypeOK, RecordInv, ListedIsPending, [Next]_vars
      PROVE  [Stays]_vars
  <2>1. ASSUME UNCHANGED delivery
        PROVE  Stays
    BY <2>1
  <2>2. ASSUME NEW due \in SUBSET Scheduled, TriggerDueReminders(due)
        PROVE  Stays
    <3>1. ASSUME NEW d \in Delivery, delivery[d] = "sent"
          PROVE  d[1] \notin due
      BY <1>1, <2>2, <3>1 DEF RecordInv, Scheduled, Delivery
    <3> QED BY <1>1, <2>2, <3>1 DEF TypeOK, TriggerDueReminders, QueueDeliveries
  <2>3. ASSUME NEW p \in Dispatcher, Mark(p)
        PROVE  Stays
    <3>1. inHand[p] \in todo[p]
      BY <1>1, <2>3 DEF TypeOK, Mark, MayMark
    <3>2. delivery[inHand[p]] = "pending"
      BY <1>1, <3>1 DEF ListedIsPending
    <3>3. \A d \in Delivery : d # inHand[p] => delivery'[d] = delivery[d]
      BY <1>1, <2>3 DEF TypeOK, Mark
    <3> QED BY <3>2, <3>3
  <2> HIDE DEF Stays
  <2> QED BY <1>1, <2>1, <2>2, <2>3
          DEF Next, Dispatch, ConfigureRoute, CancelReminders, ListPending, Send,
              Crash, vars
<1>2. Spec => []ListedIsPending
  BY ListOfOneIsFresh
<1>3. Spec => [][Stays]_vars
  <2> HIDE DEF Stays
  <2> QED BY <1>1, <1>2, TypeCorrect, RecordAlways, PTL DEF Spec
<1> QED BY <1>3 DEF SentIsFinal

=============================================================================

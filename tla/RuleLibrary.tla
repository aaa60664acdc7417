---------------------------- MODULE RuleLibrary ----------------------------
(***************************************************************************)
(* From tax rules to deadlines: create_rule, register_client,              *)
(* update_client_states and _upsert_deadline_from_rule of core/engine.py,  *)
(* on the tables rules, clients and deadlines.                             *)
(*                                                                         *)
(* create_rule is not one transaction.  The rule and the supersession of   *)
(* its predecessor are committed first; then _refresh_deadlines_for_rule   *)
(* lists the tenants, and updates each in a transaction of its own.  Any   *)
(* other process may run between these, and the publishing process may die *)
(* between them.  Every other operation is one transaction, hence a step.  *)
(*                                                                         *)
(* Of a deadline only what rules touch is kept: whether a user overrode    *)
(* its date, and whether it is closed (completed or waived).  Its life     *)
(* cycle and its reminders are in Deadlines.                               *)
(***************************************************************************)
EXTENDS Integers, Sequences

CONSTANTS
    Key,             \* the (jurisdiction, tax_type) pairs rules are about
    State,           \* the states a client may be registered in
    JurisdictionOf,  \* the jurisdiction of each key, which nobody validates:
                     \* a state, Federal, or some other text
    Federal,         \* FEDERAL_JURISDICTION: applies in every state
    EntityType,
    Client,
    EntityOf,        \* the entity type each client is registered with
    Tenant,
    TenantOf,        \* the tenant each client is registered under
    Date,            \* due dates that datetime.fromisoformat can read
    BadDate,         \* a text it cannot read: create_rule does not look
    Publisher,       \* processes that run create_rule
    NoDeadline,      \* no row for a client and a key
    NotRegistered,   \* no row for a client
    MaxRules         \* bound: rules ever created

ASSUME RuleLibraryAssumption ==
    /\ EntityOf \in [Client -> EntityType]
    /\ TenantOf \in [Client -> Tenant]
    /\ BadDate \notin Date
    /\ \A s \in SUBSET State : s # NotRegistered
    /\ MaxRules \in Nat

VARIABLES
    rules,       \* the table rules in order of insertion; the index is the id
    tenants,     \* the tenants by created_at
    states,      \* registered_states of a client
    deadlines,   \* the deadline row of each client and key
    publishing,  \* what each publisher is at: the rule and the tenants left
    refresh      \* history: how the refresh of each rule ended

vars == <<rules, tenants, states, deadlines, publishing, refresh>>

AnyDate == Date \cup {BadDate}

RuleId == 1..MaxRules

Rule == [key: Key, entities: SUBSET EntityType, date: AnyDate,
         active: BOOLEAN, version: RuleId, supersededBy: RuleId \cup {0}]

DeadlineRow == [rule: RuleId, due: AnyDate, override: BOOLEAN, closed: BOOLEAN]

\* NULL is not a row.
ASSUME NoDeadlineAssumption == NoDeadline \notin DeadlineRow

Idle == [at |-> "idle"]

TypeOK ==
    /\ rules \in Seq(Rule) /\ Len(rules) <= MaxRules
    /\ tenants \in Seq(Tenant)
    /\ states \in [Client -> (SUBSET State) \cup {NotRegistered}]
    /\ deadlines \in [Client -> [Key -> DeadlineRow \cup {NoDeadline}]]
    /\ publishing \in [Publisher ->
           {Idle} \cup [at: {"committed"}, rule: RuleId]
                  \cup [at: {"refreshing"}, rule: RuleId, left: Seq(Tenant)]]
    /\ refresh \in [RuleId -> {"none", "done", "broken"}]

Init ==
    /\ rules = <<>>
    /\ tenants = <<>>
    /\ states = [c \in Client |-> NotRegistered]
    /\ deadlines = [c \in Client |-> [k \in Key |-> NoDeadline]]
    /\ publishing = [p \in Publisher |-> Idle]
    /\ refresh = [i \in RuleId |-> "none"]

-----------------------------------------------------------------------------
(* _rule_matches_client and _upsert_deadline_from_rule *)

\* Faulty variant: superseded rules are selected too.
Active_All == DOMAIN rules

Active == {i \in DOMAIN rules : rules[i].active}

Registered(c) == states[c] # NotRegistered

\* Does rule i apply to client c, registered in the states s?
Matches(i, c, s) ==
    /\ EntityOf[c] \in rules[i].entities
    /\ JurisdictionOf[rules[i].key] \in s \cup {Federal}

\* Faulty variant: the UPDATE sets the date and not the rule_id.
Upsert_OldRuleId(row, i) ==
    LET date == rules[i].date
    IN IF row = NoDeadline
       THEN [rule |-> i, due |-> date, override |-> FALSE, closed |-> FALSE]
       ELSE IF row.override THEN row ELSE [row EXCEPT !.due = date]

\* Faulty variant: a rule with the same date takes the row over all the same.
Upsert_EvenIfSame(row, i) ==
    LET date == rules[i].date
    IN IF row = NoDeadline
       THEN [rule |-> i, due |-> date, override |-> FALSE, closed |-> FALSE]
       ELSE IF row.override THEN row ELSE [row EXCEPT !.rule = i, !.due = date]

\* The row after the upsert: inserted, left alone, or moved to the rule.
Upsert(row, i) ==
    LET date == rules[i].date
    IN IF row = NoDeadline
       THEN [rule |-> i, due |-> date, override |-> FALSE, closed |-> FALSE]
       ELSE IF row.override \/ row.due = date
       THEN row
       ELSE [row EXCEPT !.rule = i, !.due = date]

\* Faulty variant: a date that cannot be read is let through on update.
Raises_OnInsert(row, i) == rules[i].date = BadDate /\ row = NoDeadline

\* The upsert raises when it comes to computing reminders from a date that
\* cannot be read; for a closed deadline it never comes to that.
Raises(row, i) ==
    /\ rules[i].date = BadDate
    /\ Upsert(row, i) # row
    /\ ~Upsert(row, i).closed

-----------------------------------------------------------------------------
(* create_tenant, register_client, update_client_states *)

CreateTenant(t) ==
    /\ \A i \in DOMAIN tenants : tenants[i] # t
    /\ tenants' = Append(tenants, t)
    /\ UNCHANGED <<rules, states, deadlines, publishing, refresh>>

\* _upsert_deadlines_for_client: every active rule that matches.
UpsertForClient(c, s) ==
    LET matching(k) == {i \in Active : rules[i].key = k /\ Matches(i, c, s)}
    IN /\ \A k \in Key, i \in Active :
            i \in matching(k) => ~Raises(deadlines[c][k], i)
       /\ deadlines' = [deadlines EXCEPT ![c] = [k \in Key |->
              IF matching(k) = {} THEN @[k]
              ELSE Upsert(@[k], CHOOSE i \in matching(k) : TRUE)]]

RegisterClient(c, s) ==
    /\ ~Registered(c)
    /\ \E i \in DOMAIN tenants : tenants[i] = TenantOf[c]
    /\ states' = [states EXCEPT ![c] = s]
    /\ UpsertForClient(c, s)
    /\ UNCHANGED <<rules, tenants, publishing, refresh>>

\* Faulty variant: deadlines are made for the states the client had.
UpdateClientStates_OldStates(c, s) ==
    /\ Registered(c)
    /\ states' = [states EXCEPT ![c] = s]
    /\ UpsertForClient(c, states[c])
    /\ UNCHANGED <<rules, tenants, publishing, refresh>>

\* Deadlines in states the client leaves are not touched.
UpdateClientStates(c, s) ==
    /\ Registered(c)
    /\ states' = [states EXCEPT ![c] = s]
    /\ UpsertForClient(c, s)
    /\ UNCHANGED <<rules, tenants, publishing, refresh>>

-----------------------------------------------------------------------------
(* create_rule *)

\* ORDER BY version DESC LIMIT 1
Newest(previous) ==
    CHOOSE i \in previous : \A j \in previous : rules[j].version <= rules[i].version

\* Faulty variants: numbering from 0; every version is the first.
NextVersion_FromZero(previous) ==
    IF previous = {} THEN 0 ELSE rules[Newest(previous)].version + 1

NextVersion_Restarts(previous) == 1

NextVersion(previous) ==
    IF previous = {} THEN 1 ELSE rules[Newest(previous)].version + 1

\* The transaction: a new version, and its predecessor superseded.
CreateRule(p, key, entities, date) ==
    LET previous == {i \in Active : rules[i].key = key}
        id == Len(rules) + 1
        rule == [key |-> key, entities |-> entities, date |-> date,
                 active |-> TRUE, supersededBy |-> 0,
                 version |-> NextVersion(previous)]
    IN /\ Len(rules) < MaxRules
       /\ publishing[p] = Idle
       /\ \/ previous = {} /\ rules' = Append(rules, rule)
          \/ /\ previous # {}
             /\ rules' = Append([rules EXCEPT ![Newest(previous)].active = FALSE,
                                              ![Newest(previous)].supersededBy = id], rule)
       /\ publishing' = [publishing EXCEPT ![p] = [at |-> "committed", rule |-> id]]
       /\ UNCHANGED <<tenants, states, deadlines, refresh>>

\* _refresh_deadlines_for_rule: the list of tenants is read once.
ListTenants(p) ==
    /\ publishing[p].at = "committed"
    /\ publishing' = [publishing EXCEPT
           ![p] = [at |-> "refreshing", rule |-> @.rule, left |-> tenants]]
    /\ UNCHANGED <<rules, tenants, states, deadlines, refresh>>

\* Faulty variant: only clients that have no such deadline yet.
Affected_WithoutRow(p) ==
    LET i == publishing[p].rule
    IN {c \in Client : /\ TenantOf[c] = Head(publishing[p].left)
                       /\ Registered(c)
                       /\ Matches(i, c, states[c])
                       /\ deadlines[c][rules[i].key] = NoDeadline}

\* The clients of the next tenant that the rule applies to.
Affected(p) ==
    LET i == publishing[p].rule
    IN {c \in Client : /\ TenantOf[c] = Head(publishing[p].left)
                       /\ Registered(c)
                       /\ Matches(i, c, states[c])}

RowFor(c, i) == deadlines[c][rules[i].key]

RefreshTenant(p) ==
    /\ publishing[p].at = "refreshing"
    /\ publishing[p].left # <<>>
    /\ LET i == publishing[p].rule
       IN /\ \A c \in Affected(p) : ~Raises(RowFor(c, i), i)
          /\ deadlines' = [c \in Client |->
                IF c \in Affected(p)
                THEN [deadlines[c] EXCEPT ![rules[i].key] = Upsert(@, i)]
                ELSE deadlines[c]]
    /\ publishing' = [publishing EXCEPT ![p].left = Tail(@)]
    /\ UNCHANGED <<rules, tenants, states, refresh>>

\* One client is enough to roll its tenant back and to end the loop: the
\* tenants that follow are not refreshed.
RefreshRaises(p) ==
    /\ publishing[p].at = "refreshing"
    /\ publishing[p].left # <<>>
    /\ \E c \in Affected(p) : Raises(RowFor(c, publishing[p].rule), publishing[p].rule)
    /\ publishing' = [publishing EXCEPT ![p] = Idle]
    /\ refresh' = [refresh EXCEPT ![publishing[p].rule] = "broken"]
    /\ UNCHANGED <<rules, tenants, states, deadlines>>

FinishRefresh(p) ==
    /\ publishing[p].at = "refreshing"
    /\ publishing[p].left = <<>>
    /\ refresh' = [refresh EXCEPT ![publishing[p].rule] = "done"]
    /\ publishing' = [publishing EXCEPT ![p] = Idle]
    /\ UNCHANGED <<rules, tenants, states, deadlines>>

\* The process dies, or a transaction finds the database locked and raises.
Crash(p) ==
    /\ publishing[p] # Idle
    /\ publishing' = [publishing EXCEPT ![p] = Idle]
    /\ refresh' = [refresh EXCEPT ![publishing[p].rule] = "broken"]
    /\ UNCHANGED <<rules, tenants, states, deadlines>>

-----------------------------------------------------------------------------
(* apply_deadline_action, as far as rules are concerned.  Reopening builds *)
(* reminders again, and raises when the date cannot be read.               *)

SetRow(c, k, row) ==
    /\ deadlines[c][k] # NoDeadline
    /\ deadlines' = [deadlines EXCEPT ![c][k] = row]
    /\ UNCHANGED <<rules, tenants, states, publishing, refresh>>

Override(c, k, date) ==
    /\ deadlines[c][k] # NoDeadline
    /\ ~deadlines[c][k].closed
    /\ SetRow(c, k, [deadlines[c][k] EXCEPT !.due = date, !.override = TRUE])

Close(c, k) ==
    /\ deadlines[c][k] # NoDeadline
    /\ ~deadlines[c][k].closed
    /\ SetRow(c, k, [deadlines[c][k] EXCEPT !.closed = TRUE])

Reopen(c, k) ==
    /\ deadlines[c][k] # NoDeadline
    /\ deadlines[c][k].closed
    /\ deadlines[c][k].due # BadDate
    /\ SetRow(c, k, [deadlines[c][k] EXCEPT !.closed = FALSE])

-----------------------------------------------------------------------------
Publish(p) == ListTenants(p) \/ RefreshTenant(p) \/ RefreshRaises(p) \/ FinishRefresh(p)

UserNext ==
    \/ \E t \in Tenant : CreateTenant(t)
    \/ \E c \in Client, s \in SUBSET State :
         RegisterClient(c, s) \/ UpdateClientStates(c, s)
    \/ \E c \in Client, k \in Key :
         Close(c, k) \/ Reopen(c, k) \/ \E date \in Date : Override(c, k, date)

Next ==
    \/ UserNext
    \/ \E p \in Publisher :
         \/ Publish(p)
         \/ Crash(p)
         \/ \E k \in Key, e \in SUBSET EntityType, date \in AnyDate :
              CreateRule(p, k, e, date)

Spec == Init /\ [][Next]_vars

\* A publisher that has started goes on, unless it crashes.
FairSpec == Spec /\ \A p \in Publisher : WF_vars(Publish(p))

-----------------------------------------------------------------------------
(* Properties *)

\* The versions of a key are 1, 2, 3, ... in order of creation, each points
\* to the next, and only the last is active: whatever the order of publishers
\* and crashes, the history of a rule can be walked from end to end.
SupersessionChain ==
    \A i \in DOMAIN rules :
        LET same == {j \in DOMAIN rules : rules[j].key = rules[i].key}
            later == {j \in same : j > i}
        IN /\ rules[i].active <=> later = {}
           /\ rules[i].active <=> rules[i].supersededBy = 0
           /\ later # {} =>
                /\ rules[i].supersededBy \in later
                /\ \A j \in later : rules[i].supersededBy <= j
                /\ rules[rules[i].supersededBy].version = rules[i].version + 1

\* A due date that no user set is the date of the rule in the row, and that
\* rule is one about this key and this kind of client.
DueDateComesFromItsRule ==
    \A c \in Client, k \in Key :
        LET row == deadlines[c][k]
        IN row # NoDeadline =>
             /\ rules[row.rule].key = k
             /\ EntityOf[c] \in rules[row.rule].entities
             /\ row.override \/ row.due = rules[row.rule].date

\* Once the refresh of the active rule of a key has run to its end, every
\* client it applies to has its date, unless a user set another: clients
\* registered or moved meanwhile included ("Refreshes affected deadlines").
UpToDate(c, i) ==
    (Registered(c) /\ Matches(i, c, states[c])) =>
        /\ RowFor(c, i) # NoDeadline
        /\ RowFor(c, i).override \/ RowFor(c, i).due = rules[i].date

RefreshedMeansCurrent ==
    \A i \in Active, c \in Client : refresh[i] = "done" => UpToDate(c, i)

\* A date that cannot be read is kept away from open deadlines, for which it
\* would have to be turned into reminders.
BadDatesOnlyInClosedRows ==
    \A c \in Client, k \in Key :
        (deadlines[c][k] # NoDeadline /\ deadlines[c][k].due = BadDate)
            => deadlines[c][k].closed /\ ~deadlines[c][k].override

\* A deadline moves on to newer versions of its rule, never back.
NeverBackToOlderRule ==
    [][\A c \in Client, k \in Key :
         deadlines[c][k] # NoDeadline =>
            deadlines'[c][k].rule >= deadlines[c][k].rule]_vars

\* Rules make and move deadlines for the states a client is registered in at
\* that moment: the deadlines of a state it has left stay as they are, however
\* the client moves while a rule is being published.
OnlyPresentStatesMove ==
    [][\A c \in Client, k \in Key :
         LET old == deadlines[c][k]
             new == deadlines'[c][k]
         IN (new # old /\ (old = NoDeadline \/ new.rule # old.rule))
              => JurisdictionOf[k] \in states'[c] \cup {Federal}]_vars

\* An active rule with a readable date reaches every client it applies to,
\* unless it is superseded first or the process that publishes it dies.
RuleReachesItsClients ==
    \A i \in RuleId, c \in Client :
        (i \in Active /\ rules[i].date # BadDate)
            ~> (i \notin Active \/ UpToDate(c, i) \/ refresh[i] = "broken")

=============================================================================

-------------------------- MODULE RuleLibraryProofs --------------------------
(***************************************************************************)
(* Proofs about RuleLibrary, for every number of publishers, tenants,      *)
(* clients and rules, and every interleaving of their transactions.  The   *)
(* steps are first reduced to what they do to the table of rules           *)
(* (RulesGrow) and to a deadline row (RowStep); the invariants then follow *)
(* from these, whatever operation did it.                                  *)
(***************************************************************************)
EXTENDS RuleLibrary, SequenceTheorems, TLAPS

\* Every rule that is referred to has been created, and no version number is
\* greater than the number of rules there were.
References ==
    /\ \A i \in DOMAIN rules : rules[i].version <= i
    /\ \A p \in Publisher : publishing[p] # Idle => publishing[p].rule \in DOMAIN rules
    /\ \A c \in Client, k \in Key : deadlines[c][k] # NoDeadline =>
          deadlines[c][k].rule \in DOMAIN rules

LibraryInv == TypeOK /\ References /\ SupersessionChain

-----------------------------------------------------------------------------
(* The table of rules *)

\* What create_rule leaves of the table: a new last row, and the predecessor,
\* if there is one, closed and pointing to it.
RulesGrow(key, entities, date, prev) ==
    LET id == Len(rules) + 1
    IN /\ rules' \in Seq(Rule)
       /\ Len(rules') = id
       /\ id <= MaxRules
       /\ rules'[id].key = key
       /\ rules'[id].entities = entities
       /\ rules'[id].date = date
       /\ rules'[id].active
       /\ rules'[id].supersededBy = 0
       /\ prev = 0 => rules'[id].version = 1
       /\ prev # 0 => rules'[id].version = rules[prev].version + 1
       /\ \A i \in DOMAIN rules :
            /\ rules'[i].key = rules[i].key
            /\ rules'[i].entities = rules[i].entities
            /\ rules'[i].date = rules[i].date
            /\ rules'[i].version = rules[i].version
            /\ i # prev => rules'[i] = rules[i]
            /\ i = prev => ~rules'[i].active /\ rules'[i].supersededBy = id
       /\ \A i \in DOMAIN rules :
            (rules[i].active /\ rules[i].key = key) <=> (prev # 0 /\ i = prev)
       /\ prev \in DOMAIN rules \cup {0}

\* At most one version of a key is active, so that create_rule supersedes the
\* one there is.
LEMMA CreateRuleGrows ==
    ASSUME LibraryInv, NEW p \in Publisher, NEW key \in Key,
           NEW entities \in SUBSET EntityType, NEW date \in AnyDate,
           CreateRule(p, key, entities, date)
    PROVE  \E prev \in DOMAIN rules \cup {0} : RulesGrow(key, entities, date, prev)
<1> DEFINE previous == {i \in Active : rules[i].key = key}
<1> DEFINE id == Len(rules) + 1
<1>1. /\ rules \in Seq(Rule)
      /\ Len(rules) \in Nat
      /\ DOMAIN rules = 1..Len(rules)
      /\ \A i \in DOMAIN rules : rules[i] \in Rule
      /\ id \in RuleId /\ id <= MaxRules
      /\ 0 \notin DOMAIN rules
  BY RuleLibraryAssumption DEF LibraryInv, TypeOK, CreateRule, RuleId
<1>2. \A i, j \in previous : i = j
  <2> SUFFICES ASSUME NEW i \in previous, NEW j \in previous, i < j PROVE FALSE
    BY <1>1 DEF Active
  <2>1. /\ i \in DOMAIN rules /\ j \in DOMAIN rules
        /\ rules[i].active /\ rules[j].key = rules[i].key
    BY DEF Active
  <2> QED BY <2>1, <1>1 DEF LibraryInv, SupersessionChain
<1>3. CASE previous = {}
  <2>1. rules' = Append(rules, [key |-> key, entities |-> entities, date |-> date,
                                active |-> TRUE, supersededBy |-> 0, version |-> 1])
    BY <1>3 DEF CreateRule, NextVersion
  <2>2. [key |-> key, entities |-> entities, date |-> date, active |-> TRUE,
         supersededBy |-> 0, version |-> 1] \in Rule
    BY <1>1, RuleLibraryAssumption DEF Rule, RuleId
  <2>3. /\ rules' \in Seq(Rule)
        /\ Len(rules') = id
        /\ \A i \in DOMAIN rules : rules'[i] = rules[i]
        /\ rules'[id] = [key |-> key, entities |-> entities, date |-> date,
                         active |-> TRUE, supersededBy |-> 0, version |-> 1]
    BY <1>1, <2>1, <2>2, AppendProperties
  <2>4. \A i \in DOMAIN rules : ~(rules[i].active /\ rules[i].key = key)
    BY <1>3 DEF Active
  <2>5. RulesGrow(key, entities, date, 0)
    BY <1>1, <2>3, <2>4 DEF RulesGrow
  <2> QED BY <2>5
<1>4. CASE previous # {}
  <2>1. PICK n \in previous : TRUE
    BY <1>4
  <2>2. n \in DOMAIN rules /\ rules[n].active /\ rules[n].key = key
    BY DEF Active
  <2>3. Newest(previous) = n
    <3>1. \A j \in previous : rules[j].version <= rules[n].version
      BY <1>1, <1>2, <2>1, <2>2 DEF Rule, RuleId
    <3> HIDE DEF previous
    <3> QED BY <1>2, <2>1, <3>1 DEF Newest
  <2> DEFINE new == [key |-> key, entities |-> entities, date |-> date,
                     active |-> TRUE, supersededBy |-> 0,
                     version |-> rules[n].version + 1]
  <2> DEFINE old == [rules EXCEPT ![n].active = FALSE, ![n].supersededBy = id]
  <2>4. rules' = Append(old, new)
    BY <1>4, <2>3 DEF CreateRule, NextVersion
  <2>5. new \in Rule
    <3>1. /\ n \in 1..Len(rules)
          /\ rules[n].version \in Nat /\ rules[n].version <= n
      BY <1>1, <2>2 DEF LibraryInv, References, Rule, RuleId
    <3>2. rules[n].version + 1 \in RuleId
      BY <1>1, <3>1, RuleLibraryAssumption DEF RuleId
    <3> QED BY <3>2 DEF Rule
  <2>6. /\ old \in Seq(Rule) /\ Len(old) = Len(rules)
        /\ \A i \in DOMAIN rules :
             /\ old[i].key = rules[i].key
             /\ old[i].entities = rules[i].entities
             /\ old[i].date = rules[i].date
             /\ old[i].version = rules[i].version
             /\ i # n => old[i] = rules[i]
             /\ i = n => ~old[i].active /\ old[i].supersededBy = id
    <3>1. \A i \in DOMAIN rules :
             old[i] = IF i = n
                      THEN [rules[i] EXCEPT !.active = FALSE, !.supersededBy = id]
                      ELSE rules[i]
      BY <2>2
    <3>2. [rules[n] EXCEPT !.active = FALSE, !.supersededBy = id] \in Rule
      BY <1>1, <2>2 DEF Rule
    <3>3. \A i \in DOMAIN rules : old[i] \in Rule
      BY <1>1, <3>1, <3>2
    <3>4. \A i \in DOMAIN rules :
             /\ old[i].key = rules[i].key
             /\ old[i].entities = rules[i].entities
             /\ old[i].date = rules[i].date
             /\ old[i].version = rules[i].version
             /\ i # n => old[i] = rules[i]
             /\ i = n => ~old[i].active /\ old[i].supersededBy = id
      BY <1>1, <3>1 DEF Rule
    <3>5. DOMAIN old = DOMAIN rules /\ old = [i \in DOMAIN rules |-> old[i]]
      OBVIOUS
    <3> HIDE DEF old
    <3>6. old \in [1..Len(rules) -> Rule]
      BY <1>1, <3>3, <3>5
    <3>7. old \in Seq(Rule)
      BY <1>1, <3>6, SeqDef
    <3>8. Len(old) = Len(rules)
      BY <1>1, <3>6, <3>7, LenProperties
    <3> QED BY <3>4, <3>7, <3>8
  <2>7. /\ rules' \in Seq(Rule)
        /\ Len(rules') = id
        /\ \A i \in DOMAIN rules : rules'[i] = old[i]
        /\ rules'[id] = new
    <3> HIDE DEF old, new
    <3>1. old \in Seq(Rule) /\ new \in Rule /\ Len(old) = Len(rules)
      BY <2>5, <2>6
    <3>2. /\ Append(old, new) \in Seq(Rule)
          /\ Len(Append(old, new)) = Len(old) + 1
          /\ \A i \in 1..Len(old) : Append(old, new)[i] = old[i]
          /\ Append(old, new)[Len(old) + 1] = new
      BY <3>1, AppendProperties
    <3> QED BY <1>1, <2>4, <3>1, <3>2
  <2>8. \A i \in DOMAIN rules : (rules[i].active /\ rules[i].key = key) <=> i = n
    BY <1>2, <2>1, <2>2 DEF Active
  <2>9. n # 0
    BY <1>1, <2>2
  <2>10. RulesGrow(key, entities, date, n)
    <3>1. /\ new.key = key /\ new.entities = entities /\ new.date = date
          /\ new.active /\ new.supersededBy = 0
          /\ new.version = rules[n].version + 1
      OBVIOUS
    <3> HIDE DEF previous, new, old
    <3>2. \A i \in DOMAIN rules : rules'[i] = old[i]
      BY <2>7
    <3> QED BY <1>1, <2>2, <2>6, <2>7, <2>8, <2>9, <3>1, <3>2 DEF RulesGrow
  <2> QED BY <2>2, <2>10
<1> QED BY <1>3, <1>4

\* The chain, said of one version at a time.
ChainAt(i) ==
    LET Later(j) == j > i /\ rules[j].key = rules[i].key
    IN /\ rules[i].active <=> \A j \in DOMAIN rules : ~Later(j)
       /\ rules[i].active <=> rules[i].supersededBy = 0
       /\ ~rules[i].active =>
            LET n == rules[i].supersededBy
            IN /\ n \in DOMAIN rules /\ Later(n)
               /\ \A j \in DOMAIN rules : Later(j) => n <= j
               /\ rules[n].version = rules[i].version + 1

\* The two ways to say it agree.
LEMMA ChainIsPointwise ==
    SupersessionChain <=> \A i \in DOMAIN rules : ChainAt(i)
<1>1. ASSUME SupersessionChain, NEW i \in DOMAIN rules PROVE ChainAt(i)
  BY <1>1 DEF SupersessionChain, ChainAt
<1>2. ASSUME \A i \in DOMAIN rules : ChainAt(i) PROVE SupersessionChain
  BY <1>2 DEF SupersessionChain, ChainAt
<1> QED BY <1>1, <1>2

\* A new version extends the chain of its key by one.
LEMMA ChainGrows ==
    ASSUME LibraryInv, NEW key \in Key, NEW entities, NEW date,
           NEW prev \in DOMAIN rules \cup {0},
           RulesGrow(key, entities, date, prev)
    PROVE  /\ SupersessionChain'
           /\ \A i \in DOMAIN rules' : rules'[i].version <= i
<1> DEFINE id == Len(rules) + 1
<1>1. /\ Len(rules) \in Nat
      /\ DOMAIN rules = 1..Len(rules)
      /\ DOMAIN rules' = 1..id
      /\ id \notin DOMAIN rules /\ id \in Nat
      /\ \A i \in DOMAIN rules : rules[i] \in Rule
  <2>1. rules \in Seq(Rule) /\ rules' \in Seq(Rule) /\ Len(rules') = id
    BY DEF LibraryInv, TypeOK, RulesGrow
  <2> QED BY <2>1, LenProperties
<1>2. /\ rules'[id].key = key
      /\ rules'[id].active
      /\ rules'[id].supersededBy = 0
      /\ prev = 0 => rules'[id].version = 1
      /\ prev # 0 => rules'[id].version = rules[prev].version + 1
  BY DEF RulesGrow
<1>3. \A i \in DOMAIN rules :
         /\ rules'[i].key = rules[i].key
         /\ rules'[i].version = rules[i].version
         /\ i # prev => rules'[i] = rules[i]
  BY <1>1 DEF RulesGrow, Rule
<1>4. prev # 0 => /\ prev \in DOMAIN rules
                  /\ rules[prev].key = key
                  /\ rules[prev].active
                  /\ ~rules'[prev].active
                  /\ rules'[prev].supersededBy = id
  BY <1>1 DEF RulesGrow, Rule
<1>5. \A i \in DOMAIN rules : i # prev /\ rules[i].key = key => ~rules[i].active
  BY DEF RulesGrow
<1>6. \A i \in DOMAIN rules : ChainAt(i)
  BY ChainIsPointwise DEF LibraryInv
<1>7. ASSUME NEW i \in DOMAIN rules' PROVE ChainAt(i)'
  <2>1. CASE i = id
    BY <1>1, <1>2, <2>1 DEF ChainAt
  <2>2. CASE i = prev
    <3>1. /\ i \in DOMAIN rules /\ i # 0
          /\ \A j \in DOMAIN rules : ~(j > i /\ rules[j].key = key)
      BY <1>1, <1>4, <1>6, <2>2 DEF ChainAt
    <3>2. /\ ~rules'[i].active /\ rules'[i].supersededBy = id
          /\ rules'[i].key = key /\ rules'[id].version = rules'[i].version + 1
          /\ id \in DOMAIN rules' /\ id > i /\ id # 0
      BY <1>1, <1>2, <1>3, <1>4, <2>2, <3>1
    <3>3. \A j \in DOMAIN rules' : j > i /\ rules'[j].key = key => j = id
      BY <1>1, <1>3, <3>1
    <3> QED BY <1>2, <3>2, <3>3, <1>1 DEF ChainAt
  <2>3. CASE i \in DOMAIN rules /\ i # prev /\ rules[i].key # key
    <3>1. \A j \in DOMAIN rules' : rules'[j].key = rules[i].key => j \in DOMAIN rules
      BY <1>1, <1>2, <2>3
    <3>2. rules'[i] = rules[i] /\ \A j \in DOMAIN rules : j \in DOMAIN rules'
      BY <1>1, <1>3, <2>3
    <3> QED BY <1>3, <1>6, <2>3, <3>1, <3>2 DEF ChainAt
  <2>4. CASE i \in DOMAIN rules /\ i # prev /\ rules[i].key = key
    <3>1. ~rules[i].active
      BY <1>5, <2>4
    <3>2. rules'[i] = rules[i] /\ \A j \in DOMAIN rules : j \in DOMAIN rules'
      BY <1>1, <1>3, <2>4
    <3> DEFINE n == rules[i].supersededBy
    <3>3. /\ n \in DOMAIN rules /\ n > i /\ rules[n].key = key
          /\ rules[n].version = rules[i].version + 1 /\ n # 0
          /\ \A j \in DOMAIN rules : j > i /\ rules[j].key = key => n <= j
      BY <1>1, <1>6, <2>4, <3>1 DEF ChainAt
    <3>4. \A j \in DOMAIN rules' : j > i /\ rules'[j].key = key => n <= j
      BY <1>1, <1>3, <3>3
    <3> QED BY <1>3, <2>4, <3>1, <3>2, <3>3, <3>4 DEF ChainAt
  <2> QED BY <1>1, <2>1, <2>2, <2>3, <2>4
<1>8. SupersessionChain'
  <2>1. (\A i \in DOMAIN rules : ChainAt(i))'
    BY <1>7
  <2> QED BY <2>1, ChainIsPointwise, PTL
<1>9. ASSUME NEW i \in DOMAIN rules' PROVE rules'[i].version <= i
  <2>1. \A j \in DOMAIN rules : rules[j].version \in Nat /\ rules[j].version <= j
    BY <1>1 DEF LibraryInv, References, Rule, RuleId
  <2> QED BY <1>1, <1>2, <1>3, <1>4, <2>1
<1> QED BY <1>8, <1>9

-----------------------------------------------------------------------------
(* The rows of the table deadlines *)

\* The rules that a step may make deadlines from: the active ones, and the one
\* that a publisher is refreshing, whether or not it still is.
InUse(i) ==
    \/ i \in Active
    \/ \E p \in Publisher : publishing[p].at = "refreshing" /\ publishing[p].rule = i

\* What a step may do to the row of client c and key k: nothing, the upsert of
\* a rule about k for the states c then has, or what users do.
Upserted(c, k, i) ==
    /\ i \in DOMAIN rules /\ InUse(i)
    /\ rules[i].key = k
    /\ Matches(i, c, states'[c])
    /\ ~Raises(deadlines[c][k], i)
    /\ deadlines'[c][k] = Upsert(deadlines[c][k], i)

SetByUser(old, new) ==
    /\ old # NoDeadline
    /\ \/ ~old.closed /\ \E date \in Date :
             new = [old EXCEPT !.due = date, !.override = TRUE]
       \/ new = [old EXCEPT !.closed = TRUE]
       \/ old.due # BadDate /\ new = [old EXCEPT !.closed = FALSE]

RowStep(c, k) ==
    \/ deadlines'[c][k] = deadlines[c][k]
    \/ \E i \in DOMAIN rules : Upserted(c, k, i)
    \/ SetByUser(deadlines[c][k], deadlines'[c][k])

Table == [Client -> [Key -> DeadlineRow \cup {NoDeadline}]]

\* The table has a row or none for each client and key after every step.
IsTable(t) == t = [c \in Client |-> [k \in Key |-> t[c][k]]]

\* _upsert_deadlines_for_client touches the rows of its client, and those with
\* rules that match.
LEMMA UpsertForClientRows ==
    ASSUME deadlines \in Table, states \in [Client -> (SUBSET State) \cup {NotRegistered}],
           NEW c \in Client, NEW s \in SUBSET State,
           UpsertForClient(c, s), states' = [states EXCEPT ![c] = s]
    PROVE  /\ IsTable(deadlines')
           /\ \A d \in Client, k \in Key : RowStep(d, k)
<1> DEFINE matching(k) == {i \in Active : rules[i].key = k /\ Matches(i, c, s)}
<1> DEFINE row(k) == IF matching(k) = {} THEN deadlines[c][k]
                     ELSE Upsert(deadlines[c][k], CHOOSE i \in matching(k) : TRUE)
<1>1. deadlines' = [deadlines EXCEPT ![c] = [k \in Key |-> row(k)]]
  BY DEF UpsertForClient, Table
<1>2. \A k \in Key, i \in Active : i \in matching(k) => ~Raises(deadlines[c][k], i)
  BY DEF UpsertForClient
<1>3. states'[c] = s
  OBVIOUS
<1>4. IsTable(deadlines')
  <2> HIDE DEF row
  <2> QED BY <1>1 DEF IsTable, Table
<1>5. ASSUME NEW k \in Key PROVE RowStep(c, k)
  <2>1. CASE matching(k) = {}
    BY <1>1, <2>1 DEF RowStep, Table
  <2>2. CASE matching(k) # {}
    <3>1. PICK i \in matching(k) : i = CHOOSE j \in matching(k) : TRUE
      BY <2>2
    <3>2. deadlines'[c][k] = Upsert(deadlines[c][k], i)
      BY <1>1, <2>2, <3>1 DEF Table
    <3>3. /\ i \in DOMAIN rules /\ rules[i].key = k /\ Matches(i, c, s)
          /\ InUse(i)
      BY DEF Active, InUse
    <3>4. ~Raises(deadlines[c][k], i)
      BY <1>2
    <3> QED BY <1>3, <3>2, <3>3, <3>4 DEF RowStep, Upserted
  <2> QED BY <2>1, <2>2
<1>6. ASSUME NEW d \in Client, d # c, NEW k \in Key PROVE RowStep(d, k)
  BY <1>1, <1>6 DEF RowStep, Table
<1> QED BY <1>4, <1>5, <1>6

\* Every step of the system is of this kind for every row.
LEMMA RowSteps ==
    ASSUME LibraryInv, Next
    PROVE  /\ IsTable(deadlines')
           /\ \A c \in Client, k \in Key : RowStep(c, k)
<1>1. deadlines \in Table /\ states \in [Client -> (SUBSET State) \cup {NotRegistered}]
  BY DEF LibraryInv, TypeOK, Table
<1>2. IsTable(deadlines)
  BY <1>1 DEF IsTable, Table
<1>3. CASE UNCHANGED deadlines
  BY <1>2, <1>3 DEF RowStep, IsTable
<1>4. ASSUME NEW c \in Client, NEW s \in SUBSET State,
             RegisterClient(c, s) \/ UpdateClientStates(c, s)
      PROVE  /\ IsTable(deadlines')
             /\ \A d \in Client, k \in Key : RowStep(d, k)
  BY <1>1, <1>4, UpsertForClientRows DEF RegisterClient, UpdateClientStates
<1>5. ASSUME NEW c \in Client, NEW k \in Key,
             \/ \E date \in Date : Override(c, k, date)
             \/ Close(c, k) \/ Reopen(c, k)
      PROVE  /\ IsTable(deadlines')
             /\ \A d \in Client, l \in Key : RowStep(d, l)
  <2>1. PICK row : /\ SetRow(c, k, row)
                   /\ SetByUser(deadlines[c][k], row)
    BY <1>5 DEF Override, Close, Reopen, SetByUser
  <2>2. deadlines' = [deadlines EXCEPT ![c][k] = row]
    BY <2>1 DEF SetRow
  <2>3. IsTable(deadlines')
    BY <1>1, <2>2 DEF IsTable, Table
  <2>4. /\ deadlines'[c][k] = row
        /\ \A d \in Client, l \in Key :
             (d # c \/ l # k) => deadlines'[d][l] = deadlines[d][l]
    BY <1>1, <2>2 DEF Table
  <2> QED BY <2>1, <2>3, <2>4 DEF RowStep
<1>6. ASSUME NEW p \in Publisher, RefreshTenant(p)
      PROVE  /\ IsTable(deadlines')
             /\ \A d \in Client, k \in Key : RowStep(d, k)
  <2> DEFINE i == publishing[p].rule
  <2>1. i \in DOMAIN rules /\ rules[i].key \in Key
    <3>1. i \in DOMAIN rules
      BY <1>6 DEF RefreshTenant, LibraryInv, References, Idle
    <3>2. rules \in Seq(Rule)
      BY DEF LibraryInv, TypeOK
    <3>3. rules[i] \in Rule
      BY <3>1, <3>2, LenProperties
    <3> QED BY <3>1, <3>3 DEF Rule
  <2>2. /\ \A c \in Affected(p) : ~Raises(deadlines[c][rules[i].key], i)
        /\ deadlines' = [c \in Client |->
              IF c \in Affected(p)
              THEN [deadlines[c] EXCEPT ![rules[i].key] = Upsert(@, i)]
              ELSE deadlines[c]]
        /\ states' = states
        /\ InUse(i)
    BY <1>6 DEF RefreshTenant, RowFor, InUse
  <2>3. IsTable(deadlines')
    BY <1>1, <2>2 DEF IsTable, Table
  <2>4. ASSUME NEW c \in Client, NEW k \in Key PROVE RowStep(c, k)
    <3>1. CASE c \in Affected(p) /\ k = rules[i].key
      <4>1. deadlines'[c][k] = Upsert(deadlines[c][k], i)
        BY <1>1, <2>1, <2>2, <3>1 DEF Table
      <4>2. Matches(i, c, states'[c])
        BY <2>2, <3>1 DEF Affected
      <4> QED BY <2>1, <2>2, <3>1, <4>1, <4>2 DEF RowStep, Upserted
    <3>2. CASE ~(c \in Affected(p) /\ k = rules[i].key)
      BY <1>1, <2>1, <2>2, <3>2 DEF RowStep, Table
    <3> QED BY <3>1, <3>2
  <2> QED BY <2>3, <2>4
<1>7. CASE UserNext
  BY <1>3, <1>4, <1>5, <1>7 DEF UserNext, CreateTenant
<1>8. ASSUME NEW p \in Publisher,
             \/ Publish(p)
             \/ Crash(p)
             \/ \E k \in Key, e \in SUBSET EntityType, date \in AnyDate :
                  CreateRule(p, k, e, date)
      PROVE  UNCHANGED deadlines \/ RefreshTenant(p)
  BY <1>8 DEF Publish, Crash, CreateRule, ListTenants, RefreshRaises, FinishRefresh
<1> QED BY <1>3, <1>6, <1>7, <1>8 DEF Next

-----------------------------------------------------------------------------
(* The inductive invariant *)

\* What a version says of its key, clients and date never changes, none is
\* removed, and the chain stays a chain.
LEMMA RulesStay ==
    ASSUME LibraryInv, [Next]_vars
    PROVE  /\ rules' \in Seq(Rule) /\ Len(rules') <= MaxRules
           /\ DOMAIN rules \subseteq DOMAIN rules'
           /\ \A i \in DOMAIN rules :
                /\ rules'[i].key = rules[i].key
                /\ rules'[i].entities = rules[i].entities
                /\ rules'[i].date = rules[i].date
           /\ \A i \in DOMAIN rules' : rules'[i].version <= i
           /\ SupersessionChain'
<1>1. CASE UNCHANGED rules
  BY <1>1 DEF LibraryInv, TypeOK, References, SupersessionChain
<1>2. ASSUME NEW p \in Publisher, NEW key \in Key,
             NEW entities \in SUBSET EntityType, NEW date \in AnyDate,
             CreateRule(p, key, entities, date)
      PROVE  /\ rules' \in Seq(Rule) /\ Len(rules') <= MaxRules
             /\ DOMAIN rules \subseteq DOMAIN rules'
             /\ \A i \in DOMAIN rules :
                  /\ rules'[i].key = rules[i].key
                  /\ rules'[i].entities = rules[i].entities
                  /\ rules'[i].date = rules[i].date
             /\ \A i \in DOMAIN rules' : rules'[i].version <= i
             /\ SupersessionChain'
  <2>1. PICK prev \in DOMAIN rules \cup {0} : RulesGrow(key, entities, date, prev)
    BY <1>2, CreateRuleGrows
  <2>2. SupersessionChain' /\ \A i \in DOMAIN rules' : rules'[i].version <= i
    BY <2>1, ChainGrows
  <2>3. /\ rules \in Seq(Rule) /\ rules' \in Seq(Rule)
        /\ Len(rules') = Len(rules) + 1 /\ Len(rules') <= MaxRules
        /\ \A i \in DOMAIN rules :
             /\ rules'[i].key = rules[i].key
             /\ rules'[i].entities = rules[i].entities
             /\ rules'[i].date = rules[i].date
    BY <2>1 DEF RulesGrow, LibraryInv, TypeOK
  <2>4. /\ DOMAIN rules = 1..Len(rules) /\ DOMAIN rules' = 1..(Len(rules) + 1)
        /\ Len(rules) \in Nat
    BY <2>3, LenProperties
  <2> QED BY <2>2, <2>3, <2>4
<1>3. ASSUME Next PROVE UNCHANGED rules \/
         \E p \in Publisher, k \in Key, e \in SUBSET EntityType, date \in AnyDate :
            CreateRule(p, k, e, date)
  BY <1>3 DEF Next, UserNext, CreateTenant, RegisterClient, UpdateClientStates,
     Close, Reopen, Override, SetRow, Publish, ListTenants, RefreshTenant,
     RefreshRaises, FinishRefresh, Crash
<1> QED BY <1>1, <1>2, <1>3 DEF vars

\* What the upsert makes of a row: a row of the rule, or the row as it was.
LEMMA UpsertMakesRow ==
    ASSUME LibraryInv, NEW i \in DOMAIN rules,
           NEW row \in DeadlineRow \cup {NoDeadline}
    PROVE  /\ Upsert(row, i) \in DeadlineRow
           /\ \/ Upsert(row, i) = row
              \/ /\ Upsert(row, i).rule = i
                 /\ Upsert(row, i).due = rules[i].date
                 /\ ~Upsert(row, i).override
<1>1. i \in RuleId /\ rules[i].date \in AnyDate
  <2>1. rules \in Seq(Rule) /\ Len(rules) <= MaxRules
    BY DEF LibraryInv, TypeOK
  <2>2. rules[i] \in Rule /\ i \in 1..Len(rules) /\ Len(rules) \in Nat
    BY <2>1, LenProperties
  <2> QED BY <2>1, <2>2, RuleLibraryAssumption DEF Rule, RuleId
<1>2. CASE row = NoDeadline
  BY <1>1, <1>2 DEF Upsert, DeadlineRow
<1>3. CASE row \in DeadlineRow /\ row # NoDeadline
  <2>1. CASE row.override \/ row.due = rules[i].date
    BY <1>3, <2>1 DEF Upsert
  <2>2. CASE ~(row.override \/ row.due = rules[i].date)
    <3>1. Upsert(row, i) = [row EXCEPT !.rule = i, !.due = rules[i].date]
      BY <1>3, <2>2 DEF Upsert
    <3> QED BY <1>1, <1>3, <2>2, <3>1 DEF DeadlineRow
  <2> QED BY <2>1, <2>2
<1> QED BY <1>2, <1>3

\* A step leaves rows that refer to rules there are.
LEMMA RowsStayRows ==
    ASSUME LibraryInv, [Next]_vars
    PROVE  /\ deadlines' \in Table
           /\ \A c \in Client, k \in Key : deadlines'[c][k] # NoDeadline =>
                deadlines'[c][k].rule \in DOMAIN rules
<1>1. /\ deadlines \in Table
      /\ \A c \in Client, k \in Key : deadlines[c][k] # NoDeadline =>
           deadlines[c][k].rule \in DOMAIN rules
  BY DEF LibraryInv, TypeOK, References, Table
<1>2. CASE UNCHANGED vars
  BY <1>1, <1>2 DEF vars
<1>3. CASE Next
  <2>1. IsTable(deadlines') /\ \A c \in Client, k \in Key : RowStep(c, k)
    BY <1>3, RowSteps
  <2>2. ASSUME NEW c \in Client, NEW k \in Key
        PROVE  /\ deadlines'[c][k] \in DeadlineRow \cup {NoDeadline}
               /\ deadlines'[c][k] # NoDeadline =>
                    deadlines'[c][k].rule \in DOMAIN rules
    <3> DEFINE old == deadlines[c][k]
    <3>1. old \in DeadlineRow \cup {NoDeadline}
      BY <1>1 DEF Table
    <3>2. CASE deadlines'[c][k] = old
      BY <1>1, <3>1, <3>2
    <3>3. ASSUME NEW i \in DOMAIN rules, Upserted(c, k, i)
          PROVE  /\ deadlines'[c][k] \in DeadlineRow
                 /\ deadlines'[c][k].rule \in DOMAIN rules
      <4>1. deadlines'[c][k] = Upsert(old, i)
        BY <3>3 DEF Upserted
      <4>2. Upsert(old, i) = old => old # NoDeadline
        BY <3>1, UpsertMakesRow, NoDeadlineAssumption
      <4> QED BY <1>1, <3>1, <4>1, <4>2, UpsertMakesRow
    <3>4. CASE SetByUser(old, deadlines'[c][k])
      <4>1. /\ deadlines'[c][k] \in DeadlineRow
            /\ deadlines'[c][k].rule = old.rule
        BY <3>1, <3>4 DEF SetByUser, DeadlineRow, AnyDate
      <4> QED BY <1>1, <3>4, <4>1 DEF SetByUser
    <3> QED BY <2>1, <3>2, <3>3, <3>4 DEF RowStep
  <2> QED BY <2>1, <2>2 DEF IsTable, Table
<1> QED BY <1>2, <1>3

\* The publishers, the tenants, the states and the history keep their types.
LEMMA OthersKeepTypes ==
    ASSUME LibraryInv, [Next]_vars
    PROVE  /\ tenants' \in Seq(Tenant)
           /\ states' \in [Client -> (SUBSET State) \cup {NotRegistered}]
           /\ refresh' \in [RuleId -> {"none", "done", "broken"}]
           /\ publishing' \in [Publisher ->
                {Idle} \cup [at: {"committed"}, rule: RuleId]
                       \cup [at: {"refreshing"}, rule: RuleId, left: Seq(Tenant)]]
           /\ \A p \in Publisher :
                publishing'[p] # Idle => publishing'[p].rule \in DOMAIN rules'
<1> DEFINE Stage == {Idle} \cup [at: {"committed"}, rule: RuleId]
                       \cup [at: {"refreshing"}, rule: RuleId, left: Seq(Tenant)]
<1>0. /\ tenants \in Seq(Tenant) /\ states \in [Client -> (SUBSET State) \cup {NotRegistered}]
      /\ refresh \in [RuleId -> {"none", "done", "broken"}]
      /\ publishing \in [Publisher -> Stage]
      /\ \A p \in Publisher :
           publishing[p] # Idle => publishing[p].rule \in DOMAIN rules
      /\ DOMAIN rules \subseteq DOMAIN rules'
      /\ DOMAIN rules' = 1..Len(rules') /\ Len(rules') \in Nat
      /\ DOMAIN rules' \subseteq RuleId
  <2>1. rules' \in Seq(Rule) /\ Len(rules') <= MaxRules /\ DOMAIN rules \subseteq DOMAIN rules'
    BY RulesStay
  <2>2. DOMAIN rules' = 1..Len(rules') /\ Len(rules') \in Nat
    BY <2>1, LenProperties
  <2> QED BY <2>1, <2>2, RuleLibraryAssumption DEF LibraryInv, TypeOK, References, RuleId
<1>1. CASE UNCHANGED <<tenants, states, refresh, publishing>>
  BY <1>0, <1>1
<1>2. ASSUME NEW t \in Tenant, CreateTenant(t)
      PROVE  tenants' \in Seq(Tenant) /\ UNCHANGED <<states, refresh, publishing>>
  BY <1>0, <1>2, AppendProperties DEF CreateTenant
<1>3. ASSUME NEW c \in Client, NEW s \in SUBSET State,
             RegisterClient(c, s) \/ UpdateClientStates(c, s)
      PROVE  /\ states' \in [Client -> (SUBSET State) \cup {NotRegistered}]
             /\ UNCHANGED <<tenants, refresh, publishing>>
  BY <1>0, <1>3 DEF RegisterClient, UpdateClientStates
<1>4. ASSUME NEW p \in Publisher,
             \E stage \in Stage :
                /\ publishing' = [publishing EXCEPT ![p] = stage]
                /\ stage # Idle => stage.rule \in DOMAIN rules'
      PROVE  /\ publishing' \in [Publisher -> Stage]
             /\ \A q \in Publisher :
                  publishing'[q] # Idle => publishing'[q].rule \in DOMAIN rules'
  BY <1>0, <1>4
<1>5. ASSUME NEW p \in Publisher, NEW k \in Key, NEW e \in SUBSET EntityType,
             NEW date \in AnyDate, CreateRule(p, k, e, date)
      PROVE  \E stage \in Stage :
                /\ publishing' = [publishing EXCEPT ![p] = stage]
                /\ stage # Idle => stage.rule \in DOMAIN rules'
  <2>1. PICK prev \in DOMAIN rules \cup {0} : RulesGrow(k, e, date, prev)
    BY <1>5, CreateRuleGrows
  <2>2. Len(rules) + 1 \in DOMAIN rules'
    BY <1>0, <2>1 DEF RulesGrow
  <2>3. [at |-> "committed", rule |-> Len(rules) + 1] \in Stage
    BY <1>0, <2>2
  <2>4. publishing' = [publishing EXCEPT ![p] = [at |-> "committed", rule |-> Len(rules) + 1]]
    BY <1>5 DEF CreateRule
  <2> QED BY <2>2, <2>3, <2>4
<1>6. ASSUME NEW p \in Publisher, ListTenants(p) \/ RefreshTenant(p)
      PROVE  \E stage \in Stage :
                /\ publishing' = [publishing EXCEPT ![p] = stage]
                /\ stage # Idle => stage.rule \in DOMAIN rules'
  <2>1. /\ publishing[p] # Idle /\ publishing[p].rule \in DOMAIN rules'
        /\ publishing[p].rule \in RuleId
    BY <1>0, <1>6 DEF ListTenants, RefreshTenant, Idle
  <2>2. CASE ListTenants(p)
    <3>1. [at |-> "refreshing", rule |-> publishing[p].rule, left |-> tenants] \in Stage
      BY <1>0, <2>1
    <3> QED BY <2>1, <2>2, <3>1 DEF ListTenants
  <2>3. CASE RefreshTenant(p)
    <3>1. /\ publishing[p] \in [at: {"refreshing"}, rule: RuleId, left: Seq(Tenant)]
          /\ publishing[p].left # <<>>
      BY <1>0, <2>3 DEF RefreshTenant, Idle
    <3>2. Tail(publishing[p].left) \in Seq(Tenant)
      BY <3>1, HeadTailProperties
    <3>3. [publishing[p] EXCEPT !.left = Tail(@)] \in
             [at: {"refreshing"}, rule: RuleId, left: Seq(Tenant)]
      BY <3>1, <3>2
    <3>4. [publishing[p] EXCEPT !.left = Tail(@)].rule \in DOMAIN rules'
      BY <2>1, <3>1
    <3>5. publishing' = [publishing EXCEPT ![p] = [publishing[p] EXCEPT !.left = Tail(@)]]
      BY <2>3 DEF RefreshTenant
    <3> QED BY <3>3, <3>4, <3>5
  <2> QED BY <1>6, <2>2, <2>3
<1>7. ASSUME NEW p \in Publisher, RefreshRaises(p) \/ FinishRefresh(p) \/ Crash(p)
      PROVE  /\ \E stage \in Stage :
                  /\ publishing' = [publishing EXCEPT ![p] = stage]
                  /\ stage # Idle => stage.rule \in DOMAIN rules'
             /\ refresh' \in [RuleId -> {"none", "done", "broken"}]
  BY <1>0, <1>7 DEF RefreshRaises, FinishRefresh, Crash
<1>8. ASSUME NEW p \in Publisher,
             \/ Publish(p)
             \/ Crash(p)
             \/ \E k \in Key, e \in SUBSET EntityType, date \in AnyDate :
                  CreateRule(p, k, e, date)
      PROVE  /\ publishing' \in [Publisher -> Stage]
             /\ \A q \in Publisher :
                  publishing'[q] # Idle => publishing'[q].rule \in DOMAIN rules'
             /\ tenants' = tenants /\ states' = states
             /\ refresh' \in [RuleId -> {"none", "done", "broken"}]
  <2>1. \E stage \in Stage :
           /\ publishing' = [publishing EXCEPT ![p] = stage]
           /\ stage # Idle => stage.rule \in DOMAIN rules'
    BY <1>5, <1>6, <1>7, <1>8 DEF Publish
  <2>2. tenants' = tenants /\ states' = states
    BY <1>8 DEF Publish, CreateRule, ListTenants, RefreshTenant, RefreshRaises,
       FinishRefresh, Crash
  <2>3. UNCHANGED refresh \/ RefreshRaises(p) \/ FinishRefresh(p) \/ Crash(p)
    BY <1>8 DEF Publish, CreateRule, ListTenants, RefreshTenant
  <2> QED BY <1>0, <1>4, <1>7, <2>1, <2>2, <2>3
<1>9. CASE UserNext
  BY <1>0, <1>2, <1>3, <1>9 DEF UserNext, Close, Reopen, Override, SetRow
<1> QED BY <1>0, <1>1, <1>8, <1>9 DEF Next, vars

\* Types, references and the chain are an inductive invariant.
LEMMA LibraryInvStep ==
    ASSUME LibraryInv, [Next]_vars
    PROVE  LibraryInv'
<1>1. TypeOK'
  BY RulesStay, RowsStayRows, OthersKeepTypes DEF TypeOK, Table
<1>2. References'
  BY RulesStay, RowsStayRows, OthersKeepTypes DEF References
<1> QED BY <1>1, <1>2, RulesStay DEF LibraryInv

\* No rule and no row exist at first.
LEMMA LibraryInvInit == Init => LibraryInv
<1> SUFFICES ASSUME Init PROVE LibraryInv
  OBVIOUS
<1>1. rules = <<>> /\ DOMAIN rules = {} /\ rules \in Seq(Rule) /\ Len(rules) = 0
  BY EmptySeq DEF Init
<1>2. TypeOK
  BY <1>1, EmptySeq, RuleLibraryAssumption DEF Init, TypeOK
<1>3. References /\ SupersessionChain
  BY <1>1 DEF Init, References, SupersessionChain
<1> QED BY <1>2, <1>3 DEF LibraryInv

\* The tables hold rows of their declared types: version numbers and references
\* to rules stay within the rules there are.
THEOREM LibraryTypeCorrect == Spec => []TypeOK
<1>1. LibraryInv => TypeOK
  BY DEF LibraryInv
<1> QED BY <1>1, LibraryInvInit, LibraryInvStep, PTL DEF Spec

\* One version of each key is active, and the versions form an unbroken chain,
\* for any number of publishers that interleave and die.
THEOREM VersionsFormAChain == Spec => []SupersessionChain
<1>1. LibraryInv => SupersessionChain
  BY DEF LibraryInv
<1> QED BY <1>1, LibraryInvInit, LibraryInvStep, PTL DEF Spec

-----------------------------------------------------------------------------
(* Where the due date of a row comes from *)

RowsExplained == DueDateComesFromItsRule /\ BadDatesOnlyInClosedRows

\* Whatever a step does to a row, rule and date in it still agree, and a date
\* that cannot be read stays out of open rows.
LEMMA RowsExplainedStep ==
    ASSUME LibraryInv, RowsExplained, [Next]_vars
    PROVE  RowsExplained'
<1> SUFFICES ASSUME NEW c \in Client, NEW k \in Key, deadlines'[c][k] # NoDeadline
             PROVE  LET row == deadlines'[c][k]
                    IN /\ rules'[row.rule].key = k
                       /\ EntityOf[c] \in rules'[row.rule].entities
                       /\ row.override \/ row.due = rules'[row.rule].date
                       /\ row.due = BadDate => row.closed /\ ~row.override
  BY DEF RowsExplained, DueDateComesFromItsRule, BadDatesOnlyInClosedRows
<1> DEFINE old == deadlines[c][k]
<1> DEFINE new == deadlines'[c][k]
<1>1. old \in DeadlineRow \cup {NoDeadline}
  BY DEF LibraryInv, TypeOK
<1>2. old # NoDeadline =>
        /\ old.rule \in DOMAIN rules
        /\ rules[old.rule].key = k
        /\ EntityOf[c] \in rules[old.rule].entities
        /\ old.override \/ old.due = rules[old.rule].date
        /\ old.due = BadDate => old.closed /\ ~old.override
  BY DEF LibraryInv, References, RowsExplained, DueDateComesFromItsRule,
     BadDatesOnlyInClosedRows
<1>3. \A i \in DOMAIN rules :
        /\ rules'[i].key = rules[i].key
        /\ rules'[i].entities = rules[i].entities
        /\ rules'[i].date = rules[i].date
  BY RulesStay
<1>4. CASE new = old
  BY <1>2, <1>3, <1>4
<1>5. ASSUME NEW i \in DOMAIN rules, Upserted(c, k, i), new # old
      PROVE  /\ rules'[new.rule].key = k
             /\ EntityOf[c] \in rules'[new.rule].entities
             /\ new.due = rules'[new.rule].date
             /\ new.due = BadDate => new.closed /\ ~new.override
  <2>1. new = Upsert(old, i) /\ rules[i].key = k /\ ~Raises(old, i)
        /\ EntityOf[c] \in rules[i].entities
    BY <1>5 DEF Upserted, Matches
  <2>2. new.rule = i /\ new.due = rules[i].date /\ ~new.override
    BY <1>1, <1>5, <2>1, UpsertMakesRow
  <2>3. new.due = BadDate => new.closed
    BY <1>5, <2>1, <2>2 DEF Raises
  <2> QED BY <1>3, <2>1, <2>2, <2>3
<1>6. CASE SetByUser(old, new)
  <2>1. old \in DeadlineRow /\ old # NoDeadline
    BY <1>1, <1>6 DEF SetByUser
  <2>2. ASSUME NEW date \in Date, ~old.closed,
               new = [old EXCEPT !.due = date, !.override = TRUE]
        PROVE  new.rule = old.rule /\ new.override /\ new.due # BadDate
    BY <2>1, <2>2, RuleLibraryAssumption DEF DeadlineRow
  <2>3. CASE new = [old EXCEPT !.closed = TRUE]
    BY <1>2, <1>3, <2>1, <2>3 DEF DeadlineRow
  <2>4. CASE old.due # BadDate /\ new = [old EXCEPT !.closed = FALSE]
    BY <1>2, <1>3, <2>1, <2>4 DEF DeadlineRow
  <2> QED BY <1>2, <1>3, <1>6, <2>1, <2>2, <2>3, <2>4 DEF SetByUser
<1>7. CASE Next
  <2>1. RowStep(c, k)
    BY <1>7, RowSteps
  <2> QED BY <1>4, <1>5, <1>6, <2>1, <1>3 DEF RowStep
<1> QED BY <1>4, <1>7 DEF vars

\* A due date that no user set is that of the rule in its row.
THEOREM DueDatesAreExplained == Spec => []DueDateComesFromItsRule
<1>1. Init => RowsExplained
  BY DEF Init, RowsExplained, DueDateComesFromItsRule, BadDatesOnlyInClosedRows
<1>2. RowsExplained => DueDateComesFromItsRule
  BY DEF RowsExplained
<1> QED BY <1>1, <1>2, RowsExplainedStep, LibraryInvInit, LibraryInvStep, PTL DEF Spec

\* A date nobody can read never gets into an open deadline.
THEOREM BadDatesStayOut == Spec => []BadDatesOnlyInClosedRows
<1>1. Init => RowsExplained
  BY DEF Init, RowsExplained, DueDateComesFromItsRule, BadDatesOnlyInClosedRows
<1>2. RowsExplained => BadDatesOnlyInClosedRows
  BY DEF RowsExplained
<1> QED BY <1>1, <1>2, RowsExplainedStep, LibraryInvInit, LibraryInvStep, PTL DEF Spec

\* Rules make and move deadlines only where the client is registered.
THEOREM OnlyPresentStates == Spec => OnlyPresentStatesMove
<1> DEFINE Moves(c, k) ==
      LET old == deadlines[c][k]
          new == deadlines'[c][k]
      IN (new # old /\ (old = NoDeadline \/ new.rule # old.rule))
           => JurisdictionOf[k] \in states'[c] \cup {Federal}
<1>1. ASSUME LibraryInv, [Next]_vars PROVE [\A c \in Client, k \in Key : Moves(c, k)]_vars
  <2> SUFFICES ASSUME Next, NEW c \in Client, NEW k \in Key PROVE Moves(c, k)
    BY <1>1
  <2>1. RowStep(c, k)
    BY <1>1, RowSteps
  <2>2. ASSUME NEW i \in DOMAIN rules, Upserted(c, k, i) PROVE Moves(c, k)
    BY <2>2 DEF Upserted, Matches
  <2>3. CASE SetByUser(deadlines[c][k], deadlines'[c][k])
    <3>1. deadlines[c][k] \in DeadlineRow
      <4>1. deadlines[c][k] \in DeadlineRow \cup {NoDeadline}
        BY <1>1 DEF LibraryInv, TypeOK
      <4> QED BY <2>3, <4>1 DEF SetByUser
    <3>2. deadlines'[c][k].rule = deadlines[c][k].rule
      BY <2>3, <3>1 DEF SetByUser, DeadlineRow
    <3> QED BY <2>3, <3>2 DEF SetByUser
  <2> QED BY <2>1, <2>2, <2>3 DEF RowStep
<1> QED BY <1>1, LibraryInvInit, LibraryInvStep, PTL DEF Spec, OnlyPresentStatesMove

-----------------------------------------------------------------------------
(* Each rule is refreshed once *)

\* The refresh of a rule is one process's business, and has no outcome before
\* that process is done with it.
RefreshOnce ==
    /\ \A i \in RuleId : i \notin DOMAIN rules => refresh[i] = "none"
    /\ \A p \in Publisher : publishing[p] # Idle => refresh[publishing[p].rule] = "none"
    /\ \A p, q \in Publisher :
         (publishing[p] # Idle /\ publishing[q] # Idle
            /\ publishing[p].rule = publishing[q].rule) => p = q

\* What a step does to the publishers: nothing, or one of them begins, goes on
\* or ends.
Begins(p) ==
    /\ Len(rules) + 1 \in DOMAIN rules' /\ Len(rules) + 1 \notin DOMAIN rules
    /\ publishing[p] = Idle
    /\ publishing' = [publishing EXCEPT
          ![p] = [at |-> "committed", rule |-> Len(rules) + 1]]
    /\ refresh' = refresh

GoesOn(p) ==
    /\ publishing[p] # Idle
    /\ \E stage : /\ stage # Idle /\ stage.rule = publishing[p].rule
                  /\ publishing' = [publishing EXCEPT ![p] = stage]
    /\ rules' = rules /\ refresh' = refresh

Ends(p) ==
    /\ publishing[p] # Idle
    /\ publishing' = [publishing EXCEPT ![p] = Idle]
    /\ \E outcome \in {"done", "broken"} :
         refresh' = [refresh EXCEPT ![publishing[p].rule] = outcome]
    /\ rules' = rules

\* Every step of the system is one of these for the publishers.
LEMMA PublisherSteps ==
    ASSUME LibraryInv, [Next]_vars
    PROVE  \/ UNCHANGED <<rules, publishing, refresh>>
           \/ \E p \in Publisher : Begins(p) \/ GoesOn(p) \/ Ends(p)
<1>0. /\ \A p \in Publisher : publishing[p].at = "committed" \/ publishing[p].at = "refreshing"
                                 => publishing[p] # Idle
      /\ \A p \in Publisher : publishing[p].at = "refreshing" =>
           publishing[p] \in [at: {"refreshing"}, rule: RuleId, left: Seq(Tenant)]
  BY DEF LibraryInv, TypeOK, Idle
<1>1. ASSUME NEW p \in Publisher, NEW k \in Key, NEW e \in SUBSET EntityType,
             NEW date \in AnyDate, CreateRule(p, k, e, date)
      PROVE  Begins(p)
  <2>1. PICK prev \in DOMAIN rules \cup {0} : RulesGrow(k, e, date, prev)
    BY <1>1, CreateRuleGrows
  <2>2. rules \in Seq(Rule) /\ rules' \in Seq(Rule) /\ Len(rules') = Len(rules) + 1
    BY <2>1 DEF RulesGrow, LibraryInv, TypeOK
  <2>3. /\ DOMAIN rules = 1..Len(rules) /\ DOMAIN rules' = 1..(Len(rules) + 1)
        /\ Len(rules) \in Nat
    BY <2>2, LenProperties
  <2> QED BY <1>1, <2>3 DEF CreateRule, Begins
<1>2. ASSUME NEW p \in Publisher, ListTenants(p) PROVE GoesOn(p)
  <2> DEFINE stage == [at |-> "refreshing", rule |-> publishing[p].rule, left |-> tenants]
  <2>1. stage # Idle /\ stage.rule = publishing[p].rule
    BY DEF Idle
  <2>2. publishing' = [publishing EXCEPT ![p] = stage]
    BY <1>2 DEF ListTenants
  <2> HIDE DEF stage
  <2> QED BY <1>0, <1>2, <2>1, <2>2 DEF ListTenants, GoesOn
<1>3. ASSUME NEW p \in Publisher, RefreshTenant(p) PROVE GoesOn(p)
  <2> DEFINE stage == [publishing[p] EXCEPT !.left = Tail(@)]
  <2>1. publishing[p] \in [at: {"refreshing"}, rule: RuleId, left: Seq(Tenant)]
    BY <1>0, <1>3 DEF RefreshTenant
  <2>2. stage.at = "refreshing" /\ stage.rule = publishing[p].rule
    BY <2>1
  <2>3. stage # Idle
    BY <2>2 DEF Idle
  <2>4. publishing' = [publishing EXCEPT ![p] = stage]
    BY <1>3 DEF RefreshTenant
  <2> HIDE DEF stage
  <2> QED BY <1>0, <1>3, <2>2, <2>3, <2>4 DEF RefreshTenant, GoesOn
<1>4. ASSUME NEW p \in Publisher, RefreshRaises(p) \/ FinishRefresh(p) \/ Crash(p)
      PROVE  Ends(p)
  BY <1>0, <1>4 DEF RefreshRaises, FinishRefresh, Crash, Ends
<1>5. CASE UserNext
  BY <1>5 DEF UserNext, CreateTenant, RegisterClient, UpdateClientStates, Close,
     Reopen, Override, SetRow
<1> QED BY <1>1, <1>2, <1>3, <1>4, <1>5 DEF Next, Publish, vars

\* An outcome comes from the process whose rule it is, and stays.
LEMMA RefreshOnceStep ==
    ASSUME LibraryInv, RefreshOnce, [Next]_vars
    PROVE  /\ RefreshOnce'
           /\ \A i \in RuleId : refresh[i] # "none" => refresh'[i] = refresh[i]
<1>0. /\ publishing \in [Publisher ->
            {Idle} \cup [at: {"committed"}, rule: RuleId]
                   \cup [at: {"refreshing"}, rule: RuleId, left: Seq(Tenant)]]
      /\ refresh \in [RuleId -> {"none", "done", "broken"}]
      /\ \A p \in Publisher : publishing[p] # Idle => publishing[p].rule \in DOMAIN rules
      /\ DOMAIN rules \subseteq DOMAIN rules'
      /\ DOMAIN rules' \subseteq RuleId
  <2>1. rules' \in Seq(Rule) /\ Len(rules') <= MaxRules /\ DOMAIN rules \subseteq DOMAIN rules'
    BY RulesStay
  <2>2. DOMAIN rules' = 1..Len(rules') /\ Len(rules') \in Nat
    BY <2>1, LenProperties
  <2> QED BY <2>1, <2>2, RuleLibraryAssumption DEF LibraryInv, TypeOK, References, RuleId
<1>1. CASE UNCHANGED <<rules, publishing, refresh>>
  BY <1>1 DEF RefreshOnce
<1>2. ASSUME NEW p \in Publisher, Begins(p)
      PROVE  RefreshOnce' /\ refresh' = refresh
  <2> DEFINE id == Len(rules) + 1
  <2>1. /\ publishing'[p] # Idle /\ publishing'[p].rule = id
        /\ \A q \in Publisher : q # p => publishing'[q] = publishing[q]
        /\ refresh' = refresh
        /\ id \in DOMAIN rules' /\ id \notin DOMAIN rules /\ id \in RuleId
    BY <1>0, <1>2 DEF Begins, Idle
  <2> HIDE DEF id
  <2> QED BY <1>0, <2>1 DEF RefreshOnce
<1>3. ASSUME NEW p \in Publisher, GoesOn(p)
      PROVE  RefreshOnce' /\ refresh' = refresh
  <2>1. /\ publishing[p] # Idle /\ publishing'[p] # Idle
        /\ publishing'[p].rule = publishing[p].rule
        /\ \A q \in Publisher : q # p => publishing'[q] = publishing[q]
        /\ refresh' = refresh /\ rules' = rules
    BY <1>0, <1>3 DEF GoesOn
  <2>2. \A q \in Publisher : /\ publishing'[q] # Idle <=> publishing[q] # Idle
                             /\ publishing'[q].rule = publishing[q].rule
    BY <2>1
  <2> QED BY <2>1, <2>2 DEF RefreshOnce
<1>4. ASSUME NEW p \in Publisher, Ends(p)
      PROVE  /\ RefreshOnce'
             /\ \A i \in RuleId : refresh[i] # "none" => refresh'[i] = refresh[i]
  <2>1. /\ publishing[p] # Idle /\ publishing'[p] = Idle
        /\ \A q \in Publisher : q # p => publishing'[q] = publishing[q]
        /\ \A i \in RuleId : i # publishing[p].rule => refresh'[i] = refresh[i]
        /\ rules' = rules
    BY <1>0, <1>4 DEF Ends
  <2> QED BY <1>0, <2>1 DEF RefreshOnce
<1> QED BY <1>1, <1>2, <1>3, <1>4, PublisherSteps

-----------------------------------------------------------------------------
(* Publishers that do not overtake each other *)

\* No rule is superseded before the process that publishes it is done.
PublishedIsActive ==
    \A p \in Publisher : publishing[p] # Idle => publishing[p].rule \in Active

\* A client is registered under a tenant that was there.
ClientsHaveTenants ==
    \A c \in Client : Registered(c) => \E n \in DOMAIN tenants : tenants[n] = TenantOf[c]

\* The clients of the tenants a refresh is through with have the rule's date;
\* those registered meanwhile got it when they were.
TenantDone(p, c) ==
    \A n \in DOMAIN publishing[p].left : publishing[p].left[n] # TenantOf[c]

DoneMeansCurrent ==
    \A p \in Publisher, c \in Client, i \in RuleId :
       (publishing[p].at = "refreshing" /\ publishing[p].rule = i /\ TenantDone(p, c))
          => UpToDate(c, i)

CurrentInv == ClientsHaveTenants /\ DoneMeansCurrent /\ RefreshedMeansCurrent

\* Of a key the active version is the last.
LEMMA ActiveIsLast ==
    ASSUME LibraryInv, NEW i \in Active, NEW j \in DOMAIN rules,
           rules[j].key = rules[i].key
    PROVE  j <= i
<1>1. ChainAt(i) /\ i \in DOMAIN rules /\ rules[i].active
  BY ChainIsPointwise DEF LibraryInv, Active
<1>2. i \in Nat /\ j \in Nat
  BY <1>1 DEF LibraryInv, TypeOK
<1> QED BY <1>1, <1>2 DEF ChainAt

\* Then no superseded rule makes or moves deadlines.
LEMMA InUseIsActive ==
    ASSUME PublishedIsActive, NEW i, InUse(i)
    PROVE  i \in Active
BY DEF InUse, PublishedIsActive, Idle

\* The upsert of a rule leaves a row with its date, or the user's.
LEMMA UpsertIsCurrent ==
    ASSUME LibraryInv, NEW i \in DOMAIN rules,
           NEW row \in DeadlineRow \cup {NoDeadline}
    PROVE  /\ Upsert(row, i) # NoDeadline
           /\ Upsert(row, i).override \/ Upsert(row, i).due = rules[i].date
<1>1. Upsert(row, i) # NoDeadline
  BY UpsertMakesRow, NoDeadlineAssumption
<1>2. CASE Upsert(row, i) = row
  BY <1>1, <1>2 DEF Upsert, DeadlineRow
<1> QED BY <1>1, <1>2, UpsertMakesRow

\* A client that registers or moves gets the deadlines of the active rules.
LEMMA NewStatesAreCurrent ==
    ASSUME LibraryInv, NEW c \in Client, NEW s \in SUBSET State, NEW i \in Active,
           UpsertForClient(c, s), states' = [states EXCEPT ![c] = s], rules' = rules
    PROVE  UpToDate(c, i)'
<1> DEFINE matching(k) == {j \in Active : rules[j].key = k /\ Matches(j, c, s)}
<1> DEFINE row(k) == IF matching(k) = {} THEN deadlines[c][k]
                     ELSE Upsert(deadlines[c][k], CHOOSE j \in matching(k) : TRUE)
<1> DEFINE k == rules[i].key
<1>1. /\ deadlines \in Table /\ states \in [Client -> (SUBSET State) \cup {NotRegistered}]
      /\ i \in DOMAIN rules /\ k \in Key
      /\ \A j \in DOMAIN rules : j \in Nat
  <2>1. rules \in Seq(Rule)
    BY DEF LibraryInv, TypeOK
  <2>2. i \in DOMAIN rules
    BY DEF Active
  <2>3. rules[i] \in Rule /\ DOMAIN rules = 1..Len(rules) /\ Len(rules) \in Nat
    BY <2>1, <2>2, LenProperties
  <2> QED BY <2>2, <2>3 DEF LibraryInv, TypeOK, Table, Rule
<1>2. deadlines' = [deadlines EXCEPT ![c] = [l \in Key |-> row(l)]]
  BY <1>1 DEF UpsertForClient, Table
<1>3. SUFFICES ASSUME Matches(i, c, s)
               PROVE  /\ deadlines'[c][k] # NoDeadline
                      /\ deadlines'[c][k].override \/ deadlines'[c][k].due = rules[i].date
  <2>1. states'[c] = s
    BY <1>1
  <2> QED BY <2>1 DEF UpToDate, RowFor, Matches
<1>4. matching(k) = {i}
  <2>1. ASSUME NEW j \in matching(k) PROVE j = i
    <3>1. j \in Active /\ j \in DOMAIN rules /\ rules[j].key = rules[i].key
      BY DEF Active
    <3> QED BY <1>1, <3>1, ActiveIsLast
  <2> QED BY <1>3, <2>1
<1>5. deadlines'[c][k] = Upsert(deadlines[c][k], i)
  <2>1. (CHOOSE j \in matching(k) : TRUE) = i
    BY <1>4
  <2>2. row(k) = Upsert(deadlines[c][k], i)
    BY <1>4, <2>1
  <2> HIDE DEF row, matching, k
  <2> QED BY <1>1, <1>2, <2>2 DEF Table
<1>6. deadlines[c][k] \in DeadlineRow \cup {NoDeadline}
  BY <1>1 DEF Table
<1> HIDE DEF k, row, matching
<1> QED BY <1>1, <1>5, <1>6, UpsertIsCurrent

\* What a client has of an active rule, it keeps while the rule is not changed.
LEMMA StaysUpToDate ==
    ASSUME LibraryInv, PublishedIsActive, Next, NEW c \in Client, NEW i \in Active,
           UpToDate(c, i)
    PROVE  UpToDate(c, i)'
<1> DEFINE k == rules[i].key
<1>1. /\ i \in DOMAIN rules /\ k \in Key
      /\ deadlines[c][k] \in DeadlineRow \cup {NoDeadline}
      /\ \A j \in DOMAIN rules : j \in Nat
  <2>1. rules \in Seq(Rule) /\ i \in DOMAIN rules
    BY DEF LibraryInv, TypeOK, Active
  <2>2. rules[i] \in Rule /\ DOMAIN rules = 1..Len(rules) /\ Len(rules) \in Nat
    BY <2>1, LenProperties
  <2> QED BY <2>1, <2>2 DEF LibraryInv, TypeOK, Rule
<1>2. /\ rules'[i].key = k
      /\ rules'[i].entities = rules[i].entities
      /\ rules'[i].date = rules[i].date
  BY <1>1, RulesStay
<1>3. CASE states'[c] = states[c]
  <2>1. SUFFICES ASSUME Registered(c), Matches(i, c, states[c])
                 PROVE  /\ deadlines'[c][k] # NoDeadline
                        /\ deadlines'[c][k].override
                             \/ deadlines'[c][k].due = rules[i].date
    BY <1>2, <1>3 DEF UpToDate, RowFor, Registered, Matches
  <2> DEFINE old == deadlines[c][k]
  <2>2. old # NoDeadline /\ (old.override \/ old.due = rules[i].date)
    BY <2>1 DEF UpToDate, RowFor
  <2>3. RowStep(c, k)
    BY <1>1, RowSteps
  <2>4. ASSUME NEW j \in DOMAIN rules, Upserted(c, k, j)
        PROVE  /\ deadlines'[c][k] # NoDeadline
               /\ deadlines'[c][k].override \/ deadlines'[c][k].due = rules[i].date
    <3>1. j \in Active /\ rules[j].key = k /\ deadlines'[c][k] = Upsert(old, j)
      BY <2>4, InUseIsActive DEF Upserted
    <3>2. j = i
      BY <1>1, <3>1, ActiveIsLast
    <3> QED BY <1>1, <3>1, <3>2, UpsertIsCurrent
  <2>5. CASE SetByUser(old, deadlines'[c][k])
    <3>1. old \in DeadlineRow
      BY <1>1, <2>2
    <3>2. /\ deadlines'[c][k] \in DeadlineRow
          /\ deadlines'[c][k].override \/ deadlines'[c][k].due = rules[i].date
      BY <2>2, <2>5, <3>1 DEF SetByUser, DeadlineRow, AnyDate
    <3> QED BY <3>2, NoDeadlineAssumption
  <2> QED BY <2>2, <2>3, <2>4, <2>5 DEF RowStep
<1>4. CASE states'[c] # states[c]
  <2>1. PICK d \in Client, s \in SUBSET State :
           RegisterClient(d, s) \/ UpdateClientStates(d, s)
    BY <1>4 DEF Next, UserNext, CreateTenant, Close, Reopen, Override, SetRow, Publish,
       ListTenants, RefreshTenant, RefreshRaises, FinishRefresh, Crash, CreateRule
  <2>2. /\ UpsertForClient(d, s) /\ states' = [states EXCEPT ![d] = s]
        /\ rules' = rules
    BY <2>1 DEF RegisterClient, UpdateClientStates
  <2>3. d = c
    BY <1>4, <2>2 DEF LibraryInv, TypeOK
  <2> QED BY <2>2, <2>3, NewStatesAreCurrent
<1> QED BY <1>3, <1>4

\* A client stays registered, and its tenant stays in the list.
LEMMA ClientsHaveTenantsStep ==
    ASSUME LibraryInv, ClientsHaveTenants, [Next]_vars
    PROVE  ClientsHaveTenants'
<1>0. tenants \in Seq(Tenant) /\ states \in [Client -> (SUBSET State) \cup {NotRegistered}]
  BY DEF LibraryInv, TypeOK
<1>1. CASE UNCHANGED <<tenants, states>>
  BY <1>1 DEF ClientsHaveTenants, Registered
<1>2. ASSUME NEW t \in Tenant, CreateTenant(t) PROVE ClientsHaveTenants'
  <2>1. /\ tenants' = Append(tenants, t) /\ states' = states
        /\ DOMAIN tenants = 1..Len(tenants) /\ Len(tenants) \in Nat
        /\ DOMAIN tenants' = 1..(Len(tenants) + 1)
        /\ \A n \in 1..Len(tenants) : tenants'[n] = tenants[n]
    BY <1>0, <1>2, AppendProperties, LenProperties DEF CreateTenant
  <2> QED BY <2>1 DEF ClientsHaveTenants, Registered
<1>3. ASSUME NEW c \in Client, NEW s \in SUBSET State,
             RegisterClient(c, s) \/ UpdateClientStates(c, s)
      PROVE  ClientsHaveTenants'
  <2>1. /\ tenants' = tenants
        /\ \A d \in Client : d # c => states'[d] = states[d]
        /\ \E n \in DOMAIN tenants : tenants[n] = TenantOf[c]
    BY <1>0, <1>3 DEF RegisterClient, UpdateClientStates, ClientsHaveTenants
  <2> QED BY <2>1 DEF ClientsHaveTenants, Registered
<1>4. \/ UNCHANGED <<tenants, states>>
      \/ \E t \in Tenant : CreateTenant(t)
      \/ \E c \in Client, s \in SUBSET State :
           RegisterClient(c, s) \/ UpdateClientStates(c, s)
  BY DEF Next, UserNext, Close, Reopen, Override, SetRow, Publish, ListTenants,
     RefreshTenant, RefreshRaises, FinishRefresh, Crash, CreateRule, vars
<1> QED BY <1>1, <1>2, <1>3, <1>4

\* After the refresh of a tenant its clients have the date of the rule.
LEMMA RefreshTenantMakesCurrent ==
    ASSUME LibraryInv, NEW p \in Publisher, RefreshTenant(p), NEW c \in Client,
           TenantOf[c] = Head(publishing[p].left),
           NEW i \in RuleId, publishing[p].rule = i
    PROVE  UpToDate(c, i)'
<1> DEFINE k == rules[i].key
<1> DEFINE row == deadlines[c][k]
<1>1. /\ i \in DOMAIN rules /\ k \in Key
      /\ row \in DeadlineRow \cup {NoDeadline}
      /\ deadlines \in Table
      /\ rules' = rules /\ states' = states
  <2>1. rules \in Seq(Rule) /\ i \in DOMAIN rules
    BY DEF LibraryInv, TypeOK, References, RefreshTenant, Idle
  <2>2. rules[i] \in Rule
    BY <2>1, LenProperties
  <2> QED BY <2>1, <2>2 DEF LibraryInv, TypeOK, Table, Rule, RefreshTenant
<1>2. SUFFICES ASSUME Registered(c), Matches(i, c, states[c])
               PROVE  /\ deadlines'[c][k] # NoDeadline
                      /\ deadlines'[c][k].override \/ deadlines'[c][k].due = rules[i].date
  BY <1>1 DEF UpToDate, RowFor, Registered, Matches
<1>3. c \in Affected(p)
  BY <1>2 DEF Affected
<1>4. deadlines'[c][k] = Upsert(row, i)
  BY <1>1, <1>3 DEF RefreshTenant, Table
<1> QED BY <1>1, <1>4, UpsertIsCurrent

\* A version that has been superseded stays so; a new one has no outcome yet.
LEMMA ActiveWasActive ==
    ASSUME LibraryInv, RefreshOnce, [Next]_vars, NEW i \in Active', refresh'[i] # "none"
    PROVE  i \in Active
<1>1. CASE UNCHANGED rules
  BY <1>1 DEF Active
<1>2. ASSUME NEW p \in Publisher, NEW key \in Key,
             NEW entities \in SUBSET EntityType, NEW date \in AnyDate,
             CreateRule(p, key, entities, date)
      PROVE  i \in Active
  <2>1. PICK prev \in DOMAIN rules \cup {0} : RulesGrow(key, entities, date, prev)
    BY <1>2, CreateRuleGrows
  <2>2. /\ DOMAIN rules = 1..Len(rules) /\ DOMAIN rules' = 1..(Len(rules) + 1)
        /\ Len(rules) \in Nat /\ Len(rules) + 1 <= MaxRules
    <3>1. /\ rules \in Seq(Rule) /\ rules' \in Seq(Rule)
          /\ Len(rules') = Len(rules) + 1 /\ Len(rules) + 1 <= MaxRules
      BY <2>1 DEF LibraryInv, TypeOK, RulesGrow
    <3> QED BY <3>1, LenProperties
  <2>3. i \in DOMAIN rules
    <3>1. i \in DOMAIN rules' /\ i \in RuleId
      BY <2>2, RuleLibraryAssumption DEF Active, RuleId
    <3>2. refresh[i] # "none"
      BY <1>2 DEF CreateRule
    <3> QED BY <3>1, <3>2 DEF RefreshOnce
  <2>4. rules'[i].active
    BY DEF Active
  <2>5. rules'[i] = rules[i]
    BY <2>1, <2>3, <2>4 DEF RulesGrow
  <2> QED BY <2>3, <2>4, <2>5 DEF Active
<1>3. ASSUME Next PROVE UNCHANGED rules \/
         \E p \in Publisher, k \in Key, e \in SUBSET EntityType, date \in AnyDate :
            CreateRule(p, k, e, date)
  BY <1>3 DEF Next, UserNext, CreateTenant, RegisterClient, UpdateClientStates,
     Close, Reopen, Override, SetRow, Publish, ListTenants, RefreshTenant,
     RefreshRaises, FinishRefresh, Crash
<1> QED BY <1>1, <1>2, <1>3 DEF vars

\* A refresh makes current tenant by tenant, and nothing undoes it meanwhile.
LEMMA DoneMeansCurrentStep ==
    ASSUME PublishedIsActive, LibraryInv, CurrentInv, Next
    PROVE  DoneMeansCurrent'
<1> SUFFICES ASSUME NEW p \in Publisher, NEW c \in Client, NEW i \in RuleId,
                    publishing'[p].at = "refreshing", publishing'[p].rule = i,
                    TenantDone(p, c)'
             PROVE  UpToDate(c, i)'
  BY DEF DoneMeansCurrent
<1>0. /\ publishing \in [Publisher ->
            {Idle} \cup [at: {"committed"}, rule: RuleId]
                   \cup [at: {"refreshing"}, rule: RuleId, left: Seq(Tenant)]]
      /\ ClientsHaveTenants /\ DoneMeansCurrent
  BY DEF LibraryInv, TypeOK, CurrentInv
<1>1. ASSUME publishing[p].rule = i, publishing[p].at = "refreshing", TenantDone(p, c)
      PROVE  UpToDate(c, i)'
  <2>1. publishing[p] # Idle /\ UpToDate(c, i)
    BY <1>0, <1>1 DEF DoneMeansCurrent, Idle
  <2>2. i \in Active
    BY <1>1, <2>1 DEF PublishedIsActive
  <2> QED BY <2>1, <2>2, StaysUpToDate
<1>3. CASE publishing'[p] = publishing[p]
  <2>1. TenantDone(p, c)
    BY <1>3 DEF TenantDone
  <2> QED BY <1>1, <1>3, <2>1
<1>4. CASE ListTenants(p)
  <2>1. publishing'[p].left = tenants
    BY <1>0, <1>4 DEF ListTenants
  <2>2. ~Registered(c)
    BY <1>0, <2>1 DEF TenantDone, ClientsHaveTenants
  <2>3. states' = states
    BY <1>4 DEF ListTenants
  <2> QED BY <2>2, <2>3 DEF UpToDate, Registered
<1>5. CASE RefreshTenant(p)
  <2>1. /\ publishing[p].at = "refreshing"
        /\ publishing[p].left \in Seq(Tenant) /\ publishing[p].left # <<>>
        /\ publishing[p].rule = i
        /\ publishing'[p].left = Tail(publishing[p].left)
    <3>1. publishing[p].at = "refreshing" /\ publishing[p].left # <<>>
      BY <1>5 DEF RefreshTenant
    <3>2. publishing[p] \in [at: {"refreshing"}, rule: RuleId, left: Seq(Tenant)]
      BY <1>0, <3>1 DEF Idle
    <3>3. publishing'[p] = [publishing[p] EXCEPT !.left = Tail(@)]
      BY <1>0, <1>5 DEF RefreshTenant
    <3> QED BY <3>1, <3>2, <3>3
  <2>2. CASE TenantOf[c] = Head(publishing[p].left)
    BY <1>5, <2>1, <2>2, RefreshTenantMakesCurrent
  <2>3. CASE TenantOf[c] # Head(publishing[p].left)
    <3> DEFINE left == publishing[p].left
    <3>1. /\ DOMAIN left = 1..Len(left) /\ Len(left) \in Nat /\ Len(left) # 0
          /\ Head(left) = left[1]
          /\ DOMAIN Tail(left) = 1..(Len(left) - 1)
          /\ \A n \in 1..(Len(left) - 1) : Tail(left)[n] = left[n + 1]
      <4>1. /\ Tail(left) \in Seq(Tenant) /\ Len(Tail(left)) = Len(left) - 1
            /\ \A n \in 1..Len(Tail(left)) : Tail(left)[n] = left[n + 1]
        BY <2>1, HeadTailProperties
      <4>2. Len(left) # 0 /\ Len(left) \in Nat /\ DOMAIN left = 1..Len(left)
        BY <2>1, EmptySeq, LenProperties
      <4>3. DOMAIN Tail(left) = 1..Len(Tail(left))
        BY <4>1, LenProperties
      <4> QED BY <4>1, <4>2, <4>3
    <3>2. \A n \in DOMAIN Tail(left) : Tail(left)[n] # TenantOf[c]
      BY <2>1 DEF TenantDone
    <3>3. \A n \in DOMAIN left : left[n] # TenantOf[c]
      <4> SUFFICES ASSUME NEW n \in DOMAIN left PROVE left[n] # TenantOf[c]
        OBVIOUS
      <4> HIDE DEF left
      <4>1. CASE n = 1
        BY <2>3, <3>1, <4>1 DEF left
      <4>2. CASE n # 1
        <5>1. n - 1 \in DOMAIN Tail(left) /\ Tail(left)[n - 1] = left[n]
          BY <3>1, <4>2
        <5> QED BY <3>2, <5>1
      <4> QED BY <4>1, <4>2
    <3> QED BY <1>1, <2>1, <3>3 DEF TenantDone
  <2> QED BY <2>2, <2>3
<1>6. \/ publishing'[p] = publishing[p]
      \/ ListTenants(p) \/ RefreshTenant(p)
      \/ publishing'[p].at # "refreshing"
  <2>0. \A q \in Publisher : \A stage : publishing' = [publishing EXCEPT ![q] = stage]
          => IF q = p THEN publishing'[p] = stage ELSE publishing'[p] = publishing[p]
    BY <1>0
  <2>1. ASSUME NEW q \in Publisher, RefreshRaises(q) \/ FinishRefresh(q) \/ Crash(q)
        PROVE  publishing'[p] = publishing[p] \/ publishing'[p].at # "refreshing"
    BY <1>0, <2>1 DEF RefreshRaises, FinishRefresh, Crash, Idle
  <2>2. ASSUME NEW q \in Publisher, NEW k \in Key, NEW e \in SUBSET EntityType,
               NEW date \in AnyDate, CreateRule(q, k, e, date)
        PROVE  publishing'[p] = publishing[p] \/ publishing'[p].at # "refreshing"
    BY <1>0, <2>2 DEF CreateRule
  <2>4. ASSUME NEW q \in Publisher, ListTenants(q) \/ RefreshTenant(q)
        PROVE  publishing'[p] = publishing[p] \/ ListTenants(p) \/ RefreshTenant(p)
    BY <2>0, <2>4 DEF ListTenants, RefreshTenant
  <2>3. CASE UserNext
    BY <2>3 DEF UserNext, CreateTenant, RegisterClient, UpdateClientStates, Close,
       Reopen, Override, SetRow
  <2> QED BY <2>1, <2>2, <2>3, <2>4 DEF Next, Publish
<1> QED BY <1>3, <1>4, <1>5, <1>6

\* What was current stays so, and a refresh that ends has made all clients so.
LEMMA RefreshedMeansCurrentStep ==
    ASSUME PublishedIsActive, LibraryInv, RefreshOnce, CurrentInv, Next
    PROVE  RefreshedMeansCurrent'
<1> SUFFICES ASSUME NEW i \in Active', NEW c \in Client, refresh'[i] = "done"
             PROVE  UpToDate(c, i)'
  BY DEF RefreshedMeansCurrent
<1>1. i \in Active /\ i \in RuleId
  <2>1. i \in Active
    BY ActiveWasActive
  <2>2. rules \in Seq(Rule) /\ Len(rules) <= MaxRules
    BY DEF LibraryInv, TypeOK
  <2>3. DOMAIN rules = 1..Len(rules) /\ Len(rules) \in Nat
    BY <2>2, LenProperties
  <2> QED BY <2>1, <2>2, <2>3, RuleLibraryAssumption DEF Active, RuleId
<1>2. SUFFICES UpToDate(c, i)
  BY <1>1, StaysUpToDate DEF CurrentInv
<1>3. CASE refresh[i] = "done"
  BY <1>1, <1>3 DEF CurrentInv, RefreshedMeansCurrent
<1>4. CASE refresh[i] # "done"
  <2>1. PICK p \in Publisher : FinishRefresh(p)
    <3>1. \A q \in Publisher : ~RefreshRaises(q) /\ ~Crash(q)
      BY <1>1, <1>4 DEF RefreshRaises, Crash, LibraryInv, TypeOK
    <3>2. refresh' # refresh
      BY <1>4
    <3> QED BY <3>1, <3>2 DEF Next, UserNext, CreateTenant, RegisterClient,
           UpdateClientStates, Close, Reopen, Override, SetRow, Publish, ListTenants,
           RefreshTenant, CreateRule
  <2>2. publishing[p].rule = i
    BY <1>1, <1>4, <2>1 DEF FinishRefresh, LibraryInv, TypeOK
  <2>3. publishing[p].at = "refreshing" /\ TenantDone(p, c)
    BY <2>1 DEF FinishRefresh, TenantDone
  <2> QED BY <1>1, <2>2, <2>3 DEF CurrentInv, DoneMeansCurrent
<1> QED BY <1>3, <1>4

\* The three parts of the invariant need each other.
LEMMA CurrentInvStep ==
    ASSUME PublishedIsActive, LibraryInv, RefreshOnce, CurrentInv, [Next]_vars
    PROVE  CurrentInv'
<1>1. ClientsHaveTenants'
  BY ClientsHaveTenantsStep DEF CurrentInv
<1>2. CASE Next
  BY <1>1, <1>2, DoneMeansCurrentStep, RefreshedMeansCurrentStep DEF CurrentInv
<1>3. CASE UNCHANGED vars
  <2>1. DoneMeansCurrent'
    BY <1>3, Zenon DEF CurrentInv, DoneMeansCurrent, TenantDone, UpToDate, Registered,
       Matches, RowFor, vars
  <2>2. RefreshedMeansCurrent'
    BY <1>3, Zenon DEF CurrentInv, RefreshedMeansCurrent, Active, UpToDate, Registered,
       Matches, RowFor, vars
  <2> QED BY <1>1, <2>1, <2>2 DEF CurrentInv
<1> QED BY <1>2, <1>3

\* Nobody publishes and no client is registered at first.
LEMMA CurrentInvInit == Init => RefreshOnce /\ CurrentInv
<1> SUFFICES ASSUME Init PROVE RefreshOnce /\ CurrentInv
  OBVIOUS
<1>1. /\ \A p \in Publisher : publishing[p] = Idle
      /\ \A c \in Client : ~Registered(c)
      /\ Active = {}
      /\ \A i \in RuleId : refresh[i] = "none"
  BY DEF Init, Registered, Active
<1>2. RefreshOnce
  BY <1>1 DEF RefreshOnce
<1>3. CurrentInv
  BY <1>1 DEF CurrentInv, ClientsHaveTenants, DoneMeansCurrent,
     RefreshedMeansCurrent, UpToDate
<1> QED BY <1>2, <1>3

\* As long as no publisher is overtaken, the invariant holds of every state.
LEMMA CurrentAlways ==
    Spec /\ []PublishedIsActive => [](LibraryInv /\ RefreshOnce /\ CurrentInv)
<1>1. LibraryInv /\ RefreshOnce /\ CurrentInv /\ PublishedIsActive /\ [Next]_vars
        => RefreshOnce' /\ CurrentInv'
  BY RefreshOnceStep, CurrentInvStep
<1> QED BY <1>1, CurrentInvInit, LibraryInvInit, LibraryInvStep, PTL DEF Spec

\* As long as no rule is superseded while it is being published, every client
\* that an active rule applies to has its date once the refresh of the rule is
\* over, those included that registered, moved or got a tenant in the middle
\* of it; and it stays so.
THEOREM RefreshMakesCurrent ==
    Spec /\ []PublishedIsActive => []RefreshedMeansCurrent
<1>1. CurrentInv => RefreshedMeansCurrent
  BY DEF CurrentInv
<1> QED BY <1>1, CurrentAlways, PTL

\* And no deadline goes back to an older version of its rule.
THEOREM NeverBack ==
    Spec /\ []PublishedIsActive => NeverBackToOlderRule
<1> DEFINE Forward(c, k) == deadlines[c][k] # NoDeadline =>
                              deadlines'[c][k].rule >= deadlines[c][k].rule
<1>1. ASSUME LibraryInv, RowsExplained, PublishedIsActive, [Next]_vars
      PROVE  [\A c \in Client, k \in Key : Forward(c, k)]_vars
  <2> SUFFICES ASSUME Next, NEW c \in Client, NEW k \in Key, deadlines[c][k] # NoDeadline
               PROVE  deadlines'[c][k].rule >= deadlines[c][k].rule
    BY <1>1
  <2> DEFINE old == deadlines[c][k]
  <2>1. /\ old \in DeadlineRow /\ old.rule \in DOMAIN rules /\ rules[old.rule].key = k
        /\ old.rule \in Nat
    BY <1>1 DEF LibraryInv, TypeOK, References, RowsExplained, DueDateComesFromItsRule,
       DeadlineRow, RuleId
  <2>2. RowStep(c, k)
    BY <1>1, RowSteps
  <2>3. ASSUME NEW i \in DOMAIN rules, Upserted(c, k, i)
        PROVE  deadlines'[c][k].rule >= old.rule
    <3>1. i \in Active /\ rules[i].key = k /\ deadlines'[c][k] = Upsert(old, i)
      BY <1>1, <2>3, InUseIsActive DEF Upserted
    <3>2. old.rule <= i
      BY <1>1, <2>1, <3>1, ActiveIsLast
    <3>3. deadlines'[c][k].rule = old.rule \/ deadlines'[c][k].rule = i
      BY <1>1, <2>1, <3>1, UpsertMakesRow
    <3>4. i \in Nat
      BY <1>1 DEF LibraryInv, TypeOK
    <3> QED BY <2>1, <3>2, <3>3, <3>4
  <2>4. CASE SetByUser(old, deadlines'[c][k])
    <3>1. deadlines'[c][k].rule = old.rule
      BY <2>1, <2>4 DEF SetByUser, DeadlineRow
    <3> QED BY <2>1, <3>1
  <2> QED BY <2>1, <2>2, <2>3, <2>4 DEF RowStep
<1>2. Init => RowsExplained
  BY DEF Init, RowsExplained, DueDateComesFromItsRule, BadDatesOnlyInClosedRows
<1> QED BY <1>1, <1>2, LibraryInvInit, LibraryInvStep, RowsExplainedStep, PTL
        DEF Spec, NeverBackToOlderRule

-----------------------------------------------------------------------------
(* One publisher at a time *)

\* What `rule add` and `rule ingest`, typed one after the other, amount to.
OnePublisher == \A p, q \in Publisher : p = q

\* The rule being published is the last one.
LastIsPublished ==
    \A p \in Publisher : publishing[p] # Idle => publishing[p].rule = Len(rules)

\* The last rule there is, is active.
LEMMA LastIsActive ==
    ASSUME LibraryInv, Len(rules) \in DOMAIN rules
    PROVE  Len(rules) \in Active
<1>1. ChainAt(Len(rules))
  BY ChainIsPointwise DEF LibraryInv
<1>2. \A j \in DOMAIN rules : j <= Len(rules) /\ j \in Nat
  BY DEF LibraryInv, TypeOK
<1> QED BY <1>1, <1>2 DEF ChainAt, Active

\* The one publisher begins with the last rule, and no other follows before it
\* has ended.
LEMMA LastIsPublishedStep ==
    ASSUME OnePublisher, LibraryInv, LastIsPublished, [Next]_vars
    PROVE  LastIsPublished'
<1>0. \A p \in Publisher : \A stage : publishing' = [publishing EXCEPT ![p] = stage]
        => /\ publishing'[p] = stage
           /\ \A q \in Publisher : q = p
  BY DEF OnePublisher, LibraryInv, TypeOK
<1>1. CASE UNCHANGED <<rules, publishing, refresh>>
  BY <1>1 DEF LastIsPublished
<1>2. ASSUME NEW p \in Publisher, Begins(p) PROVE LastIsPublished'
  <2>1. rules' \in Seq(Rule) /\ Len(rules') = Len(rules) + 1
    <3>1. rules' # rules /\ [Next]_vars
      BY <1>2 DEF Begins
    <3>2. PICK q \in Publisher, k \in Key, e \in SUBSET EntityType, date \in AnyDate :
             CreateRule(q, k, e, date)
      BY <3>1 DEF Next, UserNext, CreateTenant, RegisterClient, UpdateClientStates,
         Close, Reopen, Override, SetRow, Publish, ListTenants, RefreshTenant,
         RefreshRaises, FinishRefresh, Crash, vars
    <3>3. PICK prev \in DOMAIN rules \cup {0} : RulesGrow(k, e, date, prev)
      BY <3>2, CreateRuleGrows
    <3> QED BY <3>3 DEF RulesGrow
  <2>2. /\ \A q \in Publisher : q = p
        /\ publishing'[p] = [at |-> "committed", rule |-> Len(rules) + 1]
    BY <1>0, <1>2 DEF Begins
  <2> QED BY <2>1, <2>2 DEF LastIsPublished
<1>3. ASSUME NEW p \in Publisher, GoesOn(p) PROVE LastIsPublished'
  BY <1>0, <1>3 DEF GoesOn, LastIsPublished
<1>4. ASSUME NEW p \in Publisher, Ends(p) PROVE LastIsPublished'
  BY <1>0, <1>4 DEF Ends, LastIsPublished
<1> QED BY <1>1, <1>2, <1>3, <1>4, PublisherSteps

\* Nobody overtakes a single publisher.
LEMMA OneIsNotOvertaken ==
    ASSUME OnePublisher
    PROVE  Spec => []PublishedIsActive
<1>1. OnePublisher
  OBVIOUS
<1>2. Init => LastIsPublished
  BY DEF Init, LastIsPublished
<1>3. ASSUME LibraryInv, LastIsPublished PROVE PublishedIsActive
  BY <1>3, LastIsActive DEF LastIsPublished, PublishedIsActive, LibraryInv, References
<1>4. LibraryInv /\ LastIsPublished /\ [Next]_vars => LastIsPublished'
  BY <1>1, LastIsPublishedStep
<1> QED BY <1>2, <1>3, <1>4, LibraryInvInit, LibraryInvStep, PTL DEF Spec

\* With one publisher at a time both hold without further ado.
THEOREM OneAtATime ==
    ASSUME OnePublisher
    PROVE  Spec => []RefreshedMeansCurrent /\ NeverBackToOlderRule
BY OneIsNotOvertaken, RefreshMakesCurrent, NeverBack, PTL

=============================================================================

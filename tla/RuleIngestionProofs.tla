------------------------- MODULE RuleIngestionProofs -------------------------
(***************************************************************************)
(* Proofs about RuleIngestion, for all texts, sources, fetching processes  *)
(* and bounds.  Every step is a step of RuleLibrary or leaves the library  *)
(* alone, so that what RuleLibraryProofs shows of rules and deadlines      *)
(* holds here; on top of it come the texts the rules were read from and    *)
(* the fetches that wrote them.                                            *)
(***************************************************************************)
EXTENDS RuleIngestion, SequenceTheorems, WellFoundedInduction, TLAPS

LP == INSTANCE RuleLibraryProofs

-----------------------------------------------------------------------------
(* The steps of RuleLibrary *)

\* What RuleLibraryProofs assumes of the constants.
LEMMA LibraryConstants == LP!RuleLibraryAssumption /\ LP!NoDeadlineAssumption
<1>1. L!RuleLibraryAssumption /\ L!NoDeadlineAssumption
  BY RuleIngestionAssumption
<1>2. L!RuleLibraryAssumption => LP!RuleLibraryAssumption
  BY DEF L!RuleLibraryAssumption, LP!RuleLibraryAssumption
<1>3. L!NoDeadlineAssumption => LP!NoDeadlineAssumption
  BY DEF L!NoDeadlineAssumption, LP!NoDeadlineAssumption, L!DeadlineRow, LP!DeadlineRow,
     L!RuleId, LP!RuleId, L!AnyDate, LP!AnyDate
<1> QED BY <1>1, <1>2, <1>3

\* The sets of values are those RuleLibraryProofs is about.
LEMMA SameValues ==
    /\ L!Idle = LP!Idle /\ L!RuleId = LP!RuleId /\ L!AnyDate = LP!AnyDate
    /\ L!TypeOK <=> LP!TypeOK
<1>1. L!Idle = LP!Idle /\ L!RuleId = LP!RuleId /\ L!AnyDate = LP!AnyDate
  BY DEF L!Idle, LP!Idle, L!RuleId, LP!RuleId, L!AnyDate, LP!AnyDate
<1>2. L!Rule = LP!Rule /\ L!DeadlineRow = LP!DeadlineRow
  BY <1>1, Zenon DEF L!Rule, LP!Rule, L!DeadlineRow, LP!DeadlineRow
<1>3. L!TypeOK <=> LP!TypeOK
  BY <1>1, <1>2, Zenon DEF L!TypeOK, LP!TypeOK
<1> QED BY <1>1, <1>3

\* So are the actions of a publisher.
LEMMA SamePublish ==
    ASSUME NEW p \in Publisher
    PROVE  /\ \A k \in Key, e \in SUBSET EntityType, date \in LP!AnyDate :
                L!CreateRule(p, k, e, date) => LP!CreateRule(p, k, e, date)
           /\ L!ListTenants(p) => LP!ListTenants(p)
           /\ L!RefreshTenant(p) => LP!RefreshTenant(p)
           /\ L!RefreshRaises(p) => LP!RefreshRaises(p)
           /\ L!FinishRefresh(p) => LP!FinishRefresh(p)
           /\ L!Crash(p) => LP!Crash(p)
<1>1. ASSUME NEW k, NEW e, NEW date, L!CreateRule(p, k, e, date)
      PROVE  LP!CreateRule(p, k, e, date)
  BY <1>1, Zenon DEF L!CreateRule, LP!CreateRule, L!Active, LP!Active, L!NextVersion,
     LP!NextVersion, L!Newest, LP!Newest, L!Idle, LP!Idle
<1>2. L!ListTenants(p) => LP!ListTenants(p)
  BY Zenon DEF L!ListTenants, LP!ListTenants
<1>3. L!RefreshTenant(p) => LP!RefreshTenant(p)
  BY Zenon DEF L!RefreshTenant, LP!RefreshTenant, L!Affected, LP!Affected, L!Matches,
     LP!Matches, L!Registered, LP!Registered, L!Raises, LP!Raises, L!Upsert, LP!Upsert,
     L!RowFor, LP!RowFor
<1>4. L!RefreshRaises(p) => LP!RefreshRaises(p)
  BY Zenon DEF L!RefreshRaises, LP!RefreshRaises, L!Affected, LP!Affected, L!Matches,
     LP!Matches, L!Registered, LP!Registered, L!Raises, LP!Raises, L!Upsert, LP!Upsert,
     L!RowFor, LP!RowFor, L!Idle, LP!Idle
<1>5. L!FinishRefresh(p) => LP!FinishRefresh(p)
  BY Zenon DEF L!FinishRefresh, LP!FinishRefresh, L!Idle, LP!Idle
<1>6. L!Crash(p) => LP!Crash(p)
  BY Zenon DEF L!Crash, LP!Crash, L!Idle, LP!Idle
<1> QED BY <1>1, <1>2, <1>3, <1>4, <1>5, <1>6

\* And what clients and users do.
LEMMA SameUsers == L!UserNext => LP!UserNext
<1>1. \A t \in Tenant : L!CreateTenant(t) => LP!CreateTenant(t)
  BY Zenon DEF L!CreateTenant, LP!CreateTenant
<1>2. \A c \in Client, s \in SUBSET State :
        L!UpsertForClient(c, s) => LP!UpsertForClient(c, s)
  BY Zenon DEF L!UpsertForClient, LP!UpsertForClient, L!Active, LP!Active, L!Matches,
     LP!Matches, L!Raises, LP!Raises, L!Upsert, LP!Upsert
<1>3. \A c \in Client, s \in SUBSET State :
        /\ L!RegisterClient(c, s) => LP!RegisterClient(c, s)
        /\ L!UpdateClientStates(c, s) => LP!UpdateClientStates(c, s)
  BY <1>2, Zenon DEF L!RegisterClient, LP!RegisterClient, L!UpdateClientStates,
     LP!UpdateClientStates, L!Registered, LP!Registered
<1>4. \A c \in Client, k \in Key :
        /\ L!Close(c, k) => LP!Close(c, k)
        /\ L!Reopen(c, k) => LP!Reopen(c, k)
        /\ \A date \in Date : L!Override(c, k, date) => LP!Override(c, k, date)
  BY Zenon DEF L!Close, LP!Close, L!Reopen, LP!Reopen, L!Override, LP!Override,
     L!SetRow, LP!SetRow
<1> QED BY <1>1, <1>3, <1>4 DEF L!UserNext, LP!UserNext

-----------------------------------------------------------------------------
(* The parser *)

\* A set of line numbers that is not empty has a first one.
LEMMA FirstExists ==
    ASSUME NEW T, T \subseteq Nat, T # {}
    PROVE  \E i \in T : \A j \in T : i <= j
<1>1. IsWellFoundedOn({ss \in Nat \X Nat : ss[1] < ss[2]}, Nat)
  BY NatLessThanWellFounded DEF OpToRel
<1>2. PICK i \in T : \A j \in T : <<j, i>> \notin {ss \in Nat \X Nat : ss[1] < ss[2]}
  BY <1>1, WFMin
<1>3. \A j \in T : ~(j < i)
  BY <1>2
<1> QED BY <1>3

\* A label that stands somewhere in a text is read at the first of its places.
LEMMA FirstIsFound ==
    ASSUME NEW text \in Text, NEW f \in Field, Found(text, f) # {}
    PROVE  /\ First(text, f) \in Found(text, f)
           /\ \A j \in Found(text, f) : First(text, f) <= j
<1>1. text \in Seq(Line)
  BY RuleIngestionAssumption
<1>2. Found(text, f) \subseteq Nat
  BY <1>1 DEF Found
<1>3. \E i \in Found(text, f) : \A j \in Found(text, f) : i <= j
  BY <1>2, FirstExists
<1> QED BY <1>3 DEF First

\* What the parser reads of a field stands on a line of the text: behind the
\* label or on the line that follows.  If it reads nothing, there is no label,
\* or only one at the very end.
LEMMA ReadSaysFound ==
    ASSUME NEW text \in Text, NEW f \in Field
    PROVE  /\ Read(text, f) # Empty =>
                /\ Read(text, f) \in Value
                /\ \E j \in Found(text, f) : text[j].after[f] # Empty \/ j < Len(text)
           /\ Read(text, f) = Empty => \A j \in Found(text, f) :
                text[j].after[f] = Empty /\ j = Len(text)
<1>1. /\ text \in Seq(Line) /\ Len(text) \in Nat /\ DOMAIN text = 1..Len(text)
      /\ \A i \in DOMAIN text : text[i] \in Line
  BY RuleIngestionAssumption, LenProperties
<1>2. /\ \A i \in DOMAIN text : /\ text[i].whole \in Value
                                /\ text[i].after[f] \in Value \cup {Absent, Empty}
      /\ Empty \notin Value
  BY <1>1, RuleIngestionAssumption DEF Line
<1>3. CASE Found(text, f) = {}
  BY <1>3 DEF Read
<1>4. CASE Found(text, f) # {}
  <2> DEFINE i == First(text, f)
  <2>1. i \in Found(text, f) /\ i \in DOMAIN text /\ text[i].after[f] # Absent
    BY <1>4, FirstIsFound DEF Found
  <2>2. Read(text, f) = IF text[i].after[f] # Empty THEN text[i].after[f]
                        ELSE IF i < Len(text) THEN text[i + 1].whole ELSE Empty
    BY <1>4 DEF Read
  <2>3. i < Len(text) => i + 1 \in DOMAIN text
    BY <1>1, <2>1
  <2> HIDE DEF i
  <2>4. /\ Read(text, f) # Empty =>
             Read(text, f) \in Value /\ (text[i].after[f] # Empty \/ i < Len(text))
        /\ Read(text, f) = Empty => text[i].after[f] = Empty /\ i >= Len(text)
    BY <1>1, <1>2, <2>1, <2>2, <2>3
  <2>5. i >= Len(text) => \A j \in Found(text, f) : j = i /\ j = Len(text)
    <3>1. \A j \in Found(text, f) : i <= j /\ j \in 1..Len(text)
      BY <1>1, <1>4, FirstIsFound DEF i, Found
    <3>2. i \in 1..Len(text)
      BY <1>1, <2>1
    <3> QED BY <1>1, <3>1, <3>2
  <2> QED BY <2>1, <2>4, <2>5 DEF i
<1> QED BY <1>3, <1>4

\* What is read of a text that becomes a rule can be stored as one.
LEMMA ReadIsRule ==
    ASSUME NEW text \in Text, IsRule(text)
    PROVE  /\ KeyOf(text) \in Key
           /\ EntitiesOf(text) \in SUBSET EntityType
           /\ DateOf(text) \in LP!AnyDate
<1>1. \A f \in Field : Read(text, f) \in Value
  BY ReadSaysFound DEF IsRule
<1>2. /\ KeyIn \in [Value \X Value -> Key]
      /\ EntitiesIn \in [Value -> SUBSET EntityType]
      /\ DateIn \in [Value -> LP!AnyDate]
  BY SameValues, RuleIngestionAssumption
<1> QED BY <1>1, <1>2 DEF KeyOf, EntitiesOf, DateOf, Field

-----------------------------------------------------------------------------
(* What a step does to the rules, the texts and the fetches *)

\* A text or a command has become a rule, which p publishes.
NewRule(p, text) ==
    /\ text \in Text \cup {NoText}
    /\ \E key \in Key, entities \in SUBSET EntityType, date \in LP!AnyDate :
         /\ LP!CreateRule(p, key, entities, date)
         /\ text # NoText =>
              /\ IsRule(text) /\ key = KeyOf(text)
              /\ entities = EntitiesOf(text) /\ date = DateOf(text)
    /\ rawText' = Append(rawText, text)
    /\ reviews' = reviews

\* A text has been left to a person.
NewReview(p, text) ==
    /\ text \in Text /\ ~IsRule(text)
    /\ publishing[p] = LP!Idle /\ Len(reviews) < MaxReviews
    /\ reviews' = Append(reviews, text)
    /\ UNCHANGED <<libraryVars, rawText>>

\* p has written, and goes on as a fetch.
FetchBegins(p, text) ==
    /\ text \in Text /\ fetching[p] = NoFetch
    /\ \E source \in Registry : fetching' = [fetching EXCEPT ![p] =
           [source |-> source, text |-> text,
            rule |-> IF IsRule(text) THEN Len(rules) + 1 ELSE 0,
            review |-> IF IsRule(text) THEN 0 ELSE Len(reviews) + 1]]
    /\ fetchRuns' = fetchRuns /\ broken' = broken

\* p goes on with the refresh.
Refreshes(p) ==
    /\ LP!ListTenants(p) \/ LP!RefreshTenant(p) \/ LP!FinishRefresh(p)
    /\ UNCHANGED <<rawText, reviews, fetchRuns, fetching, broken>>

\* p stops: with it the refresh, unless there is none.
Breaks(p) ==
    /\ \/ LP!RefreshRaises(p) \/ LP!Crash(p)
       \/ publishing[p] = LP!Idle /\ UNCHANGED libraryVars
    /\ LeavesNoRun(p)

\* Every step of the system is one of these.
LEMMA Steps ==
    ASSUME Next
    PROVE  \/ \E p \in Publisher, text \in Text \cup {NoText} :
                /\ NewRule(p, text) \/ NewReview(p, text)
                /\ fetching[p] = NoFetch
                /\ \/ UNCHANGED <<fetchRuns, fetching, broken>>
                   \/ FetchBegins(p, text)
           \/ \E p \in Publisher : Refreshes(p) \/ RecordFetch(p) \/ Breaks(p)
           \/ LP!UserNext /\ UNCHANGED <<rawText, reviews, fetchRuns, fetching, broken>>
<1>1. ASSUME NEW p \in Publisher, NEW text \in Text,
             WriteRule(p, text) \/ QueueRuleReview(p, text)
      PROVE  NewRule(p, text) \/ NewReview(p, text)
  <2>1. CASE WriteRule(p, text)
    <3>1. /\ KeyOf(text) \in Key /\ EntitiesOf(text) \in SUBSET EntityType
          /\ DateOf(text) \in LP!AnyDate
      BY <2>1, ReadIsRule DEF WriteRule
    <3>2. LP!CreateRule(p, KeyOf(text), EntitiesOf(text), DateOf(text))
      BY <2>1, <3>1, SamePublish DEF WriteRule
    <3> QED BY <2>1, <3>1, <3>2 DEF WriteRule, NewRule
  <2>2. CASE QueueRuleReview(p, text)
    BY <2>2, SameValues DEF QueueRuleReview, NewReview
  <2> QED BY <1>1, <2>1, <2>2
<1>2. ASSUME NEW p \in Publisher, NEW text \in Text, IngestRuleText(p, text)
      PROVE  /\ NewRule(p, text) \/ NewReview(p, text)
             /\ fetching[p] = NoFetch
             /\ UNCHANGED <<fetchRuns, fetching, broken>>
  BY <1>1, <1>2 DEF IngestRuleText
<1>3. ASSUME NEW p \in Publisher, NEW text \in Text, NEW source \in Source,
             NEW state \in State \cup {NoSource},
             FetchFromSource(p, source, state, text)
      PROVE  /\ NewRule(p, text) \/ NewReview(p, text)
             /\ fetching[p] = NoFetch
             /\ FetchBegins(p, text)
  <2>1. SourceFor(source, state) \in Registry
    BY <1>3, RuleIngestionAssumption DEF FetchFromSource, SourceFor
  <2>2. FetchBegins(p, text)
    BY <1>3, <2>1 DEF FetchFromSource, FetchBegins
  <2> QED BY <1>1, <1>3, <2>2 DEF FetchFromSource
<1>4. ASSUME NEW p \in Publisher, NEW rule \in Command, AddRule(p, rule)
      PROVE  /\ NewRule(p, NoText)
             /\ fetching[p] = NoFetch
             /\ UNCHANGED <<fetchRuns, fetching, broken>>
  <2>1. rule.key \in Key /\ rule.entities \in SUBSET EntityType /\ rule.date \in LP!AnyDate
    BY SameValues, RuleIngestionAssumption
  <2>2. LP!CreateRule(p, rule.key, rule.entities, rule.date)
    BY <1>4, <2>1, SamePublish DEF AddRule
  <2> QED BY <1>4, <2>1, <2>2 DEF AddRule, NewRule
<1>5. ASSUME NEW p \in Publisher, Proceed(p) \/ Crash(p)
      PROVE  Refreshes(p) \/ RecordFetch(p) \/ Breaks(p)
  BY <1>5, SamePublish, SameValues DEF Proceed, Continue, Refreshes, RefreshRaises,
     Crash, Breaks
<1>6. CASE Meanwhile
  BY <1>6, SameUsers DEF Meanwhile
<1>7. CASE Ingest
  BY <1>2, <1>3, <1>4, <1>7 DEF Ingest
<1> QED BY <1>5, <1>6, <1>7 DEF Next

\* Each is a step of the library, or leaves it alone.
LEMMA LibraryMoves ==
    ASSUME [Next]_vars
    PROVE  [LP!Next]_LP!vars
<1>1. ASSUME NEW p \in Publisher, NEW text, NewRule(p, text) PROVE LP!Next
  BY <1>1 DEF NewRule, LP!Next
<1>2. ASSUME NEW p \in Publisher, NEW text, NewReview(p, text) PROVE UNCHANGED LP!vars
  BY <1>2 DEF NewReview, libraryVars, LP!vars
<1>3. ASSUME NEW p \in Publisher, Refreshes(p) \/ RecordFetch(p) \/ Breaks(p)
      PROVE  [LP!Next]_LP!vars
  BY <1>3 DEF Refreshes, RecordFetch, Breaks, libraryVars, LP!vars, LP!Next, LP!Publish
<1>4. CASE LP!UserNext
  BY <1>4 DEF LP!Next
<1>5. CASE UNCHANGED vars
  BY <1>5 DEF vars, libraryVars, LP!vars
<1> QED BY <1>1, <1>2, <1>3, <1>4, <1>5, Steps

\* What RuleLibraryProofs shows of every state of the library.
LibraryHolds == LP!LibraryInv /\ LP!RowsExplained /\ LP!RefreshOnce

\* The library of the composition is that of RuleLibrary.
LEMMA LibraryHoldsStep ==
    ASSUME LibraryHolds, [Next]_vars
    PROVE  LibraryHolds'
BY LibraryMoves, LibraryConstants, LP!LibraryInvStep, LP!RowsExplainedStep,
   LP!RefreshOnceStep DEF LibraryHolds

\* It begins like that one.
LEMMA LibraryHoldsInit == Init => LibraryHolds
<1> SUFFICES ASSUME Init PROVE LibraryHolds
  OBVIOUS
<1>1. LP!Init
  BY SameValues, Zenon DEF Init, L!Init, LP!Init
<1>2. LP!LibraryInv /\ LP!RefreshOnce
  BY <1>1, LibraryConstants, LP!LibraryInvInit, LP!CurrentInvInit
<1>3. LP!RowsExplained
  BY <1>1 DEF LP!Init, LP!RowsExplained, LP!DueDateComesFromItsRule,
     LP!BadDatesOnlyInClosedRows
<1> QED BY <1>2, <1>3 DEF LibraryHolds

-----------------------------------------------------------------------------
(* Rules and their texts *)

OwnTypes ==
    /\ rawText \in Seq(Text \cup {NoText}) /\ Len(rawText) = Len(rules)
    /\ reviews \in Seq(Text) /\ Len(reviews) <= MaxReviews

\* A rule that came from a text says what the parser read there; the texts
\* the parser does not read are the ones in the queue.
TextsAreRead ==
    /\ \A i \in DOMAIN rules : rawText[i] # NoText =>
         /\ IsRule(rawText[i])
         /\ rules[i].key = KeyOf(rawText[i])
         /\ rules[i].entities = EntitiesOf(rawText[i])
         /\ rules[i].date = DateOf(rawText[i])
    /\ \A i \in DOMAIN reviews : ~IsRule(reviews[i])

TextInv == OwnTypes /\ TextsAreRead

\* The tables as functions of their indices.
LEMMA Indices ==
    ASSUME LibraryHolds, OwnTypes
    PROVE  /\ DOMAIN rules = 1..Len(rules) /\ Len(rules) \in Nat
           /\ DOMAIN rawText = DOMAIN rules
           /\ DOMAIN reviews = 1..Len(reviews) /\ Len(reviews) \in Nat
           /\ Len(rules) <= MaxRules /\ MaxRules \in Nat
<1>1. rules \in Seq(LP!Rule) /\ Len(rules) <= MaxRules
  BY DEF LibraryHolds, LP!LibraryInv, LP!TypeOK
<1> QED BY <1>1, LenProperties, LibraryConstants DEF OwnTypes, LP!RuleLibraryAssumption

\* The new rule is the last one, with its text beside it.
LEMMA NewRuleIsLast ==
    ASSUME LibraryHolds, OwnTypes, NEW p \in Publisher, NEW text, NewRule(p, text)
    PROVE  /\ OwnTypes'
           /\ DOMAIN rules' = 1..(Len(rules) + 1)
           /\ DOMAIN rawText' = 1..(Len(rules) + 1)
           /\ Len(rules) + 1 \in LP!RuleId
           /\ rawText'[Len(rules) + 1] = text
           /\ \A i \in DOMAIN rules : rawText'[i] = rawText[i]
           /\ text # NoText =>
                /\ IsRule(text)
                /\ rules'[Len(rules) + 1].key = KeyOf(text)
                /\ rules'[Len(rules) + 1].entities = EntitiesOf(text)
                /\ rules'[Len(rules) + 1].date = DateOf(text)
           /\ LP!Begins(p)
           /\ UNCHANGED <<states, deadlines, refresh>>
<1>1. PICK key \in Key, entities \in SUBSET EntityType, date \in LP!AnyDate :
         /\ LP!CreateRule(p, key, entities, date)
         /\ text # NoText =>
              /\ IsRule(text) /\ key = KeyOf(text)
              /\ entities = EntitiesOf(text) /\ date = DateOf(text)
  BY DEF NewRule
<1>2. PICK prev \in DOMAIN rules \cup {0} : LP!RulesGrow(key, entities, date, prev)
  BY <1>1, LibraryConstants, LP!CreateRuleGrows DEF LibraryHolds
<1>3. /\ rules' \in Seq(LP!Rule) /\ Len(rules') = Len(rules) + 1
      /\ Len(rules) + 1 <= MaxRules
      /\ rules'[Len(rules) + 1].key = key
      /\ rules'[Len(rules) + 1].entities = entities
      /\ rules'[Len(rules) + 1].date = date
  BY <1>2 DEF LP!RulesGrow
<1>4. DOMAIN rules' = 1..(Len(rules) + 1)
  BY <1>3, LenProperties
<1>5. /\ rawText' \in Seq(Text \cup {NoText})
      /\ Len(rawText') = Len(rules) + 1
      /\ rawText'[Len(rules) + 1] = text
      /\ \A i \in 1..Len(rules) : rawText'[i] = rawText[i]
      /\ DOMAIN rawText' = 1..(Len(rules) + 1)
  BY AppendProperties, LenProperties DEF NewRule, OwnTypes
<1>6. OwnTypes'
  BY <1>3, <1>5 DEF OwnTypes, NewRule
<1>7. Len(rules) + 1 \in LP!RuleId /\ DOMAIN rules = 1..Len(rules)
  BY <1>3, Indices DEF LP!RuleId
<1>8. LP!Begins(p)
  <2>1. Len(rules) + 1 \in DOMAIN rules' /\ Len(rules) + 1 \notin DOMAIN rules
    BY <1>4, <1>7, Indices
  <2> QED BY <1>1, <2>1 DEF LP!CreateRule, LP!Begins
<1> QED BY <1>1, <1>3, <1>4, <1>5, <1>6, <1>7, <1>8 DEF LP!CreateRule

\* The new item is the last one of the queue.
LEMMA NewReviewIsLast ==
    ASSUME LibraryHolds, OwnTypes, NEW p \in Publisher, NEW text, NewReview(p, text)
    PROVE  /\ OwnTypes'
           /\ DOMAIN reviews' = 1..(Len(reviews) + 1)
           /\ Len(reviews) + 1 <= MaxReviews
           /\ reviews'[Len(reviews) + 1] = text
           /\ \A i \in DOMAIN reviews : reviews'[i] = reviews[i]
<1>1. /\ reviews' \in Seq(Text) /\ Len(reviews') = Len(reviews) + 1
      /\ reviews'[Len(reviews) + 1] = text
      /\ \A i \in 1..Len(reviews) : reviews'[i] = reviews[i]
      /\ Len(reviews) < MaxReviews /\ MaxReviews \in Nat
      /\ UNCHANGED <<rules, rawText>>
  BY AppendProperties, RuleIngestionAssumption
     DEF NewReview, OwnTypes, libraryVars
<1>2. DOMAIN reviews' = 1..(Len(reviews) + 1) /\ Len(reviews) + 1 <= MaxReviews
  BY <1>1, Indices, LenProperties
<1> QED BY <1>1, <1>2, Indices DEF OwnTypes

\* All other steps leave the texts, and what rules say, as they are.
LEMMA OtherStepsKeepTexts ==
    ASSUME Next, \A p \in Publisher : \A text :
                    ~NewRule(p, text) /\ ~NewReview(p, text)
    PROVE  UNCHANGED <<rules, rawText, reviews>>
<1>1. ASSUME NEW p \in Publisher, Refreshes(p) \/ RecordFetch(p) \/ Breaks(p)
      PROVE  UNCHANGED <<rules, rawText, reviews>>
  BY <1>1 DEF Refreshes, RecordFetch, Breaks, LeavesNoRun, libraryVars, LP!ListTenants,
     LP!RefreshTenant, LP!FinishRefresh, LP!RefreshRaises, LP!Crash
<1>2. ASSUME LP!UserNext PROVE UNCHANGED rules
  BY <1>2 DEF LP!UserNext, LP!CreateTenant, LP!RegisterClient, LP!UpdateClientStates,
     LP!Close, LP!Reopen, LP!Override, LP!SetRow
<1> QED BY <1>1, <1>2, Steps

\* A rule keeps its text, and says what its text says.
LEMMA TextsStep ==
    ASSUME LibraryHolds, OwnTypes, TextsAreRead, [Next]_vars
    PROVE  OwnTypes' /\ TextsAreRead'
<1>1. CASE UNCHANGED <<rules, rawText, reviews>>
  BY <1>1 DEF OwnTypes, TextsAreRead
<1>2. /\ DOMAIN rules \subseteq DOMAIN rules'
      /\ \A i \in DOMAIN rules : /\ rules'[i].key = rules[i].key
                                 /\ rules'[i].entities = rules[i].entities
                                 /\ rules'[i].date = rules[i].date
  BY LibraryMoves, LibraryConstants, LP!RulesStay DEF LibraryHolds
<1>3. ASSUME NEW p \in Publisher, NEW text, NewRule(p, text)
      PROVE  OwnTypes' /\ TextsAreRead'
  <2>1. /\ \A i \in DOMAIN rules' : i \in DOMAIN rules \/ i = Len(rules) + 1
        /\ OwnTypes' /\ reviews' = reviews
    BY <1>3, NewRuleIsLast, Indices DEF NewRule
  <2>2. ASSUME NEW i \in DOMAIN rules', rawText'[i] # NoText
        PROVE  /\ IsRule(rawText'[i])
               /\ rules'[i].key = KeyOf(rawText'[i])
               /\ rules'[i].entities = EntitiesOf(rawText'[i])
               /\ rules'[i].date = DateOf(rawText'[i])
    <3>1. CASE i \in DOMAIN rules
      BY <1>2, <1>3, <2>2, <3>1, NewRuleIsLast DEF TextsAreRead
    <3>2. CASE i = Len(rules) + 1
      BY <1>3, <2>2, <3>2, NewRuleIsLast
    <3> QED BY <2>1, <3>1, <3>2
  <2> QED BY <2>1, <2>2 DEF TextsAreRead
<1>4. ASSUME NEW p \in Publisher, NEW text, NewReview(p, text)
      PROVE  OwnTypes' /\ TextsAreRead'
  <2>1. /\ OwnTypes' /\ UNCHANGED <<rules, rawText>> /\ ~IsRule(text)
        /\ \A i \in DOMAIN reviews' : i \in DOMAIN reviews \/ reviews'[i] = text
        /\ \A i \in DOMAIN reviews : reviews'[i] = reviews[i]
    BY <1>4, NewReviewIsLast, Indices DEF NewReview, libraryVars
  <2> QED BY <2>1 DEF TextsAreRead
<1> QED BY <1>1, <1>3, <1>4, OtherStepsKeepTexts DEF vars, libraryVars

\* No rule and no review exists at first.
LEMMA TextInvInit == Init => TextInv
<1> SUFFICES ASSUME Init PROVE TextInv
  OBVIOUS
<1>1. rules = <<>> /\ rawText = <<>> /\ reviews = <<>>
  BY DEF Init, L!Init
<1>2. OwnTypes
  BY <1>1, RuleIngestionAssumption DEF OwnTypes
<1>3. TextsAreRead
  BY <1>1 DEF TextsAreRead
<1> QED BY <1>2, <1>3 DEF TextInv

\* Library and texts are as described in every state.
LEMMA TextsAlways == Spec => [](LibraryHolds /\ TextInv)
<1>1. LibraryHolds /\ TextInv /\ [Next]_vars => TextInv'
  BY TextsStep DEF TextInv
<1> QED BY <1>1, LibraryHoldsInit, LibraryHoldsStep, TextInvInit, PTL DEF Spec

\* The parser never makes a rule of a text in which a label is missing, or
\* stands at the end with nothing behind it, and never queues one whose labels
\* all have their values.
THEOREM IncompleteTextsStayOut == Spec => []IncompleteTextsAreReviewed
<1>1. ASSUME LibraryHolds, TextInv PROVE IncompleteTextsAreReviewed
  <2>1. ASSUME NEW i \in DOMAIN rawText, rawText[i] # NoText, NEW f \in Field
        PROVE  \E j \in Found(rawText[i], f) :
                  rawText[i][j].after[f] # Empty \/ j < Len(rawText[i])
    <3>1. rawText[i] \in Text /\ i \in DOMAIN rules
      BY <1>1, <2>1, Indices DEF TextInv, OwnTypes
    <3>2. IsRule(rawText[i])
      BY <1>1, <2>1, <3>1 DEF TextInv, TextsAreRead
    <3> QED BY <3>1, <3>2, ReadSaysFound DEF IsRule
  <2>2. ASSUME NEW i \in DOMAIN reviews
        PROVE  \E f \in Field : \A j \in Found(reviews[i], f) :
                  reviews[i][j].after[f] = Empty /\ j = Len(reviews[i])
    <3>1. reviews[i] \in Text /\ ~IsRule(reviews[i])
      BY <1>1, <2>2 DEF TextInv, OwnTypes, TextsAreRead
    <3>2. PICK f \in Field : Read(reviews[i], f) = Empty
      BY <3>1 DEF IsRule
    <3> QED BY <3>1, <3>2, ReadSaysFound
  <2> QED BY <2>1, <2>2 DEF IncompleteTextsAreReviewed
<1> QED BY <1>1, TextsAlways, PTL

\* Fetching a text again, after a broken fetch or just so, leaves every
\* deadline that an earlier version of that text has dated as it is.
THEOREM RefetchingIsHarmless == Spec => FetchedAgainMovesNothing
<1> DEFINE Kept(c, k) ==
      LET old == deadlines[c][k]
          new == deadlines'[c][k]
      IN (old # NoDeadline /\ new.rule # old.rule /\ rawText'[new.rule] # NoText)
           => rawText'[new.rule] # rawText[old.rule]
<1>1. ASSUME LibraryHolds, TextInv, [Next]_vars, NEW c \in Client, NEW k \in Key
      PROVE  Kept(c, k)
  <2> SUFFICES ASSUME deadlines[c][k] # NoDeadline,
                      deadlines'[c][k].rule # deadlines[c][k].rule,
                      rawText'[deadlines'[c][k].rule] # NoText,
                      rawText'[deadlines'[c][k].rule] = rawText[deadlines[c][k].rule]
               PROVE  FALSE
    OBVIOUS
  <2> DEFINE old == deadlines[c][k]
  <2>1. /\ old \in LP!DeadlineRow /\ old.rule \in DOMAIN rules
        /\ old.override \/ old.due = rules[old.rule].date
    BY <1>1 DEF LibraryHolds, LP!LibraryInv, LP!TypeOK, LP!References,
       LP!RowsExplained, LP!DueDateComesFromItsRule
  <2>2. CASE UNCHANGED LP!vars
    BY <2>2 DEF LP!vars
  <2>3. CASE LP!Next
    <3>1. LP!RowStep(c, k)
      BY <1>1, <2>3, LibraryConstants, LP!RowSteps DEF LibraryHolds
    <3>2. CASE LP!SetByUser(deadlines[c][k], deadlines'[c][k])
      BY <2>1, <3>2 DEF LP!SetByUser, LP!DeadlineRow
    <3>3. ASSUME NEW i \in DOMAIN rules, LP!Upserted(c, k, i) PROVE FALSE
      <4>1. /\ deadlines'[c][k].rule = i
            /\ ~old.override /\ old.due # rules[i].date
        BY <2>1, <3>3 DEF LP!Upserted, LP!Upsert, LP!DeadlineRow
      <4>2. /\ rawText'[i] # NoText /\ rawText'[i] = rawText[old.rule]
            /\ rules[old.rule].date = DateOf(rawText[old.rule])
            /\ i \in DOMAIN rules' /\ rules'[i].date = rules[i].date
            /\ TextsAreRead'
        BY <1>1, <2>1, <4>1, LibraryMoves, LibraryConstants, LP!RulesStay, TextsStep
           DEF LibraryHolds, TextInv, TextsAreRead
      <4>3. rules[i].date = DateOf(rawText[old.rule])
        BY <4>2 DEF TextsAreRead
      <4> QED BY <2>1, <4>1, <4>2, <4>3
    <3> QED BY <3>1, <3>2, <3>3 DEF LP!RowStep
  <2> QED BY <1>1, <2>2, <2>3, LibraryMoves
<1>2. LibraryHolds /\ TextInv /\ [Next]_vars => [\A c \in Client, k \in Key : Kept(c, k)]_vars
  BY <1>1
<1> QED BY <1>2, TextsAlways, PTL DEF Spec, FetchedAgainMovesNothing

-----------------------------------------------------------------------------
(* Fetches *)

FetchTypes ==
    /\ fetchRuns \subseteq FetchRun
    /\ fetching \in [Publisher -> Fetch \cup {NoFetch}]
    /\ broken \subseteq Fetch

\* A fetch refers to the rule or to the review it has written.
Points(x) ==
    \/ x.review = 0 /\ x.rule \in DOMAIN rawText /\ rawText[x.rule] # NoText
    \/ x.rule = 0 /\ x.review \in DOMAIN reviews

AllPoint ==
    /\ \A x \in fetchRuns \cup broken : Points(x)
    /\ \A p \in Publisher : fetching[p] # NoFetch => Points(fetching[p])

StatusFits ==
    \A run \in fetchRuns :
       run.status = IF run.review = 0 THEN "rule_written" ELSE "review_queued"

\* Two fetches never refer to the same, the ones under way included.
Distinct ==
    /\ \A a, b \in fetchRuns : Written(a) = Written(b) => a = b
    /\ \A run \in fetchRuns, f \in broken : Written(run) # Written(f)
    /\ \A p \in Publisher : fetching[p] # NoFetch =>
         \A x \in fetchRuns \cup broken : Written(x) # Written(fetching[p])
    /\ \A p, q \in Publisher :
         (/\ fetching[p] # NoFetch /\ fetching[q] # NoFetch
          /\ Written(fetching[p]) = Written(fetching[q])) => p = q

FetchInv == FetchTypes /\ AllPoint /\ StatusFits /\ Distinct

\* No fetch is without a source.
LEMMA FetchIsNotNone == NoFetch \notin Fetch
BY RuleIngestionAssumption DEF NoFetch, Fetch

\* What a fetch refers to stays where it is.
LEMMA PointsStays ==
    ASSUME LibraryHolds, TextInv, [Next]_vars, NEW x, Points(x)
    PROVE  Points(x)'
<1>1. CASE UNCHANGED <<rules, rawText, reviews>>
  BY <1>1 DEF Points
<1>2. ASSUME NEW p \in Publisher, NEW text, NewRule(p, text) PROVE Points(x)'
  BY <1>2, NewRuleIsLast, Indices DEF Points, NewRule, TextInv
<1>3. ASSUME NEW p \in Publisher, NEW text, NewReview(p, text) PROVE Points(x)'
  BY <1>3, NewReviewIsLast, Indices DEF Points, NewReview, TextInv
<1> QED BY <1>1, <1>2, <1>3, OtherStepsKeepTexts DEF vars, libraryVars

\* A fetch that begins refers to what nobody has referred to.
LEMMA FetchBeginsNew ==
    ASSUME LibraryHolds, TextInv, FetchTypes, NEW p \in Publisher, NEW text,
           NewRule(p, text) \/ NewReview(p, text), FetchBegins(p, text)
    PROVE  \E new \in Fetch :
             /\ fetching' = [fetching EXCEPT ![p] = new]
             /\ Points(new)'
             /\ \A x : Points(x) => Written(x) # Written(new)
<1>1. PICK source \in Registry : fetching' = [fetching EXCEPT ![p] =
         [source |-> source, text |-> text,
          rule |-> IF IsRule(text) THEN Len(rules) + 1 ELSE 0,
          review |-> IF IsRule(text) THEN 0 ELSE Len(reviews) + 1]]
  BY DEF FetchBegins
<1>2. text \in Text /\ text # NoText
  BY RuleIngestionAssumption DEF FetchBegins
<1>3. PICK new : new = [source |-> source, text |-> text,
                         rule |-> IF IsRule(text) THEN Len(rules) + 1 ELSE 0,
                         review |-> IF IsRule(text) THEN 0 ELSE Len(reviews) + 1]
  OBVIOUS
<1>4. CASE NewRule(p, text)
  <2>1. /\ IsRule(text) /\ Len(rules) + 1 \in L!RuleId
        /\ DOMAIN rawText' = 1..(Len(rules) + 1)
        /\ rawText'[Len(rules) + 1] = text
        /\ DOMAIN rawText = 1..Len(rules) /\ Len(rules) \in Nat
        /\ DOMAIN reviews = 1..Len(reviews)
    BY <1>2, <1>4, NewRuleIsLast, Indices, SameValues DEF TextInv
  <2>2. new.rule = Len(rules) + 1 /\ new.review = 0
    BY <1>3, <2>1
  <2>3. new \in Fetch
    BY <1>2, <1>3, <2>1, RuleIngestionAssumption DEF Fetch
  <2>4. Points(new)'
    BY <1>2, <2>1, <2>2 DEF Points
  <2>5. \A x : Points(x) => Written(x) # Written(new)
    BY <2>1, <2>2 DEF Points, Written
  <2> QED BY <1>1, <1>3, <2>3, <2>4, <2>5
<1>5. CASE NewReview(p, text)
  <2>1. /\ ~IsRule(text) /\ Len(reviews) + 1 \in 0..MaxReviews
        /\ DOMAIN reviews' = 1..(Len(reviews) + 1)
        /\ DOMAIN reviews = 1..Len(reviews) /\ Len(reviews) \in Nat
    BY <1>5, NewReviewIsLast, Indices, RuleIngestionAssumption DEF TextInv, NewReview
  <2>2. new.rule = 0 /\ new.review = Len(reviews) + 1
    BY <1>3, <2>1
  <2>3. new \in Fetch
    BY <1>2, <1>3, <2>1 DEF Fetch
  <2>4. Points(new)'
    BY <2>1, <2>2 DEF Points
  <2>5. \A x : Points(x) => Written(x) # Written(new)
    BY <2>1, <2>2 DEF Points, Written
  <2> QED BY <1>1, <1>3, <2>3, <2>4, <2>5
<1> QED BY <1>4, <1>5

\* What a step does to the fetches: nothing, or one begins, is recorded or
\* breaks.
FetchStarts(p, new) ==
    /\ fetching[p] = NoFetch
    /\ fetching' = [fetching EXCEPT ![p] = new]
    /\ Points(new)'
    /\ \A x : Points(x) => Written(x) # Written(new)
    /\ fetchRuns' = fetchRuns /\ broken' = broken

\* Every step of the system is one of these for the fetches.
LEMMA FetchSteps ==
    ASSUME LibraryHolds, TextInv, FetchTypes, [Next]_vars
    PROVE  \/ UNCHANGED <<fetchRuns, fetching, broken>>
           \/ \E p \in Publisher :
                (\E new \in Fetch : FetchStarts(p, new)) \/ RecordFetch(p) \/ LeavesNoRun(p)
<1>1. ASSUME NEW p \in Publisher, NEW text, NewRule(p, text) \/ NewReview(p, text),
             FetchBegins(p, text)
      PROVE  \E new \in Fetch : FetchStarts(p, new)
  <2>1. PICK new \in Fetch : /\ fetching' = [fetching EXCEPT ![p] = new]
                             /\ Points(new)'
                             /\ \A x : Points(x) => Written(x) # Written(new)
    BY <1>1, FetchBeginsNew
  <2>2. FetchStarts(p, new)
    BY <1>1, <2>1 DEF FetchStarts, FetchBegins
  <2> QED BY <2>2
<1>2. CASE UNCHANGED vars
  BY <1>2 DEF vars
<1> QED BY <1>1, <1>2, Steps DEF Refreshes, Breaks

\* The record of a fetch says what the fetch says.
LEMMA RecordedAs ==
    ASSUME FetchTypes, NEW p \in Publisher, RecordFetch(p)
    PROVE  \E run \in FetchRun, f \in Fetch :
             /\ f = fetching[p] /\ fetching[p] # NoFetch
             /\ fetchRuns' = fetchRuns \cup {run}
             /\ run.rule = f.rule /\ run.review = f.review
             /\ run.status = IF f.review = 0 THEN "rule_written" ELSE "review_queued"
             /\ fetching' = [fetching EXCEPT ![p] = NoFetch]
             /\ UNCHANGED <<libraryVars, rawText, reviews, broken>>
<1>1. PICK f \in Fetch : f = fetching[p] /\ f # NoFetch
  BY DEF FetchTypes, RecordFetch
<1> DEFINE run == [source |-> f.source, rule |-> f.rule, review |-> f.review,
                   status |-> IF f.review = 0 THEN "rule_written" ELSE "review_queued"]
<1>2. run \in FetchRun
  BY <1>1 DEF Fetch, FetchRun
<1>3. /\ fetchRuns' = fetchRuns \cup {run}
      /\ fetching' = [fetching EXCEPT ![p] = NoFetch]
      /\ UNCHANGED <<libraryVars, rawText, reviews, broken>>
  BY <1>1 DEF RecordFetch
<1>4. /\ run.rule = f.rule /\ run.review = f.review
      /\ run.status = IF f.review = 0 THEN "rule_written" ELSE "review_queued"
  OBVIOUS
<1> HIDE DEF run
<1> QED BY <1>1, <1>2, <1>3, <1>4

\* A fetch that breaks leaves what it has written, and no record.
LEMMA BrokenAs ==
    ASSUME FetchTypes, NEW p \in Publisher, LeavesNoRun(p)
    PROVE  /\ \/ fetching[p] = NoFetch /\ broken' = broken
              \/ \E f \in Fetch : /\ f = fetching[p] /\ fetching[p] # NoFetch
                                  /\ broken' = broken \cup {f}
           /\ fetching' = [fetching EXCEPT ![p] = NoFetch]
           /\ UNCHANGED <<rawText, reviews, fetchRuns>>
BY DEF LeavesNoRun, FetchTypes

\* No two fetches come to refer to the same rule or review.
LEMMA FetchInvStep ==
    ASSUME LibraryHolds, TextInv, FetchInv, [Next]_vars
    PROVE  FetchInv'
<1>0. FetchTypes /\ AllPoint /\ StatusFits /\ Distinct
  BY DEF FetchInv
<1>1. \A x : Points(x) => Points(x)'
  BY PointsStays
<1>2. CASE UNCHANGED <<fetchRuns, fetching, broken>>
  <2>1. FetchTypes' /\ StatusFits' /\ Distinct'
    BY <1>0, <1>2 DEF FetchTypes, StatusFits, Distinct, Written
  <2>2. AllPoint'
    <3>1. \A x \in fetchRuns \cup broken : Points(x)'
      BY <1>0, <1>1 DEF AllPoint
    <3>2. ASSUME NEW p \in Publisher, NEW f, f = fetching[p], f # NoFetch PROVE Points(f)'
      BY <1>0, <1>1, <3>2 DEF AllPoint
    <3> QED BY <1>2, <3>1, <3>2 DEF AllPoint, Points
  <2> QED BY <2>1, <2>2 DEF FetchInv
<1>3. ASSUME NEW p \in Publisher, NEW new \in Fetch, FetchStarts(p, new) PROVE FetchInv'
  <2>1. /\ fetching'[p] = new /\ \A q \in Publisher : q # p => fetching'[q] = fetching[q]
        /\ fetching' \in [Publisher -> Fetch \cup {NoFetch}]
        /\ fetchRuns' = fetchRuns /\ broken' = broken
        /\ new # NoFetch /\ Points(new)'
        /\ \A x : Points(x) => Written(x) # Written(new)
    BY <1>0, <1>3, FetchIsNotNone DEF FetchStarts, FetchTypes
  <2>2. FetchTypes' /\ StatusFits'
    BY <1>0, <2>1 DEF FetchTypes, StatusFits
  <2>3. AllPoint'
    <3>1. \A x \in fetchRuns \cup broken : Points(x)'
      BY <1>0, <1>1 DEF AllPoint
    <3>2. ASSUME NEW q \in Publisher, NEW f, f = fetching'[q], f # NoFetch PROVE Points(f)'
      BY <1>0, <1>1, <2>1, <3>2 DEF AllPoint
    <3> QED BY <2>1, <3>1, <3>2 DEF AllPoint, Points
  <2>4. Distinct'
    <3>1. \A x \in fetchRuns \cup broken : Written(x) # Written(new)
      BY <1>0, <2>1 DEF AllPoint
    <3>2. \A q \in Publisher : (q # p /\ fetching[q] # NoFetch)
             => Written(fetching[q]) # Written(new)
      BY <1>0, <2>1 DEF AllPoint
    <3> QED BY <1>0, <2>1, <3>1, <3>2 DEF Distinct, Written
  <2> QED BY <2>2, <2>3, <2>4 DEF FetchInv
<1>4. ASSUME NEW p \in Publisher, RecordFetch(p) PROVE FetchInv'
  <2>1. PICK run \in FetchRun, f \in Fetch :
          /\ f = fetching[p] /\ fetching[p] # NoFetch
          /\ fetchRuns' = fetchRuns \cup {run}
          /\ run.rule = f.rule /\ run.review = f.review
          /\ run.status = IF f.review = 0 THEN "rule_written" ELSE "review_queued"
          /\ fetching' = [fetching EXCEPT ![p] = NoFetch]
          /\ UNCHANGED <<libraryVars, rawText, reviews, broken>>
    BY <1>0, <1>4, RecordedAs
  <2>2. /\ fetching'[p] = NoFetch
        /\ \A q \in Publisher : q # p => fetching'[q] = fetching[q]
        /\ fetching' \in [Publisher -> Fetch \cup {NoFetch}]
        /\ broken' = broken /\ rawText' = rawText /\ reviews' = reviews
    BY <1>0, <2>1 DEF FetchTypes
  <2>3. FetchTypes' /\ StatusFits'
    BY <1>0, <2>1, <2>2 DEF FetchTypes, StatusFits
  <2>4. AllPoint'
    <3>1. \A x \in fetchRuns \cup broken \cup {run} : Points(x)
      BY <1>0, <2>1 DEF AllPoint, Points
    <3>2. \A q \in Publisher : fetching'[q] # NoFetch => Points(fetching'[q])
      BY <1>0, <2>2 DEF AllPoint
    <3> QED BY <2>1, <2>2, <3>1, <3>2 DEF AllPoint, Points
  <2>5. Distinct'
    <3>1. Written(run) = Written(fetching[p])
      BY <2>1 DEF Written
    <3>2. \A x \in fetchRuns \cup broken : Written(x) # Written(run)
      BY <1>0, <2>1, <3>1 DEF Distinct
    <3>3. \A q \in Publisher : (q # p /\ fetching[q] # NoFetch)
             => Written(fetching[q]) # Written(run)
      BY <1>0, <2>1, <3>1 DEF Distinct
    <3> QED BY <1>0, <2>1, <2>2, <3>2, <3>3 DEF Distinct, Written
  <2> QED BY <2>3, <2>4, <2>5 DEF FetchInv
<1>5. ASSUME NEW p \in Publisher, LeavesNoRun(p) PROVE FetchInv'
  <2>1. /\ \/ fetching[p] = NoFetch /\ broken' = broken
           \/ \E f \in Fetch : /\ f = fetching[p] /\ fetching[p] # NoFetch
                               /\ broken' = broken \cup {f}
        /\ fetchRuns' = fetchRuns /\ rawText' = rawText /\ reviews' = reviews
        /\ fetching'[p] = NoFetch
        /\ \A q \in Publisher : q # p => fetching'[q] = fetching[q]
        /\ fetching' \in [Publisher -> Fetch \cup {NoFetch}]
    BY <1>0, <1>5, BrokenAs DEF FetchTypes
  <2>2. \A f \in broken' : f \in broken \/ (f = fetching[p] /\ fetching[p] # NoFetch)
    BY <2>1
  <2>3. FetchTypes' /\ StatusFits'
    BY <1>0, <2>1 DEF FetchTypes, StatusFits
  <2>4. AllPoint'
    BY <1>0, <2>1, <2>2 DEF AllPoint, Points
  <2>5. Distinct'
    BY <1>0, <2>1, <2>2 DEF Distinct, Written
  <2> QED BY <2>3, <2>4, <2>5 DEF FetchInv
<1> QED BY <1>0, <1>2, <1>3, <1>4, <1>5, FetchSteps

\* No fetch is under way at first.
LEMMA FetchInvInit == Init => FetchInv
<1> SUFFICES ASSUME Init PROVE FetchInv
  OBVIOUS
<1>1. /\ fetchRuns = {} /\ broken = {}
      /\ fetching = [p \in Publisher |-> NoFetch]
  BY DEF Init
<1>2. FetchTypes
  BY <1>1 DEF FetchTypes
<1>3. AllPoint /\ StatusFits /\ Distinct
  BY <1>1 DEF AllPoint, StatusFits, Distinct
<1> QED BY <1>2, <1>3 DEF FetchInv

\* Library, texts and fetches are as described in every state.
LEMMA FetchesAlways == Spec => [](LibraryHolds /\ TextInv /\ FetchInv)
<1>1. LibraryHolds /\ TextInv /\ FetchInv /\ [Next]_vars => FetchInv'
  BY FetchInvStep
<1> QED BY <1>1, FetchInvInit, TextsAlways, PTL DEF Spec

\* The tables, and what the processes remember, are of their declared types.
THEOREM IngestionTypeCorrect == Spec => []TypeOK
<1>1. ASSUME LibraryHolds, TextInv, FetchInv PROVE TypeOK
  <2>1. L!TypeOK
    BY <1>1, SameValues DEF LibraryHolds, LP!LibraryInv
  <2> QED BY <1>1, <2>1 DEF TypeOK, TextInv, OwnTypes, FetchInv, FetchTypes
<1> QED BY <1>1, FetchesAlways, PTL

\* A rule or a review item is claimed by one fetch at most, recorded, broken
\* or under way, and the record names it as its status says.
THEOREM FetchesDoNotShare == Spec => []NoTwoFetchesShare
<1>1. ASSUME LibraryHolds, TextInv, FetchInv PROVE NoTwoFetchesShare
  <2>1. ASSUME NEW run \in fetchRuns
        PROVE  /\ run.status = "rule_written" <=> run.rule \in DOMAIN rules
               /\ run.status = "review_queued" <=> run.review \in DOMAIN reviews
               /\ run.rule \in DOMAIN rules => rawText[run.rule] # NoText
    <3>1. /\ Points(run)
          /\ run.status = IF run.review = 0 THEN "rule_written" ELSE "review_queued"
          /\ DOMAIN rawText = DOMAIN rules /\ 0 \notin DOMAIN rules /\ 0 \notin DOMAIN reviews
      BY <1>1, <2>1, Indices DEF FetchInv, AllPoint, StatusFits, TextInv
    <3> QED BY <3>1 DEF Points
  <2> QED BY <1>1, <2>1 DEF NoTwoFetchesShare, FetchInv, Distinct
<1> QED BY <1>1, FetchesAlways, PTL

-----------------------------------------------------------------------------
(* Fetches and refreshes *)

\* A fetch goes on while the process publishes the rule it wrote; when the
\* process is through with that, the refresh has come to its end.
FetchFollowsRefresh ==
    \A p \in Publisher : fetching[p] # NoFetch =>
       IF publishing[p] # LP!Idle
       THEN publishing[p].rule = fetching[p].rule
       ELSE fetching[p].rule # 0 => refresh[fetching[p].rule] = "done"

RefreshInv == FetchFollowsRefresh /\ RecordedMeansRefreshed

\* The rules that fetches and runs name are rule ids.
LEMMA FetchedRules ==
    ASSUME FetchTypes
    PROVE  /\ \A run \in fetchRuns : run.rule # 0 => run.rule \in LP!RuleId
           /\ \A p \in Publisher : (fetching[p] # NoFetch /\ fetching[p].rule # 0)
                => fetching[p].rule \in LP!RuleId
BY SameValues DEF FetchTypes, FetchRun, Fetch

\* A process that goes on with a refresh remains at its rule, or ends it well.
LEMMA RefreshesOrDone ==
    ASSUME LibraryHolds, NEW p \in Publisher, Refreshes(p)
    PROVE  /\ publishing[p] # LP!Idle
           /\ \/ publishing'[p] # LP!Idle /\ publishing'[p].rule = publishing[p].rule
              \/ /\ publishing'[p] = LP!Idle
                 /\ refresh'[publishing[p].rule] = "done"
           /\ \A q \in Publisher : q # p => publishing'[q] = publishing[q]
<1>1. /\ publishing \in [Publisher -> {LP!Idle}
            \cup [at: {"committed"}, rule: LP!RuleId]
            \cup [at: {"refreshing"}, rule: LP!RuleId, left: Seq(Tenant)]]
      /\ refresh \in [LP!RuleId -> {"none", "done", "broken"}]
  BY DEF LibraryHolds, LP!LibraryInv, LP!TypeOK
<1>2. CASE LP!ListTenants(p)
  BY <1>1, <1>2 DEF LP!ListTenants, LP!Idle
<1>3. CASE LP!RefreshTenant(p)
  <2>1. /\ publishing[p].at = "refreshing"
        /\ publishing' = [publishing EXCEPT ![p] = [publishing[p] EXCEPT !.left = Tail(@)]]
    BY <1>3 DEF LP!RefreshTenant
  <2>2. publishing[p] \in [at: {"refreshing"}, rule: LP!RuleId, left: Seq(Tenant)]
    BY <1>1, <2>1 DEF LP!Idle
  <2>3. /\ publishing'[p].at = "refreshing" /\ publishing'[p].rule = publishing[p].rule
        /\ \A q \in Publisher : q # p => publishing'[q] = publishing[q]
    BY <1>1, <2>1, <2>2
  <2> QED BY <2>1, <2>3 DEF LP!Idle
<1>4. CASE LP!FinishRefresh(p)
  <2>1. publishing[p] # LP!Idle /\ publishing[p].rule \in LP!RuleId
    BY <1>1, <1>4 DEF LP!FinishRefresh, LP!Idle
  <2> QED BY <1>1, <1>4, <2>1 DEF LP!FinishRefresh
<1> QED BY <1>2, <1>3, <1>4 DEF Refreshes

\* Each kind of step keeps a fetch and its refresh together.
LEMMA RefreshInvStep ==
    ASSUME LibraryHolds, TextInv, FetchInv, RefreshInv, [Next]_vars
    PROVE  RefreshInv'
<1>0. /\ \A i \in LP!RuleId : refresh[i] = "done" => refresh'[i] = "done"
      /\ \A run \in fetchRuns : run.rule # 0 => run.rule \in LP!RuleId
      /\ \A p \in Publisher : (fetching[p] # NoFetch /\ fetching[p].rule # 0)
           => fetching[p].rule \in LP!RuleId
      /\ FetchTypes
      /\ publishing \in [Publisher -> {LP!Idle}
            \cup [at: {"committed"}, rule: LP!RuleId]
            \cup [at: {"refreshing"}, rule: LP!RuleId, left: Seq(Tenant)]]
  BY LibraryMoves, LibraryConstants, LP!RefreshOnceStep, FetchedRules
     DEF LibraryHolds, FetchInv, LP!LibraryInv, LP!TypeOK
<1>1. fetchRuns' = fetchRuns => RecordedMeansRefreshed'
  BY <1>0 DEF RefreshInv, RecordedMeansRefreshed
<1>2. ASSUME NEW q \in Publisher, fetching'[q] = fetching[q], publishing'[q] = publishing[q],
             fetching[q] # NoFetch
      PROVE  IF publishing'[q] # LP!Idle
             THEN publishing'[q].rule = fetching'[q].rule
             ELSE fetching'[q].rule # 0 => refresh'[fetching'[q].rule] = "done"
  BY <1>0, <1>2 DEF RefreshInv, FetchFollowsRefresh
<1>3. CASE UNCHANGED <<fetchRuns, fetching, publishing>>
  BY <1>1, <1>2, <1>3 DEF RefreshInv, FetchFollowsRefresh
<1>4. ASSUME NEW p \in Publisher, NEW text, NewRule(p, text), fetching[p] = NoFetch,
             UNCHANGED <<fetchRuns, fetching, broken>> \/ FetchBegins(p, text)
      PROVE  RefreshInv'
  <2>1. /\ publishing' = [publishing EXCEPT ![p] =
              [at |-> "committed", rule |-> Len(rules) + 1]]
        /\ text # NoText => IsRule(text)
    BY <1>4, NewRuleIsLast DEF LP!Begins, TextInv
  <2>2. fetchRuns' = fetchRuns
    BY <1>4 DEF FetchBegins
  <2>3. /\ publishing'[p] # LP!Idle /\ publishing'[p].rule = Len(rules) + 1
        /\ \A q \in Publisher : q # p => publishing'[q] = publishing[q]
    BY <1>0, <2>1 DEF LP!Idle
  <2>4. /\ fetching'[p] # NoFetch => fetching'[p].rule = Len(rules) + 1
        /\ \A q \in Publisher : q # p => fetching'[q] = fetching[q]
    <3>1. CASE fetching' = fetching
      BY <1>4, <3>1
    <3>2. CASE FetchBegins(p, text)
      <4>1. text \in Text /\ text # NoText
        BY <3>2, RuleIngestionAssumption DEF FetchBegins
      <4> QED BY <1>0, <2>1, <3>2, <4>1 DEF FetchBegins, FetchTypes
    <3> QED BY <1>4, <3>1, <3>2
  <2>5. FetchFollowsRefresh'
    BY <1>2, <2>3, <2>4 DEF FetchFollowsRefresh
  <2> QED BY <1>1, <2>2, <2>5 DEF RefreshInv
<1>5. ASSUME NEW p \in Publisher, NEW text, NewReview(p, text), fetching[p] = NoFetch,
             UNCHANGED <<fetchRuns, fetching, broken>> \/ FetchBegins(p, text)
      PROVE  RefreshInv'
  <2>1. /\ publishing' = publishing /\ publishing[p] = LP!Idle /\ ~IsRule(text)
        /\ fetchRuns' = fetchRuns
    BY <1>5 DEF NewReview, libraryVars, FetchBegins
  <2>2. /\ fetching'[p] # NoFetch => fetching'[p].rule = 0
        /\ \A q \in Publisher : q # p => fetching'[q] = fetching[q]
    BY <1>0, <1>5, <2>1 DEF FetchBegins, FetchTypes
  <2>3. FetchFollowsRefresh'
    BY <1>2, <2>1, <2>2 DEF FetchFollowsRefresh
  <2> QED BY <1>1, <2>1, <2>3 DEF RefreshInv
<1>6. ASSUME NEW p \in Publisher, Refreshes(p) PROVE RefreshInv'
  <2>1. /\ publishing[p] # LP!Idle
        /\ \/ publishing'[p] # LP!Idle /\ publishing'[p].rule = publishing[p].rule
           \/ /\ publishing'[p] = LP!Idle
              /\ refresh'[publishing[p].rule] = "done"
        /\ \A q \in Publisher : q # p => publishing'[q] = publishing[q]
        /\ fetching' = fetching /\ fetchRuns' = fetchRuns
    BY <1>6, RefreshesOrDone DEF Refreshes
  <2>2. fetching[p] # NoFetch => publishing[p].rule = fetching[p].rule
    BY <2>1 DEF RefreshInv, FetchFollowsRefresh
  <2>3. FetchFollowsRefresh'
    BY <1>2, <2>1, <2>2 DEF FetchFollowsRefresh
  <2> QED BY <1>1, <2>1, <2>3 DEF RefreshInv
<1>7. ASSUME NEW p \in Publisher, RecordFetch(p) PROVE RefreshInv'
  <2>1. PICK run \in FetchRun, f \in Fetch :
          /\ f = fetching[p] /\ fetching[p] # NoFetch
          /\ fetchRuns' = fetchRuns \cup {run}
          /\ run.rule = f.rule
          /\ fetching' = [fetching EXCEPT ![p] = NoFetch]
          /\ UNCHANGED libraryVars
    BY <1>0, <1>7, RecordedAs
  <2>2. publishing[p] = LP!Idle /\ UNCHANGED <<publishing, refresh>>
    BY <1>7, <2>1, SameValues DEF RecordFetch, libraryVars
  <2>3. run.rule # 0 => refresh[run.rule] = "done"
    BY <2>1, <2>2 DEF RefreshInv, FetchFollowsRefresh
  <2>4. /\ fetching'[p] = NoFetch
        /\ \A q \in Publisher : q # p => fetching'[q] = fetching[q]
    BY <1>0, <2>1 DEF FetchTypes
  <2> QED BY <1>2, <2>1, <2>2, <2>3, <2>4
          DEF RefreshInv, FetchFollowsRefresh, RecordedMeansRefreshed
<1>8. ASSUME NEW p \in Publisher, Breaks(p) PROVE RefreshInv'
  <2>1. \A q \in Publisher : q # p => publishing'[q] = publishing[q]
    BY <1>0, <1>8 DEF Breaks, LP!RefreshRaises, LP!Crash, libraryVars
  <2>2. /\ fetchRuns' = fetchRuns /\ fetching'[p] = NoFetch
        /\ \A q \in Publisher : q # p => fetching'[q] = fetching[q]
    BY <1>0, <1>8, BrokenAs DEF Breaks, FetchTypes
  <2>3. FetchFollowsRefresh'
    BY <1>2, <2>1, <2>2 DEF FetchFollowsRefresh
  <2> QED BY <1>1, <2>2, <2>3 DEF RefreshInv
<1>9. LP!UserNext => publishing' = publishing
  BY DEF LP!UserNext, LP!CreateTenant, LP!RegisterClient, LP!UpdateClientStates,
     LP!Close, LP!Reopen, LP!Override, LP!SetRow
<1> QED BY <1>3, <1>4, <1>5, <1>6, <1>7, <1>8, <1>9, Steps DEF vars, libraryVars

\* A record of a fetch that wrote a rule means that the refresh of the rule
\* has run to its end, whatever raised or died in between.
THEOREM RecordsFollowRefreshes == Spec => []RecordedMeansRefreshed
<1>1. Init => RefreshInv
  BY DEF Init, RefreshInv, FetchFollowsRefresh, RecordedMeansRefreshed
<1>2. LibraryHolds /\ TextInv /\ FetchInv /\ RefreshInv /\ [Next]_vars => RefreshInv'
  BY RefreshInvStep
<1>3. RefreshInv => RecordedMeansRefreshed
  BY DEF RefreshInv
<1> QED BY <1>1, <1>2, <1>3, FetchesAlways, PTL DEF Spec

-----------------------------------------------------------------------------
(* The library inside *)

\* Whatever sources publish and users add, and wherever fetches die, rules and
\* deadlines behave as RuleLibrary says.
THEOREM ImplementsRuleLibrary == Spec => LP!Spec
<1>1. Init => LP!Init
  BY SameValues, Zenon DEF Init, L!Init, LP!Init
<1> QED BY <1>1, LibraryMoves, PTL DEF Spec, LP!Spec

\* What a record of a fetch is worth to clients.
RecordedMeansCurrent ==
    \A run \in fetchRuns, c \in Client :
       run.rule \in LP!Active => LP!UpToDate(c, run.rule)

\* As long as no rule is superseded while it is being published, a recorded
\* fetch means that every client has the date of the rule it brought, until
\* the rule is superseded.
THEOREM RecordsMeanCurrent ==
    Spec /\ []LP!PublishedIsActive => []RecordedMeansCurrent
<1>1. ASSUME LibraryHolds, TextInv, FetchInv, RecordedMeansRefreshed, LP!CurrentInv
      PROVE  RecordedMeansCurrent
  <2> SUFFICES ASSUME NEW run \in fetchRuns, NEW c \in Client, run.rule \in LP!Active
               PROVE  LP!UpToDate(c, run.rule)
    BY DEF RecordedMeansCurrent
  <2>1. run.rule # 0
    BY <1>1, Indices DEF LP!Active, TextInv
  <2>2. refresh[run.rule] = "done"
    BY <1>1, <2>1 DEF RecordedMeansRefreshed
  <2> QED BY <1>1, <2>2 DEF LP!CurrentInv, LP!RefreshedMeansCurrent
<1>2. LP!Spec /\ []LP!PublishedIsActive => []LP!CurrentInv
  <2>1. LP!Spec /\ []LP!PublishedIsActive
          => [](LP!LibraryInv /\ LP!RefreshOnce /\ LP!CurrentInv)
    BY LP!CurrentAlways, LibraryConstants
  <2> QED BY <2>1, PTL
<1> QED BY <1>1, <1>2, ImplementsRuleLibrary, RecordsFollowRefreshes, FetchesAlways, PTL

=============================================================================

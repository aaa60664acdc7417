---------------------------- MODULE RuleIngestion ----------------------------
(***************************************************************************)
(* From published texts to rules: parse_rule_text, ingest_rule_text and    *)
(* fetch_from_source of core/engine.py with FetchWorker around them,       *)
(* composed with RuleLibrary, whose publishers are the fetching processes. *)
(*                                                                         *)
(* A fetch commits several times: the rule or the review item, then the    *)
(* deadlines of each tenant, then the fetch run.  It may die, or find the  *)
(* database locked, before each of these, and a date that cannot be read   *)
(* makes it raise in the middle.  Nothing takes a broken fetch up again;   *)
(* the same text is fetched anew.                                          *)
(*                                                                         *)
(* A text is the sequence of its lines that are not blank.  The parser     *)
(* takes the first place where a label stands, in whatever line, and what  *)
(* follows on that line for its value.  Its regular expression skips line  *)
(* ends behind the colon: if nothing follows on the line, the whole next   *)
(* line is the value, be it the value of that label or something else.     *)
(***************************************************************************)
EXTENDS Integers, Sequences

CONSTANTS
    Key, State, JurisdictionOf, Federal, EntityType, Client, EntityOf,
    Tenant, TenantOf, Date, BadDate, Publisher, NoDeadline, NotRegistered, MaxRules,
                     \* see RuleLibrary
    Text,            \* the texts that sources publish
    Command,         \* the rules users add by hand
    Value,           \* what stands behind a label, or on a whole line
    Absent, Empty,   \* a line without the label; nothing behind the label
    KeyIn,           \* what values say: a tax type and a jurisdiction,
    EntitiesIn,      \* entity types,
    DateIn,          \* a date
    Registry,        \* the keys of official_source_registry
    Source,          \* what a fetch may name as its source
    StateSource,     \* the source of each state that has one
    NoText, NoSource,
    MaxReviews       \* bound: review items ever queued

VARIABLES
    rules, tenants, states, deadlines, publishing, refresh, \* see RuleLibrary
    rawText,    \* rules.raw_text, in order of insertion
    reviews,    \* rule_review_queue.raw_text, in order of insertion
    fetchRuns,  \* the table fetch_runs
    fetching,   \* the fetch each process is at, once it has written
    broken      \* history: the rules and reviews of fetches that broke

L == INSTANCE RuleLibrary

libraryVars == <<rules, tenants, states, deadlines, publishing, refresh>>
vars == <<libraryVars, rawText, reviews, fetchRuns, fetching, broken>>

Field == {"tax_type", "jurisdiction", "entity_types", "deadline_date",
          "effective_from"}

Line == [whole: Value, after: [Field -> Value \cup {Absent, Empty}]]

ASSUME RuleIngestionAssumption ==
    /\ L!RuleLibraryAssumption
    /\ L!NoDeadlineAssumption
    /\ Text \subseteq Seq(Line)
    /\ Absent \notin Value /\ Empty \notin Value /\ Absent # Empty
    /\ KeyIn \in [Value \X Value -> Key]
    /\ EntitiesIn \in [Value -> SUBSET EntityType]
    /\ DateIn \in [Value -> L!AnyDate]
    /\ Command \subseteq [key: Key, entities: SUBSET EntityType,
                          date: L!AnyDate]
    /\ NoText \notin Text
    /\ NoSource \notin Registry
    /\ StateSource \in [State -> Registry \cup {NoSource}]
    /\ MaxReviews \in Nat

FetchRun == [source: Registry, status: {"rule_written", "review_queued"},
             rule: L!RuleId \cup {0}, review: 0..MaxReviews]

NoFetch == [source |-> NoSource, text |-> NoText, rule |-> 0, review |-> 0]

Fetch == [source: Registry, text: Text, rule: L!RuleId \cup {0},
          review: 0..MaxReviews]

TypeOK ==
    /\ L!TypeOK
    /\ rawText \in Seq(Text \cup {NoText}) /\ Len(rawText) = Len(rules)
    /\ reviews \in Seq(Text) /\ Len(reviews) <= MaxReviews
    /\ fetchRuns \subseteq FetchRun
    /\ fetching \in [Publisher -> Fetch \cup {NoFetch}]
    /\ broken \subseteq Fetch

Init ==
    /\ L!Init
    /\ rawText = <<>>
    /\ reviews = <<>>
    /\ fetchRuns = {}
    /\ fetching = [p \in Publisher |-> NoFetch]
    /\ broken = {}

-----------------------------------------------------------------------------
(* parse_rule_text *)

\* The lines in which re.search finds a label.
Found(text, f) == {i \in DOMAIN text : text[i].after[f] # Absent}

First(text, f) == CHOOSE i \in Found(text, f) : \A j \in Found(text, f) : i <= j

\* What the parser takes for a field: what stands behind its first label, or
\* else the line that follows, or nothing.
Read(text, f) ==
    IF Found(text, f) = {} THEN Empty
    ELSE LET i == First(text, f)
         IN IF text[i].after[f] # Empty THEN text[i].after[f]
            ELSE IF i < Len(text) THEN text[i + 1].whole ELSE Empty

\* Faulty variant: the score alone decides, which four fields and a word about
\* taxes bring to 95 of 100.
IsRule_ByScore(text) ==
    \E f \in Field : \A g \in Field \ {f} : Read(text, g) # Empty

\* Does the text become a rule?  The score of five fields is 99 of 100, over
\* the threshold of 85, so that it is the missing field that decides.
IsRule(text) == \A f \in Field : Read(text, f) # Empty

KeyOf(text) == KeyIn[<<Read(text, "tax_type"), Read(text, "jurisdiction")>>]

EntitiesOf(text) == EntitiesIn[Read(text, "entity_types")]

DateOf(text) == DateIn[Read(text, "deadline_date")]

-----------------------------------------------------------------------------
(* ingest_rule_text, up to its first commit *)

\* Faulty variant: the text is not stored with the rule.
WriteRule_WithoutText(p, text) ==
    /\ IsRule(text)
    /\ L!CreateRule(p, KeyOf(text), EntitiesOf(text), DateOf(text))
    /\ UNCHANGED <<rawText, reviews>>

WriteRule(p, text) ==
    /\ IsRule(text)
    /\ L!CreateRule(p, KeyOf(text), EntitiesOf(text), DateOf(text))
    /\ rawText' = Append(rawText, text)
    /\ UNCHANGED reviews

QueueRuleReview(p, text) ==
    /\ ~IsRule(text)
    /\ publishing[p] = L!Idle
    /\ Len(reviews) < MaxReviews
    /\ reviews' = Append(reviews, text)
    /\ UNCHANGED <<libraryVars, rawText>>

IngestRuleText(p, text) ==
    /\ fetching[p] = NoFetch
    /\ WriteRule(p, text) \/ QueueRuleReview(p, text)
    /\ UNCHANGED <<fetchRuns, fetching, broken>>

\* The command `rule add`.
AddRule(p, rule) ==
    /\ fetching[p] = NoFetch
    /\ L!CreateRule(p, rule.key, rule.entities, rule.date)
    /\ rawText' = Append(rawText, NoText)
    /\ UNCHANGED <<reviews, fetchRuns, fetching, broken>>

-----------------------------------------------------------------------------
(* fetch_from_source *)

\* source_for_selector: the source named, or else that of the state.
SourceFor(source, state) ==
    IF source \in Registry THEN source
    ELSE IF state \in State THEN StateSource[state] ELSE NoSource

\* An unknown source raises before anything is written.
FetchFromSource(p, source, state, text) ==
    /\ fetching[p] = NoFetch
    /\ SourceFor(source, state) # NoSource
    /\ WriteRule(p, text) \/ QueueRuleReview(p, text)
    /\ fetching' = [fetching EXCEPT ![p] =
           [source |-> SourceFor(source, state), text |-> text,
            rule |-> IF IsRule(text) THEN Len(rules) + 1 ELSE 0,
            review |-> IF IsRule(text) THEN 0 ELSE Len(reviews) + 1]]
    /\ UNCHANGED <<fetchRuns, broken>>

\* The refresh of the rule that the fetch wrote, as RuleLibrary has it.
Continue(p) ==
    /\ \/ L!ListTenants(p)
       \/ L!RefreshTenant(p)
       \/ L!FinishRefresh(p)
    /\ UNCHANGED <<rawText, reviews, fetchRuns, fetching, broken>>

\* Faulty variants: the run is written before the refresh; with the rule that
\* is the last one by now.
RecordFetch_AtOnce(p) ==
    LET f == fetching[p]
    IN /\ f # NoFetch
       /\ publishing[p].at # "refreshing"
       /\ fetchRuns' = fetchRuns \cup
            {[source |-> f.source, rule |-> f.rule, review |-> f.review,
              status |-> IF f.review = 0 THEN "rule_written" ELSE "review_queued"]}
       /\ fetching' = [fetching EXCEPT ![p] = NoFetch]
       /\ UNCHANGED <<libraryVars, rawText, reviews, broken>>

RecordFetch_LastRule(p) ==
    LET f == fetching[p]
    IN /\ f # NoFetch
       /\ publishing[p] = L!Idle
       /\ fetchRuns' = fetchRuns \cup
            {[source |-> f.source, review |-> f.review,
              rule |-> IF f.review = 0 THEN Len(rules) ELSE 0,
              status |-> IF f.review = 0 THEN "rule_written" ELSE "review_queued"]}
       /\ fetching' = [fetching EXCEPT ![p] = NoFetch]
       /\ UNCHANGED <<libraryVars, rawText, reviews, broken>>

\* The second transaction: the fetch run and its audit entry.
RecordFetch(p) ==
    LET f == fetching[p]
    IN /\ f # NoFetch
       /\ publishing[p] = L!Idle
       /\ fetchRuns' = fetchRuns \cup
            {[source |-> f.source, rule |-> f.rule, review |-> f.review,
              status |-> IF f.review = 0 THEN "rule_written" ELSE "review_queued"]}
       /\ fetching' = [fetching EXCEPT ![p] = NoFetch]
       /\ UNCHANGED <<libraryVars, rawText, reviews, broken>>

\* What was written stays, without a fetch run.
LeavesNoRun(p) ==
    /\ broken' = broken \cup ({fetching[p]} \ {NoFetch})
    /\ fetching' = [fetching EXCEPT ![p] = NoFetch]
    /\ UNCHANGED <<rawText, reviews, fetchRuns>>

\* A date that cannot be read raises out of create_rule.
RefreshRaises(p) == L!RefreshRaises(p) /\ LeavesNoRun(p)

\* The process dies, or finds the database locked, before its next commit.
Crash(p) ==
    /\ \/ L!Crash(p)
       \/ fetching[p] # NoFetch /\ publishing[p] = L!Idle /\ UNCHANGED libraryVars
    /\ LeavesNoRun(p)

-----------------------------------------------------------------------------
Ingest ==
    \E p \in Publisher :
       \/ \E text \in Text :
            \/ IngestRuleText(p, text)
            \/ \E source \in Source, state \in State \cup {NoSource} :
                 FetchFromSource(p, source, state, text)
       \/ \E rule \in Command : AddRule(p, rule)

\* Clients register, and users close, reopen and override deadlines.
Meanwhile ==
    L!UserNext /\ UNCHANGED <<rawText, reviews, fetchRuns, fetching, broken>>

Proceed(p) == Continue(p) \/ RecordFetch(p) \/ RefreshRaises(p)

Next ==
    \/ Ingest
    \/ Meanwhile
    \/ \E p \in Publisher : Proceed(p) \/ Crash(p)

Spec == Init /\ [][Next]_vars

-----------------------------------------------------------------------------
(* Properties *)

\* The rule or review that a fetch has written.
Written(x) == <<x.rule, x.review>>

\* A fetch run names one rule or review, as its status says, and one that came
\* from a text.  No two fetches claim the same one: none of those recorded,
\* broken or under way, however often the same text was fetched.
NoTwoFetchesShare ==
    /\ \A run \in fetchRuns :
         /\ run.status = "rule_written" <=> run.rule \in DOMAIN rules
         /\ run.status = "review_queued" <=> run.review \in DOMAIN reviews
         /\ run.rule \in DOMAIN rules => rawText[run.rule] # NoText
    /\ \A a, b \in fetchRuns : Written(a) = Written(b) => a = b
    /\ \A run \in fetchRuns, f \in broken : Written(run) # Written(f)
    /\ \A p \in Publisher : fetching[p] # NoFetch =>
         \A x \in fetchRuns \cup broken : Written(x) # Written(fetching[p])
    /\ \A p, q \in Publisher :
         (fetching[p] # NoFetch /\ fetching[p] = fetching[q]) => p = q

\* A fetch is recorded once every deadline of its rule has been refreshed, so
\* that a recorded fetch never hides a refresh that raised or died.
RecordedMeansRefreshed ==
    \A run \in fetchRuns : run.rule # 0 => refresh[run.rule] = "done"

\* A text without one of the labels, or with one that has nothing behind it
\* and no line to follow, is left to a person; one whose labels all have their
\* values is not.  In between the parser helps itself to the next line.
IncompleteTextsAreReviewed ==
    /\ \A i \in DOMAIN rawText : rawText[i] # NoText =>
         \A f \in Field : \E j \in Found(rawText[i], f) :
            rawText[i][j].after[f] # Empty \/ j < Len(rawText[i])
    /\ \A i \in DOMAIN reviews : \E f \in Field :
         \A j \in Found(reviews[i], f) :
            reviews[i][j].after[f] = Empty /\ j = Len(reviews[i])

\* A text that is fetched again becomes another version of its rule, as after
\* a fetch that broke between its commits.  The deadlines that an earlier
\* version of that text moved or made are left as they are, with the reminders
\* they have: only a rule that came from something else moves them.
FetchedAgainMovesNothing ==
    [][\A c \in Client, k \in Key :
         LET old == deadlines[c][k]
             new == deadlines'[c][k]
         IN (old # NoDeadline /\ new.rule # old.rule /\ rawText'[new.rule] # NoText)
              => rawText'[new.rule] # rawText[old.rule]]_vars

=============================================================================

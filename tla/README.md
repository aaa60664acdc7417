# DueDateHQ: specifications, model checking and proofs

DueDateHQ keeps a tenant's tax deadlines: it stores rules (jurisdiction, tax
type, date), registers clients, derives a deadline for every client a rule
applies to, schedules reminders for it, and sends them through the tenant's
routes. The program is Python over SQLite: an engine
(`src/src/duedatehq/core/engine.py`), a command line, and batch workers that
are started from outside, by hand or as Celery tasks. Any number of these
processes work on one database.

This directory holds TLA+ modules of the parts that carry that logic, TLC runs
over small instances of them, and TLAPS proofs for every instance.

## 1. The system

| Component | State it keeps | Operations | What is hard |
|---|---|---|---|
| Deadline life cycle: `layers/state_machine.py`, `apply_deadline_action`, `resume_due_snoozes` | `deadlines` (status, due, override, snoozed_until) | complete, snooze, waive, reopen, override, resume; insert and update from a rule | long sequences of legal actions; a list of rows that goes stale |
| Reminders and logs | `reminders`, `deadline_transitions`, `audit_log` | `_rebuild_reminders`, `trigger_due_reminders`, `rebuild_reminders`, inserts into the logs | keeping three tables in step with a row that changes |
| Rule library and deadline generation | `rules`, `clients`, `tenants`, `deadlines` | `create_rule`, `register_client`, `update_client_states`, `create_tenant` | `create_rule` commits, then refreshes tenant by tenant: concurrent publishers, crashes, dates that cannot be read |
| Notifications | `notification_routes`, `notification_deliveries` | `configure_notification_route`, queueing on trigger, `dispatch_notification_deliveries` | send first, mark later; no claim; lost answers; crashes; a notifier that reaches nobody |
| Reminder batch: `core/workers.py`, `core/celery_tasks.py` | `job_queue` | enqueue the window, drain, trigger, complete | overlapping runs, crashes in between, window boundaries, liveness |
| Rule ingestion: `core/sources.py`, `core/fetchers.py`, the parser | `rule_review_queue`, `fetch_runs` | `fetch_from_source`, `ingest_rule_text` | several transactions, no retry that knows of them; labels without a value, of which the parser makes something |
| Client profiles | `client_tax_profiles`, `client_jurisdictions`, `client_contacts` | `update_client_tax_profile`, `_sync_client_jurisdictions` | a reader that uses two connections |
| Event bus | in memory | `publish`, `register` | two kinds of event, `REMINDER_TRIGGERED` and `DEADLINE_UPDATED`, are published before their transaction commits |
| Storage | all tables | `connect`, `transaction` | what is atomic; row-level security on PostgreSQL |
| Conversation, command line, API facade, reports | none | parsing, printing, queries | nothing that changes state |

Components interact only through the tables. `create_rule`, `register_client`
and `update_client_states` reach the deadline store through
`_upsert_deadline_from_rule`; fetching and ingesting texts call `create_rule`;
every change of a deadline's date or a close, reopen or resume rebuilds or
cancels its reminders; the batch triggers reminders through
`trigger_due_reminders`;
triggering queues deliveries in the same transaction; dispatching sends them.
There are no callbacks: no handler is registered on the event bus outside the
tests.

### Atomicity

`SQLiteStorage.transaction` opens a connection, issues `BEGIN`, and commits or
rolls back. A connection that has read and finds, when it comes to write, that
another one wrote in between gets "database is locked" and rolls back, so
committed blocks are serialisable. A block is therefore one step of the models,
and an operation that raises is either no step or, when it has committed
something earlier, a crash step. What is *not* in one block is modelled as
several steps, with every other process free to run in between:

* `create_rule`: rule, list of tenants, one transaction per tenant;
* `fetch_from_source`: all of that, or the review item, then the fetch run;
* `resume_due_snoozes`: list of rows, one transaction per row;
* `dispatch_notification_deliveries`: list, then send and mark per delivery;
* a batch run: list, one transaction per job, drain, trigger, complete.

`rebuild_reminders` also reads in one transaction and writes in the next; it has
no caller and is not modelled (section 6).

On PostgreSQL the isolation level is READ COMMITTED and the models do not
apply as they stand; PostgreSQL storage is not modelled.

## 2. The modules

| Module | Models | Size of a step |
|---|---|---|
| `StateMachine` | the transition table and the enumerations | – |
| `Deadlines` | the deadline store: rows, reminders, both logs | a transaction |
| `DeadlinesProofs` | theorems about `Deadlines` | – |
| `DeadlineBoard` | the abstract store that `Deadlines` implements | an operation |
| `DeadlineBoardProofs` | the proof that it does | – |
| `RuleLibrary` | rules, versions, clients, and which deadline rows they lead to | a transaction |
| `RuleLibraryProofs` | theorems about `RuleLibrary` | – |
| `RuleIngestion` | parser, review queue, fetches; composes `RuleLibrary` | a transaction |
| `RuleIngestionProofs` | theorems about `RuleIngestion` | – |
| `Notifications` | routes, deliveries, dispatchers | a transaction or a send |
| `NotificationsProofs` | theorems about `Notifications` | – |
| `Delivery` | `Deadlines` and `Notifications` composed | a transaction or a send |
| `DeliveryProofs` | theorems about `Delivery` | – |
| `ReminderPipeline` | job queue and batch runs | a transaction or a query |
| `ReminderPipelineProofs` | theorems about `ReminderPipeline` | – |
| `MC…` | constants for TLC | – |

### Deadlines

A deadline is a slot (client, tax type, jurisdiction), for which
`_upsert_deadline_from_rule` keeps one row. `status`, `dueDate`,
`overrideDate`, `snoozedUntil` are the columns; `transitions` and `audit` are
the log rows about each deadline in order of insertion; `reminders` is the
table. `builds` counts `_rebuild_reminders` and stands for the random
`reminder_id`: it makes the rows of two builds different.

| Action | Code |
|---|---|
| `CreateDeadline`, `UpdateDeadline` | the two writing branches of `_upsert_deadline_from_rule`; `KeepsItsDate` is the branch that writes nothing |
| `ApplyDeadlineAction` | `apply_deadline_action`, state machine to reminders; `UserAction` adds which actions the command line offers |
| `TriggerDueReminders` | `trigger_due_reminders`, for a tenant or for all |
| `ListDueSnoozes`, `ResumeListed`, `ResumeFails` | `resume_due_snoozes`: the query, an `apply_deadline_action` per row, and the loop ending early (a row raises, the database is locked, the process dies) |

A rule may carry any date at any time, so `UpdateDeadline` takes every date;
which rule it comes from is the subject of `RuleLibrary`. `now` is an argument
that need not grow, since the command line takes `--at`.

### DeadlineBoard

What the store promises, said without reminder rows, builds and logs: a deadline
has a status, a due date, which is `pinned` once a user has set it, and the
reminders it still owes, each named by how long before the due date it is
sent. `Insert` and `Move` are rules, `Act` and `Pin` the life cycle, `Remind`
the trigger. `Deadlines!Board` is the refinement mapping: `pinned` is
`override_date IS NOT NULL`, and `owed` is computed from the scheduled rows as
present due date minus `scheduled_at`, not from the column `day`, so that a
row left over from an earlier date shows. `ImplementsBoard` is the refinement.

### RuleLibrary

`rules` is the table in order of insertion. `publishing` is how far each
`create_rule` has come: `committed`, then `refreshing` with the tenants left.
`RefreshRaises` is a date that cannot be turned into reminders: it rolls back
the tenant and ends the loop. `Crash` is a process that dies between
transactions, or whose transaction finds the database locked. `refresh` is a
history variable: how each refresh ended. Of a deadline it keeps `rule`, `due`,
whether it was
overridden, whether it is closed: with `BadDate` a closed deadline cannot be
reopened, because `_rebuild_reminders` raises. One assumption bounds the
inputs: clients keep the entity type they were registered with (nothing changes
it). A client may be registered in no state, since `client add --states ","` gives
an empty list, and gets the federal rules; `NotRegistered` is what `states` holds
for one that has not been registered. A rule may be for no entity type at all in
the same way; it matches nobody.

### RuleIngestion

`L` is `RuleLibrary`; its publishers are the processes that fetch, ingest or add
rules. `rawText` is the column of the rules table, `reviews` and `fetchRuns`
are tables, `fetching` is what a fetch holds between its commits, `broken` a
history variable: what fetches that died or raised had written.

| Operator | Code |
|---|---|
| `Found`, `First`, `Read`, `IsRule`, `KeyOf`, `EntitiesOf`, `DateOf` | `parse_rule_text` |
| `WriteRule`, `QueueRuleReview`, `IngestRuleText` | `ingest_rule_text`, `_queue_rule_review` |
| `AddRule` | the command `rule add`, which stores no text |
| `SourceFor`, `FetchFromSource`, `Continue`, `RecordFetch` | `fetch_from_source`: choice of the source, the first commit, the refresh, the fetch run |
| `RefreshRaises`, `Crash` | the two ways to end without a fetch run |
| `Meanwhile` | tenants and clients are added and moved, users close, reopen and override |

A text is the sequence of its lines that are not blank. For each label a line
says what follows behind it (`after`): no such label, nothing, or a value; one
line may hold several, as in "previous deadline date: 12", where the expression
finds `deadline date`. `whole` is the line as a value. `re.search(label\s*:\s*(.+))`
takes the first place of the label in the text (`First`), and skips line ends
behind the colon: with nothing behind it on its line, the whole next line is read
(`Read`), whatever it is. What values mean is given by constants (`KeyIn`,
`EntitiesIn`, `DateIn`) of which nothing is assumed but their types: a line taken
by mistake may be a tax type, a state or a date that somebody has. The confidence
score of a text with all five fields is 0.99, over the threshold of 0.85; below it
a field is missing, so `IsRule` asks for the five fields only.

### Notifications

`delivery` is the status of the row for each reminder and route. `accepted`
counts what a mail server or webhook took: it is the outside world and no table.
`kept` counts what a `ConsoleNotifier` took, which appends the message to a list in
memory and returns. Each call of `dispatch_notification_deliveries` brings its own
registry: `console` is the set of channels for which it holds a `ConsoleNotifier`,
any subset, since `notify send-pending` takes that one for each channel that no
option names a server for, and the Celery task takes it for all three. So a send
has four outcomes: kept by the console, which marks the row sent although it
reached nobody (`ConsoleSend`); taken and answered; not taken; taken and not
answered, 30 seconds, then an exception (`ProviderSend`). `Crash`
also stands for the failure of the marking transaction. `IsNext`, `Rest` and
`MayMark` are the loop. Routes are enabled when they are made, as the command
line makes them, and nothing disables one. The command line's registry has a
notifier for every channel, so looking one up does not fail.

### Delivery

`D` is `Deadlines` and `N` is `Notifications`, whose `reminder` is not a variable
here but computed from the rows of `D` (`ReminderStatus`); a reminder is named
by deadline, build and day, and one that has not been inserted counts as
scheduled. The two meet in `TriggerDueReminders`: rows, deliveries, texts and
events in one step. `text` is the due date in subject and body; it is read from
the deadline row when the delivery is inserted. `announced` is what
`REMINDER_TRIGGERED` was published for. `TriggerRollsBack` is the
transaction that fails after some of its events were published. `DeadlineStep`
(a rule inserts or moves a deadline, `MovedByRule`, or somebody acts on it,
`ActedOn`) and `QueueStep` are the steps of one component alone.

### ReminderPipeline

One tenant. A worker's `stage` is the statement of the run it is at. `Drain`
returns the jobs that are available at the run's `now`; an empty drain ends
the run, as `ReminderWorker.run` does with an empty list. `Tick` is the clock.

## 3. Runs

| Run | Question | Answer |
|---|---|---|
| `deadline_histories` | do reminders, logs and override agree with the row through every history of two deadlines, with two runs of `resume_due_snoozes` beside them; does the store implement the board? | yes |
| `snooze_defers` | does snoozing defer reminders? | **no** |
| `rule_versions` | do concurrent publishers keep one chain of versions per key, and due dates that come from their rule? | yes |
| `rule_refresh` | with one publisher that may die: does an ended refresh leave anybody behind, does a deadline go back, or move for a state its client has left, does a rule reach its clients? | no, no, no, yes when its date can be read and its publisher lives |
| `rule_race` | is an ended refresh current with two publishers? | **no** |
| `dispatch_one` | what can one dispatcher that dies get wrong? | nothing is sent that is not recorded, what was sent stays sent, its list never goes stale |
| `dispatch_two` | and two at once, of which one may die? | one send each and one more per crash; nothing is marked sent that neither a server nor a console took |
| `dispatch_race` | does a delivery marked sent stay so with two? | **no** |
| `batches` | do overlapping, dying runs share or wrongly complete a job; is a reminder triggered that is there one batch ahead, and in time? | no; yes to both, unless a run dies |
| `batch_lost_job` | is it still triggered when one run dies? | **no** |
| `delivery` | what does a message say when its deadline is moved, closed or reopened around its trigger; whom do rolled-back triggers tell? | the date its reminder was built for, the present one unless the deadline was built anew since; nothing is written about a closed deadline; listeners |
| `ingestion` | do fetch runs name what their fetch wrote, and nobody else's; does fetching a text again move deadlines; which texts are held back? | yes; not those the text itself has dated; those with a label that is missing or has nothing behind it to the end |

Remarks on what passes. `NoReminderIsLost` says that a reminder of the
last build is scheduled or *was triggered*: it is not a claim that it was sent,
which is `Notifications`. And `SettledRemindersStay` is about rows: reopening
or moving a deadline builds new rows for days whose reminders went out before,
and those go out again at the next trigger. The documents claim nothing about
that. `OnlyPresentStatesMove` is the positive half of what
`update_client_states` does: the deadlines of a state the client left stay
open with their reminders and no rule moves them any more; nothing says
that they should go. Closing a deadline does not recall a message about it that
is waiting: `NoMessageIsWrittenWhenClosed` is about writing, not sending.

A misread text does reach clients, and no property says otherwise.
With `tax_type:` left empty the next line is the tax type, the score is 0.99, and
every matching client gets an open deadline, with reminders, under that made-up
tax; `ingestion` has such a text. A text that speaks of the previous deadline date
before the new one is read with the previous one. With the date left empty the
next line usually is no date: the version before is superseded, building
reminders raises, the refresh ends for all tenants behind the first that has a
matching client (hazard at `engine.py:1485`), and no fetch run is written.
`IncompleteTextsAreReviewed` says exactly which texts the parser holds back, in
terms of the text and not of what is read; it is no claim that the others are
read as they were meant.

A fetch that broke between its commits left a rule without a fetch run, and
fetching the text again makes a second version of the same rule.
`FetchedAgainMovesNothing` says that this does no harm to deadlines: those that
a rule of the same text dated keep their rule and so their reminders. It
rests on `_upsert_deadline_from_rule` doing nothing where the date is the same
(`engine.py:1398`), on the parser reading the same text the same way, and
on deadlines still having the date of the rule they name.

`SentMeansHandedOver` is all that "sent" says: a server took the message, or a
`ConsoleNotifier` did and nobody has it. The row itself does not tell which, and
no dispatch sends it again. The tests expect it (`tests/test_smoke.py:543-547`), so
it is no finding; `SentWasAccepted` (section 4) is about a channel that never
meets a console.

`TriggeredUnlessARunDies` says that a reminder is triggered some time;
`TriggeredInTime` that it is before the clock is more than an hour past its
time. The second is a safety property, it can be violated by a finite history, and is
proved (section 4).

### What the failing runs show

* **snooze_defers.** `apply_deadline_action` touches reminders only when the
  deadline closes or after override, reopen and resume;
  `trigger_due_reminders` looks at reminders only. The reminders of a snoozed
  deadline go out as scheduled. The interaction guide maps "remind me again
  next week" to snooze.
* **rule_race.** Publisher 1 commits version 1 and pauses; publisher 2 commits
  version 2 and refreshes; publisher 1 refreshes with version 1. The deadlines
  hold the superseded date, both commands succeeded, and nothing repairs it
  before the next version.
* **dispatch_race.** Both list the row; one sends and marks it sent; the other
  fails and marks it failed.
* **batch_lost_job.** A run drains the job and dies. The job is `claimed` for
  ever; the reminder's time is behind the window of every later run. Only
  another reminder of the tenant, or the command `trigger-reminders`, would
  send it.

The batch has another gap that no document speaks of: the window starts at
`now`. A client registered ten days before a due date has a 30-day and a 14-day
reminder in the past; no job is ever made for them, and with an empty queue
nothing is triggered.

### Bounds

* `deadline_histories`: two dates, offsets 1 and 4, calls at 7 and 11, so that
  some reminders are past, some due and some ahead. One deadline has four
  logged events (create, override or snooze, close, reopen), the other two;
  resuming is not counted. Two runs of `resume_due_snoozes` are symmetric.
* `rule_refresh`, `rule_race`: one key, two clients of two tenants, two
  versions, which is what a race needs; clients are in the state or in none.
  `rule_versions`: a state tax and a federal tax, two kinds of client, three
  rules, two symmetric publishers.
* `delivery`: one deadline with four logged events and two builds, another of a
  tenant without a route that only gets its date; dates 10 and 12, one offset,
  triggers at 9 and 11, so that a reminder is triggered before, between and
  after moves; a dispatcher that may die once and one rollback.
* `ingestion`: four texts (complete; the date empty with a line to follow; the
  last label empty; the tax type empty and a previous date named first), a rule
  added by hand, two dates, two rules and one review, two symmetric processes,
  one client.
* `Notifications`: three reminders and two routes, each on a channel of its
  own, for one dispatcher; two reminders and a route for two. Each call has a
  server for any subset of the channels.
* `ReminderPipeline`: times 0 to 6 in steps of 2, one reminder between two
  batches and one exactly at a batch. The last hour repeats, so that a liveness
  counterexample is not made by the end of the model.
* `MaxEvents`, `MaxRules`, `MaxCrashes`, `MaxTime`, `MaxBuilds`,
  `MaxRollbacks`, `MaxReviews` are the only caps, each in one guard. The runs
  of `RuleLibrary` and `RuleIngestion` do not check deadlock: when `MaxRules`
  rules are there and every client is registered the system may really stop.

### Fairness

* `RuleLibrary!FairSpec`: a publisher that started goes on, unless it crashes.
  It is a loop of one process; nothing it waits for is another process.
* `Notifications!FairSpec`: a dispatcher goes on through its list. Nothing
  says that one is ever started, and no property needs it.
* `ReminderPipeline!FairSpec`: the design document runs the batch every hour.
  `Tick` waits until each worker has finished a run in this hour, and each run
  goes on. `TriggeredInTime` needs the first only, which is the guard of `Tick`
  and part of `Spec`. Nothing in the repository starts the batch; what holds under
  `FairSpec` holds only where it is scheduled so.

### Faulty variants

Beside many definitions stands a variant of the same name with a suffix
(`ScheduledOf_AnyStatus`): the definition as a plausible mistake in the code
would make it. No specification uses them. Each property is violated when the
definition is exchanged for one of its variants, which shows that the property
depends on the code it is about.

## 4. Proofs

`DeadlinesProofs` proves for every set of deadlines, tenants, dates, offsets,
instants and resuming processes, from `DeadlinesAssumption` alone (dates,
instants and offsets are integers, `NoDate` is none of them, every deadline has
a tenant, `MaxEvents` are natural numbers):

| Theorem | Says |
|---|---|
| `TypeCorrect` | `[]TypeOK` |
| `RowIsConsistent` | `[](OverrideSticks /\ SnoozedUntilWhileSnoozed)` |
| `OverrideIsRespected` | only the override action moves a date a user set |
| `RemindersAreCorrect` | `[](ClosedDeadlinesAreQuiet /\ RemindersFollowDueDate)` |
| `RemindersAreComplete` | `[]NoReminderIsLost` |
| `TransitionsAreLogged` | `[]TransitionLogExplainsStatus` |
| `DatesAreAudited` | `[]AuditExplainsDueDate` |
| `LogsTellTheSame` | `[]LogsAgree` |
| `SettledStay` | no step takes away or revives a reminder that was triggered or cancelled |

`StepCases` reduces `Next` to an insert, an update, an action with its
arguments, a trigger, or a step that writes no table; each invariant is then
proved once per kind. `Effect` collects what an action writes. What marking
and rebuilding do to the set of reminders is stated in `MarkMembers`,
`BatchMembers`, `RebuildMembers`, and used by name.

Strengthenings: `RowInv`, the conjunction of the two row properties, is inductive
only with the part of `TypeOK` that says a row has a due date exactly when it
exists: a row still to be created has no due date, hence no override that
`CreateDeadline` could contradict. `ReminderInv` says of every
reminder that its deadline has a row, and of a scheduled one that the deadline
is open, the build the last, and the time at its distance from the due date.
For `RebuildReminders` this is all that is needed: it cancels what was
scheduled and builds for the date and status the row gets in the same step.
That reading the row and building are one transaction is essential.
`TransitionLogExplainsStatus` and `AuditExplainsDueDate` are inductive with the
types. `LogsAgree` compares a log of everything with a log of status changes. It
is stated without filtering a sequence, which would be recursive: `Records(log,
moves)` says that the log has as many places with a status change as there are
moves, and that the change at the n-th such place is the n-th move. An entry
appended leaves the places before it as they are (`ChangesAreCounted`): alone it
adds no place (`OtherEntryRecords`), with its move it adds the last one
(`ChangeEntryRecords`), and no action writes one of the two without the other.

`NotificationsProofs` proves, for every set of tenants, reminders and routes,
every finite set of dispatchers and every bound on crashes, from
`NotificationsAssumption`:

| Theorem | Says |
|---|---|
| `TypeCorrect` | `[]TypeOK` |
| `SentWasHandedOver` | `[]SentMeansHandedOver` |
| `SentWasAccepted` | for each channel: where no call ever has a `ConsoleNotifier` for it, what is marked sent on it was taken by its mail server or webhook |
| `OnlyRecordedGoesOut` | `[]OnlyRecordedIsSent` |
| `SendsBounded` | `[]SendsAreBounded` |
| `ListOfOneIsFresh` | `[]ListedIsPending`, where there is one dispatcher |
| `SentStaysSent` | `SentIsFinal`, where there is one dispatcher |

`SentMeansHandedOver` needs `HandsAreHonest`, what a dispatcher has sent and
not marked yet. `SentWasAccepted` adds that nothing is kept on such a channel.
`OnlyRecordedIsSent` needs `RecordInv`, that a row is there only for a
triggered reminder and only rows are listed. `SendsAreBounded`, which counts
what servers and consoles took together, is far from inductive: a row may be
sent by several dispatchers before the first marks it, and by the rest after.
`SendBudget` counts who may still send. While the row is pending, its sends are
at most the dispatchers that hold it plus crashes; once it is settled, its
sends and the dispatchers that will still send it are together at most all
dispatchers plus crashes. Marking turns the first bound into the second, since
those who wait and those who hold are different; that a settled row is never
listed again keeps the second. With one dispatcher a row that is marked sent is
on no list, since what is listed is pending; `dispatch_race` shows that the
hypothesis is needed.

`DeadlineBoardProofs` proves `StoreImplementsBoard`, `Spec => ImplementsBoard`.
What an operation does to the rows is reduced to what it does to the days that
are scheduled (`CancelOwes`, `RebuildOwes`, `TriggerOwes`); by `ReminderInv` a
scheduled row is at its day before the present due date, so that days and the
mapping's `Owed` agree (`ReminderInvViews`). Without that invariant a
trigger would not be a step of the board: rows built for an earlier date would
be sent at another time than the board sends them.

`RuleLibraryProofs` proves, for every set of publishers, tenants, clients, keys
and dates and every `MaxRules`, from `RuleLibraryAssumption` and
`NoDeadlineAssumption`:

| Theorem | Says |
|---|---|
| `LibraryTypeCorrect` | `[]TypeOK` |
| `VersionsFormAChain` | `[]SupersessionChain` |
| `DueDatesAreExplained` | `[]DueDateComesFromItsRule` |
| `BadDatesStayOut` | `[]BadDatesOnlyInClosedRows` |
| `OnlyPresentStates` | a rule makes or moves deadlines only for states the client is registered in then |
| `RefreshMakesCurrent` | `[]PublishedIsActive` gives `[]RefreshedMeansCurrent` |
| `NeverBack` | `[]PublishedIsActive` gives `NeverBackToOlderRule` |
| `OneAtATime` | both, without a further condition, where there is one publisher |

`LibraryInv` adds to types and chain that everything that is referred to exists
(`References`). `RulesGrow` says what `create_rule` leaves of the table; the
chain follows from it one version at a time (`ChainIsPointwise`). `RowStep`
says what any operation may do to one row: nothing, an upsert of a rule that
matches and does not raise, or what users do. `DueDatesAreExplained`,
`BadDatesStayOut` and `OnlyPresentStates` follow from it alone.

`PublishedIsActive` says that no rule is superseded before the process that
publishes it is done. With two publishers of one key it can be false, and
`rule_race` is the history in which it is; the theorems say that this is the only
way for a finished refresh to leave a client behind, and for a deadline to
go back, whatever crashes, raises, registers or moves beside it. Any number of
publishers satisfy the condition as long as no two are at one key at a time; a
single one always does. The invariant is `CurrentInv`: `DoneMeansCurrent`, that the
clients of the tenants a refresh is through with have the rule's date, carries
the argument. The list of tenants is read after the rule was committed, and a
client of a tenant created later is registered when the rule is already there,
so registering derives its deadlines (`ClientsHaveTenants`). Once current, a
row stays so as long as the rule is active, because every other writer applies
an active rule, of which a key has one. `RefreshOnce` says that the outcome of a
refresh is written once, by the one process that publishes the rule.

`RuleIngestionProofs` proves, for all texts, sources, processes and bounds, from
`RuleIngestionAssumption`:

| Theorem | Says |
|---|---|
| `IngestionTypeCorrect` | `[]TypeOK` |
| `ImplementsRuleLibrary` | `Spec => L!Spec`: whatever is fetched, ingested or added, the library behaves as `RuleLibrary` says |
| `IncompleteTextsStayOut` | `[]IncompleteTextsAreReviewed` |
| `RefetchingIsHarmless` | `FetchedAgainMovesNothing` |
| `FetchesDoNotShare` | `[]NoTwoFetchesShare` |
| `RecordsFollowRefreshes` | `[]RecordedMeansRefreshed` |
| `RecordsMeanCurrent` | under `[]PublishedIsActive`, while the rule of a recorded fetch is active, every client it applies to has its date |

Each step is a step of `RuleLibrary` or leaves the library alone (`LibraryMoves`),
which brings its invariants over (`LibraryHolds`). That the first place of
a label exists is the least element of a set of numbers (`FirstExists`, by
`WellFoundedInduction`); `ReadSaysFound` turns what is read into what the text has,
which is `IncompleteTextsStayOut`. `TextInv` ties each rule with a text to
what the parser reads there (`TextsAreRead`), so that two rules of one text have
one date; with `DueDateComesFromItsRule`, that a row not overridden has the date
of the rule it names, the upsert of the second finds nothing to do
(`RefetchingIsHarmless`). `NoTwoFetchesShare`
is about what was recorded and what broke, and is not inductive: a fetch under
way will be one or the other. `FetchInv` adds those (`Distinct`), and that
everything named is in its table (`AllPoint`), so that what the next fetch
writes, at a place behind the end, is nobody else's. `RefreshInv` adds that a fetch
whose process is no longer publishing has seen its refresh end
(`FetchFollowsRefresh`). `RecordsMeanCurrent` puts this and `RefreshMakesCurrent`
together.

`ReminderPipelineProofs` proves, for every number of workers, reminders, jobs
and crashes, from `ReminderPipelineAssumption`: `PipelineTypeCorrect`
(`[]TypeOK`), `JobsAreNotShared` (`[]NoJobInTwoHands`), `CompletedAreDone`
(`[]CompletedJobsAreDone`) and `ClaimedAreInHand` (`[]ClaimedJobsAreInHand`).
`DrainedJobs` is the strengthening: between drain and trigger the time of a
job in hand has come at the run's `now`, so that the trigger, which looks at
reminders and not at jobs, deals with it; after the trigger its reminder is not
scheduled. That nothing schedules a reminder again is needed too.

`InTime` is `TriggeredInTime`, where a window is at least an hour long (the
code looks 24 hours ahead, the design runs every hour) and there is a worker.
The property speaks of two states that may be hours apart; `OnItsWay` is what
holds in between. While no run has died, a reminder that is still scheduled is
in one of three phases: its time is at least an hour away; the hour of its time
has begun (`Coming`), and whoever has drained in this hour has made or found a
job for it before; or its time is behind the clock by at most an hour
(`Passed`), it has a job, and whoever has drained since has left no job of it
queued. `Tick` leads from the second phase to the third, because every worker
has drained before, so that there is a job; it cannot lead out of the third: a
worker has drained, so no job of the reminder is queued; nobody is in the
middle of a run, so none is in hand; and none is completed, as the reminder is
scheduled (`PipelineInv`). This is the safety part of
`TriggeredUnlessARunDies`; that the clock goes on is what fairness adds.

`DeliveryProofs` proves about the composition, from `DeliveryAssumption`:

| Theorem | Says |
|---|---|
| `DeliveryTypeCorrect` | `[]TypeOK` |
| `QueueIsServed` | `Spec => ImplementsNotifications` |
| `TextFits` | `[]TextFitsItsReminder` |
| `StaleTextsAreOld` | `[]StaleTextIsOfAnEarlierBuild` |
| `ClosedGetNoMessage` | nothing is written about a closed deadline |
| `ListenersHearOfTriggers` | `[]EventsMatchTriggers` |
| `WhatGoesOut` | what a server took is about a triggered row, tells the date that row was computed from, and went through a route of the deadline's tenant |
| `OneDispatcherSendsOnce` | with one dispatcher each message is taken, by server or console, at most once and once more per crash, and what is marked sent stays so |

Each step of the composition is a step of `Deadlines` or leaves it alone, so the
invariants of `DeadlinesProofs` hold (`DeadlineInv`). `KeyInv`, that deadline,
build and day name one row, is what makes `ReminderStatus` a function of the
rows: with it marking rows is marking names, and every step is a step of
`Notifications`. The invariants of `NotificationsProofs` then hold as well
(`QueueInv`), and what is said of texts follows from both: a delivery has a
triggered row, a row that is triggered was scheduled in the last build for the
present date, and a row keeps its date.

Proved and in no run: `SnoozedUntilWhileSnoozed`; `OnlyOverrideMovesOverridden`,
which `ImplementsBoard` contains; the type invariants of `Delivery` and
`ReminderPipeline`; `ImplementsRuleLibrary`, `RecordsMeanCurrent`, `WhatGoesOut`,
`OneDispatcherSendsOnce`, which combine what the runs check one by one.

Only model-checked: `RuleReachesItsClients`, `DispatchSettlesItsList` and
`TriggeredUnlessARunDies`, since liveness under fairness is beyond the prover.
What they rest on is proved: that a refresh that ends makes its clients current
(`RefreshMakesCurrent`), that a list of one dispatcher holds pending rows
(`ListOfOneIsFresh`), that a reminder is not overlooked while the clock goes on
(`InTime`). The four findings are counterexamples of TLC.

## 5. Plan

Written, in this order: `StateMachine`, `Deadlines`, `DeadlinesProofs`,
`RuleLibrary`, `Notifications`, `ReminderPipeline`, `NotificationsProofs`,
`DeadlineBoard`, `Delivery`, `RuleIngestion`, and the proofs about them.

What would come next: `Delivery` and `ReminderPipeline` composed, with the clock,
and `InTime` for a reminder that is rebuilt on its way; the deadline rows of
`RuleLibrary` as an abstraction of those of `Deadlines`; the isolation level of
PostgreSQL, under which the blocks of section 1 are no longer single steps.

## 6. Not modelled

* Fetching and decoding (HTTP, PDF, HTML, RSS), Celery wiring, the conversation
  parser, printing: no state, or pure I/O.
* Client profiles, contacts and jurisdictions: each operation writes the rows of
  a client anew in one transaction, and nothing decides by them.
* Events other than `REMINDER_TRIGGERED`. `DEADLINE_UPDATED` is published inside
  a transaction too, when a rule inserts or moves a deadline
  (`engine.py:1391-1395`, `1432-1436`), and may tell of a change that is rolled
  back, as when a later client's date raises in the refresh of a tenant. The
  others are published after their commit, and lost when the process dies in
  between. Nothing listens outside the tests.
* Listing, export, today, preview and history: queries.
* `layers/audit.py`, `mapping.py`, `reminders.py`, `rules.py`, `core/ports.py`:
  nothing imports them, and they call engine methods that do not exist.
* `rebuild_reminders`: public, without a caller. It reads the deadline before its
  transaction; beside a concurrent completion it would leave a completed
  deadline with scheduled reminders.
* `InMemoryJobQueue`: tests only.
* Reminder type `critical`: the code never assigns it.
* PostgreSQL storage: another isolation level, see section 1.

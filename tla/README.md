# tg-spam in TLA+

tg-spam is a Telegram bot that keeps spam out of groups. It checks each message with a
chain of checks (stop words, a Bayes classifier, similarity to known spam, duplicates,
Lua plugins, language models), bans spammers, and leaves the rest to its admins: inline
buttons in an admin chat, commands, member reports, and a web UI. This directory holds a
TLA+ model of the parts of it whose correctness depends on order, on failures and on who
does what in between, the TLC runs that check the model, and TLAPS proofs about it.

Contents: [the system](#the-system), [what is hard about it](#what-is-hard-about-it),
[modules](#modules), [runs](#runs), [proofs](#proofs),
[disagreements found](#disagreements-found), [not modelled](#not-modelled),
[plan](#plan).

## The system

| part | source | state it keeps | operations | correct when |
|---|---|---|---|---|
| Telegram listener | `app/events/listener.go` | chat contexts, queue of messages to send | `Do` takes one update at a time: message, edited message, reaction, callback query; dispatches to bot, admin and report handlers; deletes extra messages | every update reaches the handler of its own group, and one handler only |
| User reports | `app/events/reports.go`, `app/storage/reports.go` | table of reports with a "notified" flag and the id of the notification | `DirectUserReport`, automatic ban, the five button callbacks; `Add`, `UpdateAdminMsgID`, `DeleteReporter`, `DeleteByMessage`, 7-day clean-up | a quorum is brought to the admins, once; nobody is punished without one; settled cases leave nothing behind |
| Admin actions | `app/events/admin.go` | none of its own | forwarded spam, `/ban`, `/spam`, `/warn`, ban and unban buttons, aggressive clean-up | what is told to the admins is what was done, in each mode (dry, training, soft ban) |
| Approved users | `lib/tgspam/detector.go`, `app/storage/approved_users.go` | a count per member in each detector, a table of names | `Check` counts good messages, `AddApprovedUser`, `RemoveApprovedUser`, reload at start | memory and table agree where it matters: who is removed is checked again, who is approved stays so |
| Samples | `lib/tgspam/detector.go`, `classifier.go`, `samples_model.go`, `app/bot/spam.go`, `app/storage/samples.go` | table of samples, one model shared by all detectors | `UpdateSpam/Ham`, `RemoveDynamic*Sample`, `ReloadSamples` | the model is what the table says |
| Spam detector | `lib/tgspam/detector.go` | duplicate windows, histories, approved users, references to model and plugins | `Check`, consensus with language models | the verdict follows the configured chain |
| Duplicate and reaction detectors | `duplicate.go`, `reaction.go` | bounded per-member windows with expiry | `check`, `record` | never more than the limits, no stale counts |
| Locator | `app/storage/locator.go` | recent messages and spam results | `AddMessage`, `AddSpam`, look-ups, clean-up | keeps at least the configured time and size |
| Warnings, detected spam, dictionary | `app/storage/*.go` | one table each | add, count, list, flag | |
| Web API | `app/webapi/*.go` | none, works on the root detector and the tables | concurrent HTTP handlers for check, samples, users, dictionary, settings, backup | |
| Lua plugins | `lib/tgspam/plugin` | loaded checks | load, hot reload by a file watcher | a broken file never removes a working check |
| Configuration | `app/config`, `app/webapi/config.go` | one encrypted row for each instance | load, save, update from the web UI | what is saved is loaded again, secrets included |
| Storage engine | `app/storage/engine` | | queries per engine, migrations, backup, SQLite to Postgres | |

How they interact. One goroutine, `TelegramListener.Do`, handles Telegram updates one
after the other and calls the detectors, the stores and the Telegram API synchronously;
its only offspring is the aggressive clean-up. The web server runs beside it and its
handlers run beside each other. `main.go` builds a *root* detector for the web server
and one detector *per chat*; they share the samples model by reference, and share
nothing else in memory: approved users are cached by each detector and meet only in the
table. Tables are separated by group id; samples and dictionary are global.

## What is hard about it

`PROJECT.json` lists every hazard at its line. The kinds that shaped the models:

- *Late button presses.* A press is an update that waits its turn; the case it was made
  for may be settled, re-opened or shrunk by then.
- *Calls that fail half way through a handler.* Nearly every handler makes a dozen
  calls to Telegram and to the database and mostly only logs their errors.
- *Two caches of one table* (approved users), and a lock released between the two
  halves of a removal.
- *A shared model* changed by updates that write first and lock later, and replaced by
  reloads that read first and lock later.
- *Restarts*, which rebuild the memory from less than was in it, and starts that end
  half way.
- *Bounded memories* (duplicate windows, the locator, caches) that must not forget what
  still matters, nor count what no longer does.
- *Settings with several sources* (defaults, table, command line, web form), where each
  pass may undo the choice of another.
- *Files that change while they are read* (Lua scripts, sample files).
- *Modes and thresholds* consulted separately at each place that has an effect.

## Modules

The state and the actions carry the names of the code; `PROJECT.json` maps each
definition to its lines. History variables, which the code does not have, are marked
`history`.

| module | extends or instances | models |
|---|---|---|
| `UserReports` | | `/report`, of one group |
| `ReportCases` | | what `UserReports` promises; instanced by it |
| `ApprovedUsers` | | approval counts of two detectors and their table |
| `Samples` | | samples, classifier counts, reloads |
| `Locator` | | what the bot remembers of a group |
| `AdminActions` | `Locator` | commands, forwards, buttons, warnings, clean-up |
| `Listener` | `AdminActions` | the loop that takes the updates |
| `Duplicates` | | duplicate and reaction windows |
| `Detector` | `Duplicates`, instances `Locator` | `Check` and `RecordReaction` |
| `LuaPlugins` | | the plugin engine and its watcher |
| `ConfigStore` | | settings and credentials |
| `Startup` | | backup, import of files, loading, dictionary |

### UserReports, ReportCases

`UserReports` is the `/report` workflow of one group. Its state is the reports table
(`rows`), the notifications in the admin chat with their present keyboards (`notes`),
presses not yet handled (`clicks`), the members the bot takes for approved
(`approved`), what Telegram lets each member do (`standing`), deleted and learned
messages, the clock, and the history `filed` of all reports ever inserted. Each handler
is one action, since one goroutine runs them: `DirectUserReport` with everything it
calls (rate limit, `Add` with its clean-up, `CheckReportThreshold`, `ExecuteAutoBan`,
`SendReportNotification`, `UpdateReportNotification`), and one action per callback. What
interleaves is the world: `AdminClick` queues a press of a button that is visible *now*,
the callback handles it whenever it likes; `Tick` lets reports age.

Every fallible call that leaves a trace has a name in `Calls`, and an action takes the
set `fails` of those that fail in it. A *setting* (one of `Settings`, chosen once) says
which messages are in play, which calls may fail and until when, so that one state space
has all settings side by side. A call that is retried in the code fails here when the
retries did. A crash in the middle of a handler
leaves what the failure of all its remaining calls leaves, because the handlers keep no
state in memory, so crashes need no action of their own.

`ReportCases` is what the group is promised, in four sets: who reported a message
(current and ever), which messages the admins were asked about, who is punished.
Punishment takes enough current reports, or an admin who was asked; a banned reporter
takes only its own report along. `UserReports!ImplementsCases` states that
`UserReports` implements it under the mapping `Reporters(rows)`, `Accused(filed)`,
`Asked(notes)`, `Punished(standing)`.

### ApprovedUsers

The chat's detector and the root detector of the web UI over the same rows: `memory`
has both maps of counts, `stored` the table, `removing` the removals between unlock and
the deletion of the row. `Check` is the counting at the end of a good message's check
(the verdict is an input), including the good message of a pre-approved member that
gets there because a language model overturned a duplicate verdict; `Write` is the
insertion whose error `Check` ignores. The listener does one thing at a time (`Free`);
web requests overlap, and a count they write under a read lock may be lost. `Restart`
may come at any time, between the halves of a removal too. Counts above
`FirstMessagesCount` are one value, `Full`, for they are only compared with it.

The model has one group whose id is the instance id, the configuration `main.go`
normalises a single group to; with more groups the web UI's rows are the first one's
alone. Paranoid mode (`FirstMessagesCount` 0) is not modelled.

### Samples

`table` is the samples table (a text is there once, in one class and origin), `cls` the
counts of the classifier (documents, words per class, count of each word per class),
`similar` the texts of the similarity check, `jobs` what each running request is in the
middle of: an update that wrote its row and has not learned, a removal that unlearned,
holds the lock and has not deleted, a reload that has opened some of its four readers.
`unlearn` has all its early returns: it takes words in no particular order (a Go map)
and stops where it cannot go on, with the counts as they are then (`GivenUp`). Samples
are sets of words, so that they share some; tokenizing is the constant `Has`. The
history variables say what the property must except: `learned` (how often a sample is
part of the counts), `damaged` (words a removal took from other samples), `overtaken`
(samples written while a reload was reading).

Under SQLite an open reader may make writers fail, under Postgres not; failing reads and
deletions are nondeterministic and cover both. Priors and probabilities are left out,
excluded tokens too (`Startup` has the dictionary).

### Locator, AdminActions, Listener

`Listener` composes three layers of one group and its admin chat. `Locator` has the two
tables, keyed as in the code: one row for each text whoever posts it, one detection for
each member, a clean-up that runs when a table is larger than `MinSize`. `AdminActions`
has each handler of `admin.go` as one action and each effect they share (`BanUser`,
deletion, learning, notes) as an operator that consults the modes the way that call site
does. `Listener` dispatches updates: messages with the detector's verdict as an input,
edits, joins and kicks (which the locator records too), reactions, admin replies,
forwards, button presses. Presses wait in `presses` and are handled at any later time.
`Cleanup` is the goroutine of aggressive clean-up, one step for each deletion, beside
everything else. A *setting* (never changing) is what one start of the bot gets: modes,
the kinds of updates, members and texts in play, the calls that may fail. One
state space thus has all settings side by side.

`removals`, `bans` and `told` are history: what was deleted, who was banned from which
site and under which mode, which notes the admins got an error about.

### Duplicates, Detector

`Duplicates` has the memory of `duplicateDetector` (entries by member, with edits, window,
limit) and `reactionDetector` (a count since the first reaction of a window), both in a
cache of bounded size. The slices and the order of the caches are sets whose members carry
the instant they were put there: no two things come in the same instant, so the instants
are the order, `Newest(S, n)` is what a limit leaves, and `cached` says when the cache
last had each member set. `Detector` is `Check` with its order of checks and early
returns: duplicates first, flood of short messages counted in the locator, the
stateless checks (an input), the consensus of up to two language models with retries and
an answer, refusal or outage each (`applyLLMConsensus`), and the approval count at the
end. Requests of the web UI (`Checked` without storing an id) and restarts interleave.
The history `chat` has the messages with the texts they have now, against which the
window is judged; `reacted` the reactions, each with the window it was counted in; `last`
the last verdict and what led to it. `FloodIsStopped` holds within the time the locator
keeps a row; what it forgot, the flood check cannot count.

### LuaPlugins

Load at the start, the registration of functions with the detector, and the watcher's
goroutine against an environment that changes files at any moment, between the two
readings the engine makes of a script too. The content of a file is one of: works, runs
but defines no check, broken, absent. `HandleEvent`, `Ripen` (debounce) and `Tick` are the
select loop; a pass takes the ripe files in any order, as a Go map gives them.

### ConfigStore

The table with a row for each instance (`rows`), the process and its web UI (`web`): start
with or without `--confdb`, `save-config`, load, save, update, delete and reload from the
settings page, and rows other tools write, complete or not. The instance id picks the row
and, by `web.gid`, every other store of the process: it is the one the settings have when
the stores are made, and does not follow them later. A start restores the id of the command
line to a row without one *before* the defaults are filled in (`Restored`), a reload fills
in the default straight away (`ReloadNormalize`). Settings stand for their kinds (see the
module's head). `Seal` and `Reveal` are encryption under a key; what other modules would
call strings is a password number. `saved`, `sealed`, `synced` are history. The groups of
the settings are left out: they are not in the row but made anew from the group and the
instance id, and after the start only a page shows them.

### Startup

From the copy of the database to the first check: `BackupDB`, `CopyFile`,
`RemoveOldest` for versions started in any order, `InitTable`, then the six files in
their order (`Import` in one transaction, then `Rename`), then `Load`. That is one *pass*
(`makeSpamBot`): `execute` makes it for the detector of the web UI, and once more for each
chat, over the same tables and the same shared model; there is any number of them, and
only the first with `--convert=only`. A crash may come anywhere, files at any time (a
later pass imports what came too late for an earlier one), calls fail. When the bot is up,
requests change the dictionary and reload in three steps (read stop phrases, read ignored
words; install ignored words; install stop phrases). The four sample tables and two
dictionary types are *places* of a text. `InitTable` stands for one transaction for each
table; they run in a fixed order and only their coming after the copy matters here.
`doubtful` is history: phrases whose last change no reload has brought into effect.

### MC modules

`MC...` modules give small sets, symmetry where members, jobs or requests are
interchangeable, and for `Listener`, `Detector` and `ConfigStore` the settings, command
lines, forms and rows examined.

## Runs

| run | instance | shows |
|---|---|---|
| `UserReports_all` | 3 reporters, thresholds 2 and 3, soft ban, in two settings: one message and six kinds of calls failing in any combination; two messages, expiry, and the calls failing whose failure is only logged | the oldest report speaks for all (`FirstReportSpeaksForAll`); nobody is punished without a quorum (`PunishmentIsGrounded`); `ImplementsCases`, by which also the ban of one reporter removes no report of another; a quorum is always in front of the admins (`QuorumIsNotified`) and the automatic ban leaves no full table behind (`AutoBanSettles`), each in the settings that let the calls it needs work; the way round the rate limit takes a quorum (`UnbackedReportsWithinLimit`); `SoftBanSparesAuthors` |
| `ApprovedUsers_all` | 2 members, 2 messages to approval, web UI checks, adds and removes, failing writes and deletions, restarts | `TypeOK`, `ApprovalHasGrounds`, `ApprovalIsSaved` |
| `Samples_all` | 3 texts sharing 2 words, 2 jobs, failing reads and deletions, restarts | `TypeOK`, `StoredIsKnown`, `ReloadIsExact` |
| `Samples_ready` | the same, smaller | violated: `ReadyWithSamples` |
| `Listener_all` | a member, a super, a channel, the group; five combinations of modes; groups of updates that interact, up to 5 instants | whoever is banned or restricted is so by a ban the mode allows (`BansFollowTheModes`), supers and the group itself are spared (`SupersAreSpared`); deletions hit posts of the right member (`DeletionsAreTheirs`); `LocatorRemembers`; notes say what was done, and whoever is banned can be freed (`NotesAreTrue`); `WarnBansAreEarned` |
| `Detector_all` | up to 3 members over a cache of 2, windows of 3 and 4 instants, edits, restarts, requests; every set-up of one or two models | `DuplicatesAreExact`, `ExtrasAreRepeats`, `FloodIsStopped`, `OverruledByConsensus`, `BurstsAreNoticed` |
| `LuaPlugins_all` | 2 scripts, 4 contents, 3 changes | `SettledIsCurrent`; `ChangesAreLoaded` (liveness) |
| `LuaPlugins_reload` | 1 script | violated: `ReloadTakesEffect` (liveness) |
| `ConfigStore_all` | 6 command lines, 2 instances, 2 keys or none, partial and foreign rows, 2 forms | `OpenOnlyOnPurpose`, `CredentialHolds`, `SecretsAreSafe`, `SavedSurvives` |
| `ConfigStore_disabled` | the same | violated: `CasStaysOff` |
| `ConfigStore_moved` | the same, with partial rows only | violated: `InstanceIsKept` |
| `Startup_all` | 2 versions, 1 backup kept, empty or older database, 6 files, any number of passes, 2 requests, 3 inputs in all | `UpgradeCanBeUndone`, `ImportsAreExact`, `PhrasesInEffect` |

Every module's run has its `TypeOK` too. Deadlock is checked in `ApprovedUsers`,
`Samples`, `ConfigStore` and `Startup`; in the others the clock, the updates or the
changes are bounded and the model stops when they are used up, as the system is idle
when nobody does anything.

Why the bounds are enough.

- *Reports*: the code compares a number of reports with two thresholds and looks at the
  oldest; thresholds 2 and 3 with three reporters give every order of "below, at, above"
  and let each reporter be the oldest, the removed one and the last one. `MaxNotes` 2
  allows the second notification that a lost `UpdateAdminMsgID` or removed reporters
  cause; the clock (`until` 3 and 4; each report takes one tick) lets reports outlive the
  retention and the period of the rate limit; a limit of 1 makes one settled case a way
  round it. One admin has one press in flight; presses of a second admin only add
  reorderings of presses that are already arbitrarily late.
- *Approved users*: members do not interact, so two are one more than needed;
  `FirstMessagesCount` 2 separates none, some, enough and more.
- *Samples*: three texts with shared words make a text whose words are all known without
  it, and one whose words are partly known; two jobs overlap in every pair of operations.
  `MaxCopies` bounds how often a text is learned by updates, `MaxDamaged` how many words
  removals take away from others between two reloads (the harm of one removal is enough
  to see every consequence of it); `Asked` names the two texts requests are about.
- *Listener*: every message is an instant and the history of the locator is one instant
  long over two rows, so rows expire, survive by the minimum and change hands within five
  instants. A warning threshold of 2 within 2 instants separates earned from stale. The
  settings group updates that touch the same state; two members' notes do not share
  any. `MaxFailures` 1 ends the clean-up after one failure instead of five.
- *Detector*: cache, entries and ids are limited to 2, 3 and 2, so each limit is met and
  exceeded; the windows, and the 2 instants for which the locator keeps a row beyond its
  minimum, are shorter than the clock. Two models give every disagreement.
- *Lua plugins*: three changes are what it takes to change a file between its two
  readings and again before its event, beside another file.
- *ConfigStore*: a command line for each source of the password that the code tells apart
  (none, given, a hash, the automatic one with and without the table), over two
  instances and two keys; the state space is complete for them (the passwords generated
  are bounded by two). The run of `InstanceIsKept` has no row with an id of its own, which
  would be a choice of the tool that wrote it.
- *Startup*: three inputs (files put there, samples or dictionary changes) are a change
  that another request overtakes with one more, or two files with a common text and a
  replacement of one. Two versions give an upgrade, a rollback and a second upgrade.

*Liveness* is claimed where a goroutine of the code has something to finish by itself,
the Lua watcher: `ChangesAreLoaded`. Its fairness: strong for `HandleEvent` and `Tick`,
because `select` picks among its ready cases at random, so that neither case starves the
other; weak for the steps of the goroutine itself (`LoadScript`, `Process`), and for
`Ripen`, which is time passing; none for changes of files. Elsewhere the handlers take
each update once and never retry, and every obligation they have depends on somebody
posting, reporting or pressing again, so the code's fairness alone makes nothing happen.
What "eventually" there is (a lost notification is sent again by the next report) is
stated as safety: `QuorumIsNotified`, `AutoBanSettles`.

Every property has a mutant in `PROJECT.json`, a definition with a plausible slip
(off by one, a missing reset, a forgotten WHERE), under which the run fails.

## Proofs

TLAPS checks them for every value of the constants that satisfies the modules'
assumptions: any number of members, messages, admins, samples, files and requests, any
thresholds and windows, any failing calls, any bound on the clock. Every invariant and
every action property of a passing run is a theorem; `PROJECT.json` lists them. A run
shows what a formula means on an instance small enough to look at, with its mutants; the
theorem says it of all.

Each module of proofs has an inductive invariant `IInv` in named parts, lemmas for the
operators several actions share, one lemma for each action, and a theorem for each
property. What makes `IInv` stronger than the properties:

- `UserReportsProofs`. `PunishmentIsGrounded` is not inductive: a press is handled long
  after the keyboard was made, when the reports that justified it may be gone. `IInv`
  carries the justification through the history: the table holds only filed reports, one
  per message and reporter (`TableOK`); notifications are about messages that had a
  quorum, and each of their buttons names the author or someone who reported (`ChatOK`);
  so do presses in flight (`ClicksOK`). `FirstReportSpeaksForAll` needs that every
  report is younger than those before it (`TableOK` has them older than the clock) and
  that `UpdateAdminMsgID` marks all rows at once (`FlagsOK`). `SoftBanSparesAuthors` and
  `UnbackedReportsWithinLimit` have invariants of their own over `IInv` (`SoftOK`;
  `KnownOK` and `LimitOK`). The limit is not its guard alone: what the guard counts is
  rows, what the property counts is all reports ever made, and between them stands that
  only the reports of settled cases go early, that a case is settled after a quorum, and
  that the others outlive the period. Two properties speak of the settings that
  let no call fail which they depend on: `AutoBanSettles` needs the reports read and deleted and the
  admins told by a new or edited message; `QuorumIsNotified` needs reads, deletions and
  sending, while edits and `UpdateAdminMsgID` may fail, for the next report sends a second
  notification (`CasesOpen`: a case that is flagged has live buttons). What a failing send
  leaves behind is `PunishmentIsGrounded` and `FirstReportSpeaksForAll`, which have every
  call failing. `Implements`, that `Spec` implements `ReportCases`, assumes that the second
  read of a confirmed reporter ban works: with `"reread"` failing in some setting the
  implementation is broken in a few steps (see below).
- `ApprovedUsersProofs`. Both properties speak of the chat's memory; a restart fills the
  memory from the table, so the rows need grounds too (`Grounded`), and the second half
  of a removal empties the table, so a member in mid-removal must be out of the memory
  (`Leaving`).
- `SamplesProofs`. `StoredIsKnown` compares counts of words with samples at rest; in
  between, an update has written a row and learned nothing, a removal has unlearned and
  deleted nothing, a reload has part of the table. `RowsKnown` says of each row which of
  these it may be waiting for, `ReadsOK` what a reload has read and what changed since,
  and `WordsCounted` that the count of a word is at least the number of learned copies
  of its samples (`Copies`, pairs of a sample and a number), except words that a failed
  removal took. No count falls below zero because `unlearn` stops before it would.
- `ListenerProofs`. What a handler deletes, bans and reports depends on rows written
  long before: `RowsOK` and `SpamOK` have every row about a post that exists, by its
  author, `NotesOK` that a note is about a member the bot may ban, `PressesOK` that a
  press is of a note that is there, `CleanupsOK` that what a clean-up beside everything
  else has left is by its member, `BansOK` that who is not free was banned by a site
  that might. `LocatorRemembers` is about rows the locator should have; `RowsRemember`
  and `SpamRemembers` say it for every post and every note still within the history, so
  that the clean-up at each new row is seen to take older ones only.
- `DetectorProofs`. `HistoryOK` and `CacheOK` bound the memory and have each entry about
  a message that still has that text; `Remembered` has the converse, that an entry
  missing although in the window was pushed out by as many newer ones of the member, or
  the member by as many others set later, which is counted by mapping what is newer in
  the memory into the messages of the chat. `RowsRemember` does the same for the flood
  check and the locator. For `BurstsAreNoticed`, `WindowsFollow` has each reaction in
  one counted window, and one window begin after the one before it is over: a burst is
  at most two windows, one of which has as many reactions as the limit when the burst
  has nearly twice as many.
- `LuaPluginsProofs`. `SettledIsCurrent` says nothing of a script while it is looked at,
  and that is when a change can be lost. `IInv` adds what holds in between: a script in
  the pass still has its event (`TodoIsRipe`), the one being loaded has no function
  (`CurrentIsOut`), and one that passed its first reading is still fit, or gone, or has
  a notice waiting (`FitOrNoticed`).
- `ConfigStoreProofs`, two invariants. Whether the password of a process holds depends
  on what it reads back from the table, and whether the table is encrypted on what the
  process works with, so `IInv` is those properties together with `PasswordKept` (the
  process's password is in its settings), `WorksInPlain` and the shapes of row and
  process and of the table with its row for each instance (`Table`). `SavedInv` follows
  what was saved: each row, encrypted or not, says the same as the settings last
  acknowledged for its instance (`RowsAreSaved`).
- `StartupProofs`. `BackupsOK` has the copies made of the tables as they were, and one
  not older than the version that starts when pruning begins, from which pruning by
  version is seen to spare the copy an upgrade would be undone from. `PhrasesInEffect`
  needs to know what each reload in flight has read and who changed what since
  (`ReloadOK`). `ImportsAreExact` is about one step: the outcome of the rest of a pass
  (`Outcome`, the six files in their order) is the same after each of its steps, whether
  it succeeds, fails or is repeated by a later pass or after a crash.

The assumptions, named and stated in the modules, say what kind of value each constant
is, and these things about the code:

- `UserReportsAssumption`: `Threshold` is at least 1 and the automatic ban, if on, not
  below it (`main.go` refuses other settings of the latter; it does not check the
  former, whose default is 2). There are finitely many members, as in
  `DuplicatesAssumption`.
- `ApprovedUsersAssumption`: `FirstMessagesCount` is at least 1.
- `SamplesAssumption`: there are presets of both classes, as the bot refuses to start
  without.
- `DuplicatesAssumption`: the limits of caches, entries and ids are positive (constants
  of the code); `DetectorAssumption`: a model is asked at least once.
- `StartupAssumption`: a text is a sample or a phrase of the dictionary and each has its
  own table; each file has lines of its table's kind.

Only model-checked: `ChangesAreLoaded`, for liveness and `ENABLED` are out of the
prover's reach. Induction over recursive definitions is out of reach too; the modules
have none.

## Disagreements found

Shown by runs, with the lines quoted in `PROJECT.json`:

- *A failed removal unlearns* (`Samples_ready`): `unlearn` changes the counts before it
  gives up.
- *A reloaded plugin is not called* (`LuaPlugins_reload`): the detector keeps closures
  over the functions loaded at the start; the watcher replaces only the engine's.
- *CAS disabled comes back* (`ConfigStore_disabled`): the empty address that disables it
  counts as a missing setting at the next start or reload.
- *A reload moves the process to another instance* (`ConfigStore_moved`): of a row without
  an instance id, as other tools write it, a start restores the id of the command line
  before it fills in the defaults, a reload fills in `tg-spam`. The next save stores that,
  and from the next start on the samples, the approved users and the row of the settings
  page are those of another instance (a warning is logged).

Met while modelling; the models have the behaviour, no run is spent on it.

Reports and approvals:

- Only reports present when a notification is sent are flagged. Ban the flagged
  reporters, and the next report sends a second notification beside the live first one.
- Cancel restores the buttons of a case without looking whether it is still there.
- A failed second read in the confirmation of a reporter ban is taken for "no reporters
  remain" and deletes everybody's reports (`reports.go:926`).
- The limit on reports counts rows that settling a case deletes, so a member may report
  again at once, where `README.md:398` promises "up to this many reports per period".
  `UnbackedReportsWithinLimit` is what is left: more than the limit takes a quorum on each
  case beyond it.
- `Check` stops counting at `>= FirstMessagesCount`, `IsApprovedUser` asks for `>`.
- The approval table keeps no counts: one good message and a restart approve.
- A removal in the web UI reaches the root detector and the table, not the chat's
  detector.

Modes:

- Soft-ban mode restricts, but forwards to the admin chat, replies with commands, and the
  ban of a reporter ban for real, where `README.md:724` says of the mode that the user is
  restricted, not banned. `README.md:749` and `admin.go:157` say of forwards that they ban
  even in training mode, and training mode is what stops the ban (`events.go:177`).
  `BansFollowTheModes` therefore says nothing of what an admin's word is worth in a mode;
  it is about the sites without an admin.
- In training mode a confirmed ban bans a super whose name the locator lacks
  (`admin.go:1137`), "unban" after a confirmed ban does not unban (`admin.go:951`), and
  handlers still delete messages; in dry mode `/warn` and the confirmed ban delete, and
  the unban button acts.
- A forward bans whoever posted the text last, which need not be who wrote the forwarded
  message.
- The note of a confirmed ban is closed first; if learning the text fails after that, the
  ban is skipped (the admins get an error).
- "Keep banned" pressed late, after an unban, learns the text as spam again.

Detector:

- `LastRequests.Last(n)` returns the oldest n, where `README.md:111` promises the last.
- The flood counter counts rows of the locator, so joins and edits count, and an edit
  back to the same text counts as one more approved message.
- "If a provider does not respond in time" the README keeps the base decision; under the
  consensus `any` the other provider alone decides.
- A removed spam sample stays in the list of the similarity check until the next reload,
  which the removal does not make although `spam.go:321` says so.

Plugins:

- The event of a removed script is never forgotten and its function stays; files renamed
  away are not tracked; changes between loading and the start of the watcher are missed.
- A script that defines no `check` at its second reading may be given the one another
  script left in the shared state. Checks running side by side share that state's stack.
- `normalizeLuaEnabledPlugins` reads a selection that leaves out only a plugin that is
  missing for the moment as "all", and saves it so.

Settings:

- A secret whose plain text starts with `ENC:` is stored as it is; a start without the key
  loads the encrypted values as if they were plain, and nobody can log in.
- A persisted instance id moves the process to another group id (a warning is logged);
  `--dry` is persisted by the next save. A reload makes the groups anew from the first
  one, for they are not in the row; only the page that lists them shows it.
- Without `--confdb`, `--server.auth=` does not disable the password: an automatic one is
  generated, where `README.md:755` says empty disables it.
- The settings page stores thresholds that the next start refuses (`webapi/config.go:153`).

Start:

- A copy of the database that failed, or was interrupted, leaves a partial file that the
  next start takes for the backup: it upgrades without one, where `README.md:487` promises
  a backup "before any version-related changes".
- Starting an older version again copies the database under that version's name, and the
  clean-up by build time removes this copy first when there are enough newer ones.
- A file that comes while a start goes over the files may be imported by the pass of a later
  chat, or, in a place that is just being imported, be set aside unread.
- An empty preset file is imported (the presets go), renamed, and every later start fails
  for want of presets. A line over 64 KB makes every start fail until the file is fixed.
- Adding a phrase that is there under the other type is acknowledged and changes nothing
  (`INSERT OR IGNORE`, `dictionary.go:60`).
- A reload that read before a change of the dictionary and ends after the other's undoes the
  acknowledged change in memory (`webapi.go:711` "apply dictionary changes immediately").
- A sample that equals a preset takes over its row: the preset is gone.

## Not modelled

Formatting, wording, logging and HTML; the arithmetic of the classifier and the meta
checks (pure functions of one message); the history handed to language models and their
prompts; the HTTP calls to language models, Telegram and CAS (their answers are inputs);
SQL text, the columns of migrations and the conversion to Postgres; log-in forms and TLS
of the web server; the log of detected spam, on which nothing decides; the updater,
assets and vendored code. Several groups in one bot are modelled nowhere: tables are
separated by group id, `Listener` routes by chat, and each module takes one. Direct
messages to the bot (`dm_users.go`) are a list for a page. `PROJECT.json` gives each
part's status.

## Plan

What is left, in the order of its worth.

1. Several groups: the routing of callbacks by group id (`events.go:430`,
   `listener.go:258`), composing two `UserReports` and one `Listener`.
2. An abstract specification of moderation, who may lose what on whose word, that
   `Listener` implements, as `UserReports` implements `ReportCases`; `NotesAreTrue` and
   `BansFollowTheModes` would follow from it.
3. More of the web API (deleting and updating samples, detected spam added to the
   samples) and of the storage engine (the conversion to Postgres).

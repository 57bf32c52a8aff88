# Blood Bowl Tracker: models, checks and proofs

The Blood Bowl Tracker stores the history of Blood Bowl leagues in a Postgres
database, imports it from several sources (the TourPlay site "TP", a mirror of an
older league site "BBL", curated files), and shows it through a Discord bot.
This directory models the parts of it that are hard to test: those in which
several machines, transactions, requests or timers meet. Each is a TLA+ module,
model-checked with TLC on a small instance; the safety properties of all of them are
also proved with TLAPS for every value of the constants.

All paths below are relative to the repository. `PROJECT.json` maps every
definition to the lines it stands for.

## 1. The system

| Part | State it keeps | Operations | Talks to | Hard because |
|---|---|---|---|---|
| Leader election (`apps/discord-bot/src/leader-election`, `db/advisory-lock`, `discord-client` connect) | a session-scoped advisory lock, its re-entrant hold count, the lock client's one connection, a gateway session | run, tryAcquire, isStillHeld, release, connect, becomeActive, monitorLock | Postgres, Discord, Fly.io | machines fail independently, and a lock is lost without its holder noticing |
| Upsert by external ids (`game-data/src/shared`) | one entity row per real-world thing, the external ids that name it | resolve, check, insert or update, insert missing ids, retry | Postgres | transactions race; the unique constraint is the only arbiter |
| TP gate and fetcher (`scrape-tp`) | a promise chain, the block and its escalation, the pacing | run, take, waitForPacing, block | TP | one queue for the whole process, and a 403 that must silence all of it |
| TP feed (`apps/discord-bot/src/tp-feed`) | a queue of jobs in memory, merge targets, retries, what was given up on | handleMessage, enqueue, run, attempt, dispatchThroughBlocks | Discord, the dispatcher, the gate | delays, merging, retries, back-offs and restarts of the process |
| `/importtp`, TP dispatch (`slash-commands/admin`, `tp-import`) | none | execute, dispatch | live imports | runs beside the feed, through the same gate |
| Live TP imports (`import-tp-live`) | the stored competition, matches, events and SPP totals | importCompetition, importMatch, importTeam, ... | TP, game-data | multi-step writes with no transaction around them; some steps run only for a new competition |
| Discord client (`discord-client`) | handlers and listeners | handleInteraction, handleMessage, connect | Discord | each reply can fail; listeners must hear exactly once |
| Database (`db`) | tables, history triggers, the migration lock | createDb, migrations | Postgres | several apps migrate one database at startup |
| Game data (`game-data`) | entities, events, SPP, trophies, history | services, one per entity | Postgres | checks outside the transaction that writes |
| Player advancements (`game-data/src/player-skills`, `spp`, `trophy-awards`; the syncs of `import-bbl`, `import-tp-live`, `import-tp`) | a row per skill or characteristic increase with its number, the award's granted skill, the unspent SPP | sync, plan, mark and unmark, refresh, settle | Postgres, BBL, TP | three writers number one list by rules of their own, in steps that can fail one by one |
| Usage tracking (`discord-bot-usage`) | usage rows | select-then-upsert | Postgres | insert races |
| Review lock (`tools/dev-workflow-cli`) | a JSON file, a mutex file | acquire, heartbeat, release | other processes, the file system | processes die, and files are their only means of agreement |
| Wait for a review (`tools/dev-workflow-cli/src/wait-for-pr-review`) | what it discarded, whether it triggered, the deadline | poll, checkedReview, pollRollingComment, triggerReview, run | GitHub through `gh` | polls of several bounded calls while the pull request changes under them |
| Manual import (`tools/import-manual`) | a ledger of batches | apply, markApplied | Postgres | a crash between an import and its record |
| Backups (`tools/backup-cli`) | objects in a store, production | create, verify, prune, restore, alert | S3, pg_dump, GitHub | partial failures |
| Importers (`import-bbl`, `import-tp`, `import`) | a batch buffer | add, flush | the RPC API | chunk failures |
| Parsers, contracts, enums, review tools, lint rules | none | pure functions | | |

Most parts meet in the database, through the upsert. The bot's parts meet in one
process: the feed and `/importtp` share the gate (hence its blocks), and write to
the same competitions. Leader election decides which machine runs any of this.

What makes each part correct:

* **Leader election.** No machine keeps a Discord session while it knows, or could
  know without an error, that it has no lock; two sessions exist at once only after
  a lost connection; the lock is given back exactly as often as it was taken; when
  failures stop one machine leads.
* **Upsert.** A call that succeeds owns all ids of its payload; a call that fails
  leaves nothing; nothing exists without a name; ids never change owners; retries end.
* **Gate.** TP is left alone until the time every blocked caller was given; no
  request is forgotten.
* **Feed.** A notification waits only for an import that reads TP after it; a
  competition that was created without its backfill is visible as a failure; failures
  are told once; every notification is answered.
* **Review lock.** Who was told it holds the lock is the holder; sessions get it in
  the order they queued; what a dead process left, a mutex, a ticket or the lock, is
  cleared away.
* **Live imports.** An end date means that TP published the awards; whoever creates a
  competition backfills it, or says that it did not; whatever is imported more than
  once is settled last; extra trophies are computed from a whole bracket only; a
  stored span narrows for a reason.
* **Player advancements.** A number that is confirmed is right, whichever of the three
  writers wrote it; the stored unspent SPP is that of the stored advancements.
* **Wait for a review.** What is reported was found by the deadline and is a review;
  reviews without content hide nothing; the trigger is posted once, and what was seen
  before it is not its answer; the wait ends.

## 2. The modules

| Module | Models | Composed with |
|---|---|---|
| `LeaderLease` | the promise of the election: elect, lose, open, close, step down, exit | the abstract specification of `LeaderElection` |
| `LeaderElection` | the election, the lock service, `connect()`, the process | `INSTANCE LeaderLease` |
| `LeaderElectionProofs` | its theorems | |
| `UpsertByExternalIds` | the upsert and what Postgres does with its statements | |
| `UpsertByExternalIdsProofs` | its theorems | |
| `TpGate` | the gate and a fetcher session's request | |
| `TpFeed` | the feed, its listener, the dispatcher, `/importtp`, and of the live imports what decides about a competition's backfill | `EXTENDS TpGate`: the feed's imports and the commands are visits of the gate |
| `TpFeedProofs` | the theorems of both | |
| `ReviewLock` | the state file, its mutation mutex and its policy, as processes that share files | |
| `ReviewLockProofs` | its theorems | |
| `LiveImport` | `importCompetition` and `importMatch` with their stages, several imports of one competition, TP changing meanwhile | |
| `LiveImportProofs` | its theorems | |
| `WaitForPrReview` | the poll loop, its calls and their budgets, the pull request | |
| `WaitForPrReviewProofs` | its theorems | |
| `PlayerAdvancements` | the rows of one player, the sync planner, TP's order of advancements, curated awards, the unspent SPP | |
| `PlayerAdvancementsProofs` | its theorems | |
| `Counting` | lemmas about finite sets, places in an order and induction, none about this system | used by three of the proof modules |
| `MC*` | values of the constants for TLC | `MCSeparateParts` puts `WaitForPrReview` and `PlayerAdvancements`, which have nothing to do with each other, into one run |

A definition called a *mutant* in its comment is not part of a model: it is a
wrong variant of the definition after it, with which the property it is listed for
in `PROJECT.json` fails.

### LeaderElection

One action per step of `LeaderElectionService.run()` between two awaits. `pc[m]`
says where `run`, `becomeActive` or `monitorLock` of machine `m` stands, `conn[m]`
is the one connection of its lock client (`max: 1`), `gateway[m]` its Discord
session, `owner` the database session that has the lock and `holds` how often.
Retry sleeps and the health-check interval are not counted: `Reserve` and
`LostLock` may happen at any time after the last step. The one thing the retry
sleep of 15 s excludes is stated as a guard of `Reserve` (an abandoned
`client.destroy()` has finished by the next attempt). The query and its reply are
two steps, so that a session can die in between. `cut` and `Orphan` are the two
ways a connection ends for one side first: the server may end the session while
the client believes in it, and the client may be gone while Postgres still keeps
its lock. `Failure(m)` collects what can go wrong; `MaxFaults` bounds it.

### UpsertByExternalIds

One action per SQL statement of `runUpsertAttempt`, except that the one INSERT of
the missing ids is modelled pair by pair, in payload order, since the order in
which unique-index entries are taken decides who waits for whom. `row` and `owner`
are what is committed; `pending[c]` are the index entries of an open transaction,
and an INSERT of the same pair waits until that transaction ends (`InsertId` and
`LoseRace` are disabled meanwhile). `LocksRow` is the row lock of an UPDATE.
`DeadlockVictim` is Postgres's deadlock detector. Isolation is READ COMMITTED, the
default: each statement sees what is committed when it runs. `Fails` stands for
every other error in any statement, the caller's hook, or COMMIT.

The column that `detectSemanticConflict` protects is an attribute of each payload
("kind"); the other columns matter only through where the payload has them (values,
create-only values, nowhere), because that decides between UPDATE, plain SELECT and
the missing-column error. Rows are named by call and attempt, standing for the
serial column.

### TpGate

`line` is the promise chain, its head the request whose turn it is. `Refuse`,
`Admit`, `Send` and `Settle` are the stages of `take()`; between `Admit` and `Send`
lies the pacing wait, between `Send` and `Settle` the request. Times are kept as
the time left (`cool` for `blockedUntil`, `gap` for the pacing, `retryIn[v]` for
the `retryAt` of the error visit `v` was given) and counted down together by
`Tick`, so that the state space stays finite without a clock bound. The random
jitter of the pacing is left out: it only lengthens the gap.

### TpFeed

One job at a time (`jobs`, `stage`), each named after the notification that queued
it; `host[n]` is the job whose outcome notification `n` waits for. An import is
modelled by what a block can tell apart: one request for all those before its
competition is written, one for those of the backfill. A live import returns its
errors and throws only `TpBlockedError` (`JobReturns`, `JobIsBlocked`). `comp` is
what the database has of a competition: absent, "bare" (created, without its
backfill) or full. `Restart` forgets what is kept in memory; the messages and the
database stay. The posting of an announcement is a step of its own (`announcing`),
since the gate goes on meanwhile. The message edits and the wording of reports are
left out, with two exceptions: whether a success could be marked, and whether a
failure was posted. Both can fail, since `postToDebugChannel` drops a line it cannot
post, and without a debug channel no failure is posted at all (`Handled`).

### ReviewLock

Every command is a process, so there is one action per file operation: `TryCreate`
(`open` with `wx`), `Stat` (the age of the mutex decides), `Clear` (unlink by force),
`Read`, `Write` (write and rename, atomic for a reader) and `Unlock`. Between `Stat`
and `Clear` other processes run, and `Clear` removes whichever mutex file is there.
`file` is the state file; `copy[s]` what a session read of it. `tryAcquire`,
`liveQueue` and `releaseFrom` are the operators `Acquired`, `LiveQueue` and
`Released`; the change is computed from `copy[s]`, so an update in between would be
lost. Time is not counted. A mutex grows `old` (10 s) when its creator is dead, or by
a stall of its creator, which is a fault; a call has `waited` (5 s) for such a
mutex, or by starving, a fault too; a stamp goes stale (100 minutes, `silent`) at any
time its session does not renew it. `held` are the sessions whose last command told
them they hold the lock; a session that starts a command does not rely on it until
that ends. A session can die at any point and come back. `intruded` records that a
mutex was cleared under a process that was alive. Sessions have distinct ids (their
branches); a state file that does not parse (read as empty) cannot arise by the
commands themselves, since `rename` is atomic, and is left out. The release that
`main.ts` makes when the application fails to close after an acquire is the action
`Release`.

### LiveImport

One action per stage of `importCompetition` and of `importMatch`: `pc[v]` is the stage
import `v` is in, and `ask`, `bracket`, `awards`, `seen`, `created`, `backfilling`,
`todo`, `skewed`, `trouble`, `facts` and `excluded` are the local variables of the code
that outlive a stage. The two entry points share their stages, as the code shares its
services; the order of the stages differs and is in the `Go` of each action. `Read`
and `Write` are two steps, since `upsertCompetition` decides from what it looked up;
`BackfillMatch` is a step per match, with the failures of the row, the participation
and the events told apart by what they leave (`Stored`, `StoredInPart`) and whether
they name players to exclude. An error that the code collects is `trouble`; one that it
throws, a block (`Block`) and the end of the process (`Lose`) end the import and leave
what was written. Everything that can go wrong draws on the one budget `Faults`.
`Play` and `Publish` are TP: results in any order, and the awards after all of them.

A team stands for its players. Left out: the pacing and the retries around an import
(`TpGate`, `TpFeed`), links and awards, the names, eras and types of a competition.
`extras` and `ended` are histories.

### WaitForPrReview

One action per call of `gh` and per decision of `run()`. `left` is what is left of the
budget of the call under way, or of the sleep; time passes in both (`WaitPasses`), and
a timer may fire up to `Drift` late. A poll is the reviews call, the look-up of inline
comments for a review without text, and the rolling comment; each may fail, which the
code treats as an empty answer. `PrChanges` is the pull request: commits, reviews with
a text, with inline comments or with neither, passes without findings, and what
CodeRabbit posts. A comment is what it says; the patterns that recognise it are left
out. `since`, `asked` and `hidden` are histories; the clock stops at `Horizon`, which
lies beyond the latest end `EndsInTime` allows.

### PlayerAdvancements

`rows` are the stored rows of one player by id, `gained` what he has really taken. The
planner (`Closed`, `SkillRow`, `IncreaseRow`, `PlannedRows`) and TP's order
(`LiveEntries`) are operators, of which `RowPlace` and `Fits` say which entry goes to
which row. TP's entries are described by the sets they come from: the listed skills that
are not stored yet (`NewSkills`), the increases counted above those stored (`Added`),
the stored increases, sent again (`Again`), each set of increases in the order of the
stat line (`InLine`). `pending` maps each entry whose order is to be deduced to the
moment it was gained. The importer and the curator are two processes whose steps are
their transactions and the reads before them (`stage`, `curation.step`), and each of
which can fail at every step. A sync writes only the columns its plan changes
(`Written`), to the rows as they are by then. The deduction of an order from the SPP
spent is abstracted to its three outcomes: none, the real order, or the order of the
entries when the spend does not tell the orders apart. The prices are abstracted too:
the unspent SPP of an era with fixed thresholds is the number of paid advancements it
was worked out from. Since an import reads one page or roster as it was, the player
gains nothing during it.

## 3. The runs

| Run | Instance | States | Shows |
|---|---|---|---|
| `leader_election` | 3 machines, 4 failures | 161 861 | type and safety invariants, the action property, stability of one leader, refinement of `LeaderLease` |
| `leader_overlap` | the same | stops at the violation | a finding, see section 6 |
| `upsert` | 3 calls, 2 ids, 6 payloads, 3 attempts | 187 377 | invariants, stability of identities, termination |
| `upsert_deadlock` | the same | stops at the violation | a finding |
| `tp_feed` | a match, two trophy announcements, one `/importtp`, one competition, 1 restart | 4 681 821 | the feed's invariants, and the silence its gate keeps |
| `tp_feed_liveness` | a match, a roster, a wrong link, one `/importtp`, no restart | 335 426 | every request leaves the gate, every notification is answered |
| `tp_feed_rerun` | as `tp_feed`, no restart | stops at the violation | a finding |
| `review_lock` | 2 sessions, 1 fault of any kind | 86 520 | true answers, an ordered queue, no endless wait |
| `review_lock_winners` | the same, the fault is a death | stops at the violation | a finding |
| `live_import` | 2 imports of 2 matches of 2 teams, 2 faults | 7 729 966 | end date, backfill, settling, extra trophies and span, whatever overlaps or fails |
| `live_import_spp` | the same | stops at the violation | a finding |
| `separate_parts` | a wait with 4 changes; a player with 3 advancements, 3 imports, 2 awards | 3 340 349 | the wait's promises; numbers and unspent SPP |

### Why the bounds are enough

* **Three machines, four failures.** Production runs two; the third lets a stale
  leader, its successor and a standby exist at once. Four failures allow both
  kinds of connection loss, a failed connect and a failed unlock in one behaviour;
  the hold count reaches 2 through an unlock that failed, which is the interesting
  case of `HoldsAccountedFor`. The proofs remove both bounds for the safety part.
* **Three calls, two ids, three attempts.** `MAX_UPSERT_ATTEMPTS` is 3 in the code.
  Two calls suffice for a race and for a deadlock of two; the third can win a
  second race against a retry and can bridge the rows of the other two. Payloads
  contain a repeated id, both orders of two ids, both kinds, a payload with nothing
  to update and one that cannot create. With them each outcome (success,
  conflict, missing column, exhausted, deadlock, error) occurs.
* **The feed's instance.** Two announcements merge, or do not if the first has
  started; a match job before them can give up and make them fail fast; the command
  can create the competition between two attempts, or be blocked and prolong the
  back-off. `BlockRetries = 1` makes the last retry the first, and the first attempt
  is never the last. The gate has two back-offs, so that staying at the last one is a
  case of its own; nothing depends on their number (proved). One restart can fall
  anywhere. The liveness instance exchanges
  the announcements for a roster and a wrong link, to run the jobs without a
  competition, and needs no restart since a restart only answers (loses) everything.
  Its one back-off is the last one from the start, the case in which TP blocks for ever.
* **Two sessions, one fault.** A session that died comes back under its name, so two
  are enough for a mutex left behind and two that clear it, for a stale holder and
  the one that replaces it, and for a ticket that keeps its place through a timeout.
  With three sessions the safety properties were checked too (16.7 million states
  with one fault, under symmetry), which takes too long to keep as a run; the
  exclusion and the truth of answers are proved for any number.
* **Two imports, two faults.** The second import is a retry, a rerun, the same import
  started from another link, or one that overlaps the first in any way. Each is of the
  competition, or of its later match, forced or not (the
  competition's with its era given when forced). Two matches have two dates and can
  fail one by one; in each the two teams change sides, so that an away team that fails
  is a home team elsewhere. Two faults allow a failure that is collected before one
  that ends the import. The imports are interchangeable, hence the symmetry. The proofs
  remove all these bounds.
* **The wait.** A deadline of 3 intervals lets two polls fit before it and a third begin at
  it; four changes of the pull request are enough for two hollow reviews before one
  with a text, or for a trigger, a rate limit and a pass. The proofs remove the bounds.
* **The player.** One skill that is gained as any other, one that is always free (TP
  only), one that he starts with, and one characteristic that can be gained repeatedly.
  Three imports are a first, one that adds and one that corrects; two awards are one
  that grants and one that replaces it. `CONSTRAINT MCWhole` drops states of a TP
  player in which `whole` is FALSE: it never becomes TRUE again, and neither property of
  such a player says anything there (`UnspentIsExact` does, and is proved without the
  constraint).
* **`CHECK_DEADLOCK FALSE`** in the configurations of the upsert, the feed, the live
  imports and the separate parts: their behaviours end when every call has returned,
  every notification has been handled, and every bound is used up.

### Fairness

* `LeaderElection`: weak fairness of each machine's progress (its loop is awaited
  steps and timers; Fly restarts a machine that exited; Discord answers or the
  ready timeout, a failure, fires) and of `OrphanEnds` (Postgres ends sessions
  whose client is gone, by TCP keepalive). No fairness on failures; "when failures
  stop" is the bound on them.
* `UpsertByExternalIds`: weak fairness of each call. A waiting call is disabled,
  not stuck: the transaction it waits for ends, or Postgres detects the deadlock.
* `TpGate`: weak fairness of serving (every request has a timeout) and of time.
* `TpFeed`: the same, and of the job loop, of each handler and of each command.
  None on TP answering anything but 403: `EveryNoticeIsAnswered` holds though TP
  may block for ever.

* `ReviewLock`: weak fairness of each command's process, and of time for a mutex whose
  creator is dead and for a session that does not run; strong fairness of creating
  the mutex while it is free, since a call tries every 50 ms and commands are minutes
  apart (over all its waiting a call meets the mutex free); and the callers release
  what they took, between any heartbeats. A waiter whose own ticket goes stale while
  it waits is excepted from `WaitersAreServed`: others may drop the ticket.
* `LiveImport`, `WaitForPrReview` and `PlayerAdvancements` assume none. That a wait ends
  is a bound on the clock (`EndsInTime`), which is stronger than that it ends some time.

## 4. The properties

| Module | Property | In words |
|---|---|---|
| LeaderElection | `SessionBackedByLock` | an open or opening session belongs to the lock's owner or to a machine whose connection is gone (so there are two only after a lost connection) |
| | `HoldsAccountedFor` | the hold count is one for the machine entitled to the lock plus what failed unlocks left |
| | `ServingEndsInExit` | a machine that serves stops only with its process and never regains a lost lock in it |
| | `OneLeaderInTheEnd` | after the last failure one machine leads for good, with no session beside it |
| | `ImplementsLease` | refinement |
| UpsertByExternalIds | `NoOrphanRow` | every committed row is named by an id |
| | `SuccessOwnsItsIds` | a success owns every id of its payload |
| | `RetryNeverCreates` | a call that lost a race never reports a row of its own as created |
| | `IdentityNeverChanges` | ids keep their owner, rows their protected column, though the check is not locked |
| | `EveryCallEnds` | every call returns or throws |
| TpGate | `SilenceIsKept` | no request is under way before a reported `retryAt` |
| | `EveryRequestSettles` | each request in the queue settles |
| TpFeed | `JoinedInTime` | a notification waits only for an import that started after it was posted |
| | `BareIsVisible` | a competition without its backfill is being worked on, or can be seen to lack it: a mark is missing or a command's reply says so |
| | `FailureToldOnce` | a burst's failure is posted at most once, and leaves no check mark in the burst, posted or not |
| | `RetryFindsTheGateOpen` | a sleeping job outlasts the block, unless another visit met a new one and a command was told; after a give-up none sleeps |
| | `EveryNoticeIsAnswered` | liveness |
| ReviewLock | `OneAtATime` | one session at a time reads, changes and replaces the file, until a live process's mutex is cleared |
| | `HoldersAgree` | until then a session told it holds the lock, with a fresh stamp, is the holder on file |
| | `NobodyJumpsTheQueue` | the lock goes to the first live ticket, and the order of tickets is kept |
| | `EveryCommandEnds` | every command gets the mutex, clears it, or throws |
| | `WaitersAreServed` | a polling session with a fresh ticket gets the lock |
| LiveImport | `EndDateMeansFinished` | a stored end date means that TP has published the awards |
| | `CreatedIsBackfilled` | the import that created a competition has backfilled it when it returns, or says it was interrupted |
| | `CleanImportSettles` | an import without an error leaves no SPP total as a roster wrote it |
| | `ExtrasSeeTheBackfill` | extra trophies of an import that backfills count the whole bracket |
| | `SpanOnlyWidens` | the stored dates narrow, or lose their end, only by an overlapping import or a known unfinished state |
| WaitForPrReview | `FoundIsGenuine` | what is found is new, has content, covers the head, and comes before the deadline |
| | `TextIsNotHidden` | each hollow review hides a text from one poll at most |
| | `AnswersTheTrigger` | one trigger, and only later polls answer it |
| | `EndsInTime` | the latest moment at which a wait can still run |
| PlayerAdvancements | `NumberingIsTrue` | after an import of BBL the paid advancements are numbered from 1, in order, without gap or double, while awards come |
| | `ConfirmedOrderIsTrue` | what TP's imports confirm is the real order, but for the exceptions below |
| | `UnspentIsExact` | the stored unspent SPP is the price of the stored advancements |

`TypeOK` / `GateTypeOK` is the type invariant of each module. `TypeOK` of
`LeaderElection` says more than types in one place: the hold count is a natural
number, so an unlock without a hold violates it. That of `UpsertByExternalIds` and
of `TpFeed` bounds the attempts and retries, and that of `ReviewLock` says that the
queue names nobody twice and never the holder, even after lost updates.

`RetryNeverCreates` rests on a fact worth knowing: a lost race proves that a pair
of the payload is committed, and committed pairs never disappear, so the next
attempt finds a row. The exception is a payload that names one pair twice: it
violates the constraint by itself, in every attempt, and ends as exhausted.

`IdentityNeverChanges` holds although the row is checked and updated in two
statements without a lock, because no payload can change the protected column of a
stored row once it is set: two updates that raced both passed the same check.

`NumberingIsTrue` and `ConfirmedOrderIsTrue` name their exceptions in the histories
`shown` and `whole`: an import and an award that overlapped, a report that left
something out, an award for an advancement whose place is unknown, an award taken back,
a sync that takes a paid advancement out of the numbering. `whole` has one more, a
deduction that had to guess and guessed wrong: when the spend does not tell the
possible orders apart, `Deduce` confirms the order of the entries, and `whole` ends
exactly if that is not the real order. So `ConfirmedOrderIsTrue` says of such a
deduction nothing but that a right guess is kept. Section 6 lists what happens in these.

## 5. The proofs

`LeaderElectionProofs`, `UpsertByExternalIdsProofs`, `TpFeedProofs`, `ReviewLockProofs`,
`LiveImportProofs`, `WaitForPrReviewProofs` and `PlayerAdvancementsProofs` prove their
theorems from the named assumptions of the modules on their constants only: the marks
(`NoOne`, `Orphan`, `None`, `Absent`, `Unknown`) are none of the real values, bounds are
natural numbers, payloads are records of the declared shape with at least one id,
back-offs are positive, the visits of the gate are the feed and the commands, match
dates are numbers, skills and characteristics are different things, each characteristic
is listed once. Two sets are assumed finite, the matches of a competition and the
starting skills of a player; sessions, machines, calls, visits, notifications,
competitions and skills need not be.

`Counting` holds the lemmas that belong to no component. The library states induction
with an operator as a parameter, which these provers cannot instantiate;
`NatSetInduction` states it with a set of numbers instead and is proved by counting: if
k were missing from the set, adding 1 would map its members up to k one to one into
fewer. With it the results of recursive functions (`Without` of the review lock) and
the ends of finite sets follow for inputs of any length. `PlacesAreTaken` says that in
a finite set with a strict order each place is taken by exactly one member, `OneToOne`
and `AsMany` that what is mapped one to one into a finite set is not more than it, and
onto it as many; `AppendedIsFunction` gives the solver two appended lists as a function.

* **Leader election.** Each safety invariant and the action property is proved, and
  the refinement of the lease. The inductive invariant joins the type invariant with
  what relates a machine's program counter, connection and session to the lock's
  owner; the two stated invariants are not inductive alone. For instance,
  `SessionBackedByLock` needs that a machine entitled to the lock has it for as long
  as its connection lives (`EntitledOwns`), and that in turn that the lock belongs to
  a live connection (`OwnerConnected`); `HoldsAccountedFor` needs that nothing a
  failed unlock left outlives its session (`LeakedIsHeld`). The refinement is proved
  step by step: each of the 22 actions is a step of `LeaderLease` or leaves the three
  mapped variables alone.
* **Upsert.** The inductive invariant is the type invariant, four facts about the
  two tables (pending pairs of two transactions are disjoint and not committed,
  owners exist, rows are committed only by a call that ended well, no orphan rows)
  and, for each call, facts local to it (its target exists or is its own new row,
  pairs before the insert position are settled, a retry finds the winner, the
  protected column agrees after the check, what its outcome says). A step of one
  call must not disturb another's local facts: the lemma `LocalStays` says it does
  not as long as the tables only grow (`Grows`), and each action is shown to grow
  them.
* **Gate.** The inductive invariant (`GInv`): no caller was given a `retryAt` later
  than the gate's own `blockedUntil`, and from the admission of a request to its end
  the gate is not blocked. The second part is the argument that checking before the
  pacing wait is enough: only the request whose turn it is can block the gate. It is an
  invariant of the feed as well, whose every step is one of the gate's or leaves it
  alone; `SilenceIsKept` holds there too (`FeedSilenceHolds`).
* **Feed.** The four properties are not inductive by themselves. `FInv` adds how the
  queue, the gate's visits and the notifications belong together: a visit imports
  exactly while a job or a command runs, and a backfill under way is of a competition
  (`VisitsAreUsed`); a job is queued once, for itself, until it has a result
  (`JobsAreOpen`); whoever others wait for waits for itself, and nobody joins a job
  past its delay (`HostsAreHosts`, the reason for `JoinedInTime`); a handler that has
  returned knew the result (`HandledIsSettled`, the reason for `FailureToldOnce`, since
  no result changes but one that nobody has heard of, lost in a restart); a
  retry is left whenever one is waited for, and one that forces a backfill has a
  competition to force it for (`RetriesFit`, which `BareIsVisible` needs when a job is
  blocked between creating a competition and its backfill). There is a lemma for each
  action, and one (`SettledIsVisible`) for what the end of a job does to the visibility
  of the competitions that are bare.
* **Review lock.** While no live process's mutex was cleared: the mutex belongs to the
  session inside (`InsideOwnsMutex`), so what it read is still what the file says
  (`CopyIsCurrent`), so the answer it computed is true when it is given
  (`AnswerIsTrue`); and a change computed from the file as it is takes the lock from
  nobody with a fresh stamp (`AcquireRespectsHolder`, `ReleaseRespectsHolder`).
  For the queue, `WithoutKeepsTheOrder` says by induction over the queue what `Without`
  returns: exactly the tickets of those not gone, in their order. From it follows that
  each policy function makes a state whose queue names nobody twice and never the
  holder from such a state (`AcquiredIsSound`, `ReleasedIsSound`). `QInv` says that of
  the file and of every copy of it, which is why not even a lost update can put a
  session into the queue twice; `QueueIsFair` needs both invariants, since the order is
  kept only by a change computed from the file as it is.
* **Live imports.** For each import: it calls a competition finished only if it is
  (`KnowsFinished`, which makes `EndDateMeansFinished` inductive although the decision
  and the write are two steps: TP never takes the awards back); where in the stages a
  backfill is due, under way or over (`BackfillFollows`); what an undisturbed backfill
  has counted (`BackfillCounts`); that what it wrote last it has collected
  (`CollectsAll`). A step of one import keeps these facts of another because it only
  adds matches (`Grows`) and leaves the other's locals alone (`Rests`). `SpansWiden`
  needs, beyond that, what `datesToDerive` returns: `DatesHaveEnds`, that each
  non-empty set of match dates has a first and a last one, by induction.
* **Wait for a review.** The invariant adds to the first three properties the time
  that each step can still take (`InTime`, from which `EndsInTime` follows), that the
  poll under way is younger than the trigger (`PollIsCurrent`), that what the poll
  holds is worth returning (`FindsReviews`), and that a review that hides a text is
  about to be discarded, for the first time (`DiscardsTheHiding`). Cardinalities enter
  only by the library's theorem about adding an element to a finite set.
* **Player advancements.** `PricesAreExact` needs nothing of what a sync plans: only
  that it forgets the price whenever it writes (`ClearedUnspent`), and that a price
  waits to be stored only while nobody changes the rows (`PriceIsCurrent`), unless two
  calls overlap (`OverlapIsKnown`). It holds for rows of any shape.
  `NumberingHolds` is the opposite: all of it depends on what a plan contains. The
  invariant `NInv` says that rows, entries and plans are in shape (a skill is there
  once, never removed, an increase never free), that the entries of a report without
  omission list all that was gained with its numbers until they are planned, and that
  the rows planned from them are `Numbered`, as are the stored rows while `shown` stands.
  The argument has four parts. A plan pairs its paid rows one to one with the entries
  that are not free: the rows of a characteristic, active ones best first and removed
  ones after them, take the places 0, 1, 2, ... (`RowPlacesPair`), the entries too, and
  what finds no row is added (`PlanPairs`). `closeFreeExtraSlots` gives the entries that
  are not free the numbers from 1 on (`ClosedNumbers`). What is written is what was
  planned if no award came in between (`WrittenIsATable`). A mark makes one row
  free (`MarkMarks`), takes its number out and moves those above it down, which keeps a
  table numbered (`MarkNInv`).
  `ConfirmedOrderHolds` needs a second invariant, `OInv`, beside `NInv`; TLC checked it
  on the instance before it was proved. The property says that the confirmed numbers
  could belong to the advancements in the order they were taken; the invariant keeps a
  witness: each stored row of something gained has a moment `at` of its own, and these
  are the first n moments (`IsDated`); the numbers of the confirmed rows go up with
  their moments (`InStep`), and are not more than there are paid rows (`IsInOrder`). An
  import that fails halfway leaves rows whose moments are these. While an import runs,
  its entries have moments too, and both together are in step (`FitsIn`): they are all
  that was gained (`IsListed`), a confirmed increase meets a confirmed entry or is told
  its own moment (`AreKept`, needed because the rows of one characteristic are paired by
  rank and not by moment), and what waits for the deduction was gained after all that is
  confirmed (`ComeLater`). That is claimed only while no award waits to make a stored
  advancement free (`StaysPaid`), and while nobody overlaps (`LiveIsSound`). There are
  four main lemmas: what `liveEntries` plans fits the rows it read (`PlanFits`); a sync
  with entries that fit that takes no row out of the numbering leaves the rows in order,
  with moments that each row has from itself or from the entry it met (`SyncInOrder`),
  and entries that still fit (`SyncFits`); the deduced entries fit the rows of the first
  sync (`DeducedFits`); a mark closes a slot without changing the order
  (`ClosedSlotInOrder`).

`FailuresLeaveNothing` (upsert: an error leaves neither rows nor ids) is a theorem
without a run.

### What stays with TLC

* Everything about liveness (`OneLeaderInTheEnd`, `EveryCallEnds`,
  `EveryRequestSettles`, `EveryNoticeIsAnswered`, `EveryCommandEnds`,
  `WaitersAreServed`): fairness and `ENABLED` are out of this prover's reach.

No module uses a RECURSIVE operator.

## 6. Where the repository's text and its code differ

* **`leader_overlap`.** The comment on the health-check interval
  (`leader-election.service.ts:24`) says the check shrinks the overlap of two
  sessions to at most one interval. The monitor starts only when `becomeActive()`
  has returned; while it registers the slash commands and posts the startup message
  no check runs, and a lock lost then is found one interval after those calls end.
  The REST calls are bounded by discord.js's own timeouts and rate limits, not by
  the interval.
* **`upsert_deadlock`.** The comment on `MAX_UPSERT_ATTEMPTS`
  (`upsert-by-external-ids.ts:275`) says a lost race is not the caller's problem.
  Two payloads that name the same new ids in opposite orders deadlock, and the
  victim's error is not the one the loop retries. Sorting the ids before the INSERT
  would exclude it.
* **`tp_feed_rerun`.** The documentation of the feed (`docs/discord-bot/tp-feed.md:141`)
  says of an import that was given up that running `/importtp` on its link brings it
  in. For an import that was blocked during the backfill of a competition it had
  created, the re-run finds the competition and skips the backfill; `/importtp` on
  the competition's scores page would force it.

* **`review_lock_winners`.** The comment on `ReviewLockStateService`
  (`review-lock-state.service.ts:69-71`) says the mutex serialises the cycles, "so two
  simultaneous acquires cannot both decide they won". After a process died with the
  mutex, two waiters judge that mutex overdue; the first removes it and creates its
  own, the second removes that one, and both find the lock free. No process needs to
  be slow for it.
* **`live_import_spp`.** The comment on `eventFailedPlayerIds`
  (`tp-competition-matches-backfill.service.ts:40-44`) says that it has the players of both
  teams of every backfilled match whose events were not imported, so that they are not
  settled against an incomplete sum. A match whose fetch failed, whose away team could
  not be imported, or that threw names none of them, or the home team's only (line 105
  and the `catch` below); they are known from the rosters or from another match, and
  are settled.

### Windows the properties leave open

These are consequences of the code that no text of the repository denies; the
properties name them as exceptions, and they are listed here so that nobody takes them
for excluded.

* The extra trophies of a rerun without a backfill are computed from the matches stored
  by then; if an earlier import failed on one of them, they are computed without it.
* The bracket is fetched before the awards: a competition that ends in between gets an
  end date, and extra trophies, from the bracket of before.
* An import that learned that there are no awards yet, and writes after another import
  learned the contrary, takes the end date away again until the next import.
* A database error thrown between the creation of a competition and its backfill is
  not a block: nobody forces the backfill afterwards.
* Confirmed numbers of advancements can double or leave a gap after an award is taken
  back or moved to another skill, after an award frees a row with an unconfirmed
  number, after a mark that failed is made good by a TP sync (which closes no slot),
  after TP counted an increase too few, and after a skill that could not be resolved is
  numbered later.
* When the spend does not tell the possible orders apart the deduction confirms the
  order of the entries; the code documents this.
* If the transaction that moves an award's granted skill succeeds and the unmarking
  after it fails, the old skill stays free: the award no longer names it.
* `applyWrites` of the SPP settlement locks players in the order of their value groups;
  two settlements that overlap can deadlock, and Postgres fails one of them, which
  leaves its chunk as the rosters wrote it.

## 7. What is left, and why

* **The dispatch of interactions** (`handleInteraction`): guarded calls in a fixed
  order, without state. One thing seen while reading it: a denied command whose refusal
  cannot be sent is not reported to the listeners.
* **The migration lock** (`db.ts:67`): what a second migration would do depends on SQL
  scripts; the session that loses a lock unnoticed is the one of `LeaderElection`.
* **Usage tracking**: insert-or-find, best effort by its documentation.
* **Enrolments**: two imports can together enrol what the rules forbid; the comment at
  `competition-enrollment.service.ts:71-74` accepts it.
* **The backfill of lasting injuries**: the candidates are computed before the locks, but
  come from the history, which only grows; what is rechecked under the lock is enough.
* **The batch buffer, manual batches, backups**: sequential, and repeatable because all
  their writes are upserts or whole objects.

## 8. What is not modelled

* The table definitions, the versioning triggers, and the queries of insights, deep
  dives and slash commands: data without control.
* Parsers (TP JSON, BBL pages) and the RPC contract: pure translation, well tested.
* Postgres, Discord, TP, Fly.io: only what the code relies on, as actions marked
  external in the map.
* What `LiveImport` and `PlayerAdvancements` abstract from (section 2): how a skill was
  rolled, skill variants, prices, names and types of competitions.
* The jitter of the pacing, the length of sleeps other than back-offs, and message
  texts.
* The components listed as `not_modelled` in `PROJECT.json`, each with its reason.

## 9. Running

    tlc -workers 2 -config MCLeaderElection.cfg MCLeaderElection
    tlc -workers 2 -config MCUpsertByExternalIds.cfg MCUpsertByExternalIds
    tlc -workers 2 -config MCTpFeed.cfg MCTpFeed
    tlc -workers 2 -config MCTpFeedLive.cfg MCTpFeed
    tlc -workers 2 -config MCReviewLock.cfg MCReviewLock
    tlc -workers 2 -config MCLiveImport.cfg MCLiveImport
    tlc -workers 2 -config MCSeparateParts.cfg MCSeparateParts
    tlapm Counting.tla
    tlapm LeaderElectionProofs.tla
    tlapm UpsertByExternalIdsProofs.tla
    tlapm TpFeedProofs.tla
    tlapm ReviewLockProofs.tla
    tlapm LiveImportProofs.tla
    tlapm WaitForPrReviewProofs.tla
    tlapm PlayerAdvancementsProofs.tla

`MCLeaderOverlap.cfg`, `MCUpsertDeadlock.cfg`, `MCTpFeedRerun.cfg`,
`MCReviewLockWinners.cfg` (with `MCReviewLock`) and `MCLiveImportSpp.cfg` (with
`MCLiveImport`) reproduce the five disagreements of section 6.

# SqlGoPace in TLA+

SqlGoPace (`src/`) drains a queue of YAML manifests of heavy SQL Server operations (index
rebuilds and reorganizes, compression, shrinks, batched updates and deletes), watches each
statement for the harm it does to others, and pauses, cancels, retries or resumes it. It is meant
to be killed, restarted and overlapped by cron without losing or repeating work. This directory
holds a model of that behaviour: modules, TLC configurations and proofs checked by TLAPS.

Contents: [components](#1-the-system), [hard behaviours](#2-what-is-hard), [modules](#3-modules),
[runs](#4-runs), [bounds and fairness](#5-bounds-and-fairness), [proofs](#6-proofs),
[findings](#7-where-the-code-and-its-documents-differ), [limits](#8-what-is-not-modelled),
[plan](#9-plan).

Every definition that stands for code is listed with its lines in `PROJECT.json` under `map`.

## 1. The system

One process runs at a time per queue. Inside it: one engine goroutine; per statement an executor
goroutine, a pump that polls blocking and the log, and a supervisor that turns samples into a
reaction; a signal handler and, optionally, a console. They share the file system (queue
directories, sidecars), the server (sessions, paused rebuilds, file sizes), a drain flag
(`drain.go`), and the killers' bookkeeping under their mutexes.

| Component | State it keeps | Operations | Correct when |
|---|---|---|---|
| Queue and engine (`run/engine.go`, `queue.go`, `state.go`, `skip.go`, `window.go`) | directory of each manifest; sidecar `.state.json` (cursor, plan fingerprint, paused record, session); quarantine of the run in memory | discover, claim, stamp, run each operation, quarantine, advance the cursor, finalize, hand over | success only if every operation was carried out; nothing lost when partial; progress kept; nothing run twice at once |
| Recovery (`recovery.go`) | none (reads sidecars and the server) | adopt (and let the queue run beside it), resume, restart, leave alone | never relaunches what still executes; keeps what the next run needs |
| Queue lock (`lock.go`, `lock_unix.go`) | an inode, its flock, the holder line | lock, refuse, release | one run per queue; a dead holder blocks nobody |
| Monitored statement (`monitored_runner.go`, `reaction.go`, `executor.go`) | current sample, timers since each pressure began, retries left | issue, watch, react, KILL, wait for relief, retry or RESUME | one statement at a time, blocking bounded, an honest report |
| Victim killer (`victim.go`, `recidivism.go`) | episode per session id, debt and kills per offender | scan and reserve, KILL, settle, arm, disarm, suppress | budget and dwell hold; the yield timer is never muted for ever |
| Blocker killer (`kill.go`) | episode per session id, budget per rule | scan and KILL under the mutex | the same for sessions that block us |
| Shrink driver (`shrink.go`, `shrink_calc.go`) | size, step, attempts, waits, tempdb findings | truncate, chunk, stall, back off, wait for log, flush caches | ends, stops when asked, tells why it fell short |
| Batched DML (`batch_dml.go`, `batch_calc.go`, `batch_watermark.go`) | position, batch size, watermark file | batch, save, stop, resume | no row skipped, the position kept, ends |
| Live rules (`ignore_source.go`, `ddl/edit.go`) | last time and last good rules per source; the manifest file | stat, read, edit, console edit, recovery copy | an edit counts from the next poll; never less than the last good rules |
| Execution session (`mssql/conn.go`, `kill_self.go`) | pinned session, its id and login time, suspect flag, marker | execute, repair, stop own orphan, KILL | no statement starts beside one the session is known to execute; a KILL hits only its own |
| Command line (`cmd/sqlgopace`) | drain flag, signals seen | lock, recover, drain, release | the order of these four; the second signal is hard |
| Manifest format and option resolution (`ddl`) | none; the window reads the server's clock | decode, validate, expand, resolve, generate, write back | every statement compiles on its server; a rewritten manifest means the same |
| Preflight (`preflight`) | none | check server, log, space, rights, objects, disabled indexes, batches | what it lets through has its object and its rights |
| Server access (`mssql`) | none | queries | |
| Maintenance planner (`maint`, `plan`, `cmd/sqlgopace/plan.go`, `shrink_plan.go`) | the published manifests; the sidecar of contended objects a shrink left | collect, decide, suppress, publish, pre-shrink pass | what is due is done once, and no plan undoes the last one |
| Configuration, reports, scaffold | none | sequential | |
| Console (`tui`) | screen, selections | show, edit rules, drain, kill own statement | edits reach the running manifest |

How they meet: the command takes the queue lock, sweeps, then lets the engine drain the queue;
the engine gives each operation to the monitored runner, the shrink driver or the batch driver;
those ask the same pump and reaction code; a blocking poll lets the two killers scan the snapshot
and asks the rule sources for their current rules; the victim killer suppresses a session in the
supervisor's decision; the repair of a connection changes the session that the sidecar names; the
engine moves the manifest that the rule sources and the console read and write. The planner
publishes manifests into the queue and reads what a shrink captured; before the first statement the
engine expands, checks and plans a manifest, and binds the plan to the cursor of an earlier run.

## 2. What is hard

The list is `hazards` in `PROJECT.json`, each at its line with the properties that watch it. The
families: crashes between two durable writes (claim and sidecar, sidecar and move, commit and
cursor, commit and watermark); a plan, a statement or a rule file edited between a write and its
use; a statement that ends at the moment it is cancelled; a KILL whose answer is late or lost; a
monitoring channel that falls silent while the other answers; several sessions of one offender in
one scan; loops that succeed without progress; a graceful stop asked for, or withdrawn, while the
program is in any of its waits; a session id the server gives to somebody else between a check and
a KILL; a database that changes between the preflight and a statement; options that are dropped and
forced one after another; plans that must agree with what the plan before left behind.

## 3. Modules

| Module | Models | State and actions against the code |
|---|---|---|
| `ManifestContract` | what the queue promises of a manifest | abstract: open until one outcome is recorded; SUCCESS and PARTIAL are deserved |
| `ManifestLifecycle` | engine, queue, sidecar, sweep, server's paused rebuilds and orphaned sessions | `pc` is the point between two durable effects of `Recover`, `processOne`, `runStep` and the `finalize*` family; `Begin*` is the decision about a paused rebuild before a statement; `Completes` ... `ErrorsUnreadable` are what the server may make of it; `Environment` is crash, drain, edits, re-pin, foreign pauses |
| `QueueLock` | `LockQueue` and `Release`, by inode, around a sweep and a manifest | `OpenFile`, `TryLock`, `ClearLine`, `WriteLine`, `Release` in the code's order; `Die` closes every descriptor |
| `MonitoredRunner` | `runLoop`, `runStatement`, `DecideReaction`, `waitForRelief`, the pump and the watchdog | `cur` is the pump's sample, `since` the supervisor's timers; each poll, silence and answer is an action |
| `Recidivism` | the debt arithmetic shared by offenders | operators on a bucket: mark, accrue, kill, refund, forget |
| `VictimKiller` | the victim killer, over `Recidivism` | `Poll` is a whole scan under the lock, with its reservations; KILLs are issued after it and settle later, across statements and manifests |
| `BlockerKiller` | the blocker killer | a poll scans and kills under the mutex, its answer may be lost |
| `ShrinkCalc` | `shrink_calc.go` | pure operators: step bounds, tier, next target, growth and halving |
| `ShrinkDriver` | the shrink of data, log and tempdb files, over `ShrinkCalc` | `stage` is the place in the driver; `loop` the chunk loop's locals; the server and other users change `size` |
| `BatchDML` | both walks, the adaptive size, the watermark, interrupted runs | `file` is the watermark, `Position` the walk's; rows have keys per column; the operator may edit the statement or the key between runs |
| `LiveRules` | both rule sources, the writers of the manifest, its move, the recovery manifest | a poll is `Stat` then `Read`; an editor writes in one step or two; the console reads, then writes |
| `MaintProfile` | the planner's profile | defaults, validation, overrides, scope as operators |
| `MaintDecide` | `maint.Decide` and the pre-shrink decision | pure operators: per index partition, heap and statistic, then the suppression |
| `MaintPlanner` | analysis, publication, execution and drift, over the two above | `db` is what is measured (fragmentation, compression, staleness, activity); `Plan(lost, ...)` is one analysis with the reads that failed, `Publish` renames one file, `RunOp` is what the server does for an operation, `Capture*` is what a shrink records |
| `DdlManifest` | the manifest: keys per operation, decoding, validation, window, rewriting | a manifest is a record; a key that is absent, empty, `null` or unknown is told apart; `Marshal` drops what the code drops |
| `DdlResolve` | matrix, tiers, option resolution, expansion, statement | pure operators; a statement is a command, a target, a `WITH` clause and an existence test; `Compiles` is the server's word on it |
| `Preflight` | the checks that can fail, with the reads that can fail | operators over a picture of the database |
| `Preparation` | `processOne` with the content of the manifest, over the three above | `phase` is the stage of `processOne`; `Execute` sends a statement and the catalog changes by it; `Drift`, `EditFile`, `EditRules`, `Crash`, `Tick` are the environment |
| `ExecSession` | the pinned session, its repair, both KILLs, manifests claimed, interrupted and swept | `server` is what holds each session id, `rec` what `Conn` records under its mutex, `held` what each killer has read of the session it is about to end, `left` the sidecars in processing; `Requeue` and `LeaveInProcessing` are the sweep's verdicts on each, after which the queue runs; `NextDatabase` is a change of connection; `Ping`, `Probe`, `Wait`, `Pin` are the calls of `repairIfBroken` and `stopOrphan` |

Composition: `MaintPlanner` extends `MaintDecide` and `MaintProfile`; `Preparation` extends
`Preflight`, `DdlResolve` and `DdlManifest`; `VictimKiller` extends `Recidivism`, `ShrinkDriver` extends `ShrinkCalc`, and
`ManifestLifecycle` instantiates `ManifestContract`. The others meet at an interface: where a
module needs another component's answer it takes any answer that component's module can give.
`ManifestLifecycle` lets a statement end in any of the ways `MonitoredRunner`, `ShrinkDriver` and
`BatchDML` report; `ShrinkDriver` and `BatchDML` let a chunk or batch be stopped whenever
`MonitoredRunner` could stop it; `ManifestLifecycle` runs one process at a time because
`QueueLock` shows there is one.

`ManifestLifecycle` takes the plan, the verdict of the preflight and the operations as given, which
`Preparation` computes; `Preparation` takes the outcome of a statement as given, which
`ManifestLifecycle` and `MonitoredRunner` split into its ways. `ManifestLifecycle` re-pins in one
step what `ExecSession` does in many.

`MC*` modules give the constants small values. Theorems are in a `*Proofs` module beside the module
they are about. Three hold the proofs of two modules that share no variable: those of `QueueLock` are
in `ManifestLifecycleProofs`, those of `BlockerKiller` in `ExecSessionProofs`, and those of `LiveRules`
and `MaintPlanner` in `PlannerAndRulesProofs`.

## 4. Runs

"About" in `PROJECT.json` says what each run shows. Each module also states its `TypeOK`.

| Run | Checks | Distinct states |
|---|---|---|
| `Lifecycle` | one manifest, every adverse event: `SuccessIsEarned`, `PartialAccountsForAll`, `NoDoubleExecution`, `ProgressKept`, and `KeepsPromise`, the refinement of `ManifestContract` | 90,702 |
| `LifecyclePair` | two manifests on sibling indexes: `PauseDestroyedOnlyByOwner`, and the liveness `EveryManifestConcludes` | 500,307 |
| `QueueLock` | three launches: `OneRun` (one at a time, the file in flight untouched, the holder named), and the liveness `QueueNeverWedged` | 22,834 |
| `MonitoredRunner` | twelve kinds of operation: `BlockingBounded`, `NeverAhead` (one statement at a time, and an honest report), `NothingIssuedBlind`, and the liveness `DrainHeeded` | 907,416 |
| `VictimKiller` | `KillBudget`, `DebtWitnessed`, `NoDoubleKill`, and the liveness `HushEnds` | 269,203 |
| `BlockerKiller` | `KillsAccounted` (debts and budgets) | 779,179 |
| `Shrink` | data, log and tempdb, two files: `EffortBounded` (attempts, one flush), `FilesReported` (a short file is told, and why), and the liveness `StopHeeded` | 815,533 |
| `Batch` | the three strategies: `NothingSkipped`, `AppliedOnce`, `ResumePointKept`, and the liveness `RunEnds` | 839,239 |
| `LiveRules` | `EditsCostNothing` (an edit is honoured, a torn file costs no rule), `RecoveryCarriesIgnore` | 1,470,725 |
| `Planner` | `DueIsRefreshed`, `NoDoubleWork`, `SecondPassQuiet`, `AnalysisKeeps` (nothing is decompressed, the tail leads) | 867,785 |
| `Preparation` | `AcceptedByServer`, `PreflightSuffices`, `ReenabledKnowingly`, `WindowHonoured`, `DoneMeansApplied`, `RewriteKeepsMeaning` | 992,072 |
| `Session` | `OneMarkedStatement` (one statement beside the adopted ones, under its manifest's marker), `OnlyOursKilled`, and the liveness `RepairSettles` | 1,455,697 |

Every property of a passing run has a mutant in `PROJECT.json`: a plausible mistake in one mapped
definition (a dropped guard, a refund too many, a position resumed for another statement) under
which TLC finds that property violated, so the property does depend on that line of the code. The
mutated operators stand just before the ones they replace.

A promise of the documentation that the code breaks is stated in its module in full, with "Does
not hold" and the reason. Next to it stands what the code does guarantee, which the passing run
checks: `NothingSkipped` next to `NeverSkips` (no new key column between two runs, and the statement
edited once at most), `EditHonoured`
next to `EditNoticed` (no edit between the load and the sources), `RewriteKeepsMeaning` next to
`EmptyStringKept` (no empty string as data), `DueIsRefreshed` next to `EveryDueIsRefreshed` (not the
column statistics of a heap), `SecondPassQuiet` next to `SecondPassEmpty` (not the indexes of a heap),
`NeverDecompresses` with the exception `StoodFor` (partitions at different tiers that are measured as
one: the first stands for them all; the run starts from such an index), `KillBudget` next to `RateLimit`
(the cap plus the answers that were lost and the refunds of an earlier bucket), `OneAtATime` next to
`OneHeavyDDL` (beside the statements of manifests the sweep adopted, and those the program lost sight
of), `EveryManifestConcludes` next to `NothingStranded`.

## 5. Bounds and fairness

Bounds are constants of each module, named for what they bound (`MaxFaults`, `MaxCrashes`,
`MaxWrites`, `MaxTouches`, ...), and appear in the guards of the environment's actions only; the
program's own actions are bounded by what bounds them in the code.

- *Lifecycle.* Plans of two and three operations over an index with two different rebuilds, a
  sibling index, a shrink and statistics; three adverse events in any order. Three is what the
  longest known scenario takes (quarantine, interruption, edit); the theorems hold for any number.
- *Lock.* Three processes and three inodes: a holder, a loser that has the old inode open, and a
  third that makes a new one, which is the race the comment in `Release` describes.
- *Statement.* Timers of one or two ticks and one retry: each threshold can be reached, passed by
  one, and reset by relief.
- *Killers.* Two sessions of one offender. The victim killer has a budget of one and a grace of two
  polls: one scan can take the budget to its cap, and the second session meets it spent. One lost answer is
  counted per bucket (`MaxLost`).
- *Shrink.* A file of 1 MB and one of up to 2 MB that others may grow by one, steps that start,
  grow and halve, a budget of two chunks without progress: a stall, a flush and a give-up on each.
- *Batches.* Three rows: one committed, one in the batch, one after it. One crash, one stopped
  batch, one row written again, one edit of the statement and one of the key, in any order.
- *Rules.* One rule present or absent, three writes: a torn write, its end, and one more.
- *Planner.* A partitioned clustered index and a heap with an index and a column statistic; every
  fragmentation on either side of the thresholds, every compression, six profiles (defaults, by
  partition, a ceiling with a pin and a forbidden rebuild, a shrink, and thresholds the loader
  refuses); one index whose partitions differ in compression; a rewrite leaves pages 95% full (`Full`).
  One adverse event where everything starts at random, three where a shrink needs a
  capture, an end and a second pass. One lost read per analysis.
- *Preparation.* Twelve manifests, one for each rule it exercises (two are refused at load), on four
  servers: version, edition and a policy that forces, forbids or leaves open. Days of three hours in
  weeks of three days: a window over midnight, a day it does not open, and a tick past its end. One
  drift, one edit, one failure, one lost read and two claims, in any order.
- *Session.* Two ids, one crash, three logins: the first pin, a re-pin or a stranger, and the pin of the
  next run. Either two manifests, so that the sweep adopts one and the other runs beside it, or one
  manifest and one press of the kill key; `OrphanPolls` exceeds `RepairPolls`, as two minutes exceed
  thirty seconds.

`CHECK_DEADLOCK FALSE` stands where the system really stops: a shrink that is done, a manifest that
has ended, a server out of logins.

Fairness is weak fairness of the program's own goroutines, timers and scheduled launches, and:

- `LifecyclePair`: a process that is down is launched again (cron or a service, `docs/running.md`),
  and an orphaned statement ends. Nothing adverse is fair, and adverse events are finite.
- `QueueLock`: strong fairness of writing the holder line and of a run's conclusion: an attempt that
  fails or dies is repeated by the next launch, and one of them succeeds.
- `MonitoredRunner`: a statement ends some day, no poll need ever answer.
- `VictimKiller`: the pump's ticker fires while its statement runs (strong, because statements
  come and go) and KILL calls return, as their timeout makes them.
- `Shrink`: chunks answer; no pressure need clear and no channel answer.
- `Batch`: batches end and blocking clears; log pressure need not.
- `Session`: each step of a repair is a call with a timeout of its own, so it returns. Nothing else
  is fair: the orphan need not stop and the server need not answer.

## 6. Proofs

Each theorem is about every value of the constants that the named assumption of its module allows;
TLC evaluates the assumptions in the runs, and checked the strengthened invariants on the runs'
instances before they were proved. Every proof has the same plan: the type invariant, the conjuncts
that make the property inductive, one lemma per conjunct, and in it a step per action.

**Lifecycle.** `ManifestLifecycleProofs` proves, for every set of manifests, plans and options and
for any number of adverse events (`MaxFaults` is any natural), from `LifecycleAssumption` alone:

- `TypeCorrect`: `[]TypeOK`.
- `SuccessEarned`, `PartialAccounts`, `CursorSafe`, `SingleExecution`: `[]SuccessIsEarned`,
  `[]PartialAccountsForAll`, `[]CursorCoversOnlyDone`, `[]NoDoubleExecution`.
- `PromiseKept`: `Spec => KeepsPromise`. `ManifestContract` is implemented, by step simulation: most
  actions leave the contract's variables alone, the end of a statement carries its operation out,
  and `Report` records an outcome which `Inv` shows is deserved.
- `ProgressIsKept` and `PausesAreOwned`: the action properties `ProgressKept` and
  `PauseDestroyedOnlyByOwner`. The first needs that the sweep drops only a sidecar without progress
  (`DropsNothing`): the decision and the removal are two steps, and nobody writes the sidecar between.

None of the invariants is inductive by itself. `Inv` adds: `Placed` (the file of a manifest in hand
is in processing until it is moved; a recorded verdict belongs to a terminal directory),
`OrphansHeld` (a manifest with an orphan its sidecar names is in processing and in nobody's hand, so
the sweep adopts it and no claim can reach it), `Tracked` (the sidecar in hand carries this plan's
fingerprint, everything before operation *i* is done or quarantined, and the cursor is before the
first quarantined one) and `Deserved` (the outcome about to be recorded is justified by what was
done and quarantined in *this* run together with what the cursor covers). `Tracked` is the heart of
it: PARTIAL is decided from the failures of one run only, and is right because the cursor freezes
at the first gap, so a later run meets every earlier failure again.

**Lock.** `ManifestLifecycleProofs` proves, for any processes, inodes and crashes, `OneRunPerQueue`
(`[]MutualExclusion`), `PeerNeverSwept` (`[]InFlightUntouched`), `HolderIsNamed` and `QueueTyped`.
The strengthening is `OneInode` (the name never changes its inode, so all descriptors are the same
file; this is what removing the file in `Release` used to break) and `Locked` (whoever is past the
lock attempt is the one the kernel gave it to). `LockKeepsItsPromise` is the three together,
`[]OneRun`.

**Session.** `ExecSessionProofs` proves, for any session ids, logins, manifests, crashes and KILLs,
from `Bounds` alone: `OneMarked` (`[]OneMarkedStatement`), with its parts `StatementsComeOneAtATime` and
`MarkerSurvivesRepair`, and `KillsOnlyOurs` (`OnlyOursKilled`, an action property). The argument: a
login is newer than every login time the program has written down, so a recorded login time can
only name the session it was read from (`LoginsOrdered`, `RecordsOurs`). Two kinds of statement are set
`Apart`: those of manifests in processing whose sidecar names their session (the sweep adopts them and
the queue runs beside them), and those in `astray`, which the program lost sight of (a probe that failed,
a login time never read, a change of database, an end while no sidecar named the session). Whatever
executes besides is the session `rec` names (`AtMostOne`), and a statement is only sent where nothing
besides executes (`QuietWhereNew`). What is apart stays apart while it runs, because a sidecar leaves
processing only when its statement was looked for and not found (`ApartKept`). For the KILLs, what is verified
and then replaced logged in after the check (`HeldVerified`).

**Statement.** `MonitoredRunnerProofs` proves, for every kind of operation and any positive timers
(`RunnerAssumption`), `RunnerTyped`, `NothingOvertakes` (`[]NeverAhead`), `BlindIssuesNothing`
(`NothingIssuedBlind`, an action property) and `CapHolds` (`[]BlockingBounded`). `Answers` says that
the executor's answer is kept until the runner takes it and that nothing is issued before; `BlindKept`
says what a blind monitor may still decide. The bound on blocking is the numeric one: `HarmSeen`
relates the harm done to the cap's own timer and to the silence of the channel, so that the timer is
at most one silence behind, and once it has run out the next sample, one more silence away at most,
ends the statement: `MaxBlock + 2 * BlindAfter + 1` in all.

**Victim killer.** `VictimKillerProofs` proves, for any finite set of sessions and any offenders,
budget, dwell, grace and timeouts (`VictimAssumption`), `VictimTyped`, `BudgetIsKept`
(`[]KillBudget`), `DebtIsWitnessed` (`[]DebtWitnessed`) and `NobodyDiesTwice` (`NoDoubleKill`, an
action property). `KillerInv` adds `Budgeted` (what has landed and what two calls may still land is
covered by what the bucket has booked, the answers that were lost and the refunds of earlier buckets; a sum over the calls'
reservations, hence the lemmas on cardinalities), `Banked` (debt only grows from a mark, which only a
poll that found the offender leaves) and `EpisodesKept` (a session struck within the window has its
episode, of the same age, and of two calls that hold a reservation on it only one may take the
episode back).

**Blocker killer.** `ExecSessionProofs` proves, for any sessions, rules, cap and window
(`BlockerAssumption`), `BlockerTyped` and `KillsAreAccounted` (`[]KillsAccounted`). `MarkWitnessed` says that the mark a debt is charged from is never older than the last poll, and that
this poll saw the session of the episode: the ticks charged are ticks some poll covered
(`DebtAccounted`, about the cardinality of that set of ticks). `Paid` and `FitsCap` are the budget: a
KILL that reached the server is in the bucket or its answer was lost, and one in flight still fits.

**Shrink.** `ShrinkDriverProofs` proves, for any number of files, sizes, targets, budgets and waits
(`DriverAssumption`), `DriverTyped`, `EffortIsBounded` (`[]EffortBounded`) and `FilesAreReported`
(`[]FilesReported`). `DriverInv` adds `LoopBounded` (the step stays between the floor and the ceiling of
its file, which the lemmas on `ShrinkCalc` give), `Budgeted` (a stall is counted only while it leaves
the budget something; the flush is behind once made), `Passing` (the stages each kind of operation can
be in), `Reported` (each file behind the one in hand has its result, and none falls short without a
reason unless an error ended the operation) and `Watchful` (maintenance seen blocking was seen of the
file in hand).

**Batches.** `BatchDMLProofs` proves, for every finite table, keys, statements, sizes and number of
crashes and stops (`BatchAssumption`: a key tells rows apart and is positive), `BatchTyped`,
`NoRowIsSkipped` (`[]NothingSkipped`), `NoRowIsRedone` (`[]AppliedOnce`) and `PositionSurvives`
(`[]ResumePointKept`). `Walked` says that everything up to a position, in memory or in a file of this
statement, holds its target, and that a batch that committed but was not counted or saved covers what
its new position will claim; it holds under `FewEdits`, the guard of `NothingSkipped`.
`PositionSaved` says when the file carries the position of the walk.

**Rules.** `PlannerAndRulesProofs` proves, for every set of rules and any number of writes, `RulesTyped`,
`NoEditIsLost` (`[]EditsCostNothing`) and `ExclusionsSurvive` (`[]RecoveryCarriesIgnore`): `Steady` (a
rule in every whole version is in the file and in every source), `Fresh` (after a write with a time of
its own, a source that has seen that time and is not between its stat and its read agrees with the
file) and `Carried` (the exclusions on their way from the file to the recovery).

**Planner.** `PlannerAndRulesProofs` proves, for every catalog, measurement, set of profiles a file can
hold and number of lost reads (`PlannerAssumption`):

- `WorkIsNotDoubled` (`[]NoDoubleWork`): no plan rewrites a partition twice, be it by two operations on
  an index or by the rebuild of its heap. `Filed` (a manifest holds the operations of its category)
  carries it from file to file.
- `DueGetsRefreshed` (`[]DueIsRefreshed`): the statistics of an index that were due when they were
  analysed keep, until refreshed, an operation to come that refreshes them (`OwedIsPlanned`).
- `SecondPassIsQuiet`: `RewritesSuffice => (PlannerSpec => []SecondPassQuiet)`. When everything of a
  plan that nothing disturbed is done, the next analysis finds nothing to rebuild (but for the indexes of a
  heap).
  `Current`, and `IndexDue` with `HeapDue`, are the two directions of it: an operation to come is what the analysis
  would choose now, and what it would choose now is to come. The step is that doing an operation makes
  it no longer due. For the compression this means that no second choice follows: an index that was
  raised is measured at its new tier, where the choice of the profile asks for no more (`Settles`,
  `IndexSettled`, `SavedOnce`). For a heap it needs the hypothesis `RewritesSuffice`: no profile asks
  a heap to be fuller than a rewrite leaves it (`100 - Full` below the deviation of free space).
  The loader accepts 1 to 100 for the deviation, and with 5 and pages that a rewrite leaves 95% full
  every pass rebuilds the heap again, so the hypothesis cannot be dropped. The profiles of
  the run satisfy it.

**Preparation.** `PreparationProofs` proves, for every catalog, set of manifests, server and policy,
day and week length, and however many drifts, ticks, edits, lost reads and crashes, from
`WindowAssumption`, `StructuresAssumption` (an object is one structure) and `PreparationAssumption`
(what is submitted has the keys of a manifest; a disabled index exists):

- `OptionsAreLegal`: for every operation, server and policy the statement generated satisfies
  `LegalOptions`. Each option that is on applies (`PickBool` never overrides the matrix), what needs
  ONLINE has it, and the exclusions survive the forcing of ONLINE (`IndexOptionsAreLegal`).
- `StatementsCompile` (`[]AcceptedByServer`): the storage too, where an expansion found it (`Decoded`).
  The one exception is in the property: a named index is taken for rowstore by the code.
- `ClearedIsThere`, `NothingReenabledUnasked` (`[]PreflightSuffices`, `[]ReenabledKnowingly`): from
  `Checked`, what the preflight established and only a drift on record, or a statement on the same
  table, can undo.
- `WindowIsKept` (`[]WindowHonoured`): `ContainsIsInside` shows that the code's case analysis by today
  and yesterday is the arithmetic of a window on a circle of any number of days of any length.
- `DoneIsDone` (`DoneMeansApplied`, an action property): from `CursorHolds` (what the cursor on disk
  covers took effect, under the fingerprint beside it) and `Followed` (so did what the run passed,
  unless something was set aside).

Checked by TLC only:

- liveness (`EveryManifestConcludes`, `QueueNeverWedged`, `DrainHeeded`, `HushEnds`, `StopHeeded`,
  `RunEnds`, `RepairSettles`): fairness and `ENABLED` are out of the prover's reach;
- `RewriteKeepsMeaning`: what it compares are documents of every command after two conversions, key by
  key; proved is that what is written back is a manifest again (`RewrittenTyped`, `RecoveryTyped`);
- `AnalysisKeeps`: `TailLeads` is about an order that `SetToSortSeq` chooses among all permutations,
  whose existence is an induction over sequences; `NeverDecompresses` needs more than the planner
  is told, namely that what is saved by a higher tier is estimated at no less.

Induction over data is out of reach where the library needs an operator as a parameter. Where a proof
needs it for one function only, it goes through a well-founded order on numbers instead
(`UpTo`, `FlattenTyped` in `PreparationProofs`, `NthLeast` in `BatchDMLProofs`, `FirstRule` in
`ExecSessionProofs`, `FirstIsThere` and
`WorstOf` in `PlannerAndRulesProofs`). No module declares a
RECURSIVE operator.

## 7. Where the code and its documents differ

Every promise marked "Does not hold" is a definition that TLC refutes when it is added to the
configuration of its module's run, with the constants of that run. Those that a document or a comment
makes are quoted in `findings` of `PROJECT.json`; the line of the code is in each.

- `QuarantineHandedOver`: a short stop after a quarantine leaves no recovery manifest;
- `NeverSkips`: a walk resumed on another key column skips rows; and, with `MaxRekeys = 0`, two
  edits and two crashes, a statement edited away and back resumes its old position;
- `RecoveryCarriesKills`: kill rules edited during the run are not in the recovery manifest;
- `NothingStranded`: a crash between claim and sidecar, or between removal of the sidecar and the
  move, leaves the manifest in processing, where no sweep looks;
- `ForeignNeverAdopted`: an unreadable server at an operation's boundary records a pause that
  nobody saw, and the next run RESUMEs a rebuild somebody else paused on that index;
- `NothingRunsBesideAnOrphan`: after a re-pin the sidecar names the old session, and a crash leaves
  an orphan no sweep finds;
- `ReliefIsRead`: a wait for log relief ends before the log was read; `StoppedIsUndone`: a
  statement that completed while it was being cancelled counts as stopped;
- `RateLimit` of both killers: a KILL that was delivered and lost its answer with the connection is
  refunded, or not counted; a late refund crosses manifests;
- `OneHeavyDDL`: the run that adopts an orphan still executing goes on with the rest of the queue, so
  two statements run on the server at once;
- `BlockersBlock`: a file at its target is reported short with a blocker; `PartialHasReason`: a
  partial result has no reason; `BlindEnds`: chunks go on with a silent channel;
- `EditNoticed`: an edit during the preflight is never noticed; `InOnePlace`: a console edit across
  the end of the run recreates the manifest in processing;
- `OrphanClaimable`: after a repair the marker is stamped again and the sidecar's session is not, so
  an orphan of the new session is not found; `SidecarIdentifies`: the sidecar of a manifest claimed
  over a poisoned connection names no login time; `PatienceRewarded`: an orphan that stops in time
  for the longer wait but not for the repair's own timeout fails the statement all the same;
- `ResumeJudgedOnTheRest`: the preflight of a resumed manifest fails on the object an operation
  already finished has dropped; `OptInLetsThrough`: a heap rebuild that opted in is refused when the
  indexes cannot be read, by a message that tells to opt in;
- `EmptyStringKept`: an empty string written as data is lost when a manifest is written back;
  `RecoveryKeepsOptions`: the recovery of an expanded ALTER INDEX ALL forgets which index is a
  columnstore, and asks for an online rebuild;
- `EveryDueIsRefreshed`: a column statistic of a heap that is rebuilt is left out and not refreshed;
  `SecondPassEmpty`: an index of such a heap never gets the compression it was due.

The cursor of a resumed run is bound to the commands and targets of the plan only
(`planFingerprint`): an edit of a partition, a compression or a predicate alone is taken for the
same plan. `DoneMeansApplied` is stated of what the fingerprint tells apart.

## 8. What is not modelled

YAML and SQL as text, formatting, reports, notifications and configuration files are sequential and
keep no state across calls; what a manifest's keys do, and which options a statement has, is
modelled. The server is modelled by what its answers may be, and by what an operation changes of
fragmentation, compression, existence and statistics: locks, rollback times and page movement are
not. Text patterns of rules, session attributes and fingerprint hashes are opaque values (two
different plans have different fingerprints). Wall-clock times are ticks of the poll interval.
Windows file locks have the contract of the Unix ones. Of the checks before a run, those that can
only warn are left out; of the captures, all but the one a later plan reads. The console's screen is
not modelled, only what it does to the program: edits, drain, KILL. Status and reason per component
are in `components` of `PROJECT.json`.

## 9. Plan

Order of importance; 1 to 10 are modelled and proved, but for what section 6 leaves to TLC.

1. `ManifestLifecycle` with `ManifestContract`.
2. `QueueLock`.
3. `MonitoredRunner`.
4. `Recidivism`, `VictimKiller`, `BlockerKiller`.
5. `ShrinkCalc`, `ShrinkDriver`.
6. `BatchDML`.
7. `LiveRules`.
8. `ExecSession`.
9. `MaintProfile`, `MaintDecide`, `MaintPlanner`.
10. `DdlManifest`, `DdlResolve`, `Preflight`, `Preparation`.
11. `RunCommand`: the command's databases in sequence, the console's feeds and action channel
    (bounded channels, dropped messages), with `ManifestLifecycle` as what it starts.
12. Captures: accumulation and flush of the amplifier capture across the end of a manifest; the
    blocking chain (cycles) and the alarms against reference definitions.

Theorems to add, in order: `TailLeads` of `MaintPlanner`, from a lemma that `SetToSortSeq` orders what
it is given; `NeverDecompresses`, from an assumption on the estimates if the server is found to justify
one; `RewriteKeepsMeaning`, from a lemma that `Decode` undoes `MarshalOp` on what a file decodes to.

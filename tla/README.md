# Verification of the software factory template

TLA+ models of the concurrent and crash-exposed parts of this repository, the
TLC runs that check them on small instances, and TLAPS proofs of what holds for
every size. `PROJECT.json` is the machine-readable index: which definition
stands for which lines, which run checks which property, and which hazard of
the code a property is about.

## 1. The system

`factory` is a command line program (Go) installed *into* a user's project,
beside the shell runtime, packs and templates it maintains there. Every command
is a separate operating-system process; several may run at once in the same
project, any of them may be killed, and some of them start native agent process
groups that outlive them. What they share is the file system: there is no
server. Correctness therefore rests on four disciplines:

* **exclusion**: whole-project transitions (installing, upgrading, publishing an
  assessment, recovering one) never meet ordinary work;
* **durable evidence**: what is running, or may be, is on disk before it starts,
  and is removed only after a terminal record;
* **journals**: a multi-file change records its intent and what it observed, so
  that a later process can finish or reverse it;
* **locked replacement**: small JSON state is changed under a lock by writing a
  new file, renaming and syncing, and a failed call may nevertheless have
  committed.

### Inventory

| component (`src/internal/...`) | state it keeps | operations | what is hard | what makes it correct | status |
|---|---|---|---|---|---|
| `transition` (guard, root lease) | kernel locks on the project and on `runtime-activity/`; activity markers; `runtime-publication.pending` | `ReadOnly`, `RootExclusive`, `Shared`, `Exclusive`, `ExclusiveRecovery`, `Close` | interleaving of lock, marker and barrier; a controller dies and its children go on; power loss before a directory sync | a transition meets no work; the barrier stops new work; evidence is never lost | modelled, proved |
| `installation` (transactions) | journal `installation.json`, before-images, selected files, pending marker | upgrade, rollback, recover, abandon; candidate checks | crash anywhere in a multi-file switch; user edits; recovery of a recovery in the other direction; unknown checks | atomic: old or new or barred; nothing irrecoverable is destroyed; recovery completes | modelled except opaque optional rows |
| `installation` (retention) | holds, before-image sets, prune journal | hold, prune, resume; removal after a later release | crash in a prune; a hold placed meanwhile | a held or needed set is never removed; whatever is missing is accounted for | modelled except previews and release proofs |
| `budget` | ledger `.factory/budget.json`, reservations | plan, admit, publish identity, finalize; operator repair | plan/lock race; ledger publication in doubt; owner death; unconfirmed exit | limits hold; running work stays reserved; a stuck reservation is visible | modelled except cost thresholds |
| `native` | a process group, pipes, timers | spawn, supervise, signal, reap | leader gone while the group lives; deadlines racing exits | exit is reported confirmed only when the group is gone; a limited call returns | modelled except how commands are built |
| `loop` | `.factory/loops.json`: a checkpoint per session and task | plan, admit, resume, implement, check, review, hand off, close; operator recovery | plan/lock race; edits between check, review and verdict; deadlines, signals and deaths at any save; groups that outlive their supervisor | one task is open at a time and native work is over before it closes; attempts, time and evidence are never given back; a verdict is about what was checked | modelled except how snapshots are computed |
| `assessment` | assessment set, manifests, publication, recovery journal | publish, restore, interrupted recovery, recovery creation | rename and sync apart; consent older than the exclusion | the barrier outlasts doubt; recovery acts on what was consented to; a backup is on disk before it is relied on | modelled except the content of assets |
| `reviewbatch` | plan, per-batch results, shared allowance | replay, split, plan, reserve, send, retry, aggregate | coordinates shift as hunks apply; workers race for the allowance; partial failure | the parts are the whole; failure is never reported as success | modelled except prompts and protocols |
| `statefile`, `filepublish`, `eventlog`, `streamfile`, `installationfs` | one file each | locked replace, append, publish without replacing | reader during replacement; rename committed but sync failed; the lock removed while held | a snapshot is one version; a reported save survives; a failure says whether it may have committed | `statefile` modelled; the others as their callers use them |
| `releasecmd`, `staging`, `packaging`, `copymanifest`, `cmd/factory-*` | a private build directory | stage, sign, assemble | partial failure | only a complete set becomes visible | planned |
| `initcmd`, `migrateconfigcmd`, `synccmd`, `config` (writes) | `factory.yaml`, adapters, framework files, backups, pending marker | initialise, migrate, set, synchronise | no lock but an installation's: people and other commands write between any two looks; death between files | what people wrote is kept; a partial installation is not taken for one; adapters never go back | modelled except questions and content |
| `review`, `reviewci`, `reviewlanecmd`, `adversarialreviewcmd` | the pull request's check and comment; the lane's setting and workflow | fetch, reconcile, review, conclude; enable, disable | the head moves meanwhile; a call's answer is lost; half a lane | the diff reviewed is the change; success means covered; a lane that is on is installed | modelled except the transport |
| `installedlayout`, `installedproof`, `installationimage`, `qualification`, `sourcebootstrap`, `githooks` | none | check an installed tree | their lease | see `transition` | lease modelled |
| `jsonvalue`, `input`, `fileinput`, `terminalinput`, `command*`, `configuredcmd` | none | parse, validate | none concurrent | table tests reach it | not modelled |
| `metricscmd`, `reportcmd`, `usage`, `evalcmd`, `artifact`, `doctorcmd`, `checkcmd`, `prereqcmd`, `recoverycmd` | none | read and render | none | table tests reach it | not modelled |
| `cmd/factory`, `cli`, `bridge`, `*cmd` shells, `scripts/`, `runtime/`, `packs/` | none | dispatch | which lease a command takes | see `transition` | not modelled |

### How the components meet

* `cmd/factory/main.go:41-62` opens every installed command under a shared
  project lease (`installedlayout.Open` -> `transition.ReadOnly`); upgrade
  commands take `RootExclusive` in `installation`.
* `budget/runner.go:86` and `loop/manual_run.go:72` work under `Shared`, which
  adds a marker; `assessment/publication_storage.go:38` and
  `installation/transaction.go:69-88` take `Exclusive`; recoveries take
  `ExclusiveRecovery`, which tolerates the pending barrier.
* `budget` starts `native` groups, and hands its `Finalize` verdict to
  `Guard.Close`: clean removes the marker, anything else keeps it. That is the
  one channel by which a budget failure bars an upgrade.
* `installation` raises and lowers `runtime-publication.pending`, which makes
  `Shared` refuse. `assessment` publications and `initcmd` raise the same marker.
* `assessment` publishes only over a recovery set that it checked and synced
  (`publication_storage.go:122`).
* `budget` and `loop` keep their documents through `statefile`; the short
  commands replace `factory.yaml` through `config`, without a lock.
* `initcmd` runs `synccmd` and `reviewlanecmd` after its own files.
* `reviewci` feeds the trees and the diff it fetched to `reviewbatch`, and turns
  the report into the conclusion of the check.

## 2. Modules

| module | models | abstract counterpart |
|---|---|---|
| `RuntimeExclusion` | what callers of the guard rely on | (is one) |
| `TransitionGuard` | `transition/guard.go`, `root_lease.go`, system call by system call | `RuntimeExclusion` |
| `TransitionGuardProofs` | theorems about it | |
| `AtomicInstallation` | an installation that is old, new or barred | (is one) |
| `Installation` | `installation/transaction.go`, `recovery.go`, `preparation*.go`, `storage.go`, `unresolved.go` | `AtomicInstallation` |
| `InstallationProofs` | theorems about it | |
| `BudgetExecution` | `budget/plan.go`, `lifecycle.go`, `runner.go`; `native/execute.go` as one step | |
| `BudgetExecutionProofs` | theorems about it | |
| `LoopOwnership` | what controllers of one checkout promise together | (is one) |
| `Loop` | `loop/manual_run.go`, `bounded.go`, `manual.go`, `resume.go`, `store.go`, `probe.go` | `LoopOwnership` |
| `LoopProofs` | theorems about it | |
| `Retention` | `installation/retention_*.go` | |
| `RetentionProofs` | theorems about it | |
| `Assessment` | `assessment/publication*.go`, `durable_publication*.go`, `interrupted_recovery*.go` | |
| `AssessmentProofs` | theorems about it | |
| `RecoverySet` | `assessment/recovery_*.go`, `checkedBackup` of `publication_storage.go` | |
| `Supervision` | `native/execute.go`, `inherited.go`, `command.go`, `cooperative.go`, `bounded_command.go` | |
| `SupervisionProofs` | theorems about it | |
| `ReviewInputs` | `reviewci/large_diff.go`, `reviewbatch/apply.go`, `diff.go`, `plan.go`, as operators | |
| `Review` | `reviewci/command.go`, `reviewbatch/execute.go`, on the inputs of `ReviewInputs` | |
| `StateFile` | `statefile/storage.go` under `budget/storage.go` and `loop/store.go` | |
| `StateFileProofs` | theorems about it | |
| `Checkout` | the files short commands share, and how one is replaced | |
| `Settings` | `config/write.go`, `migrateconfigcmd`, `reviewlanecmd`, on `Checkout` | |
| `Setup` | `synccmd`, `initcmd`, on `Settings` | |
| `MC_*` | constants for TLC | |

### TransitionGuard

A controller's variables are what it holds in the kernel (`lease` on the
project directory, `flock` on the activity directory), the marker it created,
and `pc`, its place in `acquire`; shared are the visible markers (`activity`),
those whose directory entry was synced (`durable`), the pending barrier, the
native groups that run (`children`) and the markers whose work has no terminal
record (`unresolved`). Each action is one or a few system calls that the kernel
orders: `AcquireLease`, `AcquireFlock` (with the first look at the barrier),
`Mark`, `Grant` (sync and second look), `ReadActivity` for exclusive owners,
`Unlink`/`CloseClean` for the two halves of `Close`. `Abandon` is any failing
return and also the death of the process, because `closeFiles` and the kernel do
the same to the locks. `PowerLoss` kills everybody and keeps only `durable`.
Leases are non-blocking in the code, so a refusal is a step not taken.

### Installation

One operation runs at a time: the guard excludes others, as proved above. The
model keeps its local memory (`mem`, the in-memory record), the durable journal,
the before-image set, the barrier and every selected file as content plus file
identity, since recovery decides by identity. A save of the journal
(`Save`) may succeed, fail with the old record or fail with the new one. `Fail`
and `Crash` may happen at each step; `Edit` is a user changing a selected file.
Candidate checks are "open" from before they start until their end is recorded.
Recovery is modelled with its real decision procedure (`RowConflict`,
`Plannable`, `PlanTo`), not with an idealised one.

Abstracted: the content of `.gitignore`, the tree qualification and package
provider (they only refuse), the number of candidate checks (one or more),
opaque optional rows, and replay of a finished operation under its own
identifier. Publishing a file and syncing its parent is one step whose failure
may leave either outcome.

### BudgetExecution

`ledger` is the sequence of reservations; each locked read-modify-publish is one
action that may also fail before or after its rename. `pc` walks through
`Runner.run`. The unlocked plan (`Start`), the native probes (`Preflight`), the
locked plan (`Admit`), the launch, the publication of the process identity, the
supervised end, `Finalize` and `Close` are separate actions, so everything of
another controller may come between. `children` are native groups, which outlive
a crash of their controller; `markers` are the ones left in the guard. `Repair`
is the procedure of docs/BUDGETS.md with its preconditions.

What the code knows of an owner is a process number, which it asks with a signal 0
(`ownerAlive`); `alive` are the numbers some process has. `orphans` are the active rows
whose controller has ended, which nobody in the program can see. `Renumber` gives the
number of an ended controller to another process, or ends that one, as often as the
kernel likes: a row then stops blocking and starts again. A controller itself starts
under any free number, one that is on record included.

### Loop

Run holds the loop lock from its second look at the checkpoints to its last
save, so `mem`, what one invocation knows, belongs to the one process inside the
lock; `disk` is what is published. `pc` walks through `Run`, `bounded`, `invoke`
and `checkStage` with one action between any two points where something else
may come in: a look at the checkout (`Fresh`), a save (`Save`, `Poisoned`), the
start, the identity and the end of a native group. Around it `Edit` changes the
checkout, `Tick` uses up the total time, `Signal` cancels the parent context,
`Crash` kills a controller, `GroupExit` ends a group nobody supervises, and
`RepairBudget` and `Recover` are the procedures of docs/BUDGETS.md and
docs/LOOPS.md, in that order. A save needs time left; one that fails otherwise
may have replaced the checkpoint, after which the invocation writes nothing.

The budget runner appears as what `invoke` sees of it: refused, launched, ended,
or one of the failures `reconcile` tells apart. Budget runs of other commands
appear as refusals that may come at any time. The checkout is two fingerprints,
its source and everything that may not change under a task; evidence is kept as
the set of sources that passed and the set that was approved.

The refinement reads a task as open while its checkpoint is active or uncertain,
and native work as the checks and model invocations that may be running.
Snapshot probes are not in it: see the last paragraph of section 3.

### Retention

One command works at a time, so `pc` and `mem` belong to it: an upgrade that goes on to
remove what its plan found eligible, or a removal on request. The removal is
`executeRetentionPrune` step by step (`Record`, then `Intend`, `Unlink`, `Sync`, `Advance`
for each row); `progress` is its record on disk. A recovery set is where it leads from and
to, whether its journal is still forward, and the identity of each entry. `unsynced` are
the unlinked entries whose directory was not synced: `PowerLoss` may bring them back.
`Abort` is any error and the death of the command. Releases are numbers, `Installed` is
where it starts, and those in `Unordered` have tags that are no versions: they neither
advance retention nor come before or after another one. `Restorable` is what a rollback
asks of a set, and `Alternates` what a removal asks of the set it relies on; the two
differ. Upgrades and rollbacks are single steps, atomic as `Installation` shows. Saving
the progress record is atomic here; the assets, and the manifest with its receipt, are one
entry each, since the rows of one kind are treated alike.

### Assessment

One file of the catalog is replaced. `now` is what the file system shows (the file, the
record and the pending marker) and `disk` what a power failure may leave of each, a set of
values per name: a write or rename adds a value, a sync of the right directory leaves one.
The file is its image and its identity (inode, and whether a rename moved its change
time), because eligibility for recovery is decided by identity. `call` is the call at work
and `at` its next step; `Steps` gives the steps of each call in the order of the code. A
publication without a record has fewer, and a restore with nothing to reverse starts
behind the swap. Each step may succeed, fail without effect, or take effect and report an
error, after which the code's own continuation runs (`Apply` restores, `Close` keeps the
barrier in doubt). `h` is the live handle of a publication, a restore or an interrupted
recovery, with the direction and the state its consent was given for; `agreed` are the
states somebody was asked about earlier. The handle without a record (`legacy`) is
modelled too; the properties about records leave it out. The user does not edit between
the last look and a rename (`Quiescent`), which the code requires of the namespace
(docs/adr/0094:50-56).

### RecoverySet

Two processes share `.factory/backups` and `.git/info/exclude`. `now` and `disk` are
as in `Assessment`, per name. The ignore rule is a length and a leading character, so
that a partial append and the one-byte activation are what they are in the code. A
call is again a list of steps (`create`, `reuse`, or a publication over a checked
set), each of which first checks what the call has pinned; `holder` is the creation
lock. The user may track or un-ignore the paths, customise an original, hold, copy or
tamper with the set.

### Supervision

`pc` is the calling goroutine, `waited`, `reader`, `feeder` and `watcher` the others;
`leader`, `child` and `away` are the leader, a member of its group and a process that
left the group and still holds the pipes. The members do what they like: exit, fork,
flood the output, stop, be killed, hand the pipes on. `kind` is the entry point; what
an entry point does not have (pipes, a deadline, a terminal) is absent from its
steps. Deadlines and cancellation are events that may come between any two steps.
Each call of the watcher at the terminal may fail and end the supervision with an error
(`Failed`), and so may the one that takes the terminal back at the end (`Leave`).

What is said of a group is said of that group. A cooperating runtime supervises native
groups of its own; when its cleanup of one fails it returns an error and exits, by
itself and in time, and the outer call confirms its end (`execute.go:411-416`,
`recovery_git.go:36-40`). docs/adr/0122:155-166 says that this is no proof about the
tree of processes. In the model such a group is among the processes that left
(`away`), the leader may exit however it likes, and `ConfirmedIsGone` claims of a
cooperating runtime only that it was neither killed nor signalled.
`BudgetExecution` takes one step of this: the result `unconfirmed` there is what
`ConfirmedIsGone` says of it here, and its `children` are the groups that are supervised.

### ReviewInputs and Review

`ReviewInputs` is a pure module: trees, manifest rows, patches and hunks are data, and
the functions of the code that reconcile, apply, parse, split and pack them are
operators that return a result or `None` where the code refuses. Line contents are
model constants, and lengths are counted so that batches and lines go over the limit.
`Review` runs them once per behaviour for a chosen input, then sends the batches:
`worker` is the goroutine of a batch, `ledger` what is used of the allowance `allowed`
(requests, tokens, input), `answered` the last answer received. `bound` says whether the
pull request is at the revision the run was given. A push may come between any two
steps, away from it and back; `shown` remembers whether the diff that was fetched was of
that revision, of another one, or of another one whose pull request has come back since.
`ctx` ends by a signal or the total deadline; a request may be answered by any of the
streams, one of them with more findings than a batch may have, refused, cut off, or
never answered.

### StateFile

Names point at inodes. A document is the set of publications it carries, so that a
lost update is a publication missing from a later document. `mem` holds for each
process its place in `Read`, `Publish` or the loop's transaction, the descriptors'
inodes and what was stat'ed. `onDisk` are the inodes the name may hold after a power
failure. People may edit or move the document or remove the lock file, `touched`
remembers when the document was moved under a writer, which the code excludes. Each
change of a file gives it a later time, where the code compares time and size.

### Checkout, Settings and Setup

`Checkout` has the files by role (`tree`, a leaf with identity, text and mark each),
the exclusive backups, the lease and the processes, and the one discipline all these
commands use: look, prepare a sibling, look again, rename. `gap` records what was
written between that second look and the rename, which the code says it does not
protect (`config/write.go:20`, `migrateconfigcmd/files.go:160`). `Settings` adds
`Set`, `migrate-config` and the review lane, whose switch and workflow are two files;
`Setup` adds `sync` and the two initializations, qualified (`init`, with lease and
pending marker) and not (`reinit`, over an existing checkout, with backups), which run
`sync` and the lane at their end. A cancellation while they do aborts the initialization,
after a rollback of the lane, which has a context of its own; another failure is a
warning. `sync` checks its source, then each target in turn, then the source again.
`source` stands for `opencode.json` with the role
files, `asset` for a framework file; reading a file twice and comparing is one step.

## 3. Runs

| run | bounds | shows |
|---|---|---|
| `guard` | 3 controllers, 2 marker names, symmetric | a transition, a worker and a reader at once, with evidence of an earlier worker: the guard implements `RuntimeExclusion`, and evidence survives. 24 thousand states |
| `installation` | created + replaced + unchanged + retired + metadata row, 2 faults, 1 user edit, `FairSpec` | atomicity (refinement), recoverability, unknown checks, and the end of recovery after one fault: 262 thousand states |
| `budget` | 2 controllers, 3 tasks of one session, task limit 1, session limit 2 runs and 3 units, allowance 2, grace 1, 2 faults, `FairSpec` | limits, reservations, evidence: 1.1 million states |
| `loop` | 2 controllers, 1 bounded and 1 manual task, 2 attempts, no progress allowed, 1 unit of time, 2 sources, 1 failing output, 1 death or failed call | ownership (refinement), verdicts, markers, and every stage is nearer to the end: 2.5 million states |
| `retention` | 3 releases, 3 recovery sets, 1 set the user touches once | sets and records agree, what a rollback would accept remains: 3.7 million states |
| `retention_alternate` | the same from the middle release, no touch | refutes `AlternateIsUsable`, see below |
| `assessment` | 1 file, 10 inode numbers, 1 edit, 2 faults | doubt keeps the barrier, interruptions are resolvable in the way consented to, settled things stay: 1.0 million states |
| `recovery_set` | 2 processes, 2 catalog files, 1 change by the user, 2 faults, symmetric | the ignore rule, durable claims, backups before publications: 2.5 million states |
| `supervision` | all 7 entry points on both systems, 3 processes, 1 stop, `FairSpec` | confirmed exits, whole success, the terminal, the return: 1.7 million states |
| `review` | all trees of 3 paths and 2 contents, and of 2 paths with every kind of entry, with every manifest; 1 file of 2 lines with every patch of 1 or 2 hunks; batches of 3 bytes, 2 workers, 1 retry, 2 sets of allowances, `FairSpec` | the diff is the change, the plan is the diff, the report and the check are true, the run ends: 3.8 million states |
| `state_file` | 1 unlocked reader with 2 attempts, 1 ledger operation, 1 loop transaction of 2 saves, 1 act of people, 2 faults | snapshots, saves, readers: 5.6 million states |
| `checkout` | 15 pairs of commands with the checkouts they meet, 2 edits, 1 death, failed call or cancellation | authored content, lanes, installations, adapters: 3.5 million states |

Every passing run is exhaustive for its bounds. Each property of one has at least one mutant
of a mapped definition (`PROJECT.json`, "mutants") that its run refutes.

Why these bounds: the guard's conflicts are between at most two parties, and the
third controller is the bystander that would see a broken exclusion; its proofs
remove the bound altogether. A file switch treats rows one by one, so one row of
each kind covers each branch; two faults are needed because the interesting
recoveries are recoveries of an interrupted recovery. In the budget run, the
two reservations overlap, the second is squeezed to what the first leaves, the
third task is refused, and the two faults combine a doubtful publication with an
unconfirmed exit or a dead owner. Numbers are used again without a bound.

In the loop run the second controller meets what the first one left (its
checkpoint, its resumable check, its surviving group) or races it between plan
and lock. Two attempts are the fewest with a repair; one unit of time makes
every save, look and launch one that may come just in time or too late. One
fingerprint for what must not change is enough: a changed one leads to the same
hand-off as a changed source. `launched` is counted to one past `MaxAttempts`,
which is where a property could notice. With two attempts a
repair asked for by a reviewer is followed by a failing check, and the other way round.
A process runs one command, so the two controllers are also all that are started.

`RunsAdvance` is what makes a run end: `StagesLeft` counts the stages a controller has
before it at most, and each stage it enters leaves fewer. That it does enter the next one
is `RunsEnd`, under fairness; `LoopEnds.cfg` (one controller, three attempts, two failures,
123 thousand states) checks it, by hand like the configurations of the disagreements below.

Three recovery sets are the one removed, the alternate and one more to compete
with either; three releases are the fewest with a set that is neither current nor
the predecessor. A touch is a change, a removal or an addition. In the run
every release is a version; `RetentionUnordered.cfg`, checked by hand like `LoopEnds.cfg`,
starts from one that is not (732 thousand states), and the proofs leave open which are.

`RecoveryCompletes` excepts three things: a second fault, a user edit (a conflict by
design), and a file that is gone without a record of it (`Unaccounted`), which
recovery deliberately refuses (docs/adr/0098, line 190).

In the assessment run two faults give an interrupted recovery of an interrupted
publication, or a failed call and a power failure. Two processes are what a reused
recovery set needs; a second file makes partial sets. The supervised group has one
process of each relation to it. The review's inputs are exhaustive for their size:
that is where a missing case of the reconciliation or an off-by-one of a header would
hide, and of the two allowances one runs out of requests or of input for two batches with
a retry, the other of tokens. In the
state file run the act of people meets two writers and a reader, and a reader with
two attempts can be outrun by the three publications. The pairs of the checkout run
are those of commands that write a common file; processes die, but power is not lost
there, because none of these commands promises durability before it ends.

`CHECK_DEADLOCK FALSE` is used where the system may really stop: all installations are
done or refused, all budgets are used up, every process has run. The guard never stops,
and its run checks for deadlock.

### Fairness

* Guard, retention, assessment, recovery set, state file and checkout: none; their
  properties are safety properties.
* Installation: `WF(Operate)`: an admitted operation is a running process.
  `SF(Prepare)`: the candidate checks are finitely many, so their loop ends.
  `WF(recover)`: an operator who meets a barrier asks for recovery; nothing says
  which direction.
* Budget: `WF(Step(p))`: every wait of a controller is bounded by the allowance
  or the cleanup deadline. `WF(Exit(p))`: a command that has returned from `Run`
  ends. Nothing is assumed of native groups, of the operator, or of who is
  given a number next.
* Loop: the run has safety properties only. `RunsEnd` assumes `WF(Step(p))` per controller:
  every call it makes is bounded by the total time or the cleanup deadline. Time itself is not assumed to pass, so the end
  is due to the limits on attempts, progress and repeated failures.
* Supervision: the supervisor's own threads run, the kernel reports what happened,
  an armed deadline expires, and a user resumes what he stopped. Nothing is asked of
  the group: it may ignore signals and hold the pipes for ever.
* Review: the process and its goroutines run, and a request without an answer reaches
  its deadline. Nothing is asked of the provider or of GitHub.

### Disagreements with the documentation

Six properties that documents, or the program's own messages, state are refuted by the
models. Each has a configuration that ends in the counterexample: `RetentionAlternate.cfg`
is the run `retention_alternate` of `PROJECT.json`; the other five are not among its runs
and are checked by hand, with `tlc -config X.cfg` on the `MC_` module of the component.
For the last three, what does hold is checked by the passing runs, with the exception
written into the property (`RecoveryRemains`, `ReservationResolves`, `SuccessIsCovered`).

1. `UnrecordedMarkerComesDown` (`InstallationMarker.cfg`, under `PersistentSpec`).
   docs/adr/0098:223: "On restart keep pending and report a concrete recovery
   command". `Complete` publishes the marker (transaction.go:297) before the save that
   records it (342). After a crash in between, `Begin` sets `preparationRecovery`
   because the journal has no pending (112) although the marker exists (213-224);
   `Complete` then takes only the abandonment path (257), whose `discardPreparation`
   does nothing while `owner.pending` is not nil (preparation_recovery.go:16), so
   every recovery ends in a conflict and the barrier stays.
2. `ReconciledOnRestart` (`InstallationRestart.cfg`). docs/adr/0098:512 lets recovery
   reconcile a publication that was not recorded when the file matches the prepared
   object. A forward operation dies between the rename and the save of `observed_after`;
   reverse recovery accepts the file and saves `reverse_prepared` for its row (transaction.go:313-344), and
   dies before it stages it. From then on recovery.go:216-218 wants the still forward
   prepared object to have the content of the original, so the untouched file counts
   as unconfirmed intent (219) and both directions are refused.
3. `EvidenceIsRetryable` (`InstallationEvidence.cfg`). docs/adr/0098:233-234: "unresolved
   operations keep retryable evidence". A rollback saves phase `checking` over the
   committed record before its marker goes up (preparation.go:70-75). Interrupted there,
   the record is not committed, so another rollback is refused (recovery.go:60); its pending field still
   holds the marker of the finished upgrade, so it is no preparation either (81-86).
4. `AlternateIsUsable` (`RetentionAlternate.cfg`). docs/migration/BACKUP_RETENTION.md:48-50:
   a prune on request needs "a usable alternate recovery"; docs/adr/0106:50-51 and the
   refusal at retention_controls.go:336 say the same. `PruneBackup` takes any complete
   set whose target is the current release (retention_controls.go:318-334), also that of
   an upgrade that was rolled back or recovered in reverse, which no rollback accepts
   (recovery.go:60). What does hold is `RecoveryRemains`: the set that is removed is not
   one a rollback would accept, so whatever could be gone back with still can.
5. `OrphanFailsClosed` (`BudgetReuse.cfg`). docs/BUDGETS.md:129-131: a record that "remains
   active after an unclean supervisor death" fails closed, and docs/adr/0093:59-60 counts
   reused process numbers among what cannot establish exit. `ownerAlive` asks for the
   number alone (plan.go:148), so a process that was given the number of a dead controller
   answers for its reservation, and another invocation is admitted beside it. The row and
   the marker stay, so limits, time and the bar on transitions are not affected, and it
   blocks again once that process is gone.
6. `SuccessIsOfThisRevision` (`ReviewRevision.cfg`). The check is published with "Coverage is
   incomplete until all batches finish for this exact revision" (command.go:178). A raw
   diff is fetched by the number of the pull request and does not say whose it is. The
   head is compared before the diff is fetched (168), after it (208) and before the
   comment (243), so a pull request that left and came back between two looks is not
   noticed. `SuccessIsCovered` says what is left: that is the only such case.

Modelled behaviour worth knowing, outside what the properties promise:

* Installation: a rollback interrupted before a retired file's turn is `Unaccounted`
  too. `Keep` interrupted leaves its `.installation-stage-` directory.
* Loop: `probe.go:23` reports a snapshot probe whose end is unconfirmed as a plain
  error; the hand-off is certain, and the next controller may launch beside the
  probe (docs/LOOPS.md:62-64 speaks of an uncertain checkpoint). The activity marker
  stays. A deadline or signal at a save between two stages (`bounded.go:42`) leaves
  the task to the operator.
* Retention: a rollback of the set whose removal was interrupted rewrites its
  journal, so that no retry accepts it (`retention_resume.go:50`).
* Assessment: docs/adr/0096:183 resolves a prepared reversal with the after-image in
  place; it is refused (`publication_storage.go:314-326`,
  `interrupted_recovery_observe.go:370-371`) when the forward image was never recorded
  as published, which is why `Resolvable` excepts it. The handle without a record may
  apply again after a restore (`publication.go:127`, docs/adr/0094:54). An occupied
  incomplete recovery set is never completed, and `checkedBackup` does not sync the
  content of the manifest again.
* Native: `terminal.restore` is unconditional, so a call that was sent to the
  background takes the terminal back when it ends.
* Review: a batch whose retry the allowance refuses is reported `skipped` though one
  attempt was made, and the usage of a first attempt answered 429 or 503 is not
  counted. A fragment with only additions or only deletions has a zero-length side
  whose header is one past the convention. A check whose PATCH is lost stays in
  progress.
* Durable files: `Publish` compares identities, not times, so an edit in place
  between the locked read and the rename is lost; temporaries of killed writers stay.
* Checkout: `enable` and `disable` together can end with the lane off and the
  workflow there although `disable` reported it absent. An `enable` that fails at a
  later setting keeps the earlier ones. An initialization renames over a file that
  appears under an absent name after its last look. `migrate-config` does not look at
  the YAML again between publishing it and renaming the legacy file.

## 4. Proofs

`TransitionGuardProofs` proves, for every set of controllers and marker names:
`TypeCorrect`, `TransitionsExclude`, `PendingBars`, `EvidenceKept`,
`InstallerIsAlone` and `GuardImplementsExclusion` (the refinement). The only
assumptions are the named ones of `TransitionGuard`: the two null values are not
names or processes.

The stated invariants are not inductive: that a transition is exclusive follows
from the lock only together with what each stage of `acquire` holds, and only
because native work always has a marker. `IInv` adds `StageInv` (what is held
at each stage), `LockInv` (an exclusive holder is the only one), `MarkerInv` (a
marker belongs to one worker, is visible while held and durable once granted),
`ChildInv` (a running group has an unfinished record) and `QuietInv` (a
directory found empty under an exclusive lock stays empty). The proof has one
lemma per action, each with one step per disturbed conjunct. Exclusion then
reads: a granted transition saw an empty directory (`QuietInv`), running groups
are unresolved (`ChildInv`) and unresolved work is in the directory
(`EvidenceSurvives`), hence there are none; and two guard owners contradict
`LockInv`. The refinement maps a step that changes no grant to a stutter and a
grant, an end or a barrier move to its abstract counterpart.

`BudgetExecutionProofs` proves, for every set of controllers and tasks, every
grouping of tasks into sessions and every value of the limits: `TypeCorrect`,
`LimitsAreKept` (the session never exceeds its runs, no task its own),
`NativeStaysReserved`, `EvidenceKept` and `OrphansBlock`. It assumes what
`BudgetExecution` names: there is something to request (`RequestsAssumption`) and
the limits are positive numbers (`LimitsAssumption`).

`IInv` is `TypeOK`, `NativeIsReserved` and three parts. `RunInv`: a controller
past admission has a row of its own, active until its finalization, and an
earlier one has neither row nor dirt. `GroupInv`: what supervision reports of a
group is true of it. `EvidenceInv`: an active row has a marker in the guard, left
or held, or a controller that will leave one. The limits need one more idea: a
step either appends one admitted row (`Grows`) or keeps every row's owner, so
that no count rises (`LedgerSteps`); an admission had room for one more
((`RoomForOne`). `OrphansBlock` says that nothing is admitted while the group of a
controller that has ended runs, unless another process has that controller's number:
the row of such a group is active (`NativeIsReserved`), so `Admit` found its number in
use. Without the exception it is false, as `BudgetReuse.cfg` shows; limits, reservations and
evidence do not depend on who answers to a number.

`StateFileProofs` proves, for every number of readers and writers, attempts, acts of
people and failures: `TypeCorrect`, `SnapshotsAreTrue`, `SavesStay` and
`ReadersAreOutrun`, the three properties of the run, and `LockSuffices`, why a
cooperating process needs no second look. The one assumption, `StateFileAssumption`,
gives every process one of the three protocols and every bound a natural number. What
makes `SavesAreKept` inductive is that a staged file is nobody else's (`TempInv`: no
name, descriptor or document refers to it), that a writer's value is what it read and
one publication more (`WriteInv`), and that whatever a power failure may leave under the
name was synced and carries all that was reported (`DiskInv`, `SavedInv`). The step that
matters is the rename: the second look found the inode the value was derived from, so
what is replaced is contained in what replaces it. The lock is not needed for that as
long as the document moves only by publications (`~touched`); that nothing moves in the
gap between the look and the rename when nobody intervenes is what the lock gives
(`LockInv`). `RoundsInv` counts for a reader that each attempt it lost was lost to a
publication of its own.

`SupervisionProofs` proves, for every set of entry points and any number of terminal
stops (`SupervisionAssumption`): `TypeCorrect`, `GroupIsGone`, `SuccessIsEarned` and
`TerminalReturned`. The invariant says what the end of the call may rely on: a status
that was collected is of a leader that is gone (`ExitInv`), a runtime that answered
in time is not among what was killed (`ForcedInv`), a confirmed absence was
asked for after the last process that could fork had been reaped (`GoneInv`), a drained
capture has no reader left to change its verdict (`DrainInv`), and the watcher gives the
terminal back before the call ends (`TerminalInv`). Nothing is assumed of how a leader
exits or of what it leaves behind, and nothing is concluded about processes that left the
group, a cooperating runtime's own groups among them. `TerminalReturned` has the exception
the code has: when taking the terminal back fails, the call returns that error.

`LoopProofs` proves, for every number of controllers, tasks, sources, failures
and every value of the limits: `TypeCorrect`, `VerdictHolds`, `GroupsMarked`,
`ImplementsOwnership`, that the whole machinery implements `LoopOwnership`, and
`StagesRunOut`, that no controller takes more stages than its attempts allow. It assumes
what `Loop` names: exit codes are numbers and 0 is one of them (`CodesAssumption`), the
limits are positive (`LimitsAssumption`), a task is manual or bounded (`ModeAssumption`),
there is a task and a checkout (`CheckoutAssumption`), and "no row" is not a row
(`NoRowAssumption`). A verdict is about the content of the checkout several steps
earlier, so `InsideInv` says for each stage of an invocation what it may rely on:
`Sound` (the evidence in memory is of the source looked at last), `Owned` (the task of
the open checkpoint is the one asked for, and native work is its own), `Marked` (which
groups the stage may have running) and `Paid` (memory is at most one attempt ahead of
the disk). `RowInv` is the point of saving before launching: attempts are counted before
they are made, so a row that a crash leaves behind never gives one back.
`OwnershipInv` keeps one task open and native work within it, and `MarkerInv` covers the
time when nobody is inside. The refinement has one lemma per stage, each of which ends
in one of six abstract steps (`OwnStutter`, `OwnWork` and the others). `StagesRunOut` needs
of the invariant only that one controller is inside and which role the implementer's
stages have: most steps keep the attempts and the role (`KeepingStep`), beginning an attempt
counts one, and the reviewer's stages come after the check's.

`InstallationProofs` proves, for every set of rows with their images and every number of
faults and edits: `TypeCorrect`, `Recoverable`, `EvidenceKept`, and `SwitchIsAtomic`, the
refinement of `AtomicInstallation`. It assumes what `Installation` names: each path
occurs once in the order and the metadata row and "no row" are not among them
(`RowsAssumption`), every row has an image on one side (`ImagesAssumption`), the bounds
are numbers (`BoundsAssumption`), and "no journal" is not a journal
(`NoRecordAssumption`). The type invariant already has content: a stage always finds an
identity nothing remembers. Beside it `IInv` has

* `SavedInv`: where the record in memory equals the durable one, and where a failed save
  leaves that open;
* `OriginInv`: every image a row may have is accounted for, as the record's before-image
  or as one an operation staged, which is how recovery tells its own files from a user's;
* `BarrierInv` and `SideInv`: the barrier, the complete before-images and the recorded
  direction come before the first change;
* `DoneInv`: a row the operation has passed reads as planned unless a user edited it;
* `WholeInv`: in front of the barrier the installation is one whole side.

`ReplacedIsRecoverable` follows from `OriginInv` and `BarrierInv`;
`UnknownCheckIsEvidence` from `SavedInv` (no operation goes on from a record with an open
check). The refinement follows from `WholeInv`: the files change only behind the barrier,
and the barrier comes down only over a whole side. It has one hypothesis that the other
theorems do not need, `Cardinality(Changed) > MaxEdits`: of the files in which the two
installations differ, users leave one alone. Otherwise the edits alone could turn the one
installation into the other, which no transaction can prevent or notice. The run meets
the hypothesis, with one edit and three such files.

`RetentionProofs` proves, for every number of releases and recovery sets and whatever the
user touches: `TypeCorrect`, with which every record a removal writes can be read by a
retry, `RecordsTrue` and `RecoveryStays`. It assumes what `Retention` names: releases and
identifiers are numbers (`ReleasesAssumption`, `IdsAssumption`; the inventory has a first
one), and the three null values are no sets, records or memories (`NullAssumption`). Its
first lemmas are about the rows of a removal: each part there is occurs once, the row in
hand is not among those done, and to advance adds just that row. The invariant ties the
three places that know of a removal together. `ProgressInv`: the record on disk explains
what is missing from its set; before the first row is gone a rollback may still have
rewritten the journal, the one way in which an untouched set and its record disagree.
`UnsyncedInv`: only the row the record announces may be removed and not synced, so a power
failure brings back nothing that the record calls removed. `WorkInv`: what the command
remembers is that record, and the set it relies on is another one, which leads back from
the installed release. `AwayInv`: neither the set in hand nor one an upgrade goes on to
does, and the upgrade's own set is still forward. `RecoveryStays` follows from it: what is
removed is no set a rollback would accept, whichever of the releases can be compared.
`SetsInv` and `KeptInv` are about the other sets: whole or gone, and not removed while
they are held. `QueueInv` carries an upgrade's plan over to its removals.

`AssessmentProofs` proves, for every set of inodes and every number of failures, power
failures and edits: `TypeCorrect`, with which every record that may be on disk can be read
after a restart, `BarrierHolds`, `InterruptionsResolve`, `RecoveredAsProposed` and
`WhatIsSettledStays`, the four properties of the run. It assumes what `Assessment` names:
inodes are numbers and the original file has one (`InodesAssumption`), the bounds are
numbers (`BoundsAssumption`), and the three values that stand for nothing are no files,
records, handles or states (`NullAssumption`). None of the properties is inductive: each
is about what earlier calls have left, and their steps may have failed half way. The
invariant has

* `OpenInv`, `ApplyInv`, `FinishInv`, `RestoreInv` and `PlainInv`: what each step of each call
  relies on, with `CallInv` for which call a handle allows;
* `JournalInv`: what a handle takes to be in its record fits where the handle is (`Knows`,
  `Fits`), and so does the record or file that a rename with an unknown outcome may have put
  under the name. Hence the look that opens the next call decides between two states that
  both fit (lemma `Settling`);
* `RecordInv`: an outcome that may be on disk is the outcome under the name;
* `QuiescentInv` and `ConsentInv`: the last look holds until the rename, and a recovery is in
  the state that was consented to or has gone back already;
* as long as there are no edits and no publication without a record (`Quiet`), `DiskInv`:
  each record a power failure may leave explains each file it may leave (`Explained`), and
  the two agree on the outcome once the barrier may be gone; `SyncedInv`, which of the names
  a call has synced by each of its steps; and `OwnerInv`, that a handle at work knows what is
  under the names.

The proof goes through the steps of the calls. For each rename there are the outcomes that
it took effect, that it did not, and that it did and the handle does not know; for each
sync, that the set of values shrinks to the one under the name. `DiskInv` is a statement
about pairs because file and record are synced apart: an application syncs the record that
announces its rename before it, and the file before the record that reports it, and a
restore may begin over a file that was never synced. `BarrierHolds` is a part of
`DiskInv`; `InterruptionsResolve` reads `Explained` for the file and the record under the
names.

In all eight modules the invariant was checked by TLC on the instances of the runs before it
was proved.

The conjuncts these theorems have beside the runs' properties (`TypeOK`,
`TransitionExclusive`, `PendingBarsWork`, `InstallerAlone`, `OrphanBlocksAdmission`) are
proved for every size and therefore not listed in a run again; the first three also
follow from `ImplementsExclusion`.

Only model-checked:

* Every liveness property (`RecoveryCompletes`, `ReservationResolves`, `RunsEnd`, `Returns`,
  `Terminates`): fairness and `ENABLED` are beyond the prover.
* What a fold or a recursion computes, which would need induction over data: `TimeIsBudgeted`
  (a sum over the ledger), `ReportIsTrue` (a sum over the requests sent), `TreesExplained` and
  `PlanIsWhole` (the diff and the batches are built by folds), and all of `ReviewInputs`.
* `RecoverySet`, which declares a recursive operator: that takes the arithmetic prover away
  from every module that reaches it.
* `SuccessIsCovered` of `Review`, and `Checkout`, `Settings` and `Setup`: nothing in principle
  stands in the way of a proof; it has not been done.

## 5. Plan

Done, in this order: `RuntimeExclusion`, `TransitionGuard` and its proofs;
`AtomicInstallation` and `Installation`; `BudgetExecution` and its proofs;
`LoopOwnership` and `Loop`; `Retention`; `Assessment`; `RecoverySet`; `Supervision`;
`ReviewInputs` and `Review`; `StateFile`; `Checkout`, `Settings` and `Setup`; the proofs
about `StateFile`, `Supervision`, `Loop`, `Installation`, `Retention` and `Assessment`.

To be proved, most important first:

1. `Setup`: `RunnableIsWhole`.
2. `Review`: `SuccessIsCovered`.

### Not modelled

* Release and staging (`releasecmd`, `staging`, `packaging`, `copymanifest`): a
  sequential pipeline over a private directory, whose one publication is a rename;
  table and golden tests reach it.
* Parsing, validation and rendering, metrics, reports, usage, evaluation and
  diagnostics: sequential and read-only.
* Event logs and streams: single appends without a protocol between processes.
* The shell runtime delegates to the Go commands; packs and templates are data.
* Inside modelled components: the parts their rows in `PROJECT.json` name, which only
  refuse, format or copy.

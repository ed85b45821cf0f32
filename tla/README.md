# nukadoko: a verification of its concurrent core

`nuka run` executes Gherkin scenarios whose steps are written in TypeScript.
Most of the program is sequential text processing, and its unit tests cover
that well. This directory models the rest: the places where several processes,
promises, timers and signals meet, and the pure table that turns executions
into verdicts. The models are TLA+ modules, checked with TLC on small instances;
the results that matter most are proved with TLAPS for every value of the
constants.

Paths below are relative to the repository's `src/` (so `run/walk.ts` is
`src/run/walk.ts` of the repository); `docs/spec.md` is the product's own
specification. `PROJECT.json` holds the map from each definition to the lines
it models, the runs, the mutants, the hazards and the theorems.

Contents: [1 the system](#1-the-system), [2 the modules](#2-the-modules),
[3 the runs](#3-the-runs), [4 fairness](#4-fairness), [5 the proofs](#5-the-proofs),
[6 what disagrees with the documents](#6-what-disagrees-with-the-documents),
[7 what is left out](#7-what-is-left-out), [8 the plan](#8-the-plan).

## 1 The system

### 1.1 Components

| component | state it keeps | operations | what makes it hard | what makes it correct |
| --- | --- | --- | --- | --- |
| **walk lock** `run/walk-files.ts` | `walk.lock/<n>` (a pid, then `released`), `walk.json`, `walks-reported/<n>` | `takeLock`, `releaseLock`, `openWalk`, `markEndReported` | several processes, no operating-system lock, kills between any two file operations, pids that come back | one owner at a time; its file stays; walk numbers only go up; a dead owner is taken over without a person |
| **walk** `run/walk.ts`, `run/walk-files.ts` | `walk.json`, `answers/<pause>.json`, `pauses/<pause>`, `walks-reported/` | the run: begin, pause, take an answer, end; `nuka step next / stop / wait` | two sides that share files only; calls that read at three different moments; repeated, late and concurrent calls; kills | an answer reaches only the pause it names; a caller is told the truth about its answer; an end is reported once; a call returns |
| **concurrent run** `run/run-concurrent.ts`, `run/run-worker-entry.ts`, `run/worker-protocol.ts` | buckets, worker processes and their pipes, counts of records expected and written, proof rounds | pass per environment, serial files, proof rounds, forwarding a signal, the verdict | workers die, lines are lost, preparations fail, signals come at any moment | a green run is complete; a red one has a cause; a serial file is alone; the run ends |
| **process signal** `run/process-signal.ts` | two registered cleanups, how often a signal came | first signal, second signal | the cleanup runs beside the run it ends | what was up is torn down before the exit |
| **fixture lifecycle** `fixture/lifecycle.ts`, `fixture/resolver.ts`, `fixture/graph.ts` | one coroutine per fixture instance, a cache per scope | `getOrBuild`, `use`, teardown with its budget | code that never settles; a setup that goes on after its timeout; two flows that tear down the same cache | dependents before dependencies; nothing is left suspended; the outcome told is earned; the process ends |
| **verdict table** `run/verdict-table.ts`, `cli/run.ts` | the cells of a criterion, the plan of the other trees | `foldCell`, `needsProofRun`, `plannedWorldCells`, `judgeRow` | many combinations; a plan made before, and a row judged after, the other trees ran; late changes of an outcome | a control never reds a row; skipped work could not matter; a proof is repeated; green is earned |
| **program world** `program/world.ts` | process groups of the program and its commands, a shared stop, the list killed on exit | start, ready check, setup, list, stop, abort | processes that ignore SIGTERM and leave children; exit events, timers, aborts and signals in any order | nothing outlives nukadoko; a stop gives its grace; start, stop and signal each end |
| **scenario engine** `run/run-scenario.ts`, `run/step-deadline.ts`, `run/project-exit.ts` | a scenario's outcome, its record, the hooks still owed | hooks, steps, deadlines, pauses, teardown | bodies that run on after their deadline; `process.exit` of project code | the first failure is the one told; the record says what happened to every line; a walk shows what ran |
| **serial run** `cli/run.ts` | passes, the cleanups registered | `runRun` | which cleanup is registered when | see process signal and program world |
| **base and old trees** `run/base-run.ts`, `run/tree-pass.ts`, `run/git-ref.ts` | worktrees, their workers, their cells | open a tree, run its cells, remove it | a signal while a worker is prepared or a world starts; lost rounds | the trees go last; the proof rounds end |
| **run directories** `record/*.ts`, `cli/clean.ts` | `runs/<id>/`, `run.json` | write, export, retention, `nuka clean` | one command removes while others write, each from an earlier listing | a directory is lost only for a reason that stands |
| **step commands** `context/run-command.ts`, `context/file-snapshot.ts`, `context/poll.ts`, `process-group/`, `run/changed-files.ts` | processes a step started, the entries of its record | run, time out, look at the group, walk the directory, list, signal | processes that go on, fork and write while nukadoko looks | what the record says is over is over; a list of files is whole; a command past its limit answers |
| **channels and observation** `context/*.ts` | what a step saw of a browser, HTTP, files, a database | record | I/O | each observation belongs to its step |
| **execution events** `execution-events/`, `context/events-*.ts`, `run/events-after-stop.ts` | what a step sent and ran, the lines read so far | slice, read, count, judge, recount at the stop | lines that come late, in any order, damaged, in another file, or of nobody; a program that is killed | a claim that held or broke is so; a reading called whole is the last word |
| **order of lines** `check/from-order.ts`, `check/unfillable-key.ts`, `run/run-scenario.ts` | the results of the lines so far | guard before a scenario; bind, feed, validate a line | the guard reads text and the run reads results | what is let through is fed; what is refused would have failed |
| **claims and steps** `step/`, `binding/`, `matching/` | none | match text, type parts, judge claims | size | one definition per step |
| **judgments, intent, mapping** `run/judgments.ts`, `run/path-view.ts`, `run/mapping.ts` | none | compare a criterion with its base | size | changed means changed |
| **nuka do** `cli/do.ts` | one step's fixtures and world | run one typed step | the same signals, one scope | as for fixtures and worlds |
| **check**, **reports**, **configuration**, **compat**, **secrets**, **command line** | files read once | read, render, validate | text | covered by the repository's tests |
| **line buffer, sinks** `sink/`, `timer/` | bytes of an unfinished line | push, flush | chunks cut anywhere | the lines out are the lines in |

### 1.2 How they interact

- `nuka run --step` takes the walk lock, writes `walk.json`, and pauses after
  each step. Separate `nuka step` processes read `walk.json` and create answer
  files. Nothing but files and "is this pid alive" connects the two sides.
- `nuka run --concurrency n` is one parent and up to n workers. The parent
  starts the program's world before the pass's first worker and stops it after
  the last. A worker gets its targets in a file and answers with lines on its
  stdout. Signals of the parent are forwarded to the live workers.
- Without `--concurrency` one process runs the passes: world, fixtures,
  scenarios. `process-signal.ts` holds at most one scenario cleanup and one
  process cleanup; the run replaces them as it goes on, and the first signal
  calls the ones registered at that moment while the run itself continues.
- The executions of every world (head, base, old) become cells of the verdict
  table. The head's cells decide which cells of base and old are run at all.

### 1.3 What is hard to test

`PROJECT.json` lists 40 hazards with their lines. They fall into these groups:
two processes in the lock or the walk between two file operations; a kill
between two writes; a signal between two awaits of the run; a process, a fixture
or a step's body that never answers or goes on too long; a worker that dies or
whose line is lost; a decision made from an earlier reading (the verdict's plan,
the retention's listing, the count a claim was judged on); and two readers of one
declaration (the order guard and the run). 35 of them name the properties that
would catch them going wrong. The other five do happen and carry a note (section
6.2).

## 2 The modules

| module | models | composed with |
| --- | --- | --- |
| `WalkLock` | the lock protocol and the numbering of walks | implements `WalkMutex` |
| `WalkMutex` | what the lock promises: one owner, a fresh number | abstract specification |
| `WalkLock_proofs` | its theorems | extends `WalkLock`, `TLAPS` |
| `Walk` | one walk after another and the `nuka step` calls | assumes what `WalkLock` proves: no two walks at once |
| `RunConcurrent`, `RunConcurrent_proofs` | parent, workers and pipes of `--concurrency` | takes a scenario's outcome as any outcome; its world is `up` or `none` |
| `FixtureLifecycle`, `FixtureLifecycle_proofs` | instances, caches, teardown, both signals | one process; the world is not in it |
| `Scenario`, `Scenario_proofs` | one scenario after another: hooks, lines, pauses, the record | takes a line's body as any outcome; its fixtures are `FixtureLifecycle`'s |
| `FromOrder` | how a line gets its args, and the guard before it | inside a scenario; shares nothing with the rest |
| `Verdict`, `Verdict_proofs` | a criterion from its executions to its row | takes executions as any outcome |
| `OtherWorlds` | the passes over the base and the old tree | its executions are those `Verdict` takes as given |
| `ProgramWorld` | the program of one world, its groups and signals | takes the pass and the fixtures' teardown as "some time" |
| `ExecutionEvents` | a claim counted from the events of the program | the program and its file beside the reader |
| `StepCommands` | the commands of one step and what its record says of them | what it leaves of a step's processes is what `ExecutionEvents` reads (`left.processes`) |
| `LineBuffer` | lines out of the chunks of a pipe | what the readers of a worker's and a program's output are built on |
| `RunDirs` | run directories and the commands that remove them | several runs, one walk, `nuka clean` |
| `Walk_proofs` | its theorems | extends `Walk`, `TLAPS` |
| `ProcessGroups_proofs` | the theorems of `ProgramWorld` and `StepCommands` | extends both and `TLAPS` |
| `Parts_proofs` | the theorems of `FromOrder`, `LineBuffer`, `RunDirs`, `OtherWorlds`, `ExecutionEvents` | extends the five and `TLAPS` |
| `MCParts` | `FromOrder`, `LineBuffer`, `RunDirs`, `OtherWorlds` and `ExecutionEvents`, one in each behaviour | instances for TLC of five parts that share no state |
| `MCScenarioRow` | `Scenario`, `StepCommands` and `Verdict`, one in each behaviour | from a line to a verdict |
| `MCProcesses` | `ProgramWorld` and `StepCommands`, one in each behaviour | the two owners of process groups |
| `MCWalkLock`, `MCWalk`, `MCRunConcurrent`, `MCFixtureLifecycle` | instances for TLC: symmetry sets, scenarios, fixture graphs | |

A definition whose comment begins with "Mutant:" is a plausible bug of that
code. It is used by no action; it stands before the definition it replaces and
shows that a property can fail.

### 2.1 `WalkLock` — `run/walk-files.ts`

| model | code |
| --- | --- |
| `locks` | the directory `walk.lock`, file name to its text |
| `json`, `reported` | `walk.json` (number, pid, ended or not), `walks-reported/` |
| `pc`, `attempt`, `seen`, `holder`, `num`, `todo` | where one process is in `takeLock` and its locals |
| `List`, `ReadTop`, `RefuseHeld`, `PickNumber`, `Link`, `LinkExists` | `lockTop`, the refusal, `highestWalkRecorded`, `linkWhole` |
| `Verify`, `VerifyRead`, `BelowList`, `BelowFree`, `BelowHeld`, `GiveWay`, `Taken` | the second `lockTop`, `liveHolderBelow`, removing the number it linked |
| `ClearList`, `ClearOne`, `Cleared` | every lower number removed, from a listing of its own |
| `WriteStarting`, `WriteEnded`, `ReadOwn`, `Release` | `openWalk`'s first write, the walk's end, `releaseLock` |
| `Start`, `Crash`, `Exit`, `LoseJson`, `LoseLocks`, `MarkEndReported` | processes and files from outside, a `nuka step` that reports an end |

Each file operation is a step of its own and any process may be killed between
two of them. The directory keeps its text as one of: a pid, `released`. A
crashed process can come back under the same pid (`PidReuse`), which makes it
read its own number in a file it never wrote.

### 2.2 `Walk` — `run/walk.ts`, `run/walk-files.ts`

The run alone replaces `walk.json` (`OpenWalk`, `Begin`, `PauseAfter`,
`TakeAnswer`, `Finish`, `EndEarly`), the calls alone create answers. A call
(`runStepCall`) is a loop of separate moments: `ReadJson`, `Look` (the pid check
of `seeWalk`, and `callTarget` at its first round), a decision over the
answers as they are then (`stepDecision`: `DecideWait`, `DecideAnswer`), and one
of `Report`, `Refuse`, `Again`, `GiveUp` (the deadline), `DecideWrite` followed by
`CreateAnswer` (the exclusive create, which finds the file there if another
call was first) and `FillAnswer` (the write). Any other process may act between
any two. `RunGone` is the exit or the kill of a run, `DieWriting` of a call.
`known` is a history variable: the ends reported when a call started.

### 2.3 `RunConcurrent` — `run/run-concurrent.ts`, `run/run-worker-entry.ts`

The parent: `Open`, `Opened`/`OpenFailed` (the world), `ParallelOver`,
`SerialNext`, `StartRound`, `RoundOver`, `RoundsDone`, `Close`, `Verdict`, `Thrown`.
One `runWorkerGroup`: `Spawn`, `SkipSpawn` (a signal between the preparation and
the spawn), `PrepareFails`, `ReadEnvelope`, `DropLine` (a line that does not parse),
`WorkerClosed` (the `close` event, after the pipe is empty). A worker:
`BeforeAll`, `RunScenario`, `ScenariosOver`, `AfterAll`, `SignalExit`, `WorkerDies`,
`ProcessExit`. `expected`, `written`, `allPassed`, `failedFiles` are the parent's
own tallies; `cause` is history: what went wrong outside the proof rounds. Which
scenarios a worker was given, which it still has to run and which were read from its
pipe are sets (`given`, `left`, `seen`): the order within a worker is `Foremost`'s, the
selection's own.

### 2.4 `FixtureLifecycle` — `fixture/lifecycle.ts`, `fixture/resolver.ts`, `run/process-signal.ts`

An instance is a coroutine: `setup` until it calls `use`, `up` while suspended
there, `tearing` after, `ended`; `late` when its setup's budget passed and its
code goes on. `Start`, `Reuse`, `Use`, `SetupFails` are `getOrBuild`; `Teardown`,
`TeardownNext`, `TeardownTimeout` are `teardownFixtureCache` over a snapshot of the
cache, shared by whoever asks second (`runOnce`); `UseLate` answers a late `use`.
The run (`Begin` ... `Return`) and the handler (`Signal`, `HandlerProcess`,
`HandlerExit`, `SecondSignal`) are two flows of one process.

### 2.5 `Verdict` — `run/verdict-table.ts`, `cli/run.ts`

`FoldCell`, `FoldHeadCell`, `NeedsProofRun`, `Proves`, `PlannedWorldCells`,
`JudgeChanged`, `JudgeRow` are the functions of the table. The run around them:
`Execute` and `ProofLost` fill a cell, `WorldStops` ends a pass (and can turn
executions of it into `broke`, as a late event or a stop's error does), `Plan`
decides the cells of base and old from the head's, `Judge` reads the row.
`row` is everything known before: whether there is a base, how the criterion
compares with it, `@held`, what changed underneath, what its Then judges, and
the role of each environment. TLC takes every such row.

### 2.6 `ProgramWorld` — `program/world.ts`, `cli/run.ts`, `run/process-signal.ts`

A group is its leader (spawned by nukadoko) and a child the leader may start;
`Fork` and `Exits` are the program's own. `RunCommand`, `CommandLimit`,
`CommandGrace`, `CommandExits`, `CommandEnds` are `runToEnd`; `StartServe`,
`CheckReady`, `Ask`, `Answered`, `Pause`, `ReadyLimit`, `ServerExitSeen` the server
and `waitUntilReady`; `StartSetup`, `SetupEnds`, `SetupAbandoned` the setup function;
`BeginStop`, `ServerGrace`, `ServerStopped`, `StopEnds` the shared stop; `Exit`
with `listed` is `killOnExit`; `FirstSignal`, `SecondSignal`, `StartCleaned`,
`FixturesTornDown`, `Cleaned` the signal and the cleanups the serial pass
registers. `waited` says that the deadline of the running stop has passed.

Two variables are history, and no guard reads them. `grace` says of each group whether
it was asked to end (`AskToEnd`, the SIGTERM) and whether 5 seconds went by since, group
by group and apart from the deadline a stop compares with. `hurried` is set by every kill
(`Kill`, whoever calls it) that hits a running group before that, but for what a command
that exited by itself left behind, which the code means to kill at once (`Leftover`), and
for a crash.

### 2.7 `Scenario` — `run/run-scenario.ts`, `run/step-deadline.ts`, `run/project-exit.ts`

`phase` is where `runScenario` is (Before hooks, lines, AfterStep hooks, After
hooks) and `next` the hook or the line of it. `StartHook`, `EndBefore`,
`EndAfterStep`, `EndAfter` are a hook; `SkipLine`, `LineNeverBegins` (it does not
match, bind or validate), `BeginLine`, `EndLine` are a line; `Pause` is
`pauseIfDue`, made at the head of the next line; `WriteRecord` is the end. How a
body ends is one of passed, threw, past its deadline (it then goes on in `late`
until `LateEnds`) and never called; `Escape` is a `process.exit` that no project
code awaits, held by `holdProcessExit` and taken by the next body that ends.
`pauses`, `failures`, `heard`, `owed`, `red` are history.

### 2.8 `FromOrder` — `check/from-order.ts`, `check/unfillable-key.ts`, `run/run-scenario.ts`

A step has required keys, and for each key of `From` the steps and result keys
that may fill it. `Guard` judges a whole scenario from its text (`AmbiguousKeys`,
`MissingKeys`, `HeldBack`, `UnfillableKeys`). The run then goes line by line:
`RunUnmatched`, `Bind` (`bindStepArgs`), `ArgsFail` (`injectFrom` and the args
schema), `BodyThrows`, `BodyReturns`, which adds the keys of a result to `chain`.
The two sides are translated from their own lines and share `From` only.

### 2.9 `LineBuffer` — `sink/line-buffer.ts`

A chunk ends at a point of the text: after some characters, and perhaps after some
bytes of the next one. `Push` is the first line of `push` for a chunk of any length,
appending what the decoder gives (`Write`) to the carry; `EmitLine` is one turn of its
loop, and neither the next chunk nor the end of the pipe is taken before the loop is
through. `Flush` is the end of the pipe, wherever the writer died.

### 2.10 `RunDirs` — `record/retention.ts`, `cli/clean.ts`, `cli/run.ts`

A run is `Start`ed, makes its directory (`MakeDir`), `Begin`s, writes, and at its
end ranks the ended runs and removes what is beyond `Keep` (`RankRuns`,
`RemovePlanned`), then removes those that fell silent (`AgeDirs`), then writes its
own `run.json`. `plan` is the listing a removal works from. `nuka clean` is `Look`
(which walk is live), `List`, `Sweep` one at a time, `Cleaned`. Any run may act
between any two, be killed, and a directory may fall silent.

### 2.11 `OtherWorlds` — `run/tree-pass.ts`, `cli/run.ts`

`NextPass`, `WorldStarts`, `StartParallel`, `StartSerial`, `StartRound`,
`RoundsDone` are `runOtherWorlds` and `runTreePass`; `Spawn`, `Record`, `Close` one
`runGroup`, whose worker is `writing` while its files are written and `live` once
it is spawned. `Signal`, `WorkersStopped`, `WorldStopped`, `HandlerRemovesTrees` are
the cleanup a signal calls: it stops the workers of a `snapshot` and goes on,
while the run goes on beside it. `late` holds the workers spawned after that.

### 2.12 `ExecutionEvents` — `execution-events/`, `context/events-file.ts`, `context/events-read.ts`, `run/events-after-stop.ts`

A program is a set of operations: requests, runs of a job, transactions,
enqueues and statements, each with the ones it is inside of. `Starts`, `Finishes`
and `Writes` are the program's, which writes inside first and may be gone at any
moment; `Rotate` replaces its file. `Send`, `RunCommand`, `CommandOver`, `EndStep`
are the step, which leaves the requests it stamped and what it knows of its
processes. `ReadOn` is each look of a later step at the file, `Judge` the moment
its claim is judged. `Whole`, `StateOf`, `MatchLine`, `Decided`, `CountRange`,
`JudgeRange` are the reader's functions; `StopWorld` and `Recounted` the count made
again when the world stops. A program is assumed to keep to
`docs/execution-events.md` (`Nested`, `Enqueued`, `Honest`): what it says of an
operation may be less than what was done, never something else.

### 2.13 `StepCommands` — `context/run-command.ts`, `process-group/`, `context/observed.ts`, `run/changed-files.ts`

A call of `runCommand` is `Launch` (the first walk, the spawn), then `LimitPasses`
(the timer), and at the close of the program and its pipes one turn of the loop:
`ProbesGroup`, or on Linux `ListsGroup` and `ReadsStates` (`groupAlive`), and `Walks`
(the second walk, the entry, the answer). `LaunchFails` keeps the call's place in the
record without an entry. Its processes act beside all of it: `StartsOther`,
`LeavesGroup`, `ProcessEnds`, `WritesFile`. A process holds the output pipe or not, and
is in the group or has left it; the close waits for those that hold it, the probe
finds those in the group. `MakesRecord` is the step's snapshot, which may come while
calls are open (a body past its deadline goes on); `Bound` is `processesOf` of it, and
`ListMade`, `ListedPaths` are `filesSide`. `PassesSignal` is what the signal handler
does for groups. `since` is what the two walks differ in; `wrote` and `slipped` are
history.

## 3 The runs

A `pass` run must finish without an error; a `violation` run shows one sentence of
a document that the code does not keep (section 6).

| run | instance | asks | states |
| --- | --- | --- | --- |
| `walk_lock` | 2 pids, 3 attempts, numbers to 3, pids used again | `HolderIsAlone`, `FreshNumber`, `ImplementsMutex` (refinement), `DeadHolderTakenOver` (liveness) | 616 thousand |
| `walk_answers` | 2 calls at a time, killed anywhere, one walk of 2 steps, "next" and "stop" | `NoAnswerAhead`, `AppliedIsTheFile`, `StopIsLast`, `ReportMeansApplied` | 513 thousand, up to symmetry |
| `walk_ends` | 2 calls, two walks one after the other | `EndReportedOnce` | 4.3 million, up to symmetry |
| `walk_returns` | 2 calls, none killed while it writes, one walk of one step | `CallReturns` (liveness) | 188 thousand |
| `walk_stuck` | a call killed between create and write | `CallReturns`: violated | |
| `run_mixed` | 2 workers, 4 scenarios in 3 files (one serial, one control), 2 signals, kills, exits, lost lines, failing preparations | `GreenMeansComplete`, `SerialAlone`, `WorldOutlivesWorkers` | 485 thousand |
| `run_passes` | 2 environments, 2 proof runs, one signal, kills, exits, lost lines, failing preparations | `RedMeansCause`, `RunEnds` (liveness) | 803 thousand |
| `fixture_teardown` | 4 fixtures of both scopes, 2 scenarios, 3 steps, 2 signals, fixtures that stall anywhere | `ReturnLeavesNothingUp`, `DependencyOutlives`, `SignalTearsDownWhatWasUp`, `PassedIsEarned`, `ProcessEnds` (liveness) | 898 thousand |
| `scenario_row` | 2 scenarios of 3 lines, a Before, an AfterStep and 2 After hooks, walked or not, one escaped `process.exit`; 2 commands of a step, one of 3 processes; every row, 2 environments, 2 claims, 2 proof runs | `RecordIsWhole`, `AfterHearsFirstFailure`, `NoStepBesideLateBody`, `ExitCallNeverGreen`, `WalkShowsEveryLine`; `RecordIsTrue`; `ControlNeverReds`, `TableIsSound`, `ProofIsSound`, `GreenIsEarned` | 1.5 million |
| `process_groups` | one world, 2 signals, programs that fork and ignore SIGTERM, crashes; 2 commands, one of 2 processes, with a timeout or none | `GroupsEnd`, `GraceGiven`, `EverythingEnds` (liveness); `CommandsSettle` (liveness) | 141 thousand |
| `group_grows` | a command of 3 processes | `EndedIsSure`: violated | |
| `parts` | each of five small parts in behaviours of its own (3.2) | `GuardIsExact`, `LinesAsWritten`, `LossesAreDue`, `TreesGoLast`, `RoundsEnd`, `ReadingStands` | 1.4 million |

Parts that share no state are checked in one run, one part in each behaviour: the
first step chooses it, so a run's states are the sum of its parts' and not the product.

`HolderIsAlone` is `MutualExclusion` and `HolderKeepsFile`; `TableIsSound` is
`SkippedBaseIsMoot` and `TableReadsWhatRan`; `ProofIsSound` is `ProofIsRepeated` and
`ProofRunsSettle`; `GroupsEnd` is `NothingOutlives` and `NothingLeftBehind`;
`EverythingEnds` is `PhasesEnd` and `SignalEnds`; `GuardIsExact` is `LetThroughIsFed` and
`RefusalIsCertain`; `ReadingStands` is `JudgmentStands` and `WholeIsLast`; `RecordIsTrue` is
`EndedIsOver` and `ListIsWhole`. The type invariants are part of the
inductive invariants that section 5 proves.

### 3.1 What the properties say

- **Walk lock.** At most one live process holds the lock whatever was listed,
  linked, cleared or killed in between. The holder's file stays, so that a later
  run can see it. A run that takes the lock has a number above every walk that is
  recorded, even when it read the directory long before. A run that finds itself
  alone gets the lock: no crash leaves a state a person has to clear. And the
  protocol implements `WalkMutex`, in which an owner takes and leaves one lock.
- **Walk.** No answer file is there before its pause was shown. What the run took
  is what the file says for good. A call that is told the walk went on past its
  pause gave the answer that was taken, also when two calls answered differently
  at once. After a stop no later pause is reached. A wait that names no walk does
  not report an end that was reported before it started. Every call returns, as long as none
  is killed inside the write of its answer (section 6.1).
- **Concurrent run.** Green: every scenario of every environment has a record,
  every required one passed, every failed control was repeated to agreement or is
  blamed on a round. Red: something outside the proof rounds went wrong. A serial
  file is alone, in its proof rounds too. No worker runs without its world, a failed
  preparation of another included, until the run throws for that or a second
  signal ends it. The run ends.
- **Fixtures.** A run no signal reached leaves nothing suspended. While a fixture
  is up, so is all it was built from. What was up at a signal is told to clean up
  before that signal's exit. "passed" is told only when it is so. The process ends
  though every fixture may stop at its next `await` for good.
- **Scenario.** The record has one entry for each line and its status is what
  happened. Every After hook is told whether something failed, and which failure
  was first. Lines of a scenario never run beside a body of it that is past its
  deadline. A run in which anything finished after `process.exit` was called from a
  timer is not green. A walk pauses after every line that ran, once and in order,
  and what it says is left is what comes of the rest.
- **Order of lines.** A scenario the guard lets through never meets two results
  for one key (the run's "internal" throw) and lacks a key only because the one
  result it depends on did. Each line the guard refuses would have failed even
  when every line before it returned all it can.
- **Line buffer.** The lines heard are the lines written, however they were cut
  and wherever the writer died.
- **Verdict.** A control's outcome never makes a row red. A base that was skipped
  could not have changed the verdict. The table reads no cell that the plan left
  out, though it plans from less than the table knows. "proven" rests on
  `ProofRuns` executions that broke one and the same claim.
- **Other worlds.** When the trees are removed, no world of a tree is up or
  starting, and no worker that was there at the signal is left. A pass goes round
  for proof fewer times than a proof has runs, and if it says that nothing is
  missing, nothing is in question.
- **Program.** Whatever moment nukadoko exits at, no process it spawned is left. A
  phase begins with nothing of the phase before. Whoever kills a running group,
  it was asked to end and has had its 5 seconds since, whatever was stopped before it
  and whichever process of it went first; only the abort of a start, a second signal,
  or a signal to a pass that stops its own world already cuts that short. A start, a stop and a signal each come to an end.
- **Step commands.** Where a step's events are read as bounded, none of its
  processes is left, whichever ended, closed, forked or was started in whatever
  order. A list of changed files has, for good, every path a listed command's group
  ever wrote. Both leave out a group that grew while its states were read (6.1).
  A command past its limit, or signalled, whose processes end at SIGTERM gives its
  step an answer, unless a process that left the group holds its output.
- **Execution events.** A claim on a count that held or broke, and that the recount
  at the stop does not take back, is true of what the program did: lines that
  are late, damaged, lost with a replaced file, undecided or of nobody leave it
  open or take it back. A reading called whole is the last word: what it lacks
  has not begun and never will.
- **Run directories.** The run rule removes a directory only when `Keep` newer
  runs came to their end; the age rule only one that fell silent before it had a
  `run.json`; `nuka clean` never that of a walk it saw live, while it lives.

### 3.2 Bounds, and why they are enough

- `Attempts` is the code's own 3. Two processes with pids that come back play
  the part of any number of successive ones; what three or more live ones could
  add is the subject of the proofs, which hold for any `Procs`, `Attempts` and
  `MaxWalk`. `MaxWalk` 3 leaves room for a dead walk, a live one and a newcomer.
- Two calls at once are the least that race for one answer; a walk of two steps
  has a pause that is over while another is open; two walks are needed for an end
  that was reported before the next walk began.
- `run_mixed` has two files for two workers, one with a control, and a serial
  file; two proof runs give one round. `run_passes` has two environments, so that
  a pass follows a pass. Two signals are the most the parent tells apart.
- The fixtures are the smallest graph with both scopes that has two of each: a chain
  with a shortcut. With one process-wide fixture, a signal has nowhere to come between
  two teardowns that are told the same outcome (5.10).
- Three lines are the least with a line before and a line after the one that fails
  or that a walk stops at; two scenarios let a body of one run on into the next.
- Two environments let a criterion be required in one and a control in the other;
  two claims let the runs of one cell break different ones.
- A group has a leader and one child: what matters is whether anything but the
  leader is left. Time is not counted. A timer is an action that may happen at any
  moment, so every order of a timer and an event is covered.
- A command of three processes has one that starts another after its leader closed;
  the second command, of one process, is launched before, beside or after it, in the
  record or not. Who writes matters and not how often or where: one path. Timeouts
  are in `process_groups` only, where a leader and one child (holding the pipe or
  not, in the group or not) are all a limit tells apart.
- `parts`, the order of lines: every scenario of up to three lines over three
  steps, one of which may take a key from two, a second key from one of those or
  from itself; so a key can be ambiguous, missing, held back, or filled twice.
- `parts`, the line buffer: every text of up to four characters of one or three
  bytes, so that a chunk can end twice inside one character, on a newline, or on
  neither. The theorem has no bound.
- `parts`, run directories: three runs with `Keep` 1, so that the newest of three
  decides about two; one kill, one directory that falls silent, one `nuka clean`.
  The theorem has no bound.
- `parts`, other worlds: two passes over four files (two serial) with two workers
  and three proof runs, so that two rounds may follow each other.
- `parts`, events: six programs, each the smallest with one hard thing: a
  transaction in another, a job tried again, a job of a job, a request of a
  process, a request of nobody, lines that say less than was done; with one
  damaged line and one rotation. The theorems hold for every program.

## 4 Fairness

| module | assumed | because |
| --- | --- | --- |
| `WalkLock` | each process's next file operation happens (WF of `Step`) | a started process runs; how long a walk lasts (`WriteEnded`) is a person's choice and owes nothing |
| `Walk` | the run goes on, a call goes on (WF); a call that waits again and again passes its deadline (SF of `GiveUp`) | the deadline is compared at each round; nobody has to answer or to start a walk |
| `RunConcurrent` | the parent, each group and each worker go on (WF) | a scenario and a hook are ended by their deadlines; signals, kills and lost lines owe nothing |
| `FixtureLifecycle` | timers fire and settled promises resume (WF of `Run`, `Handler`, `Awaiting`) | fixture code (`Use`, `UseLate`, `FixtureEnds`) owes nothing; a step's body is bounded by its deadline |
| `ProgramWorld` | every timer fires and every event is taken (WF of each) | a process may run for ever; a setup function and a pass may take for ever |
| `StepCommands` | timers fire, a close is taken and its turn goes on, a signalled process that heeds SIGTERM ends (WF of each) | any other process may take as long as it likes, or never end |
| `Scenario`, `Verdict`, `FromOrder`, `LineBuffer`, `RunDirs`, `OtherWorlds`, `ExecutionEvents` | nothing | what is asked of them is safety; `RoundsEnd` bounds the rounds of a pass instead of promising an end |

## 5 The proofs

Thirteen components have theorems for every value of their constants. The theorem
modules extend the modules they are about, so that TLC and TLAPS read the same
definitions. Assumptions are the named ones on the constants, and no theorem has
another. Every safety property a run checks is stated by a theorem.

### 5.1 `WalkLock_proofs`

From `LockConstants` (`Released` and `NoOne` are no pids, `Attempts` positive):
`TypeCorrect`, `LockExcludes`, `KeepsFile`, `HolderAlone`, `Fresh`, `JsonForward`,
`Refines`.

Mutual exclusion is not inductive: it says nothing of the processes that are
still on their way. The inductive invariant is
`IInv == TypeOK /\ LockInv /\ FreshInv`.

- `WonKeepsFile`: a process past the listing that showed its number on top
  (`Verified`), or a holder, has its own file in place.
- `TryingOrBeaten`: a process that linked a number still has its file, or a
  higher *settled* file is there: one nobody will remove by giving way. It will
  see a higher number when it looks.
- `SharedNumberIsBeaten`: two processes can come to hold one number (a file
  cleared and linked again); then neither has won and a settled higher one exists.
- `LowerWonIsAhead`: of two that have won, the higher one is not a holder yet and
  has the lower one still on its list; it will find it alive and give way.
- `ClearsOnlyLower`, and `NumbersStartAtOne`, `RecordedIsPassed`, `WonIsFresh`
  for the numbering: each recorded walk has a settled file at or above it, or every
  process on its way is above it.

Mutual exclusion follows from `LowerWonIsAhead` and `WonKeepsFile`. Most actions
are one of two cases, a step that gives up its claim (`StandAside`) or one that
keeps it (`HoldOn`), and each case is proved once. `Refines` maps the owner to the
one process in `Holding` and the recorded walks to `walk.json` and
`walks-reported`; a step outside `Taken`, the two writes of `walk.json`, the
release and a crash of the holder is a stutter of the abstract lock
(`AsideStutters`, `HolderStutters`).

### 5.2 `Verdict_proofs`

From `VerdictConstants` (`N`, `Repeat`, `ProofRuns` positive): `TypeCorrect`,
`NeverReds`, `ReadsWhatRan`, `ProofRepeated`, `Earned`, `SkippedIsMoot`,
`ProofRunsDecide`, and the two that join them, `TableSound` and `ProofSound`. The
invariant `Inv` says that the plan is the one head's cells
give (`PlanIsHeads`: nothing that runs later touches head) and that a judged row
is what the table makes of its cells (`JudgedFromCells`). From it the properties are
facts about the table's functions: `FoldAgrees` (a cell that says "pass" or
"fail" has executions that all agree), `PlansAgree` (the plan without the Then's
judgment contains the plan with it), `OnlyHeadHasControls`. `ProofRunsDecide`
needs a second invariant, `Settled`: a cell whose pass is over needs no proof run,
or lost one; `LateSettles` is its core: a late event that makes executions broke
can end the need for proof runs and never bring it back.

### 5.3 `ProcessGroups_proofs`: worlds

From `SignalsAssumption`: `Invariant`, `TypeCorrect`, `ExitKillsAll`
(`NothingOutlives`), `PhasesClean` (`NothingLeftBehind`), `GroupsAreOver`
(`GroupsEnd`), `GraceIsGiven` (`GraceGiven`). `NothingOutlives` needs
to know that whatever still runs is listed: `UnlistedIsGone`. For a group to leave
the list only once it is gone, its command must be through its exit or its stop
(`OneCommand`, `CommandIsGone`), the server through its stop (`ServerIsGone`), and
no stop may begin inside the start (`StopBegins`, `CheckIsServe`). `KillEmpties`,
`ThrowStops` and `ProceedGoesOn` say what the three things a step is made of do.
`GraceGiven` is about every kill but a crash's, so the proof goes over all of them
(`GraceInv`). The deadline a stop compares with is that of its own SIGTERM, though two
stops follow each other (`ServerDeadline`, `CommandDeadline`); the exit of a command kills
only where no stop of it began, and then nobody asked it to end (`NotAsked`); at the end
of a run and of a cleanup nothing listed runs any longer (`NothingListedRuns`, from the
invariant above); a start that throws kills only when it was aborted; and a handler that
waits for a start has aborted it (`Handling`).

### 5.4 `ProcessGroups_proofs`: commands

From `LaunchConstants` (each launch has one process or more, a limit or none):
`CommandsInvariant`, `CommandsTypeCorrect` and `RecordsAreTrue` (`RecordIsTrue`), for any
number of commands, processes and files. The record is made once, and the processes go
on after it, so what it says has to follow from what they can no longer do.

- While the states of a group are read, all its members are among those listed, unless
  the group grew meanwhile (`ListedAreAll`); an entry that says "ended" then has an
  empty group (`EndedIsGone`), and an empty group starts and writes nothing.
- Until a command's second walk, all its group wrote is in what the two walks differ
  in (`WritesAreSeen`); an entry that was measured and says "ended" has it for good
  (`MeasuredIsWhole`).

`slipped`, the groups that grew while they were looked at, is what both leave out, and
what `group_grows` is about (6.1).

### 5.5 `Parts_proofs`: order of lines

From `FromOrderConstants` (what no step is called is no step, the captures of a line
are keys its step knows, every step has a possible result): `RefusalsRight` and
`LetThroughFed`, and `GuardExact`, which joins them. The chain has a result of each line before and of no other (`Has`,
from `Passed`), so the candidates the guard counts in the text (`BoundBefore`) are
the ones the run meets in the results (`PresentIsBound`). A line is then ambiguous
exactly where the run cannot decide (`AmbiguousIsUndecided`), and what the guard
calls missing is what the args lack (`IssueIsLack`, `LackIsIssue`). `Judged` keeps that
the scenario was let through.

### 5.6 `Parts_proofs`: other worlds and run directories

From `Concurrency` a natural number, `ProofRuns` a positive one and the serial files
among the files: `TreesLast` and `ProofRoundsEnd`. The invariant has, besides types:
between passes nothing is up or running (`BetweenPasses`); the handler goes on in one
direction and what it stopped stays stopped, but for what is spawned late
(`HandlerGoesOn`); what is still due ran in every round so far, but for what this
round's worker has not written yet (`EachRoundCounts`, which starts from
`NothingRanYet`); `RoundsEnd` itself is part of it.

From `MaxRuns` and `Keep` natural numbers: `LossesDue`, an action property. What a
removal works from was due when it was listed (`PlansAreDue`, `SweepIsDue`), and what
made it due does not go away: runs only come to their end later (`EndsLate`), and a
directory that fell silent without a `run.json` is on record (`SilenceIsKept`).

### 5.7 `Parts_proofs`: execution events

From `EventsConstants` (a program keeps to the format, and is finite): `LastWord`,
`StandingJudgments` and `StandingReadings`, which joins them. The invariant says that lines are of what is done and follow the
lines inside (`LinesOfTheDone`, `InsideFirst`), that nothing is open inside what is
done (`NestedInTime`), that what began was asked for (`AskedFor`), and that what the
step left stays true of what it sent (`LeftStands`). A whole reading has all requests
of the step (`RequestsAreRead`); it then has all runs (`RunsAreRead`): of the runs that
began and are not read, one was enqueued outside of all such runs, so its `enqueue`
line is read, and the counts of its job match, so its own line is; everything else
has one of these as its outermost (`ReadInside`). For a judgment: what matches for sure
really does (`YesIsTrue`), what really matches is never told apart (`TrueIsCounted`), so
the true count lies in the range of every reading that saw all of it (`RangeIsRight`),
and what is said of a range is so of each count in it (`JudgeRangeIsRight`).

### 5.8 `Walk_proofs`

From `WalkConstants` (`MaxWalk` and `Steps` positive, the answers "next" and at most
"stop"): `NotAhead`, `AppliedStays`, `StopEnds`, `ReportsApplied` and `EndsOnce`, for
any number of calls at once. Each property speaks of two processes that share files
only, so the invariant has to say what each may rely on while the other moves.

- Of the run: `walk.json` is the newest walk at its last pause (`JsonIsNewest`), a walk
  goes past a pause only with its answer (`PastIsAnswered`), and one that took a stop
  skips to its end (`StopSkips`).
- Of the answer files: a call about to write saw its pause, and the one that created
  a file is alone in filling it (`WritersOwn`). What an interrupted creation leaves
  stays empty, so no second call fills it.
- Of the calls: what was read was so, and what was read as over is over for good
  (`ReadWasSo`); a reported walk is over (`ReportedIsOver`); the ends known when a
  call started are of walks before the one it waits for (`KnownIsBefore`).

`ReportsApplied` then joins them: the call read a later pause of the same walk, so its
own is answered (`PastIsAnswered`), and what was taken is what the file has.

### 5.9 `RunConcurrent_proofs`

From `RunConstants` (a selection without repetition, controls among the scenarios,
positive `Concurrency`, `Passes` and `ProofRuns`): `RunInvariant`, `TypeCorrect`,
`GreenIsComplete` (`GreenMeansComplete`), `RedHasCause` (`RedMeansCause`),
`SerialIsAlone` (`SerialAlone`), and `WorldIsLast` (`WorldOutlivesWorkers`).

The parent compares two numbers, `written` and `expected`, so completeness is a fact
about cardinalities:

- `Counted`: `written` is the size of the set of recorded executions, and `expected`,
  while no world failed and no signal came, the size of that set joined with the
  first execution of every scenario in every environment and with what the round still
  owes (`Promised`). When the two are equal, the sets are, so every scenario is there.
- The sets grow by one only if no record comes twice: nobody holds a scenario another
  one holds, or one whose line is in a pipe (`Hands`), and what has still to be read was
  not recorded before, or needs a proof run (`Fresh`).
- `Tallied` says what the flags the verdict reads stand for: a control that still
  needs a proof run after its pass is blamed on a round that went wrong.
- For `RedMeansCause`: without a cause or a signal, a worker has run all it was given
  and the parent has read all of it (`Delivered`), nothing is left out (`Covered`),
  and a line that would make the run red has its cause already (`Marked`).
- `Shape` is the order of a pass, which says who may be busy where.

`WorldIsLast` needs two facts more (`WorldInv`): the world is up in every phase that can
have a worker, the one after a failed preparation included, and a run that is over has no
worker left, unless a second signal ended it or it threw. A failed preparation is the
one thing that makes a run throw; what happens then is in section 6.2.

### 5.10 `FixtureLifecycle_proofs`

From `FixtureConstants` (a process-wide fixture depends on process-wide ones, as
`findFixtureScopeViolations` makes sure; every scenario has a step): `FixtureInvariant`,
`TypeCorrect`, `ReturnIsClean` (`ReturnLeavesNothingUp`), `DependenciesOutlive`
(`DependencyOutlives`), `SignalCleansUp` (`SignalTearsDownWhatWasUp`), `PassedEarned`
(`PassedIsEarned`), for any graph, any steps and any moment of the signals.

- Order: an instance is built from earlier ones (`Based`), a cache is in build order
  (`Kept`) and what is left of a teardown is latest first (`Leaving`), so what goes next
  has nobody built from it left (`Supported`, which is `DependencyOutlives` begun one
  step earlier, at the start of a setup).
- Completeness: what is up is in its scope's cache until the teardown takes it over and
  in what is left of the teardown after (`Held`), and a scope whose teardown is done has
  none. `Setups`, `Places` and `Standing` say that no setup is under way then.
- The signal: what was up when it came is in the two scopes its handler waits for
  (`Marked`), also when the run began that teardown itself and the handler shares it.
- The outcome told: `Settled` and `Telling`; `Exits` has the two ways out.

A first version of `PassedIsEarned` said that no signal had come before "passed" is
told. TLC agreed while the instance had one process-wide fixture; the proof did not go
through, because a signal may come between two teardowns that are told the one outcome
of their scope, which was settled before it (`cli/run.ts:2285`). The property now says
what the code promises, and the instance has two such fixtures.

### 5.11 `Scenario_proofs`

From `ScenarioConstants` (a line or more, any number of hooks): `ScenarioHolds`,
`RecordsAreWhole` (`RecordIsWhole`), `HooksHearTheFirst` (`AfterHearsFirstFailure`),
`LateBodiesRunAlone` (`NoStepBesideLateBody`, an action property), `ExitCallsTurnRed`
(`ExitCallNeverGreen`), `WalkIsShown` (`WalkShowsEveryLine`). The end of every hook and
every entry is proved once (`HookEndKeeps`, `EntryKeeps`), whatever it ended with.

- `Counted` and `Marked`: the entries are as many as the lines passed, `failed` says that
  an entry or a hook failed, and the failure held is the first one.
- `Stops`: a line is skipped only after a failure or a stop, and a walk stops only where
  lines are left and all before passed. The outcome's order (failed, stopped, passed) is
  then what the entries add up to.
- `Lateness`: a body past its deadline failed its scenario, so no line runs after it.
- `Owing`: what finishes under an escaped call fails its scenario, which turns the run
  red no later than its record.
- `Paused` and `Keeps`: a pause is made for every line that began, and each keeps its
  word at every moment after it. One that said "more lines" has the next line still
  open to it, or run; one that said "none" has only skipped lines after it.

### 5.12 `Parts_proofs`: line buffer

From `BufferConstants` (a newline is one byte, a character has one or more):
`LinesWritten` (`LinesAsWritten`), for any characters, widths and texts and any cut of
the bytes. `BufferInv` says where the text pushed so far is split: at 0 or just after a
newline (`SplitAt`). The lines that are out are those before the split, as many as it
has newlines, and the carry is all that follows it. A chunk leaves what is before the
split as it was (`LinesStay`, `RestGrows`), because the bytes the decoder holds are
exactly those of the character the last chunk ended in (`WriteIsNext`); a turn of the
loop moves the split to the next newline (`OneMore`), and the loop ends only when there
is none behind it (`NoneLeft`).

### 5.13 Only model-checked

Every liveness property (`DeadHolderTakenOver`, `CallReturns`, `RunEnds`, `ProcessEnds`,
`EverythingEnds`, `CommandsSettle`): liveness under fairness is outside what the prover
does. That the functions of `Verdict` and `ExecutionEvents` compute what they should of a
sequence is proved as far as they are written with quantifiers and cardinalities.

## 6 What disagrees with the documents

### 6.1 The runs that show one

**A killed call leaves the next ones spinning** (`walk_stuck`,
`run/walk-files.ts:580`). Between the exclusive create and the write the answer
file is empty. `readAnswer` reads that as no answer. If the writer is killed
there, the run polls for ever; a later call decides to write, finds the file,
and starts over without reaching its deadline. "`timeoutMs` bounds the wait".

**A group that grows is called ended** (`group_grows`, `process-group/process-group.ts:53`).
`groupAlive` lists `/proc` once and then reads each process's state. A member that
starts another after the listing and exits before its own state is read is the last
one seen: every process listed is gone, and the entry says "ended" with a process of
the group running. "once the process has closed and no process of its group is left
[...] nothing it started can send the world another request, and the entry says so"
(`context/run-command.ts:89`).

### 6.2 Others, stated as properties that no run checks

Each is a definition in its module. TLC finds a counterexample to it with the
configuration named, its own properties replaced by this one:

| property | what happens | configuration |
| --- | --- | --- |
| `RunConcurrent!EarlyExitFails` | `process.exit(0)` after a worker's last record is green: the parent compares records and files, so AfterAll hooks and teardown can be skipped silently (`run/run-concurrent.ts:541`); the specification says `run-incomplete` | `RunMixed.cfg` |
| `RunConcurrent!WorldAlwaysOutlives` | a preparation fails, `Promise.all` rejects and the world stops under the other workers, though the comments at `run/run-concurrent.ts:90` and `:227` say it never throws | `RunMixed.cfg` |
| `FixtureLifecycle!DependencyAlwaysOutlives` | the run goes on while a signal's handler works on a snapshot; a setup that reaches `use()` meanwhile enters a cache that is emptied at the end, on top of what was torn down (`run/process-signal.ts:108`) | `FixtureTeardown.cfg`, `MaxSignals = 1` |
| `ProgramWorld!OneSignalGivesGrace` | the pass clears its cleanup before it awaits the stop of its world; the first signal in that window finds nothing to wait for (`cli/run.ts:2482`) | `ProcessGroups.cfg`, `MaxSignals = 1` |
| `ProgramWorld!LimitMeansLate` | a command that exited in time is reported as past its limit when its output closes late (`program/world.ts:774`) | `ProcessGroups.cfg`, `MaxSignals = 0` |
| `StepCommands!LimitEndsCommand` | a command past its limit is waited for as long as a process of it ignores SIGTERM, or has left its group and holds its output: nothing follows the SIGTERM (`context/run-command.ts:271`) | `ProcessGroups.cfg` |
| `StepCommands!SignalReachesAll` | a signal goes to the groups of the commands open then; one launched after it, while the cleanup runs, is left running at the exit (`run/process-signal.ts:95`) | `ProcessGroups.cfg` |
| `StepCommands!ListSeesEveryCommand` | a command still running at the record, or that could not be started, has no entry, and the list is made from the others (`context/observed.ts:559`), though `run/changed-files.ts:17` says every process was measured whole | `ProcessGroups.cfg`, `Paths = {"f"}` |
| `OtherWorlds!NoWorkerOutlivesTree` | a worker whose files are still being written at the signal is spawned after it, and runs in a removed tree; `cli/run.ts:1924` and `run/tree-pass.ts:38` say the cleanup prevents that | `Parts.cfg` |
| `ExecutionEvents!RetryIsSeen` | a retry's run and `perform` line may come before the `enqueue` line of the retry, and the counts then match: the reading is called whole with the failed run still open; `docs/execution-events.md:228` says a reader never sees that | `Parts.cfg` (program `JobTriedAgain`) |
| `WalkLock!NoMutualRefusal` | two runs give way to each other and both are refused | 4 `Procs`, `PidReuse = FALSE`, `Attempts = 2`, `MaxWalk = 4`, `SPECIFICATION Spec`, no deadlock check |
| `Walk!GoneNeverEnded` | a walk that ends and exits between a call's two looks is reported as killed | `WalkAnswers.cfg`, `CallerDies = FALSE` |

## 7 What is left out

- **Walk lock**: errors of the file system other than "exists" and "gone" end the
  process (`Crash`). The lock directory is deleted only while no run is up: deleting
  it under a live run is outside what any file protocol can promise.
- **Walk**: the contents of a pause (records, text). The session's own checks of its
  arguments. The lock, which `WalkLock` covers.
- **Concurrent run**: `--repeat` (a factor of the counts), the text of notes, a
  worker whose parent dies first. A failed BeforeAll is one outcome among others.
- **Fixtures**: the order among independent fixtures is any order that respects
  dependencies; a step's body is one action; misuse of `use` (twice, never) is
  "ended"; a value's `dispose` is left out.
- **Scenario**: the fixtures' teardown (`FixtureLifecycle`), judgments of a Then, the
  contents of records; what a typed step does inside its body is an outcome.
- **Order of lines**: matching of text; a capture always gives a value; the state
  rules (`check/state-order.ts`), compat steps and a key captured twice are left
  out; the keys of `from` are keys of the args.
- **Line buffer**: `StringDecoder` is external and modelled by what it does.
- **Verdict**: a stop of a walk counts as `broke`; a compat Then as one that judges
  nothing; a changed mapping nobody has seen reads as a change
  (`run/base-run.ts:422`). A lost proof round in a tree leaves no trace in the
  cell, as in the code. Criteria are independent of each other, so one row is enough.
- **Other worlds**: making the trees and what a cell of them means; stopping a
  world is one step; a second signal, and what `finishRun` does after an
  interruption.
- **Execution events**: parsing of a line, kinds other than `db` lines to count,
  paths, labels and MCP calls; damaged lines whose trace id is cut, lines of a
  bare trace id, lines of nobody that come after the reading; the 16 MB limit; a
  file cut in place that grows past the reader's offset again; jobs of requests
  of nobody; the files a slice is kept in. The polling interval and the deadline
  are "any moment". A process's requests, and the retry of a job, can be missed
  when the program dies before it writes them: the properties say so
  (`MayMissLines`).
- **Run directories**: removing a directory is one step and a listing is atomic;
  export files and the records of `nuka do` are left out; an interrupted run is one
  that was killed; a `nuka clean` that looked before a walk began removes what that
  walk writes (the hazard's note).
- **Step commands**: Windows and commands outside a step; several working
  directories (`filesSide` then makes no list) and directories a walk skips; a file
  made and removed between the walks; output, environment and trace ids; the
  number of a closed group taken by another; a launch that fails has no process.
  A walk is one step. Polling (`context/poll.ts`) is left out.
- **Program**: one prepare command stands for all build and prepare commands; a
  world with a `url` and no program, the port, the inlet and the log are left out;
  another server on the port too; the process groups are POSIX ones.
- The components marked `not_modelled` in `PROJECT.json`: each has its reason there.

## 8 The plan

Done, in this order: the lock (most state, hardest to test), the walk on top of it,
the concurrent run, fixtures, verdict, program, scenario, order of lines, line
buffer, run directories, other worlds, execution events, step commands; proofs of all of
them.

Next:

1. Polling (`context/poll.ts`) over the deadlines of `Scenario`.
2. The serial run's passes and `nuka do`: which cleanup is registered when, over
   `FixtureLifecycle` and `ProgramWorld`.
3. Fixture graph (`fixture/graph.ts`), path and mapping comparison: functions checked
   against a reference definition over every graph or pair of small inputs.
4. Compositions: `Walk` over `WalkLock` in place of its guard `~Live`;
   `RunConcurrent` over `ProgramWorld` for its world; `Scenario` over `FromOrder`.

Theorems worth proving next: that `Verdict`'s run, `RunConcurrent`'s counts and
`Scenario`'s record fit together (a green run of `RunConcurrent` has the executions
`Verdict` takes as given); a refinement of `FixtureLifecycle` to a stack of instances;
`RunConcurrent` over `ProgramWorld`.

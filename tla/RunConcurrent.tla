--------------------------- MODULE RunConcurrent ---------------------------
(***************************************************************************)
(* `nuka run --concurrency <n>`: one parent that starts the program's      *)
(* world, hands feature files to worker processes, and turns what they     *)
(* write into one verdict (src/run/run-concurrent.ts), and the workers     *)
(* (src/run/run-worker-entry.ts).                                          *)
(*                                                                         *)
(* A pass per environment: the parallel files on up to n workers, the      *)
(* serial files one worker at a time, then proof rounds, which run the     *)
(* failed controls again until ProofRuns runs agree.  A worker's stdout is *)
(* a pipe of whole envelopes, read until it is closed.                     *)
(***************************************************************************)
EXTENDS Integers, Sequences, FiniteSets, SequencesExt

CONSTANTS
  Pickles,      \* the selected scenarios, in order: a sequence of <<file, line>>
  Serial,       \* the files tagged @nukadoko:serial
  Controls,     \* the scenarios whose conditions hold in no environment of the run
  Passes,       \* environments of the run
  Concurrency,  \* --concurrency
  ProofRuns,    \* --proof-runs
  MaxSignals,   \* bound: signals the parent gets
  Crashes,      \* whether a worker may be killed
  Garbles,      \* whether a line of a worker's stdout may be unreadable
  EarlyExits,   \* whether project code in a worker may call process.exit(0)
  SetupFails    \* whether a worker's temporary directory may fail to be made

Cells == ToSet(Pickles)
FileOf(cell) == cell[1]

ASSUME RunConstants ==
  /\ Passes \in Nat \ {0} /\ Concurrency \in Nat \ {0} /\ ProofRuns \in Nat \ {0}
  /\ MaxSignals \in 0..2 /\ Pickles \in Seq(Cells) /\ Controls \subseteq Cells
  /\ \A i, j \in 1..Len(Pickles) : Pickles[i] = Pickles[j] => i = j

VARIABLES
  phase,      \* where the parent is
  pass,       \* the environment it is at
  world,      \* whether the pass's program runs
  group,      \* runWorkerGroup of each worker slot
  given,      \* the targets of the slot's list file
  stage,      \* the slot's worker process
  left,       \* the scenarios it has still to run
  clean,      \* nothing in it failed so far (its allPassed)
  code,       \* its exit code
  pipe,       \* what it wrote and the parent has not read
  seen,       \* the cells the parent read a record of from it
  serials,    \* the serial files this pass has still to run
  round,      \* the cells of the proof round going on
  problems,   \* its worker reported a failure
  runs,       \* the executions of each cell, per pass
  blamed,     \* the control cells a proof round could not record
  expected, written, allPassed, failedFiles,
  signals,    \* signals the parent got
  cause,      \* what went wrong outside proof rounds (history: no code reads it)
  exit        \* the run's own exit

workerVars == <<stage, left, clean, code>>
parentVars == <<phase, pass, world, group, given, serials, signals, exit>>
tallyVars == <<seen, problems, runs, expected, written, allPassed, failedFiles>>
vars == <<phase, pass, world, group, given, stage, left, clean, code, pipe, seen,
          serials, round, problems, runs, blamed, expected, written, allPassed,
          failedFiles, signals, cause, exit>>

Slots == 1..Concurrency
Files == {FileOf(cell) : cell \in Cells}
CellsOf(files) == {cell \in Cells : FileOf(cell) \in files}
\* What runs, and what is handed out, goes by the order of the run.
Position(cell) == CHOOSE i \in DOMAIN Pickles : Pickles[i] = cell
Foremost(cells) ==
  CHOOSE cell \in cells : \A other \in cells : Position(cell) <= Position(other)

\* Mutant: the tag is looked for where it does not stand.
AllParallel(f) == TRUE
IsParallel(f) == f \notin Serial
ParallelFiles == {f \in Files : IsParallel(f)}
SerialFiles == {f \in Files : f \in Serial}
WorkerCount ==
  IF Cardinality(ParallelFiles) < Concurrency THEN Cardinality(ParallelFiles)
  ELSE Concurrency

\* Buckets are filled round-robin, by whole files.
Start(f) == Position(Foremost(CellsOf({f})))
Rank(f) == Cardinality({g \in ParallelFiles : Start(g) < Start(f)})
Bucket(slot) == {f \in ParallelFiles : Rank(f) % WorkerCount = slot - 1}

Outcomes == {"pass", "fail", "broke"}
\* "fail" is a claim broken at one Then line.
\* A failed hook's note names no scenario.
HookFailed == [cell |-> << >>, outcome |-> "hook-failed"]
Envelopes == [cell : Cells, outcome : Outcomes] \cup {HookFailed}

Init ==
  /\ phase = "pass" /\ pass = 1 /\ world = "none"
  /\ group = [s \in Slots |-> "idle"] /\ given = [s \in Slots |-> {}]
  /\ stage = [s \in Slots |-> "none"] /\ left = [s \in Slots |-> {}]
  /\ clean = [s \in Slots |-> TRUE] /\ code = [s \in Slots |-> "none"]
  /\ pipe = [s \in Slots |-> << >>] /\ seen = [s \in Slots |-> {}]
  /\ serials = {} /\ round = {} /\ problems = FALSE
  /\ runs = [p \in 1..Passes |-> [c \in Cells |-> << >>]]
  /\ blamed = {} /\ expected = Len(Pickles) * Passes /\ written = 0
  /\ allPassed = TRUE /\ failedFiles = FALSE
  /\ signals = 0 /\ cause = {} /\ exit = "none"

\* What goes wrong in a proof round is not the run's.
Blame(what) == cause' = IF round = {} THEN cause \cup {what} ELSE cause

Alive(s) == stage[s] \in {"before", "scenarios", "after"}
Interrupted == signals > 0

-----------------------------------------------------------------------------
(* A pass: its world, its parallel files, its serial files, its proof      *)
(* rounds, and its world's end.                                            *)

\* A signal stops the run before the next environment starts.
Open ==
  /\ phase = "pass" /\ pass <= Passes /\ ~Interrupted
  /\ phase' = "opening"
  /\ UNCHANGED <<pass, world, group, given, serials, signals, exit, workerVars, pipe,
                 tallyVars, round, blamed, cause>>

Prepare(slots, targets) ==
  /\ group' = [s \in Slots |-> IF s \in slots THEN "preparing" ELSE "idle"]
  /\ given' = [s \in Slots |-> IF s \in slots THEN targets[s] ELSE {}]
  /\ seen' = [s \in Slots |-> {}]
  /\ code' = [s \in Slots |-> "none"]

\* openWorld answered; every worker of the parallel phase starts preparing.
Opened ==
  /\ phase = "opening"
  /\ world' = "up"
  /\ phase' = "parallel"
  /\ serials' = SerialFiles
  /\ Prepare(1..WorkerCount, [s \in Slots |-> CellsOf(Bucket(s))])
  /\ UNCHANGED <<pass, signals, exit, stage, left, clean, pipe, problems, runs,
                 expected, written, allPassed, failedFiles, round, blamed, cause>>

\* The program did not start: the caller reported it, and its scenarios are
\* not expected; a start that a signal stopped ends the run.
OpenFailed ==
  /\ phase = "opening"
  /\ IF Interrupted
       THEN /\ phase' = "verdict"
            /\ UNCHANGED <<pass, expected, allPassed, cause>>
       ELSE /\ phase' = "pass"
            /\ pass' = pass + 1
            /\ expected' = expected - Len(Pickles)
            /\ allPassed' = FALSE
            /\ cause' = cause \cup {"world"}
  /\ UNCHANGED <<world, group, given, serials, signals, exit, workerVars, pipe, seen,
                 problems, runs, written, failedFiles, round, blamed>>

\* Files of the slot's targets without a record, when its worker failed.
Unreported(s) ==
  code[s] = "nonzero"
    /\ \E cell \in given[s] : ~\E other \in seen[s] : FileOf(other) = FileOf(cell)

AllIdle == \A s \in Slots : group[s] = "idle"

\* Mutant: the first worker that ends ends the phase.
AnyOver == AllIdle \/ \E s \in Slots : group[s] = "over"
AllOver == \A s \in Slots : group[s] \in {"idle", "over"}

ParallelOver ==
  /\ phase = "parallel" /\ AllOver
  /\ failedFiles' = (failedFiles \/ \E s \in Slots : group[s] = "over" /\ Unreported(s))
  /\ phase' = "serial"
  /\ group' = [s \in Slots |-> "idle"]
  /\ UNCHANGED <<pass, world, given, serials, signals, exit, workerVars, pipe, seen,
                 problems, runs, expected, written, allPassed, round, blamed, cause>>

\* One worker at a time, each strictly after the one before it ended.
SerialNext ==
  /\ phase = "serial" /\ AllOver
  /\ failedFiles' = (failedFiles \/ (group[1] = "over" /\ Unreported(1)))
  /\ IF serials = {}
       THEN /\ phase' = "proof"
            /\ group' = [s \in Slots |-> "idle"]
            /\ UNCHANGED <<serials, given, seen, code>>
       ELSE LET file == FileOf(Foremost(CellsOf(serials))) IN
            /\ Prepare({1}, [s \in Slots |-> CellsOf({file})])
            /\ serials' = serials \ {file}
            /\ UNCHANGED phase
  /\ UNCHANGED <<pass, world, signals, exit, stage, left, clean, pipe, problems, runs,
                 expected, written, allPassed, round, blamed, cause>>

\* needsProofRun: a control whose every run broke the same claim.
NeedsProof(p, cell) ==
  /\ cell \in Controls
  /\ Len(runs[p][cell]) \in 1..(ProofRuns - 1)
  /\ \A i \in DOMAIN runs[p][cell] : runs[p][cell][i] = "fail"
Due == {cell \in Cells : NeedsProof(pass, cell)}

StartRound ==
  /\ phase = "proof" /\ AllOver /\ round = {}
  /\ ~Interrupted /\ Due # {}
  /\ expected' = expected + Cardinality(Due)
  /\ round' = Due
  /\ problems' = FALSE
  /\ Prepare({1}, [s \in Slots |-> Due])
  /\ UNCHANGED <<phase, pass, world, serials, signals, exit, stage, left, clean, pipe,
                 runs, written, allPassed, failedFiles, blamed, cause>>

\* Mutant: the rounds go on after one that went wrong.
RetryRound ==
  /\ phase = "proof" /\ AllOver /\ round # {}
  /\ ~Interrupted
  /\ LET missing == round \ seen[1] IN
       expected' = expected - (IF problems \/ missing # {} THEN Cardinality(missing) ELSE 0)
  /\ round' = {}
  /\ group' = [s \in Slots |-> "idle"]
  /\ UNCHANGED <<phase, pass, world, given, serials, signals, exit, workerVars, pipe,
                 seen, problems, runs, written, allPassed, failedFiles, blamed, cause>>

\* A round that went wrong is its cells' to carry, and ends the rounds.
RoundOver ==
  /\ phase = "proof" /\ AllOver /\ round # {}
  /\ ~Interrupted
  /\ LET missing == round \ seen[1] IN
       IF problems \/ missing # {}
         THEN /\ expected' = expected - Cardinality(missing)
              /\ blamed' = blamed \cup ({pass} \X round)
              /\ phase' = "closing"
         ELSE UNCHANGED <<expected, blamed, phase>>
  /\ round' = {}
  /\ group' = [s \in Slots |-> "idle"]
  /\ UNCHANGED <<pass, world, given, serials, signals, exit, workerVars, pipe, seen,
                 problems, runs, written, allPassed, failedFiles, cause>>

RoundsDone ==
  /\ phase = "proof" /\ AllOver
  /\ Interrupted \/ (round = {} /\ Due = {})
  /\ phase' = "closing"
  /\ round' = {}
  /\ group' = [s \in Slots |-> "idle"]
  /\ UNCHANGED <<pass, world, given, serials, signals, exit, workerVars, pipe,
                 tallyVars, blamed, cause>>

\* The world stops after the pass's last worker.
Close ==
  /\ phase = "closing"
  /\ world' = "none"
  /\ pass' = pass + 1
  /\ phase' = "pass"
  /\ UNCHANGED <<group, given, serials, signals, exit, workerVars, pipe, tallyVars,
                 round, blamed, cause>>

\* A step of runWorkerGroup threw: Promise.all rejects at once, whatever the
\* other workers are doing, and the pass's `finally` stops its world.
Thrown ==
  /\ phase = "thrown"
  /\ world' = "none"
  /\ exit' = "threw"
  /\ phase' = "done"
  /\ UNCHANGED <<pass, group, given, serials, signals, workerVars, pipe, tallyVars,
                 round, blamed, cause>>

\* Mutant: only files without any record are missed.
VerdictByFiles ==
  /\ phase = "verdict" \/ (phase = "pass" /\ (Interrupted \/ pass > Passes))
  /\ exit' = IF Interrupted THEN "signal"
             ELSE IF failedFiles \/ ~allPassed THEN "red"
             ELSE "green"
  /\ phase' = "done"
  /\ UNCHANGED <<pass, world, group, given, serials, signals, workerVars, pipe, tallyVars,
                 round, blamed, cause>>

\* The checks after the last pass, first the signal's.
Verdict ==
  /\ phase = "verdict" \/ (phase = "pass" /\ (Interrupted \/ pass > Passes))
  /\ exit' = IF Interrupted THEN "signal"
             ELSE IF failedFiles \/ written # expected \/ ~allPassed THEN "red"
             ELSE "green"
  /\ phase' = "done"
  /\ UNCHANGED <<pass, world, group, given, serials, signals, workerVars, pipe, tallyVars,
                 round, blamed, cause>>

-----------------------------------------------------------------------------
(* runWorkerGroup: a temporary directory, the worker, its envelopes.        *)

\* The directory and the list file are there; a signal is looked at again.
Spawn(s) ==
  /\ group[s] = "preparing" /\ ~Interrupted
  /\ group' = [group EXCEPT ![s] = "running"]
  /\ stage' = [stage EXCEPT ![s] = "before"]
  /\ left' = [left EXCEPT ![s] = given[s]]
  /\ clean' = [clean EXCEPT ![s] = TRUE]
  /\ UNCHANGED <<phase, pass, world, given, serials, signals, exit, code, pipe,
                 tallyVars, round, blamed, cause>>

SkipSpawn(s) ==
  /\ group[s] = "preparing" /\ Interrupted
  /\ group' = [group EXCEPT ![s] = "over"]
  /\ code' = [code EXCEPT ![s] = "nonzero"]
  /\ UNCHANGED <<phase, pass, world, given, serials, signals, exit, stage, left, clean,
                 pipe, tallyVars, round, blamed, cause>>

\* mkdtemp or writeFile rejects.
PrepareFails(s) ==
  /\ SetupFails
  /\ group[s] = "preparing" /\ phase # "done"
  /\ group' = [group EXCEPT ![s] = "over"]
  /\ phase' = "thrown"
  /\ UNCHANGED <<pass, world, given, serials, signals, exit, workerVars, pipe, tallyVars,
                 round, blamed, cause>>

\* handleEnvelope and relayNote, for the next line of the worker's stdout.
ReadEnvelope(s) ==
  /\ group[s] = "running" /\ pipe[s] # << >>
  /\ pipe' = [pipe EXCEPT ![s] = Tail(@)]
  /\ LET line == Head(pipe[s]) IN
       IF line = HookFailed
         THEN /\ IF round # {} THEN problems' = TRUE /\ UNCHANGED allPassed
                 ELSE allPassed' = FALSE /\ UNCHANGED problems
              /\ UNCHANGED <<seen, runs, written>>
         ELSE /\ seen' = [seen EXCEPT ![s] = @ \cup {line.cell}]
              /\ runs' = [runs EXCEPT ![pass][line.cell] = Append(@, line.outcome)]
              /\ written' = written + 1
              /\ allPassed' = (allPassed /\ (line.cell \in Controls \/ line.outcome = "pass"))
              /\ UNCHANGED problems
  /\ UNCHANGED <<parentVars, workerVars, expected, failedFiles, round, blamed, cause>>

\* A line that does not parse is warned about and dropped.
DropLine(s) ==
  /\ Garbles
  /\ group[s] = "running" /\ pipe[s] # << >>
  /\ pipe' = [pipe EXCEPT ![s] = Tail(@)]
  /\ IF Head(pipe[s]) = HookFailed THEN UNCHANGED cause
     ELSE Blame("lost")
  /\ UNCHANGED <<parentVars, workerVars, tallyVars, round, blamed>>

\* Mutant: "exit" instead of "close".
CloseAtExit(s) ==
  /\ group[s] = "running" /\ stage[s] = "ended"
  /\ group' = [group EXCEPT ![s] = "over"]
  /\ pipe' = [pipe EXCEPT ![s] = << >>]
  /\ UNCHANGED <<phase, pass, world, given, serials, signals, exit, workerVars,
                 tallyVars, round, blamed, cause>>

\* "close": the process ended and its streams have nothing more.
WorkerClosed(s) ==
  /\ group[s] = "running" /\ stage[s] = "ended"
  /\ pipe[s] = << >>
  /\ group' = [group EXCEPT ![s] = "over"]
  /\ UNCHANGED <<phase, pass, world, given, serials, signals, exit, workerVars, pipe,
                 tallyVars, round, blamed, cause>>

-----------------------------------------------------------------------------
(* The worker.                                                              *)

Emit(s, envelope) == pipe' = [pipe EXCEPT ![s] = Append(@, envelope)]
workerFrame == <<parentVars, code, tallyVars, round, blamed>>

BeforeAll(s) ==
  /\ stage[s] = "before"
  /\ \/ /\ stage' = [stage EXCEPT ![s] = "scenarios"]
        /\ UNCHANGED <<clean, pipe, cause>>
     \/ /\ stage' = [stage EXCEPT ![s] = "after"]
        /\ Blame("hook")
        /\ clean' = [clean EXCEPT ![s] = FALSE]
        /\ Emit(s, HookFailed)
  /\ UNCHANGED <<left, workerFrame>>

RunScenario(s) ==
  /\ stage[s] = "scenarios" /\ left[s] # {}
  /\ LET cell == Foremost(left[s]) IN
       /\ left' = [left EXCEPT ![s] = @ \ {cell}]
       /\ \E outcome \in IF cell \in Controls THEN Outcomes ELSE {"pass", "fail"} :
            /\ Emit(s, [cell |-> cell, outcome |-> outcome])
            /\ clean' = [clean EXCEPT ![s] = @ /\ outcome = "pass"]
            /\ IF outcome = "pass" \/ cell \in Controls THEN UNCHANGED cause
               ELSE Blame("failed")
  /\ UNCHANGED <<stage, workerFrame>>

ScenariosOver(s) ==
  /\ stage[s] = "scenarios" /\ left[s] = {}
  /\ stage' = [stage EXCEPT ![s] = "after"]
  /\ UNCHANGED <<left, clean, pipe, cause, workerFrame>>

Ended(s, status) ==
  /\ stage' = [stage EXCEPT ![s] = "ended"]
  /\ code' = [code EXCEPT ![s] = status]

\* The AfterAll hooks, the process fixtures' teardown, and the exit.
AfterAll(s) ==
  /\ stage[s] = "after"
  /\ \E ok \in BOOLEAN :
       /\ IF ok THEN UNCHANGED <<pipe, cause>> ELSE Emit(s, HookFailed) /\ Blame("hook")
       /\ Ended(s, IF clean[s] /\ ok THEN "zero" ELSE "nonzero")
  /\ UNCHANGED <<left, clean, parentVars, tallyVars, round, blamed>>

\* The signal's handler ends the worker once its fixtures are torn down.
SignalExit(s) ==
  /\ Alive(s) /\ Interrupted
  /\ Ended(s, "nonzero")
  /\ UNCHANGED <<left, clean, pipe, parentVars, tallyVars, round, blamed, cause>>

\* Killed, or an error outside every scenario.
WorkerDies(s) ==
  /\ Crashes /\ Alive(s)
  /\ Ended(s, "nonzero")
  /\ IF left[s] = {} THEN UNCHANGED cause ELSE Blame("lost")
  /\ UNCHANGED <<left, clean, pipe, parentVars, tallyVars, round, blamed>>

\* Project code called process.exit(0), which a worker does not hold.
ProcessExit(s) ==
  /\ EarlyExits /\ Alive(s)
  /\ Ended(s, "zero")
  /\ Blame("exit")
  /\ UNCHANGED <<left, clean, pipe, parentVars, tallyVars, round, blamed>>

-----------------------------------------------------------------------------
\* SIGINT, SIGTERM or SIGHUP, forwarded to every live worker.  The second ends
\* the parent at once, whose exit kills the world.
Signal ==
  /\ phase # "done" /\ signals < MaxSignals
  /\ signals' = signals + 1
  /\ IF signals = 0
       THEN UNCHANGED <<phase, world, exit>>
       ELSE phase' = "done" /\ exit' = "signal" /\ world' = "none"
  /\ UNCHANGED <<pass, group, given, serials, workerVars, pipe, tallyVars, round,
                 blamed, cause>>

Parent ==
  \/ Open \/ Opened \/ OpenFailed \/ ParallelOver \/ SerialNext \/ StartRound
  \/ RoundOver \/ RoundsDone \/ Close \/ Thrown \/ Verdict

Group(s) ==
  /\ phase # "done"
  /\ Spawn(s) \/ SkipSpawn(s) \/ ReadEnvelope(s) \/ WorkerClosed(s)

Worker(s) == BeforeAll(s) \/ RunScenario(s) \/ ScenariosOver(s) \/ AfterAll(s)

Next ==
  \/ Parent \/ Signal
  \/ \E s \in Slots :
       \/ Group(s) \/ Worker(s) \/ SignalExit(s)
       \/ (phase # "done" /\ DropLine(s))
       \/ PrepareFails(s) \/ WorkerDies(s) \/ ProcessExit(s)

Spec == Init /\ [][Next]_vars

\* Processes make progress: a scenario and a hook end (their deadlines see
\* to it), and the parent's awaits settle.
FairSpec ==
  /\ Spec /\ WF_vars(Parent)
  /\ \A s \in Slots : WF_vars(Group(s)) /\ WF_vars(Worker(s))
-----------------------------------------------------------------------------

ParentTypes ==
  /\ phase \in {"pass", "opening", "parallel", "serial", "proof", "closing",
                "thrown", "verdict", "done"}
  /\ pass \in 1..Passes + 1 /\ world \in {"none", "up"}
  /\ group \in [Slots -> {"idle", "preparing", "running", "over"}]
  /\ given \in [Slots -> SUBSET Cells]
  /\ serials \subseteq SerialFiles /\ round \subseteq Controls
  /\ signals \in 0..MaxSignals /\ exit \in {"none", "green", "red", "signal", "threw"}
WorkerTypes ==
  /\ stage \in [Slots -> {"none", "before", "scenarios", "after", "ended"}]
  /\ left \in [Slots -> SUBSET Cells] /\ pipe \in [Slots -> Seq(Envelopes)]
  /\ clean \in [Slots -> BOOLEAN] /\ code \in [Slots -> {"none", "zero", "nonzero"}]
  /\ cause \subseteq {"world", "hook", "failed", "lost", "exit"}
TallyTypes ==
  /\ seen \in [Slots -> SUBSET Cells]
  /\ runs \in [1..Passes -> [Cells -> Seq(Outcomes)]]
  /\ \A p \in 1..Passes, c \in Cells : Len(runs[p][c]) <= ProofRuns
  /\ blamed \subseteq (1..Passes) \X Controls
  /\ problems \in BOOLEAN /\ allPassed \in BOOLEAN /\ failedFiles \in BOOLEAN
CountTypes == written \in 0..Len(Pickles) * Passes * ProofRuns /\ expected \in Nat
TypeOK == ParentTypes /\ WorkerTypes /\ TallyTypes /\ CountTypes

\* "a run must never quietly report fewer records than it promised": a green
\* run has a record of every scenario in every environment, every required
\* one passed, and every control that failed was run again to agreement, to
\* a run that disagrees, or is blamed on its round.
GreenMeansComplete ==
  exit = "green" =>
    \A p \in 1..Passes, c \in Cells :
      /\ runs[p][c] # << >>
      /\ c \notin Controls => ToSet(runs[p][c]) = {"pass"}
      /\ (c \in Controls /\ ToSet(runs[p][c]) = {"fail"}) =>
           Len(runs[p][c]) = ProofRuns \/ <<p, c>> \in blamed

\* "The run is red only for what it is red for without the round": neither a
\* control nor anything in a proof round makes a run red.
RedMeansCause == exit = "red" => cause # {}

\* A serial file runs while no other file runs, proof rounds included.
SerialAlone ==
  \A s, t \in Slots :
    (Alive(s) /\ Alive(t) /\ s # t) => ~\E c \in given[s] : FileOf(c) \in Serial

\* The parent "starts the program before the pass's first worker and stops
\* it after the last one": no worker runs without the world of its pass,
\* unless a second signal ended the parent at once or the run threw.
WorldOutlivesWorkers ==
  (\E s \in Slots : Alive(s)) => world = "up" \/ signals = 2 \/ exit = "threw"

\* The same of a run that threw: it stops the world under its workers.
WorldAlwaysOutlives == (\E s \in Slots : Alive(s)) => world = "up" \/ signals = 2

\* The run ends.
RunEnds == <>(phase = "done")

\* "A --concurrency worker does not hold the call: the worker ends, and the
\* run fails with run-incomplete" (docs/spec.md, on process.exit).
EarlyExitFails == exit = "green" => "exit" \notin cause
=============================================================================

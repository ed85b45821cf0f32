----------------------------- MODULE OtherWorlds -----------------------------
(***************************************************************************)
(* The base and the old world of `nuka run --base`: one pass after another *)
(* (runOtherWorlds in src/cli/run.ts), each with its world and its workers *)
(* (src/run/tree-pass.ts), in trees that go when the passes are over, or   *)
(* when a signal comes: its handler stops the workers that are live, then  *)
(* the tree's world, then removes the trees, and exits.                    *)
(***************************************************************************)
EXTENDS Naturals, FiniteSets

CONSTANTS
  Files,       \* feature files a pass runs, one target each
  SerialFiles, \* those tagged @nukadoko:serial
  Concurrency,
  ProofRuns,
  Passes       \* passes, a tree and an environment each

VARIABLES
  pass,      \* the pass under way
  at,        \* where it is
  rounds,    \* the proof rounds it began
  group,     \* the targets of each worker: bucket 1, 2.., or the one alone, 0
  worker,    \* where each is: "none", "writing" its files, "live"
  unseen,    \* targets of its group no record came for
  runs,      \* of each target: its executions of this pass
  unsettled, \* the targets whose executions all broke the same claim so far
  served,    \* the files handed to a worker of the pass
  notRun,    \* state.notRun is set
  world,     \* the tree's world: "down", "starting", "up"
  handler,   \* of a signal: "none", "workers", "world", "trees", "exited"
  snapshot,  \* the workers it stops
  late,      \* the workers spawned after it (history)
  trees      \* both trees are there

otherVars == <<pass, at, rounds, group, worker, unseen, runs, unsettled, served,
               notRun, world, handler, snapshot, late, trees>>
workerVars == <<group, worker, unseen, runs, unsettled, served, notRun>>
signalVars == <<handler, snapshot, late, trees>>

Parallel == Files \ SerialFiles
Ids == 0..Concurrency
Interrupted == handler # "none"
Running == handler # "exited"

OtherInit ==
  /\ pass = 0 /\ at = "next" /\ rounds = 0
  /\ group = [w \in Ids |-> {}] /\ worker = [w \in Ids |-> "none"] /\ unseen = [w \in Ids |-> {}]
  /\ runs = [f \in Files |-> 0] /\ unsettled = Files /\ served = {} /\ notRun = FALSE
  /\ world = "down" /\ handler = "none" /\ snapshot = {} /\ late = {} /\ trees = TRUE

-----------------------------------------------------------------------------
(* From one pass to the next.                                              *)

\* No tree world starts after a signal.
NextPass ==
  /\ Running /\ at = "next" /\ pass < Passes /\ ~Interrupted
  /\ pass' = pass + 1 /\ rounds' = 0
  /\ runs' = [f \in Files |-> 0] /\ unsettled' = Files /\ served' = {} /\ notRun' = FALSE
  /\ \/ at' = "starting" /\ world' = "starting"
     \/ at' = "parallel" /\ UNCHANGED world     \* a tree with no program
  /\ UNCHANGED <<group, worker, unseen, signalVars>>

\* A start that fails, or that the handler aborted, leaves its cells not run;
\* after a signal the run waits for its exit.
WorldStarts ==
  /\ at = "starting"
  /\ \/ ~Interrupted /\ world' = "up" /\ at' = "parallel"
     \/ ~Interrupted /\ world' = "down" /\ at' = "next"
     \/ Interrupted /\ world' = "down" /\ at' = "wait"
  /\ UNCHANGED <<pass, rounds, workerVars, signalVars>>

\* setProcessCleanup(null), then base.cleanup: nothing of a pass is left.
RemoveTrees ==
  /\ Running /\ at = "next" /\ (pass = Passes \/ Interrupted)
  /\ at' = "over" /\ trees' = FALSE
  /\ UNCHANGED <<pass, rounds, workerVars, world, handler, snapshot, late>>

-----------------------------------------------------------------------------
(* A pass: its workers.                                                    *)

Idle == \A w \in Ids : worker[w] = "none"

\* runGroup writes the worker's files first.
Give(groups) ==
  /\ group' = groups /\ served' = served \cup UNION {groups[w] : w \in Ids}
  /\ unseen' = groups
  /\ worker' = [w \in Ids |-> IF groups[w] = {} THEN "none" ELSE "writing"]
  /\ UNCHANGED <<runs, unsettled, notRun>>

Alone(targets) == [w \in Ids |-> IF w = 0 THEN targets ELSE {}]

Smaller(a, b) == IF a < b THEN a ELSE b
Buckets == Smaller(Concurrency, Cardinality(Parallel))

\* Whole files, dealt out in turn.
StartParallel ==
  /\ Running /\ at = "parallel" /\ Idle
  /\ at' = "serial"
  /\ \E deal \in [Parallel -> 1..Buckets] :
       /\ \A a, b \in 1..Buckets : Cardinality({f \in Parallel : deal[f] = a})
                                     <= Cardinality({f \in Parallel : deal[f] = b}) + 1
       /\ Give([w \in Ids |-> {f \in Parallel : deal[f] = w}])
  /\ UNCHANGED <<pass, rounds, world, signalVars>>

StartSerial ==
  /\ Running /\ at = "serial" /\ Idle
  /\ \E f \in SerialFiles \ served : Give(Alone({f}))
  /\ UNCHANGED <<pass, at, rounds, world, signalVars>>

SerialDone ==
  /\ Running /\ at = "serial" /\ Idle
  /\ SerialFiles \subseteq served
  /\ at' = "proof"
  /\ UNCHANGED <<pass, rounds, workerVars, world, signalVars>>

Due == {f \in Files : runs[f] > 0 /\ f \in unsettled /\ runs[f] < ProofRuns}

\* Mutant: a round that lost records is followed by another.
NothingTold == ~notRun

\* What ends the rounds: what did not run, or a round that wrote too little.
NothingLost == ~notRun /\ (rounds > 0 => unseen[0] = {})

StartRound ==
  /\ Running /\ at = "proof" /\ Idle /\ Due # {} /\ NothingLost
  /\ rounds' = rounds + 1
  /\ Give(Alone(Due))
  /\ UNCHANGED <<pass, at, world, signalVars>>

\* The end of runTreePass: the world stops, unless the signal's handler has it.
RoundsDone ==
  /\ Running /\ at = "proof" /\ Idle /\ (Due = {} \/ ~NothingLost)
  /\ IF Interrupted THEN at' = "wait" /\ UNCHANGED world ELSE at' = "next" /\ world' = "down"
  /\ UNCHANGED <<pass, rounds, workerVars, signalVars>>

Spawn(w) ==
  /\ Running /\ worker[w] = "writing"
  /\ worker' = [worker EXCEPT ![w] = "live"]
  /\ late' = IF Interrupted THEN late \cup {w} ELSE late
  /\ UNCHANGED <<pass, at, rounds, group, unseen, runs, unsettled, served, notRun, world,
                 handler, snapshot, trees>>

Record(w) ==
  /\ Running /\ worker[w] = "live"
  /\ \E f \in unseen[w] : \E settles \in BOOLEAN :
       /\ unseen' = [unseen EXCEPT ![w] = @ \ {f}]
       /\ runs' = [runs EXCEPT ![f] = @ + 1]
       /\ unsettled' = IF settles THEN unsettled \ {f} ELSE unsettled
  /\ UNCHANGED <<pass, at, rounds, group, worker, served, notRun, world, signalVars>>

\* It closes: at its end, killed, or having said why the rest did not run.
\* One that exits with code 0 before that says nothing.
Close(w, code) ==
  /\ worker[w] = "live"
  /\ worker' = [worker EXCEPT ![w] = "none"]
  /\ snapshot' = snapshot \ {w} /\ late' = late \ {w}
  /\ notRun' = (notRun \/ (unseen[w] # {} /\ code # 0))
  /\ UNCHANGED <<pass, at, rounds, group, unseen, runs, unsettled, served, world, handler, trees>>

-----------------------------------------------------------------------------
(* A signal, while processCleanup is set.                                  *)

\* stopTreeWorkers: SIGTERM to what is live now.  Nothing is live while a
\* world starts, so its abort follows at once.
Signal ==
  /\ handler = "none" /\ at # "over"
  /\ handler' = IF at = "starting" THEN "world" ELSE "workers"
  /\ snapshot' = {w \in Ids : worker[w] = "live"}
  /\ UNCHANGED <<pass, at, rounds, workerVars, world, late, trees>>

\* The grace is over when they are gone, or at its deadline, with SIGKILL.
WorkersStopped ==
  /\ handler = "workers"
  /\ handler' = "world" /\ snapshot' = {}
  /\ worker' = [w \in Ids |-> IF w \in snapshot THEN "none" ELSE worker[w]]
  /\ notRun' = (notRun \/ \E w \in snapshot : unseen[w] # {})
  /\ UNCHANGED <<pass, at, rounds, group, unseen, runs, unsettled, served, world, late, trees>>

\* Mutant: the handler does not wait for the start it aborted.
StartAborted == TRUE

\* A start under way is aborted, and its end waited for.
StartSettled == at # "starting"

WorldStopped ==
  /\ handler = "world" /\ StartSettled
  /\ handler' = "trees" /\ world' = "down"
  /\ UNCHANGED <<pass, at, rounds, workerVars, snapshot, late, trees>>

HandlerRemovesTrees ==
  /\ handler = "trees"
  /\ handler' = "exited" /\ trees' = FALSE
  /\ UNCHANGED <<pass, at, rounds, workerVars, world, snapshot, late>>

OtherNext ==
  \/ NextPass \/ WorldStarts \/ RemoveTrees
  \/ StartParallel \/ StartSerial \/ SerialDone \/ StartRound \/ RoundsDone
  \/ \E w \in Ids : Spawn(w) \/ Record(w) \/ \E code \in 0..1 : Close(w, code)
  \/ Signal \/ WorkersStopped \/ WorldStopped \/ HandlerRemovesTrees

OtherSpec == OtherInit /\ [][OtherNext]_otherVars

-----------------------------------------------------------------------------
(* Properties.                                                             *)

\* The trees go last.  Once they are removed, no world of a tree is up or
\* starting, and no worker that was there when the signal came is left.
TreesGoLast ==
  ~trees => /\ world = "down" /\ at # "starting"
            /\ \A w \in Ids : worker[w] = "live" => w \in late

\* No worker is left in a removed tree: not so, see the README.
NoWorkerOutlivesTree == ~trees => \A w \in Ids : worker[w] # "live"

\* A pass goes round for proof at most once for each run a proof needs beyond
\* the first, whatever its workers lose, and when it says nothing did not run
\* and lost nothing, no target is left in question.
RoundsEnd ==
  /\ rounds < ProofRuns
  /\ at = "next" /\ ~Interrupted /\ ~notRun /\ (rounds > 0 => unseen[0] = {}) => Due = {}

=============================================================================

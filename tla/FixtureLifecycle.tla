-------------------------- MODULE FixtureLifecycle --------------------------
(***************************************************************************)
(* Fixtures of one `nuka run` process: a coroutine per instance            *)
(* (src/fixture/lifecycle.ts), built and cached per scope                  *)
(* (src/fixture/resolver.ts), torn down by whichever comes first, the      *)
(* end of the scope (src/run/run-scenario.ts, src/cli/run.ts) or a signal  *)
(* (src/run/process-signal.ts).                                            *)
(*                                                                         *)
(* The run and the signal handler are two flows of one process: the run    *)
(* goes on while the handler tears down.  Fixture code is a third party    *)
(* that may stop at any await for good.  A scope is a number: 0 is the     *)
(* invocation ("process"), k > 0 is scenario k ("scenario").               *)
(***************************************************************************)
EXTENDS Integers, Sequences, SequencesExt

CONSTANTS
  Fixtures,     \* the names under config.fixtures
  Deps,         \* the fixtures each one names
  ProcessWide,  \* those with scope "process"
  Asks,         \* per scenario, per step, the fixtures the step names
  MaxSignals    \* bound: signals the process gets

ASSUME FixtureConstants ==
  /\ Deps \in [Fixtures -> SUBSET Fixtures]
  /\ ProcessWide \subseteq Fixtures
  \* findFixtureScopeViolations refuses any other graph.
  /\ \A f \in ProcessWide : Deps[f] \subseteq ProcessWide
  /\ Asks \in Seq(Seq(SUBSET Fixtures)) /\ \A k \in DOMAIN Asks : Asks[k] # << >>
  /\ MaxSignals \in 0..2

VARIABLES
  built,     \* every instance started, in order
  cache,     \* the instances of each scope, in build order
  teardown,  \* the one teardown of each scope (runOnce)
  at,        \* where the run is
  scenario, step,
  have,      \* the fixtures resolved for this step
  failed,    \* the scenario failed
  allPassed,
  outcome,   \* what each scope's teardown will say
  signals, handler,
  upAtSignal,  \* the instances up when the first signal came (history)
  exit

run == <<at, scenario, step, have, failed, allPassed>>
vars == <<built, cache, teardown, at, scenario, step, have, failed, allPassed,
          outcome, signals, handler, upAtSignal, exit>>

Scopes == 0..Len(Asks)
Statuses == {"setup",    \* before use()
             "late",     \* before use(), given up by a setup timeout
             "up",       \* suspended on use()
             "tearing",  \* after use()
             "ended"}

ScopeOf(f) == IF f \in ProcessWide THEN 0 ELSE scenario
\* What a step's names need, dependencies included.
Closure(names) ==
  {f \in Fixtures : \A S \in SUBSET Fixtures :
     (names \subseteq S /\ \A g \in S : Deps[g] \subseteq S) => f \in S}
Up == {i \in DOMAIN built : built[i].status = "up"}

Init ==
  /\ built = << >> /\ cache = [s \in Scopes |-> << >>]
  /\ teardown = [s \in Scopes |-> [at |-> "none", left |-> << >>]]
  /\ at = "between" /\ scenario = 0 /\ step = 1 /\ have = << >>
  /\ failed = FALSE /\ allPassed = TRUE
  /\ outcome = [s \in Scopes |-> "failed"]
  /\ signals = 0 /\ handler = [at |-> "idle", scope |-> 0] /\ upAtSignal = {}
  /\ exit = "none"

-----------------------------------------------------------------------------
(* Tearing a scope's cache down: a snapshot of it, latest first, each      *)
(* awaited up to its budget; then the cache is emptied.                    *)

\* The rest of the loop, from the instances left: resumes the first.
Resume(s, left, told) ==
  /\ teardown' = [teardown EXCEPT ![s] =
                    [at |-> IF left = << >> THEN "done" ELSE "running", left |-> left]]
  /\ IF left = << >>
     THEN cache' = [cache EXCEPT ![s] = << >>] /\ UNCHANGED built
     ELSE /\ built' = [built EXCEPT ![Head(left)].status = "tearing",
                                    ![Head(left)].told = told]
          /\ UNCHANGED cache

\* Mutant: in build order.
BuildOrderTeardown(s, told) ==
  IF teardown[s].at = "none" THEN Resume(s, cache[s], told)
  ELSE UNCHANGED <<built, cache, teardown>>
\* The first caller starts it; a later one shares it.
Teardown(s, told) ==
  IF teardown[s].at = "none" THEN Resume(s, Reverse(cache[s]), told)
  ELSE UNCHANGED <<built, cache, teardown>>

\* The instance awaited ended.
TeardownNext(s) ==
  /\ teardown[s].at = "running" /\ built[Head(teardown[s].left)].status = "ended"
  /\ Resume(s, Tail(teardown[s].left), built[Head(teardown[s].left)].told)
  /\ UNCHANGED <<run, outcome, signals, handler, upAtSignal, exit>>

\* Mutant: waits for as long as the fixture takes.
NoTeardownTimeout(s) == FALSE /\ UNCHANGED vars
\* It did not end within its budget: it is left running.
TeardownTimeout(s) ==
  /\ teardown[s].at = "running" /\ built[Head(teardown[s].left)].status = "tearing"
  /\ Resume(s, Tail(teardown[s].left), built[Head(teardown[s].left)].told)
  /\ UNCHANGED <<run, outcome, signals, handler, upAtSignal, exit>>

-----------------------------------------------------------------------------
(* The run.                                                                *)

Begin ==
  /\ at = "between" /\ scenario < Len(Asks)
  /\ at' = "resolve" /\ scenario' = scenario + 1 /\ step' = 1
  /\ have' = << >> /\ failed' = FALSE
  /\ UNCHANGED <<built, cache, teardown, allPassed, outcome, signals, handler, upAtSignal, exit>>

Needed == Closure(Asks[scenario][step])
\* A fixture whose turn it is: the order is by dependencies.
Due(f) == f \in Needed \ DOMAIN have /\ Deps[f] \subseteq DOMAIN have
Cached(f) == {i \in ToSet(cache[ScopeOf(f)]) : built[i].name = f}

With(f, i) == [g \in DOMAIN have \cup {f} |-> IF g = f THEN i ELSE have[g]]

Reuse(f) ==
  /\ at = "resolve" /\ Due(f)
  /\ \E i \in Cached(f) : have' = With(f, i)
  /\ UNCHANGED <<built, cache, teardown, at, scenario, step, failed, allPassed,
                 outcome, signals, handler, upAtSignal, exit>>

Start(f) ==
  /\ at = "resolve" /\ Due(f) /\ Cached(f) = {}
  /\ built' = Append(built, [name |-> f, scope |-> ScopeOf(f),
                             deps |-> {have[d] : d \in Deps[f]},
                             status |-> "setup", told |-> "nothing"])
  /\ at' = "setup"
  /\ UNCHANGED <<cache, teardown, scenario, step, have, failed, allPassed,
                 outcome, signals, handler, upAtSignal, exit>>

\* The instance the run waits for called use(): it enters the cache.
Use ==
  LET i == Len(built) IN
  /\ at = "setup" /\ built[i].status = "setup"
  /\ built' = [built EXCEPT ![i].status = "up"]
  /\ cache' = [cache EXCEPT ![built[i].scope] = Append(@, i)]
  /\ have' = With(built[i].name, i) /\ at' = "resolve"
  /\ UNCHANGED <<teardown, scenario, step, failed, allPassed, outcome, signals,
                 handler, upAtSignal, exit>>

\* The setup fails the step: it threw or returned without use() ("ended"),
\* or its budget passed ("late") and it goes on outside any cache.
SetupFails(status) ==
  LET i == Len(built) IN
  /\ at = "setup" /\ built[i].status = "setup"
  /\ built' = [built EXCEPT ![i].status = status]
  /\ failed' = TRUE /\ at' = "over"
  /\ UNCHANGED <<cache, teardown, scenario, step, have, allPassed, outcome,
                 signals, handler, upAtSignal, exit>>

\* The step's body, on the fixtures resolved.
StepPasses ==
  /\ at = "resolve" /\ Needed \subseteq DOMAIN have
  /\ IF step < Len(Asks[scenario])
     THEN have' = << >> /\ step' = step + 1 /\ UNCHANGED at
     ELSE at' = "over" /\ UNCHANGED <<have, step>>
  /\ UNCHANGED <<built, cache, teardown, scenario, failed, allPassed, outcome,
                 signals, handler, upAtSignal, exit>>

\* It throws, or its deadline passes.  The later steps are skipped.
StepFails ==
  /\ at = "resolve" /\ Needed \subseteq DOMAIN have
  /\ failed' = TRUE /\ at' = "over"
  /\ UNCHANGED <<built, cache, teardown, scenario, step, have, allPassed, outcome,
                 signals, handler, upAtSignal, exit>>

ScenarioOver ==
  /\ at = "over" /\ at' = "teardown"
  /\ outcome' = [outcome EXCEPT ![scenario] = IF failed THEN "failed" ELSE "passed"]
  /\ Teardown(scenario, outcome'[scenario])
  /\ UNCHANGED <<scenario, step, have, failed, allPassed, signals, handler, upAtSignal, exit>>

ScenarioDone ==
  /\ at = "teardown" /\ teardown[scenario].at = "done"
  /\ at' = "between" /\ allPassed' = (allPassed /\ ~failed)
  /\ UNCHANGED <<built, cache, teardown, scenario, step, have, failed, outcome,
                 signals, handler, upAtSignal, exit>>

\* Mutant: an invocation cut short says it passed.
UninterruptedClose ==
  /\ at = "between" /\ scenario = Len(Asks) /\ at' = "closing"
  /\ outcome' = [outcome EXCEPT ![0] = IF allPassed THEN "passed" ELSE "failed"]
  /\ Teardown(0, outcome'[0])
  /\ UNCHANGED <<scenario, step, have, failed, allPassed, signals, handler, upAtSignal, exit>>
Close ==
  /\ at = "between" /\ scenario = Len(Asks) /\ at' = "closing"
  /\ outcome' = [outcome EXCEPT ![0] = IF allPassed THEN "passed" ELSE "failed"]
  /\ Teardown(0, IF signals > 0 THEN "failed" ELSE outcome'[0])
  /\ UNCHANGED <<scenario, step, have, failed, allPassed, signals, handler, upAtSignal, exit>>

Return ==
  /\ at = "closing" /\ teardown[0].at = "done" /\ exit' = "returned"
  /\ UNCHANGED <<built, cache, teardown, run, outcome, signals, handler, upAtSignal>>

-----------------------------------------------------------------------------
(* The signal handler.                                                     *)

\* setScenarioCleanup is called as a scenario starts and once its teardown is over.
Registered == at \in {"resolve", "setup", "over", "teardown"}

\* The first signal: the teardown begins before anything else runs.
Signal ==
  /\ signals = 0 /\ signals < MaxSignals
  /\ signals' = 1 /\ upAtSignal' = Up
  /\ IF Registered
     THEN /\ handler' = [at |-> "scenario", scope |-> scenario]
          /\ Teardown(scenario, outcome[scenario])
     ELSE /\ handler' = [at |-> "process", scope |-> 0]
          /\ Teardown(0, "failed")
  /\ UNCHANGED <<run, outcome, exit>>

\* Mutant: a teardown already under way is not waited for.
HandlerRushes ==
  /\ handler.at = "scenario"
  /\ handler' = [handler EXCEPT !.at = "process"]
  /\ Teardown(0, "failed")
  /\ UNCHANGED <<run, outcome, signals, upAtSignal, exit>>
HandlerProcess ==
  /\ handler.at = "scenario" /\ teardown[handler.scope].at = "done"
  /\ handler' = [handler EXCEPT !.at = "process"]
  /\ Teardown(0, "failed")
  /\ UNCHANGED <<run, outcome, signals, upAtSignal, exit>>

HandlerExit ==
  /\ handler.at = "process" /\ teardown[0].at = "done" /\ exit' = "signalled"
  /\ UNCHANGED <<built, cache, teardown, run, outcome, signals, handler, upAtSignal>>

SecondSignal ==
  /\ signals = 1 /\ signals < MaxSignals
  /\ signals' = 2 /\ exit' = "signalled"
  /\ UNCHANGED <<built, cache, teardown, run, outcome, handler, upAtSignal>>

-----------------------------------------------------------------------------
(* Fixture code nobody waits for, or that is waited for by a teardown.     *)

\* Mutant: the late value is handed over as if somebody waited.
UseUnwatched(i) ==
  /\ built[i].status = "late" /\ built' = [built EXCEPT ![i].status = "up"]
  /\ UNCHANGED <<cache, teardown, run, outcome, signals, handler, upAtSignal, exit>>
\* use() after the setup timeout answers "failed" at once.
UseLate(i) ==
  /\ built[i].status = "late"
  /\ built' = [built EXCEPT ![i].status = "tearing", ![i].told = "failed"]
  /\ UNCHANGED <<cache, teardown, run, outcome, signals, handler, upAtSignal, exit>>

\* The function settles.
FixtureEnds(i) ==
  /\ built[i].status \in {"late", "tearing"}
  /\ built' = [built EXCEPT ![i].status = "ended"]
  /\ UNCHANGED <<cache, teardown, run, outcome, signals, handler, upAtSignal, exit>>

Run == Begin \/ (\E f \in Fixtures : Reuse(f) \/ Start(f)) \/ SetupFails("late")
       \/ StepPasses \/ StepFails \/ ScenarioOver \/ ScenarioDone \/ Close \/ Return
Handler == HandlerProcess \/ HandlerExit
Fixture == Use \/ SetupFails("ended") \/ \E i \in DOMAIN built : UseLate(i) \/ FixtureEnds(i)
Awaiting(s) == TeardownNext(s) \/ TeardownTimeout(s)
Next ==
  /\ exit = "none"
  /\ Run \/ Handler \/ Fixture \/ (\E s \in Scopes : Awaiting(s)) \/ Signal \/ SecondSignal

Spec == Init /\ [][Next]_vars

\* Timers fire and settled promises resume.  Fixture code owes nothing.  A
\* step's body is bounded by its deadline.
FairSpec ==
  Spec /\ WF_vars(exit = "none" /\ Run) /\ WF_vars(exit = "none" /\ Handler)
       /\ \A s \in Scopes : WF_vars(exit = "none" /\ Awaiting(s))

-----------------------------------------------------------------------------

TypeOK ==
  /\ built \in Seq([name : Fixtures, scope : Scopes, deps : SUBSET Nat,
                    status : Statuses, told : {"nothing", "failed", "passed"}])
  /\ \A s \in Scopes : /\ ToSet(cache[s]) \subseteq DOMAIN built
                       /\ teardown[s].at \in {"none", "running", "done"}
                       /\ ToSet(teardown[s].left) \subseteq DOMAIN built
  /\ at \in {"between", "resolve", "setup", "over", "teardown", "closing"}
  /\ scenario \in Scopes /\ (scenario > 0 => step \in DOMAIN Asks[scenario])
  /\ DOMAIN have \subseteq Fixtures /\ failed \in BOOLEAN /\ allPassed \in BOOLEAN
  /\ outcome \in [Scopes -> {"failed", "passed"}]
  /\ signals \in 0..MaxSignals /\ handler.at \in {"idle", "scenario", "process"}
  /\ exit \in {"none", "returned", "signalled"}

\* A run no signal reached leaves nothing suspended on use(): the fixtures a
\* failed step built before the one that failed, and one whose setup timed
\* out and went on, are told to clean up as well (lifecycle.ts:113-120,
\* resolver.ts:78-84).
ReturnLeavesNothingUp == (exit = "returned" /\ signals = 0) => Up = {}

\* While a fixture is up, everything it was built from is up: teardown takes
\* dependents first, across both scopes (resolver.ts:165-178).
DependencyOutlives ==
  signals = 0 => \A i \in Up : \A d \in built[i].deps : built[d].status = "up"

\* What was up when the first signal came is told to clean up before that
\* signal's exit, whatever the run itself was doing, a teardown of the same
\* fixtures included (process-signal.ts:11-17).
SignalTearsDownWhatWasUp ==
  (exit = "signalled" /\ signals = 1) => upAtSignal \cap Up = {}

\* use() answers "passed" only when the scope ended well: no step of the
\* scenario failed, and no signal had cut the invocation short when its
\* teardown began (run-scenario.ts:1011, cli/run.ts:2285-2290).  One outcome
\* is told to all the fixtures of a scope.
PassedIsEarned ==
  [][\A i \in DOMAIN built' :
       (built'[i].told = "passed" /\ (i \in DOMAIN built => built[i].told = "nothing")) =>
         IF built'[i].scope = 0 THEN allPassed /\ (signals = 0 \/ teardown[0].at = "running")
         ELSE ~failed /\ at' = "teardown"]_vars

\* The process ends, by its return or by the signal, even when every fixture
\* stops at its next await for good (lifecycle.ts:23-30).
ProcessEnds == <>(exit # "none")

\* DependencyOutlives with signals too: "The reverse order makes each
\* dependency outlive its dependents." (docs/spec.md:1091)
DependencyAlwaysOutlives ==
  \A i \in Up : \A d \in built[i].deps : built[d].status = "up"
=============================================================================

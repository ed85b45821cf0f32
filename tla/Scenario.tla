------------------------------ MODULE Scenario ------------------------------
(***************************************************************************)
(* One pickle after another in one process (src/run/run-scenario.ts): its  *)
(* Before hooks, its lines with their AfterStep hooks, the pauses of       *)
(* `--step`, its After hooks, and the record written at its end.  A body   *)
(* of project code past its deadline goes on beside what follows           *)
(* (src/run/step-deadline.ts), and a timer it left may call process.exit   *)
(* at any moment (src/run/project-exit.ts).                                *)
(***************************************************************************)
EXTENDS Naturals, Sequences

CONSTANTS
  Lines,       \* lines of each scenario, one or more
  Befores,     \* hooks that apply to it, by their type: any number of each
  AfterSteps,
  Afters,
  Scenarios,   \* bound: scenarios of the run
  MaxExits     \* bound: calls of process.exit nothing awaits

ASSUME ScenarioConstants ==
  /\ Lines \in Nat \ {0}
  /\ {Befores, AfterSteps, Afters, Scenarios, MaxExits} \subseteq Nat

VARIABLES
  walked,     \* `nuka run --step`, which runs one scenario
  number,     \* the scenario under way, 0 before the first
  never,      \* its lines that no execution begins for
  phase,      \* the phase it is in
  next,       \* the hook or the line of that phase
  entries,    \* ScenarioRecord.steps
  hooks,      \* ScenarioRecord.hooks
  failed,     \* scenarioFailed
  held,       \* heldFailure: the first failure noted, <<>> before one
  due,        \* walk.due: the line to pause after, 0 for none
  stopped,    \* walk.stopped: the line the walk stopped after, 0 for none
  written,    \* the status of the scenario record
  late,       \* bodies past their deadline that still run, by scenario
  escaped,    \* project-exit.ts: a call no project code caught
  pauses,     \* what each pause showed and was answered (history)
  failures,   \* what failed, in order (history)
  heard,      \* what each After hook was told (history)
  exits,      \* calls that escaped so far (history)
  owed,       \* something finished since one escaped (history)
  red         \* a scenario of the run did not pass (history)

walkVars == <<due, stopped, pauses>>
exitVars == <<escaped, exits, owed>>
scenarioVars == <<walked, number, never, phase, next, entries, hooks, failed, held, due, stopped,
                  written, late, escaped, pauses, failures, heard, exits, owed, red>>

ScenarioInit ==
  /\ walked \in BOOLEAN
  /\ number = 0 /\ never = {} /\ phase = <<"idle", "open">> /\ next = 0
  /\ entries = <<>> /\ hooks = <<>> /\ failed = FALSE /\ held = <<>>
  /\ due = 0 /\ stopped = 0 /\ written = "none" /\ late = {} /\ escaped = FALSE
  /\ pauses = <<>> /\ failures = <<>> /\ heard = <<>>
  /\ exits = 0 /\ owed = FALSE /\ red = FALSE

-----------------------------------------------------------------------------
(* The start of a scenario, and the two ends of one that never begins.     *)

Fresh(first, unmatched) ==
  /\ phase[1] = "idle"
  /\ number < (IF walked THEN 1 ELSE Scenarios)
  /\ number' = number + 1
  /\ never' = unmatched
  /\ phase' = <<first, "open">> /\ next' = 1
  /\ hooks' = <<>> /\ held' = <<>> /\ due' = 0 /\ stopped' = 0
  /\ pauses' = <<>> /\ failures' = <<>> /\ heard' = <<>>
  /\ UNCHANGED <<walked, late, exitVars>>

Skipped == [status |-> "skipped", began |-> FALSE]
NeverBegan == [status |-> "failed", began |-> FALSE]

Start ==
  \E unmatched \in SUBSET (1..Lines) :
    /\ Fresh("before", unmatched)
    /\ entries' = <<>> /\ failed' = FALSE /\ written' = "none"
    /\ UNCHANGED red

\* The guard found `from` keys nothing fills, before anything ran: the lines
\* it names are failed and every other one is skipped.  A World constructor
\* that throws ends the scenario the same way, with the message on line one.
Refused ==
  \E named \in (SUBSET (1..Lines)) \ {{}} :
    /\ Fresh("idle", {})
    /\ entries' = [k \in 1..Lines |-> IF k \in named THEN NeverBegan ELSE Skipped]
    /\ failed' = TRUE /\ written' = "failed" /\ red' = TRUE

-----------------------------------------------------------------------------
(* Bodies of project code: a step, or a hook.                              *)

\* Mutant: the escaped call is taken where the body threw, and only there.
TakeOnThrow(how) == how \in {"threw", "timeout"}

\* runWithTimeout takes the escaped call when the body settled and when its
\* deadline passed; a body never called (wrong arity, args that do not
\* validate, a fixture that fails) takes nothing.
Takes(how) == how # "uncalled"

\* How it ended for the scenario: an escaped call fails what passed.
Result(how) == IF how # "passed" \/ (Takes(how) /\ escaped) THEN "failed" ELSE "passed"

Called == phase' = [phase EXCEPT ![2] = "run"]

\* The executor goes on, and the body does too when its deadline passed.
Ended(how) ==
  /\ IF phase[2] = "run" THEN how \in {"passed", "threw", "timeout"} ELSE how = "uncalled"
  /\ late' = IF how = "timeout" THEN late \cup {<<number, phase[1], next>>} ELSE late
  /\ escaped' = (escaped /\ ~Takes(how))
  /\ owed' = (owed \/ (escaped /\ how # "uncalled"))
  /\ UNCHANGED exits

\* Mutant: a later failure replaces the one held.
NoteLatest(type, n) == <<type, n>>

Note(type, n) == IF held = <<>> THEN <<type, n>> ELSE held

Phase(type, n) == phase' = <<type, "open">> /\ next' = n

Hook(type) == phase[1] = type

\* What an After hook is told of the scenario, as it stands when it starts.
Told == [status |-> IF failed THEN "FAILED" ELSE IF stopped # 0 THEN "SKIPPED" ELSE "PASSED",
         failure |-> IF failed THEN held ELSE <<>>,
         so_far |-> Len(failures)]

StartHook ==
  /\ \/ Hook("before") /\ next <= Befores /\ UNCHANGED heard
     \/ Hook("after_step") /\ next <= AfterSteps /\ UNCHANGED heard
     \/ Hook("after") /\ next <= Afters /\ heard' = Append(heard, Told)
  /\ phase[2] = "open"
  /\ Called
  /\ UNCHANGED <<walked, number, never, next, entries, hooks, failed, held, walkVars,
                 written, late, exitVars, failures, red>>

RecordHook(type, how) ==
  /\ Ended(how)
  /\ hooks' = Append(hooks, [type |-> type, step |-> Len(entries), status |-> Result(how)])

Failing(type) ==
  /\ failed' = TRUE
  /\ held' = Note(type, next)
  /\ failures' = Append(failures, <<type, next>>)

\* The first Before hook that fails ends them: every line is then skipped.
EndBefore(how) ==
  /\ Hook("before") /\ next <= Befores
  /\ RecordHook("before", how)
  /\ IF Result(how) = "passed"
       THEN /\ Phase("before", next + 1)
            /\ UNCHANGED <<failed, held, failures>>
       ELSE /\ Failing("before")
            /\ Phase("line", 1)
  /\ UNCHANGED <<walked, number, never, entries, walkVars, written, heard, red>>

BeforesDone ==
  /\ Hook("before") /\ next > Befores
  /\ Phase("line", 1)
  /\ UNCHANGED <<walked, number, never, entries, hooks, failed, held, walkVars,
                 written, late, exitVars, failures, heard, red>>

-----------------------------------------------------------------------------
(* The lines, each between the pause of the one before and its AfterStep   *)
(* hooks.                                                                  *)

InLines == phase = <<"line", "open">>
PauseIsDue == walked /\ due # 0

\* Mutant: the pause shows what the lines left would be without the failure.
RemainingLines == Lines - due

\* After a failure nothing runs on `next` either.
Remaining == IF failed THEN 0 ELSE Lines - due

Pause ==
  /\ InLines /\ PauseIsDue
  /\ \E answer \in {"next", "stop"} :
       /\ pauses' = Append(pauses, [step |-> due, remaining |-> Remaining, answer |-> answer])
       /\ stopped' = IF answer = "stop" /\ Remaining > 0 THEN due ELSE stopped
  /\ due' = 0
  /\ UNCHANGED <<walked, number, never, phase, next, entries, hooks, failed, held,
                 written, late, exitVars, failures, heard, red>>

AtLine == InLines /\ ~PauseIsDue /\ next <= Lines
\* Mutant: only a stopped walk skips the lines left.
RunsUnlessStopped == AtLine /\ stopped = 0

LineRuns == AtLine /\ ~failed /\ stopped = 0

SkipLine ==
  /\ AtLine /\ ~LineRuns
  /\ entries' = Append(entries, Skipped)
  /\ next' = next + 1
  /\ UNCHANGED <<walked, number, never, phase, hooks, failed, held, walkVars,
                 written, late, exitVars, failures, heard, red>>

\* Undefined, ambiguous, refused by the read-only policy, or a parameter
\* type's transformer that throws: no step record, so no hook and no pause.
LineNeverBegins ==
  /\ LineRuns /\ next \in never
  /\ entries' = Append(entries, NeverBegan)
  /\ Failing("line")
  /\ next' = next + 1
  /\ UNCHANGED <<walked, number, never, phase, hooks, walkVars, written, late, exitVars, heard, red>>

BeginLine ==
  /\ LineRuns /\ next \notin never
  /\ Called
  /\ UNCHANGED <<walked, number, never, next, entries, hooks, failed, held, walkVars,
                 written, late, exitVars, failures, heard, red>>

\* The step record is written and the pause made due; then the AfterStep
\* hooks, whether it passed or not.
EndLine(how) ==
  /\ phase[1] = "line" /\ next <= Lines
  /\ phase[2] = "open" => LineRuns /\ next \notin never
  /\ Ended(how)
  /\ entries' = Append(entries, [status |-> Result(how), began |-> TRUE])
  /\ due' = next
  /\ IF Result(how) = "passed" THEN UNCHANGED <<failed, held, failures>> ELSE Failing("line")
  /\ Phase("after_step", 1)
  /\ UNCHANGED <<walked, number, never, hooks, stopped, pauses, written, heard, red>>

\* A failure of one ends neither the others of the line nor the After hooks.
EndAfterStep(how) ==
  /\ Hook("after_step") /\ next <= AfterSteps
  /\ RecordHook("after_step", how)
  /\ IF Result(how) = "passed" THEN UNCHANGED <<failed, held, failures>> ELSE Failing("after_step")
  /\ Phase("after_step", next + 1)
  /\ UNCHANGED <<walked, number, never, entries, walkVars, written, heard, red>>

AfterStepsDone ==
  /\ Hook("after_step") /\ next > AfterSteps
  /\ Phase("line", Len(entries) + 1)
  /\ UNCHANGED <<walked, number, never, entries, hooks, failed, held, walkVars,
                 written, late, exitVars, failures, heard, red>>

LinesDone ==
  /\ InLines /\ ~PauseIsDue /\ next > Lines
  /\ Phase("after", 1)
  /\ UNCHANGED <<walked, number, never, entries, hooks, failed, held, walkVars,
                 written, late, exitVars, failures, heard, red>>

-----------------------------------------------------------------------------
(* The After hooks, and the record.                                        *)

EndAfter(how) ==
  /\ Hook("after") /\ next <= Afters
  /\ RecordHook("after", how)
  /\ IF Result(how) = "passed" THEN UNCHANGED <<failed, held, failures>> ELSE Failing("after")
  /\ Phase("after", next + 1)
  /\ UNCHANGED <<walked, number, never, entries, walkVars, written, heard, red>>

\* Mutant: a walk that was stopped says so, whatever its After hooks did.
StoppedFirst == IF stopped # 0 THEN "stopped" ELSE IF failed THEN "failed" ELSE "passed"

Outcome == IF failed THEN "failed" ELSE IF stopped # 0 THEN "stopped" ELSE "passed"

WriteRecord ==
  /\ Hook("after") /\ next > Afters
  /\ written' = Outcome
  /\ red' = (red \/ Outcome # "passed")
  /\ Phase("idle", 0)
  /\ UNCHANGED <<walked, number, never, entries, hooks, failed, held, walkVars,
                 late, exitVars, failures, heard>>

-----------------------------------------------------------------------------
(* What goes on beside it.                                                 *)

\* A body past its deadline settles: its value or error goes nowhere.
LateEnds ==
  \E body \in late :
    /\ late' = late \ {body}
    /\ UNCHANGED <<walked, number, never, phase, next, entries, hooks, failed, held, walkVars,
                   written, exitVars, failures, heard, red>>

\* A timer, or a promise nothing awaits, calls process.exit: the first call
\* not yet taken is kept.
Escape ==
  /\ number > 0 /\ exits < MaxExits
  /\ exits' = exits + 1 /\ escaped' = TRUE
  /\ UNCHANGED <<walked, number, never, phase, next, entries, hooks, failed, held, walkVars,
                 written, late, owed, failures, heard, red>>

BodyEnds ==
  \E how \in {"passed", "threw", "timeout", "uncalled"} :
    EndBefore(how) \/ EndLine(how) \/ EndAfterStep(how) \/ EndAfter(how)

Executor ==
  \/ Start \/ Refused \/ StartHook \/ BeforesDone \/ Pause \/ SkipLine \/ LineNeverBegins
  \/ BeginLine \/ BodyEnds \/ AfterStepsDone \/ LinesDone \/ WriteRecord

ScenarioNext == Executor \/ LateEnds \/ Escape

ScenarioSpec == ScenarioInit /\ [][ScenarioNext]_scenarioVars

-----------------------------------------------------------------------------
(* Properties.                                                             *)

Over == phase[1] = "idle" /\ number > 0
Statuses == {entries[k].status : k \in DOMAIN entries} \cup {hooks[k].status : k \in DOMAIN hooks}

\* A scenario's record says what happened to all of it: an entry for every
\* line; passed when every line ran and passed and every hook passed; failed
\* when a line or a hook failed, whatever the walk answered; stopped when
\* nothing failed and lines were left.
RecordIsWhole ==
  Over =>
    /\ Len(entries) = Lines
    /\ written = "failed" <=> "failed" \in Statuses
    /\ written = "passed" <=> Statuses \subseteq {"passed"}
    /\ written = "stopped" => \E n \in 1..(Lines - 1) : \A k \in 1..Lines :
                               entries[k].status = (IF k <= n THEN "passed" ELSE "skipped")

\* What an After hook is told is the first failure of its scenario, a Before
\* hook's, a line's, an AfterStep hook's or an After hook's before it, and
\* that it failed exactly when something had.
AfterHearsFirstFailure ==
  \A k \in DOMAIN heard :
    /\ heard[k].status = "FAILED" <=> heard[k].so_far > 0
    /\ heard[k].failure = IF heard[k].so_far > 0 THEN failures[1] ELSE <<>>

\* The lines of one scenario never run beside a body of that scenario that is
\* past its deadline: only its hooks do, and the scenarios after it.
NoStepBesideLateBody ==
  [][phase[1] = "line" /\ phase'[2] = "run" => \A body \in late : body[1] # number]_scenarioVars

\* A run in which a step or a hook finished after process.exit was called
\* from a timer is not green, whichever scenario's step or hook that was.
ExitCallNeverGreen == phase[1] = "idle" /\ owed => red

\* `--step` shows every line that ran, once, in order, and what it says of
\* the lines left is what comes of them: the next one runs after `next`, and
\* none does after `stop` or when nothing remains.
WalkShowsEveryLine ==
  walked /\ Over =>
    /\ \A j, k \in DOMAIN pauses : j < k => pauses[j].step < pauses[k].step
    /\ {pauses[k].step : k \in DOMAIN pauses} = {n \in 1..Lines : entries[n].began}
    /\ \A k \in DOMAIN pauses :
         LET after == {entries[n].status : n \in (pauses[k].step + 1)..Lines}
         IN IF pauses[k].remaining > 0 /\ pauses[k].answer = "next"
              THEN entries[pauses[k].step + 1].status # "skipped"
              ELSE after \subseteq {"skipped"}

=============================================================================

-------------------------------- MODULE Walk --------------------------------
(***************************************************************************)
(* One walk of `nuka run --step` after another, and the `nuka step` calls  *)
(* that answer it (src/run/walk.ts, src/run/walk-files.ts).                *)
(*                                                                         *)
(* The run and the calls are separate processes that share files only:     *)
(* the run alone replaces walk.json, the calls alone create answers/<k>.   *)
(* A call reads walk.json, then looks whether the pid in it is alive, then *)
(* reads the answers: three moments, with any step of the others between.  *)
(* A walk starts only while no other is live: WalkLock shows that.         *)
(***************************************************************************)
EXTENDS Integers, FiniteSets

CONSTANTS
  Callers,      \* processes that run `nuka step`, one call at a time
  MaxWalk,      \* bound: walks of the project
  Steps,        \* steps of the scenario each walk runs
  Answers,      \* what a call may answer a pause: "next", "stop"
  CallerDies    \* whether a call may be killed while it writes an answer

ASSUME WalkConstants ==
  /\ MaxWalk \in Nat \ {0} /\ Steps \in Nat \ {0}
  /\ Answers \subseteq {"next", "stop"} /\ "next" \in Answers
  /\ CallerDies \in BOOLEAN

VARIABLES
  json,      \* walk.json: the newest walk, its state, the pause it is at or past
  alive,     \* the walks whose `nuka run --step` process is alive
  skipping,  \* the scenario failed or was stopped: its steps left are skipped
  answers,   \* answers/<pause>.json of each walk's run directory
  reached,   \* pauses/<k> of each walk's run directory: the last one made
  applied,   \* the answers the run took, as run.json's `walk` records them
  reported,  \* walks-reported/
  at,        \* where each `nuka step` call is
  call,      \* what it was asked
  known,     \* the ends reported when it started (history: no code reads it)
  target,    \* the walk it is about, 0 until its first read
  read       \* what it last saw in walk.json

runVars == <<json, alive, skipping, reached, applied>>
callVars == <<at, call, known, target, read>>
vars == <<json, alive, skipping, reached, answers, applied, reported,
          at, call, known, target, read>>

Walks == 1..MaxWalk
Pauses == 1..Steps

\* A walk: `pause` is the pause it is at, or the last one it reached.
WalkStates ==
  [walk : 0..MaxWalk, pause : 0..Steps,
   state : {"none", "starting", "running", "paused", "ended", "gone"}]
NoWalk == [walk |-> 0, pause |-> 0, state |-> "none"]

Calls ==
  [kind : {"wait"}, walk : 0..MaxWalk, pause : {0}, answer : {"next"}]
    \cup [kind : {"answer"}, walk : Walks, pause : Pauses, answer : Answers]
NoCall == [kind |-> "wait", walk |-> 0, pause |-> 0, answer |-> "next"]

Init ==
  /\ json = NoWalk
  /\ alive = {}
  /\ skipping = FALSE
  /\ answers = [w \in Walks |-> [k \in Pauses |-> "none"]]
  /\ applied = [w \in Walks |-> [k \in Pauses |-> "none"]]
  /\ reached = [w \in Walks |-> 0]
  /\ reported = {}
  /\ known = [c \in Callers |-> {}]
  /\ at = [c \in Callers |-> "idle"]
  /\ call = [c \in Callers |-> NoCall]
  /\ target = [c \in Callers |-> 0]
  /\ read = [c \in Callers |-> NoWalk]

-----------------------------------------------------------------------------
(* The run.  advanceWalk: `begun`, `paused`, `answered` and `ended` move    *)
(* the walk, and every move replaces walk.json whole.                       *)

Live == json.state \in {"starting", "running", "paused"} /\ json.walk \in alive

\* openWalk, once takeLock gave this run the next number.
OpenWalk ==
  /\ ~Live
  /\ json.walk < MaxWalk
  /\ json' = [walk |-> json.walk + 1, pause |-> 0, state |-> "starting"]
  /\ alive' = alive \cup {json.walk + 1}
  /\ skipping' = FALSE
  /\ UNCHANGED <<reached, answers, applied, reported, callVars>>

Begin ==
  /\ Live /\ json.state = "starting"
  /\ json' = [json EXCEPT !.state = "running"]
  /\ UNCHANGED <<alive, skipping, reached, answers, applied, reported, callVars>>

\* The next step ran and the run pauses after it; a failed step skips the rest.
PauseAfter ==
  /\ Live /\ json.state = "running"
  /\ ~skipping /\ json.pause < Steps
  /\ json' = [json EXCEPT !.state = "paused", !.pause = @ + 1]
  /\ reached' = [reached EXCEPT ![json.walk] = json.pause + 1]
  /\ skipping' \in BOOLEAN
  /\ UNCHANGED <<alive, answers, applied, reported, callVars>>

\* Mutant: a stop leaves the rest of the scenario to run.
TakeAsNext ==
  /\ Live /\ json.state = "paused"
  /\ LET answer == answers[json.walk][json.pause] IN
       /\ answer \in Answers
       /\ applied' = [applied EXCEPT ![json.walk][json.pause] = answer]
  /\ json' = [json EXCEPT !.state = "running"]
  /\ UNCHANGED <<alive, skipping, reached, answers, reported, callVars>>

\* The poll of answers/<pause>.json: a file that is empty is no answer yet.
TakeAnswer ==
  /\ Live /\ json.state = "paused"
  /\ LET answer == answers[json.walk][json.pause] IN
       /\ answer \in Answers
       /\ applied' = [applied EXCEPT ![json.walk][json.pause] = answer]
       /\ skipping' = (skipping \/ answer = "stop")
  /\ json' = [json EXCEPT !.state = "running"]
  /\ UNCHANGED <<alive, reached, answers, reported, callVars>>

End == json' = [json EXCEPT !.state = "ended"]

\* The scenario is over and run.json written.
Finish ==
  /\ Live /\ json.state = "running"
  /\ skipping \/ json.pause = Steps
  /\ End
  /\ UNCHANGED <<alive, skipping, reached, answers, applied, reported, callVars>>

\* A refusal before the scenario, a signal, or an error the run threw.
EndEarly ==
  /\ Live
  /\ End
  /\ UNCHANGED <<alive, skipping, reached, answers, applied, reported, callVars>>

\* The process of a walk that ended exits, or any run is killed.
RunGone ==
  /\ \E w \in alive : alive' = alive \ {w}
  /\ UNCHANGED <<json, skipping, reached, answers, applied, reported, callVars>>

-----------------------------------------------------------------------------
(* One `nuka step` call (runStepCall).                                      *)

Call(c) ==
  /\ at[c] = "idle"
  /\ call' \in {[call EXCEPT ![c] = asked] : asked \in Calls}
  /\ at' = [at EXCEPT ![c] = "read"]
  /\ known' = [known EXCEPT ![c] = IF call'[c] = NoCall THEN reported ELSE {}]
  /\ UNCHANGED <<runVars, answers, reported, target, read>>

ReadJson(c) ==
  /\ at[c] = "read"
  /\ read' = [read EXCEPT ![c] = json]
  /\ at' = [at EXCEPT ![c] = "look"]
  /\ UNCHANGED <<runVars, answers, reported, call, known, target>>

\* seeWalk: a live state whose pid is not alive reads as gone.
SeeWalk(stored) ==
  IF stored.state \in {"none", "ended"} \/ stored.walk \in alive
    THEN stored
    ELSE [stored EXCEPT !.state = "gone"]

Over(seen) == seen.state \in {"ended", "gone"}

\* Mutant: a wait is about the newest walk, reported or not.
TargetNewest(asked, seen) ==
  IF asked.walk # 0 THEN asked.walk
  ELSE IF seen.state = "none" THEN 1 ELSE seen.walk

\* callTarget: fixed by the call's first read.
CallTarget(asked, seen) ==
  IF asked.walk # 0 THEN asked.walk
  ELSE IF seen.state = "none" THEN 1
  ELSE IF Over(seen) /\ seen.walk \in reported THEN seen.walk + 1
  ELSE seen.walk

Look(c) ==
  /\ at[c] = "look"
  /\ LET seen == SeeWalk(read[c]) IN
       /\ read' = [read EXCEPT ![c] = seen]
       /\ target' = [target EXCEPT ![c] =
                       IF @ = 0 THEN CallTarget(call[c], seen) ELSE @]
  /\ at' = [at EXCEPT ![c] = "decide"]
  /\ UNCHANGED <<runVars, answers, reported, call, known>>

DecideWait(asked, about, seen) ==
  IF seen.walk < about THEN "wait"
  ELSE IF asked.walk # 0 /\ seen.walk > about THEN "walk-not-current"
  ELSE IF seen.state \in {"starting", "running"} THEN "wait"
  ELSE "report"

\* Mutant: an answer is for whichever pause is open.
DecideOpenPause(asked, seen, given) ==
  IF seen.state = "none" THEN "walk-not-found"
  ELSE IF seen.walk # asked.walk THEN "walk-not-current"
  ELSE IF Over(seen) THEN "report"
  ELSE IF given = asked.answer
    THEN IF seen.state = "paused" /\ seen.pause > asked.pause THEN "report" ELSE "wait"
  ELSE IF seen.state = "paused" THEN "write" ELSE "pause-not-current"

\* Mutant: an answer its pause already has is not compared.
DecideAnswered(asked, seen, given) ==
  IF seen.state = "none" THEN "walk-not-found"
  ELSE IF seen.walk # asked.walk THEN "walk-not-current"
  ELSE IF Over(seen) THEN "report"
  ELSE IF given \notin Answers
    THEN IF seen.state = "paused" /\ seen.pause = asked.pause
           THEN "write" ELSE "pause-not-current"
  ELSE IF seen.state = "paused" /\ seen.pause > asked.pause THEN "report"
  ELSE "wait"

\* stepDecision of an answer, `given` being the answer its pause has.
DecideAnswer(asked, seen, given) ==
  IF seen.state = "none" THEN "walk-not-found"
  ELSE IF seen.walk # asked.walk THEN "walk-not-current"
  ELSE IF seen.state = "gone" THEN "report"
  ELSE IF given \in Answers \ {asked.answer} THEN "pause-answered"
  ELSE IF seen.state = "ended"
    THEN IF asked.pause > seen.pause THEN "pause-not-current" ELSE "report"
  ELSE IF given \notin Answers
    THEN IF seen.state = "paused" /\ seen.pause = asked.pause
           THEN "write" ELSE "pause-not-current"
  ELSE IF seen.state = "paused" /\ seen.pause > asked.pause THEN "report"
  ELSE "wait"

\* stepDecision, over the answers as they are read now (answersOf).
Decision(c) ==
  IF call[c].kind = "wait" THEN DecideWait(call[c], target[c], read[c])
  ELSE DecideAnswer(call[c], read[c], answers[call[c].walk][call[c].pause])

Return(c) ==
  /\ at' = [at EXCEPT ![c] = "idle"]
  /\ call' = [call EXCEPT ![c] = NoCall]
  /\ known' = [known EXCEPT ![c] = {}]
  /\ target' = [target EXCEPT ![c] = 0]
  /\ read' = [read EXCEPT ![c] = NoWalk]
  /\ UNCHANGED <<runVars, answers>>

\* A report of a walk that is over marks its end as reported first.
Report(c) ==
  /\ at[c] = "decide" /\ Decision(c) = "report"
  /\ reported' = IF Over(read[c]) THEN reported \cup {read[c].walk} ELSE reported
  /\ Return(c)

Refuse(c) ==
  /\ at[c] = "decide" /\ Decision(c) \notin {"write", "wait", "report"}
  /\ Return(c)
  /\ UNCHANGED reported

\* Nothing to report yet: sleep and read again.
Again(c) ==
  /\ at[c] = "decide" /\ Decision(c) = "wait"
  /\ at' = [at EXCEPT ![c] = "read"]
  /\ read' = [read EXCEPT ![c] = NoWalk]
  /\ UNCHANGED <<runVars, answers, reported, call, known, target>>

\* Mutant: a wait that found no walk has no deadline.
GiveUpFound(c) ==
  /\ at[c] = "decide" /\ Decision(c) = "wait" /\ read[c].state # "none"
  /\ Return(c)
  /\ UNCHANGED reported

\* The same once the deadline passed, whenever that is: a walk still on its
\* way is reported as running, and a wait that found none is refused.
GiveUp(c) ==
  /\ at[c] = "decide" /\ Decision(c) = "wait"
  /\ Return(c)
  /\ UNCHANGED reported

\* The answers were read, and none is in place: the call goes on to give its
\* own, whatever the others do in between.
DecideWrite(c) ==
  /\ at[c] = "decide" /\ Decision(c) = "write"
  /\ at' = [at EXCEPT ![c] = "write"]
  /\ read' = [read EXCEPT ![c] = NoWalk]
  /\ UNCHANGED <<runVars, answers, reported, call, known, target>>

\* Mutant: writeFileSync without `wx`.
OverwriteAnswer(c) ==
  /\ at[c] = "write"
  /\ answers' = [answers EXCEPT ![call[c].walk][call[c].pause] = "empty"]
  /\ at' = [at EXCEPT ![c] = "fill"]
  /\ UNCHANGED <<runVars, reported, call, known, target, read>>

\* writeAnswer creates the file exclusively, and writes it after that; a file
\* another call created first is left alone, and the call reads again.
CreateAnswer(c) ==
  /\ at[c] = "write"
  /\ LET w == call[c].walk k == call[c].pause IN
       IF answers[w][k] = "none"
         THEN /\ answers' = [answers EXCEPT ![w][k] = "empty"]
              /\ at' = [at EXCEPT ![c] = "fill"]
         ELSE /\ at' = [at EXCEPT ![c] = "read"]
              /\ UNCHANGED answers
  /\ UNCHANGED <<runVars, reported, call, known, target, read>>

FillAnswer(c) ==
  /\ at[c] = "fill"
  /\ answers' = [answers EXCEPT ![call[c].walk][call[c].pause] = call[c].answer]
  /\ at' = [at EXCEPT ![c] = "read"]
  /\ UNCHANGED <<runVars, reported, call, known, target, read>>

\* A call killed between the create and the write of its answer.
DieWriting(c) ==
  /\ CallerDies
  /\ at[c] = "fill"
  /\ Return(c)
  /\ UNCHANGED reported

Run == Begin \/ PauseAfter \/ TakeAnswer \/ Finish
Proceed(c) ==
  \/ ReadJson(c) \/ Look(c) \/ Report(c) \/ Refuse(c) \/ Again(c) \/ GiveUp(c)
  \/ DecideWrite(c) \/ CreateAnswer(c) \/ FillAnswer(c)

Next ==
  \/ OpenWalk \/ Run \/ EndEarly \/ RunGone
  \/ \E c \in Callers : Call(c) \/ Proceed(c) \/ DieWriting(c)

Spec == Init /\ [][Next]_vars

\* Processes run, and a call that keeps waiting passes its deadline; nobody has
\* to answer or to start a walk.
FairSpec ==
  /\ Spec
  /\ WF_vars(Run)
  /\ \A c \in Callers : WF_vars(Proceed(c)) /\ SF_vars(GiveUp(c))
-----------------------------------------------------------------------------
(* What the two sides promise each other.                                   *)

\* The shape of the state.
TypeOK ==
  /\ json \in WalkStates /\ json.state # "gone"
  /\ alive \subseteq Walks /\ skipping \in BOOLEAN
  /\ reached \in [Walks -> 0..Steps]
  /\ answers \in [Walks -> [Pauses -> Answers \cup {"none", "empty"}]]
  /\ applied \in [Walks -> [Pauses -> Answers \cup {"none"}]]
  /\ reported \subseteq Walks
  /\ at \in [Callers -> {"idle", "read", "look", "decide", "write", "fill"}]
  /\ call \in [Callers -> Calls] /\ known \in [Callers -> SUBSET Walks]
  /\ target \in [Callers -> 0..MaxWalk + 1]
  /\ read \in [Callers -> WalkStates]

\* "an answer to a pause nobody was shown, or to an earlier walk [...] is
\* refused, never applied to whichever pause is open" (walk.ts): no answer
\* file is ever there before its own walk showed its pause, so the run can
\* not find one waiting when it gets there.
NoAnswerAhead ==
  \A w \in Walks, k \in Pauses : answers[w][k] # "none" => k <= reached[w]

\* The answer the run took, which run.json records, is the one in the file
\* for good, whoever else answered at the same moment (created exclusively).
AppliedIsTheFile ==
  \A w \in Walks, k \in Pauses :
    applied[w][k] # "none" => answers[w][k] = applied[w][k]

Reports(c) == at[c] = "decide" /\ Decision(c) = "report" /\ at'[c] = "idle"

\* "an answer already given the same way reports where the walk went from
\* it": a call told that the walk went on past its pause gave the answer
\* the run took there, also when two calls answered differently at once.
ReportMeansApplied ==
  [][\A c \in Callers :
       (Reports(c) /\ call[c].kind = "answer"
          /\ read[c].state = "paused" /\ read[c].pause > call[c].pause)
         => /\ read[c].walk = call[c].walk
            /\ applied[call[c].walk][call[c].pause] = call[c].answer]_vars

\* A stop runs no later step of its walk.
StopIsLast ==
  \A w \in Walks, k \in Pauses : applied[w][k] = "stop" => reached[w] = k

\* "an end is not reported in place of the walk that follows it": a wait
\* that names no walk and starts once an end was reported reports another.
EndReportedOnce ==
  [][\A c \in Callers :
       (Reports(c) /\ call[c].kind = "wait" /\ call[c].walk = 0 /\ Over(read[c]))
         => read[c].walk \notin known[c]]_vars

\* "`timeoutMs` bounds the wait": every call returns.
CallReturns == \A c \in Callers : at[c] # "idle" ~> at[c] = "idle"

\* "the nuka run --step process ended without recording how: it was killed
\* or it crashed": a walk reported gone never recorded its end.
GoneNeverEnded ==
  [][\A c \in Callers :
       (Reports(c) /\ read[c].state = "gone")
         => ~(json.walk = read[c].walk /\ json.state = "ended")]_vars
=============================================================================

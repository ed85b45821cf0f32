---------------------------- MODULE ProgramWorld ----------------------------
(***************************************************************************)
(* The program of one world (src/program/world.ts) as the serial pass of   *)
(* `nuka run` (src/cli/run.ts) starts and stops it: a prepare command, the *)
(* server and its ready check, the setup function, a list command, then    *)
(* the pass and the stop, with a signal at any moment.  POSIX only.        *)
(*                                                                         *)
(* Every command runs in a process group of its own: the process nukadoko  *)
(* spawned (the leader) and a child it may start.  A group listed with     *)
(* killOnExit is killed when nukadoko exits.  One prepare command stands   *)
(* for each build and prepare command, setup for a url function too.       *)
(***************************************************************************)
EXTENDS Integers

CONSTANT MaxSignals   \* signals that reach nukadoko

ASSUME SignalsAssumption == MaxSignals \in 0..2

VARIABLES
  at,       \* the phase the start is in, then "up", "stopping", "stopped"
  members,  \* the running processes of each group
  exit,     \* how each leader exited
  listed,   \* the groups killOnExit lists
  cmd,      \* the build, prepare or list command that runs (runToEnd)
  ready,    \* the ready check (waitUntilReady)
  late,     \* its deadline has passed
  setup,    \* the setup function
  seen,     \* the server's exit event was taken
  stop,     \* the server's shared stop
  waited,   \* the deadline of the running stop has passed
  grace,    \* history: whether a group was asked to end, and 5 seconds went by since
  hurried,  \* history: a process was killed before its time
  aborted,  \* the start's abort signal fired
  signals,
  handler,  \* what the first signal's cleanup waits for
  over      \* nukadoko has exited

vars == <<at, members, exit, listed, cmd, ready, late, setup, seen, stop, waited,
          grace, hurried, aborted, signals, handler, over>>
groupVars == <<members, exit, hurried>>
startVars == <<cmd, ready, late, setup>>
signalVars == <<aborted, signals, handler, over>>

Commands == {"prepare", "lists"}
Groups == Commands \cup {"serve"}
Processes == {"leader", "child"}
Starting == {"prepare", "serve", "setup", "lists", "failing"}
CommandStates ==
  [at : {"idle", "running", "closing"}, failure : {"none", "limit", "aborted"},
   stop : {"no", "grace", "over"}, awaits : BOOLEAN]
Idle == [at |-> "idle", failure |-> "none", stop |-> "no", awaits |-> FALSE]

Init ==
  /\ at = "prepare" /\ ready = "idle" /\ setup = "idle" /\ stop = "no" /\ handler = "none"
  /\ members = [g \in Groups |-> {}] /\ exit = [g \in Groups |-> "none"] /\ listed = {}
  /\ cmd = Idle /\ signals = 0
  /\ late = FALSE /\ seen = FALSE /\ waited = FALSE /\ hurried = FALSE
  /\ grace = [g \in Groups |-> "none"]
  /\ aborted = FALSE /\ over = FALSE

-----------------------------------------------------------------------------
(* The processes, which nukadoko does not control.                         *)

Fork(g) ==
  /\ ~over /\ members[g] # {}
  /\ members' = [members EXCEPT ![g] = @ \cup {"child"}]
  /\ UNCHANGED <<at, exit, listed, startVars, seen, stop, waited, grace, hurried, signalVars>>

Exits(g, p) ==
  /\ ~over /\ p \in members[g]
  /\ members' = [members EXCEPT ![g] = @ \ {p}]
  /\ IF p = "leader" THEN \E how \in {"zero", "nonzero"} : exit' = [exit EXCEPT ![g] = how]
     ELSE UNCHANGED exit
  /\ UNCHANGED <<at, listed, startVars, seen, stop, waited, grace, hurried, signalVars>>

\* SIGKILL to each of these groups.
SigKill(groups) ==
  /\ members' = [g \in Groups |-> IF g \in groups THEN {} ELSE members[g]]
  /\ exit' = [g \in Groups |-> IF g \in groups /\ "leader" \in members[g] THEN "nonzero" ELSE exit[g]]

\* What a command that exited by itself left behind gets no grace period.
Leftover(g) == g \in Commands /\ grace[g] = "none" /\ "leader" \notin members[g]

\* A kill of nukadoko's: was any of it before a running group had its time?
Kill(groups) ==
  /\ SigKill(groups)
  /\ hurried' = (hurried \/ \E g \in groups : members[g] # {} /\ grace[g] # "over" /\ ~Leftover(g))

\* SIGTERM to a group.  Its stop has a deadline of its own.
AskToEnd(g) == waited' = FALSE /\ grace' = [grace EXCEPT ![g] = "asked"]

-----------------------------------------------------------------------------
(* The start throws, or goes on to its next phase.                         *)

\* SIGTERM to the server's group, where anything of it still runs.
StopBegun(group) == IF group = {} THEN "killed" ELSE "grace"

\* The catch of start: what an abort stopped gets no grace.
Throw ==
  /\ at' = "failing"
  /\ IF aborted THEN Kill({"serve"}) ELSE UNCHANGED groupVars
  /\ stop' = IF "serve" \notin listed THEN "done" ELSE StopBegun(members'["serve"])
  /\ AskToEnd("serve")

After == [prepare |-> "serve", serve |-> "setup", setup |-> "lists", lists |-> "up"]
Proceed == at' = After[at] /\ UNCHANGED <<groupVars, stop, waited, grace>>

-----------------------------------------------------------------------------
(* A prepare or list command.                                              *)

RunCommand ==
  /\ ~over /\ at \in Commands /\ cmd = Idle
  /\ cmd' = [Idle EXCEPT !.at = "running", !.failure = IF aborted THEN "aborted" ELSE "none"]
  /\ members' = [members EXCEPT ![at] = IF aborted THEN {} ELSE {"leader"}]
  /\ exit' = [exit EXCEPT ![at] = IF aborted THEN "nonzero" ELSE "none"]
  /\ listed' = listed \cup {at}
  /\ hurried' = (hurried \/ aborted) /\ grace' = [grace EXCEPT ![at] = "none"]
  /\ UNCHANGED <<at, ready, late, setup, seen, stop, waited, signalVars>>

CommandLimit ==
  /\ ~over /\ cmd.at \in {"running", "closing"} /\ cmd.stop = "no"
  /\ cmd' = [cmd EXCEPT !.stop = "grace", !.failure = IF @ = "none" THEN "limit" ELSE @]
  /\ AskToEnd(at)
  /\ UNCHANGED <<at, groupVars, listed, ready, late, setup, seen, stop, signalVars>>

\* A stop waits for the whole group, or its deadline.
GraceOver(group) == waited \/ group = {}

CommandGrace ==
  /\ ~over /\ cmd.stop = "grace" /\ GraceOver(members[at])
  /\ Kill({at})
  /\ cmd' = [cmd EXCEPT !.stop = "over"]
  /\ UNCHANGED <<at, listed, ready, late, setup, seen, stop, waited, grace, signalVars>>

\* The command's exit event: what it left is killed, unless its stop is under
\* way.  Mutant: it is killed although.
ExitKills ==
  /\ ~over /\ cmd.at = "running" /\ "leader" \notin members[at]
  /\ Kill({at})
  /\ cmd' = [cmd EXCEPT !.at = "closing", !.awaits = cmd.stop # "no"]
  /\ UNCHANGED <<at, listed, ready, late, setup, seen, stop, waited, grace, signalVars>>
CommandExits ==
  /\ ~over /\ cmd.at = "running" /\ "leader" \notin members[at]
  /\ IF cmd.stop = "no" THEN Kill({at}) ELSE UNCHANGED groupVars
  /\ cmd' = [cmd EXCEPT !.at = "closing", !.awaits = cmd.stop # "no"]
  /\ UNCHANGED <<at, listed, ready, late, setup, seen, stop, waited, grace, signalVars>>

\* Its output is closed, or one second passed.  A list that failed is not
\* the world's failure.
CommandEnds ==
  /\ ~over /\ cmd.at = "closing" /\ (cmd.awaits => cmd.stop = "over")
  /\ IF \/ cmd.failure = "aborted"
        \/ at = "prepare" /\ (cmd.failure # "none" \/ exit[at] # "zero")
     THEN Throw ELSE Proceed
  /\ cmd' = Idle /\ listed' = listed \ {at}
  /\ UNCHANGED <<ready, late, setup, seen, signalVars>>

-----------------------------------------------------------------------------
(* The server, and its ready check.                                        *)

StartServe ==
  /\ ~over /\ at = "serve" /\ ready = "idle"
  /\ ready' = "check"
  /\ members' = [members EXCEPT !["serve"] = {"leader"}]
  /\ listed' = listed \cup {"serve"}
  /\ grace' = [grace EXCEPT !["serve"] = "none"]
  /\ UNCHANGED <<at, exit, hurried, cmd, late, setup, seen, stop, waited, signalVars>>

ReadyLimit ==
  /\ ~over /\ at = "serve" /\ ready # "idle" /\ ~late /\ late' = TRUE
  /\ UNCHANGED <<at, groupVars, listed, cmd, ready, setup, seen, stop, waited, grace, signalVars>>

\* Mutant: the check has no deadline.
CheckForever ==
  /\ ~over /\ at = "serve" /\ ready = "check"
  /\ IF aborted \/ seen THEN Throw /\ UNCHANGED ready
     ELSE ready' = "asking" /\ UNCHANGED <<at, groupVars, stop, waited, grace>>
  /\ UNCHANGED <<listed, cmd, late, setup, seen, signalVars>>
CheckReady ==
  /\ ~over /\ at = "serve" /\ ready = "check"
  /\ IF aborted \/ seen \/ late THEN Throw /\ UNCHANGED ready
     ELSE ready' = "asking" /\ UNCHANGED <<at, groupVars, stop, waited, grace>>
  /\ UNCHANGED <<listed, cmd, late, setup, seen, signalVars>>

\* The request: a 2xx answer of the program, or anything else.
Ask ==
  /\ ~over /\ ready = "asking"
  /\ \/ members["serve"] # {} /\ ~aborted /\ ready' = "answered"
     \/ ready' = "pause"
  /\ UNCHANGED <<at, groupVars, listed, cmd, late, setup, seen, stop, waited, grace, signalVars>>

\* The answer's body is dropped, which an abort can break off.
Answered ==
  /\ ~over /\ ready = "answered"
  /\ \/ ready' = "over" /\ Proceed
     \/ aborted /\ ready' = "pause" /\ UNCHANGED <<at, groupVars, stop, waited, grace>>
  /\ UNCHANGED <<listed, cmd, late, setup, seen, signalVars>>

Pause ==
  /\ ~over /\ ready = "pause" /\ ready' = "check"
  /\ UNCHANGED <<at, groupVars, listed, cmd, late, setup, seen, stop, waited, grace, signalVars>>

ServerExitSeen ==
  /\ ~over /\ "serve" \in listed /\ "leader" \notin members["serve"] /\ ~seen /\ seen' = TRUE
  /\ UNCHANGED <<at, groupVars, listed, startVars, stop, waited, grace, signalVars>>

\* One shared stop: the whole group has its grace period.
ServerGrace ==
  /\ ~over /\ stop = "grace" /\ GraceOver(members["serve"])
  /\ Kill({"serve"})
  /\ stop' = "killed"
  /\ UNCHANGED <<at, listed, startVars, seen, waited, grace, signalVars>>

\* Mutant: the stop does not wait for the program's exit event.
StoppedAtOnce ==
  /\ ~over /\ stop \in {"grace", "killed"}
  /\ stop' = "done" /\ listed' = listed \ {"serve"}
  /\ UNCHANGED <<at, groupVars, startVars, seen, waited, grace, signalVars>>
ServerStopped ==
  /\ ~over /\ stop = "killed" /\ seen
  /\ stop' = "done" /\ listed' = listed \ {"serve"}
  /\ UNCHANGED <<at, groupVars, startVars, seen, waited, grace, signalVars>>

\* Five seconds go by.
TimePasses ==
  /\ ~over /\ "grace" \in {stop, cmd.stop}
  /\ ~waited /\ waited' = TRUE
  /\ grace' = [g \in Groups |-> IF grace[g] = "asked" THEN "over" ELSE grace[g]]
  /\ UNCHANGED <<at, groupVars, listed, startVars, seen, stop, signalVars>>

-----------------------------------------------------------------------------
(* The setup function.                                                     *)

\* It is called before the abort is looked at.
StartSetup ==
  /\ ~over /\ at = "setup" /\ setup = "idle" /\ setup' = "running"
  /\ UNCHANGED <<at, groupVars, listed, cmd, ready, late, seen, stop, waited, grace, signalVars>>

SetupEnds ==
  /\ ~over /\ at = "setup" /\ setup = "running" /\ ~aborted
  /\ setup' = "over"
  /\ Proceed \/ Throw
  /\ UNCHANGED <<listed, cmd, ready, late, seen, signalVars>>

\* Past its limit, or its start aborted, it is abandoned where it is.
SetupAbandoned ==
  /\ ~over /\ at = "setup" /\ setup = "running"
  /\ setup' = "abandoned" /\ Throw
  /\ UNCHANGED <<listed, cmd, ready, late, seen, signalVars>>

-----------------------------------------------------------------------------
(* The pass, and its end.                                                  *)

BeginStop ==
  IF stop = "no" THEN stop' = StopBegun(members["serve"]) /\ AskToEnd("serve")
  ELSE UNCHANGED <<stop, waited, grace>>

PassEnds ==
  /\ ~over /\ at = "up" /\ at' = "stopping" /\ BeginStop
  /\ UNCHANGED <<groupVars, listed, startVars, seen, signalVars>>

StopEnds ==
  /\ ~over /\ stop = "done"
  /\ \/ at = "stopping" /\ at' = "stopped"
     \/ at = "failing" /\ at' = "failed"
  /\ UNCHANGED <<groupVars, listed, startVars, seen, stop, waited, grace, signalVars>>

\* nukadoko exits: what is still listed is killed.
Exit ==
  /\ ~over /\ over' = TRUE /\ Kill(listed)
  /\ UNCHANGED <<at, listed, startVars, seen, stop, waited, grace>>

RunEnds ==
  /\ at \in {"stopped", "failed"} /\ handler = "none" /\ Exit
  /\ UNCHANGED <<aborted, signals, handler>>

\* An escaped error, or project code that exits: no kill waits for anything.
Crash ==
  /\ ~over /\ over' = TRUE /\ SigKill(listed)
  /\ UNCHANGED <<at, listed, startVars, seen, stop, waited, grace, hurried, aborted, signals, handler>>

-----------------------------------------------------------------------------
(* Signals.  The pass registers a cleanup while the program starts and     *)
(* another while it is up, and none once its own stop has begun.           *)

\* The abort reaches the command that runs.
Aborts ==
  /\ aborted' = TRUE
  /\ IF cmd.at = "idle" THEN UNCHANGED <<groupVars, cmd>>
     ELSE Kill({at}) /\ cmd' = [cmd EXCEPT !.failure = IF @ = "none" THEN "aborted" ELSE @]

FirstSignal ==
  /\ ~over /\ signals = 0 /\ MaxSignals > 0 /\ signals' = 1
  /\ \/ /\ at \in Starting /\ Aborts /\ handler' = "start"
        /\ UNCHANGED <<at, listed, ready, late, setup, seen, stop, waited, grace, over>>
     \/ /\ at = "up" /\ handler' = "fixtures"
        /\ UNCHANGED <<at, groupVars, listed, startVars, seen, stop, waited, grace, aborted, over>>
     \/ /\ at \in {"stopping", "stopped", "failed"} /\ Exit
        /\ UNCHANGED <<aborted, handler>>

SecondSignal ==
  /\ signals = 1 /\ MaxSignals > 1 /\ signals' = 2 /\ Exit
  /\ UNCHANGED <<aborted, handler>>

\* The start has come to an end, and the fixtures are torn down.
StartCleaned ==
  /\ handler = "start" /\ at \notin Starting /\ Exit
  /\ UNCHANGED <<aborted, signals, handler>>

FixturesTornDown ==
  /\ ~over /\ handler = "fixtures" /\ handler' = "stop" /\ BeginStop
  /\ UNCHANGED <<at, groupVars, listed, startVars, seen, aborted, signals, over>>

Cleaned ==
  /\ handler = "stop" /\ stop = "done" /\ Exit
  /\ UNCHANGED <<aborted, signals, handler>>

-----------------------------------------------------------------------------

Program == \E g \in Groups : Fork(g) \/ \E p \in Processes : Exits(g, p)
Start == RunCommand \/ CommandExits \/ CommandEnds \/ StartServe \/ CheckReady \/ Ask
           \/ Answered \/ Pause \/ StartSetup \/ StopEnds \/ RunEnds
Timers == CommandLimit \/ ReadyLimit \/ SetupAbandoned \/ TimePasses
Stop == CommandGrace \/ ServerGrace \/ ServerExitSeen \/ ServerStopped
Signals == FirstSignal \/ SecondSignal
Cleanup == StartCleaned \/ FixturesTornDown \/ Cleaned
Next == Program \/ Start \/ Timers \/ Stop \/ SetupEnds \/ PassEnds \/ Crash \/ Signals \/ Cleanup
Spec == Init /\ [][Next]_vars

\* Every timer fires, and nukadoko takes every event; a process may run, and
\* a pass or a setup function take, as long as it likes.
WorldFair ==
  /\ WF_vars(Start) /\ WF_vars(Cleanup)
  /\ WF_vars(CommandLimit) /\ WF_vars(ReadyLimit) /\ WF_vars(SetupAbandoned) /\ WF_vars(TimePasses)
  /\ WF_vars(CommandGrace) /\ WF_vars(ServerGrace) /\ WF_vars(ServerExitSeen) /\ WF_vars(ServerStopped)
FairSpec == Spec /\ WorldFair

-----------------------------------------------------------------------------

TypeOK ==
  /\ at \in Starting \cup {"up", "stopping", "stopped", "failed"}
  /\ members \in [Groups -> SUBSET Processes]
  /\ exit \in [Groups -> {"none", "zero", "nonzero"}]
  /\ listed \subseteq Groups
  /\ cmd \in CommandStates
  /\ ready \in {"idle", "check", "asking", "answered", "pause", "over"}
  /\ setup \in {"idle", "running", "over", "abandoned"}
  /\ stop \in {"no", "grace", "killed", "done"}
  /\ handler \in {"none", "start", "fixtures", "stop"}
  /\ signals \in 0..MaxSignals
  /\ cmd # Idle => at \in Commands
  /\ grace \in [Groups -> {"none", "asked", "over"}]
  /\ late \in BOOLEAN /\ seen \in BOOLEAN /\ waited \in BOOLEAN
  /\ hurried \in BOOLEAN /\ aborted \in BOOLEAN /\ over \in BOOLEAN

\* "A program nukadoko started does not outlive nukadoko", whatever the
\* moment it exits at: no process of any group it spawned is left.
NothingOutlives == over => \A g \in Groups : members[g] = {}

\* A phase that is over, a start that failed and a world that stopped have
\* left nothing running: neither a command's child nor the server's.
NothingLeftBehind ==
  /\ at \notin {"prepare"} => members["prepare"] = {}
  /\ at \notin {"lists"} => members["lists"] = {}
  /\ at \in {"stopped", "failed"} => members["serve"] = {}

\* What nukadoko spawned ends with the phase it was spawned for, and with
\* nukadoko at the latest.
GroupsEnd == NothingOutlives /\ NothingLeftBehind

\* What may cut a grace period: the abort of a start, a second signal, and a
\* signal to a pass that stops its own world already.
CutShort == aborted \/ signals = 2 \/ (signals = 1 /\ handler = "none" /\ over)

\* Whoever kills a running group (its stop, the exit of its command, a start
\* that throws, the end of the run or of a cleanup), it was asked to end and
\* 5 seconds have gone by since; one signal to a world that is up changes
\* nothing about it.
GraceGiven == hurried => CutShort

\* One signal to a running world gives it SIGTERM and its 5 seconds.
OneSignalGivesGrace == hurried => aborted \/ signals = 2

\* Every start comes to its end, and every stop.
PhasesEnd ==
  /\ at \in Starting ~> at \notin Starting \/ over
  /\ at = "stopping" ~> at = "stopped" \/ over
\* A signal ends nukadoko, whatever the program does.
SignalEnds == signals > 0 ~> over

\* No start, stop or signal waits forever on what the program does.
EverythingEnds == PhasesEnd /\ SignalEnds

\* A command that exited in time is not reported as past its limit.
LimitMeansLate == cmd.at = "closing" /\ ~cmd.awaits => cmd.failure # "limit"
=============================================================================

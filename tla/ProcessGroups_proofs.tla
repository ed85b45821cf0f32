------------------------- MODULE ProcessGroups_proofs -------------------------
(***************************************************************************)
(* The theorems about the two owners of process groups, the ones           *)
(* MCProcesses checks beside each other.  Of a world: what it leaves       *)
(* running, for every behaviour of its program and any number of signals   *)
(* the handler tells apart.  Of a step: that its record says the truth of  *)
(* its commands, for any commands, processes and paths.                    *)
(***************************************************************************)
EXTENDS ProgramWorld, StepCommands, TLAPS

-----------------------------------------------------------------------------
(* The invariant.  A group is unlisted only once it is gone; a command's   *)
(* group is gone when its exit or its stop has been dealt with, the        *)
(* server's when its stop has killed it; and a stop begins only once the   *)
(* start is over.                                                          *)

UnlistedIsGone == \A g \in Groups : g \notin listed => members[g] = {}
OneCommand ==
  /\ cmd.at = "idle" => cmd = Idle
  /\ \A g \in Commands : g \in listed => g = at /\ cmd # Idle
CommandIsGone ==
  /\ cmd.at = "closing" /\ ~cmd.awaits => members[at] = {}
  /\ cmd.stop = "over" => members[at] = {}
ServerIsGone == stop \in {"killed", "done"} => members["serve"] = {}
StopBegins ==
  /\ at \in Starting \ {"failing"} => stop = "no"
  /\ at \in Starting => handler \in {"none", "start"}
  /\ at \in {"stopped", "failed"} => stop = "done"
\* A request to the server is out only while its phase is the one going on.
CheckIsServe == ready \in {"asking", "answered", "pause"} => at = "serve"
Inv == TypeOK /\ UnlistedIsGone /\ OneCommand /\ CommandIsGone /\ ServerIsGone /\ CheckIsServe
         /\ StopBegins /\ NothingOutlives

-----------------------------------------------------------------------------
(* What the steps are made of.                                             *)

\* SIGKILL leaves nothing of a killed group, and nothing else is touched.
LEMMA SigKillEmpties ==
  ASSUME TypeOK, NEW groups \in SUBSET Groups, SigKill(groups)
  PROVE  /\ members' \in [Groups -> SUBSET Processes]
         /\ exit' \in [Groups -> {"none", "zero", "nonzero"}]
         /\ \A g \in groups : members'[g] = {}
         /\ \A g \in Groups : members'[g] \subseteq members[g]
BY DEF TypeOK, SigKill, Groups, Commands, Processes

LEMMA KillEmpties ==
  ASSUME TypeOK, NEW groups \in SUBSET Groups, Kill(groups)
  PROVE  /\ members' \in [Groups -> SUBSET Processes]
         /\ exit' \in [Groups -> {"none", "zero", "nonzero"}]
         /\ \A g \in groups : members'[g] = {}
         /\ \A g \in Groups : members'[g] \subseteq members[g]
         /\ hurried' \in BOOLEAN
<1>1. hurried' \in BOOLEAN
  BY DEF Kill, TypeOK
<1> QED BY <1>1, SigKillEmpties DEF Kill

\* SIGTERM starts a group's grace period, and touches no other's.
LEMMA AskedHasGrace ==
  ASSUME TypeOK, NEW g \in Groups, AskToEnd(g)
  PROVE  /\ waited' = FALSE /\ grace' \in [Groups -> {"none", "asked", "over"}]
         /\ grace'[g] = "asked"
         /\ \A h \in Groups : h # g => grace'[h] = grace[h]
BY DEF AskToEnd, TypeOK

\* A start that throws goes on to stop its server, and starts nothing.
LEMMA ThrowStops ==
  ASSUME TypeOK, UnlistedIsGone, Throw
  PROVE  /\ at' = "failing" /\ waited' = FALSE
         /\ stop' \in {"grace", "killed", "done"}
         /\ stop' \in {"killed", "done"} => members'["serve"] = {}
         /\ members' \in [Groups -> SUBSET Processes]
         /\ exit' \in [Groups -> {"none", "zero", "nonzero"}]
         /\ \A g \in Groups : members'[g] \subseteq members[g]
         /\ hurried' \in BOOLEAN /\ grace' \in [Groups -> {"none", "asked", "over"}]
<1>1. /\ members' \in [Groups -> SUBSET Processes]
      /\ exit' \in [Groups -> {"none", "zero", "nonzero"}]
      /\ \A g \in Groups : members'[g] \subseteq members[g]
      /\ hurried' \in BOOLEAN
  <2>1. CASE aborted
    BY <2>1, KillEmpties DEF Throw, Groups
  <2>2. CASE ~aborted
    BY <2>2 DEF Throw, groupVars, TypeOK
  <2> QED BY <2>1, <2>2
<1>2. stop' \in {"killed", "done"} => members'["serve"] = {}
  <2>1. CASE "serve" \notin listed
    BY <2>1, <1>1 DEF UnlistedIsGone, Groups
  <2>2. CASE "serve" \in listed
    BY <2>2 DEF Throw, StopBegun
  <2> QED BY <2>1, <2>2
<1>3. waited' = FALSE /\ grace' \in [Groups -> {"none", "asked", "over"}]
  BY AskedHasGrace DEF Throw, Groups
<1> QED BY <1>1, <1>2, <1>3 DEF Throw, StopBegun

\* A phase that is over is followed by the next, and the server is not stopped.
LEMMA ProceedGoesOn ==
  ASSUME at \in {"prepare", "serve", "setup", "lists"}, Proceed
  PROVE  /\ at' \in {"serve", "setup", "lists", "up"} /\ at' # at
         /\ at = "serve" => at' = "setup"
         /\ UNCHANGED <<members, exit, hurried, stop, waited, grace>>
BY DEF Proceed, After, groupVars

-----------------------------------------------------------------------------
(* A phase's end.  No command runs any longer and none is listed; the start *)
(* goes on, or throws and stops the server.                                 *)

PhaseOver ==
  /\ ~over /\ at \in {"prepare", "serve", "setup", "lists"}
  /\ \A g \in Commands : members[g] = {}
  /\ cmd' = Idle /\ listed' = listed \ Commands
  /\ UNCHANGED <<seen, signalVars>> /\ late' = late
  /\ ready' \in {"idle", "check", "over"}
  /\ setup' \in {"idle", "running", "over", "abandoned"}

\* A step of the checks and timers alone.
LEMMA QuietStep ==
  ASSUME Inv,
         UNCHANGED <<at, members, exit, listed, cmd, stop, hurried, aborted, signals, handler, over>>,
         late' \in BOOLEAN, seen' \in BOOLEAN, waited' \in BOOLEAN,
         grace' \in [Groups -> {"none", "asked", "over"}],
         ready' \in {"idle", "check", "asking", "answered", "pause", "over"},
         ready' \in {"asking", "answered", "pause"} => at = "serve",
         setup' \in {"idle", "running", "over", "abandoned"}
  PROVE  Inv'
<1>1. TypeOK'
  BY DEF Inv, TypeOK
<1>2. UnlistedIsGone' /\ OneCommand' /\ CommandIsGone'
  BY DEF Inv, UnlistedIsGone, OneCommand, CommandIsGone
<1>3. ServerIsGone' /\ CheckIsServe' /\ StopBegins' /\ NothingOutlives'
  BY DEF Inv, ServerIsGone, CheckIsServe, StopBegins, NothingOutlives
<1> QED BY <1>1, <1>2, <1>3 DEF Inv

\* An exit kills every listed group, and an unlisted one is gone.
LEMMA ExitKeeps ==
  ASSUME Inv, ~over, over' = TRUE, SigKill(listed), hurried' \in BOOLEAN,
         UNCHANGED <<at, listed, startVars, seen, stop, waited, grace>>,
         aborted' = aborted, signals' \in 0..MaxSignals, handler' = handler
  PROVE  Inv'
<1>1. listed \subseteq Groups
  BY DEF Inv, TypeOK
<1>2. TypeOK'
  BY <1>1, SigKillEmpties DEF startVars, Inv, TypeOK
<1>3. \A g \in Groups : members'[g] = {}
  BY <1>1, SigKillEmpties DEF Inv, UnlistedIsGone
<1>4. UnlistedIsGone' /\ OneCommand' /\ CommandIsGone'
  BY <1>3 DEF startVars, Inv, TypeOK, UnlistedIsGone, OneCommand, CommandIsGone, Idle, Groups, Commands
<1>5. ServerIsGone' /\ CheckIsServe' /\ StopBegins' /\ NothingOutlives'
  BY <1>3 DEF startVars, Inv, ServerIsGone, CheckIsServe, StopBegins, NothingOutlives, Groups
<1> QED BY <1>2, <1>4, <1>5 DEF Inv

\* A phase that throws.
LEMMA ThrowKeeps ==
  ASSUME Inv, PhaseOver, Throw
  PROVE  Inv'
<1>1. TypeOK'
  BY ThrowStops DEF PhaseOver, Inv, TypeOK, Starting, signalVars, Idle, CommandStates, Groups, Commands
<1>2. UnlistedIsGone'
  BY ThrowStops DEF PhaseOver, Inv, UnlistedIsGone, Groups, Commands
<1>3. OneCommand' /\ CommandIsGone'
  BY DEF PhaseOver, OneCommand, CommandIsGone, Idle
<1>4. ServerIsGone' /\ CheckIsServe' /\ StopBegins' /\ NothingOutlives'
  BY ThrowStops DEF PhaseOver, Inv, ServerIsGone, CheckIsServe, StopBegins, NothingOutlives, Starting,
     signalVars
<1> QED BY <1>1, <1>2, <1>3, <1>4 DEF Inv

\* A phase that ends well.
LEMMA ProceedKeeps ==
  ASSUME Inv, PhaseOver, Proceed
  PROVE  Inv'
<1>1. TypeOK'
  BY ProceedGoesOn DEF PhaseOver, Inv, TypeOK, Starting, signalVars, Idle, CommandStates, Groups, Commands
<1>2. UnlistedIsGone'
  BY ProceedGoesOn DEF PhaseOver, Inv, UnlistedIsGone, Groups, Commands
<1>3. OneCommand' /\ CommandIsGone'
  BY DEF PhaseOver, OneCommand, CommandIsGone, Idle
<1>4. ServerIsGone' /\ CheckIsServe' /\ StopBegins' /\ NothingOutlives'
  BY ProceedGoesOn DEF PhaseOver, Inv, ServerIsGone, CheckIsServe, StopBegins, NothingOutlives, Starting,
     signalVars
<1> QED BY <1>1, <1>2, <1>3, <1>4 DEF Inv

\* While no command runs, none is listed and none has left anything.
LEMMA NoCommand ==
  ASSUME Inv, at \in {"serve", "setup"}
  PROVE  /\ cmd = Idle /\ listed = listed \ Commands
         /\ \A g \in Commands : members[g] = {}
BY DEF Inv, TypeOK, OneCommand, UnlistedIsGone, Commands, Groups

\* A command is over once its exit, or its stop, has been dealt with.
LEMMA CommandOver ==
  ASSUME Inv, CommandEnds
  PROVE  PhaseOver
<1>1. members[at] = {}
  BY DEF CommandEnds, Inv, CommandIsGone
<1>2. at \in Commands
  BY DEF CommandEnds, Inv, TypeOK, Idle
<1>3. /\ \A g \in Commands : members[g] = {}
      /\ listed \ {at} = listed \ Commands
  BY <1>1, <1>2 DEF Inv, OneCommand, UnlistedIsGone, Groups
<1> QED BY <1>2, <1>3 DEF PhaseOver, CommandEnds, Commands, signalVars, Inv, TypeOK, CheckIsServe

\* The shared stop begins, unless it has already.
LEMMA BeginStopStops ==
  ASSUME Inv, BeginStop, UNCHANGED members
  PROVE  /\ stop' \in {"grace", "killed", "done"}
         /\ stop' \in {"killed", "done"} => members'["serve"] = {}
         /\ waited' \in BOOLEAN /\ grace' \in [Groups -> {"none", "asked", "over"}]
         /\ stop = "done" => stop' = "done"
<1>1. CASE stop = "no"
  BY <1>1, AskedHasGrace DEF BeginStop, StopBegun, Inv, Groups
<1>2. CASE stop # "no"
  BY <1>2 DEF BeginStop, Inv, TypeOK, ServerIsGone
<1> QED BY <1>1, <1>2

-----------------------------------------------------------------------------
(* One lemma per action.                                                    *)

LEMMA CommandEndsInv ==
  ASSUME Inv, CommandEnds
  PROVE  Inv'
BY CommandOver, ThrowKeeps, ProceedKeeps DEF CommandEnds

LEMMA CheckReadyInv ==
  ASSUME Inv, CheckReady
  PROVE  Inv'
<1>1. CASE Throw /\ UNCHANGED ready
  <2>1. PhaseOver
    BY <1>1, NoCommand DEF CheckReady, PhaseOver, signalVars, Inv, TypeOK
  <2> QED BY <1>1, <2>1, ThrowKeeps
<1>2. CASE ready' = "asking" /\ UNCHANGED <<at, groupVars, stop, waited, grace>>
  BY <1>2, QuietStep DEF CheckReady, groupVars, signalVars, Inv, TypeOK, CheckIsServe
<1> QED BY <1>1, <1>2 DEF CheckReady

LEMMA AnsweredInv ==
  ASSUME Inv, Answered
  PROVE  Inv'
<1>1. CASE ready' = "over" /\ Proceed
  <2>1. PhaseOver
    BY <1>1, NoCommand DEF Answered, PhaseOver, signalVars, Inv, TypeOK, CheckIsServe
  <2> QED BY <1>1, <2>1, ProceedKeeps
<1>2. CASE aborted /\ ready' = "pause" /\ UNCHANGED <<at, groupVars, stop, waited, grace>>
  BY <1>2, QuietStep DEF Answered, groupVars, signalVars, Inv, TypeOK, CheckIsServe
<1> QED BY <1>1, <1>2 DEF Answered

LEMMA SetupEndsInv ==
  ASSUME Inv, SetupEnds
  PROVE  Inv'
<1>1. PhaseOver
  BY NoCommand DEF SetupEnds, PhaseOver, signalVars, Inv, TypeOK, CheckIsServe
<1> QED BY <1>1, ThrowKeeps, ProceedKeeps DEF SetupEnds

LEMMA SetupAbandonedInv ==
  ASSUME Inv, SetupAbandoned
  PROVE  Inv'
<1>1. PhaseOver
  BY NoCommand DEF SetupAbandoned, PhaseOver, signalVars, Inv, TypeOK, CheckIsServe
<1> QED BY <1>1, ThrowKeeps DEF SetupAbandoned

LEMMA CommandGraceInv ==
  ASSUME Inv, CommandGrace
  PROVE  Inv'
<1>1. /\ at \in Commands /\ at \in Groups /\ cmd # Idle /\ Kill({at})
      /\ cmd' \in CommandStates /\ cmd'.at = cmd.at /\ cmd'.awaits = cmd.awaits
  BY DEF CommandGrace, Inv, TypeOK, CommandStates, Idle, Groups
<1>2. /\ members' \in [Groups -> SUBSET Processes]
      /\ exit' \in [Groups -> {"none", "zero", "nonzero"}]
      /\ \A g \in Groups : members'[g] \subseteq members[g]
      /\ members'[at] = {} /\ hurried' \in BOOLEAN
  BY <1>1, KillEmpties DEF Inv
<1>3. TypeOK'
  BY <1>1, <1>2 DEF CommandGrace, Inv, TypeOK, signalVars
<1>4. UnlistedIsGone' /\ OneCommand' /\ CommandIsGone'
  BY <1>1, <1>2 DEF CommandGrace, Inv, UnlistedIsGone, OneCommand, CommandIsGone, Idle, Groups
<1>5. ServerIsGone' /\ CheckIsServe' /\ StopBegins' /\ NothingOutlives'
  BY <1>2 DEF CommandGrace, signalVars, Inv, ServerIsGone, CheckIsServe, StopBegins, NothingOutlives, Groups
<1> QED BY <1>3, <1>4, <1>5 DEF Inv

LEMMA StartServeInv ==
  ASSUME Inv, StartServe
  PROVE  Inv'
BY SignalsAssumption DEF StartServe, vars, groupVars, startVars, signalVars, Inv, TypeOK, UnlistedIsGone,
   OneCommand, CommandIsGone, ServerIsGone, CheckIsServe, StopBegins, NothingOutlives, Idle, Commands, Groups,
   Processes, Starting, Kill, StopBegun, GraceOver, Exit, Aborts, AskToEnd

LEMMA ReadyLimitInv ==
  ASSUME Inv, ReadyLimit
  PROVE  Inv'
BY QuietStep DEF ReadyLimit, groupVars, startVars, signalVars, Inv, TypeOK, CheckIsServe

LEMMA AskInv ==
  ASSUME Inv, Ask
  PROVE  Inv'
BY QuietStep DEF Ask, groupVars, startVars, signalVars, Inv, TypeOK, CheckIsServe

LEMMA PauseInv ==
  ASSUME Inv, Pause
  PROVE  Inv'
BY QuietStep DEF Pause, groupVars, startVars, signalVars, Inv, TypeOK, CheckIsServe

LEMMA ServerExitSeenInv ==
  ASSUME Inv, ServerExitSeen
  PROVE  Inv'
BY QuietStep DEF ServerExitSeen, groupVars, startVars, signalVars, Inv, TypeOK, CheckIsServe

LEMMA ServerGraceInv ==
  ASSUME Inv, ServerGrace
  PROVE  Inv'
<1>1. /\ members' \in [Groups -> SUBSET Processes]
      /\ exit' \in [Groups -> {"none", "zero", "nonzero"}]
      /\ \A g \in Groups : members'[g] \subseteq members[g]
      /\ members'["serve"] = {} /\ hurried' \in BOOLEAN
  BY KillEmpties DEF ServerGrace, Inv, Groups
<1>2. TypeOK'
  BY <1>1 DEF ServerGrace, Inv, TypeOK, startVars, signalVars
<1>3. UnlistedIsGone' /\ OneCommand' /\ CommandIsGone'
  BY <1>1 DEF ServerGrace, startVars, Inv, TypeOK, UnlistedIsGone, OneCommand, CommandIsGone, Idle, Groups
<1>4. ServerIsGone' /\ CheckIsServe' /\ StopBegins' /\ NothingOutlives'
  BY <1>1 DEF ServerGrace, startVars, signalVars, Inv, ServerIsGone, CheckIsServe, StopBegins,
     NothingOutlives, Groups
<1> QED BY <1>2, <1>3, <1>4 DEF Inv

LEMMA ServerStoppedInv ==
  ASSUME Inv, ServerStopped
  PROVE  Inv'
BY SignalsAssumption DEF ServerStopped, vars, groupVars, startVars, signalVars, Inv, TypeOK, UnlistedIsGone,
   OneCommand, CommandIsGone, ServerIsGone, CheckIsServe, StopBegins, NothingOutlives, Idle, Commands, Groups,
   Processes, Starting, Kill, StopBegun, GraceOver, Exit, Aborts, AskToEnd

LEMMA TimePassesInv ==
  ASSUME Inv, TimePasses
  PROVE  Inv'
BY QuietStep DEF TimePasses, groupVars, startVars, signalVars, Inv, TypeOK, CheckIsServe

LEMMA StartSetupInv ==
  ASSUME Inv, StartSetup
  PROVE  Inv'
BY QuietStep DEF StartSetup, groupVars, startVars, signalVars, Inv, TypeOK, CheckIsServe

LEMMA StopEndsInv ==
  ASSUME Inv, StopEnds
  PROVE  Inv'
BY SignalsAssumption DEF StopEnds, vars, groupVars, startVars, signalVars, Inv, TypeOK, UnlistedIsGone,
   OneCommand, CommandIsGone, ServerIsGone, CheckIsServe, StopBegins, NothingOutlives, Idle, Commands, Groups,
   Processes, Starting, Kill, StopBegun, GraceOver, Exit, Aborts, AskToEnd

LEMMA RunEndsInv ==
  ASSUME Inv, RunEnds
  PROVE  Inv'
BY ExitKeeps, KillEmpties, SignalsAssumption DEF RunEnds, Exit, Kill, Inv, TypeOK

LEMMA CrashInv ==
  ASSUME Inv, Crash
  PROVE  Inv'
BY ExitKeeps DEF Crash, Inv, TypeOK

LEMMA SecondSignalInv ==
  ASSUME Inv, SecondSignal
  PROVE  Inv'
BY ExitKeeps, KillEmpties, SignalsAssumption DEF SecondSignal, Exit, Kill, Inv, TypeOK

LEMMA StartCleanedInv ==
  ASSUME Inv, StartCleaned
  PROVE  Inv'
BY ExitKeeps, KillEmpties, SignalsAssumption DEF StartCleaned, Exit, Kill, Inv, TypeOK

LEMMA CleanedInv ==
  ASSUME Inv, Cleaned
  PROVE  Inv'
BY ExitKeeps, KillEmpties, SignalsAssumption DEF Cleaned, Exit, Kill, Inv, TypeOK

LEMMA RunCommandInv ==
  ASSUME Inv, RunCommand
  PROVE  Inv'
<1>1. cmd' \in CommandStates
  BY DEF RunCommand, Inv, TypeOK, CommandStates, Idle
<1>2. TypeOK'
  BY <1>1 DEF RunCommand, Inv, TypeOK, groupVars, startVars, signalVars, Idle, Groups, Commands, Processes
<1>3. UnlistedIsGone'
  BY DEF RunCommand, Inv, TypeOK, UnlistedIsGone, OneCommand, groupVars, startVars, signalVars, Idle,
     Groups, Commands, Processes
<1>4. OneCommand' /\ CommandIsGone'
  BY DEF RunCommand, Inv, TypeOK, OneCommand, CommandIsGone, groupVars, startVars, signalVars, Idle,
     CommandStates, Groups, Commands, Processes
<1>5. ServerIsGone'
  BY DEF RunCommand, Inv, TypeOK, ServerIsGone, groupVars, startVars, signalVars, Idle, Groups, Commands
<1>6. CheckIsServe' /\ StopBegins' /\ NothingOutlives'
  BY DEF RunCommand, Inv, CheckIsServe, StopBegins, NothingOutlives, groupVars, startVars, signalVars,
     Groups, Starting
<1> QED BY <1>2, <1>3, <1>4, <1>5, <1>6 DEF Inv

LEMMA CommandLimitInv ==
  ASSUME Inv, CommandLimit
  PROVE  Inv'
<1>1. cmd' \in CommandStates /\ at \in Commands
  <2>1. cmd \in CommandStates /\ at \in Commands
    BY DEF CommandLimit, Inv, TypeOK, Idle
  <2>2. CASE cmd.failure = "none"
    BY <2>1, <2>2 DEF CommandLimit, CommandStates
  <2>3. CASE cmd.failure # "none"
    BY <2>1, <2>3 DEF CommandLimit, CommandStates
  <2> QED BY <2>1, <2>2, <2>3
<1>2. TypeOK'
  <2>1. /\ UNCHANGED <<at, members, exit, listed, ready, late, setup, seen, stop, hurried>>
        /\ UNCHANGED <<aborted, signals, handler, over>> /\ waited' = FALSE
        /\ grace' \in [Groups -> {"none", "asked", "over"}]
    BY <1>1, AskedHasGrace DEF CommandLimit, groupVars, signalVars, Inv, Groups
  <2>2. at' \in Commands
    BY <1>1, <2>1
  <2>3. /\ late' \in BOOLEAN /\ seen' \in BOOLEAN /\ waited' \in BOOLEAN
        /\ hurried' \in BOOLEAN /\ aborted' \in BOOLEAN /\ over' \in BOOLEAN
        /\ grace' \in [Groups -> {"none", "asked", "over"}]
    BY <2>1 DEF Inv, TypeOK
  <2>4. /\ at' \in Starting \cup {"up", "stopping", "stopped", "failed"}
        /\ members' \in [Groups -> SUBSET Processes]
        /\ exit' \in [Groups -> {"none", "zero", "nonzero"}] /\ listed' \subseteq Groups
        /\ ready' \in {"idle", "check", "asking", "answered", "pause", "over"}
        /\ setup' \in {"idle", "running", "over", "abandoned"}
        /\ stop' \in {"no", "grace", "killed", "done"}
        /\ handler' \in {"none", "start", "fixtures", "stop"} /\ signals' \in 0..MaxSignals
    BY <2>1 DEF Inv, TypeOK
  <2> QED BY <1>1, <2>2, <2>3, <2>4 DEF TypeOK
<1>3. UnlistedIsGone'
  BY DEF CommandLimit, Inv, TypeOK, UnlistedIsGone, OneCommand, groupVars, startVars, signalVars, Idle,
     Groups, Commands, Processes
<1>4. OneCommand' /\ CommandIsGone'
  BY DEF CommandLimit, Inv, TypeOK, OneCommand, CommandIsGone, groupVars, startVars, signalVars, Idle,
     CommandStates, Groups, Commands, Processes
<1>5. ServerIsGone'
  BY DEF CommandLimit, Inv, TypeOK, ServerIsGone, groupVars, startVars, signalVars, Idle, Groups, Commands
<1>6. CheckIsServe' /\ StopBegins' /\ NothingOutlives'
  BY DEF CommandLimit, Inv, CheckIsServe, StopBegins, NothingOutlives, groupVars, startVars, signalVars,
     Groups, Starting
<1> QED BY <1>2, <1>3, <1>4, <1>5, <1>6 DEF Inv

LEMMA CommandExitsInv ==
  ASSUME Inv, CommandExits
  PROVE  Inv'
<1>1. /\ at \in Commands /\ at \in Groups /\ cmd # Idle
      /\ cmd' \in CommandStates /\ cmd'.at = "closing" /\ cmd'.stop = cmd.stop
      /\ ~cmd'.awaits => cmd.stop = "no"
  <2>1. at \in Commands /\ cmd # Idle
    BY DEF CommandExits, Inv, TypeOK, Idle
  <2>2. CASE cmd.stop = "no"
    BY <2>1, <2>2 DEF CommandExits, Inv, TypeOK, CommandStates, Idle, Groups
  <2>3. CASE cmd.stop # "no"
    BY <2>1, <2>3 DEF CommandExits, Inv, TypeOK, CommandStates, Idle, Groups
  <2> QED BY <2>2, <2>3
<1>2. /\ members' \in [Groups -> SUBSET Processes]
      /\ exit' \in [Groups -> {"none", "zero", "nonzero"}]
      /\ \A g \in Groups : members'[g] \subseteq members[g]
      /\ cmd.stop = "no" => members'[at] = {}
      /\ hurried' \in BOOLEAN
  BY <1>1, KillEmpties DEF CommandExits, groupVars, Inv, TypeOK
<1>3. TypeOK'
  BY <1>1, <1>2 DEF CommandExits, Inv, TypeOK, signalVars
<1>4. UnlistedIsGone' /\ OneCommand' /\ CommandIsGone'
  BY <1>1, <1>2 DEF CommandExits, Inv, UnlistedIsGone, OneCommand, CommandIsGone, Idle, Groups
<1>5. ServerIsGone' /\ CheckIsServe' /\ StopBegins' /\ NothingOutlives'
  BY <1>2 DEF CommandExits, signalVars, Inv, ServerIsGone, CheckIsServe, StopBegins, NothingOutlives, Groups
<1> QED BY <1>3, <1>4, <1>5 DEF Inv

LEMMA FirstSignalInv ==
  ASSUME Inv, FirstSignal
  PROVE  Inv'
<1>1. CASE Aborts /\ at \in Starting /\ handler' = "start"
           /\ UNCHANGED <<at, listed, ready, late, setup, seen, stop, waited, grace, over>>
  <2>1. CASE cmd.at = "idle"
    BY <1>1, <2>1, SignalsAssumption DEF FirstSignal, Aborts, groupVars, startVars, signalVars, Inv, TypeOK,
       UnlistedIsGone, OneCommand,
       CommandIsGone, ServerIsGone, CheckIsServe, StopBegins, NothingOutlives
  <2>2. CASE cmd.at # "idle"
    <3>1. /\ at \in Commands /\ Kill({at})
          /\ cmd' \in CommandStates /\ cmd'.at = cmd.at /\ cmd'.stop = cmd.stop /\ cmd'.awaits = cmd.awaits
      BY <1>1, <2>2 DEF Aborts, Inv, TypeOK, Idle, CommandStates
    <3>2. TypeOK'
      BY <1>1, <3>1, KillEmpties, SignalsAssumption DEF FirstSignal, Aborts, Inv, TypeOK, Groups
    <3>3. UnlistedIsGone' /\ OneCommand' /\ CommandIsGone'
      BY <1>1, <2>2, <3>1, KillEmpties DEF Inv, UnlistedIsGone, OneCommand, CommandIsGone, Groups, Idle
    <3>4. ServerIsGone' /\ CheckIsServe' /\ StopBegins' /\ NothingOutlives'
      BY <1>1, <3>1, KillEmpties DEF FirstSignal, Inv, ServerIsGone, CheckIsServe, StopBegins,
         NothingOutlives,
         Groups, Commands
    <3> QED BY <3>2, <3>3, <3>4 DEF Inv
  <2> QED BY <2>1, <2>2
<1>2. CASE /\ at = "up" /\ handler' = "fixtures"
           /\ UNCHANGED <<at, groupVars, listed, startVars, seen, stop, waited, grace, aborted, over>>
  BY <1>2, SignalsAssumption DEF FirstSignal, groupVars, startVars, signalVars, Inv, TypeOK, UnlistedIsGone,
     OneCommand,
     CommandIsGone, ServerIsGone, CheckIsServe, StopBegins, NothingOutlives, Starting
<1>3. CASE Exit /\ UNCHANGED <<aborted, handler>>
  BY <1>3, ExitKeeps, KillEmpties, SignalsAssumption DEF FirstSignal, Exit, Kill, Inv, TypeOK
<1> QED BY <1>1, <1>2, <1>3 DEF FirstSignal

LEMMA PassEndsInv ==
  ASSUME Inv, PassEnds
  PROVE  Inv'
BY SignalsAssumption, BeginStopStops DEF PassEnds, vars, groupVars, startVars, signalVars, Inv, TypeOK,
   UnlistedIsGone, OneCommand, CommandIsGone, ServerIsGone, CheckIsServe, StopBegins, NothingOutlives, Idle,
   Commands, Groups, Processes, Starting, Kill, StopBegun, GraceOver, Exit, Aborts, AskToEnd

LEMMA FixturesTornDownInv ==
  ASSUME Inv, FixturesTornDown
  PROVE  Inv'
BY SignalsAssumption, BeginStopStops DEF FixturesTornDown, vars, groupVars, startVars, signalVars, Inv,
   TypeOK, UnlistedIsGone, OneCommand, CommandIsGone, ServerIsGone, CheckIsServe, StopBegins, NothingOutlives,
   Idle, Commands, Groups, Processes, Starting, Kill, StopBegun, GraceOver, Exit, Aborts, AskToEnd

LEMMA ForkInv ==
  ASSUME Inv, NEW g \in Groups, Fork(g)
  PROVE  Inv'
<1>1. members' \in [Groups -> SUBSET Processes] /\ members[g] # {}
      /\ \A h \in Groups : members[h] = {} => members'[h] = {}
  BY DEF Fork, Inv, TypeOK, Processes
<1>2. TypeOK'
  BY <1>1 DEF Fork, startVars, signalVars, Inv, TypeOK
<1>3. UnlistedIsGone' /\ OneCommand' /\ CommandIsGone'
  BY <1>1 DEF Fork, startVars, Inv, TypeOK, UnlistedIsGone, OneCommand, CommandIsGone, Idle, Groups
<1>4. ServerIsGone' /\ CheckIsServe' /\ StopBegins' /\ NothingOutlives'
  BY <1>1 DEF Fork, startVars, signalVars, Inv, ServerIsGone, CheckIsServe, StopBegins, NothingOutlives,
     Groups
<1> QED BY <1>2, <1>3, <1>4 DEF Inv

LEMMA ExitsInv ==
  ASSUME Inv, NEW g \in Groups, NEW p \in Processes, Exits(g, p)
  PROVE  Inv'
<1>1. members' \in [Groups -> SUBSET Processes]
      /\ exit' \in [Groups -> {"none", "zero", "nonzero"}]
      /\ \A h \in Groups : members'[h] \subseteq members[h]
  BY DEF Exits, Inv, TypeOK
<1>2. TypeOK'
  BY <1>1 DEF Exits, startVars, signalVars, Inv, TypeOK
<1>3. UnlistedIsGone' /\ OneCommand' /\ CommandIsGone'
  BY <1>1 DEF Exits, startVars, Inv, TypeOK, UnlistedIsGone, OneCommand, CommandIsGone, Idle, Groups
<1>4. ServerIsGone' /\ CheckIsServe' /\ StopBegins' /\ NothingOutlives'
  BY <1>1 DEF Exits, startVars, signalVars, Inv, ServerIsGone, CheckIsServe, StopBegins, NothingOutlives,
     Groups
<1> QED BY <1>2, <1>3, <1>4 DEF Inv

-----------------------------------------------------------------------------
(* The theorems.                                                           *)

\* The invariant holds at the start, and no step of the program, of
\* nukadoko, of a timer or of a signal breaks it.
LEMMA InitKeeps == Init => Inv
<1> SUFFICES ASSUME Init PROVE Inv
  OBVIOUS
<1>1. TypeOK
  <2>1. cmd \in CommandStates
    BY DEF Init, Idle, CommandStates
  <2>2. /\ members \in [Groups -> SUBSET Processes]
        /\ exit \in [Groups -> {"none", "zero", "nonzero"}]
    BY DEF Init
  <2>3. signals \in 0..MaxSignals
    BY SignalsAssumption DEF Init
  <2> QED BY <2>1, <2>2, <2>3 DEF Init, TypeOK, Starting
<1>2. UnlistedIsGone /\ OneCommand /\ CommandIsGone
  BY DEF Init, UnlistedIsGone, OneCommand, CommandIsGone, Idle, Groups
<1>3. ServerIsGone /\ CheckIsServe /\ StopBegins /\ NothingOutlives
  BY DEF Init, ServerIsGone, CheckIsServe, StopBegins, NothingOutlives
<1> QED BY <1>1, <1>2, <1>3 DEF Inv

\* Each step keeps the invariant.
LEMMA StepKeeps == Inv /\ [Next]_vars => Inv'
<1> SUFFICES ASSUME Inv, [Next]_vars PROVE Inv'
  OBVIOUS
<1>1. CASE Program
  BY <1>1, ForkInv, ExitsInv DEF Program
<1>2. CASE Start
  BY <1>2, RunCommandInv, CommandExitsInv, CommandEndsInv, StartServeInv, CheckReadyInv, AskInv, AnsweredInv,
     PauseInv, StartSetupInv, StopEndsInv, RunEndsInv DEF Start
<1>3. CASE Timers
  BY <1>3, CommandLimitInv, ReadyLimitInv, SetupAbandonedInv, TimePassesInv DEF Timers
<1>4. CASE Stop
  BY <1>4, CommandGraceInv, ServerGraceInv, ServerExitSeenInv, ServerStoppedInv DEF Stop
<1>5. CASE SetupEnds \/ PassEnds \/ Crash
  BY <1>5, SetupEndsInv, PassEndsInv, CrashInv
<1>6. CASE Signals
  BY <1>6, FirstSignalInv, SecondSignalInv DEF Signals
<1>7. CASE Cleanup
  BY <1>7, StartCleanedInv, FixturesTornDownInv, CleanedInv DEF Cleanup
<1>8. CASE UNCHANGED vars
  BY <1>8 DEF vars, Inv, TypeOK, UnlistedIsGone, OneCommand, CommandIsGone, ServerIsGone, CheckIsServe,
     StopBegins,
     NothingOutlives
<1> QED BY <1>1, <1>2, <1>3, <1>4, <1>5, <1>6, <1>7, <1>8 DEF Next

\* The strengthened invariant, from which the three theorems below follow.
THEOREM Invariant == Spec => []Inv
BY InitKeeps, StepKeeps, PTL DEF Spec

\* The state keeps its shape.
THEOREM TypeCorrect == Spec => []TypeOK
<1>1. Inv => TypeOK
  BY DEF Inv
<1> QED BY <1>1, Invariant, PTL

\* Whatever moment nukadoko exits at, of its own accord, in a crash or on a
\* signal, no process of any group it spawned is left (killOnExit).
THEOREM ExitKillsAll == Spec => []NothingOutlives
<1>1. Inv => NothingOutlives
  BY DEF Inv
<1> QED BY <1>1, Invariant, PTL

\* A phase that is over, a failed start and a stopped world left nothing
\* running, though nukadoko itself goes on.
THEOREM PhasesClean == Spec => []NothingLeftBehind
<1>1. Inv => NothingLeftBehind
  BY DEF Inv, UnlistedIsGone, OneCommand, ServerIsGone, StopBegins, NothingLeftBehind, Groups, Commands
<1> QED BY <1>1, Invariant, PTL

\* Every group ends with its phase, and with nukadoko at the latest.
THEOREM GroupsAreOver == Spec => []GroupsEnd
<1> QED BY ExitKillsAll, PhasesClean, PTL DEF GroupsEnd

-----------------------------------------------------------------------------
(* Grace.  The deadline a stop compares with is that of its own SIGTERM; a *)
(* command that is not being stopped was not asked to end; and who kills   *)
(* without looking at a deadline finds nothing running, or may cut it.     *)

ServerDeadline == stop = "grace" => grace["serve"] = "over" \/ (grace["serve"] = "asked" /\ ~waited)
CommandDeadline == cmd.stop = "grace" => grace[at] = "over" \/ (grace[at] = "asked" /\ ~waited)
NotAsked == cmd.at # "idle" /\ cmd.stop = "no" => grace[at] = "none"
Handling == (handler = "start" => aborted) /\ (signals = 0 => handler = "none")
GraceInv == ServerDeadline /\ CommandDeadline /\ NotAsked /\ Handling /\ GraceGiven

\* A kill of what is gone, has had its time or was left behind hurries nobody.
LEMMA TimelyKill ==
  ASSUME TypeOK, NEW groups \in SUBSET Groups, Kill(groups),
         \A g \in groups : members[g] = {} \/ grace[g] = "over" \/ Leftover(g)
  PROVE  hurried' = hurried
BY DEF Kill, TypeOK

\* At the end of a run, and of a cleanup, nothing listed runs any longer.
LEMMA NothingListedRuns ==
  ASSUME Inv, stop = "done", at \notin Starting
  PROVE  \A g \in listed : members[g] = {}
BY DEF Inv, TypeOK, OneCommand, ServerIsGone, Groups, Commands, Starting

\* A step that asks nobody to end, and kills nobody early.
LEMMA GraceFrame ==
  ASSUME GraceInv, UNCHANGED <<at, cmd, stop, waited, grace, aborted, signals, handler>>,
         hurried' => hurried \/ CutShort', over => over'
  PROVE  GraceInv'
<1>1. ServerDeadline' /\ CommandDeadline' /\ NotAsked' /\ Handling'
  BY DEF GraceInv, ServerDeadline, CommandDeadline, NotAsked, Handling
<1>2. GraceGiven'
  BY DEF GraceInv, GraceGiven, CutShort
<1> QED BY <1>1, <1>2 DEF GraceInv

\* A stop of the server begins; no command runs.
LEMMA GraceBegins ==
  ASSUME TypeOK, GraceInv, AskToEnd("serve"), cmd' = Idle,
         hurried' => hurried \/ CutShort', over => over',
         aborted => aborted', signals' = signals, handler' = "start" => aborted',
         signals = 0 => handler' = "none", handler = "none" /\ over => handler' = "none"
  PROVE  GraceInv'
<1>1. ServerDeadline' /\ CommandDeadline' /\ NotAsked' /\ Handling'
  BY AskedHasGrace DEF ServerDeadline, CommandDeadline, NotAsked, Handling, Idle, Groups
<1>2. GraceGiven'
  BY DEF GraceInv, GraceGiven, CutShort
<1> QED BY <1>1, <1>2 DEF GraceInv

\* A phase that throws, or goes on.
LEMMA GracePhase ==
  ASSUME Inv, GraceInv, PhaseOver, Throw \/ Proceed
  PROVE  GraceInv'
<1>1. CASE Throw
  <2>1. AskToEnd("serve") /\ cmd' = Idle /\ UNCHANGED signalVars
    BY <1>1 DEF Throw, PhaseOver
  <2>2. hurried' => hurried \/ CutShort'
    BY <1>1, <2>1 DEF Throw, groupVars, signalVars, CutShort
  <2>3. GraceInv /\ TypeOK /\ Handling
    BY DEF Inv, GraceInv
  <2> QED BY <2>1, <2>2, <2>3, GraceBegins DEF signalVars, Handling
<1>2. CASE Proceed
  <2>1. cmd' = Idle /\ UNCHANGED <<stop, waited, grace, hurried, signalVars>>
    BY <1>2 DEF Proceed, PhaseOver, groupVars
  <2>2. ServerDeadline' /\ CommandDeadline' /\ NotAsked' /\ Handling'
    BY <2>1 DEF signalVars, Idle, GraceInv, ServerDeadline, CommandDeadline, NotAsked, Handling
  <2>3. GraceGiven'
    BY <2>1 DEF signalVars, GraceInv, GraceGiven, CutShort
  <2> QED BY <2>2, <2>3 DEF GraceInv
<1> QED BY <1>1, <1>2

\* The steps of the processes, and of a start but for its commands.
LEMMA GraceStart ==
  ASSUME Inv, GraceInv,
         \/ Program \/ StartServe \/ CheckReady \/ Ask \/ Answered \/ Pause \/ StartSetup
         \/ StopEnds \/ ReadyLimit \/ SetupAbandoned \/ SetupEnds \/ ServerExitSeen
         \/ ServerStopped \/ Crash
  PROVE  GraceInv'
<1>1. CASE Program
  BY <1>1, GraceFrame DEF Program, Fork, Exits, startVars, signalVars
<1>2. CASE Ask \/ Pause \/ StartSetup \/ ReadyLimit \/ ServerExitSeen
  BY <1>2, GraceFrame DEF Ask, Pause, StartSetup, ReadyLimit, ServerExitSeen, groupVars, startVars, signalVars
<1>3. CASE Crash
  BY <1>3, GraceFrame DEF Crash, startVars
<1>4. CASE CheckReady
  <2>1. CASE Throw /\ UNCHANGED ready
    <3>1. PhaseOver
      BY <1>4, <2>1, NoCommand DEF CheckReady, PhaseOver, signalVars, Inv, TypeOK
    <3> QED BY <2>1, <3>1, GracePhase
  <2>2. CASE ready' = "asking" /\ UNCHANGED <<at, groupVars, stop, waited, grace>>
    BY <1>4, <2>2, GraceFrame DEF CheckReady, groupVars, signalVars
  <2> QED BY <1>4, <2>1, <2>2 DEF CheckReady
<1>5. CASE Answered
  <2>1. CASE ready' = "over" /\ Proceed
    <3>1. PhaseOver
      BY <1>5, <2>1, NoCommand DEF Answered, PhaseOver, signalVars, Inv, TypeOK, CheckIsServe
    <3> QED BY <2>1, <3>1, GracePhase
  <2>2. CASE aborted /\ ready' = "pause" /\ UNCHANGED <<at, groupVars, stop, waited, grace>>
    BY <1>5, <2>2, GraceFrame DEF Answered, groupVars, signalVars
  <2> QED BY <1>5, <2>1, <2>2 DEF Answered
<1>6. CASE SetupEnds \/ SetupAbandoned
  <2>1. PhaseOver
    BY <1>6, NoCommand DEF SetupEnds, SetupAbandoned, PhaseOver, signalVars, Inv, TypeOK, CheckIsServe
  <2> QED BY <1>6, <2>1, GracePhase DEF SetupEnds, SetupAbandoned
<1>7. CASE StartServe
  <2>1. stop = "no" /\ cmd = Idle
    BY <1>7, NoCommand DEF StartServe, Inv, StopBegins, Starting
  <2>2. UNCHANGED <<cmd, stop, hurried, signalVars>>
    BY <1>7 DEF StartServe
  <2>3. ServerDeadline' /\ CommandDeadline' /\ NotAsked' /\ Handling'
    BY <2>1, <2>2 DEF signalVars, Idle, GraceInv, ServerDeadline, CommandDeadline, NotAsked, Handling
  <2>4. GraceGiven'
    BY <2>2 DEF signalVars, GraceInv, GraceGiven, CutShort
  <2> QED BY <2>3, <2>4 DEF GraceInv
<1>8. CASE StopEnds \/ ServerStopped
  <2>1. UNCHANGED <<cmd, waited, grace, hurried, signalVars>> /\ stop' \in {"done", stop}
    BY <1>8 DEF StopEnds, ServerStopped, groupVars, startVars
  <2>2. cmd' = Idle \/ at' = at
    BY <1>8 DEF StopEnds, ServerStopped, startVars, Inv, TypeOK, Commands
  <2>3. ServerDeadline' /\ CommandDeadline' /\ NotAsked' /\ Handling'
    BY <2>1, <2>2 DEF signalVars, Idle, GraceInv, ServerDeadline, CommandDeadline, NotAsked, Handling
  <2>4. GraceGiven'
    BY <2>1 DEF signalVars, GraceInv, GraceGiven, CutShort
  <2> QED BY <2>3, <2>4 DEF GraceInv
<1> QED BY <1>1, <1>2, <1>3, <1>4, <1>5, <1>6, <1>7, <1>8

\* A command's own steps, and the time that passes.
LEMMA GraceCommands ==
  ASSUME Inv, GraceInv,
         RunCommand \/ CommandLimit \/ CommandGrace \/ CommandExits \/ CommandEnds \/ TimePasses
  PROVE  GraceInv'
<1>1. CASE RunCommand
  <2>1. /\ at \in Commands /\ cmd'.at = "running" /\ cmd'.stop = "no"
        /\ grace' = [grace EXCEPT ![at] = "none"] /\ hurried' = (hurried \/ aborted)
        /\ UNCHANGED <<at, stop, waited, signalVars>>
    BY <1>1 DEF RunCommand, Idle
  <2>2. grace'[at] = "none" /\ grace'["serve"] = grace["serve"]
    BY <2>1 DEF Inv, TypeOK, Groups, Commands
  <2>3. ServerDeadline' /\ CommandDeadline' /\ NotAsked' /\ Handling'
    BY <2>1, <2>2 DEF signalVars, GraceInv, ServerDeadline, CommandDeadline, NotAsked, Handling
  <2>4. GraceGiven'
    BY <2>1 DEF signalVars, GraceInv, GraceGiven, CutShort
  <2> QED BY <2>3, <2>4 DEF GraceInv
<1>2. CASE CommandLimit
  <2>1. /\ at \in Commands /\ cmd'.stop = "grace" /\ AskToEnd(at)
        /\ UNCHANGED <<at, stop, hurried, signalVars>>
    BY <1>2 DEF CommandLimit, groupVars, Inv, TypeOK, CommandStates, Idle
  <2>2. waited' = FALSE /\ grace'[at] = "asked" /\ grace'["serve"] = grace["serve"]
    BY <2>1, AskedHasGrace DEF Inv, Groups, Commands
  <2>3. ServerDeadline' /\ CommandDeadline' /\ NotAsked' /\ Handling'
    BY <2>1, <2>2 DEF signalVars, GraceInv, ServerDeadline, CommandDeadline, NotAsked, Handling
  <2>4. GraceGiven'
    BY <2>1 DEF signalVars, GraceInv, GraceGiven, CutShort
  <2> QED BY <2>3, <2>4 DEF GraceInv
<1>3. CASE CommandGrace \/ CommandExits
  <2>1. /\ at \in Commands /\ at \in Groups /\ UNCHANGED <<at, stop, waited, grace, signalVars>>
        /\ cmd'.stop \in {"over", cmd.stop} /\ cmd.at # "idle"
    <3>1. cmd.at # "idle"
      BY <1>3 DEF CommandGrace, CommandExits, Inv, OneCommand, Idle
    <3>2. cmd \in CommandStates /\ at \in Commands
      BY <3>1 DEF Inv, TypeOK, Idle
    <3>3. CASE CommandGrace
      BY <3>1, <3>2, <3>3 DEF CommandGrace, CommandStates, Groups
    <3>4. CASE CommandExits
      BY <3>1, <3>2, <3>4 DEF CommandExits, CommandStates, Groups
    <3> QED BY <1>3, <3>3, <3>4
  <2>2. hurried' = hurried
    <3>1. CASE CommandGrace
      BY <2>1, <3>1, TimelyKill DEF CommandGrace, GraceOver, Inv, GraceInv, CommandDeadline
    <3>2. CASE CommandExits /\ cmd.stop = "no"
      BY <2>1, <3>2, TimelyKill DEF CommandExits, Leftover, Inv, GraceInv, NotAsked
    <3>3. CASE CommandExits /\ cmd.stop # "no"
      BY <3>3 DEF CommandExits, groupVars
    <3> QED BY <1>3, <3>1, <3>2, <3>3
  <2>3. ServerDeadline' /\ CommandDeadline' /\ NotAsked' /\ Handling'
    BY <2>1 DEF signalVars, GraceInv, ServerDeadline, CommandDeadline, NotAsked, Handling
  <2>4. GraceGiven'
    BY <2>1, <2>2 DEF signalVars, GraceInv, GraceGiven, CutShort
  <2> QED BY <2>3, <2>4 DEF GraceInv
<1>4. CASE CommandEnds
  BY <1>4, CommandOver, GracePhase DEF CommandEnds
<1>5. CASE TimePasses
  <2>1. /\ UNCHANGED <<at, cmd, stop, hurried, signalVars>>
        /\ \A g \in Groups : grace[g] \in {"asked", "over"} => grace'[g] = "over"
        /\ \A g \in Groups : grace[g] = "none" => grace'[g] = "none"
    BY <1>5 DEF TimePasses, groupVars, startVars
  <2>2. "serve" \in Groups /\ (cmd # Idle => at \in Groups) /\ (cmd.at # "idle" \/ cmd.stop # "no" => cmd # Idle)
    BY DEF Inv, TypeOK, Groups, Idle
  <2>3. ServerDeadline' /\ CommandDeadline' /\ NotAsked' /\ Handling'
    BY <2>1, <2>2 DEF signalVars, GraceInv, ServerDeadline, CommandDeadline, NotAsked, Handling
  <2>4. GraceGiven'
    BY <2>1 DEF signalVars, GraceInv, GraceGiven, CutShort
  <2> QED BY <2>3, <2>4 DEF GraceInv
<1> QED BY <1>1, <1>2, <1>3, <1>4, <1>5

\* The stop of the server, and the ends of nukadoko.
LEMMA GraceStops ==
  ASSUME Inv, GraceInv,
         ServerGrace \/ PassEnds \/ FixturesTornDown \/ RunEnds \/ Cleaned \/ StartCleaned \/ Signals
  PROVE  GraceInv'
<1>1. CASE ServerGrace
  <2>1. hurried' = hurried
    BY <1>1, TimelyKill DEF ServerGrace, GraceOver, Inv, Groups, GraceInv, ServerDeadline
  <2>2. stop' = "killed" /\ UNCHANGED <<at, cmd, waited, grace, signalVars>>
    BY <1>1 DEF ServerGrace, startVars
  <2>3. ServerDeadline' /\ CommandDeadline' /\ NotAsked' /\ Handling'
    BY <2>2 DEF signalVars, GraceInv, ServerDeadline, CommandDeadline, NotAsked, Handling
  <2>4. GraceGiven'
    BY <2>1, <2>2 DEF signalVars, GraceInv, GraceGiven, CutShort
  <2> QED BY <2>3, <2>4 DEF GraceInv
<1>2. CASE PassEnds \/ FixturesTornDown
  <2>1. /\ UNCHANGED <<cmd, hurried, aborted, signals, over>> /\ BeginStop /\ ~over
        /\ handler' \in {handler, "stop"} /\ (handler' = "stop" => handler # "none" \/ handler' = handler)
        /\ cmd = Idle \/ at' = at
    BY <1>2 DEF PassEnds, FixturesTornDown, groupVars, startVars, signalVars, Inv, TypeOK, Commands
  <2>2. Handling'
    BY <2>1 DEF GraceInv, Handling
  <2>3. GraceGiven'
    BY <2>1 DEF GraceInv, GraceGiven, CutShort
  <2>4. CASE stop = "no"
    <3>1. AskToEnd("serve")
      BY <2>1, <2>4 DEF BeginStop
    <3>2. /\ waited' = FALSE /\ grace'["serve"] = "asked"
          /\ \A g \in Commands : grace'[g] = grace[g]
      BY <3>1, AskedHasGrace DEF Inv, Groups, Commands
    <3>3. cmd # Idle => at \in Commands
      BY DEF Inv, TypeOK
    <3>4. ServerDeadline' /\ CommandDeadline' /\ NotAsked'
      BY <2>1, <3>2, <3>3 DEF Idle, GraceInv, ServerDeadline, CommandDeadline, NotAsked
    <3> QED BY <2>2, <2>3, <3>4 DEF GraceInv
  <2>5. CASE stop # "no"
    <3>1. UNCHANGED <<stop, waited, grace>>
      BY <2>1, <2>5 DEF BeginStop
    <3>2. ServerDeadline' /\ CommandDeadline' /\ NotAsked'
      BY <2>1, <3>1 DEF Idle, GraceInv, ServerDeadline, CommandDeadline, NotAsked
    <3> QED BY <2>2, <2>3, <3>2 DEF GraceInv
  <2> QED BY <2>4, <2>5
\* The run's end, or a cleanup's, waits for the stop.
<1>3. CASE RunEnds \/ Cleaned
  <2>1. /\ stop = "done" /\ at \notin Starting /\ Kill(listed) /\ over' = TRUE
        /\ UNCHANGED <<at, cmd, stop, waited, grace, aborted, signals, handler>>
    BY <1>3 DEF RunEnds, Cleaned, Exit, startVars, Inv, StopBegins, Starting
  <2>2. hurried' = hurried
    BY <2>1, NothingListedRuns, TimelyKill DEF Inv, TypeOK
  <2> QED BY <2>1, <2>2, GraceFrame
<1>4. CASE StartCleaned
  <2>1. UNCHANGED <<at, cmd, stop, waited, grace, aborted, signals, handler>> /\ over' = TRUE
    BY <1>4 DEF StartCleaned, Exit, startVars
  <2>2. aborted'
    BY <1>4, <2>1 DEF StartCleaned, GraceInv, Handling
  <2> QED BY <2>1, <2>2, GraceFrame DEF CutShort
<1>5. CASE SecondSignal
  <2>1. /\ UNCHANGED <<at, cmd, stop, waited, grace, aborted, handler>> /\ over' = TRUE /\ signals' = 2
    BY <1>5 DEF SecondSignal, Exit, startVars
  <2>2. ServerDeadline' /\ CommandDeadline' /\ NotAsked' /\ Handling'
    BY <2>1 DEF GraceInv, ServerDeadline, CommandDeadline, NotAsked, Handling
  <2> QED BY <2>1, <2>2 DEF GraceInv, GraceGiven, CutShort
<1>6. CASE FirstSignal
  <2>1. signals = 0 /\ signals' = 1 /\ ~over /\ handler = "none"
    BY <1>6 DEF FirstSignal, GraceInv, Handling
  <2>2. UNCHANGED <<at, stop, waited, grace>> /\ cmd'.at = cmd.at /\ cmd'.stop = cmd.stop
    BY <1>6 DEF FirstSignal, Aborts, Exit, groupVars, startVars, Inv, TypeOK, CommandStates
  <2>3. ServerDeadline' /\ CommandDeadline' /\ NotAsked'
    BY <2>2 DEF GraceInv, ServerDeadline, CommandDeadline, NotAsked
  <2>4. Handling' /\ GraceGiven'
    <3>1. CASE Aborts
      BY <2>1, <3>1 DEF Aborts, Handling, GraceGiven, CutShort
    <3>2. CASE handler' = "fixtures" /\ UNCHANGED <<groupVars, aborted>>
      BY <2>1, <3>2 DEF groupVars, GraceInv, Handling, GraceGiven, CutShort
    <3>3. CASE Exit /\ UNCHANGED <<aborted, handler>>
      BY <2>1, <3>3 DEF Exit, Handling, GraceGiven, CutShort
    <3> QED BY <1>6, <3>1, <3>2, <3>3 DEF FirstSignal
  <2> QED BY <2>3, <2>4 DEF GraceInv
<1> QED BY <1>1, <1>2, <1>3, <1>4, <1>5, <1>6 DEF Signals

\* Whoever kills a running group, it was asked to end and has had its whole
\* grace period since, but for an abort, a second signal, or a signal to a
\* pass that stops its own world already.
THEOREM GraceIsGiven == Spec => []GraceGiven
<1>1. Init => GraceInv
  BY DEF Init, Idle, GraceInv, ServerDeadline, CommandDeadline, NotAsked, Handling, GraceGiven
<1>2. Inv /\ GraceInv /\ [Next]_vars => GraceInv'
  <2> SUFFICES ASSUME Inv, GraceInv, [Next]_vars PROVE GraceInv'
    OBVIOUS
  <2>1. CASE UNCHANGED vars
    BY <2>1, GraceFrame DEF vars
  <2>2. CASE Next
    BY <2>2, GraceStart, GraceCommands, GraceStops DEF Next, Start, Timers, Stop, Cleanup
  <2> QED BY <2>1, <2>2
<1>3. GraceInv => GraceGiven
  BY DEF GraceInv
<1> QED BY <1>1, <1>2, <1>3, Invariant, PTL DEF Spec

-----------------------------------------------------------------------------
(* A step's commands.  The invariant: while the states of a group's        *)
(* members are read, every member is one of those listed, unless the group *)
(* grew; so the group of an entry that says "ended" is gone, and starts    *)
(* and writes nothing from then on.  Until its second walk, whatever a     *)
(* command's group wrote is in what its two walks differ in.               *)

ProcStates == InGroup \cup {"unborn", "away", "gone"}
CommandsShape ==
  /\ CommandsTypeOK
  /\ DOMAIN procs = Launches /\ \A c \in Launches : procs[c] \in [Ranks(c) -> ProcStates]
  /\ DOMAIN stage = Launches /\ DOMAIN heeds = Launches /\ DOMAIN limit = Launches
  /\ DOMAIN since = Launches /\ DOMAIN scanned = Launches /\ DOMAIN entry = Launches
  /\ DOMAIN wrote = Launches

NotYet ==
  \A c \in Launches : stage[c] \in {"none", "failed"} => Group(c) = {} /\ wrote[c] = {}
ListedAreAll ==
  \A c \in Launches \ slipped : stage[c] = "looking" => Group(c) \subseteq scanned[c]
EndedIsGone ==
  \A c \in Launches \ slipped :
    stage[c] \in {"walking", "resolved", "rejected"} /\ entry[c].group = "ended" => Group(c) = {}
WritesAreSeen ==
  \A c \in Launches : stage[c] \in {"open", "looking", "walking"} => wrote[c] \subseteq since[c]
EveryEntryAnswers ==
  \A c \in Launches : stage[c] \in {"walking", "resolved", "rejected"} => entry[c].group # "none"
MeasuredIsWhole ==
  \A c \in Launches \ slipped :
    Settled(c) /\ entry[c].measured /\ entry[c].group = "ended" => wrote[c] \subseteq entry[c].changed
MeasuredIsSettled == \A c \in Launches : entry[c].measured => Settled(c)
RecordedAreSettled == \A c \in record.lists : c \in Launches /\ Settled(c)

CommandsInv ==
  /\ CommandsShape /\ NotYet /\ ListedAreAll /\ EndedIsGone /\ WritesAreSeen /\ EveryEntryAnswers
  /\ MeasuredIsWhole /\ MeasuredIsSettled /\ RecordedAreSettled

\* Nothing of a step's record is there before its first command.
LEMMA CommandsStart == CommandsInit => CommandsInv
<1> SUFFICES ASSUME CommandsInit PROVE CommandsInv
  OBVIOUS
<1>1. \A c \in Launches : procs[c] \in [Ranks(c) -> ProcStates]
  BY DEF CommandsInit, ProcStates
<1>2. \A c \in Launches : Group(c) = {}
  BY DEF CommandsInit, Group, InGroup
<1>3. CommandsTypeOK
  <2>1. \A c \in Launches : entry[c] \in [group : {"none", "ended", "running"}, measured : BOOLEAN,
                                          changed : SUBSET Paths]
    BY DEF CommandsInit, NoEntry
  <2>2. record \in [made : BOOLEAN, begun : SUBSET Launches, lists : SUBSET Launches]
    BY DEF CommandsInit
  <2> QED BY <2>1, <2>2 DEF CommandsInit, CommandsTypeOK
<1>4. CommandsShape
  BY <1>1, <1>3 DEF CommandsInit, CommandsShape
<1>5. NotYet /\ ListedAreAll /\ EndedIsGone /\ WritesAreSeen
  BY <1>2 DEF CommandsInit, NotYet, ListedAreAll, EndedIsGone, WritesAreSeen
<1>6. EveryEntryAnswers /\ MeasuredIsWhole /\ MeasuredIsSettled /\ RecordedAreSettled
  BY DEF CommandsInit, NoEntry, EveryEntryAnswers, MeasuredIsWhole, MeasuredIsSettled, RecordedAreSettled, Settled
<1> QED BY <1>4, <1>5, <1>6 DEF CommandsInv

\* A process's step: no group grows but by a member's hand, and a group whose
\* states are being read is then told from the others.
LEMMA BesideKeeps ==
  ASSUME CommandsInv, NEW c \in Launches, Beside(c)
  PROVE  CommandsInv'
<1>1. CASE StartsOther(c)
  <2>1. PICK i \in Ranks(c), j \in Ranks(c), kind \in InGroup :
          /\ MayAct(c, i) /\ procs[c][j] = "unborn"
          /\ procs' = [procs EXCEPT ![c][j] = kind]
    BY <1>1 DEF StartsOther
  <2>2. /\ slipped' = IF stage[c] = "looking" THEN slipped \cup {c} ELSE slipped
        /\ UNCHANGED <<stage, limit, since, scanned, entry, record, heeds, told, halt, wrote>>
    BY <1>1 DEF StartsOther, launchVars
  <2>3. /\ DOMAIN procs' = Launches /\ procs'[c] = [procs[c] EXCEPT ![j] = kind]
        /\ \A d \in Launches \ {c} : procs'[d] = procs[d]
    BY <2>1 DEF CommandsInv, CommandsShape
  <2>4. \A d \in Launches : procs'[d] \in [Ranks(d) -> ProcStates]
    BY <2>3 DEF CommandsInv, CommandsShape, ProcStates
  <2>5. CommandsShape'
    BY <2>2, <2>3, <2>4 DEF CommandsInv, CommandsShape, CommandsTypeOK, ProcStates
  <2>6. Group(c) # {} /\ \A d \in Launches \ {c} : Group(d)' = Group(d)
    BY <2>1, <2>3 DEF MayAct, Group
  <2>7. NotYet' /\ WritesAreSeen' /\ EveryEntryAnswers' /\ RecordedAreSettled' /\ MeasuredIsSettled'
    BY <2>2, <2>6 DEF CommandsInv, NotYet, WritesAreSeen, EveryEntryAnswers, RecordedAreSettled, MeasuredIsSettled,
       Settled
  <2>8. MeasuredIsWhole'
    BY <2>2 DEF CommandsInv, MeasuredIsWhole, Settled
  <2>9. ListedAreAll' /\ EndedIsGone'
    BY <2>2, <2>6 DEF CommandsInv, ListedAreAll, EndedIsGone
  <2> QED BY <2>5, <2>7, <2>8, <2>9 DEF CommandsInv
\* A group that gets smaller.
<1>2. ASSUME \A d \in Launches : Group(d)' \subseteq Group(d), CommandsShape', UNCHANGED <<launchVars, wrote, slipped>>
      PROVE  CommandsInv'
  <2>1. UNCHANGED <<stage, since, scanned, entry, record, wrote, slipped>>
    BY <1>2 DEF launchVars
  <2>2. NotYet' /\ WritesAreSeen' /\ EveryEntryAnswers' /\ RecordedAreSettled' /\ MeasuredIsSettled'
    BY <2>1, <1>2 DEF CommandsInv, NotYet, WritesAreSeen, EveryEntryAnswers, RecordedAreSettled, MeasuredIsSettled,
       Settled
  <2>3. MeasuredIsWhole'
    BY <2>1 DEF CommandsInv, MeasuredIsWhole, Settled
  <2>4. ListedAreAll' /\ EndedIsGone'
    BY <2>1, <1>2 DEF CommandsInv, ListedAreAll, EndedIsGone
  <2> QED BY <1>2, <2>2, <2>3, <2>4 DEF CommandsInv
<1>3. ASSUME NEW i \in Ranks(c), NEW to \in {"away", "gone"}, procs' = [procs EXCEPT ![c][i] = to],
             UNCHANGED <<launchVars, heeds, told, halt, wrote, slipped>>
      PROVE  CommandsInv'
  <2>1. /\ DOMAIN procs' = Launches /\ procs'[c] = [procs[c] EXCEPT ![i] = to]
        /\ \A d \in Launches \ {c} : procs'[d] = procs[d]
    BY <1>3 DEF CommandsInv, CommandsShape
  <2>2. \A d \in Launches : procs'[d] \in [Ranks(d) -> ProcStates]
    BY <1>3, <2>1 DEF CommandsInv, CommandsShape, ProcStates
  <2>3. CommandsShape'
    BY <1>3, <2>1, <2>2 DEF CommandsInv, CommandsShape, CommandsTypeOK, ProcStates, launchVars
  <2>4. \A d \in Launches : Group(d)' \subseteq Group(d)
    BY <1>3, <2>1 DEF Group, InGroup, CommandsInv, CommandsShape
  <2> QED BY <1>2, <1>3, <2>3, <2>4
<1>4. ASSUME NEW i \in Ranks(c), LeavesGroup(c, i)
      PROVE  CommandsInv'
  <2>1. PICK to \in {"away", "gone"} : procs' = [procs EXCEPT ![c][i] = to]
    BY <1>4 DEF LeavesGroup
  <2> QED BY <1>3, <1>4, <2>1 DEF LeavesGroup
<1>5. ASSUME NEW i \in Ranks(c), ProcessEnds(c, i)
      PROVE  CommandsInv'
  BY <1>3, <1>5 DEF ProcessEnds
<1>6. ASSUME NEW p \in Paths, WritesFile(c, p)
      PROVE  CommandsInv'
  <2>1. /\ Group(c) # {}
        /\ wrote' = [wrote EXCEPT ![c] = @ \cup {p}]
        /\ since' = [d \in Launches |->
                       IF stage[d] \in {"open", "looking", "walking"} THEN since[d] \cup {p} ELSE since[d]]
        /\ UNCHANGED <<stage, limit, scanned, entry, record, procs, heeds, told, halt, slipped>>
    BY <1>6 DEF WritesFile, procVars
  <2>2. /\ DOMAIN wrote' = Launches /\ wrote'[c] = wrote[c] \cup {p}
        /\ \A d \in Launches \ {c} : wrote'[d] = wrote[d]
    BY <2>1 DEF CommandsInv, CommandsShape
  <2>3. \A d \in Launches : Group(d)' = Group(d)
    BY <2>1 DEF Group
  <2>4. CommandsShape'
    BY <2>1, <2>2 DEF CommandsInv, CommandsShape, CommandsTypeOK
  <2>5. NotYet' /\ ListedAreAll' /\ EndedIsGone' /\ EveryEntryAnswers' /\ RecordedAreSettled'
          /\ MeasuredIsSettled'
    BY <2>1, <2>2, <2>3 DEF CommandsInv, MeasuredIsSettled, NotYet, ListedAreAll, EndedIsGone, EveryEntryAnswers, RecordedAreSettled,
       Settled
  <2>6. WritesAreSeen'
    BY <2>1, <2>2 DEF CommandsInv, WritesAreSeen
  <2>7. MeasuredIsWhole'
    BY <2>1, <2>2 DEF CommandsInv, MeasuredIsWhole, EndedIsGone, Settled
  <2> QED BY <2>4, <2>5, <2>6, <2>7 DEF CommandsInv
<1> QED BY <1>1, <1>4, <1>5, <1>6 DEF Beside

\* nukadoko's own steps with a command.
LEMMA AdvancesKeep ==
  ASSUME CommandsInv, NEW c \in Launches, Advances(c)
  PROVE  CommandsInv'
<1> DEFINE Others == \A d \in Launches \ {c} : stage'[d] = stage[d] /\ entry'[d] = entry[d]
                                                 /\ scanned'[d] = scanned[d] /\ since'[d] = since[d]
\* No process does anything, and the other commands are where they were.
<1>a. ASSUME CommandsShape', Others, UNCHANGED <<record, procs, wrote, slipped>>, ~Settled(c),
             stage'[c] \in {"none", "failed"} => stage[c] \in {"none", "failed"},
             c \notin slipped /\ stage'[c] = "looking" => Group(c) \subseteq scanned'[c],
             c \notin slipped /\ stage'[c] \in {"walking", "resolved", "rejected"} /\ entry'[c].group = "ended" =>
               Group(c) = {},
             stage'[c] \in {"open", "looking", "walking"} => wrote[c] \subseteq since'[c],
             stage'[c] \in {"walking", "resolved", "rejected"} => entry'[c].group # "none",
             stage'[c] \in {"resolved", "rejected"} /\ entry'[c].measured => wrote[c] \subseteq entry'[c].changed,
             entry'[c].measured => stage'[c] \in {"resolved", "rejected"}
      PROVE  CommandsInv'
  <2>1. \A d \in Launches : Group(d)' = Group(d)
    BY <1>a DEF Group
  <2>2. NotYet' /\ ListedAreAll' /\ EndedIsGone'
    BY <1>a, <2>1 DEF CommandsInv, NotYet, ListedAreAll, EndedIsGone
  <2>3. WritesAreSeen' /\ EveryEntryAnswers'
    BY <1>a DEF CommandsInv, WritesAreSeen, EveryEntryAnswers
  <2>4. MeasuredIsWhole' /\ MeasuredIsSettled' /\ RecordedAreSettled'
    BY <1>a DEF CommandsInv, MeasuredIsWhole, MeasuredIsSettled, RecordedAreSettled, Settled
  <2> QED BY <1>a, <2>2, <2>3, <2>4 DEF CommandsInv
<1>1. CASE Launch(c)
  <2>1. /\ stage[c] = "none" /\ stage' = [stage EXCEPT ![c] = "open"]
        /\ procs' = [procs EXCEPT ![c][1] = "holds"]
        /\ UNCHANGED <<since, scanned, entry, record, told, halt, wrote, slipped>>
    BY <1>1 DEF Launch
  <2>2. PICK b \in BOOLEAN : heeds' = [heeds EXCEPT ![c] = b]
    BY <1>1 DEF Launch
  <2>3. PICK l \in Timeouts : limit' = [limit EXCEPT ![c] = l]
    BY <1>1 DEF Launch
  <2>4. /\ DOMAIN procs' = Launches /\ procs'[c] = [procs[c] EXCEPT ![1] = "holds"]
        /\ \A d \in Launches \ {c} : procs'[d] = procs[d]
    BY <2>1 DEF CommandsInv, CommandsShape
  <2>5. \A d \in Launches : procs'[d] \in [Ranks(d) -> ProcStates]
    BY <2>4 DEF CommandsInv, CommandsShape, ProcStates, InGroup
  <2>6. CommandsShape'
    BY <2>1, <2>2, <2>3, <2>4, <2>5, LaunchConstants DEF CommandsInv, CommandsShape, CommandsTypeOK, ProcStates
  <2>7. /\ stage'[c] = "open" /\ wrote[c] = {} /\ ~Settled(c)
        /\ \A d \in Launches \ {c} : stage'[d] = stage[d] /\ Group(d)' = Group(d)
    BY <2>1, <2>4 DEF CommandsInv, NotYet, Settled, Group, CommandsShape
  <2>8. NotYet' /\ ListedAreAll' /\ EndedIsGone' /\ WritesAreSeen'
    BY <2>1, <2>7 DEF CommandsInv, NotYet, ListedAreAll, EndedIsGone, WritesAreSeen
  <2>9. EveryEntryAnswers' /\ MeasuredIsWhole' /\ MeasuredIsSettled' /\ RecordedAreSettled'
    BY <2>1, <2>7 DEF CommandsInv, EveryEntryAnswers, MeasuredIsWhole, MeasuredIsSettled, RecordedAreSettled, Settled
  <2> QED BY <2>6, <2>8, <2>9 DEF CommandsInv
<1>2. CASE LaunchFails(c)
  <2>1. /\ stage[c] = "none" /\ stage' = [stage EXCEPT ![c] = "failed"]
        /\ UNCHANGED <<limit, since, scanned, entry, record, procs, heeds, told, halt, wrote, slipped>>
    BY <1>2 DEF LaunchFails, procVars
  <2>2. CommandsShape'
    BY <2>1 DEF CommandsInv, CommandsShape, CommandsTypeOK
  <2> QED BY <1>a, <2>1, <2>2 DEF Settled, CommandsInv, CommandsShape, MeasuredIsSettled
<1>3. CASE LimitPasses(c)
  <2>1. /\ stage[c] = "open" /\ limit' = [limit EXCEPT ![c] = "passed"] /\ told' = told \cup Stopped({c})
        /\ UNCHANGED <<stage, since, scanned, entry, record, procs, heeds, halt, wrote, slipped>>
    BY <1>3 DEF LimitPasses
  <2>2. CommandsShape'
    BY <2>1 DEF CommandsInv, CommandsShape, CommandsTypeOK, Stopped
  <2> QED BY <1>a, <2>1, <2>2 DEF Settled, CommandsInv, WritesAreSeen, MeasuredIsSettled
<1>4. CASE ProbesGroup(c)
  <2>1. PICK answer \in {"ended", "running"} :
          /\ Group(c) # {} => answer = "running"
          /\ entry' = [entry EXCEPT ![c].group = answer]
    BY <1>4 DEF ProbesGroup
  <2>2. /\ stage[c] = "open" /\ stage' = [stage EXCEPT ![c] = "walking"]
        /\ UNCHANGED <<limit, since, scanned, record, procs, heeds, told, halt, wrote, slipped>>
    BY <1>4 DEF ProbesGroup, Closes, procVars
  <2>3. /\ entry'[c] = [entry[c] EXCEPT !.group = answer] /\ DOMAIN entry' = Launches
        /\ \A d \in Launches \ {c} : entry'[d] = entry[d]
    BY <2>1 DEF CommandsInv, CommandsShape
  <2>4. entry[c] \in [group : {"none", "ended", "running"}, measured : BOOLEAN, changed : SUBSET Paths]
    BY DEF CommandsInv, CommandsShape, CommandsTypeOK
  <2>5. /\ entry'[c] \in [group : {"none", "ended", "running"}, measured : BOOLEAN, changed : SUBSET Paths]
        /\ entry'[c].group = answer /\ entry'[c].measured = entry[c].measured
    BY <2>3, <2>4
  <2>6. CommandsShape'
    BY <2>2, <2>3, <2>5 DEF CommandsInv, CommandsShape, CommandsTypeOK
  <2>7. /\ stage'[c] = "walking" /\ \A d \in Launches \ {c} : stage'[d] = stage[d]
    BY <2>2 DEF CommandsInv, CommandsShape
  <2> QED BY <1>a, <2>1, <2>2, <2>3, <2>5, <2>6, <2>7 DEF Settled, CommandsInv, WritesAreSeen, MeasuredIsSettled
<1>5. CASE ListsGroup(c)
  <2>1. /\ stage[c] = "open" /\ stage' = [stage EXCEPT ![c] = "looking"]
        /\ scanned' = [scanned EXCEPT ![c] = Group(c)]
        /\ UNCHANGED <<limit, since, entry, record, procs, heeds, told, halt, wrote, slipped>>
    BY <1>5 DEF ListsGroup, Closes, procVars
  <2>2. /\ stage'[c] = "looking" /\ scanned'[c] = Group(c)
        /\ \A d \in Launches \ {c} : stage'[d] = stage[d] /\ scanned'[d] = scanned[d]
    BY <2>1 DEF CommandsInv, CommandsShape
  <2>3. Group(c) \subseteq Ranks(c)
    BY DEF Group
  <2>4. CommandsShape'
    BY <2>1, <2>2, <2>3 DEF CommandsInv, CommandsShape, CommandsTypeOK
  <2> QED BY <1>a, <2>1, <2>2, <2>4 DEF Settled, CommandsInv, WritesAreSeen, MeasuredIsSettled
<1>6. CASE ReadsStates(c)
  <2> DEFINE answer == IF scanned[c] \cap Group(c) = {} THEN "ended" ELSE "running"
  <2>1. /\ stage[c] = "looking" /\ stage' = [stage EXCEPT ![c] = "walking"]
        /\ scanned' = [scanned EXCEPT ![c] = {}]
        /\ entry' = [entry EXCEPT ![c].group = answer]
        /\ UNCHANGED <<limit, since, record, procs, heeds, told, halt, wrote, slipped>>
    BY <1>6 DEF ReadsStates, procVars
  <2>2. answer \in {"ended", "running"} /\ (answer = "ended" /\ c \notin slipped => Group(c) = {})
    BY <2>1 DEF CommandsInv, ListedAreAll
  <2> HIDE DEF answer
  <2>3. /\ entry'[c] = [entry[c] EXCEPT !.group = answer] /\ DOMAIN entry' = Launches
        /\ \A d \in Launches \ {c} : entry'[d] = entry[d]
    BY <2>1 DEF CommandsInv, CommandsShape
  <2>4. entry[c] \in [group : {"none", "ended", "running"}, measured : BOOLEAN, changed : SUBSET Paths]
    BY DEF CommandsInv, CommandsShape, CommandsTypeOK
  <2>5. /\ entry'[c] \in [group : {"none", "ended", "running"}, measured : BOOLEAN, changed : SUBSET Paths]
        /\ entry'[c].group = answer /\ entry'[c].measured = entry[c].measured
    BY <2>2, <2>3, <2>4
  <2>6. /\ stage'[c] = "walking" /\ scanned'[c] = {}
        /\ \A d \in Launches \ {c} : stage'[d] = stage[d] /\ scanned'[d] = scanned[d]
    BY <2>1 DEF CommandsInv, CommandsShape
  <2>7. CommandsShape'
    BY <2>1, <2>3, <2>5, <2>6 DEF CommandsInv, CommandsShape, CommandsTypeOK
  <2> QED BY <1>a, <2>1, <2>2, <2>3, <2>5, <2>6, <2>7 DEF Settled, CommandsInv, WritesAreSeen, MeasuredIsSettled
<1>7. CASE Walks(c)
  <2>1. /\ stage[c] = "walking"
        /\ stage' = [stage EXCEPT ![c] = IF limit[c] = "passed" THEN "rejected" ELSE "resolved"]
        /\ limit' = [limit EXCEPT ![c] = "none"] /\ since' = [since EXCEPT ![c] = {}]
        /\ UNCHANGED <<scanned, record, procs, heeds, told, halt, wrote, slipped>>
    BY <1>7 DEF Walks, procVars
  <2>2. entry' = [entry EXCEPT ![c].measured = TRUE, ![c].changed = since[c]] \/ UNCHANGED entry
    BY <1>7 DEF Walks
  <2>3. entry[c] \in [group : {"none", "ended", "running"}, measured : BOOLEAN, changed : SUBSET Paths]
        /\ since[c] \subseteq Paths /\ wrote[c] \subseteq since[c]
        /\ entry[c].group # "none" /\ (c \notin slipped /\ entry[c].group = "ended" => Group(c) = {})
    BY <2>1 DEF CommandsInv, CommandsShape, CommandsTypeOK, WritesAreSeen, EveryEntryAnswers, EndedIsGone
  <2>4. /\ stage'[c] \in {"resolved", "rejected"} /\ since'[c] = {}
        /\ \A d \in Launches \ {c} : stage'[d] = stage[d] /\ since'[d] = since[d]
    BY <2>1 DEF CommandsInv, CommandsShape
  <2>5. CASE entry' = [entry EXCEPT ![c].measured = TRUE, ![c].changed = since[c]]
    <3>1. /\ entry'[c] = [entry[c] EXCEPT !.measured = TRUE, !.changed = since[c]] /\ DOMAIN entry' = Launches
          /\ \A d \in Launches \ {c} : entry'[d] = entry[d]
      BY <2>5 DEF CommandsInv, CommandsShape
    <3>2. /\ entry'[c] \in [group : {"none", "ended", "running"}, measured : BOOLEAN, changed : SUBSET Paths]
          /\ entry'[c].group = entry[c].group /\ entry'[c].changed = since[c]
      BY <2>3, <3>1
    <3>3. /\ DOMAIN stage' = Launches /\ DOMAIN limit' = Launches /\ DOMAIN since' = Launches
          /\ \A d \in Launches : limit'[d] \in {"none", "set", "passed"} /\ since'[d] \subseteq Paths
      BY <2>1, <2>4 DEF CommandsInv, CommandsShape, CommandsTypeOK
    <3>4. CommandsTypeOK'
      <4>1. \A d \in Launches :
              /\ stage'[d] \in {"none", "open", "looking", "walking", "resolved", "rejected", "failed"}
              /\ entry'[d] \in [group : {"none", "ended", "running"}, measured : BOOLEAN, changed : SUBSET Paths]
        <5>1. \A d \in Launches :
                /\ stage[d] \in {"none", "open", "looking", "walking", "resolved", "rejected", "failed"}
                /\ entry[d] \in [group : {"none", "ended", "running"}, measured : BOOLEAN, changed : SUBSET Paths]
          BY DEF CommandsInv, CommandsShape, CommandsTypeOK
        <5>2. \A d \in Launches \ {c} : stage'[d] = stage[d] /\ entry'[d] = entry[d]
          BY <2>4, <3>1
        <5> QED BY <2>4, <3>2, <5>1, <5>2
      <4>2. /\ \A d \in Launches : heeds[d] \in BOOLEAN /\ wrote[d] \subseteq Paths /\ scanned[d] \subseteq Ranks(d)
                 /\ \A i \in Ranks(d) : procs[d][i] \in InGroup \cup {"unborn", "away", "gone"}
            /\ told \subseteq Launches /\ slipped \subseteq Launches /\ halt \in {"no", "signalled", "exited"}
            /\ record \in [made : BOOLEAN, begun : SUBSET Launches, lists : SUBSET Launches]
        BY DEF CommandsInv, CommandsShape, CommandsTypeOK
      <4> QED BY <2>1, <3>3, <4>1, <4>2 DEF CommandsTypeOK
    <3>5. CommandsShape'
      BY <2>1, <3>1, <3>3, <3>4 DEF CommandsInv, CommandsShape
    <3> QED BY <1>a, <2>1, <2>3, <2>4, <3>1, <3>2, <3>5 DEF Settled
  <2>6. CASE UNCHANGED entry
    <3>1. CommandsShape'
      BY <2>1, <2>4, <2>6 DEF CommandsInv, CommandsShape, CommandsTypeOK
    <3>2. ~entry[c].measured
      BY <2>1 DEF CommandsInv, MeasuredIsSettled, Settled
    <3> QED BY <1>a, <2>1, <2>3, <2>4, <2>6, <3>1, <3>2 DEF Settled
  <2> QED BY <2>2, <2>5, <2>6
<1> QED BY <1>1, <1>2, <1>3, <1>4, <1>5, <1>6, <1>7 DEF Advances

\* Each step keeps the invariant.
LEMMA CommandsKeep == CommandsInv /\ [CommandsNext]_commandVars => CommandsInv'
<1> SUFFICES ASSUME CommandsInv, [CommandsNext]_commandVars PROVE CommandsInv'
  OBVIOUS
\* The commands are where they were.
<1>a. ASSUME UNCHANGED <<stage, limit, since, scanned, entry, procs, heeds, wrote, slipped>>, CommandsShape',
             RecordedAreSettled'
      PROVE  CommandsInv'
  <2>1. \A d \in Launches : Group(d)' = Group(d)
    BY <1>a DEF Group
  <2>2. NotYet' /\ ListedAreAll' /\ EndedIsGone' /\ WritesAreSeen'
    BY <1>a, <2>1 DEF CommandsInv, NotYet, ListedAreAll, EndedIsGone, WritesAreSeen
  <2>3. EveryEntryAnswers' /\ MeasuredIsWhole' /\ MeasuredIsSettled'
    BY <1>a DEF CommandsInv, EveryEntryAnswers, MeasuredIsWhole, MeasuredIsSettled, Settled
  <2> QED BY <1>a, <2>2, <2>3 DEF CommandsInv
<1>1. CASE MakesRecord
  <2>1. /\ record' = [made |-> TRUE, begun |-> {c \in Launches : stage[c] # "none"},
                      lists |-> {c \in Launches : Settled(c)}]
        /\ UNCHANGED <<stage, limit, since, scanned, entry, procs, heeds, told, halt, wrote, slipped>>
    BY <1>1 DEF MakesRecord, procVars
  <2>2. CommandsShape'
    BY <2>1 DEF CommandsInv, CommandsShape, CommandsTypeOK
  <2>3. RecordedAreSettled'
    BY <2>1 DEF RecordedAreSettled, Settled
  <2> QED BY <1>a, <2>1, <2>2, <2>3
<1>2. CASE PassesSignal \/ Leaves
  <2>1. /\ UNCHANGED <<stage, limit, since, scanned, entry, record, procs, heeds, wrote, slipped>>
        /\ halt' \in {"signalled", "exited"} /\ told' \subseteq told \cup Launches
    BY <1>2 DEF PassesSignal, Leaves, launchVars, procVars, Stopped
  <2>2. CommandsShape'
    BY <2>1 DEF CommandsInv, CommandsShape, CommandsTypeOK
  <2>3. RecordedAreSettled'
    BY <2>1 DEF CommandsInv, RecordedAreSettled, Settled
  <2> QED BY <1>a, <2>1, <2>2, <2>3
<1>3. CASE UNCHANGED commandVars
  <2>1. UNCHANGED <<stage, limit, since, scanned, entry, record, procs, heeds, told, halt, wrote, slipped>>
    BY <1>3 DEF commandVars, launchVars, procVars
  <2>2. CommandsShape'
    BY <2>1 DEF CommandsInv, CommandsShape, CommandsTypeOK
  <2>3. RecordedAreSettled'
    BY <2>1 DEF CommandsInv, RecordedAreSettled, Settled
  <2> QED BY <1>a, <2>1, <2>2, <2>3
<1> QED BY <1>1, <1>2, <1>3, BesideKeeps, AdvancesKeep DEF CommandsNext

\* The invariant holds of every state of a step's commands.
THEOREM CommandsInvariant == CommandsSpec => []CommandsInv
BY CommandsStart, CommandsKeep, PTL DEF CommandsSpec

\* The state of a step's commands keeps its shape.
THEOREM CommandsTypeCorrect == CommandsSpec => []CommandsTypeOK
<1>1. CommandsInv => CommandsTypeOK
  BY DEF CommandsInv, CommandsShape
<1> QED BY <1>1, CommandsInvariant, PTL

\* Where a step's events are read as bounded no process of it is left, and a
\* list of changed files has every path its listed commands' groups ever wrote:
\* of any commands, processes and paths, whatever ends, closes, writes or is
\* started in whatever order, but for a group that grew while it was looked at.
THEOREM RecordsAreTrue == CommandsSpec => []RecordIsTrue
<1>1. CommandsInv => RecordIsTrue
  <2> SUFFICES ASSUME CommandsInv PROVE RecordIsTrue
    OBVIOUS
  <2>1. EndedIsOver
    <3> SUFFICES ASSUME Bound = "ended", NEW c \in record.begun \ slipped PROVE Group(c) = {}
      BY DEF EndedIsOver
    <3>1. c \in record.lists /\ entry[c].group = "ended"
      BY DEF Bound
    <3>2. c \in Launches \ slipped /\ Settled(c)
      BY <3>1 DEF CommandsInv, RecordedAreSettled
    <3> QED BY <3>1, <3>2 DEF CommandsInv, EndedIsGone, Settled
  <2>2. ListIsWhole
    <3> SUFFICES ASSUME ListMade, NEW c \in record.lists \ slipped PROVE wrote[c] \subseteq ListedPaths
      BY DEF ListIsWhole
    <3>1. c \in Launches \ slipped /\ Settled(c)
      BY DEF CommandsInv, RecordedAreSettled
    <3>2. entry[c].measured /\ entry[c].group # "running" /\ entry[c].group # "none"
      BY <3>1 DEF ListMade, CommandsInv, EveryEntryAnswers, Settled
    <3>3. entry[c].group = "ended"
      <4>1. entry[c] \in [group : {"none", "ended", "running"}, measured : BOOLEAN, changed : SUBSET Paths]
        BY <3>1 DEF CommandsInv, CommandsShape, CommandsTypeOK
      <4> QED BY <3>2, <4>1
    <3>4. wrote[c] \subseteq entry[c].changed
      BY <3>1, <3>2, <3>3 DEF CommandsInv, MeasuredIsWhole
    <3> QED BY <3>4 DEF ListedPaths
  <2> QED BY <2>1, <2>2 DEF RecordIsTrue
<1> QED BY <1>1, CommandsInvariant, PTL
=============================================================================

---------------------------- MODULE StepCommands ----------------------------
(***************************************************************************)
(* The commands one step runs with runCommand (src/context/run-command.ts) *)
(* and what its record says of them (src/context/observed.ts), which is    *)
(* all a later claim on files has (src/run/changed-files.ts).  POSIX only, *)
(* every command in one working directory.                                 *)
(*                                                                         *)
(* A command's process starts others beside itself.  They write files,     *)
(* end, or leave the group while nukadoko looks at the group, walks the    *)
(* directory and reads neither at once.  A write gives a path another      *)
(* identity (nanosecond times): `since` is what two walks differ in.       *)
(***************************************************************************)
EXTENDS Integers, FiniteSets

CONSTANTS
  Launches,    \* the runCommand calls of the step
  MaxProcs,    \* bound: processes of each, the first one included
  Timeouts,    \* whether they may have a timeout: "none", "set"
  Paths        \* the paths under the working directory

ASSUME LaunchConstants ==
  MaxProcs \in [Launches -> Nat \ {0}] /\ Timeouts \subseteq {"none", "set"}

VARIABLES
  stage,     \* where each call is
  procs,     \* its processes: in the group and holding its output pipe or
             \* "silent", "away" from the group and holding it, or gone
  heeds,     \* whether they end at a SIGTERM, starting no other
  told,      \* those of them that were signalled
  limit,     \* options.timeout
  since,     \* the paths written since its first walk
  scanned,   \* the members /proc listed
  entry,     \* its entry, whole once it settled
  record,    \* the step's record: processes begun before it, those it lists
  halt,      \* signals, and nukadoko's exit
  wrote,     \* the paths its group wrote (history: no code reads it)
  slipped    \* groups that grew while their members' states were read (history)

launchVars == <<stage, limit, since, scanned, entry, record>>
procVars == <<procs, heeds, told>>
commandVars == <<launchVars, procVars, halt, wrote, slipped>>

Ranks(c) == 1..MaxProcs[c]
InGroup == {"holds", "silent"}
Group(c) == {i \in Ranks(c) : procs[c][i] \in InGroup}
Holders(c) == {i \in Ranks(c) : procs[c][i] \in {"holds", "away"}}
Settled(c) == stage[c] \in {"resolved", "rejected"}
NoEntry == [group |-> "none", measured |-> FALSE, changed |-> {}]

CommandsInit ==
  /\ stage = [c \in Launches |-> "none"]
  /\ procs = [c \in Launches |-> [i \in Ranks(c) |-> "unborn"]]
  /\ heeds = [c \in Launches |-> FALSE] /\ told = {}
  /\ limit = [c \in Launches |-> "none"]
  /\ since = [c \in Launches |-> {}] /\ scanned = [c \in Launches |-> {}]
  /\ entry = [c \in Launches |-> NoEntry]
  /\ record = [made |-> FALSE, begun |-> {}, lists |-> {}]
  /\ halt = "no"
  /\ wrote = [c \in Launches |-> {}] /\ slipped = {}

-----------------------------------------------------------------------------
(* The processes, which nukadoko does not control.                         *)

\* A signalled process that heeds starts no other and goes nowhere.
MayAct(c, i) == i \in Group(c) /\ c \notin told

\* Whoever does not hold the output pipe has none to hand on.
StartsOther(c) ==
  /\ \E i, j \in Ranks(c), kind \in InGroup :
       /\ MayAct(c, i) /\ (kind = "holds" => procs[c][i] = "holds")
       /\ procs[c][j] = "unborn" /\ \A k \in 1..(j - 1) : procs[c][k] # "unborn"
       /\ procs' = [procs EXCEPT ![c][j] = kind]
  /\ slipped' = IF stage[c] = "looking" THEN slipped \cup {c} ELSE slipped
  /\ UNCHANGED <<launchVars, heeds, told, halt, wrote>>

\* setsid, which the leader of a group cannot call.
LeavesGroup(c, i) ==
  /\ i # 1 /\ MayAct(c, i)
  /\ procs' = [procs EXCEPT ![c][i] = IF @ = "holds" THEN "away" ELSE "gone"]
  /\ UNCHANGED <<launchVars, heeds, told, halt, wrote, slipped>>

ProcessEnds(c, i) ==
  /\ procs[c][i] \in InGroup \cup {"away"}
  /\ procs' = [procs EXCEPT ![c][i] = "gone"]
  /\ UNCHANGED <<launchVars, heeds, told, halt, wrote, slipped>>

\* Every call between its two walks has the write in what they differ in.
WritesFile(c, p) ==
  /\ Group(c) # {}
  /\ wrote' = [wrote EXCEPT ![c] = @ \cup {p}]
  /\ since' = [d \in Launches |->
                 IF stage[d] \in {"open", "looking", "walking"} THEN since[d] \cup {p} ELSE since[d]]
  /\ UNCHANGED <<stage, limit, scanned, entry, record, procVars, halt, slipped>>

-----------------------------------------------------------------------------
(* runCommand.  From its close on it is one turn of nukadoko's loop, with   *)
(* the processes going on beside it.                                        *)

\* The groups a signal stops.
Stopped(cs) == {c \in cs : heeds[c]}

\* nukadoko takes another turn.
Turn == halt # "exited" /\ \A c \in Launches : stage[c] \notin {"looking", "walking"}

Launch(c) ==
  /\ Turn /\ stage[c] = "none"
  /\ stage' = [stage EXCEPT ![c] = "open"]
  /\ procs' = [procs EXCEPT ![c][1] = "holds"]
  /\ heeds' \in {[heeds EXCEPT ![c] = b] : b \in BOOLEAN}
  /\ limit' \in {[limit EXCEPT ![c] = l] : l \in Timeouts}
  /\ UNCHANGED <<since, scanned, entry, record, told, halt, wrote, slipped>>

\* The program could not be started: the call keeps its place, with no entry.
LaunchFails(c) ==
  /\ Turn /\ stage[c] = "none"
  /\ stage' = [stage EXCEPT ![c] = "failed"]
  /\ UNCHANGED <<limit, since, scanned, entry, record, procVars, halt, wrote, slipped>>

\* Mutant: the limit stops the program and not what it started.
LimitStopsFirst(c) ==
  /\ Turn /\ stage[c] = "open" /\ limit[c] = "set"
  /\ limit' = [limit EXCEPT ![c] = "passed"]
  /\ procs' = [procs EXCEPT ![c][1] = IF heeds[c] THEN "gone" ELSE @]
  /\ UNCHANGED <<stage, since, scanned, entry, record, heeds, told, halt, wrote, slipped>>

\* The timer: SIGTERM to the group.
LimitPasses(c) ==
  /\ Turn /\ stage[c] = "open" /\ limit[c] = "set"
  /\ limit' = [limit EXCEPT ![c] = "passed"]
  /\ told' = told \cup Stopped({c})
  /\ UNCHANGED <<stage, since, scanned, entry, record, procs, heeds, halt, wrote, slipped>>

\* The program has exited, its pipes are closed, and the timer is cleared.
Closes(c) ==
  /\ Turn /\ stage[c] = "open"
  /\ procs[c][1] = "gone" /\ Holders(c) = {}
  /\ UNCHANGED <<since, record, procVars, halt, wrote, slipped>>

\* Nobody is left in the group, or this is not Linux: the probe is the answer,
\* and a zombie answers it too.
ProbesGroup(c) ==
  /\ Closes(c)
  /\ stage' = [stage EXCEPT ![c] = "walking"]
  /\ \E answer \in {"ended", "running"} :
       /\ Group(c) # {} => answer = "running"
       /\ entry' = [entry EXCEPT ![c].group = answer]
  /\ UNCHANGED <<limit, scanned>>

\* On Linux the processes are listed.
ListsGroup(c) ==
  /\ Closes(c) /\ Group(c) # {}
  /\ stage' = [stage EXCEPT ![c] = "looking"]
  /\ scanned' = [scanned EXCEPT ![c] = Group(c)]
  /\ UNCHANGED <<limit, entry>>

\* The state of each member listed (groupAlive).
ReadsStates(c) ==
  /\ stage[c] = "looking"
  /\ stage' = [stage EXCEPT ![c] = "walking"]
  /\ scanned' = [scanned EXCEPT ![c] = {}]
  /\ entry' = [entry EXCEPT ![c].group = IF scanned[c] \cap Group(c) = {} THEN "ended" ELSE "running"]
  /\ UNCHANGED <<limit, since, record, procVars, halt, wrote, slipped>>

\* The second walk, if the tree can be walked, and the entry.
Walks(c) ==
  /\ stage[c] = "walking"
  /\ stage' = [stage EXCEPT ![c] = IF limit[c] = "passed" THEN "rejected" ELSE "resolved"]
  /\ limit' = [limit EXCEPT ![c] = "none"]
  /\ \/ entry' = [entry EXCEPT ![c].measured = TRUE, ![c].changed = since[c]]
     \/ UNCHANGED entry
  /\ since' = [since EXCEPT ![c] = {}]
  /\ UNCHANGED <<scanned, record, procVars, halt, wrote, slipped>>

-----------------------------------------------------------------------------
(* The step and the process that runs it.                                   *)

\* The step's body is over, its calls or not: snapshot and close.
MakesRecord ==
  /\ Turn /\ ~record.made
  /\ record' = [made |-> TRUE, begun |-> {c \in Launches : stage[c] # "none"},
                lists |-> {c \in Launches : Settled(c)}]
  /\ UNCHANGED <<stage, limit, since, scanned, entry, procVars, halt, wrote, slipped>>

\* A signal goes to every group whose leader has not closed; a second one
\* exits at once.
PassesSignal ==
  /\ Turn
  /\ told' = told \cup Stopped({c \in Launches : stage[c] = "open"})
  /\ halt' = IF halt = "no" THEN "signalled" ELSE "exited"
  /\ UNCHANGED <<launchVars, procs, heeds, wrote, slipped>>

\* The cleanup of a signal is over, or the run.
Leaves ==
  /\ Turn /\ (halt = "signalled" \/ record.made)
  /\ halt' = "exited"
  /\ UNCHANGED <<launchVars, procVars, wrote, slipped>>

Beside(c) ==
  StartsOther(c) \/ \E i \in Ranks(c) : LeavesGroup(c, i) \/ ProcessEnds(c, i)
    \/ \E p \in Paths : WritesFile(c, p)
Advances(c) ==
  \/ Launch(c) \/ LaunchFails(c) \/ LimitPasses(c)
  \/ ProbesGroup(c) \/ ListsGroup(c) \/ ReadsStates(c) \/ Walks(c)

CommandsNext ==
  \/ \E c \in Launches : Beside(c) \/ Advances(c)
  \/ MakesRecord \/ PassesSignal \/ Leaves

CommandsSpec == CommandsInit /\ [][CommandsNext]_commandVars

\* nukadoko takes every event, timers fire, and a process that heeds ends
\* once signalled; anything else may take as long as it likes.
CommandsFair ==
  \A c \in Launches :
    /\ WF_commandVars(LimitPasses(c)) /\ WF_commandVars(ProbesGroup(c) \/ ListsGroup(c))
    /\ WF_commandVars(ReadsStates(c)) /\ WF_commandVars(Walks(c))
    /\ WF_commandVars(c \in told /\ \E i \in Group(c) : ProcessEnds(c, i))

-----------------------------------------------------------------------------
(* What the record says, and to whom.                                       *)

\* Mutant: a process without an entry leaves nothing open.
BoundOfListed ==
  IF record.begun = {} THEN "none"
  ELSE IF \A c \in record.lists : entry[c].group = "ended" THEN "ended" ELSE "unbounded"

\* processesOf: what the step's processes leave open of its events.
Bound ==
  IF record.begun = {} THEN "none"
  ELSE IF record.begun = record.lists /\ \A c \in record.lists : entry[c].group = "ended"
    THEN "ended" ELSE "unbounded"

\* filesSide: a list is made where every process listed was measured whole.
ListMade ==
  /\ record.lists # {}
  /\ \A c \in record.lists : entry[c].measured /\ entry[c].group # "running"
ListedPaths == UNION {entry[c].changed : c \in record.lists}

CommandsTypeOK ==
  /\ \A c \in Launches :
       /\ stage[c] \in {"none", "open", "looking", "walking", "resolved", "rejected", "failed"}
       /\ \A i \in Ranks(c) : procs[c][i] \in InGroup \cup {"unborn", "away", "gone"}
       /\ heeds[c] \in BOOLEAN /\ limit[c] \in {"none", "set", "passed"}
       /\ since[c] \subseteq Paths /\ wrote[c] \subseteq Paths /\ scanned[c] \subseteq Ranks(c)
       /\ entry[c] \in [group : {"none", "ended", "running"}, measured : BOOLEAN, changed : SUBSET Paths]
  /\ told \subseteq Launches /\ slipped \subseteq Launches
  /\ record \in [made : BOOLEAN, begun : SUBSET Launches, lists : SUBSET Launches]
  /\ halt \in {"no", "signalled", "exited"}

\* "nothing it started can send the world another request, and the entry
\* says so (`group`)" (run-command.ts): where the events of the step are
\* read as bounded, no process of it is left, whatever ended, closed or was
\* started in whatever order.  A group that grows while its members' states
\* are read is not held to it (see EndedIsSure).
EndedIsOver ==
  record.made /\ Bound = "ended" =>
    \A c \in record.begun \ slipped : Group(c) = {}

\* "an absence a claim reads is one nukadoko saw" (changed-files.ts): a list
\* has, for good, every path that a group of a listed command ever wrote.
ListIsWhole ==
  ListMade => \A c \in record.lists \ slipped : wrote[c] \subseteq ListedPaths

\* What the record says of its processes is so from then on.
RecordIsTrue == EndedIsOver /\ ListIsWhole

\* "`timeout` stopped it": a command past its limit, or signalled, whose
\* processes end at SIGTERM gives its step an answer, unless a process of
\* it that left its group keeps its output open.
CommandsSettle ==
  \A c \in Launches :
    stage[c] = "open" /\ heeds[c] /\ (limit[c] # "none" \/ c \in told)
      ~> Settled(c) \/ halt = "exited" \/ Holders(c) \ Group(c) # {}

\* An entry that says "ended" is right, also of a group that grew meanwhile.
EndedIsSure ==
  \A c \in Launches : Settled(c) /\ entry[c].group = "ended" => Group(c) = {}

\* A list is made only where every process of the step was measured.
ListSeesEveryCommand ==
  ListMade => \A c \in record.begun \ slipped : wrote[c] \subseteq ListedPaths

\* A command past its limit answers, whatever its processes do.
LimitEndsCommand ==
  \A c \in Launches : limit[c] = "passed" ~> Settled(c) \/ halt = "exited"

\* nukadoko leaves no process behind that ends at SIGTERM.
SignalReachesAll ==
  halt = "signalled" ~> \A c \in Launches : heeds[c] => Group(c) = {}
=============================================================================

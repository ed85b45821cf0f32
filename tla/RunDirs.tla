------------------------------- MODULE RunDirs -------------------------------
(***************************************************************************)
(* The run directories of one project, and the commands that remove them   *)
(* beside each other: each `nuka run` at its end (src/record/retention.ts, *)
(* called by src/cli/run.ts) and `nuka clean` (src/cli/clean.ts).  Runs    *)
(* are numbered as they start.  A walk is the run of `--step`: walk.json   *)
(* says "starting", then names its directory until it ended.               *)
(***************************************************************************)
EXTENDS Naturals, FiniteSets

CONSTANTS
  MaxRuns,  \* bound: runs of the project
  Keep,     \* retention.runs
  MaxKills, \* bound: runs killed
  MaxSilent, \* bound: directories that fall silent
  MaxCleans \* bound: `nuka clean` commands

Runs == 1..MaxRuns

VARIABLES
  walks,    \* the runs that are walks
  phase,    \* where each run is
  dir,      \* its directory: "none", "open", "ended" (it holds run.json)
  silent,   \* directories in which no entry was made for retention.adHocDays
  old,      \* the directories older than its cutoff that it did not rank
  plan,     \* the directories each run's retention is about to remove
  cleaner,  \* where `nuka clean` is: "idle", "looked", "removing"
  sweep,    \* the directories it is about to remove
  live,     \* the walk it saw: a run, 0 for none
  named,    \* that walk's walk.json named its directory
  cleans,   \* `nuka clean` commands so far (history)
  counted,  \* the runs that came to their own retention (history)
  silences  \* <<run, what its directory was>> as it fell silent (history)

runVars == <<walks, phase, old, plan>>
cleanVars == <<cleaner, sweep, live, named, cleans>>
dirsVars == <<walks, phase, dir, silent, old, plan, cleaner, sweep, live, named,
              cleans, counted, silences>>

DirsInit ==
  /\ walks \in {{}} \cup {{r} : r \in Runs}
  /\ phase = [r \in Runs |-> "before"]
  /\ dir = [r \in Runs |-> "none"] /\ silent = {}
  /\ old = [r \in Runs |-> {}] /\ plan = [r \in Runs |-> {}]
  /\ cleaner = "idle" /\ sweep = {} /\ live = 0 /\ named = FALSE /\ cleans = 0
  /\ counted = {} /\ silences = {}

Over == {"over", "killed"}
LiveWalks == {r \in walks : phase[r] \notin {"before"} \cup Over}

Moves(r, from, to) == phase[r] = from /\ phase' = [phase EXCEPT ![r] = to]

-----------------------------------------------------------------------------
(* A run, up to its end.                                                   *)

Start(r) ==
  /\ \A s \in Runs : s < r => phase[s] # "before"
  /\ Moves(r, "before", IF r \in walks THEN "starting" ELSE "running")
  /\ UNCHANGED <<walks, old, plan, dir, silent, cleanVars, counted, silences>>

\* A walk has written walk.json before it has a directory.
MakeDir(r) ==
  /\ Moves(r, "starting", "made")
  /\ dir' = [dir EXCEPT ![r] = "open"]
  /\ UNCHANGED <<walks, old, plan, silent, cleanVars, counted, silences>>

\* walk.begin: walk.json names the directory.
Begin(r) ==
  /\ Moves(r, "made", "running")
  /\ UNCHANGED <<walks, old, plan, dir, silent, cleanVars, counted, silences>>

\* What it writes makes its directory, again if it was removed.
WriteStep(r) ==
  /\ phase[r] = "running" /\ dir[r] = "none"
  /\ dir' = [dir EXCEPT ![r] = "open"]
  /\ old' = [s \in Runs |-> old[s] \ {r}]
  /\ UNCHANGED <<walks, phase, plan, silent, cleanVars, counted, silences>>

Kill(r) ==
  /\ phase[r] \notin {"before"} \cup Over
  /\ Cardinality({s \in Runs : phase[s] = "killed"}) < MaxKills
  /\ phase' = [phase EXCEPT ![r] = "killed"]
  /\ old' = [old EXCEPT ![r] = {}]
  /\ plan' = [plan EXCEPT ![r] = {}]
  /\ UNCHANGED <<walks, dir, silent, cleanVars, counted, silences>>

\* Steps are written one level down: the directory's own mtime does not move.
GoSilent(r) ==
  /\ dir[r] # "none" /\ r \notin silent /\ Cardinality(silences) < MaxSilent
  /\ silent' = silent \cup {r} /\ silences' = silences \cup {<<r, dir[r]>>}
  /\ UNCHANGED <<runVars, dir, cleanVars, counted>>

-----------------------------------------------------------------------------
(* Its end: the run rule, the age rule, run.json, and walk.json last.      *)

EndedDirs == {s \in Runs : dir[s] = "ended"}

\* The runs that are not among the newest Keep.
Dropped(candidates) == {s \in candidates : Cardinality({t \in candidates : t > s}) >= Keep}

Ranked(r) == EndedDirs \cup {r}

\* Mutant: the age rule dates every directory.
DatedAll(r) == silent

\* The age rule dates by its mtime a directory the run rule did not rank.
Dated(r) == silent \ Ranked(r)

RankRuns(r) ==
  /\ Moves(r, "running", "ranking")
  /\ plan' = [plan EXCEPT ![r] = Dropped(Ranked(r)) \ {r}]
  /\ old' = [old EXCEPT ![r] = Dated(r)]
  /\ counted' = counted \cup {r}
  /\ UNCHANGED <<walks, dir, silent, cleanVars, silences>>

Remove(s) ==
  /\ dir' = [dir EXCEPT ![s] = "none"]
  /\ silent' = silent \ {s}
  /\ UNCHANGED <<counted, silences>>

RemovePlanned(r) ==
  /\ phase[r] \in {"ranking", "aging"}
  /\ \E s \in plan[r] :
       /\ \A t \in plan[r] : t <= s
       /\ Remove(s)
       /\ plan' = [plan EXCEPT ![r] = @ \ {s}]
  /\ UNCHANGED <<walks, phase, old, cleanVars>>

AgeDirs(r) ==
  /\ Moves(r, "ranking", "aging")
  /\ plan[r] = {}
  /\ plan' = [plan EXCEPT ![r] = {s \in old[r] : dir[s] # "none"}]
  /\ old' = [old EXCEPT ![r] = {}]
  /\ UNCHANGED <<walks, dir, silent, cleanVars, counted, silences>>

\* Its directory is made again if it was removed.
WriteRunJson(r) ==
  /\ Moves(r, "aging", IF r \in walks THEN "written" ELSE "over")
  /\ plan[r] = {}
  /\ dir' = [dir EXCEPT ![r] = "ended"]
  /\ silent' = silent \ {r}
  /\ old' = [s \in Runs |-> old[s] \ {r}]
  /\ UNCHANGED <<walks, plan, cleanVars, counted, silences>>

End(r) ==
  /\ Moves(r, "written", "over")
  /\ UNCHANGED <<walks, old, plan, dir, silent, cleanVars, counted, silences>>

-----------------------------------------------------------------------------
(* nuka clean.                                                             *)

Look ==
  /\ cleaner = "idle" /\ cleans < MaxCleans
  /\ cleaner' = "looked" /\ cleans' = cleans + 1
  /\ live' = IF LiveWalks = {} THEN 0 ELSE CHOOSE r \in LiveWalks : TRUE
  /\ named' = \E r \in LiveWalks : phase[r] \notin {"starting", "made"}
  /\ UNCHANGED <<runVars, dir, silent, sweep, counted, silences>>

\* Mutant: a walk that has not named its directory is not looked for.
SparesNamed(s) == live # 0 /\ named /\ s = live

\* While the walk starts, its directory may be any that has no run.json.
Spares(s) == live # 0 /\ IF named THEN s = live ELSE dir[s] # "ended"

List ==
  /\ cleaner = "looked"
  /\ cleaner' = "removing"
  /\ sweep' = {s \in Runs : dir[s] # "none" /\ ~Spares(s)}
  /\ named' = FALSE
  /\ UNCHANGED <<runVars, dir, silent, live, cleans, counted, silences>>

Sweep ==
  /\ cleaner = "removing"
  /\ \E s \in sweep : (\A t \in sweep : s <= t) /\ Remove(s) /\ sweep' = sweep \ {s}
  /\ UNCHANGED <<runVars, cleaner, live, named, cleans>>

Cleaned ==
  /\ cleaner = "removing" /\ sweep = {}
  /\ cleaner' = "idle" /\ live' = 0
  /\ UNCHANGED <<runVars, dir, silent, sweep, named, cleans, counted, silences>>

RunStep(r) ==
  \/ Start(r) \/ MakeDir(r) \/ Begin(r) \/ WriteStep(r) \/ RankRuns(r) \/ RemovePlanned(r)
  \/ AgeDirs(r) \/ WriteRunJson(r) \/ End(r) \/ Kill(r) \/ GoSilent(r)

DirsNext == (\E r \in Runs : RunStep(r)) \/ Look \/ List \/ Sweep \/ Cleaned

DirsSpec == DirsInit /\ [][DirsNext]_dirsVars

-----------------------------------------------------------------------------
(* Properties.                                                             *)

Loses(s) == dir[s] # "none" /\ dir'[s] = "none"
Removes(r, s) == s \in plan[r] \ plan'[r]
EnoughNewer(s) == Cardinality({t \in counted : t > s}) >= Keep

\* A run directory is lost for a reason that holds whatever else was running.
\* The run rule takes one only when Keep newer runs came to their own end; the
\* age rule only one that fell silent before it had a run.json, never that of
\* a run that ended in time while the rules were applied; and `nuka clean`
\* never that of a walk it saw live, while that walk lives and has no run.json.
LossIsDue ==
  \A s \in Runs : Loses(s) =>
    /\ \A r \in Runs : Removes(r, s) =>
         IF phase[r] = "ranking" THEN EnoughNewer(s)
         ELSE <<s, "open">> \in silences
    /\ s \in sweep \ sweep' => ~(s = live /\ s \in LiveWalks /\ dir[s] = "open")

LossesAreDue == [][LossIsDue]_dirsVars

=============================================================================

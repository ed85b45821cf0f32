------------------------------ MODULE Verdict -------------------------------
(***************************************************************************)
(* How one criterion comes to its verdict (src/run/verdict-table.ts), with *)
(* the run that feeds it (src/cli/run.ts): its cells in head's             *)
(* environments with their proof runs, the second look at each world's     *)
(* stop, the plan of the base and the old world under `--base`, their      *)
(* cells, and the row of the table.                                        *)
(*                                                                         *)
(* An execution is a pass, a claim broken in Then position (which one), or *)
(* "broke": anything else that stopped it, a walk's stop included.         *)
(***************************************************************************)
EXTENDS Integers, Sequences, FiniteSets

CONSTANTS
  N,          \* environments of the run
  Repeat,     \* --repeat
  ProofRuns,  \* --proof-runs
  Claims      \* the claims a Then can break

ASSUME VerdictConstants == N \in Nat \ {0} /\ Repeat \in Nat \ {0} /\ ProofRuns \in Nat \ {0}

VARIABLES
  row,      \* what is known of the criterion before it runs
  at,       \* where the run is: a world, or "plan", "judge", "judged"
  env,      \* the environment it is at
  runs,     \* the executions of each cell, in order
  lost,     \* the cells, with their world, whose proof rounds ended early
  planned,  \* the cells the run gave the base and the old world
  row_cells, verdict

vars == <<row, at, env, runs, lost, planned, row_cells, verdict>>

Envs == 1..N
Worlds == {"head", "base", "old"}
Roles == {"required", "control"}
Pass == [kind |-> "pass"]
Broke == [kind |-> "broke"]
Fail(claim) == [kind |-> "fail", claim |-> claim]

-----------------------------------------------------------------------------
(* Cells.                                                                  *)

Agree(outcomes) == \A i \in DOMAIN outcomes : outcomes[i] = outcomes[1]

FoldCell(outcomes) ==
  IF outcomes = << >> THEN "not-run"
  ELSE IF Agree(outcomes) THEN outcomes[1].kind ELSE "flaky"

\* A control whose proof could not finish is broke.
FoldHeadCell(outcomes, role, proofProblem) ==
  IF role = "control" /\ proofProblem THEN "broke" ELSE FoldCell(outcomes)

\* Where the behaviour is absent, a failing Then is proof.
AbsentHere(role, world) == world = "base" \/ (world = "head" /\ role = "control")

\* Mutant: one run too few.
NeedsOneLess(role, outcomes, world) ==
  /\ AbsentHere(role, world) /\ outcomes # << >> /\ outcomes[1].kind = "fail"
  /\ Len(outcomes) < ProofRuns - 1 /\ Agree(outcomes)
NeedsProofRun(role, outcomes, world) ==
  /\ AbsentHere(role, world) /\ outcomes # << >> /\ outcomes[1].kind = "fail"
  /\ Len(outcomes) < ProofRuns /\ Agree(outcomes)

Proves(cell) ==
  AbsentHere(cell.role, cell.world) /\ cell.outcome = "fail" /\ cell.runs >= ProofRuns

-----------------------------------------------------------------------------
(* Rows.  A context holds how the criterion compares with the base         *)
(* (change), whether it is tagged @held, whether the mapping, its tags or  *)
(* its name changed (underneath), and what its Then judges, as its passing *)
(* executions say (then): "claims", "judgment", or "nothing" (compat too). *)

Required(cells) == {c \in cells : c.role = "required"}
Controls(cells) == {c \in cells : c.role = "control"}
EnvsOf(cells) == {c.env : c \in cells}
NotPassed(cells) == \E c \in cells : c.outcome # "pass"

NoCells == [base |-> {}, old |-> {}]
\* Mutant: a control that did not pass is taken for one that proves.
PlanOnAnyControl(head, context, oldRequired) ==
  IF ~context.base \/ Required(head) = {} \/ NotPassed(Required(head)) THEN NoCells
  ELSE IF context.change = "unchanged"
  THEN [base |-> {}, old |-> IF context.underneath THEN oldRequired ELSE {}]
  ELSE IF ~context.held /\ (NotPassed(Controls(head)) \/ context.then = "judgment") THEN NoCells
  ELSE [base |-> EnvsOf(Required(head)), old |-> {}]
PlannedWorldCells(head, context, oldRequired) ==
  IF ~context.base \/ Required(head) = {} \/ NotPassed(Required(head)) THEN NoCells
  ELSE IF context.change = "unchanged"
  THEN [base |-> {}, old |-> IF context.underneath THEN oldRequired ELSE {}]
  ELSE IF ~context.held /\ ((\E c \in head : Proves(c)) \/ context.then = "judgment") THEN NoCells
  ELSE [base |-> EnvsOf(Required(head)), old |-> {}]

\* Mutant: one environment of the base is enough.
JudgeChangedBySome(base, proven, context) ==
  IF proven \/ \E c \in base : Proves(c) THEN "proven"
  ELSE IF context.held THEN IF \E c \in base : c.outcome = "pass" THEN "held" ELSE "unproven"
  ELSE IF context.then = "judgment" THEN "held" ELSE "unproven"
\* A new or changed row: the base says whether its Then tells the change apart.
JudgeChanged(base, proven, context) ==
  IF proven \/ \E c \in base : Proves(c) THEN "proven"
  ELSE IF context.held THEN IF base # {} /\ ~NotPassed(base) THEN "held" ELSE "unproven"
  ELSE IF context.then = "judgment" THEN "held" ELSE "unproven"

\* Mutant: a control counts as the other cells do.
JudgeEveryCell(cells, context) ==
  LET head == {c \in cells : c.world = "head"} IN
  IF Required(head) = {} \/ NotPassed(head) THEN "failed"
  ELSE IF context.base /\ context.change # "unchanged"
  THEN JudgeChanged({c \in cells : c.world = "base"}, FALSE, context)
  ELSE "held"
JudgeRow(cells, context) ==
  LET head == {c \in cells : c.world = "head"}
      old  == {c \in cells : c.world = "old"}
      proven == \E c \in Controls(head) : Proves(c)
  IN IF Required(head) = {} \/ NotPassed(Required(head)) THEN "failed"
     ELSE IF context.base /\ context.change # "unchanged"
     THEN JudgeChanged({c \in cells : c.world = "base"}, proven, context)
     ELSE IF context.base /\ context.underneath /\ (old = {} \/ NotPassed(old)) THEN "moved"
     ELSE IF proven THEN "proven" ELSE "held"

RedVerdicts == {"failed", "unproven", "moved"}

-----------------------------------------------------------------------------
(* The run.                                                                *)

\* An outcome a Then of this row can come to: only a claim breaks.
Outcomes == {Pass, Broke} \cup IF row.then = "claims" THEN {Fail(c) : c \in Claims} ELSE {}
RoleIn(world, e) == IF world = "old" THEN "required" ELSE row.role[e]
ToRun(world, e) == IF world = "head" THEN TRUE ELSE e \in planned[world]

CellOf(world, e) ==
  [world |-> world, env |-> e, role |-> RoleIn(world, e), runs |-> Len(runs[world][e]),
   outcome |-> IF world = "head" THEN FoldHeadCell(runs[world][e], row.role[e], <<world, e>> \in lost)
               ELSE FoldCell(runs[world][e])]
HeadCells == {CellOf("head", e) : e \in Envs}
\* Whether a required execution passed over a Then that judges no claim.
Seen == \E e \in Envs : row.role[e] = "required" /\ \E i \in DOMAIN runs.head[e] : runs.head[e][i] = Pass
Context(then) ==
  [base |-> row.base, change |-> row.change, held |-> row.held,
   underneath |-> row.underneath, then |-> then]
\* What the table reads of the row once its executions are there.
TableContext == Context(IF Seen THEN row.then ELSE "claims")

Row == [base : BOOLEAN, change : {"new", "unchanged"}, held : BOOLEAN,
        underneath : BOOLEAN, then : {"claims", "judgment", "nothing"},
        role : [Envs -> Roles], oldRequired : SUBSET Envs]
Init ==
  /\ row \in Row
  \* Without --base nothing is compared.
  /\ ~row.base => row.change = "new" /\ ~row.held /\ ~row.underneath /\ row.oldRequired = {}
  /\ at = "head" /\ env = 1
  /\ runs = [w \in Worlds |-> [e \in Envs |-> << >>]]
  /\ lost = {} /\ planned = NoCells /\ row_cells = {} /\ verdict = "none"

Enough == IF at = "head" THEN Repeat ELSE 1

\* A proof run of this cell was lost: no more are started.
Lost == <<at, env>> \in lost
\* One execution of the cell: its own, or a proof run.
Execute ==
  /\ at \in Worlds /\ ToRun(at, env)
  /\ \/ Len(runs[at][env]) < Enough
     \/ ~Lost /\ NeedsProofRun(RoleIn(at, env), runs[at][env], at)
  /\ \E o \in Outcomes : runs' = [runs EXCEPT ![at][env] = Append(@, o)]
  /\ UNCHANGED <<row, at, env, lost, planned, row_cells, verdict>>

\* Where workers run the pass (a tree, or head under --concurrency), a round
\* that misses a record ends the rounds, with or without this cell's: on
\* head that is a problem every cell of the round carries, in a tree nothing.
ProofLost ==
  /\ at \in Worlds /\ ToRun(at, env) /\ ~Lost /\ Len(runs[at][env]) >= Enough
  /\ NeedsProofRun(RoleIn(at, env), runs[at][env], at)
  /\ lost' = lost \cup {<<at, env>>}
  /\ \/ UNCHANGED runs
     \/ \E o \in Outcomes : runs' = [runs EXCEPT ![at][env] = Append(@, o)]
  /\ UNCHANGED <<row, at, env, planned, row_cells, verdict>>

After == [head |-> "plan", base |-> "old", old |-> "judge"]

\* The pass of a world in an environment ends: its runs are done, or did not
\* start (world, BeforeAll, tree).  Its stop may count a late event, or hand
\* over an error, that makes any execution of the pass broke after all.
WorldStops ==
  /\ at \in Worlds
  /\ ToRun(at, env) =>
       \/ runs[at][env] = << >>
       \/ /\ Len(runs[at][env]) >= Enough
          /\ Lost \/ ~NeedsProofRun(RoleIn(at, env), runs[at][env], at)
  /\ \E late \in SUBSET DOMAIN runs[at][env] :
       runs' = [runs EXCEPT ![at][env] =
                  [i \in DOMAIN @ |-> IF i \in late THEN Broke ELSE @[i]]]
  /\ IF env < N THEN env' = env + 1 /\ UNCHANGED at
     ELSE env' = 1 /\ at' = After[at]
  /\ UNCHANGED <<row, lost, planned, row_cells, verdict>>

\* Before the other worlds: what head's Thens judge is not looked at.
Plan ==
  /\ at = "plan" /\ at' = "base"
  /\ planned' = PlannedWorldCells(HeadCells, Context("claims"), row.oldRequired)
  /\ UNCHANGED <<row, env, runs, lost, row_cells, verdict>>

TablePlan == PlannedWorldCells(HeadCells, TableContext, row.oldRequired)
Judge ==
  /\ at = "judge" /\ at' = "judged"
  /\ row_cells' = HeadCells \cup {CellOf("base", e) : e \in TablePlan.base}
                       \cup {CellOf("old", e) : e \in TablePlan.old}
  /\ verdict' = JudgeRow(row_cells', TableContext)
  /\ UNCHANGED <<row, env, runs, lost, planned>>

Next == Execute \/ ProofLost \/ WorldStops \/ Plan \/ Judge
Spec == Init /\ [][Next]_vars

-----------------------------------------------------------------------------

Cell == [world : Worlds, env : Envs, role : Roles, runs : Nat,
         outcome : {"not-run", "pass", "fail", "broke", "flaky"}]
TypeOK ==
  /\ row \in Row
  /\ runs \in [Worlds -> [Envs -> Seq({Pass, Broke} \cup {Fail(c) : c \in Claims})]]
  /\ at \in Worlds \cup {"plan", "judge", "judged"} /\ env \in Envs
  /\ lost \subseteq Worlds \X Envs /\ planned \in [base : SUBSET Envs, old : SUBSET Envs]
  /\ row_cells \subseteq Cell
  /\ verdict \in {"none", "held", "proven"} \cup RedVerdicts

\* What a control came to never makes a row red: a red row would be red had
\* no control run (docs/spec.md:7147, judgeRow's comment).
WithoutControls(cells) == {c \in cells : c.role # "control"}
ControlNeverReds ==
  at = "judged" /\ verdict \in RedVerdicts =>
    JudgeRow(WithoutControls(row_cells), TableContext) \in RedVerdicts

\* The base is left out of a row only when nothing it could come to would
\* change the verdict (verdict-table.ts:36-40).  A Then that judges no claim
\* cannot fail.
BaseOutcomes == {"not-run", "pass", "broke", "flaky"} \cup IF row.then = "claims" THEN {"fail"} ELSE {}
BaseCell(e, outcome) ==
  [world |-> "base", env |-> e, role |-> "required", outcome |-> outcome, runs |-> ProofRuns]
SkippedBaseIsMoot ==
  at = "judged" /\ row.base /\ (\A c \in row_cells : c.world # "base") =>
    \A outcome \in [{e \in Envs : row.role[e] = "required"} -> BaseOutcomes] :
      JudgeRow(row_cells \cup {BaseCell(e, outcome[e]) : e \in DOMAIN outcome}, TableContext) = verdict

\* Each base or old cell the table reads is one the run gave its world: the
\* second plan asks for nothing the first one left out (foldHeadCell's comment).
TableReadsWhatRan ==
  at = "judged" => \A c \in row_cells : c.world # "head" => c.env \in planned[c.world]

\* The plan of the other worlds and the table agree: what the table reads was
\* run, and what was not run could not have mattered.
TableIsSound == SkippedBaseIsMoot /\ TableReadsWhatRan

\* "proven" rests on a cell where the behaviour is absent and whose every run
\* broke one and the same claim, ProofRuns times (verdict-table.ts:25-34).
ProofIsRepeated ==
  verdict = "proven" =>
    \E c \in row_cells :
      /\ AbsentHere(c.role, c.world) /\ Len(runs[c.world][c.env]) >= ProofRuns
      /\ c.world = "head" => <<"head", c.env>> \notin lost
      /\ \E claim \in Claims : \A i \in DOMAIN runs[c.world][c.env] : runs[c.world][c.env][i] = Fail(claim)

\* Proof runs stop only when the question is settled, or a tree lost one: a
\* cell that still says "fail" where the behaviour is absent is proof, and on
\* head there is no exception (needsProofRun, proves, foldHeadCell).
ProofRunsSettle ==
  at = "judged" => \A c \in row_cells :
    /\ AbsentHere(c.role, c.world) /\ c.outcome = "fail"
    /\ c.world = "head" \/ <<c.world, c.env>> \notin lost
    => Proves(c)

\* What counts as proof was repeated often enough, on one claim, and no row
\* is judged while a cell could still become proof.
ProofIsSound == ProofIsRepeated /\ ProofRunsSettle

\* A green row passed in every environment that meets its conditions, and a
\* changed one that nothing proves rests on the base having passed it, or on
\* a judgment (docs/spec.md "Verdicts": held).
GreenIsEarned ==
  at = "judged" /\ verdict \notin RedVerdicts =>
    /\ \E e \in Envs : row.role[e] = "required"
    /\ \A e \in Envs : row.role[e] = "required" =>
         runs.head[e] # << >> /\ \A i \in DOMAIN runs.head[e] : runs.head[e][i] = Pass
    /\ row.base /\ row.change = "new" /\ verdict = "held" =>
         \/ row.then = "judgment" /\ ~row.held
         \/ row.held /\ \A e \in Envs : row.role[e] = "required" =>
                          runs.base[e] # << >> /\ \A i \in DOMAIN runs.base[e] : runs.base[e][i] = Pass
    /\ row.base /\ row.change = "unchanged" /\ row.underneath =>
         /\ row.oldRequired # {}
         /\ \A e \in row.oldRequired : runs.old[e] # << >> /\ \A i \in DOMAIN runs.old[e] : runs.old[e][i] = Pass
=============================================================================

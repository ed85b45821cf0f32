--------------------------- MODULE Verdict_proofs ---------------------------
(***************************************************************************)
(* What a verdict promises, proved for any number of environments,         *)
(* repetitions, proof runs and claims.                                     *)
(***************************************************************************)
EXTENDS Verdict, SequenceTheorems, TLAPS

Outcome == {Pass, Broke} \cup {Fail(c) : c \in Claims}
Kinds == {"not-run", "pass", "fail", "broke", "flaky"}

-----------------------------------------------------------------------------
(* Cells.                                                                  *)

\* What a cell comes to is one of the five outcomes.
LEMMA FoldKinds == ASSUME NEW s \in Seq(Outcome) PROVE FoldCell(s) \in Kinds
<1>1. s # << >> => s[1] \in Outcome
      BY EmptySeq, ElementOfSeq, LenProperties
<1> QED
    BY <1>1 DEF FoldCell, Kinds, Outcome, Pass, Broke, Fail

\* A cell says "pass" or "fail" of executions that all came to one outcome.
LEMMA FoldAgrees ==
  ASSUME NEW s \in Seq(Outcome), NEW k \in {"pass", "fail"}, FoldCell(s) = k
  PROVE  /\ s # << >> /\ s[1] \in Outcome /\ s[1].kind = k
         /\ \A i \in DOMAIN s : s[i] = s[1]
<1>1. s # << >>
      BY DEF FoldCell
<1>2. s[1] \in Outcome
      BY <1>1, EmptySeq, ElementOfSeq, LenProperties
<1> QED
    BY <1>1, <1>2 DEF FoldCell, Agree

\* There is one way to pass.
LEMMA PassIsPass == ASSUME NEW o \in Outcome, o.kind = "pass" PROVE o = Pass
BY DEF Outcome, Pass, Broke, Fail

\* A failing execution names the claim it broke.
LEMMA FailIsAClaim == ASSUME NEW o \in Outcome, o.kind = "fail" PROVE \E c \in Claims : o = Fail(c)
BY DEF Outcome, Pass, Broke, Fail

\* A cell made from the executions is well typed.
LEMMA CellTyped ==
  ASSUME TypeOK, NEW w \in Worlds, NEW e \in Envs
  PROVE  CellOf(w, e) \in Cell
<1>1. runs[w][e] \in Seq(Outcome)
      BY DEF TypeOK, Outcome
<1>2. FoldCell(runs[w][e]) \in Kinds /\ Len(runs[w][e]) \in Nat
      BY <1>1, FoldKinds, LenProperties
<1>3. RoleIn(w, e) \in Roles
      BY DEF RoleIn, Roles, TypeOK, Row
<1>4. CASE w = "head"
  <2>1. FoldHeadCell(runs[w][e], row.role[e], <<w, e>> \in lost) \in Kinds
        BY <1>2 DEF FoldHeadCell, Kinds
  <2> QED
      BY <1>2, <1>3, <1>4, <2>1 DEF CellOf, Cell, Kinds
<1>5. CASE w # "head"
      BY <1>2, <1>3, <1>5 DEF CellOf, Cell, Kinds
<1> QED
    BY <1>4, <1>5

\* So are the cells of head.
LEMMA HeadTyped == ASSUME TypeOK PROVE HeadCells \subseteq Cell
BY CellTyped DEF HeadCells, Worlds

\* A plan names environments of the run.
LEMMA PlanTyped ==
  ASSUME NEW head \in SUBSET Cell, NEW context, NEW old \in SUBSET Envs
  PROVE  PlannedWorldCells(head, context, old) \in [base : SUBSET Envs, old : SUBSET Envs]
<1>1. EnvsOf(Required(head)) \subseteq Envs
      BY DEF EnvsOf, Required, Cell
<1> QED
    BY <1>1 DEF PlannedWorldCells, NoCells

\* A row comes to one of the five verdicts.
LEMMA VerdictTyped ==
  ASSUME NEW cells, NEW context
  PROVE  JudgeRow(cells, context) \in {"failed", "proven", "held", "unproven", "moved"}
BY DEF JudgeRow, JudgeChanged

-----------------------------------------------------------------------------
(* Type correctness.                                                       *)

\* The run starts well typed.
LEMMA TypeInit == Init => TypeOK
<1> SUFFICES ASSUME Init PROVE TypeOK
    OBVIOUS
<1>1. runs \in [Worlds -> [Envs -> Seq(Outcome)]]
      BY EmptySeq DEF Init
<1>2. 1 \in Envs
      BY VerdictConstants DEF Envs
<1> QED
    BY <1>1, <1>2 DEF Init, TypeOK, Worlds, NoCells, Outcome

\* Each step of the run keeps the types.
LEMMA TypeStep == TypeOK /\ [Next]_vars => TypeOK'
<1> SUFFICES ASSUME TypeOK, [Next]_vars PROVE TypeOK'
    OBVIOUS
<1>1. CASE UNCHANGED vars
      BY <1>1 DEF vars, TypeOK
<1>2. CASE Execute
  <2>1. PICK o \in Outcomes : runs' = [runs EXCEPT ![at][env] = Append(@, o)]
        BY <1>2 DEF Execute
  <2>2. o \in Outcome
        BY <2>1 DEF Outcomes, Outcome
  <2>3. at \in Worlds /\ env \in Envs /\ runs \in [Worlds -> [Envs -> Seq(Outcome)]]
        BY <1>2 DEF Execute, TypeOK, Outcome
  <2>4. Append(runs[at][env], o) \in Seq(Outcome)
        BY <2>2, <2>3, AppendProperties
  <2>5. runs' \in [Worlds -> [Envs -> Seq(Outcome)]]
        BY <2>1, <2>3, <2>4
  <2> QED
      BY <1>2, <2>5 DEF Execute, TypeOK, Outcome
<1>3. CASE ProofLost
  <2>1. runs' \in [Worlds -> [Envs -> Seq(Outcome)]]
    <3>1. runs \in [Worlds -> [Envs -> Seq(Outcome)]] /\ env \in Envs
          BY DEF TypeOK, Outcome
    <3>2. ASSUME NEW o \in Outcomes PROVE Append(runs[at][env], o) \in Seq(Outcome)
          BY <1>3, <3>1, AppendProperties DEF ProofLost, Outcomes, Outcome
    <3>3. CASE UNCHANGED runs
          BY <3>1, <3>3
    <3>4. ASSUME NEW o \in Outcomes, runs' = [runs EXCEPT ![at][env] = Append(runs[at][env], o)]
          PROVE  runs' \in [Worlds -> [Envs -> Seq(Outcome)]]
      <4>1. Append(runs[at][env], o) \in Seq(Outcome)
            BY <3>2
      <4>2. at \in Worlds
            BY <1>3 DEF ProofLost
      <4> QED
          BY <3>1, <3>4, <4>1, <4>2
    <3> QED
        BY <1>3, <3>3, <3>4 DEF ProofLost
  <2>2. <<at, env>> \in Worlds \X Envs
        BY <1>3 DEF ProofLost, TypeOK
  <2>3. lost' \subseteq Worlds \X Envs
        BY <1>3, <2>2 DEF ProofLost, TypeOK
  <2> QED
      BY <1>3, <2>1, <2>3 DEF ProofLost, TypeOK, Outcome
<1>4. CASE WorldStops
  <2>1. PICK late \in SUBSET DOMAIN runs[at][env] :
          runs' = [runs EXCEPT ![at][env] =
                     [i \in DOMAIN runs[at][env] |-> IF i \in late THEN Broke ELSE runs[at][env][i]]]
        BY <1>4 DEF WorldStops
  <2> DEFINE s == runs[at][env]
             t == [i \in DOMAIN s |-> IF i \in late THEN Broke ELSE s[i]]
  <2>2. at \in Worlds /\ env \in Envs /\ runs \in [Worlds -> [Envs -> Seq(Outcome)]]
        BY <1>4 DEF WorldStops, TypeOK, Outcome
  <2>3. s \in Seq(Outcome)
        BY <2>2
  <2>4. /\ DOMAIN s = 1..Len(s) /\ Len(s) \in Nat
        /\ \A i \in 1..Len(s) : s[i] \in Outcome
        BY <2>3, LenProperties, ElementOfSeq
  <2>5. t \in [1..Len(s) -> Outcome]
        BY <2>4 DEF Outcome
  <2>6. t \in Seq(Outcome)
        BY <2>4, <2>5, SeqDef
  <2>7. runs' \in [Worlds -> [Envs -> Seq(Outcome)]]
        BY <2>1, <2>2, <2>6
  <2>8. env' \in Envs /\ at' \in Worlds \cup {"plan", "judge", "judged"}
        BY <1>4, VerdictConstants DEF WorldStops, TypeOK, Envs, After, Worlds
  <2> QED
      BY <1>4, <2>7, <2>8 DEF WorldStops, TypeOK, Outcome
<1>5. CASE Plan
  <2>1. planned' \in [base : SUBSET Envs, old : SUBSET Envs]
        BY <1>5, HeadTyped, PlanTyped DEF Plan, TypeOK, Row
  <2> QED
      BY <1>5, <2>1 DEF Plan, TypeOK, Worlds
<1>6. CASE Judge
  <2>1. TablePlan \in [base : SUBSET Envs, old : SUBSET Envs]
        BY HeadTyped, PlanTyped DEF TablePlan, TypeOK, Row
  <2>2. row_cells' \subseteq Cell
        BY <1>6, <2>1, HeadTyped, CellTyped DEF Judge, Worlds
  <2>3. verdict' \in {"none", "held", "proven"} \cup RedVerdicts
        BY <1>6, VerdictTyped DEF Judge, RedVerdicts
  <2> QED
      BY <1>6, <2>2, <2>3 DEF Judge, TypeOK
<1> QED
    BY <1>1, <1>2, <1>3, <1>4, <1>5, <1>6 DEF Next

\* The run's state is well typed, whatever its executions come to.
THEOREM TypeCorrect == Spec => []TypeOK
<1> QED
    BY TypeInit, TypeStep, PTL DEF Spec

-----------------------------------------------------------------------------
(* The table reads what the run left: the cells of a row are made from the *)
(* executions as they stand when it is judged, and nothing runs after.     *)

PlanIsHeads ==
  at \in {"base", "old", "judge", "judged"} =>
    planned = PlannedWorldCells(HeadCells, Context("claims"), row.oldRequired)
RowCells == HeadCells \cup {CellOf("base", e) : e \in TablePlan.base}
                      \cup {CellOf("old", e) : e \in TablePlan.old}
JudgedFromCells ==
  /\ at # "judged" => verdict = "none"
  /\ at = "judged" => row_cells = RowCells /\ verdict = JudgeRow(row_cells, TableContext)
Inv == TypeOK /\ PlanIsHeads /\ JudgedFromCells

\* What another world runs leaves head's cells alone.
LEMMA HeadStays ==
  ASSUME row' = row, runs'["head"] = runs["head"],
         \A e \in Envs : <<"head", e>> \in lost' <=> <<"head", e>> \in lost
  PROVE  HeadCells' = HeadCells
<1>1. ASSUME NEW e \in Envs PROVE CellOf("head", e)' = CellOf("head", e)
      BY DEF CellOf, RoleIn, FoldHeadCell
<1> QED
    BY <1>1 DEF HeadCells, Envs

\* The run starts with nothing planned and nothing judged.
LEMMA InvInit == Init => Inv
BY TypeInit DEF Init, Inv, PlanIsHeads, JudgedFromCells

\* Each step keeps the plan head's and the row made from its cells.
LEMMA InvStep == Inv /\ [Next]_vars => Inv'
<1> SUFFICES ASSUME Inv, [Next]_vars PROVE Inv'
    OBVIOUS
<1>1. TypeOK'
      BY TypeStep DEF Inv
<1>2. PlanIsHeads'
  <2>1. CASE UNCHANGED vars
        BY <2>1, HeadStays DEF vars, Inv, PlanIsHeads, Context
  <2>2. CASE Execute
    <3>1. at # "head" => runs'["head"] = runs["head"]
          BY <2>2 DEF Execute, Inv, TypeOK, Worlds
    <3>2. at # "head" => HeadCells' = HeadCells
          BY <2>2, <3>1, HeadStays DEF Execute
    <3> QED
        BY <2>2, <3>2 DEF Execute, Inv, PlanIsHeads, Context
  <2>3. CASE ProofLost
    <3>1. at # "head" => runs'["head"] = runs["head"]
          BY <2>3 DEF ProofLost, Inv, TypeOK, Worlds
    <3>2. at # "head" => \A e \in Envs : <<"head", e>> \in lost' <=> <<"head", e>> \in lost
          BY <2>3 DEF ProofLost
    <3>3. at # "head" => HeadCells' = HeadCells
          BY <2>3, <3>1, <3>2, HeadStays DEF ProofLost
    <3> QED
        BY <2>3, <3>3 DEF ProofLost, Inv, PlanIsHeads, Context
  <2>4. CASE WorldStops
    <3>1. at # "head" => runs'["head"] = runs["head"]
          BY <2>4 DEF WorldStops, Inv, TypeOK, Worlds
    <3>2. at # "head" => HeadCells' = HeadCells
          BY <2>4, <3>1, HeadStays DEF WorldStops
    <3>3. at = "head" => at' \in {"head", "plan"}
          BY <2>4 DEF WorldStops, After
    <3>4. at \in Worlds
          BY <2>4 DEF WorldStops
    <3> QED
        BY <2>4, <3>2, <3>3, <3>4 DEF WorldStops, Inv, PlanIsHeads, Context, Worlds
  <2>5. CASE Plan
    <3>1. HeadCells' = HeadCells
          BY <2>5, HeadStays DEF Plan
    <3> QED
        BY <2>5, <3>1 DEF Plan, PlanIsHeads, Context
  <2>6. CASE Judge
    <3>1. HeadCells' = HeadCells
          BY <2>6, HeadStays DEF Judge
    <3> QED
        BY <2>6, <3>1 DEF Judge, Inv, PlanIsHeads, Context
  <2> QED
      BY <2>1, <2>2, <2>3, <2>4, <2>5, <2>6 DEF Next
<1>3. JudgedFromCells'
  <2>1. ASSUME UNCHANGED <<row, runs, lost>>
        PROVE  /\ HeadCells' = HeadCells /\ TableContext' = TableContext
               /\ \A w, e : CellOf(w, e)' = CellOf(w, e)
    <3>1. HeadCells' = HeadCells
          BY <2>1, HeadStays
    <3>2. TableContext' = TableContext
          BY <2>1 DEF TableContext, Context, Seen, Envs
    <3>3. \A w, e : CellOf(w, e)' = CellOf(w, e)
          BY <2>1 DEF CellOf, RoleIn
    <3> QED
        BY <3>1, <3>2, <3>3
  <2>2. ASSUME UNCHANGED <<row, runs, lost>>
        PROVE  RowCells' = RowCells
    <3>1. TablePlan' = TablePlan
          BY <2>1, <2>2 DEF TablePlan
    <3> QED
        BY <2>1, <2>2, <3>1 DEF RowCells
  <2>3. CASE UNCHANGED vars
        BY <2>1, <2>2, <2>3 DEF vars, Inv, JudgedFromCells
  <2>4. CASE Execute \/ ProofLost \/ WorldStops \/ Plan
    <3>1. at # "judged" /\ at' # "judged" /\ verdict' = verdict
          BY <2>4 DEF Execute, ProofLost, WorldStops, Plan, Worlds, After
    <3> QED
        BY <3>1 DEF Inv, JudgedFromCells
  <2>5. CASE Judge
    <3>1. UNCHANGED <<row, runs, lost>>
          BY <2>5 DEF Judge
    <3>2. row_cells' = RowCells
          BY <2>5 DEF Judge, RowCells
    <3>3. verdict' = JudgeRow(row_cells', TableContext)
          BY <2>5 DEF Judge
    <3> QED
        BY <2>1, <2>2, <2>5, <3>1, <3>2, <3>3 DEF Judge, JudgedFromCells
  <2> QED
      BY <2>3, <2>4, <2>5 DEF Next
<1> QED
    BY <1>1, <1>2, <1>3 DEF Inv

\* In every reachable state the plan is the one head's cells give, and a judged
\* row is the one the table makes of its cells (cli/run.ts, verdict-table.ts).
THEOREM Inductive == Spec => []Inv
<1> QED
    BY InvInit, InvStep, PTL DEF Spec

-----------------------------------------------------------------------------
(* The cells of a row that is judged.                                      *)

\* The base is asked for in environments where the criterion is required.
LEMMA PlanBaseIsRequired ==
  ASSUME TypeOK, NEW e \in TablePlan.base
  PROVE  e \in Envs /\ row.role[e] = "required"
<1>1. e \in EnvsOf(Required(HeadCells))
      BY DEF TablePlan, PlannedWorldCells, NoCells
<1>2. PICK c \in HeadCells : c.role = "required" /\ c.env = e
      BY <1>1 DEF EnvsOf, Required
<1>3. PICK f \in Envs : c = CellOf("head", f)
      BY <1>2 DEF HeadCells
<1> QED
    BY <1>2, <1>3 DEF CellOf, RoleIn

\* The old tree is asked for in environments of the run.
LEMMA PlanOldIsInRun == ASSUME TypeOK PROVE TablePlan.old \subseteq Envs
BY HeadTyped, PlanTyped DEF TablePlan, TypeOK, Row

\* A cell knows which world and environment it is of.
LEMMA CellKey ==
  ASSUME NEW w, NEW e
  PROVE  CellOf(w, e).world = w /\ CellOf(w, e).env = e /\ CellOf(w, e).role = RoleIn(w, e)
<1> DEFINE outcome == IF w = "head" THEN FoldHeadCell(runs[w][e], row.role[e], <<w, e>> \in lost)
                      ELSE FoldCell(runs[w][e])
<1>1. CellOf(w, e) = [world |-> w, env |-> e, role |-> RoleIn(w, e), runs |-> Len(runs[w][e]), outcome |-> outcome]
      BY DEF CellOf
<1> HIDE DEF outcome
<1> QED
    BY <1>1

\* Each cell of a judged row is made from the executions there.
LEMMA RowCellOf ==
  ASSUME TypeOK, NEW c \in RowCells
  PROVE  /\ c.world \in Worlds /\ c.env \in Envs /\ c = CellOf(c.world, c.env)
         /\ c.world = "base" => c.env \in TablePlan.base
         /\ c.world = "old" => c.env \in TablePlan.old
<1>1. CASE c \in HeadCells
      BY <1>1, CellKey DEF HeadCells, Worlds
<1>2. CASE \E e \in TablePlan.base : c = CellOf("base", e)
      BY <1>2, CellKey, PlanBaseIsRequired DEF Worlds
<1>3. CASE \E e \in TablePlan.old : c = CellOf("old", e)
      BY <1>3, CellKey, PlanOldIsInRun DEF Worlds
<1> QED
    BY <1>1, <1>2, <1>3 DEF RowCells

\* Where the table judges an old tree or a base, it judges required cells.
LEMMA OnlyHeadHasControls ==
  ASSUME TypeOK, NEW c \in RowCells, c.role = "control"
  PROVE  c.world = "head"
<1>1. c.world \in Worlds /\ c.env \in Envs /\ c = CellOf(c.world, c.env)
      BY RowCellOf
<1>2. c.role = RoleIn(c.world, c.env)
      BY <1>1 DEF CellOf
<1> QED
    BY <1>1, <1>2, RowCellOf, PlanBaseIsRequired DEF RoleIn, Worlds

\* The executions of a cell are a sequence of outcomes.
LEMMA RunsTyped == ASSUME TypeOK, NEW w \in Worlds, NEW e \in Envs PROVE runs[w][e] \in Seq(Outcome)
BY DEF TypeOK, Outcome

\* A cell that passed is one whose every execution passed.
LEMMA PassedCell ==
  ASSUME TypeOK, NEW w \in Worlds, NEW e \in Envs, CellOf(w, e).outcome = "pass"
  PROVE  runs[w][e] # << >> /\ \A i \in DOMAIN runs[w][e] : runs[w][e][i] = Pass
<1>1. FoldCell(runs[w][e]) = "pass"
      BY DEF CellOf, FoldHeadCell
<1>2. /\ runs[w][e] # << >> /\ runs[w][e][1] \in Outcome /\ runs[w][e][1].kind = "pass"
      /\ \A i \in DOMAIN runs[w][e] : runs[w][e][i] = runs[w][e][1]
      BY <1>1, FoldAgrees, RunsTyped
<1> QED
    BY <1>2, PassIsPass

-----------------------------------------------------------------------------
(* The properties.                                                         *)

\* A judged row that is red stays red without its controls.
LEMMA ControlsCannotRed == Inv => ControlNeverReds
<1> SUFFICES ASSUME Inv, at = "judged", verdict \in RedVerdicts
             PROVE  JudgeRow(WithoutControls(row_cells), TableContext) \in RedVerdicts
    BY DEF ControlNeverReds
<1> DEFINE rest == WithoutControls(row_cells)
           head == {c \in row_cells : c.world = "head"}
           restHead == {c \in rest : c.world = "head"}
<1>1. TypeOK /\ row_cells = RowCells /\ JudgeRow(row_cells, TableContext) \in RedVerdicts
      BY DEF Inv, JudgedFromCells
<1>2. Required(restHead) = Required(head)
      BY DEF WithoutControls, Required
<1>3. Controls(restHead) = {}
      BY DEF WithoutControls, Controls
<1>4. {c \in rest : c.world = "base"} = {c \in row_cells : c.world = "base"}
      BY <1>1, OnlyHeadHasControls DEF WithoutControls
<1>5. {c \in rest : c.world = "old"} = {c \in row_cells : c.world = "old"}
      BY <1>1, OnlyHeadHasControls DEF WithoutControls
<1> HIDE DEF rest
<1>6. JudgeRow(rest, TableContext) \in RedVerdicts
  <2>1. CASE Required(head) = {} \/ NotPassed(Required(head))
        BY <1>2, <2>1 DEF JudgeRow, RedVerdicts
  <2>2. CASE /\ ~(Required(head) = {} \/ NotPassed(Required(head)))
             /\ TableContext.base /\ TableContext.change # "unchanged"
    <3>1. JudgeChanged({c \in row_cells : c.world = "base"}, \E c \in Controls(head) : Proves(c), TableContext) = "unproven"
          BY <1>1, <2>2 DEF JudgeRow, JudgeChanged, RedVerdicts
    <3>2. JudgeChanged({c \in row_cells : c.world = "base"}, FALSE, TableContext) = "unproven"
          BY <3>1 DEF JudgeChanged
    <3>3. JudgeRow(rest, TableContext) = JudgeChanged({c \in rest : c.world = "base"}, \E c \in Controls(restHead) : Proves(c), TableContext)
          BY <1>2, <2>2 DEF JudgeRow
    <3> QED
        BY <1>3, <1>4, <3>2, <3>3 DEF RedVerdicts
  <2>3. CASE /\ ~(Required(head) = {} \/ NotPassed(Required(head)))
             /\ ~(TableContext.base /\ TableContext.change # "unchanged")
        BY <1>1, <1>2, <1>3, <1>5, <2>3 DEF JudgeRow, RedVerdicts
  <2> QED
      BY <2>1, <2>2, <2>3
<1> QED
    BY <1>6 DEF rest

\* A control that fails, or cannot be run, never turns a row red.
THEOREM NeverReds == Spec => []ControlNeverReds
<1> QED
    BY Inductive, ControlsCannotRed, PTL

\* A judged row that is proven has its repeated proof.
LEMMA ProofRepeats == Inv => ProofIsRepeated
<1> SUFFICES ASSUME Inv, verdict = "proven"
             PROVE  \E c \in row_cells :
                      /\ AbsentHere(c.role, c.world) /\ Len(runs[c.world][c.env]) >= ProofRuns
                      /\ c.world = "head" => <<"head", c.env>> \notin lost
                      /\ \E claim \in Claims : \A i \in DOMAIN runs[c.world][c.env] :
                           runs[c.world][c.env][i] = Fail(claim)
    BY DEF ProofIsRepeated
<1>1. TypeOK /\ row_cells = RowCells /\ JudgeRow(row_cells, TableContext) = "proven"
      BY DEF Inv, JudgedFromCells
<1>2. PICK c \in row_cells : Proves(c)
      BY <1>1 DEF JudgeRow, JudgeChanged, Controls
<1>3. c.world \in Worlds /\ c.env \in Envs /\ c = CellOf(c.world, c.env)
      BY <1>1, RowCellOf
<1> DEFINE s == runs[c.world][c.env]
<1>4. c.outcome = "fail" /\ c.runs = Len(s) /\ AbsentHere(c.role, c.world) /\ c.runs >= ProofRuns
      BY <1>2, <1>3 DEF Proves, CellOf
<1>5. c.world = "head" => <<"head", c.env>> \notin lost
  <2>1. c.world = "head" => row.role[c.env] = "control"
        BY <1>3, <1>4 DEF AbsentHere, CellOf, RoleIn
  <2> QED
      BY <1>3, <1>4, <2>1 DEF CellOf, FoldHeadCell
<1>6. FoldCell(s) = "fail"
      BY <1>3, <1>4 DEF CellOf, FoldHeadCell
<1>7. s # << >> /\ s[1] \in Outcome /\ s[1].kind = "fail" /\ \A i \in DOMAIN s : s[i] = s[1]
      BY <1>1, <1>3, <1>6, FoldAgrees, RunsTyped
<1>8. PICK claim \in Claims : s[1] = Fail(claim)
      BY <1>7, FailIsAClaim
<1> QED
    BY <1>4, <1>5, <1>7, <1>8

\* "proven" is earned by ProofRuns executions that broke one and the same
\* claim where the behaviour is absent.
THEOREM ProofRepeated == Spec => []ProofIsRepeated
<1> QED
    BY Inductive, ProofRepeats, PTL

\* The table's plan asks for no cell the run's plan left out.
LEMMA PlansAgree == Inv => TableReadsWhatRan
<1> SUFFICES ASSUME Inv, at = "judged", NEW c \in row_cells, c.world # "head"
             PROVE  c.env \in planned[c.world]
    BY DEF TableReadsWhatRan
<1>1. TypeOK /\ row_cells = RowCells /\ planned = PlannedWorldCells(HeadCells, Context("claims"), row.oldRequired)
      BY DEF Inv, JudgedFromCells, PlanIsHeads
<1>2. TablePlan.base \subseteq planned.base
      BY <1>1 DEF TablePlan, PlannedWorldCells, NoCells, TableContext, Context
<1>3. TablePlan.old \subseteq planned.old
      BY <1>1 DEF TablePlan, PlannedWorldCells, NoCells, TableContext, Context
<1>4. c.world \in {"base", "old"} /\ (c.world = "base" => c.env \in TablePlan.base) /\ (c.world = "old" => c.env \in TablePlan.old)
      BY <1>1, RowCellOf DEF Worlds
<1> QED
    BY <1>1, <1>2, <1>3, <1>4, HeadTyped, PlanTyped DEF TypeOK

\* The table asks the other worlds for nothing they were not given.
THEOREM ReadsWhatRan == Spec => []TableReadsWhatRan
<1> QED
    BY Inductive, PlansAgree, PTL

\* A green row has a required cell, and each of them passed.
LEMMA GreenHasPassed ==
  ASSUME Inv, at = "judged", verdict \notin RedVerdicts
  PROVE  /\ \E e \in Envs : row.role[e] = "required"
         /\ \A e \in Envs : row.role[e] = "required" =>
              runs["head"][e] # << >> /\ \A i \in DOMAIN runs["head"][e] : runs["head"][e][i] = Pass
<1> DEFINE head == {c \in row_cells : c.world = "head"}
<1>1. TypeOK /\ row_cells = RowCells /\ JudgeRow(row_cells, TableContext) \notin RedVerdicts
      BY DEF Inv, JudgedFromCells
<1>2. Required(head) # {} /\ ~NotPassed(Required(head))
      BY <1>1 DEF JudgeRow, RedVerdicts
<1>3. PICK c \in head : c.role = "required"
      BY <1>2 DEF Required
<1>4. c.env \in Envs /\ c = CellOf("head", c.env)
      BY <1>1, <1>3, RowCellOf
<1>5. row.role[c.env] = "required"
      BY <1>3, <1>4 DEF CellOf, RoleIn
<1>6. ASSUME NEW e \in Envs, row.role[e] = "required"
      PROVE  runs["head"][e] # << >> /\ \A i \in DOMAIN runs["head"][e] : runs["head"][e][i] = Pass
  <2>1. CellOf("head", e) \in head
        BY <1>1 DEF RowCells, HeadCells, CellOf
  <2>2. CellOf("head", e).role = "required"
        BY <1>6 DEF CellOf, RoleIn
  <2>3. CellOf("head", e).outcome = "pass"
        BY <1>2, <2>1, <2>2 DEF Required, NotPassed
  <2> QED
      BY <1>1, <1>6, <2>3, PassedCell DEF Worlds
<1> QED
    BY <1>4, <1>5, <1>6

\* A green row has what makes it green.
LEMMA GreenEarned == Inv => GreenIsEarned
<1> SUFFICES ASSUME Inv, at = "judged", verdict \notin RedVerdicts
             PROVE  /\ \E e \in Envs : row.role[e] = "required"
                    /\ \A e \in Envs : row.role[e] = "required" =>
                         runs.head[e] # << >> /\ \A i \in DOMAIN runs.head[e] : runs.head[e][i] = Pass
                    /\ row.base /\ row.change = "new" /\ verdict = "held" =>
                         \/ row.then = "judgment" /\ ~row.held
                         \/ row.held /\ \A e \in Envs : row.role[e] = "required" =>
                              runs.base[e] # << >> /\ \A i \in DOMAIN runs.base[e] : runs.base[e][i] = Pass
                    /\ row.base /\ row.change = "unchanged" /\ row.underneath =>
                         /\ row.oldRequired # {}
                         /\ \A e \in row.oldRequired :
                              runs.old[e] # << >> /\ \A i \in DOMAIN runs.old[e] : runs.old[e][i] = Pass
    BY DEF GreenIsEarned
<1> DEFINE base == {c \in row_cells : c.world = "base"}
           old  == {c \in row_cells : c.world = "old"}
<1>1. TypeOK /\ row_cells = RowCells /\ verdict = JudgeRow(row_cells, TableContext) /\ verdict \notin RedVerdicts
      BY DEF Inv, JudgedFromCells
<1>2. ASSUME row.base, row.change = "new", verdict = "held", ~(row.then = "judgment" /\ ~row.held)
      PROVE  row.held /\ \A e \in Envs : row.role[e] = "required" =>
               runs.base[e] # << >> /\ \A i \in DOMAIN runs.base[e] : runs.base[e][i] = Pass
  <2>1. row.held /\ base # {} /\ ~NotPassed(base)
        BY <1>1, <1>2 DEF JudgeRow, JudgeChanged, RedVerdicts, TableContext, Context
  <2>2. TablePlan.base # {}
        BY <1>1, <2>1, RowCellOf
  <2>3. TablePlan.base = EnvsOf(Required(HeadCells))
        BY <1>2, <2>2 DEF TablePlan, PlannedWorldCells, NoCells, TableContext, Context
  <2>4. ASSUME NEW e \in Envs, row.role[e] = "required"
        PROVE  runs.base[e] # << >> /\ \A i \in DOMAIN runs.base[e] : runs.base[e][i] = Pass
    <3>1. CellOf("head", e) \in Required(HeadCells) /\ CellOf("head", e).env = e
          BY <2>4 DEF Required, HeadCells, CellOf, RoleIn
    <3>2. e \in TablePlan.base
          BY <2>3, <3>1 DEF EnvsOf
    <3>3. CellOf("base", e) \in base
          BY <1>1, <3>2 DEF RowCells, CellOf
    <3>4. CellOf("base", e).outcome = "pass"
          BY <2>1, <3>3 DEF NotPassed
    <3> QED
        BY <1>1, <2>4, <3>4, PassedCell DEF Worlds
  <2> QED
      BY <2>1, <2>4
<1>3. ASSUME row.base, row.change = "unchanged", row.underneath
      PROVE  /\ row.oldRequired # {}
             /\ \A e \in row.oldRequired :
                  runs.old[e] # << >> /\ \A i \in DOMAIN runs.old[e] : runs.old[e][i] = Pass
  <2>1. old # {} /\ ~NotPassed(old)
        BY <1>1, <1>3 DEF JudgeRow, RedVerdicts, TableContext, Context
  <2>2. TablePlan.old # {}
        BY <1>1, <2>1, RowCellOf
  <2>3. TablePlan.old = row.oldRequired
        BY <1>3, <2>2 DEF TablePlan, PlannedWorldCells, NoCells, TableContext, Context
  <2>4. ASSUME NEW e \in row.oldRequired
        PROVE  runs.old[e] # << >> /\ \A i \in DOMAIN runs.old[e] : runs.old[e][i] = Pass
    <3>1. CellOf("old", e) \in old
          BY <1>1, <2>3 DEF RowCells, CellOf
    <3>2. CellOf("old", e).outcome = "pass"
          BY <2>1, <3>1 DEF NotPassed
    <3>3. e \in Envs
          BY <1>1 DEF TypeOK, Row
    <3> QED
        BY <1>1, <3>2, <3>3, PassedCell DEF Worlds
  <2> QED
      BY <2>2, <2>3, <2>4
<1> QED
    BY <1>1, <1>2, <1>3, GreenHasPassed

\* A green row passed wherever its conditions hold, and in each other world
\* its verdict rests on.
THEOREM Earned == Spec => []GreenIsEarned
<1> QED
    BY Inductive, GreenEarned, PTL

\* A base that was left out could not have changed the row.
LEMMA SkippedMoot == Inv => SkippedBaseIsMoot
<1> SUFFICES ASSUME Inv, at = "judged", row.base, \A c \in row_cells : c.world # "base",
                    NEW outcome \in [{e \in Envs : row.role[e] = "required"} -> BaseOutcomes]
             PROVE  JudgeRow(row_cells \cup {BaseCell(e, outcome[e]) : e \in DOMAIN outcome}, TableContext) = verdict
    BY DEF SkippedBaseIsMoot
<1> DEFINE more == {BaseCell(e, outcome[e]) : e \in DOMAIN outcome}
           all  == row_cells \cup more
           head == {c \in row_cells : c.world = "head"}
           proven == \E c \in Controls(head) : Proves(c)
<1>1. TypeOK /\ row_cells = RowCells /\ verdict = JudgeRow(row_cells, TableContext)
      BY DEF Inv, JudgedFromCells
<1>2. \A c \in more : /\ c.world = "base" /\ c.role = "required"
                      /\ c.outcome \in BaseOutcomes
      BY DEF BaseCell
<1> HIDE DEF more
<1>3. /\ {c \in all : c.world = "head"} = head
      /\ {c \in all : c.world = "old"} = {c \in row_cells : c.world = "old"}
      /\ {c \in all : c.world = "base"} = more
      /\ {c \in row_cells : c.world = "base"} = {}
      BY <1>2
<1> HIDE DEF all, head
<1>4. JudgeRow(all, TableContext) = verdict
  <2>1. CASE Required(head) = {} \/ NotPassed(Required(head))
        BY <1>1, <1>3, <2>1 DEF JudgeRow, head
  <2>2. CASE ~(Required(head) = {} \/ NotPassed(Required(head))) /\ TableContext.change = "unchanged"
        BY <1>1, <1>3, <2>2 DEF JudgeRow, head
  <2>3. CASE ~(Required(head) = {} \/ NotPassed(Required(head))) /\ TableContext.change # "unchanged"
    <3>1. /\ JudgeRow(all, TableContext) = JudgeChanged(more, proven, TableContext)
          /\ verdict = JudgeChanged({}, proven, TableContext)
          BY <1>1, <1>3, <2>3 DEF JudgeRow, head, TableContext, Context
    <3>2. head = HeadCells
          BY <1>1, CellKey, RowCellOf DEF head, RowCells, HeadCells
    <3>3. TablePlan.base = {}
      <4>1. ASSUME NEW e \in TablePlan.base PROVE FALSE
        <5>1. CellOf("base", e) \in row_cells
              BY <1>1 DEF RowCells
        <5>2. CellOf("base", e).world = "base"
              BY DEF CellOf
        <5> QED
            BY <5>1, <5>2
      <4> QED
          BY <4>1
    <3>4. EnvsOf(Required(HeadCells)) # {}
          BY <2>3, <3>2 DEF EnvsOf
    <3>5. ~TableContext.held /\ ((\E c \in HeadCells : Proves(c)) \/ TableContext.then = "judgment")
          BY <2>3, <3>2, <3>3, <3>4 DEF TablePlan, PlannedWorldCells, TableContext, Context
    <3>6. CASE \E c \in HeadCells : Proves(c)
      <4>1. proven
            BY <3>2, <3>6, CellKey DEF Proves, AbsentHere, Controls, HeadCells
      <4> QED
          BY <3>1, <4>1 DEF JudgeChanged
    <3>7. CASE TableContext.then = "judgment"
      <4>1. row.then = "judgment"
            BY <3>7 DEF TableContext, Context
      <4>2. ~\E c \in more : Proves(c)
            BY <1>2, <4>1 DEF BaseOutcomes, Proves
      <4> QED
          BY <3>1, <3>5, <3>7, <4>2 DEF JudgeChanged
    <3> QED
        BY <3>5, <3>6, <3>7
  <2> QED
      BY <2>1, <2>2, <2>3
<1> QED
    BY <1>4 DEF all, more

\* No base that was left out could have changed a verdict.
THEOREM SkippedIsMoot == Spec => []SkippedBaseIsMoot
<1> QED
    BY Inductive, SkippedMoot, PTL

-----------------------------------------------------------------------------
(* Proof runs: a pass ends only once no cell of it asks for another.       *)

Stage == [head |-> 0, plan |-> 1, base |-> 2, old |-> 3, judge |-> 4, judged |-> 5]
Over(w, e) == Stage[at] > Stage[w] \/ (at = w /\ e < env)
SettledCell(w, e) ==
  \/ ~ToRun(w, e) \/ <<w, e>> \in lost
  \/ ~NeedsProofRun(RoleIn(w, e), runs[w][e], w)
Settled ==
  /\ at = "plan" => env = 1
  /\ \A w \in Worlds, e \in Envs : Over(w, e) => SettledCell(w, e)

\* Nothing is over at the start.
LEMMA SettledInit == Init => Settled
BY DEF Init, Settled, Over, Stage, Worlds, Envs

\* A late event can only end the need for proof runs, never bring it back.
LEMMA LateSettles ==
  ASSUME NEW s \in Seq(Outcome), NEW late \in SUBSET DOMAIN s, NEW r, NEW w, ~NeedsProofRun(r, s, w)
  PROVE  ~NeedsProofRun(r, [i \in DOMAIN s |-> IF i \in late THEN Broke ELSE s[i]], w)
<1> DEFINE t == [i \in DOMAIN s |-> IF i \in late THEN Broke ELSE s[i]]
<1> SUFFICES ASSUME NeedsProofRun(r, t, w) PROVE FALSE
    OBVIOUS
<1>1. DOMAIN s = 1..Len(s) /\ Len(s) \in Nat /\ s \in [1..Len(s) -> Outcome]
      BY LenProperties
<1>2. t \in [1..Len(s) -> Outcome]
      BY <1>1 DEF Outcome
<1>3. t \in Seq(Outcome)
      BY <1>1, <1>2, SeqDef
<1>4. Len(t) = Len(s)
      BY <1>1, <1>2, <1>3, LenProperties
<1>5. AbsentHere(r, w) /\ t # << >> /\ t[1].kind = "fail" /\ Len(t) < ProofRuns /\ Agree(t)
      BY DEF NeedsProofRun
<1>6. 1 \in DOMAIN s
      BY <1>1, <1>3, <1>4, <1>5, EmptySeq
<1>7. \A i \in DOMAIN s : i \notin late
  <2> SUFFICES ASSUME NEW i \in DOMAIN s, i \in late PROVE FALSE
      OBVIOUS
  <2>1. t[i] = Broke /\ t[i] = t[1]
        BY <1>5 DEF Agree
  <2> QED
      BY <1>5, <2>1 DEF Broke
<1>8. t = s
      BY <1>1, <1>7
<1> QED
    BY <1>5, <1>8

\* A cell whose pass is over stays settled.
LEMMA SettledStep == Inv /\ Settled /\ [Next]_vars => Settled'
<1> SUFFICES ASSUME Inv, Settled, [Next]_vars PROVE Settled'
    OBVIOUS
<1> USE DEF Stage, Worlds
<1>1. TypeOK
      BY DEF Inv
<1>2. CASE UNCHANGED vars
      BY <1>2 DEF vars, Settled, Over, SettledCell, ToRun, RoleIn
<1>3. CASE Execute
  <2>1. ASSUME NEW w \in Worlds, NEW e \in Envs, Over(w, e)'
        PROVE  SettledCell(w, e)'
    <3>1. Over(w, e) /\ ~(w = at /\ e = env)
          BY <1>1, <1>3, <2>1 DEF Execute, Over, TypeOK, Envs
    <3>2. runs'[w][e] = runs[w][e]
          BY <1>1, <1>3, <3>1 DEF Execute, TypeOK
    <3> QED
        BY <1>3, <3>1, <3>2 DEF Execute, Settled, SettledCell, ToRun, RoleIn
  <2> QED
      BY <1>3, <2>1 DEF Execute, Settled
<1>4. CASE ProofLost
  <2>1. ASSUME NEW w \in Worlds, NEW e \in Envs, Over(w, e)'
        PROVE  SettledCell(w, e)'
    <3>1. Over(w, e) /\ ~(w = at /\ e = env)
          BY <1>1, <1>4, <2>1 DEF ProofLost, Over, TypeOK, Envs
    <3>2. runs'[w][e] = runs[w][e]
          BY <1>1, <1>4, <3>1 DEF ProofLost, TypeOK
    <3> QED
        BY <1>4, <3>1, <3>2 DEF ProofLost, Settled, SettledCell, ToRun, RoleIn
  <2> QED
      BY <1>4, <2>1 DEF ProofLost, Settled
<1>5. CASE WorldStops
  <2>1. at' = "plan" => env' = 1
        BY <1>5 DEF WorldStops, After
  <2>2. ASSUME NEW w \in Worlds, NEW e \in Envs, Over(w, e)'
        PROVE  SettledCell(w, e)'
    <3>1. Over(w, e) \/ (w = at /\ e = env)
          BY <1>1, <1>5, <2>2, VerdictConstants DEF WorldStops, Over, After, TypeOK, Envs
    <3>2. PICK late \in SUBSET DOMAIN runs[at][env] :
            runs' = [runs EXCEPT ![at][env] =
                       [i \in DOMAIN runs[at][env] |-> IF i \in late THEN Broke ELSE runs[at][env][i]]]
          BY <1>5 DEF WorldStops
    <3>3. CASE ~(w = at /\ e = env)
      <4>1. runs'[w][e] = runs[w][e]
            BY <1>1, <3>2, <3>3 DEF TypeOK
      <4> QED
          BY <1>5, <3>1, <3>3, <4>1 DEF WorldStops, Settled, SettledCell, ToRun, RoleIn
    <3>4. CASE w = at /\ e = env
      <4>1. SettledCell(w, e)
        <5>1. runs[w][e] = << >> => ~NeedsProofRun(RoleIn(w, e), runs[w][e], w)
              BY DEF NeedsProofRun
        <5> QED
            BY <1>5, <3>4, <5>1 DEF WorldStops, SettledCell, Lost
      <4>2. runs[w][e] \in Seq(Outcome)
            BY <1>1, RunsTyped
      <4>3. runs'[w][e] = [i \in DOMAIN runs[w][e] |-> IF i \in late THEN Broke ELSE runs[w][e][i]]
            BY <1>1, <3>2, <3>4 DEF TypeOK
      <4>4. ~NeedsProofRun(RoleIn(w, e), runs[w][e], w) => ~NeedsProofRun(RoleIn(w, e), runs'[w][e], w)
        <5> DEFINE s == runs[w][e]
        <5>1. s \in Seq(Outcome) /\ late \in SUBSET DOMAIN s
              BY <3>4, <4>2
        <5> HIDE DEF s
        <5>2. ASSUME ~NeedsProofRun(RoleIn(w, e), s, w)
              PROVE  ~NeedsProofRun(RoleIn(w, e), [i \in DOMAIN s |-> IF i \in late THEN Broke ELSE s[i]], w)
              BY <5>1, <5>2, LateSettles
        <5> QED
            BY <4>3, <5>2 DEF s
      <4> QED
          BY <1>5, <4>1, <4>4 DEF WorldStops, SettledCell, ToRun, RoleIn
    <3> QED
        BY <3>3, <3>4
  <2> QED
      BY <2>1, <2>2 DEF Settled
<1>6. CASE Plan
  <2>1. env = 1
        BY <1>6 DEF Plan, Settled
  <2>2. ASSUME NEW w \in Worlds, NEW e \in Envs, Over(w, e)'
        PROVE  Over(w, e) /\ w = "head"
        BY <1>6, <2>1, <2>2 DEF Plan, Over, Envs
  <2> QED
      BY <1>6, <2>2 DEF Plan, Settled, SettledCell, ToRun, RoleIn
<1>7. CASE Judge
      BY <1>7 DEF Judge, Settled, Over, SettledCell, ToRun, RoleIn
<1> QED
    BY <1>2, <1>3, <1>4, <1>5, <1>6, <1>7 DEF Next

\* A settled cell that still says "fail" is proof.
LEMMA ProofsSettle == Inv /\ Settled => ProofRunsSettle
<1> SUFFICES ASSUME Inv, Settled, at = "judged", NEW c \in row_cells,
                    AbsentHere(c.role, c.world), c.outcome = "fail",
                    c.world = "head" \/ <<c.world, c.env>> \notin lost
             PROVE  Proves(c)
    BY DEF ProofRunsSettle
<1>1. TypeOK /\ row_cells = RowCells
      BY DEF Inv, JudgedFromCells
<1>2. c.world \in Worlds /\ c.env \in Envs /\ c = CellOf(c.world, c.env)
      BY <1>1, RowCellOf
<1> DEFINE s == runs[c.world][c.env]
<1>3. c.runs = Len(s) /\ c.role = RoleIn(c.world, c.env) /\ FoldCell(s) = "fail"
      BY <1>2 DEF CellOf, FoldHeadCell
<1>4. s \in Seq(Outcome) /\ s # << >> /\ s[1].kind = "fail" /\ \A i \in DOMAIN s : s[i] = s[1]
      BY <1>1, <1>2, <1>3, FoldAgrees, RunsTyped
<1>5. SettledCell(c.world, c.env)
      BY <1>2 DEF Settled, Over, Stage, Worlds
<1>6. ToRun(c.world, c.env)
      BY <1>2, PlansAgree DEF ToRun, TableReadsWhatRan
<1>7. <<c.world, c.env>> \notin lost
      BY <1>2 DEF AbsentHere, CellOf, FoldHeadCell, RoleIn
<1>8. ~(Len(s) < ProofRuns)
      BY <1>3, <1>4, <1>5, <1>6, <1>7 DEF SettledCell, NeedsProofRun, Agree
<1>9. Len(s) \in Nat
      BY <1>4, LenProperties
<1> QED
    BY <1>3, <1>8, <1>9, VerdictConstants DEF Proves

\* Proof runs never stop short of what proof needs.
THEOREM ProofRunsDecide == Spec => []ProofRunsSettle
<1>1. Inv /\ Settled /\ [Next]_vars => (Inv /\ Settled)'
      BY InvStep, SettledStep
<1> QED
    BY <1>1, InvInit, SettledInit, ProofsSettle, PTL DEF Spec

\* The plan and the table agree, for any environments, claims and bounds.
THEOREM TableSound == Spec => []TableIsSound
<1> QED
    BY SkippedIsMoot, ReadsWhatRan, PTL DEF TableIsSound

\* Proof is repeated, and never one run short.
THEOREM ProofSound == Spec => []ProofIsSound
<1> QED
    BY ProofRepeated, ProofRunsDecide, PTL DEF ProofIsSound
=============================================================================

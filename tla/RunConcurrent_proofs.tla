------------------------ MODULE RunConcurrent_proofs ------------------------
(***************************************************************************)
(* What RunConcurrent's runs check, for every selection of scenarios, every *)
(* --concurrency, number of environments and of proof runs.                *)
(*                                                                         *)
(* The inductive invariant says who holds which scenarios (Hands), that a  *)
(* scenario is handed out once before its proof rounds (Fresh), that the   *)
(* two counters are the cardinalities of the records written and of the    *)
(* records promised (Counted), what the verdict's inputs stand for         *)
(* (Tallied), and that nothing is missing without a cause (Marked,         *)
(* Delivered, Covered).                                                    *)
(***************************************************************************)
EXTENDS RunConcurrent, FiniteSetTheorems, WellFoundedInduction, TLAPS

\* The scenarios whose record is on its way to the parent.
InPipe(s) ==
  {c \in Cells : \E i \in DOMAIN pipe[s] : pipe[s][i] # HookFailed /\ pipe[s][i].cell = c}
\* None is in a pipe twice.
OnceInPipe(s) ==
  \A i, j \in DOMAIN pipe[s] :
    i # j /\ pipe[s][i] # HookFailed /\ pipe[s][j] # HookFailed =>
      pipe[s][i].cell # pipe[s][j].cell
Busy(s) == group[s] # "idle"

\* The order of a pass: who may be busy, and where.
Shape ==
  /\ phase \in {"pass", "opening", "closing", "verdict"} => \A s \in Slots : ~Busy(s)
  /\ phase \in {"serial", "proof"} => \A s \in Slots : s # 1 => ~Busy(s)
  /\ phase = "proof" => (Busy(1) <=> round # {})
  /\ phase \in {"pass", "opening", "parallel", "serial", "closing", "verdict"} => round = {}
  /\ phase \in {"pass", "opening", "proof", "closing", "verdict"} => serials = {}
  /\ phase \in {"opening", "parallel", "serial", "proof", "closing", "thrown"} => pass <= Passes
  /\ phase = "verdict" => Interrupted
  /\ exit # "none" => phase = "done"
  /\ \A s \in Slots :
       /\ Alive(s) => group[s] = "running"
       /\ group[s] = "running" => stage[s] # "none"
       /\ group[s] # "running" => pipe[s] = << >>
       /\ group[s] = "preparing" => seen[s] = {}

\* No scenario is in two hands; a serial file is in one worker's, alone.
Hands ==
  /\ \A s, t \in Slots : s # t /\ Busy(s) /\ Busy(t) =>
       given[s] \subseteq CellsOf(ParallelFiles) /\ given[s] \cap given[t] = {}
  /\ round # {} => given[1] = round /\ pass <= Passes /\ \A s \in Slots : s # 1 => ~Busy(s)
  /\ \A s \in Slots :
       /\ seen[s] \subseteq given[s]
       /\ InPipe(s) \subseteq given[s] \ seen[s]
       /\ Alive(s) => left[s] \subseteq (given[s] \ seen[s]) \ InPipe(s)
       /\ OnceInPipe(s)

\* What has still to be read was not recorded before, or needs a proof run.
Fresh ==
  /\ \A p \in 1..Passes, c \in Cells : p > pass => runs[p][c] = << >>
  /\ pass <= Passes => \A c \in Cells :
       /\ phase \in {"pass", "opening"} => runs[pass][c] = << >>
       /\ FileOf(c) \in serials =>
            runs[pass][c] = << >> /\ \A s \in Slots : Busy(s) => c \notin given[s]
       /\ \A s \in Slots : Busy(s) /\ c \in given[s] =>
            IF c \in seen[s] THEN runs[pass][c] # << >>
            ELSE IF round = {} THEN runs[pass][c] = << >> ELSE NeedsProof(pass, c)

\* An execution is <<<<environment, scenario>>, number>>: the ones recorded, the
\* one each scenario owes in each environment, and those the round still owes.
Executions == ((1..Passes) \X Cells) \X (1..ProofRuns)
Records == {r \in Executions : r[2] <= Len(runs[r[1][1]][r[1][2]])}
FirstRuns == ((1..Passes) \X Cells) \X {1}
NextRuns(cells) == {<<<<pass, c>>, Len(runs[pass][c]) + 1>> : c \in cells}
Awaited == NextRuns(round \ seen[1])
Promised == (FirstRuns \cup Records) \cup Awaited

Counted ==
  /\ expected \in Int
  /\ written = Cardinality(Records)
  /\ ("world" \notin cause /\ ~Interrupted) => expected = Cardinality(Promised)
  /\ expected >= Len(Pickles) * (Passes + 1 - pass) + Cardinality(round \ seen[1])

Tallied ==
  /\ allPassed => "world" \notin cause
  /\ allPassed => \A p \in 1..Passes, c \in Cells \ Controls :
       \A i \in DOMAIN runs[p][c] : runs[p][c][i] = "pass"
  /\ ~Interrupted => \A p \in 1..Passes : p < pass \/ (p = pass /\ phase = "closing") =>
       \A c \in Cells : NeedsProof(p, c) => <<p, c>> \in blamed
  /\ round # {} => Due \subseteq round

\* What makes the run red, and every line that will, has its cause.
Excused(line, during, why) ==
  \/ why # {}
  \/ line = HookFailed /\ during # {}
  \/ line # HookFailed /\ (line.cell \in Controls \/ line.outcome = "pass")
Marked ==
  /\ ~allPassed => cause # {}
  /\ failedFiles => cause # {} \/ Interrupted
  /\ \A s \in Slots : \A i \in DOMAIN pipe[s] : Excused(pipe[s][i], round, cause)

\* Without a cause or a signal, a worker runs all it was given, and the parent
\* reads all of it.
Delivered ==
  cause = {} /\ ~Interrupted /\ phase \in {"parallel", "serial", "proof"} /\ round = {} =>
    \A s \in Slots : group[s] \in {"running", "over"} =>
      /\ given[s] \subseteq (seen[s] \cup InPipe(s)) \cup left[s]
      /\ stage[s] \in {"after", "ended"} => left[s] = {}
      /\ group[s] = "over" => stage[s] = "ended"

\* Nor is a scenario left out: it is recorded, or in hand, or in a serial file.
Covered ==
  cause = {} /\ ~Interrupted =>
    \A p \in 1..Passes, c \in Cells :
      /\ p < pass \/ (p = pass /\ phase \in {"proof", "closing"}) => runs[p][c] # << >>
      /\ p = pass /\ phase \in {"parallel", "serial"} =>
           \/ FileOf(c) \in serials \/ runs[p][c] # << >>
           \/ \E s \in Slots : Busy(s) /\ c \in given[s]

Typed == ParentTypes /\ WorkerTypes /\ TallyTypes
IInv ==
  /\ Typed /\ Shape /\ Hands /\ Fresh /\ Counted /\ Tallied
  /\ Marked /\ Delivered /\ Covered
  /\ GreenMeansComplete /\ RedMeansCause
-----------------------------------------------------------------------------
(* The operators.                                                           *)

\* The scenarios are finitely many, as many as the selection is long.
LEMMA CellsCounted ==
  IsFiniteSet(Cells) /\ Cardinality(Cells) = Len(Pickles) /\ Len(Pickles) \in Nat
<1> DEFINE at == [i \in 1..Len(Pickles) |-> Pickles[i]]
<1>1. Len(Pickles) \in Nat /\ DOMAIN Pickles = 1..Len(Pickles)
  BY RunConstants
<1>2. IsFiniteSet(1..Len(Pickles)) /\ Cardinality(1..Len(Pickles)) = Len(Pickles)
  <2> DEFINE n == Len(Pickles)
  <2>1. n \in Nat /\ 1 \in Int /\ n \in Int
    BY <1>1
  <2> HIDE DEF n
  <2>2. IsFiniteSet(1..n) /\ Cardinality(1..n) = IF 1 > n THEN 0 ELSE n - 1 + 1
    BY <2>1, FS_Interval
  <2>3. IsFiniteSet(1..n) /\ Cardinality(1..n) = n
    BY <2>1, <2>2
  <2>4. QED  BY <2>3 DEF n
<1>3. at \in Bijection(1..Len(Pickles), Cells)
  <2>1. at \in [1..Len(Pickles) -> Cells]
    BY <1>1 DEF Cells, ToSet
  <2>2. \A i, j \in 1..Len(Pickles) : at[i] = at[j] => i = j
    BY RunConstants
  <2>3. \A c \in Cells : \E i \in 1..Len(Pickles) : at[i] = c
    BY <1>1 DEF Cells, ToSet
  <2>4. QED  BY <2>1, <2>2, <2>3 DEF Bijection, Injection, Surjection, IsInjective
<1>4. ExistsBijection(1..Len(Pickles), Cells)
  BY <1>3 DEF ExistsBijection
<1>5. QED  BY <1>1, <1>2, <1>4, FS_Bijection

\* A set of naturals that is not empty has a least member.
LEMMA LeastNat ==
  ASSUME NEW T \in SUBSET Nat, T # {}
  PROVE  \E m \in T : \A n \in T : m <= n
<1>1. PICK m \in T : \A n \in T : ~(<<n, m>> \in OpToRel(<, Nat))
  BY NatLessThanWellFounded, WFMin, Zenon
<1>2. ASSUME NEW n \in T
      PROVE  m <= n
  <2>1. n < m => <<n, m>> \in OpToRel(<, Nat)
    BY DEF OpToRel
  <2>2. ~(n < m) /\ n \in Nat /\ m \in Nat
    BY <1>1, <2>1
  <2>3. QED  BY <2>2
<1>3. QED  BY <1>2

\* A cell's position is where the selection lists it.
LEMMA PositionIs ==
  ASSUME NEW c \in Cells
  PROVE  Position(c) \in Nat
<1>1. \E i \in DOMAIN Pickles : Pickles[i] = c
  BY DEF Cells, ToSet
<1>2. DOMAIN Pickles \subseteq Nat
  BY RunConstants
<1>3. QED  BY <1>1, <1>2 DEF Position

\* The foremost of some cells is one of them.
LEMMA ForemostIn ==
  ASSUME NEW S \in SUBSET Cells, S # {}
  PROVE  Foremost(S) \in S
<1> DEFINE T == {Position(c) : c \in S}
<1>1. T \in SUBSET Nat /\ T # {}
  BY PositionIs
<1>2. PICK m \in T : \A n \in T : m <= n
  BY <1>1, LeastNat
<1>3. \E c \in S : \A d \in S : Position(c) <= Position(d)
  BY <1>2
<1>4. QED  BY <1>3 DEF Foremost

\* There are finitely many files, and a rank is a natural number.
LEMMA FilesFinite ==
  /\ IsFiniteSet(Files) /\ IsFiniteSet(ParallelFiles)
  /\ Cardinality(ParallelFiles) \in Nat
  /\ \A f : Rank(f) \in Nat
  /\ ParallelFiles # {} => Cardinality(ParallelFiles) > 0
<1> DEFINE file == [c \in Cells |-> FileOf(c)]
<1>1. file \in Surjection(Cells, Files)
  BY DEF Files, Surjection
<1>2. IsFiniteSet(Files)
  BY <1>1, CellsCounted, FS_Surjection
<1>3. IsFiniteSet(ParallelFiles)
  BY <1>2, FS_Subset DEF ParallelFiles
<1>4. ASSUME NEW f
      PROVE  Rank(f) \in Nat
  <2> DEFINE before == {g \in ParallelFiles : Start(g) < Start(f)}
  <2>1. IsFiniteSet(before)
    BY <1>3, FS_Subset
  <2>2. Cardinality(before) \in Nat
    BY <2>1, FS_CardinalityType
  <2>3. QED  BY <2>2 DEF Rank
<1>5. Cardinality(ParallelFiles) \in Nat
  BY <1>3, FS_CardinalityType
<1>6. ParallelFiles # {} => Cardinality(ParallelFiles) > 0
  BY <1>3, <1>5, FS_EmptySet
<1>7. QED  BY <1>2, <1>3, <1>4, <1>5, <1>6

\* The parallel files are dealt out to the workers: each to one, none twice.
LEMMA BucketsPartition ==
  /\ WorkerCount \in 0..Concurrency /\ 1..WorkerCount \subseteq Slots
  /\ \A f \in ParallelFiles : \E s \in 1..WorkerCount : f \in Bucket(s)
  /\ \A s, t \in Slots : s # t => Bucket(s) \cap Bucket(t) = {}
  /\ \A s : Bucket(s) \subseteq ParallelFiles
<1>1. WorkerCount \in 0..Concurrency /\ (ParallelFiles # {} => WorkerCount > 0)
  BY FilesFinite, RunConstants DEF WorkerCount
<1>2. 1..WorkerCount \subseteq Slots
  BY <1>1, RunConstants DEF Slots
<1>3. ASSUME NEW f \in ParallelFiles
      PROVE  \E s \in 1..WorkerCount : f \in Bucket(s)
  <2> DEFINE n == WorkerCount
             r == Rank(f)
  <2>1. n \in Nat /\ n > 0 /\ r \in Nat
    BY <1>1, FilesFinite, RunConstants
  <2> HIDE DEF n, r
  <2>2. r % n \in 0..(n - 1)
    BY <2>1
  <2>3. (r % n) + 1 \in 1..n /\ r % n = ((r % n) + 1) - 1
    BY <2>1, <2>2
  <2>4. QED  BY <2>3 DEF n, r, Bucket
<1>4. \A s, t \in Slots : s # t => Bucket(s) \cap Bucket(t) = {}
  BY DEF Bucket, Slots
<1>5. QED  BY <1>1, <1>2, <1>3, <1>4 DEF Bucket

-----------------------------------------------------------------------------
(* The steps.                                                               *)

\* The steps of one worker's process, which are nobody else's.
Process(s) ==
  \/ BeforeAll(s) \/ RunScenario(s) \/ ScenariosOver(s) \/ AfterAll(s)
  \/ SignalExit(s) \/ WorkerDies(s) \/ ProcessExit(s)

\* What a worker's process leaves alone.
LEMMA ProcessFrame ==
  ASSUME NEW s \in Slots, Process(s)
  PROVE  /\ UNCHANGED <<phase, pass, world, group, given, serials, signals, exit>>
         /\ UNCHANGED <<seen, problems, runs, expected, written, allPassed, failedFiles>>
         /\ UNCHANGED <<round, blamed>> /\ Alive(s) /\ cause \subseteq cause'
<1>1. CASE BeforeAll(s)
  BY <1>1 DEF BeforeAll, workerFrame, parentVars, tallyVars, Alive, Blame
<1>2. CASE RunScenario(s)
  BY <1>2 DEF RunScenario, workerFrame, parentVars, tallyVars, Alive, Blame
<1>3. CASE ScenariosOver(s)
  BY <1>3 DEF ScenariosOver, workerFrame, parentVars, tallyVars, Alive, Blame
<1>4. CASE AfterAll(s)
  BY <1>4 DEF AfterAll, workerFrame, parentVars, tallyVars, Alive, Blame
<1>5. CASE SignalExit(s)
  BY <1>5 DEF SignalExit, parentVars, tallyVars
<1>6. CASE WorkerDies(s)
  BY <1>6 DEF WorkerDies, parentVars, tallyVars, Blame
<1>7. CASE ProcessExit(s)
  BY <1>7 DEF ProcessExit, parentVars, tallyVars, Blame
<1>8. QED  BY <1>1, <1>2, <1>3, <1>4, <1>5, <1>6, <1>7 DEF Process

\* What is handed out to be run is handed out to workers that are idle.
LEMMA StepCases ==
  ASSUME [Next]_vars
  PROVE  \/ UNCHANGED vars \/ Signal
         \/ Open \/ Opened \/ OpenFailed \/ ParallelOver \/ SerialNext \/ StartRound
         \/ RoundOver \/ RoundsDone \/ Close \/ Thrown \/ Verdict
         \/ \E s \in Slots :
              \/ phase # "done" /\ Spawn(s)
              \/ phase # "done" /\ SkipSpawn(s)
              \/ phase # "done" /\ ReadEnvelope(s)
              \/ phase # "done" /\ WorkerClosed(s)
              \/ phase # "done" /\ DropLine(s)
              \/ PrepareFails(s)
              \/ Process(s)
BY Zenon DEF Next, Parent, Group, Worker, Process

\* A slot that is busy before the run is over is busy in an environment of it.
LEMMA BusyPass ==
  ASSUME Typed, Shape, NEW s \in Slots, Busy(s), phase # "done"
  PROVE  pass \in 1..Passes /\ phase \in {"parallel", "serial", "proof", "thrown"}
BY RunConstants DEF Typed, ParentTypes, Shape

\* What the next line of a worker's pipe is.
LEMMA HeadOfPipe ==
  ASSUME Typed, NEW s \in Slots, pipe[s] # << >>
  PROVE  /\ pipe[s] \in Seq(Envelopes) /\ Len(pipe[s]) \in Nat \ {0}
         /\ Head(pipe[s]) = pipe[s][1] /\ 1 \in DOMAIN pipe[s]
         /\ Tail(pipe[s]) \in Seq(Envelopes) /\ Len(Tail(pipe[s])) = Len(pipe[s]) - 1
         /\ \A i \in 1..(Len(pipe[s]) - 1) : Tail(pipe[s])[i] = pipe[s][i + 1]
         /\ Head(pipe[s]) # HookFailed =>
              Head(pipe[s]).cell \in InPipe(s) /\ Head(pipe[s]).outcome \in Outcomes
<1>1. pipe[s] \in Seq(Envelopes)
  BY DEF Typed, WorkerTypes
<1>2. \A e \in Envelopes : e # HookFailed => e.cell \in Cells /\ e.outcome \in Outcomes
  BY DEF Envelopes
<1>3. Len(pipe[s]) \in Nat \ {0} /\ Head(pipe[s]) = pipe[s][1] /\ 1 \in DOMAIN pipe[s]
      /\ Head(pipe[s]) \in Envelopes
  BY <1>1
<1>4. /\ Tail(pipe[s]) \in Seq(Envelopes) /\ Len(Tail(pipe[s])) = Len(pipe[s]) - 1
      /\ \A i \in 1..(Len(pipe[s]) - 1) : Tail(pipe[s])[i] = pipe[s][i + 1]
  BY <1>1, <1>3
<1>5. QED  BY <1>1, <1>2, <1>3, <1>4 DEF InPipe

\* A record that is read is of a scenario its worker was given and had not
\* recorded, and the scenario's first in its environment or one its round owes.
LEMMA ReadFacts ==
  ASSUME Typed, Shape, Hands, Fresh, NEW s \in Slots, phase # "done",
         group[s] = "running", pipe[s] # << >>, Head(pipe[s]) # HookFailed,
         NEW c, c = Head(pipe[s]).cell
  PROVE  /\ pass \in 1..Passes /\ c \in Cells /\ Head(pipe[s]).outcome \in Outcomes
         /\ c \in given[s] \ seen[s] /\ c \in InPipe(s)
         /\ runs[pass][c] \in Seq(Outcomes) /\ Len(runs[pass][c]) \in 0..(ProofRuns - 1)
         /\ round = {} => runs[pass][c] = << >>
         /\ round # {} => s = 1 /\ c \in round /\ NeedsProof(pass, c)
<1>1. pass \in 1..Passes /\ Busy(s)
  BY BusyPass DEF Busy
<1>2. c \in InPipe(s) /\ c \in Cells /\ Head(pipe[s]).outcome \in Outcomes
  BY HeadOfPipe DEF InPipe
<1>3. c \in given[s] \ seen[s]
  BY <1>2 DEF Hands
<1>4. runs[pass][c] \in Seq(Outcomes)
  BY <1>1, <1>2 DEF Typed, TallyTypes
<1>5. IF round = {} THEN runs[pass][c] = << >> ELSE NeedsProof(pass, c)
  BY <1>1, <1>2, <1>3 DEF Fresh
<1>6. round # {} => s = 1 /\ c \in round
  BY <1>1, <1>3 DEF Hands
<1>7. Len(runs[pass][c]) \in 0..(ProofRuns - 1)
  <2>1. ProofRuns \in Nat \ {0} /\ 0 \in 0..(ProofRuns - 1)
    BY RunConstants
  <2>2. CASE round = {}
    <3>1. runs[pass][c] = << >>
      BY <1>5, <2>2
    <3>2. Len(runs[pass][c]) = 0
      BY <3>1
    <3>3. QED  BY <3>2, <2>1
  <2>3. CASE round # {}
    <3>1. Len(runs[pass][c]) \in 1..(ProofRuns - 1)
      BY <1>5, <2>3 DEF NeedsProof
    <3>2. QED  BY <3>1, <2>1
  <2>4. QED  BY <2>2, <2>3
<1>8. QED  BY <1>1, <1>2, <1>3, <1>4, <1>5, <1>6, <1>7

\* What a worker writes goes to the end of its own pipe.
LEMMA EmitType ==
  ASSUME pipe \in [Slots -> Seq(Envelopes)], NEW s \in Slots, NEW e \in Envelopes,
         Emit(s, e)
  PROVE  pipe' \in [Slots -> Seq(Envelopes)]
<1>1. Append(pipe[s], e) \in Seq(Envelopes)
  OBVIOUS
<1>2. QED  BY <1>1 DEF Emit

LEMMA HookFailedEnvelope == HookFailed \in Envelopes
BY DEF Envelopes

\* Every step keeps the types.
LEMMA TypedStep ==
  ASSUME Typed, Shape, Hands, Fresh, [Next]_vars
  PROVE  Typed'
<1> USE DEF Typed
<1>1. CASE UNCHANGED vars
  BY <1>1 DEF vars, ParentTypes, WorkerTypes, TallyTypes
<1>2. CASE Signal
  BY <1>2, RunConstants
     DEF Signal, workerVars, tallyVars, ParentTypes, WorkerTypes, TallyTypes
<1>3. CASE Open
  BY <1>3 DEF Open, workerVars, tallyVars, ParentTypes, WorkerTypes, TallyTypes
<1>4. CASE Opened
  BY <1>4 DEF Opened, Prepare, CellsOf, ParentTypes, WorkerTypes, TallyTypes
<1>5. CASE OpenFailed
  <2>1. pass' \in 1..Passes + 1 /\ phase' \in {"pass", "verdict"} /\ allPassed' \in BOOLEAN
        /\ (cause' = cause \/ cause' = cause \cup {"world"})
    <3>1. pass \in 1..Passes
      BY <1>5, RunConstants DEF OpenFailed, Shape, ParentTypes
    <3>2. CASE Interrupted
      BY <1>5, <3>1, <3>2, RunConstants DEF OpenFailed, TallyTypes
    <3>3. CASE ~Interrupted
      <4>1. phase' = "pass" /\ pass' = pass + 1 /\ allPassed' = FALSE
            /\ cause' = cause \cup {"world"}
        BY <1>5, <3>3 DEF OpenFailed
      <4>2. pass + 1 \in 1..Passes + 1
        BY <3>1, RunConstants
      <4>3. QED  BY <4>1, <4>2
    <3>4. QED  BY <3>2, <3>3
  <2>2. UNCHANGED <<world, group, given, serials, signals, exit, workerVars, pipe, seen,
                    problems, runs, failedFiles, round, blamed>>
    BY <1>5 DEF OpenFailed
  <2>3. QED  BY <2>1, <2>2 DEF workerVars, ParentTypes, WorkerTypes, TallyTypes
<1>6. CASE ParallelOver
  BY <1>6 DEF ParallelOver, workerVars, ParentTypes, WorkerTypes, TallyTypes, Unreported
<1>7. CASE SerialNext
  <2>1. CASE serials = {}
    BY <1>7, <2>1 DEF SerialNext, ParentTypes, WorkerTypes, TallyTypes, Unreported
  <2>2. CASE serials # {}
    <3> DEFINE file == FileOf(Foremost(CellsOf(serials)))
    <3>1. /\ Prepare({1}, [t \in Slots |-> CellsOf({file})]) /\ serials' = serials \ {file}
          /\ UNCHANGED phase /\ failedFiles' \in BOOLEAN
          /\ UNCHANGED <<pass, world, signals, exit, stage, left, clean, pipe, problems, runs,
                         allPassed, round, blamed, cause>>
      BY <1>7, <2>2 DEF SerialNext, Unreported, TallyTypes
    <3> HIDE DEF file
    <3>2. QED  BY <3>1 DEF Prepare, CellsOf, ParentTypes, WorkerTypes, TallyTypes
  <2>3. QED  BY <2>1, <2>2
<1>8. CASE StartRound
  BY <1>8 DEF StartRound, Prepare, Due, NeedsProof, ParentTypes, WorkerTypes, TallyTypes
<1>9. CASE RoundOver
  BY <1>9, RunConstants
     DEF RoundOver, Shape, workerVars, ParentTypes, WorkerTypes, TallyTypes
<1>10. CASE RoundsDone
  BY <1>10 DEF RoundsDone, workerVars, tallyVars, ParentTypes, WorkerTypes, TallyTypes
<1>11. CASE Close
  BY <1>11, RunConstants
     DEF Close, Shape, workerVars, tallyVars, ParentTypes, WorkerTypes, TallyTypes
<1>12. CASE Thrown
  BY <1>12 DEF Thrown, workerVars, tallyVars, ParentTypes, WorkerTypes, TallyTypes
<1>13. CASE Verdict
  BY <1>13 DEF Verdict, workerVars, tallyVars, ParentTypes, WorkerTypes, TallyTypes
<1>14. ASSUME NEW s \in Slots, Spawn(s)
       PROVE  Typed'
  BY <1>14 DEF Spawn, tallyVars, ParentTypes, WorkerTypes, TallyTypes
<1>15. ASSUME NEW s \in Slots, SkipSpawn(s)
       PROVE  Typed'
  BY <1>15 DEF SkipSpawn, tallyVars, ParentTypes, WorkerTypes, TallyTypes
<1>16. ASSUME NEW s \in Slots, phase # "done", ReadEnvelope(s)
       PROVE  Typed'
  <2>1. UNCHANGED parentVars /\ UNCHANGED workerVars
        /\ UNCHANGED <<failedFiles, round, blamed, cause>>
        /\ group[s] = "running" /\ pipe[s] # << >>
        /\ pipe' = [pipe EXCEPT ![s] = Tail(@)]
    BY <1>16 DEF ReadEnvelope
  <2>2. WorkerTypes' /\ ParentTypes'
    BY <2>1, HeadOfPipe DEF parentVars, workerVars, ParentTypes, WorkerTypes
  <2>3. CASE Head(pipe[s]) = HookFailed
    BY <1>16, <2>2, <2>3 DEF ReadEnvelope, TallyTypes
  <2>4. CASE Head(pipe[s]) # HookFailed
    <3> DEFINE c == Head(pipe[s]).cell
               outcome == Head(pipe[s]).outcome
    <3>1. /\ pass \in 1..Passes /\ c \in Cells /\ outcome \in Outcomes
          /\ runs[pass][c] \in Seq(Outcomes) /\ Len(runs[pass][c]) \in 0..(ProofRuns - 1)
      BY <1>16, <2>1, <2>4, ReadFacts
    <3>2. /\ seen' = [seen EXCEPT ![s] = @ \cup {c}]
          /\ runs' = [runs EXCEPT ![pass][c] = Append(@, outcome)]
          /\ allPassed' = (allPassed /\ (c \in Controls \/ outcome = "pass"))
          /\ UNCHANGED <<problems, failedFiles, blamed>>
      BY <1>16, <2>4 DEF ReadEnvelope
    <3> HIDE DEF c, outcome
    <3>3. /\ Append(runs[pass][c], outcome) \in Seq(Outcomes)
          /\ Len(Append(runs[pass][c], outcome)) <= ProofRuns
      BY <3>1, RunConstants
    <3>4. runs' \in [1..Passes -> [Cells -> Seq(Outcomes)]]
      BY <3>1, <3>2, <3>3 DEF TallyTypes
    <3>5. \A p \in 1..Passes, d \in Cells : Len(runs'[p][d]) <= ProofRuns
      BY <3>1, <3>2, <3>3 DEF TallyTypes
    <3>6. QED  BY <2>2, <3>1, <3>2, <3>4, <3>5 DEF TallyTypes
  <2>5. QED  BY <2>3, <2>4
<1>17. ASSUME NEW s \in Slots, WorkerClosed(s)
       PROVE  Typed'
  BY <1>17 DEF WorkerClosed, workerVars, tallyVars, ParentTypes, WorkerTypes, TallyTypes
<1>18. ASSUME NEW s \in Slots, DropLine(s)
       PROVE  Typed'
  BY <1>18, HeadOfPipe DEF DropLine, Blame, parentVars, workerVars, tallyVars,
     ParentTypes, WorkerTypes, TallyTypes
<1>19. ASSUME NEW s \in Slots, PrepareFails(s)
       PROVE  Typed'
  BY <1>19 DEF PrepareFails, workerVars, tallyVars, ParentTypes, WorkerTypes, TallyTypes
<1>20. ASSUME NEW s \in Slots, Process(s)
       PROVE  Typed'
  <2>1. ParentTypes' /\ TallyTypes'
    BY <1>20, ProcessFrame DEF ParentTypes, TallyTypes
  <2>2. HookFailed \in Envelopes
    BY HookFailedEnvelope
  <2>3. ASSUME BeforeAll(s) PROVE WorkerTypes'
    <3>1. pipe' \in [Slots -> Seq(Envelopes)]
      BY <2>2, <2>3, EmitType DEF BeforeAll, WorkerTypes
    <3>2. QED  BY <2>3, <3>1 DEF BeforeAll, Blame, workerFrame, WorkerTypes
  <2>4. ASSUME RunScenario(s) PROVE WorkerTypes'
    <3> DEFINE c == Foremost(left[s])
    <3>1. c \in left[s] /\ c \in Cells
      <4>1. left[s] \in SUBSET Cells /\ left[s] # {}
        BY <2>4 DEF RunScenario, WorkerTypes
      <4>2. QED  BY <4>1, ForemostIn
    <3>2. PICK outcome \in Outcomes :
            /\ Emit(s, [cell |-> c, outcome |-> outcome])
            /\ clean' = [clean EXCEPT ![s] = @ /\ outcome = "pass"]
            /\ cause' = cause \/ cause' = cause \cup {"failed"}
      BY <2>4 DEF RunScenario, Blame, Outcomes
    <3>3. [cell |-> c, outcome |-> outcome] \in Envelopes
      BY <3>1 DEF Envelopes
    <3>4. left' = [left EXCEPT ![s] = @ \ {c}] /\ UNCHANGED <<stage, code>>
      BY <2>4 DEF RunScenario, workerFrame
    <3> HIDE DEF c
    <3>5. pipe' \in [Slots -> Seq(Envelopes)]
      BY <3>2, <3>3, EmitType DEF WorkerTypes
    <3>6. QED  BY <3>2, <3>4, <3>5 DEF WorkerTypes
  <2>5. ASSUME ScenariosOver(s) PROVE WorkerTypes'
    BY <2>5 DEF ScenariosOver, workerFrame, WorkerTypes
  <2>6. ASSUME AfterAll(s) PROVE WorkerTypes'
    <3>1. pipe' \in [Slots -> Seq(Envelopes)]
      BY <2>2, <2>6, EmitType DEF AfterAll, WorkerTypes
    <3>2. QED  BY <2>6, <3>1 DEF AfterAll, Ended, Blame, WorkerTypes
  <2>7. ASSUME SignalExit(s) PROVE WorkerTypes'
    BY <2>7 DEF SignalExit, Ended, WorkerTypes
  <2>8. ASSUME WorkerDies(s) PROVE WorkerTypes'
    BY <2>8 DEF WorkerDies, Ended, Blame, WorkerTypes
  <2>9. ASSUME ProcessExit(s) PROVE WorkerTypes'
    BY <2>9 DEF ProcessExit, Ended, Blame, WorkerTypes
  <2>10. WorkerTypes'
    BY <1>20, <2>3, <2>4, <2>5, <2>6, <2>7, <2>8, <2>9 DEF Process
  <2>11. QED  BY <2>1, <2>10
<1>21. QED
  BY StepCases, <1>1, <1>2, <1>3, <1>4, <1>5, <1>6, <1>7, <1>8, <1>9, <1>10, <1>11, <1>12,
     <1>13, <1>14, <1>15, <1>16, <1>17, <1>18, <1>19, <1>20

\* Every step keeps the order of a pass.
LEMMA ShapeStep ==
  ASSUME Typed, Shape, [Next]_vars
  PROVE  Shape'
<1> USE DEF Busy, Interrupted, Alive
<1>0. 1 \in Slots /\ Passes \in Nat
  BY RunConstants DEF Slots
<1>1. CASE UNCHANGED vars
  BY <1>1 DEF vars, Shape
<1>2. CASE Signal
  BY <1>2 DEF Signal, workerVars, tallyVars, Shape, Typed, ParentTypes
<1>3. CASE Open
  BY <1>3 DEF Open, workerVars, tallyVars, Shape
<1>4. CASE Opened
  BY <1>4 DEF Opened, Prepare, Shape, Typed, ParentTypes
<1>5. CASE OpenFailed
  BY <1>5 DEF OpenFailed, workerVars, Shape
<1>6. CASE ParallelOver
  BY <1>0, <1>6 DEF ParallelOver, AllOver, workerVars, Shape, Typed, ParentTypes
<1>7. CASE SerialNext
  <2>1. CASE serials = {}
    BY <1>0, <1>7, <2>1 DEF SerialNext, AllOver, Shape, Typed, ParentTypes
  <2>2. CASE serials # {}
    <3>1. /\ group' = [s \in Slots |-> IF s = 1 THEN "preparing" ELSE "idle"]
          /\ seen' = [s \in Slots |-> {}] /\ phase = "serial"
          /\ UNCHANGED <<phase, pass, exit, stage, pipe, round, signals>>
          /\ AllOver
      BY <1>7, <2>2 DEF SerialNext, Prepare
    <3>2. QED  BY <1>0, <3>1 DEF AllOver, Shape, Typed, ParentTypes
  <2>3. QED  BY <2>1, <2>2
<1>8. CASE StartRound
  BY <1>0, <1>8 DEF StartRound, Prepare, AllOver, Shape, Typed, ParentTypes
<1>9. CASE RoundOver
  BY <1>0, <1>9 DEF RoundOver, AllOver, workerVars, Shape, Typed, ParentTypes
<1>10. CASE RoundsDone
  BY <1>0, <1>10 DEF RoundsDone, AllOver, workerVars, tallyVars, Shape, Typed, ParentTypes
<1>11. CASE Close
  BY <1>11 DEF Close, workerVars, tallyVars, Shape
<1>12. CASE Thrown
  BY <1>12 DEF Thrown, workerVars, tallyVars, Shape
<1>13. CASE Verdict
  BY <1>13 DEF Verdict, workerVars, tallyVars, Shape
<1>14. ASSUME NEW s \in Slots, phase # "done", Spawn(s)
       PROVE  Shape'
  BY <1>0, <1>14, BusyPass DEF Spawn, tallyVars, Shape, Typed, ParentTypes, WorkerTypes
<1>15. ASSUME NEW s \in Slots, phase # "done", SkipSpawn(s)
       PROVE  Shape'
  BY <1>0, <1>15, BusyPass DEF SkipSpawn, tallyVars, Shape, Typed, ParentTypes
<1>16. ASSUME NEW s \in Slots, phase # "done", ReadEnvelope(s)
       PROVE  Shape'
  BY <1>16 DEF ReadEnvelope, parentVars, workerVars, Shape, Typed, WorkerTypes, TallyTypes
<1>17. ASSUME NEW s \in Slots, phase # "done", WorkerClosed(s)
       PROVE  Shape'
  BY <1>0, <1>17, BusyPass DEF WorkerClosed, workerVars, tallyVars, Shape, Typed, ParentTypes
<1>18. ASSUME NEW s \in Slots, phase # "done", DropLine(s)
       PROVE  Shape'
  BY <1>18 DEF DropLine, parentVars, workerVars, tallyVars, Shape, Typed, WorkerTypes
<1>19. ASSUME NEW s \in Slots, PrepareFails(s)
       PROVE  Shape'
  BY <1>0, <1>19, BusyPass DEF PrepareFails, workerVars, tallyVars, Shape, Typed, ParentTypes
<1>20. ASSUME NEW s \in Slots, Process(s)
       PROVE  Shape'
  <2>1. group[s] = "running"
    BY <1>20, ProcessFrame DEF Shape
  <2>2. stage' \in [Slots -> {"none", "before", "scenarios", "after", "ended"}]
        /\ (\A t \in Slots \ {s} : stage'[t] = stage[t] /\ pipe'[t] = pipe[t])
        /\ stage'[s] # "none"
    <3> USE DEF Typed, WorkerTypes, Ended, Emit, workerFrame
    <3>1. CASE BeforeAll(s)
      BY <3>1 DEF BeforeAll
    <3>2. CASE RunScenario(s)
      BY <3>2 DEF RunScenario
    <3>3. CASE ScenariosOver(s)
      BY <3>3 DEF ScenariosOver
    <3>4. CASE AfterAll(s)
      BY <3>4 DEF AfterAll
    <3>5. CASE SignalExit(s)
      BY <3>5 DEF SignalExit
    <3>6. CASE WorkerDies(s)
      BY <3>6 DEF WorkerDies
    <3>7. CASE ProcessExit(s)
      BY <3>7 DEF ProcessExit
    <3>8. QED  BY <1>20, <3>1, <3>2, <3>3, <3>4, <3>5, <3>6, <3>7 DEF Process
  <2>3. UNCHANGED <<phase, pass, group, serials, signals, exit, seen, round>>
    BY <1>20, ProcessFrame
  <2>4. QED  BY <2>1, <2>2, <2>3 DEF Shape
<1>21. QED
  BY StepCases, <1>1, <1>2, <1>3, <1>4, <1>5, <1>6, <1>7, <1>8, <1>9, <1>10, <1>11, <1>12,
     <1>13, <1>14, <1>15, <1>16, <1>17, <1>18, <1>19, <1>20

\* A line that is taken from a pipe takes its scenario with it.
LEMMA PipeTaken ==
  ASSUME Typed, NEW s \in Slots, pipe[s] # << >>, OnceInPipe(s),
         pipe' = [pipe EXCEPT ![s] = Tail(@)]
  PROVE  /\ \A t \in Slots \ {s} : pipe'[t] = pipe[t] /\ InPipe(t)' = InPipe(t)
         /\ InPipe(s)' = IF Head(pipe[s]) = HookFailed THEN InPipe(s)
                         ELSE InPipe(s) \ {Head(pipe[s]).cell}
         /\ OnceInPipe(s)'
<1> DEFINE q == pipe[s]
           n == Len(pipe[s])
<1>1. /\ q \in Seq(Envelopes) /\ n \in Nat \ {0} /\ DOMAIN q = 1..n /\ Head(q) = q[1]
      /\ pipe'[s] = Tail(q) /\ DOMAIN pipe'[s] = 1..(n - 1)
      /\ \A i \in 1..(n - 1) : pipe'[s][i] = q[i + 1]
      /\ \A t \in Slots \ {s} : pipe'[t] = pipe[t]
  BY HeadOfPipe DEF Typed, WorkerTypes
<1>2. \A i, j \in 1..n : i # j /\ q[i] # HookFailed /\ q[j] # HookFailed => q[i].cell # q[j].cell
  BY <1>1 DEF OnceInPipe
<1>3. InPipe(s) = {c \in Cells : \E i \in 1..n : q[i] # HookFailed /\ q[i].cell = c}
  BY <1>1 DEF InPipe
<1>4. InPipe(s)' = {c \in Cells : \E i \in 1..(n - 1) : q[i + 1] # HookFailed /\ q[i + 1].cell = c}
  <2>1. InPipe(s)' = {c \in Cells : \E i \in DOMAIN pipe'[s] :
                       pipe'[s][i] # HookFailed /\ pipe'[s][i].cell = c}
    BY DEF InPipe
  <2>2. \A i \in DOMAIN pipe'[s] : i \in 1..(n - 1) /\ pipe'[s][i] = q[i + 1]
    BY <1>1
  <2>3. \A i \in 1..(n - 1) : i \in DOMAIN pipe'[s] /\ pipe'[s][i] = q[i + 1]
    BY <1>1
  <2> HIDE DEF q, n
  <2>4. QED  BY <2>1, <2>2, <2>3
<1> HIDE DEF q, n
<1>5. \A i \in 2..n : i - 1 \in 1..(n - 1) /\ (i - 1) + 1 = i
  BY <1>1
<1>6. \A i \in 1..(n - 1) : i + 1 \in 2..n
  BY <1>1
<1>7. InPipe(s)' = {c \in Cells : \E i \in 2..n : q[i] # HookFailed /\ q[i].cell = c}
  BY <1>4, <1>5, <1>6
<1>8. 1..n = {1} \cup (2..n) /\ 1 \notin 2..n
  BY <1>1
<1>9. InPipe(s)' = IF q[1] = HookFailed THEN InPipe(s) ELSE InPipe(s) \ {q[1].cell}
  BY <1>2, <1>3, <1>7, <1>8
<1>10. OnceInPipe(s)'
  <2> SUFFICES ASSUME NEW i \in 1..(n - 1), NEW j \in 1..(n - 1), i # j,
                      q[i + 1] # HookFailed, q[j + 1] # HookFailed
               PROVE  q[i + 1].cell # q[j + 1].cell
    BY <1>1 DEF OnceInPipe
  <2>1. i + 1 \in 1..n /\ j + 1 \in 1..n /\ i + 1 # j + 1
    BY <1>1
  <2>2. QED  BY <1>2, <2>1
<1>11. \A t \in Slots \ {s} : InPipe(t)' = InPipe(t)
  BY <1>1 DEF InPipe
<1>12. QED  BY <1>1, <1>9, <1>10, <1>11 DEF q

\* A line that is written adds its scenario, if it is a record.
LEMMA PipeAdded ==
  ASSUME Typed, NEW s \in Slots, OnceInPipe(s), NEW e \in Envelopes, Emit(s, e),
         e # HookFailed => e.cell \notin InPipe(s)
  PROVE  /\ \A t \in Slots \ {s} : pipe'[t] = pipe[t] /\ InPipe(t)' = InPipe(t)
         /\ InPipe(s)' = IF e = HookFailed THEN InPipe(s) ELSE InPipe(s) \cup {e.cell}
         /\ OnceInPipe(s)'
         /\ \A i \in DOMAIN pipe'[s] : pipe'[s][i] = e \/ \E j \in DOMAIN pipe[s] : pipe'[s][i] = pipe[s][j]
<1> DEFINE q == pipe[s]
           n == Len(pipe[s])
<1>0. \A x \in Envelopes : x # HookFailed => x.cell \in Cells
  BY DEF Envelopes
<1>1. /\ q \in Seq(Envelopes) /\ n \in Nat /\ DOMAIN q = 1..n
      /\ DOMAIN pipe'[s] = 1..(n + 1) /\ pipe'[s][n + 1] = e
      /\ \A i \in 1..n : pipe'[s][i] = q[i]
      /\ \A t \in Slots \ {s} : pipe'[t] = pipe[t]
  BY DEF Emit, Typed, WorkerTypes
<1>2. \A i, j \in 1..n : i # j /\ q[i] # HookFailed /\ q[j] # HookFailed => q[i].cell # q[j].cell
  BY <1>1 DEF OnceInPipe
<1>3. InPipe(s) = {c \in Cells : \E i \in 1..n : q[i] # HookFailed /\ q[i].cell = c}
  BY <1>1 DEF InPipe
<1>4. 1..(n + 1) = (1..n) \cup {n + 1} /\ n + 1 \notin 1..n
  BY <1>1
<1>5. InPipe(s)' = {c \in Cells : \/ \E i \in 1..n : q[i] # HookFailed /\ q[i].cell = c
                                  \/ e # HookFailed /\ e.cell = c}
  BY <1>1, <1>4 DEF InPipe
<1>6. \A i \in 1..n : q[i] # HookFailed /\ e # HookFailed => q[i].cell # e.cell
  <2>1. \A i \in 1..n : q[i] \in Envelopes
    BY <1>1
  <2>2. QED  BY <1>0, <1>3, <2>1
<1>7. OnceInPipe(s)'
  <2> SUFFICES ASSUME NEW i \in 1..(n + 1), NEW j \in 1..(n + 1), i # j,
                      pipe'[s][i] # HookFailed, pipe'[s][j] # HookFailed
               PROVE  pipe'[s][i].cell # pipe'[s][j].cell
    BY <1>1 DEF OnceInPipe
  <2>1. CASE i \in 1..n /\ j \in 1..n
    BY <1>1, <1>2, <2>1
  <2>2. CASE i = n + 1 /\ j \in 1..n
    BY <1>1, <1>6, <2>2
  <2>3. CASE i \in 1..n /\ j = n + 1
    BY <1>1, <1>6, <2>3
  <2>4. QED  BY <1>4, <2>1, <2>2, <2>3
<1>8. InPipe(s)' = IF e = HookFailed THEN InPipe(s) ELSE InPipe(s) \cup {e.cell}
  BY <1>0, <1>3, <1>5
<1>9. \A t \in Slots \ {s} : InPipe(t)' = InPipe(t)
  BY <1>1 DEF InPipe
<1>10. \A i \in DOMAIN pipe'[s] : pipe'[s][i] = e \/ \E j \in DOMAIN pipe[s] : pipe'[s][i] = pipe[s][j]
  BY <1>1, <1>4
<1>11. QED  BY <1>1, <1>7, <1>8, <1>9, <1>10

\* A scenario is handed to one worker, which runs it once.
LEMMA HandsStep ==
  ASSUME Typed, Shape, Hands, Fresh, [Next]_vars
  PROVE  Hands'
<1> DEFINE Own(t) == /\ seen[t] \subseteq given[t] /\ InPipe(t) \subseteq given[t] \ seen[t]
                     /\ Alive(t) => left[t] \subseteq (given[t] \ seen[t]) \ InPipe(t)
                     /\ OnceInPipe(t)
<1>0. 1 \in Slots /\ \A t \in Slots : Own(t)
  BY RunConstants DEF Slots, Hands
\* Nobody's share changes.
<1>a. ASSUME UNCHANGED <<given, seen, pipe, stage, left>>
      PROVE  \A t \in Slots : Own(t)'
  BY <1>0, <1>a DEF InPipe, OnceInPipe, Alive
\* Everybody's share is what was handed out: the workers are not alive, and their pipes empty.
<1>b. ASSUME UNCHANGED <<pipe, stage, left>>, seen' = [t \in Slots |-> {}], AllOver
      PROVE  \A t \in Slots : Own(t)'
  <2>1. \A t \in Slots : group[t] # "running" /\ pipe[t] = << >> /\ ~Alive(t)
    BY <1>b DEF AllOver, Shape
  <2>2. \A t \in Slots : pipe'[t] = << >> /\ ~Alive(t)' /\ seen'[t] = {}
    BY <1>b, <2>1 DEF Alive
  <2>3. QED  BY <2>2 DEF InPipe, OnceInPipe
<1>c. ASSUME \A t \in Slots : Own(t)', UNCHANGED given,
             \A t \in Slots : Busy(t)' => Busy(t),
             round' # {} => round' = round /\ UNCHANGED pass
      PROVE  Hands'
  <2>1. given[1]' = given[1]
    BY <1>c
  <2>2. \A s, t \in Slots : s # t /\ Busy(s)' /\ Busy(t)' =>
          given'[s] \subseteq CellsOf(ParallelFiles) /\ given'[s] \cap given'[t] = {}
    BY <1>c DEF Hands
  <2>3. round' # {} => given'[1] = round' /\ pass' <= Passes /\ \A s \in Slots : s # 1 => ~Busy(s)'
    BY <1>c DEF Hands
  <2>4. \A s, t \in Slots : (s # t /\ Busy(s) /\ Busy(t) =>
          given[s] \subseteq CellsOf(ParallelFiles) /\ given[s] \cap given[t] = {})'
    BY <2>2
  <2>5. QED  BY <1>c, <2>3, <2>4 DEF Hands
<1>1. CASE UNCHANGED vars
  BY <1>1, <1>a, <1>c DEF vars, Busy
<1>2. CASE Signal
  BY <1>2, <1>a, <1>c DEF Signal, workerVars, tallyVars, Busy
<1>3. CASE Open
  BY <1>3, <1>a, <1>c DEF Open, workerVars, tallyVars, Busy
<1>4. CASE Opened
  <2>1. AllOver /\ round = {} /\ round' = {} /\ UNCHANGED <<pipe, stage, left>>
        /\ seen' = [t \in Slots |-> {}]
    BY <1>4 DEF Opened, Prepare, Shape, Busy, AllOver
  <2>2. \A t \in Slots : Own(t)'
    BY <1>b, <2>1
  <2>3. \A t \in Slots : given'[t] = IF t \in 1..WorkerCount THEN CellsOf(Bucket(t)) ELSE {}
    BY <1>4 DEF Opened, Prepare
  <2>4. ASSUME NEW s \in Slots, NEW t \in Slots, s # t
        PROVE  given'[s] \subseteq CellsOf(ParallelFiles) /\ given'[s] \cap given'[t] = {}
    BY <2>3, <2>4, BucketsPartition DEF CellsOf
  <2>5. QED  BY <2>1, <2>2, <2>4 DEF Hands
<1>5. CASE OpenFailed
  <2>1. round' = {} /\ UNCHANGED <<given, seen, pipe, stage, left, group>>
    BY <1>5 DEF OpenFailed, workerVars, Shape
  <2>2. QED  BY <2>1, <1>a, <1>c DEF Busy
<1>6. CASE ParallelOver
  BY <1>6, <1>a, <1>c DEF ParallelOver, workerVars, Busy
<1>7. CASE SerialNext
  <2>1. CASE serials = {}
    BY <1>7, <2>1, <1>a, <1>c DEF SerialNext, Busy
  <2>2. CASE serials # {}
    <3>1. /\ group' = [s \in Slots |-> IF s = 1 THEN "preparing" ELSE "idle"]
          /\ seen' = [s \in Slots |-> {}] /\ AllOver /\ phase = "serial"
          /\ UNCHANGED <<pipe, stage, left, round>>
      BY <1>7, <2>2 DEF SerialNext, Prepare
    <3>2. round' = {} /\ \A s \in Slots : s # 1 => ~Busy(s)'
      BY <3>1 DEF Shape, Busy
    <3>3. \A t \in Slots : Own(t)'
      BY <3>1, <1>b
    <3>4. QED  BY <3>2, <3>3 DEF Hands
  <2>3. QED  BY <2>1, <2>2
<1>8. CASE StartRound
  <2>1. /\ group' = [s \in Slots |-> IF s = 1 THEN "preparing" ELSE "idle"]
        /\ given' = [s \in Slots |-> IF s = 1 THEN Due ELSE {}] /\ round' = Due
        /\ seen' = [s \in Slots |-> {}] /\ AllOver /\ phase = "proof"
        /\ UNCHANGED <<pipe, stage, left, pass>>
    BY <1>8 DEF StartRound, Prepare
  <2>2. pass <= Passes
    BY <2>1 DEF Shape
  <2>3. given'[1] = round' /\ pass' <= Passes /\ \A s \in Slots : s # 1 => ~Busy(s)'
    BY <1>0, <2>1, <2>2 DEF Busy
  <2>4. \A t \in Slots : Own(t)'
    BY <2>1, <1>b
  <2>5. QED  BY <2>3, <2>4 DEF Hands
<1>9. CASE RoundOver
  BY <1>9, <1>a, <1>c DEF RoundOver, workerVars, Busy
<1>10. CASE RoundsDone
  BY <1>10, <1>a, <1>c DEF RoundsDone, workerVars, tallyVars, Busy
<1>11. CASE Close
  <2>1. round' = {} /\ UNCHANGED <<given, seen, pipe, stage, left, group>>
    BY <1>11 DEF Close, workerVars, tallyVars, Shape
  <2>2. QED  BY <2>1, <1>a, <1>c DEF Busy
<1>12. CASE Thrown
  BY <1>12, <1>a, <1>c DEF Thrown, workerVars, tallyVars, Busy
<1>13. CASE Verdict
  BY <1>13, <1>a, <1>c DEF Verdict, workerVars, tallyVars, Busy
<1>14. ASSUME NEW s \in Slots, Spawn(s)
       PROVE  Hands'
  <2>1. seen[s] = {} /\ pipe[s] = << >> /\ Busy(s)
    BY <1>14 DEF Spawn, Shape, Busy
  <2>2. /\ UNCHANGED <<given, seen, pipe, round, pass>> /\ left' = [left EXCEPT ![s] = given[s]]
        /\ stage' = [stage EXCEPT ![s] = "before"] /\ group' = [group EXCEPT ![s] = "running"]
    BY <1>14 DEF Spawn, tallyVars
  <2>3. Own(s)'
    <3>1. left'[s] = given[s] /\ pipe'[s] = << >> /\ seen'[s] = {}
      BY <2>1, <2>2 DEF Typed, WorkerTypes
    <3>2. QED  BY <2>2, <3>1 DEF InPipe, OnceInPipe
  <2>4. ASSUME NEW t \in Slots \ {s}
        PROVE  Own(t)'
    BY <1>0, <2>2 DEF InPipe, OnceInPipe, Alive, Typed, WorkerTypes
  <2>5. \A t \in Slots : Busy(t)' => Busy(t)
    BY <2>1, <2>2 DEF Busy, Typed, ParentTypes
  <2>6. QED  BY <1>c, <2>2, <2>3, <2>4, <2>5
<1>15. ASSUME NEW s \in Slots, SkipSpawn(s)
       PROVE  Hands'
  BY <1>15, <1>a, <1>c DEF SkipSpawn, tallyVars, Busy, Typed, ParentTypes
<1>16. ASSUME NEW s \in Slots, phase # "done", ReadEnvelope(s)
       PROVE  Hands'
  <2>1. /\ UNCHANGED <<given, stage, left, round, pass, group>>
        /\ group[s] = "running" /\ pipe[s] # << >> /\ pipe' = [pipe EXCEPT ![s] = Tail(@)]
    BY <1>16 DEF ReadEnvelope, parentVars, workerVars
  <2>2. /\ \A t \in Slots \ {s} : pipe'[t] = pipe[t] /\ InPipe(t)' = InPipe(t)
        /\ InPipe(s)' = IF Head(pipe[s]) = HookFailed THEN InPipe(s)
                        ELSE InPipe(s) \ {Head(pipe[s]).cell}
        /\ OnceInPipe(s)'
    BY <1>0, <2>1, PipeTaken
  <2>3. CASE Head(pipe[s]) = HookFailed
    <3>1. UNCHANGED seen
      BY <1>16, <2>3 DEF ReadEnvelope
    <3>2. \A t \in Slots : Own(t)'
      BY <1>0, <2>1, <2>2, <2>3, <3>1 DEF Alive, OnceInPipe
    <3>3. QED  BY <1>c, <2>1, <3>2 DEF Busy
  <2>4. CASE Head(pipe[s]) # HookFailed
    <3> DEFINE c == Head(pipe[s]).cell
    <3>1. c \in given[s] \ seen[s] /\ c \in InPipe(s) /\ c \in Cells
      BY <1>16, <2>1, <2>4, ReadFacts
    <3>2. seen' = [seen EXCEPT ![s] = @ \cup {c}]
      BY <1>16, <2>4 DEF ReadEnvelope
    <3>3. InPipe(s)' = InPipe(s) \ {c}
      BY <2>2, <2>4
    <3> HIDE DEF c
    <3>4. seen'[s] = seen[s] \cup {c} /\ \A t \in Slots \ {s} : seen'[t] = seen[t]
      BY <3>2 DEF Typed, TallyTypes
    <3>5. Own(s)'
      BY <1>0, <2>1, <2>2, <3>1, <3>3, <3>4 DEF Alive
    <3>6. ASSUME NEW t \in Slots \ {s}
          PROVE  Own(t)'
      BY <1>0, <2>1, <2>2, <3>4 DEF Alive, OnceInPipe
    <3>7. QED  BY <1>c, <2>1, <3>5, <3>6 DEF Busy
  <2>5. QED  BY <2>3, <2>4
<1>17. ASSUME NEW s \in Slots, WorkerClosed(s)
       PROVE  Hands'
  BY <1>17, <1>a, <1>c DEF WorkerClosed, workerVars, tallyVars, Busy, Typed, ParentTypes
<1>18. ASSUME NEW s \in Slots, DropLine(s)
       PROVE  Hands'
  <2>1. /\ UNCHANGED <<given, stage, left, round, pass, group, seen>>
        /\ pipe[s] # << >> /\ pipe' = [pipe EXCEPT ![s] = Tail(@)]
    BY <1>18 DEF DropLine, parentVars, workerVars, tallyVars
  <2>2. /\ \A t \in Slots \ {s} : pipe'[t] = pipe[t] /\ InPipe(t)' = InPipe(t)
        /\ InPipe(s)' \subseteq InPipe(s) /\ OnceInPipe(s)'
        /\ InPipe(s)' = IF Head(pipe[s]) = HookFailed THEN InPipe(s)
                        ELSE InPipe(s) \ {Head(pipe[s]).cell}
    BY <1>0, <2>1, PipeTaken
  <2>3. \A t \in Slots : Own(t)'
    BY <1>0, <2>1, <2>2 DEF Alive, OnceInPipe
  <2>4. QED  BY <1>c, <2>1, <2>3 DEF Busy
<1>19. ASSUME NEW s \in Slots, PrepareFails(s)
       PROVE  Hands'
  BY <1>19, <1>a, <1>c DEF PrepareFails, workerVars, tallyVars, Busy, Typed, ParentTypes
<1>20. ASSUME NEW s \in Slots, Process(s)
       PROVE  Hands'
  <2>1. UNCHANGED <<given, round, pass, group, seen>> /\ Alive(s)
    BY <1>20, ProcessFrame
  <2>2. left[s] \subseteq (given[s] \ seen[s]) \ InPipe(s) /\ left[s] \in SUBSET Cells
    BY <1>0, <2>1 DEF Typed, WorkerTypes
  <2>3. ASSUME NEW e \in Envelopes, Emit(s, e), e # HookFailed => e.cell \in left[s],
               left' = [left EXCEPT ![s] = IF e = HookFailed THEN @ ELSE @ \ {e.cell}],
               \A t \in Slots \ {s} : stage'[t] = stage[t]
        PROVE  \A t \in Slots : Own(t)'
    <3>1. /\ \A t \in Slots \ {s} : pipe'[t] = pipe[t] /\ InPipe(t)' = InPipe(t)
          /\ InPipe(s)' = IF e = HookFailed THEN InPipe(s) ELSE InPipe(s) \cup {e.cell}
          /\ OnceInPipe(s)'
      BY <1>0, <2>2, <2>3, PipeAdded
    <3>2. left'[s] = (IF e = HookFailed THEN left[s] ELSE left[s] \ {e.cell})
          /\ \A t \in Slots \ {s} : left'[t] = left[t]
      BY <2>3 DEF Typed, WorkerTypes
    <3>3. Own(s)'
      BY <1>0, <2>1, <2>2, <2>3, <3>1, <3>2
    <3>4. ASSUME NEW t \in Slots \ {s}
          PROVE  Own(t)'
      BY <1>0, <2>1, <2>3, <3>1, <3>2 DEF Alive, OnceInPipe
    <3>5. QED  BY <3>3, <3>4
  <2>4. ASSUME UNCHANGED <<pipe, left>>, \A t \in Slots \ {s} : stage'[t] = stage[t]
        PROVE  \A t \in Slots : Own(t)'
    BY <1>0, <2>1, <2>2, <2>4 DEF Alive, OnceInPipe, InPipe
  <2>5. ASSUME BeforeAll(s)
        PROVE  \A t \in Slots : Own(t)'
    BY <2>3, <2>4, <2>5, HookFailedEnvelope DEF BeforeAll, workerFrame, Typed, WorkerTypes
  <2>6. ASSUME RunScenario(s)
        PROVE  \A t \in Slots : Own(t)'
    <3> DEFINE c == Foremost(left[s])
    <3>1. c \in left[s] /\ c \in Cells
      BY <2>2, <2>6, ForemostIn DEF RunScenario
    <3>2. PICK outcome \in Outcomes : Emit(s, [cell |-> c, outcome |-> outcome])
      BY <2>6 DEF RunScenario, Outcomes
    <3>3. left' = [left EXCEPT ![s] = @ \ {c}] /\ UNCHANGED stage
      BY <2>6 DEF RunScenario
    <3> HIDE DEF c
    <3> DEFINE e == [cell |-> c, outcome |-> outcome]
    <3>4. e \in Envelopes /\ e # HookFailed /\ e.cell = c
      BY <3>1 DEF Envelopes, HookFailed, Outcomes
    <3> HIDE DEF e
    <3>5. QED  BY <2>3, <3>1, <3>2, <3>3, <3>4 DEF e
  <2>7. ASSUME ScenariosOver(s)
        PROVE  \A t \in Slots : Own(t)'
    BY <2>4, <2>7 DEF ScenariosOver, Typed, WorkerTypes
  <2>8. ASSUME AfterAll(s)
        PROVE  \A t \in Slots : Own(t)'
    BY <2>3, <2>4, <2>8, HookFailedEnvelope DEF AfterAll, Ended, Typed, WorkerTypes
  <2>9. ASSUME SignalExit(s) \/ WorkerDies(s) \/ ProcessExit(s)
        PROVE  \A t \in Slots : Own(t)'
    BY <2>4, <2>9 DEF SignalExit, WorkerDies, ProcessExit, Ended, Typed, WorkerTypes
  <2>10. \A t \in Slots : Own(t)'
    BY <1>20, <2>5, <2>6, <2>7, <2>8, <2>9 DEF Process
  <2>11. QED  BY <1>c, <2>1, <2>10 DEF Busy
<1>21. QED
  BY StepCases, <1>1, <1>2, <1>3, <1>4, <1>5, <1>6, <1>7, <1>8, <1>9, <1>10, <1>11, <1>12,
     <1>13, <1>14, <1>15, <1>16, <1>17, <1>18, <1>19, <1>20

\* A record is the first of its scenario in the environment, or one it needs.
LEMMA FreshStep ==
  ASSUME Typed, Shape, Hands, Fresh, [Next]_vars
  PROVE  Fresh'
<1>0. 1 \in Slots /\ Passes \in Nat /\ pass \in Nat
  BY RunConstants DEF Slots, Typed, ParentTypes
\* Nobody is given anything, and nothing is recorded.
<1>a. ASSUME UNCHANGED <<pass, runs, given, seen>>, serials' \subseteq serials,
             \A s \in Slots : Busy(s)' => Busy(s) /\ UNCHANGED round,
             phase' \in {"pass", "opening"} => phase \in {"pass", "opening"}
      PROVE  Fresh'
  <2>1. \A c \in Cells : NeedsProof(pass, c)' = NeedsProof(pass, c)
    BY <1>a DEF NeedsProof
  <2>2. \A p \in 1..Passes, c \in Cells : p > pass' => runs'[p][c] = << >>
    BY <1>a DEF Fresh
  <2>3. ASSUME pass <= Passes, NEW c \in Cells
        PROVE  /\ phase' \in {"pass", "opening"} => runs[pass][c] = << >>
               /\ FileOf(c) \in serials' =>
                    runs[pass][c] = << >> /\ \A s \in Slots : Busy(s)' => c \notin given[s]
               /\ \A s \in Slots : Busy(s)' /\ c \in given[s] =>
                    IF c \in seen[s] THEN runs[pass][c] # << >>
                    ELSE IF round' = {} THEN runs[pass][c] = << >> ELSE NeedsProof(pass, c)
    BY <1>a, <2>3 DEF Fresh
  <2>4. QED  BY <1>a, <2>1, <2>2, <2>3 DEF Fresh
<1>1. CASE UNCHANGED vars
  BY <1>1, <1>a DEF vars, Busy
<1>2. CASE Signal
  BY <1>2, <1>a DEF Signal, workerVars, tallyVars, Busy
<1>3. CASE Open
  BY <1>3, <1>a DEF Open, workerVars, tallyVars, Busy
<1>4. CASE Opened
  <2>1. /\ phase = "opening" /\ phase' = "parallel" /\ round = {} /\ round' = {}
        /\ serials' = SerialFiles /\ seen' = [s \in Slots |-> {}] /\ UNCHANGED <<pass, runs>>
        /\ given' = [s \in Slots |-> IF s \in 1..WorkerCount THEN CellsOf(Bucket(s)) ELSE {}]
    BY <1>4 DEF Opened, Prepare, Shape
  <2>2. \A c \in Cells : pass <= Passes => runs[pass][c] = << >>
    BY <2>1 DEF Fresh
  <2>3. \A s \in Slots : \A c \in given'[s] : FileOf(c) \in ParallelFiles
    BY <2>1, BucketsPartition DEF CellsOf
  <2>4. \A f \in ParallelFiles : IsParallel(f) /\ f \notin SerialFiles
    BY DEF ParallelFiles, SerialFiles, IsParallel
  <2>5. \A p \in 1..Passes, c \in Cells : p > pass' => runs'[p][c] = << >>
    BY <2>1 DEF Fresh
  <2>6. ASSUME pass <= Passes, NEW c \in Cells
        PROVE  /\ FileOf(c) \in serials' => \A s \in Slots : c \notin given'[s]
               /\ \A s \in Slots : c \in given'[s] => c \notin seen'[s] /\ runs[pass][c] = << >>
    BY <2>1, <2>2, <2>3, <2>4, <2>6
  <2>7. QED  BY <2>1, <2>2, <2>5, <2>6 DEF Fresh
<1>5. CASE OpenFailed
  <2>1. /\ \A s \in Slots : ~Busy(s) /\ ~Busy(s)'
        /\ UNCHANGED <<runs, serials>> /\ serials = {} /\ phase = "opening"
    BY <1>5 DEF OpenFailed, Shape, Busy
  <2>2. pass' = pass \/ pass' = pass + 1
    BY <1>5 DEF OpenFailed
  <2>3. phase' = "pass" => pass' = pass + 1
    BY <1>5 DEF OpenFailed
  <2>4. \A p \in 1..Passes, c \in Cells : p > pass => runs[p][c] = << >>
    BY DEF Fresh
  <2>5. \A p \in 1..Passes, c \in Cells : p > pass' => runs[p][c] = << >>
    BY <1>0, <2>2, <2>4
  <2>6. phase' \in {"pass", "verdict"}
    BY <1>5 DEF OpenFailed
  <2>7. phase' = "pass" /\ pass' <= Passes =>
          pass' \in 1..Passes /\ \A c \in Cells : runs[pass'][c] = << >>
    BY <1>0, <2>3, <2>4
  <2>8. QED  BY <2>1, <2>5, <2>6, <2>7 DEF Fresh
<1>6. CASE ParallelOver
  BY <1>6, <1>a DEF ParallelOver, workerVars, Busy
<1>7. CASE SerialNext
  <2>1. CASE serials = {}
    BY <1>7, <2>1, <1>a DEF SerialNext, Busy
  <2>2. CASE serials # {}
    <3> DEFINE file == FileOf(Foremost(CellsOf(serials)))
    <3>0. CellsOf(serials) \in SUBSET Cells /\ CellsOf(serials) # {}
      BY <2>2 DEF CellsOf, Typed, ParentTypes, SerialFiles, Files
    <3>1. file \in serials
      BY <3>0, ForemostIn DEF CellsOf
    <3>2. /\ group' = [s \in Slots |-> IF s = 1 THEN "preparing" ELSE "idle"]
          /\ given' = [s \in Slots |-> IF s = 1 THEN CellsOf({file}) ELSE {}]
          /\ seen' = [s \in Slots |-> {}] /\ phase = "serial"
          /\ serials' = serials \ {file} /\ UNCHANGED <<phase, pass, runs, round>>
      BY <1>7, <2>2 DEF SerialNext, Prepare
    <3> HIDE DEF file
    <3>3. round = {}
      BY <3>2 DEF Shape
    <3>4. \A p \in 1..Passes, c \in Cells : p > pass' => runs'[p][c] = << >>
      BY <3>2 DEF Fresh
    <3>5. ASSUME pass <= Passes, NEW c \in Cells
          PROVE  /\ FileOf(c) \in serials' =>
                      runs[pass][c] = << >> /\ \A s \in Slots : c \notin given'[s]
                 /\ \A s \in Slots : c \in given'[s] => c \notin seen'[s] /\ runs[pass][c] = << >>
      BY <3>1, <3>2, <3>5 DEF Fresh, CellsOf
    <3>6. QED  BY <3>2, <3>3, <3>4, <3>5 DEF Fresh
  <2>3. QED  BY <2>1, <2>2
<1>8. CASE StartRound
  <2>1. /\ group' = [s \in Slots |-> IF s = 1 THEN "preparing" ELSE "idle"]
        /\ given' = [s \in Slots |-> IF s = 1 THEN Due ELSE {}] /\ round' = Due
        /\ seen' = [s \in Slots |-> {}] /\ phase = "proof" /\ Due # {}
        /\ UNCHANGED <<phase, pass, runs, serials>>
    BY <1>8 DEF StartRound, Prepare
  <2>2. serials' = {}
    BY <2>1 DEF Shape
  <2>3. \A c \in Cells : NeedsProof(pass, c)' = NeedsProof(pass, c)
    BY <2>1 DEF NeedsProof
  <2>4. ASSUME NEW c \in Cells, NEW s \in Slots, c \in given'[s]
        PROVE  c \notin seen'[s] /\ NeedsProof(pass, c)'
    BY <2>1, <2>3, <2>4 DEF Due
  <2>5. \A p \in 1..Passes, c \in Cells : p > pass' => runs'[p][c] = << >>
    BY <2>1 DEF Fresh
  <2>6. QED  BY <2>1, <2>2, <2>4, <2>5 DEF Fresh
<1>9. CASE RoundOver
  BY <1>9, <1>a DEF RoundOver, workerVars, Busy
<1>10. CASE RoundsDone
  BY <1>10, <1>a DEF RoundsDone, workerVars, tallyVars, Busy
<1>11. CASE Close
  <2>1. /\ \A s \in Slots : ~Busy(s) /\ ~Busy(s)'
        /\ UNCHANGED <<runs, serials>> /\ serials = {} /\ pass' = pass + 1
    BY <1>11 DEF Close, tallyVars, Shape, Busy
  <2>2. \A p \in 1..Passes, c \in Cells : p > pass => runs[p][c] = << >>
    BY DEF Fresh
  <2>3. \A p \in 1..Passes, c \in Cells : p > pass' => runs[p][c] = << >>
    BY <1>0, <2>1, <2>2
  <2>4. pass' <= Passes => pass' \in 1..Passes /\ \A c \in Cells : runs[pass'][c] = << >>
    BY <1>0, <2>1, <2>2
  <2>5. QED  BY <2>1, <2>3, <2>4 DEF Fresh
<1>12. CASE Thrown
  BY <1>12, <1>a DEF Thrown, workerVars, tallyVars, Busy
<1>13. CASE Verdict
  BY <1>13, <1>a DEF Verdict, workerVars, tallyVars, Busy
<1>14. ASSUME NEW s \in Slots, Spawn(s)
       PROVE  Fresh'
  BY <1>14, <1>a DEF Spawn, tallyVars, Busy, Typed, ParentTypes
<1>15. ASSUME NEW s \in Slots, SkipSpawn(s)
       PROVE  Fresh'
  BY <1>15, <1>a DEF SkipSpawn, tallyVars, Busy, Typed, ParentTypes
<1>16. ASSUME NEW s \in Slots, phase # "done", ReadEnvelope(s)
       PROVE  Fresh'
  <2>1. /\ UNCHANGED <<phase, pass, serials, given, group, round>>
        /\ group[s] = "running" /\ pipe[s] # << >> /\ Busy(s)
    BY <1>16 DEF ReadEnvelope, parentVars, Busy
  <2>2. CASE Head(pipe[s]) = HookFailed
    <3>1. UNCHANGED <<seen, runs>>
      BY <1>16, <2>2 DEF ReadEnvelope
    <3>2. QED  BY <1>a, <2>1, <3>1 DEF Busy
  <2>3. CASE Head(pipe[s]) # HookFailed
    <3> DEFINE c == Head(pipe[s]).cell
               outcome == Head(pipe[s]).outcome
    <3>1. /\ pass \in 1..Passes /\ c \in Cells /\ outcome \in Outcomes
          /\ c \in given[s] \ seen[s] /\ runs[pass][c] \in Seq(Outcomes)
      BY <1>16, <2>1, <2>3, ReadFacts
    <3>2. /\ seen' = [seen EXCEPT ![s] = @ \cup {c}]
          /\ runs' = [runs EXCEPT ![pass][c] = Append(@, outcome)]
      BY <1>16, <2>3 DEF ReadEnvelope
    <3> HIDE DEF c, outcome
    <3>3. /\ runs'[pass][c] # << >>
          /\ \A p \in 1..Passes, d \in Cells : p # pass \/ d # c => runs'[p][d] = runs[p][d]
      <4>1. Append(runs[pass][c], outcome) # << >>
        BY <3>1
      <4>2. runs'[pass][c] = Append(runs[pass][c], outcome)
        BY <3>1, <3>2 DEF Typed, TallyTypes
      <4>3. \A p \in 1..Passes, d \in Cells : p # pass \/ d # c => runs'[p][d] = runs[p][d]
        BY <3>1, <3>2 DEF Typed, TallyTypes
      <4>4. QED  BY <4>1, <4>2, <4>3
    <3>4. seen'[s] = seen[s] \cup {c} /\ \A t \in Slots \ {s} : seen'[t] = seen[t]
      BY <3>2 DEF Typed, TallyTypes
    <3>5. \A t \in Slots \ {s} : Busy(t) => c \notin given[t]
      BY <2>1, <3>1 DEF Hands
    <3>6. phase \notin {"pass", "opening"} /\ FileOf(c) \notin serials
      BY <2>1, <3>1 DEF Fresh, Shape
    <3>7. \A p \in 1..Passes, d \in Cells : p > pass => runs'[p][d] = << >>
      BY <3>1, <3>3 DEF Fresh
    <3>8. ASSUME NEW d \in Cells
          PROVE  /\ FileOf(d) \in serials =>
                      runs'[pass][d] = << >> /\ \A t \in Slots : Busy(t) => d \notin given[t]
                 /\ \A t \in Slots : Busy(t) /\ d \in given[t] =>
                      IF d \in seen'[t] THEN runs'[pass][d] # << >>
                      ELSE IF round = {} THEN runs'[pass][d] = << >> ELSE NeedsProof(pass, d)'
      <4>1. CASE d = c
        BY <3>1, <3>3, <3>4, <3>5, <3>6, <4>1
      <4>2. CASE d # c
        <5>1. runs'[pass][d] = runs[pass][d] /\ \A t \in Slots : d \in seen'[t] <=> d \in seen[t]
          BY <3>1, <3>3, <3>4, <4>2
        <5>2. NeedsProof(pass, d)' = NeedsProof(pass, d)
          BY <2>1, <5>1 DEF NeedsProof
        <5>3. QED  BY <3>1, <5>1, <5>2 DEF Fresh
      <4>3. QED  BY <4>1, <4>2
    <3>9. \A t \in Slots : Busy(t)' = Busy(t)
      BY <2>1 DEF Busy
    <3>10. QED  BY <2>1, <3>6, <3>7, <3>8, <3>9 DEF Fresh
  <2>4. QED  BY <2>2, <2>3
<1>17. ASSUME NEW s \in Slots, WorkerClosed(s)
       PROVE  Fresh'
  BY <1>17, <1>a DEF WorkerClosed, workerVars, tallyVars, Busy, Typed, ParentTypes
<1>18. ASSUME NEW s \in Slots, DropLine(s)
       PROVE  Fresh'
  BY <1>18, <1>a DEF DropLine, parentVars, tallyVars, Busy
<1>19. ASSUME NEW s \in Slots, PrepareFails(s)
       PROVE  Fresh'
  BY <1>19, <1>a DEF PrepareFails, tallyVars, Busy, Typed, ParentTypes
<1>20. ASSUME NEW s \in Slots, Process(s)
       PROVE  Fresh'
  BY <1>20, <1>a, ProcessFrame DEF Busy
<1>21. QED
  BY StepCases, <1>1, <1>2, <1>3, <1>4, <1>5, <1>6, <1>7, <1>8, <1>9, <1>10, <1>11, <1>12,
     <1>13, <1>14, <1>15, <1>16, <1>17, <1>18, <1>19, <1>20

-----------------------------------------------------------------------------
(* The two counters.                                                        *)

\* There are finitely many executions.
LEMMA ExecutionsCounted ==
  /\ IsFiniteSet(Executions) /\ IsFiniteSet(FirstRuns)
  /\ FirstRuns \subseteq Executions
  /\ Cardinality(Executions) = (Passes * Len(Pickles)) * ProofRuns
  /\ Cardinality(FirstRuns) = Passes * Len(Pickles)
<1>0. Passes \in Nat /\ ProofRuns \in Nat \ {0} /\ Len(Pickles) \in Nat
  BY RunConstants, CellsCounted
<1>1. IsFiniteSet(1..Passes) /\ Cardinality(1..Passes) = Passes
  <2>1. 1 \in Int /\ Passes \in Int
    BY <1>0
  <2>2. IsFiniteSet(1..Passes) /\ Cardinality(1..Passes) = IF 1 > Passes THEN 0 ELSE Passes - 1 + 1
    BY <2>1, FS_Interval
  <2>3. QED  BY <1>0, <2>2
<1>2. IsFiniteSet(1..ProofRuns) /\ Cardinality(1..ProofRuns) = ProofRuns
  <2>1. 1 \in Int /\ ProofRuns \in Int
    BY <1>0
  <2>2. IsFiniteSet(1..ProofRuns)
        /\ Cardinality(1..ProofRuns) = IF 1 > ProofRuns THEN 0 ELSE ProofRuns - 1 + 1
    BY <2>1, FS_Interval
  <2>3. QED  BY <1>0, <2>2
<1> DEFINE P == (1..Passes) \X Cells
<1>3. IsFiniteSet(P) /\ Cardinality(P) = Passes * Len(Pickles)
  <2>1. IsFiniteSet(Cells) /\ Cardinality(Cells) = Len(Pickles)
    BY CellsCounted
  <2>2. /\ IsFiniteSet((1..Passes) \X Cells)
        /\ Cardinality((1..Passes) \X Cells) = Cardinality(1..Passes) * Cardinality(Cells)
    BY <1>1, <2>1, FS_Product, Zenon
  <2>3. QED  BY <1>1, <2>1, <2>2
<1>4. IsFiniteSet({1}) /\ Cardinality({1}) = 1
  BY FS_Singleton
<1> HIDE DEF P
<1>5. /\ IsFiniteSet(P \X (1..ProofRuns)) /\ IsFiniteSet(P \X {1})
      /\ Cardinality(P \X (1..ProofRuns)) = Cardinality(P) * Cardinality(1..ProofRuns)
      /\ Cardinality(P \X {1}) = Cardinality(P) * Cardinality({1})
  BY <1>2, <1>3, <1>4, FS_Product
<1>6. Passes * Len(Pickles) \in Nat
  BY <1>0
<1>7. Cardinality(P \X {1}) = Passes * Len(Pickles)
  BY <1>3, <1>4, <1>5, <1>6
<1>8. {1} \subseteq 1..ProofRuns
  BY <1>0
<1>9. QED  BY <1>2, <1>3, <1>5, <1>7, <1>8 DEF P, Executions, FirstRuns

\* The records are executions, and so are the first runs.
LEMMA RecordsFinite ==
  /\ IsFiniteSet(Records) /\ IsFiniteSet(FirstRuns \cup Records)
  /\ Cardinality(Records) \in Nat
  /\ Cardinality(Records) <= Cardinality(Executions)
<1>1. Records \in SUBSET Executions
  BY DEF Records
<1>2. IsFiniteSet(Records) /\ Cardinality(Records) <= Cardinality(Executions)
  BY <1>1, ExecutionsCounted, FS_Subset
<1>3. IsFiniteSet(FirstRuns \cup Records)
  BY <1>2, ExecutionsCounted, FS_Union
<1>4. QED  BY <1>2, <1>3, FS_CardinalityType

\* One more run each: as many executions as cells, and all of them new when
\* the cells need a proof run.
LEMMA NextRunsCounted ==
  ASSUME Typed, NEW S \in SUBSET Cells, pass \in 1..Passes,
         \A c \in S : NeedsProof(pass, c)
  PROVE  /\ IsFiniteSet(S) /\ Cardinality(S) \in Nat
         /\ IsFiniteSet(NextRuns(S)) /\ Cardinality(NextRuns(S)) = Cardinality(S)
         /\ Cardinality((FirstRuns \cup Records) \cup NextRuns(S))
              = Cardinality(FirstRuns \cup Records) + Cardinality(S)
<1> DEFINE next == [c \in S |-> <<<<pass, c>>, Len(runs[pass][c]) + 1>>]
           old == FirstRuns \cup Records
<1>1. IsFiniteSet(S) /\ Cardinality(S) \in Nat
  BY CellsCounted, FS_Subset, FS_CardinalityType
<1>2. next \in Bijection(S, NextRuns(S))
  <2>1. next \in [S -> NextRuns(S)]
    BY DEF NextRuns
  <2>2. \A c, d \in S : next[c] = next[d] => c = d
    OBVIOUS
  <2>3. \A x \in NextRuns(S) : \E c \in S : next[c] = x
    BY DEF NextRuns
  <2>4. QED  BY <2>1, <2>2, <2>3 DEF Bijection, Injection, Surjection, IsInjective
<1>3. IsFiniteSet(NextRuns(S)) /\ Cardinality(NextRuns(S)) = Cardinality(S)
  <2>1. ExistsBijection(S, NextRuns(S))
    BY <1>2 DEF ExistsBijection
  <2>2. QED  BY <1>1, <2>1, FS_Bijection
<1>4. old \cap NextRuns(S) = {}
  <2> SUFFICES ASSUME NEW c \in S, <<<<pass, c>>, Len(runs[pass][c]) + 1>> \in old
               PROVE  FALSE
    BY DEF NextRuns
  <2>1. Len(runs[pass][c]) \in Nat \ {0}
    BY DEF NeedsProof
  <2>2. <<<<pass, c>>, Len(runs[pass][c]) + 1>> \notin FirstRuns
    BY <2>1 DEF FirstRuns
  <2>3. <<<<pass, c>>, Len(runs[pass][c]) + 1>> \notin Records
    BY <2>1 DEF Records
  <2>4. QED  BY <2>2, <2>3
<1>5. Cardinality(old) \in Nat
  BY RecordsFinite, FS_CardinalityType
<1>6. Cardinality(old \cup NextRuns(S)) = Cardinality(old) + Cardinality(S)
  <2>1. Cardinality(old \cup NextRuns(S))
          = Cardinality(old) + Cardinality(NextRuns(S)) - Cardinality(old \cap NextRuns(S))
    BY <1>3, RecordsFinite, FS_Union
  <2>2. Cardinality(old \cap NextRuns(S)) = 0
    BY <1>4, FS_EmptySet
  <2> HIDE DEF old
  <2>3. QED  BY <1>1, <1>3, <1>5, <2>1, <2>2
<1>7. QED  BY <1>1, <1>3, <1>6

\* The counters are the records written and, while no signal came and every
\* program started, the records promised.
LEMMA CountedStep ==
  ASSUME Typed, Shape, Hands, Fresh, Counted, [Next]_vars, Typed'
  PROVE  Counted'
<1> DEFINE Owed(p) == Len(Pickles) * (Passes + 1 - p)
<1>0. /\ Passes \in Nat /\ Len(Pickles) \in Nat /\ pass \in Nat /\ ProofRuns \in Nat \ {0}
      /\ 1 \in Slots /\ Cardinality({}) = 0 /\ seen[1] \subseteq Cells /\ round \subseteq Cells
  <2>1. Controls \subseteq Cells /\ Passes \in Nat /\ ProofRuns \in Nat \ {0} /\ 1 \in Slots
    BY RunConstants DEF Slots
  <2>2. round \subseteq Controls /\ pass \in Nat
    BY <2>1 DEF Typed, ParentTypes
  <2>3. seen[1] \subseteq Cells
    BY <2>1 DEF Typed, TallyTypes
  <2>4. QED  BY <2>1, <2>2, <2>3, CellsCounted, FS_EmptySet
<1>w. \A p \in Nat : Owed(p) \in Int /\ Owed(p + 1) = Owed(p) - Len(Pickles)
  <2> SUFFICES ASSUME NEW p \in Nat
               PROVE  Owed(p) \in Int /\ Owed(p + 1) = Owed(p) - Len(Pickles)
    OBVIOUS
  <2> DEFINE N == Len(Pickles)
             k == Passes + 1 - p
  <2>1. N \in Int /\ k \in Int /\ Passes + 1 - (p + 1) = k - 1
    BY <1>0
  <2> HIDE DEF N, k
  <2>2. N * k \in Int /\ N * (k - 1) = N * k - N
    BY <2>1
  <2>3. QED  BY <2>1, <2>2 DEF N, k
<1>m. round \ seen[1] \in SUBSET Cells /\ Cardinality(round \ seen[1]) \in Nat
  BY <1>0, CellsCounted, FS_Subset, FS_CardinalityType
<1>n. Awaited = NextRuns(round \ seen[1])
  BY DEF Awaited
<1>e. round = {} => Awaited = {} /\ Cardinality(round \ seen[1]) = 0
  BY <1>0 DEF Awaited, NextRuns
\* Nothing is recorded, promised or owed.
<1>a. ASSUME UNCHANGED <<runs, written, expected>>, round' = round, pass' = pass,
             round = {} \/ UNCHANGED seen, Interrupted => Interrupted', cause \subseteq cause'
      PROVE  Counted'
  <2>1. Records' = Records /\ FirstRuns' = FirstRuns
    BY <1>a DEF Records, Executions, FirstRuns
  <2>2. round' \ seen'[1] = round \ seen[1]
    BY <1>a
  <2>3. Awaited' = Awaited
    BY <1>a, <2>2 DEF Awaited, NextRuns
  <2>4. Promised' = Promised
    BY <2>1, <2>3 DEF Promised
  <2>5. QED  BY <1>a, <2>1, <2>2, <2>4 DEF Counted
\* A round begins or is over: nothing is recorded.
<1>b. ASSUME UNCHANGED <<runs, written, pass>>, round' = {}, expected' = expected,
             Interrupted', Interrupted \/ round = {}
      PROVE  Counted'
  <2>1. Records' = Records
    BY <1>b DEF Records, Executions
  <2>2. round' \ seen'[1] = {}
    BY <1>b
  <2>3. QED  BY <1>0, <1>b, <1>m, <1>w, <2>1, <2>2 DEF Counted
<1>1. CASE UNCHANGED vars
  BY <1>1, <1>a DEF vars, Interrupted
<1>2. CASE Signal
  BY <1>2, <1>a DEF Signal, tallyVars, Interrupted, Typed, ParentTypes
<1>3. CASE Open
  BY <1>3, <1>a DEF Open, tallyVars, Interrupted
<1>4. CASE Opened
  BY <1>4, <1>a DEF Opened, Prepare, Shape, Interrupted
<1>5. CASE OpenFailed
  <2>1. CASE Interrupted
    BY <1>5, <2>1, <1>a DEF OpenFailed, Interrupted
  <2>2. CASE ~Interrupted
    <3>1. /\ pass' = pass + 1 /\ expected' = expected - Len(Pickles)
          /\ "world" \in cause' /\ UNCHANGED <<runs, written, round, seen>> /\ round = {}
      BY <1>5, <2>2 DEF OpenFailed, Shape
    <3>2. Records' = Records
      BY <3>1 DEF Records, Executions
    <3>3. expected' \in Int /\ expected' >= Owed(pass') + Cardinality(round' \ seen'[1])
      BY <1>0, <1>w, <1>e, <3>1 DEF Counted
    <3>4. QED  BY <3>1, <3>2, <3>3 DEF Counted
  <2>3. QED  BY <2>1, <2>2
<1>6. CASE ParallelOver
  BY <1>6, <1>a DEF ParallelOver, Interrupted
<1>7. CASE SerialNext
  BY <1>7, <1>a DEF SerialNext, Prepare, Shape, Interrupted
<1>8. CASE StartRound
  <2>1. /\ round' = Due /\ seen' = [s \in Slots |-> {}] /\ round = {} /\ phase = "proof"
        /\ expected' = expected + Cardinality(Due)
        /\ UNCHANGED <<pass, runs, written, signals, cause>>
    BY <1>8 DEF StartRound, Prepare
  <2>2. pass \in 1..Passes
    BY <1>0, <2>1 DEF Shape, Typed, ParentTypes
  <2>3. Due \in SUBSET Cells /\ \A c \in Due : NeedsProof(pass, c)
    BY DEF Due
  <2>4. /\ Cardinality(Due) \in Nat
        /\ Cardinality((FirstRuns \cup Records) \cup NextRuns(Due))
             = Cardinality(FirstRuns \cup Records) + Cardinality(Due)
    BY <2>2, <2>3, NextRunsCounted
  <2>5. Records' = Records
    BY <2>1 DEF Records, Executions
  <2>6. round' \ seen'[1] = Due
    BY <1>0, <2>1
  <2>7. Promised' = (FirstRuns \cup Records) \cup NextRuns(Due)
    BY <2>1, <2>5, <2>6 DEF Promised, Awaited, NextRuns, FirstRuns
  <2>8. Promised = FirstRuns \cup Records
    BY <1>e, <2>1 DEF Promised
  <2>9. Interrupted' = Interrupted
    BY <2>1 DEF Interrupted
  <2>10. ("world" \notin cause' /\ ~Interrupted') => expected' = Cardinality(Promised')
    BY <2>1, <2>4, <2>7, <2>8, <2>9 DEF Counted
  <2>11. expected' \in Int /\ expected' >= Owed(pass') + Cardinality(round' \ seen'[1])
    BY <1>0, <1>w, <1>e, <2>1, <2>4, <2>6 DEF Counted
  <2>12. QED  BY <2>1, <2>5, <2>10, <2>11 DEF Counted
<1>9. CASE RoundOver
  <2> DEFINE missing == round \ seen[1]
  <2>1. /\ round # {} /\ round' = {} /\ phase = "proof" /\ ~Interrupted
        /\ UNCHANGED <<pass, runs, written, signals, cause, seen>>
        /\ expected' = expected - Cardinality(missing) \/ (expected' = expected /\ missing = {})
    BY <1>9 DEF RoundOver
  <2>2. pass \in 1..Passes /\ given[1] = round /\ Busy(1)
    BY <1>0, <2>1 DEF Shape, Hands, Typed, ParentTypes
  <2>3. \A c \in missing : NeedsProof(pass, c)
    BY <1>0, <2>1, <2>2 DEF Fresh
  <2>4. /\ Cardinality(missing) \in Nat
        /\ Cardinality((FirstRuns \cup Records) \cup NextRuns(missing))
             = Cardinality(FirstRuns \cup Records) + Cardinality(missing)
    BY <1>m, <2>2, <2>3, NextRunsCounted
  <2>5. expected' = expected - Cardinality(missing)
    <3>1. missing = {} => Cardinality(missing) = 0
      BY <1>0
    <3>2. expected \in Int
      BY DEF Counted
    <3> HIDE DEF missing
    <3>3. QED  BY <2>1, <3>1, <3>2
  <2>6. Promised = (FirstRuns \cup Records) \cup NextRuns(missing)
    BY DEF Promised, Awaited
  <2>7. Records' = Records /\ round' \ seen'[1] = {}
    BY <2>1 DEF Records, Executions
  <2>8. Promised' = FirstRuns \cup Records
    BY <2>7 DEF Promised, Awaited, NextRuns, FirstRuns
  <2>9. Cardinality(FirstRuns \cup Records) \in Nat
    BY RecordsFinite, FS_CardinalityType
  <2>10. ("world" \notin cause' /\ ~Interrupted') => expected' = Cardinality(Promised')
    BY <2>1, <2>4, <2>5, <2>6, <2>8, <2>9 DEF Counted
  <2>11. expected' \in Int /\ expected' >= Owed(pass') + Cardinality(round' \ seen'[1])
    BY <1>0, <1>w, <2>1, <2>4, <2>5, <2>7 DEF Counted
  <2>12. QED  BY <2>1, <2>7, <2>10, <2>11 DEF Counted
<1>10. CASE RoundsDone
  <2>1. round' = {} /\ (Interrupted \/ round = {})
    BY <1>10 DEF RoundsDone
  <2>2. CASE Interrupted
    BY <1>b, <1>10, <2>2 DEF RoundsDone, tallyVars, Interrupted
  <2>3. CASE ~Interrupted
    BY <1>a, <1>10, <2>3 DEF RoundsDone, tallyVars, Interrupted
  <2>4. QED  BY <2>2, <2>3
<1>11. CASE Close
  <2>1. /\ pass' = pass + 1 /\ round = {} /\ round' = {}
        /\ UNCHANGED <<runs, written, expected, signals, cause, seen>>
    BY <1>11 DEF Close, tallyVars, Shape
  <2>2. Records' = Records /\ round' \ seen'[1] = {}
    BY <2>1 DEF Records, Executions
  <2>3. Promised' = Promised /\ Interrupted' = Interrupted
    BY <1>e, <2>1, <2>2 DEF Promised, Awaited, NextRuns, FirstRuns, Interrupted
  <2>4. expected' >= Owed(pass') + Cardinality(round' \ seen'[1])
    BY <1>0, <1>w, <1>e, <2>1, <2>2 DEF Counted
  <2>5. QED  BY <2>1, <2>2, <2>3, <2>4 DEF Counted
<1>12. CASE Thrown
  BY <1>12, <1>a DEF Thrown, tallyVars, Interrupted
<1>13. CASE Verdict
  BY <1>13, <1>a DEF Verdict, tallyVars, Interrupted
<1>14. ASSUME NEW s \in Slots, Spawn(s)
       PROVE  Counted'
  BY <1>14, <1>a DEF Spawn, tallyVars, Interrupted
<1>15. ASSUME NEW s \in Slots, SkipSpawn(s)
       PROVE  Counted'
  BY <1>15, <1>a DEF SkipSpawn, tallyVars, Interrupted
<1>16. ASSUME NEW s \in Slots, phase # "done", ReadEnvelope(s)
       PROVE  Counted'
  <2>1. /\ UNCHANGED <<parentVars, expected, round, cause>>
        /\ group[s] = "running" /\ pipe[s] # << >>
    BY <1>16 DEF ReadEnvelope
  <2>2. CASE Head(pipe[s]) = HookFailed
    BY <1>16, <1>a, <2>1, <2>2 DEF ReadEnvelope, parentVars, Interrupted
  <2>3. CASE Head(pipe[s]) # HookFailed
    <3> DEFINE c == Head(pipe[s]).cell
               outcome == Head(pipe[s]).outcome
               n == Len(runs[pass][c])
               new == <<<<pass, c>>, n + 1>>
    <3>1. /\ pass \in 1..Passes /\ c \in Cells /\ outcome \in Outcomes
          /\ c \in given[s] \ seen[s] /\ runs[pass][c] \in Seq(Outcomes)
          /\ n \in 0..(ProofRuns - 1)
          /\ round = {} => runs[pass][c] = << >>
          /\ round # {} => s = 1 /\ c \in round /\ NeedsProof(pass, c)
      BY <1>16, <2>1, <2>3, ReadFacts
    <3>2. /\ seen' = [seen EXCEPT ![s] = @ \cup {c}] /\ written' = written + 1
          /\ runs' = [runs EXCEPT ![pass][c] = Append(@, outcome)]
      BY <1>16, <2>3 DEF ReadEnvelope
    <3>3. UNCHANGED <<expected, round, pass, signals, cause>>
      BY <2>1 DEF parentVars
    <3> HIDE DEF c, outcome
    <3>4. /\ Len(runs'[pass][c]) = n + 1 /\ n \in Nat
          /\ \A p \in 1..Passes, d \in Cells : p # pass \/ d # c => runs'[p][d] = runs[p][d]
      <4>1. Len(Append(runs[pass][c], outcome)) = n + 1 /\ n \in Nat
        BY <3>1
      <4>2. runs'[pass][c] = Append(runs[pass][c], outcome)
        BY <3>1, <3>2 DEF Typed, TallyTypes
      <4>3. \A p \in 1..Passes, d \in Cells : p # pass \/ d # c => runs'[p][d] = runs[p][d]
        BY <3>1, <3>2 DEF Typed, TallyTypes
      <4>4. QED  BY <4>1, <4>2, <4>3
    <3>5. new \in Executions /\ new \notin Records
      BY <1>0, <3>1, <3>4 DEF Executions, Records
    <3>6. Records' = Records \cup {new}
      <4>1. \A r \in Executions : r \in Records' <=> r[2] <= Len(runs'[r[1][1]][r[1][2]])
        BY DEF Records, Executions
      <4>2. ASSUME NEW r \in Executions
            PROVE  r \in Records' <=> r \in Records \/ r = new
        <5>1. PICK p \in 1..Passes, d \in Cells, i \in 1..ProofRuns : r = <<<<p, d>>, i>>
          BY DEF Executions
        <5>2. CASE p = pass /\ d = c
          BY <3>4, <4>1, <5>1, <5>2 DEF Records
        <5>3. CASE p # pass \/ d # c
          BY <3>4, <4>1, <5>1, <5>3 DEF Records
        <5>4. QED  BY <5>2, <5>3
      <4>3. Records' \subseteq Executions /\ Records \subseteq Executions
        BY DEF Records, Executions
      <4>4. QED  BY <3>5, <4>2, <4>3
    <3>7. written' = Cardinality(Records')
      <4>1. Cardinality(Records \cup {new}) = Cardinality(Records) + 1
        BY <3>5, RecordsFinite, FS_AddElement
      <4>2. QED  BY <3>2, <3>6, <4>1 DEF Counted
    <3>8. seen'[s] = seen[s] \cup {c} /\ \A t \in Slots \ {s} : seen'[t] = seen[t]
      BY <3>2 DEF Typed, TallyTypes
    <3>9. Promised' = Promised
      <4>1. CASE round = {}
        <5>1. Awaited' = {} /\ Awaited = {}
          BY <1>e, <3>3, <4>1 DEF Awaited, NextRuns
        <5>2. new \in FirstRuns
          <6>1. n = 0
            BY <3>1, <4>1
          <6>2. QED  BY <3>1, <6>1 DEF FirstRuns
        <5>3. FirstRuns' = FirstRuns
          BY DEF FirstRuns
        <5>4. QED  BY <3>6, <5>1, <5>2, <5>3 DEF Promised
      <4>2. CASE round # {}
        <5>1. s = 1 /\ c \in round /\ c \notin seen[1] /\ seen'[1] = seen[1] \cup {c}
          BY <3>1, <3>8, <4>2
        <5>2. round' \ seen'[1] = (round \ seen[1]) \ {c} /\ c \in round \ seen[1]
          BY <3>3, <5>1
        <5>3. \A d \in (round \ seen[1]) \ {c} : Len(runs'[pass][d]) = Len(runs[pass][d])
          BY <1>m, <3>1, <3>4
        <5>4. Awaited' = {<<<<pass, d>>, Len(runs[pass][d]) + 1>> : d \in (round \ seen[1]) \ {c}}
          BY <3>3, <5>2, <5>3 DEF Awaited, NextRuns
        <5>5. Awaited = Awaited' \cup {new}
          BY <5>2, <5>4 DEF Awaited, NextRuns
        <5>6. FirstRuns' = FirstRuns
          BY DEF FirstRuns
        <5>7. QED  BY <3>6, <5>5, <5>6 DEF Promised
      <4>3. QED  BY <4>1, <4>2
    <3>10. Cardinality(round' \ seen'[1]) <= Cardinality(round \ seen[1])
           /\ Cardinality(round' \ seen'[1]) \in Nat
      <4>1. round' \ seen'[1] \in SUBSET (round \ seen[1])
        BY <1>0, <3>3, <3>8
      <4>2. IsFiniteSet(round \ seen[1])
        BY <1>m, CellsCounted, FS_Subset
      <4>3. QED  BY <4>1, <4>2, FS_Subset, FS_CardinalityType
    <3>11. expected' \in Int /\ expected' >= Owed(pass') + Cardinality(round' \ seen'[1])
      BY <1>0, <1>m, <1>w, <3>3, <3>10 DEF Counted
    <3>12. QED  BY <3>3, <3>7, <3>9, <3>11 DEF Counted, Interrupted
  <2>4. QED  BY <2>2, <2>3
<1>17. ASSUME NEW s \in Slots, WorkerClosed(s)
       PROVE  Counted'
  BY <1>17, <1>a DEF WorkerClosed, tallyVars, Interrupted
<1>18. ASSUME NEW s \in Slots, DropLine(s)
       PROVE  Counted'
  BY <1>18, <1>a DEF DropLine, parentVars, tallyVars, Interrupted, Blame
<1>19. ASSUME NEW s \in Slots, PrepareFails(s)
       PROVE  Counted'
  BY <1>19, <1>a DEF PrepareFails, tallyVars, Interrupted
<1>20. ASSUME NEW s \in Slots, Process(s)
       PROVE  Counted'
  BY <1>20, <1>a, ProcessFrame DEF Interrupted
<1>21. QED
  BY StepCases, <1>1, <1>2, <1>3, <1>4, <1>5, <1>6, <1>7, <1>8, <1>9, <1>10, <1>11, <1>12,
     <1>13, <1>14, <1>15, <1>16, <1>17, <1>18, <1>19, <1>20

-----------------------------------------------------------------------------
(* The verdict's inputs, and their causes.                                  *)

\* What the verdict reads says what happened to the required scenarios and
\* to the controls.
LEMMA TalliedStep ==
  ASSUME Typed, Shape, Hands, Fresh, Tallied, [Next]_vars, Typed'
  PROVE  Tallied'
<1>0. 1 \in Slots /\ Passes \in Nat /\ pass \in Nat /\ Controls \subseteq Cells
  BY RunConstants DEF Slots, Typed, ParentTypes
\* Nothing is recorded; the pass and its end are what they were.
<1>a. ASSUME UNCHANGED <<pass, runs, blamed, round, allPassed>>, Interrupted => Interrupted',
             cause' \subseteq cause \cup {"hook", "failed", "lost", "exit"},
             phase' = "closing" => phase = "closing"
      PROVE  Tallied'
  <2>1. \A p \in 1..Passes, c \in Cells : NeedsProof(p, c)' = NeedsProof(p, c)
    BY <1>a DEF NeedsProof
  <2>2. Due' = Due
    BY <1>a DEF Due, NeedsProof
  <2>3. /\ allPassed' => "world" \notin cause'
        /\ allPassed' => \A p \in 1..Passes, c \in Cells \ Controls :
             \A i \in DOMAIN runs'[p][c] : runs'[p][c][i] = "pass"
    BY <1>a DEF Tallied
  <2>4. ~Interrupted' => \A p \in 1..Passes : p < pass' \/ (p = pass' /\ phase' = "closing") =>
          \A c \in Cells : NeedsProof(p, c)' => <<p, c>> \in blamed'
    BY <1>a, <2>1 DEF Tallied
  <2>5. round' # {} => Due' \subseteq round'
    BY <1>a, <2>2 DEF Tallied
  <2>6. QED  BY <2>3, <2>4, <2>5 DEF Tallied
\* The pass's rounds are over: nothing needs one, or it is blamed.
<1>b. ASSUME UNCHANGED <<pass, runs, allPassed, cause>>, round' = {}, blamed \subseteq blamed',
             Interrupted' = Interrupted,
             ~Interrupted /\ phase' = "closing" => \A c \in Due : <<pass, c>> \in blamed'
      PROVE  Tallied'
  <2>1. \A p \in 1..Passes, c \in Cells : NeedsProof(p, c)' = NeedsProof(p, c)
    BY <1>b DEF NeedsProof
  <2>2. ~Interrupted' => \A p \in 1..Passes : p < pass' \/ (p = pass' /\ phase' = "closing") =>
          \A c \in Cells : NeedsProof(p, c)' => <<p, c>> \in blamed'
    BY <1>b, <2>1 DEF Tallied, Due
  <2>3. QED  BY <1>b, <2>2 DEF Tallied
<1>1. CASE UNCHANGED vars
  BY <1>1, <1>a DEF vars, Interrupted
<1>2. CASE Signal
  BY <1>2, <1>a DEF Signal, tallyVars, Interrupted, Typed, ParentTypes
<1>3. CASE Open
  BY <1>3, <1>a DEF Open, tallyVars, Interrupted
<1>4. CASE Opened
  BY <1>4, <1>a DEF Opened, Interrupted
<1>5. CASE OpenFailed
  <2>1. CASE Interrupted
    BY <1>5, <2>1, <1>a DEF OpenFailed, Interrupted
  <2>2. CASE ~Interrupted
    <3>1. /\ pass' = pass + 1 /\ phase = "opening" /\ phase' = "pass" /\ allPassed' = FALSE
          /\ round' = {} /\ UNCHANGED <<runs, blamed, signals>>
      BY <1>5, <2>2 DEF OpenFailed, Shape
    <3>2. pass \in 1..Passes /\ \A c \in Cells : runs[pass][c] = << >>
      BY <1>0, <3>1 DEF Shape, Fresh, Typed, ParentTypes
    <3>3. \A c \in Cells : ~NeedsProof(pass, c)
      <4>1. Len(<< >>) = 0
        OBVIOUS
      <4>2. QED  BY <3>2, <4>1 DEF NeedsProof
    <3>4. \A p \in 1..Passes, c \in Cells : NeedsProof(p, c)' = NeedsProof(p, c)
      BY <3>1 DEF NeedsProof
    <3>5. \A p \in 1..Passes : p < pass' => p < pass \/ p = pass
      BY <1>0, <3>1
    <3>6. ~Interrupted' => \A p \in 1..Passes : p < pass' =>
            \A c \in Cells : NeedsProof(p, c)' => <<p, c>> \in blamed'
      BY <2>2, <3>1, <3>3, <3>4, <3>5 DEF Tallied
    <3>7. QED  BY <3>1, <3>6 DEF Tallied
  <2>3. QED  BY <2>1, <2>2
<1>6. CASE ParallelOver
  BY <1>6, <1>a DEF ParallelOver, Interrupted
<1>7. CASE SerialNext
  BY <1>7, <1>a DEF SerialNext, Interrupted
<1>8. CASE StartRound
  <2>1. /\ round' = Due /\ phase' = "proof" /\ UNCHANGED <<pass, runs, blamed, allPassed, cause, signals>>
    BY <1>8 DEF StartRound
  <2>2. \A p \in 1..Passes, c \in Cells : NeedsProof(p, c)' = NeedsProof(p, c)
    BY <2>1 DEF NeedsProof
  <2>3. Due' = Due /\ Interrupted' = Interrupted
    BY <2>1 DEF Due, NeedsProof, Interrupted
  <2>4. QED  BY <2>1, <2>2, <2>3 DEF Tallied
<1>9. CASE RoundOver
  <2>1. /\ phase = "proof" /\ round # {} /\ round' = {}
        /\ UNCHANGED <<pass, runs, allPassed, cause, signals>>
        /\ \/ blamed' = blamed \cup ({pass} \X round)
           \/ blamed' = blamed /\ phase' = "proof"
    BY <1>9 DEF RoundOver
  <2>2. Due \subseteq round
    BY <2>1 DEF Tallied
  <2>3. QED  BY <1>b, <2>1, <2>2 DEF Interrupted
<1>10. CASE RoundsDone
  BY <1>10, <1>b DEF RoundsDone, tallyVars, Interrupted
<1>11. CASE Close
  <2>1. /\ pass' = pass + 1 /\ phase = "closing" /\ phase' = "pass" /\ round' = {}
        /\ UNCHANGED <<runs, blamed, signals, allPassed, cause>>
    BY <1>11 DEF Close, tallyVars, Shape
  <2>2. \A p \in 1..Passes, c \in Cells : NeedsProof(p, c)' = NeedsProof(p, c)
    BY <2>1 DEF NeedsProof
  <2>3. \A p \in 1..Passes : p < pass' => p < pass \/ p = pass
    BY <1>0, <2>1
  <2>4. ~Interrupted' => \A p \in 1..Passes : p < pass' =>
          \A c \in Cells : NeedsProof(p, c)' => <<p, c>> \in blamed'
    BY <2>1, <2>2, <2>3 DEF Tallied, Interrupted
  <2>5. QED  BY <2>1, <2>4 DEF Tallied
<1>12. CASE Thrown
  BY <1>12, <1>a DEF Thrown, tallyVars, Interrupted
<1>13. CASE Verdict
  BY <1>13, <1>a DEF Verdict, tallyVars, Interrupted
<1>14. ASSUME NEW s \in Slots, Spawn(s)
       PROVE  Tallied'
  BY <1>14, <1>a DEF Spawn, tallyVars, Interrupted
<1>15. ASSUME NEW s \in Slots, SkipSpawn(s)
       PROVE  Tallied'
  BY <1>15, <1>a DEF SkipSpawn, tallyVars, Interrupted
<1>16. ASSUME NEW s \in Slots, phase # "done", ReadEnvelope(s)
       PROVE  Tallied'
  <2>1. /\ UNCHANGED <<parentVars, round, cause, blamed>>
        /\ group[s] = "running" /\ pipe[s] # << >>
    BY <1>16 DEF ReadEnvelope
  <2>2. CASE Head(pipe[s]) = HookFailed
    <3>1. UNCHANGED runs /\ (allPassed' => allPassed)
      BY <1>16, <2>2 DEF ReadEnvelope
    <3>2. \A p \in 1..Passes, c \in Cells : NeedsProof(p, c)' = NeedsProof(p, c)
      BY <3>1 DEF NeedsProof
    <3>3. Due' = Due /\ Interrupted' = Interrupted
      BY <2>1, <3>1 DEF Due, NeedsProof, Interrupted, parentVars
    <3>4. QED  BY <2>1, <3>1, <3>2, <3>3 DEF Tallied, parentVars
  <2>3. CASE Head(pipe[s]) # HookFailed
    <3> DEFINE c == Head(pipe[s]).cell
               outcome == Head(pipe[s]).outcome
    <3>1. /\ pass \in 1..Passes /\ c \in Cells /\ outcome \in Outcomes
          /\ runs[pass][c] \in Seq(Outcomes)
          /\ round # {} => c \in round
      BY <1>16, <2>1, <2>3, ReadFacts
    <3>2. /\ runs' = [runs EXCEPT ![pass][c] = Append(@, outcome)]
          /\ allPassed' = (allPassed /\ (c \in Controls \/ outcome = "pass"))
      BY <1>16, <2>3 DEF ReadEnvelope
    <3>3. phase \in {"parallel", "serial", "proof", "thrown"}
      BY <1>16, <2>1, BusyPass DEF Busy
    <3>4. UNCHANGED <<phase, pass, round, cause, blamed, signals>>
      BY <2>1 DEF parentVars
    <3> HIDE DEF c, outcome
    <3>5. /\ runs'[pass][c] = Append(runs[pass][c], outcome)
          /\ \A p \in 1..Passes, d \in Cells : p # pass \/ d # c => runs'[p][d] = runs[p][d]
      BY <3>1, <3>2 DEF Typed, TallyTypes
    <3>6. \A p \in 1..Passes, d \in Cells : p # pass \/ d # c => NeedsProof(p, d)' = NeedsProof(p, d)
      BY <3>5 DEF NeedsProof
    <3>7. \A i \in DOMAIN runs'[pass][c] :
            runs'[pass][c][i] = outcome \/ (i \in DOMAIN runs[pass][c] /\ runs'[pass][c][i] = runs[pass][c][i])
      BY <3>1, <3>5
    <3>8. allPassed' => \A p \in 1..Passes, d \in Cells \ Controls :
            \A i \in DOMAIN runs'[p][d] : runs'[p][d][i] = "pass"
      <4> SUFFICES ASSUME allPassed', NEW p \in 1..Passes, NEW d \in Cells \ Controls,
                          NEW i \in DOMAIN runs'[p][d]
                   PROVE  runs'[p][d][i] = "pass"
        OBVIOUS
      <4>1. CASE p = pass /\ d = c
        <5>1. allPassed /\ outcome = "pass" /\ c \in Cells \ Controls
          BY <3>1, <3>2, <4>1
        <5>2. \A j \in DOMAIN runs[pass][c] : runs[pass][c][j] = "pass"
          BY <3>1, <5>1 DEF Tallied
        <5>3. QED  BY <3>7, <4>1, <5>1, <5>2
      <4>2. CASE p # pass \/ d # c
        <5>1. runs'[p][d] = runs[p][d] /\ allPassed
          BY <3>2, <3>5, <4>2
        <5>2. \A j \in DOMAIN runs[p][d] : runs[p][d][j] = "pass"
          BY <5>1 DEF Tallied
        <5>3. QED  BY <5>1, <5>2
      <4>3. QED  BY <4>1, <4>2
    <3>9. ~Interrupted' => \A p \in 1..Passes : p < pass' \/ (p = pass' /\ phase' = "closing") =>
            \A d \in Cells : NeedsProof(p, d)' => <<p, d>> \in blamed'
      <4>1. ~Interrupted => \A p \in 1..Passes : p < pass =>
              \A d \in Cells : NeedsProof(p, d) => <<p, d>> \in blamed
        BY DEF Tallied
      <4>2. ~(phase' = "closing") /\ (Interrupted' <=> Interrupted)
        BY <3>3, <3>4 DEF Interrupted
      <4>3. \A p \in 1..Passes, d \in Cells : p < pass => NeedsProof(p, d)' = NeedsProof(p, d)
        BY <1>0, <3>6
      <4>4. QED  BY <3>4, <4>1, <4>2, <4>3
    <3>10. round' # {} => Due' \subseteq round'
      <4>1. \A d \in Cells : d # c => NeedsProof(pass, d)' = NeedsProof(pass, d)
        BY <3>1, <3>4, <3>6
      <4>2. Due' \subseteq Due \cup {c}
        BY <3>4, <4>1 DEF Due
      <4>3. QED  BY <3>1, <3>4, <4>2 DEF Tallied
    <3>11. allPassed' => "world" \notin cause'
      BY <3>2, <3>4 DEF Tallied
    <3>12. QED  BY <3>8, <3>9, <3>10, <3>11 DEF Tallied
  <2>4. QED  BY <2>2, <2>3
<1>17. ASSUME NEW s \in Slots, WorkerClosed(s)
       PROVE  Tallied'
  BY <1>17, <1>a DEF WorkerClosed, tallyVars, Interrupted
<1>18. ASSUME NEW s \in Slots, DropLine(s)
       PROVE  Tallied'
  BY <1>18, <1>a DEF DropLine, parentVars, tallyVars, Interrupted, Blame
<1>19. ASSUME NEW s \in Slots, PrepareFails(s)
       PROVE  Tallied'
  BY <1>19, <1>a DEF PrepareFails, tallyVars, Interrupted
<1>20. ASSUME NEW s \in Slots, Process(s)
       PROVE  Tallied'
  <2>1. cause' \subseteq cause \cup {"hook", "failed", "lost", "exit"}
    BY <1>20 DEF Process, BeforeAll, RunScenario, ScenariosOver, AfterAll, SignalExit,
       WorkerDies, ProcessExit, Blame
  <2>2. QED  BY <1>20, <1>a, <2>1, ProcessFrame DEF Interrupted
<1>21. QED
  BY StepCases, <1>1, <1>2, <1>3, <1>4, <1>5, <1>6, <1>7, <1>8, <1>9, <1>10, <1>11, <1>12,
     <1>13, <1>14, <1>15, <1>16, <1>17, <1>18, <1>19, <1>20

\* A worker that is over without a cause or a signal left nothing unread.
LEMMA AllSeen ==
  ASSUME Typed, Shape, Delivered, cause = {}, ~Interrupted,
         phase \in {"parallel", "serial"}, NEW s \in Slots, group[s] = "over"
  PROVE  given[s] \subseteq seen[s] /\ ~Unreported(s)
<1>1. pipe[s] = << >> /\ round = {}
  BY DEF Shape
<1>2. InPipe(s) = {}
  <2>1. \A i \in DOMAIN << >> : FALSE
    OBVIOUS
  <2>2. QED  BY <1>1, <2>1 DEF InPipe
<1>3. left[s] = {} /\ given[s] \subseteq (seen[s] \cup InPipe(s)) \cup left[s]
  BY <1>1 DEF Delivered
<1>4. given[s] \subseteq seen[s]
  BY <1>2, <1>3
<1>5. QED  BY <1>4 DEF Unreported

\* The worker whose record it is was given a control, in a proof round.
LEMMA RoundIsControls ==
  ASSUME Typed, Shape, Hands, NEW s \in Slots, Alive(s), round # {}
  PROVE  left[s] \subseteq Controls
<1>1. Busy(s)
  BY DEF Shape, Busy
<1>2. s = 1 /\ given[1] = round /\ round \subseteq Controls
  BY <1>1 DEF Hands, Typed, ParentTypes
<1>3. QED  BY <1>2 DEF Hands

\* What makes a run red has a cause outside the proof rounds.
LEMMA MarkedStep ==
  ASSUME Typed, Shape, Hands, Fresh, Marked, Delivered, [Next]_vars, Typed'
  PROVE  Marked'
<1> DEFINE Ok(e) == Excused(e, round, cause)
           After(e) == Excused(e, round', cause')
<1>0. \A s \in Slots : \A i \in DOMAIN pipe[s] : Ok(pipe[s][i])
  BY DEF Marked
\* No worker writes or reads, and what went wrong is not undone.
<1>a. ASSUME UNCHANGED <<pipe, allPassed>>, failedFiles' => failedFiles, cause \subseteq cause',
             Interrupted => Interrupted', round = {} => AllOver \/ UNCHANGED round,
             round' = {} => AllOver \/ UNCHANGED round
      PROVE  Marked'
  <2>1. ASSUME AllOver
        PROVE  \A s \in Slots : pipe'[s] = << >>
    BY <1>a, <2>1 DEF AllOver, Shape
  <2>2. ASSUME NEW s \in Slots, NEW i \in DOMAIN pipe'[s]
        PROVE  After(pipe'[s][i])
    <3>1. CASE AllOver
      BY <2>1, <2>2, <3>1
    <3>2. CASE UNCHANGED round
      BY <1>0, <1>a, <2>2, <3>2 DEF Excused
    <3>3. CASE round # {} /\ round' # {}
      BY <1>0, <1>a, <2>2, <3>3 DEF Excused
    <3>4. QED  BY <1>a, <3>1, <3>2, <3>3
  <2>3. QED  BY <1>a, <2>2 DEF Marked
<1>1. CASE UNCHANGED vars
  BY <1>1, <1>a DEF vars, Interrupted
<1>2. CASE Signal
  BY <1>2, <1>a DEF Signal, tallyVars, Interrupted, Typed, ParentTypes
<1>3. CASE Open
  BY <1>3, <1>a DEF Open, tallyVars, Interrupted
<1>4. CASE Opened
  BY <1>4, <1>a DEF Opened, Interrupted
<1>5. CASE OpenFailed
  <2>1. CASE Interrupted
    BY <1>5, <2>1, <1>a DEF OpenFailed, Interrupted
  <2>2. CASE ~Interrupted
    <3>1. "world" \in cause' /\ UNCHANGED pipe
      BY <1>5, <2>2 DEF OpenFailed
    <3>2. QED  BY <3>1 DEF Marked, Excused
  <2>3. QED  BY <2>1, <2>2
<1>6. CASE ParallelOver
  <2>1. UNCHANGED <<pipe, allPassed, cause, round, signals>> /\ phase = "parallel"
        /\ failedFiles' = (failedFiles \/ \E s \in Slots : group[s] = "over" /\ Unreported(s))
    BY <1>6 DEF ParallelOver
  <2>2. failedFiles' => cause' # {} \/ Interrupted'
    BY <2>1, AllSeen DEF Marked, Interrupted
  <2>3. QED  BY <1>0, <2>1, <2>2 DEF Marked
<1>7. CASE SerialNext
  <2>1. UNCHANGED <<pipe, allPassed, cause, round, signals>> /\ phase = "serial"
        /\ failedFiles' = (failedFiles \/ (group[1] = "over" /\ Unreported(1)))
    BY <1>7 DEF SerialNext
  <2>2. 1 \in Slots
    BY RunConstants DEF Slots
  <2>3. failedFiles' => cause' # {} \/ Interrupted'
    BY <2>1, <2>2, AllSeen DEF Marked, Interrupted
  <2>4. QED  BY <1>0, <2>1, <2>3 DEF Marked
<1>8. CASE StartRound
  BY <1>8, <1>a DEF StartRound, Interrupted
<1>9. CASE RoundOver
  BY <1>9, <1>a DEF RoundOver, Interrupted
<1>10. CASE RoundsDone
  BY <1>10, <1>a DEF RoundsDone, tallyVars, Interrupted
<1>11. CASE Close
  BY <1>11, <1>a DEF Close, tallyVars, Interrupted
<1>12. CASE Thrown
  BY <1>12, <1>a DEF Thrown, tallyVars, Interrupted
<1>13. CASE Verdict
  BY <1>13, <1>a DEF Verdict, tallyVars, Interrupted
<1>14. ASSUME NEW s \in Slots, Spawn(s)
       PROVE  Marked'
  BY <1>14, <1>a DEF Spawn, tallyVars, Interrupted
<1>15. ASSUME NEW s \in Slots, SkipSpawn(s)
       PROVE  Marked'
  BY <1>15, <1>a DEF SkipSpawn, tallyVars, Interrupted
\* A line leaves the pipe.
<1>c. ASSUME NEW s \in Slots, pipe[s] # << >>, pipe' = [pipe EXCEPT ![s] = Tail(@)],
             round' = round, cause \subseteq cause'
      PROVE  \A t \in Slots : \A i \in DOMAIN pipe'[t] : After(pipe'[t][i])
  <2> SUFFICES ASSUME NEW t \in Slots, NEW i \in DOMAIN pipe'[t]
               PROVE  After(pipe'[t][i])
    OBVIOUS
  <2>1. \E j \in DOMAIN pipe[t] : pipe'[t][i] = pipe[t][j]
    <3>1. CASE t = s
      <4>1. /\ pipe'[t] = Tail(pipe[s]) /\ pipe[s] \in Seq(Envelopes)
            /\ i \in 1..(Len(pipe[s]) - 1) /\ Len(pipe[s]) \in Nat
            /\ pipe'[t][i] = pipe[s][i + 1]
        BY <1>c, <3>1, HeadOfPipe DEF Typed, WorkerTypes
      <4>2. i + 1 \in DOMAIN pipe[s]
        BY <4>1
      <4>3. QED  BY <3>1, <4>1, <4>2
    <3>2. CASE t # s
      BY <1>c, <3>2 DEF Typed, WorkerTypes
    <3>3. QED  BY <3>1, <3>2
  <2>2. PICK j \in DOMAIN pipe[t] : pipe'[t][i] = pipe[t][j]
    BY <2>1
  <2>3. Ok(pipe[t][j])
    BY <1>0
  <2>4. QED  BY <1>c, <2>2, <2>3 DEF Excused
<1>16. ASSUME NEW s \in Slots, phase # "done", ReadEnvelope(s)
       PROVE  Marked'
  <2>1. /\ pipe[s] # << >> /\ pipe' = [pipe EXCEPT ![s] = Tail(@)]
        /\ UNCHANGED <<round, cause, failedFiles, parentVars>>
    BY <1>16 DEF ReadEnvelope
  <2>2. \A t \in Slots : \A i \in DOMAIN pipe'[t] : After(pipe'[t][i])
    BY <1>c, <2>1
  <2>3. Head(pipe[s]) = pipe[s][1] /\ 1 \in DOMAIN pipe[s]
    BY <2>1, HeadOfPipe
  <2>4. Ok(Head(pipe[s]))
    BY <1>0, <2>3
  <2>5. ~allPassed' => cause' # {}
    <3>1. CASE Head(pipe[s]) = HookFailed
      BY <1>16, <2>1, <2>4, <3>1 DEF ReadEnvelope, Marked, Excused
    <3>2. CASE Head(pipe[s]) # HookFailed
      <4>1. allPassed' = (allPassed /\ (Head(pipe[s]).cell \in Controls
                                         \/ Head(pipe[s]).outcome = "pass"))
        BY <1>16, <3>2 DEF ReadEnvelope
      <4>2. QED  BY <2>1, <2>4, <3>2, <4>1 DEF Marked, Excused
    <3>3. QED  BY <3>1, <3>2
  <2>6. failedFiles' => cause' # {} \/ Interrupted'
    BY <2>1 DEF Marked, Interrupted, parentVars
  <2>7. QED  BY <2>2, <2>5, <2>6 DEF Marked
<1>17. ASSUME NEW s \in Slots, WorkerClosed(s)
       PROVE  Marked'
  BY <1>17, <1>a DEF WorkerClosed, tallyVars, Interrupted
<1>18. ASSUME NEW s \in Slots, phase # "done", DropLine(s)
       PROVE  Marked'
  <2>1. /\ pipe[s] # << >> /\ pipe' = [pipe EXCEPT ![s] = Tail(@)]
        /\ UNCHANGED <<round, failedFiles, allPassed, signals>> /\ cause \subseteq cause'
    BY <1>18 DEF DropLine, Blame, parentVars, tallyVars
  <2>2. \A t \in Slots : \A i \in DOMAIN pipe'[t] : After(pipe'[t][i])
    BY <1>c, <2>1
  <2>3. QED  BY <2>1, <2>2 DEF Marked, Interrupted
<1>19. ASSUME NEW s \in Slots, PrepareFails(s)
       PROVE  Marked'
  BY <1>19, <1>a DEF PrepareFails, tallyVars, Interrupted
<1>20. ASSUME NEW s \in Slots, Process(s)
       PROVE  Marked'
  <2>1. UNCHANGED <<round, failedFiles, allPassed, signals>> /\ cause \subseteq cause' /\ Alive(s)
    BY <1>20, ProcessFrame
  <2>2. ASSUME UNCHANGED pipe
        PROVE  Marked'
    BY <1>a, <2>1, <2>2 DEF Interrupted
  <2>3. ASSUME NEW e \in Envelopes, Emit(s, e), After(e)
        PROVE  Marked'
    <3>1. \A t \in Slots \ {s} : pipe'[t] = pipe[t]
      BY <2>3 DEF Emit, Typed, WorkerTypes
    <3>2. \A i \in DOMAIN pipe'[s] : pipe'[s][i] = e \/ \E j \in DOMAIN pipe[s] : pipe'[s][i] = pipe[s][j]
      <4>1. pipe'[s] = Append(pipe[s], e) /\ pipe[s] \in Seq(Envelopes)
        BY <2>3 DEF Emit, Typed, WorkerTypes
      <4>2. QED  BY <4>1
    <3>3. \A t \in Slots : \A i \in DOMAIN pipe'[t] : After(pipe'[t][i])
      BY <1>0, <2>1, <2>3, <3>1, <3>2 DEF Excused
    <3>4. QED  BY <2>1, <3>3 DEF Marked, Interrupted
  <2>4. ASSUME Blame("hook")
        PROVE  After(HookFailed)
    BY <2>1, <2>4 DEF Blame, Excused
  <2>5. ASSUME BeforeAll(s)
        PROVE  Marked'
    BY <2>2, <2>3, <2>4, <2>5, HookFailedEnvelope DEF BeforeAll
  <2>6. ASSUME RunScenario(s)
        PROVE  Marked'
    <3>1. PICK c \in left[s] : c \in Cells /\ c = Foremost(left[s])
      <4>1. left[s] # {} /\ left[s] \in SUBSET Cells
        BY <2>6 DEF RunScenario, Typed, WorkerTypes
      <4>2. QED  BY <4>1, ForemostIn
    <3>2. PICK outcome \in Outcomes :
            /\ Emit(s, [cell |-> c, outcome |-> outcome])
            /\ IF outcome = "pass" \/ c \in Controls THEN UNCHANGED cause ELSE Blame("failed")
      BY <2>6, <3>1 DEF RunScenario, Outcomes
    <3> DEFINE e == [cell |-> c, outcome |-> outcome]
    <3>3. e \in Envelopes /\ e # HookFailed /\ e.cell = c /\ e.outcome = outcome
      BY <3>1 DEF Envelopes, HookFailed, Outcomes
    <3>4. c \notin Controls => round = {}
      BY <2>1, <3>1, RoundIsControls
    <3>5. After(e)
      BY <2>1, <3>2, <3>3, <3>4 DEF Blame, Excused
    <3> HIDE DEF e
    <3>6. QED  BY <2>3, <3>2, <3>3, <3>5 DEF e
  <2>7. ASSUME ScenariosOver(s)
        PROVE  Marked'
    BY <2>2, <2>7 DEF ScenariosOver
  <2>8. ASSUME AfterAll(s)
        PROVE  Marked'
    BY <2>2, <2>3, <2>4, <2>8, HookFailedEnvelope DEF AfterAll
  <2>9. ASSUME SignalExit(s) \/ WorkerDies(s) \/ ProcessExit(s)
        PROVE  Marked'
    BY <2>2, <2>9 DEF SignalExit, WorkerDies, ProcessExit
  <2>10. QED  BY <1>20, <2>5, <2>6, <2>7, <2>8, <2>9 DEF Process
<1>21. QED
  BY StepCases, <1>1, <1>2, <1>3, <1>4, <1>5, <1>6, <1>7, <1>8, <1>9, <1>10, <1>11, <1>12,
     <1>13, <1>14, <1>15, <1>16, <1>17, <1>18, <1>19, <1>20

\* Without a cause or a signal, all that was handed out is run and read.
LEMMA DeliveredStep ==
  ASSUME Typed, Shape, Hands, Fresh, Delivered, [Next]_vars, Typed'
  PROVE  Delivered'
<1> DEFINE Sound == /\ cause = {} /\ ~Interrupted /\ round = {}
                    /\ phase \in {"parallel", "serial", "proof"}
           All(s) == group[s] \in {"running", "over"} =>
                       /\ given[s] \subseteq (seen[s] \cup InPipe(s)) \cup left[s]
                       /\ stage[s] \in {"after", "ended"} => left[s] = {}
                       /\ group[s] = "over" => stage[s] = "ended"
<1>0. Sound => \A s \in Slots : All(s)
  BY DEF Delivered
<1>1. ASSUME Sound' => \A s \in Slots : All(s)'
      PROVE  Delivered'
  BY <1>1 DEF Delivered
\* No worker is at work, or a cause, a signal or another phase is there.
<1>b. ASSUME \/ \A s \in Slots : group'[s] \notin {"running", "over"}
             \/ phase' \notin {"parallel", "serial", "proof"} \/ Interrupted' \/ cause' # {}
      PROVE  Delivered'
  BY <1>b DEF Delivered
<1>2. CASE UNCHANGED vars
  BY <1>2 DEF vars, Delivered, Interrupted, InPipe
<1>3. CASE Signal
  <2>1. signals' > 0
    BY <1>3 DEF Signal, Typed, ParentTypes
  <2>2. QED  BY <1>b, <2>1 DEF Interrupted
<1>4. CASE Open \/ Close \/ Thrown \/ Verdict \/ OpenFailed
  BY <1>4, <1>b DEF Open, Close, Thrown, Verdict, OpenFailed
<1>5. CASE Opened \/ StartRound
  BY <1>5, <1>b DEF Opened, StartRound, Prepare
<1>6. CASE ParallelOver \/ RoundOver \/ RoundsDone
  BY <1>6, <1>b DEF ParallelOver, RoundOver, RoundsDone
<1>7. CASE SerialNext
  BY <1>7, <1>b DEF SerialNext, Prepare
<1>14. ASSUME NEW s \in Slots, Spawn(s)
       PROVE  Delivered'
  <2>1. /\ group' = [group EXCEPT ![s] = "running"] /\ stage' = [stage EXCEPT ![s] = "before"]
        /\ left' = [left EXCEPT ![s] = given[s]]
        /\ UNCHANGED <<phase, given, signals, pipe, seen, round, cause>>
    BY <1>14 DEF Spawn, tallyVars
  <2>2. All(s)'
    BY <2>1 DEF Typed, ParentTypes, WorkerTypes
  <2>3. ASSUME NEW t \in Slots \ {s}, All(t)
        PROVE  All(t)'
    BY <2>1, <2>3 DEF Typed, ParentTypes, WorkerTypes, InPipe
  <2>4. Sound' => Sound
    BY <2>1 DEF Interrupted
  <2>5. QED  BY <1>0, <1>1, <2>2, <2>3, <2>4
<1>15. ASSUME NEW s \in Slots, SkipSpawn(s)
       PROVE  Delivered'
  BY <1>15, <1>b DEF SkipSpawn, Interrupted
<1>16. ASSUME NEW s \in Slots, phase # "done", ReadEnvelope(s)
       PROVE  Delivered'
  <2>1. /\ UNCHANGED <<parentVars, stage, left, round, cause>>
        /\ group[s] = "running" /\ pipe[s] # << >> /\ pipe' = [pipe EXCEPT ![s] = Tail(@)]
    BY <1>16 DEF ReadEnvelope, workerVars
  <2>2. /\ \A t \in Slots \ {s} : pipe'[t] = pipe[t] /\ InPipe(t)' = InPipe(t)
        /\ InPipe(s)' = IF Head(pipe[s]) = HookFailed THEN InPipe(s)
                        ELSE InPipe(s) \ {Head(pipe[s]).cell}
    BY <2>1, PipeTaken DEF Hands
  <2>3. Sound' => Sound
    BY <2>1 DEF Interrupted, parentVars
  <2>4. CASE Head(pipe[s]) = HookFailed
    <3>1. UNCHANGED seen
      BY <1>16, <2>4 DEF ReadEnvelope
    <3>2. \A t \in Slots : All(t) => All(t)'
      BY <2>1, <2>2, <2>4, <3>1 DEF parentVars
    <3>3. QED  BY <1>0, <1>1, <2>3, <3>2
  <2>5. CASE Head(pipe[s]) # HookFailed
    <3> DEFINE c == Head(pipe[s]).cell
    <3>1. seen' = [seen EXCEPT ![s] = @ \cup {c}]
      BY <1>16, <2>5 DEF ReadEnvelope
    <3>2. InPipe(s)' = InPipe(s) \ {c}
      BY <2>2, <2>5
    <3> HIDE DEF c
    <3>3. seen'[s] = seen[s] \cup {c} /\ \A t \in Slots \ {s} : seen'[t] = seen[t]
      BY <3>1 DEF Typed, TallyTypes
    <3>4. All(s) => All(s)'
      BY <2>1, <3>2, <3>3 DEF parentVars
    <3>5. \A t \in Slots \ {s} : All(t) => All(t)'
      BY <2>1, <2>2, <3>3 DEF parentVars
    <3>6. QED  BY <1>0, <1>1, <2>3, <3>4, <3>5
  <2>6. QED  BY <2>4, <2>5
<1>17. ASSUME NEW s \in Slots, WorkerClosed(s)
       PROVE  Delivered'
  <2>1. /\ group[s] = "running" /\ stage[s] = "ended" /\ group' = [group EXCEPT ![s] = "over"]
        /\ UNCHANGED <<phase, given, signals, stage, left, pipe, seen, round, cause>>
    BY <1>17 DEF WorkerClosed, workerVars, tallyVars
  <2>2. \A t \in Slots : All(t) => All(t)'
    BY <2>1 DEF Typed, ParentTypes, InPipe
  <2>3. Sound' => Sound
    BY <2>1 DEF Interrupted
  <2>4. QED  BY <1>0, <1>1, <2>2, <2>3
<1>18. ASSUME NEW s \in Slots, phase # "done", DropLine(s)
       PROVE  Delivered'
  <2>1. /\ UNCHANGED <<parentVars, stage, left, seen, round>>
        /\ group[s] = "running" /\ pipe[s] # << >> /\ pipe' = [pipe EXCEPT ![s] = Tail(@)]
        /\ (Head(pipe[s]) = HookFailed => cause' = cause)
        /\ (Head(pipe[s]) # HookFailed => cause' = IF round = {} THEN cause \cup {"lost"} ELSE cause)
    BY <1>18 DEF DropLine, Blame, workerVars, tallyVars
  <2>2. /\ \A t \in Slots \ {s} : pipe'[t] = pipe[t] /\ InPipe(t)' = InPipe(t)
        /\ InPipe(s)' = IF Head(pipe[s]) = HookFailed THEN InPipe(s)
                        ELSE InPipe(s) \ {Head(pipe[s]).cell}
    BY <2>1, PipeTaken DEF Hands
  <2>3. CASE Head(pipe[s]) = HookFailed
    <3>1. \A t \in Slots : All(t) => All(t)'
      BY <2>1, <2>2, <2>3 DEF parentVars
    <3>2. Sound' => Sound
      BY <2>1, <2>3 DEF Interrupted, parentVars
    <3>3. QED  BY <1>0, <1>1, <3>1, <3>2
  <2>4. CASE Head(pipe[s]) # HookFailed
    <3>1. ~Sound'
      BY <2>1, <2>4
    <3>2. QED  BY <1>1, <3>1
  <2>5. QED  BY <2>3, <2>4
<1>19. ASSUME NEW s \in Slots, PrepareFails(s)
       PROVE  Delivered'
  BY <1>19, <1>b DEF PrepareFails
<1>20. ASSUME NEW s \in Slots, Process(s)
       PROVE  Delivered'
  <2>1. UNCHANGED <<phase, group, given, signals, seen, round>> /\ cause \subseteq cause' /\ Alive(s)
    BY <1>20, ProcessFrame
  <2>2. (Sound' => Sound) /\ group[s] = "running"
    BY <2>1 DEF Interrupted, Shape
  \* The other workers' shares are what they were; it is this one's that counts.
  <2>3. ASSUME \A t \in Slots \ {s} : pipe'[t] = pipe[t] /\ stage'[t] = stage[t] /\ left'[t] = left[t],
               Sound' /\ All(s) => All(s)'
        PROVE  Delivered'
    <3>1. ASSUME NEW t \in Slots \ {s}, All(t)
          PROVE  All(t)'
      <4>1. pipe'[t] = pipe[t] /\ stage'[t] = stage[t] /\ left'[t] = left[t]
        BY <2>3
      <4>2. InPipe(t)' = InPipe(t)
        BY <4>1 DEF InPipe
      <4>3. QED  BY <2>1, <3>1, <4>1, <4>2
    <3>2. QED  BY <1>0, <1>1, <2>2, <2>3, <3>1
  <2>4. CASE BeforeAll(s)
    <3>1. CASE stage' = [stage EXCEPT ![s] = "scenarios"] /\ UNCHANGED <<left, pipe>>
      <4>1. All(s) => All(s)'
        BY <2>1, <2>2, <3>1 DEF Typed, WorkerTypes, InPipe
      <4>2. QED  BY <2>3, <3>1, <4>1 DEF Typed, WorkerTypes
    <3>2. CASE Blame("hook")
      BY <1>1, <2>1, <3>2 DEF Blame
    <3>3. QED  BY <2>4, <3>1, <3>2 DEF BeforeAll
  <2>5. CASE RunScenario(s)
    <3>1. PICK c \in left[s] : c \in Cells /\ c = Foremost(left[s])
      <4>1. left[s] # {} /\ left[s] \in SUBSET Cells
        BY <2>5 DEF RunScenario, Typed, WorkerTypes
      <4>2. QED  BY <4>1, ForemostIn
    <3>2. PICK outcome \in Outcomes : Emit(s, [cell |-> c, outcome |-> outcome])
      BY <2>5, <3>1 DEF RunScenario, Outcomes
    <3>3. /\ left' = [left EXCEPT ![s] = @ \ {c}] /\ UNCHANGED stage /\ stage[s] = "scenarios"
      BY <2>5, <3>1 DEF RunScenario
    <3> DEFINE e == [cell |-> c, outcome |-> outcome]
    <3>4. e \in Envelopes /\ e # HookFailed /\ e.cell = c
      BY <3>1 DEF Envelopes, HookFailed, Outcomes
    <3>5. Emit(s, e)
      BY <3>2
    <3> HIDE DEF e
    <3>6. c \notin InPipe(s)
      BY <2>1, <3>1 DEF Hands
    <3>7. /\ \A t \in Slots \ {s} : pipe'[t] = pipe[t] /\ InPipe(t)' = InPipe(t)
          /\ InPipe(s)' = InPipe(s) \cup {c}
      BY <3>4, <3>5, <3>6, PipeAdded DEF Hands
    <3>8. left'[s] = left[s] \ {c} /\ \A t \in Slots \ {s} : left'[t] = left[t]
      BY <3>3 DEF Typed, WorkerTypes
    <3>9. All(s) => All(s)'
      BY <2>1, <2>2, <3>3, <3>7, <3>8
    <3>10. QED  BY <2>3, <3>3, <3>7, <3>8, <3>9
  <2>6. CASE ScenariosOver(s)
    <3>1. /\ left[s] = {} /\ UNCHANGED <<left, pipe>> /\ stage' = [stage EXCEPT ![s] = "after"]
      BY <2>6 DEF ScenariosOver
    <3>2. All(s) => All(s)'
      BY <2>1, <2>2, <3>1 DEF InPipe
    <3>3. QED  BY <2>3, <3>1, <3>2 DEF Typed, WorkerTypes
  <2>7. CASE AfterAll(s)
    <3>1. stage[s] = "after" /\ stage' = [stage EXCEPT ![s] = "ended"] /\ UNCHANGED left
      BY <2>7 DEF AfterAll, Ended
    <3>2. CASE UNCHANGED pipe
      <4>1. All(s) => All(s)'
        BY <2>1, <2>2, <3>1, <3>2 DEF InPipe
      <4>2. QED  BY <2>3, <3>1, <3>2, <4>1 DEF Typed, WorkerTypes
    <3>3. CASE Emit(s, HookFailed) /\ Blame("hook")
      BY <1>1, <2>1, <3>3 DEF Blame
    <3>4. QED  BY <2>7, <3>2, <3>3 DEF AfterAll
  <2>8. CASE SignalExit(s)
    BY <1>b, <2>1, <2>8 DEF SignalExit, Interrupted
  <2>9. CASE WorkerDies(s)
    <3>1. /\ stage' = [stage EXCEPT ![s] = "ended"] /\ UNCHANGED <<left, pipe>>
          /\ left[s] = {} \/ Blame("lost")
      BY <2>9 DEF WorkerDies, Ended
    <3>2. CASE left[s] = {}
      <4>1. All(s) => All(s)'
        BY <2>1, <2>2, <3>1, <3>2 DEF InPipe
      <4>2. QED  BY <2>3, <3>1, <4>1 DEF Typed, WorkerTypes
    <3>3. CASE Blame("lost")
      BY <1>1, <2>1, <3>3 DEF Blame
    <3>4. QED  BY <3>1, <3>2, <3>3
  <2>10. CASE ProcessExit(s)
    BY <1>1, <2>1, <2>10 DEF ProcessExit, Blame
  <2>11. QED  BY <1>20, <2>4, <2>5, <2>6, <2>7, <2>8, <2>9, <2>10 DEF Process
<1>21. QED
  BY StepCases, <1>2, <1>3, <1>4, <1>5, <1>6, <1>7, <1>14, <1>15, <1>16, <1>17, <1>18, <1>19, <1>20

\* Without a cause or a signal, no scenario of an environment is left out.
LEMMA CoveredStep ==
  ASSUME Typed, Shape, Hands, Fresh, Delivered, Covered, [Next]_vars, Typed'
  PROVE  Covered'
<1> DEFINE Sound == cause = {} /\ ~Interrupted
           Whole(c) == runs[pass][c] # << >>
           Held(c) == \E s \in Slots : Busy(s) /\ c \in given[s]
<1>0. pass \in Nat /\ 1 \in Slots /\ Passes \in Nat
  BY RunConstants DEF Typed, ParentTypes, Slots
\* Records are only added, and nothing is handed out.
<1>a. ASSUME pass' = pass, cause \subseteq cause', Interrupted => Interrupted',
             \A p \in 1..Passes, c \in Cells : runs[p][c] # << >> => runs'[p][c] # << >>,
             phase' \in {"proof", "closing"} => phase \in {"proof", "closing"},
             phase' \in {"parallel", "serial"} =>
               /\ phase \in {"parallel", "serial"} /\ UNCHANGED <<serials, given>>
               /\ \A s \in Slots : Busy(s) => Busy(s)'
      PROVE  Covered'
  <2>1. SUFFICES ASSUME Sound', NEW p \in 1..Passes, NEW c \in Cells
                 PROVE  /\ p < pass' \/ (p = pass' /\ phase' \in {"proof", "closing"}) =>
                             runs'[p][c] # << >>
                        /\ p = pass' /\ phase' \in {"parallel", "serial"} =>
                             \/ FileOf(c) \in serials' \/ runs'[p][c] # << >>
                             \/ \E s \in Slots : Busy(s)' /\ c \in given'[s]
    BY <2>1 DEF Covered
  <2>2. Sound
    BY <1>a, <2>1
  <2>3. p < pass' \/ (p = pass' /\ phase' \in {"proof", "closing"}) => runs'[p][c] # << >>
    BY <1>a, <2>2 DEF Covered
  <2>4. ASSUME p = pass', phase' \in {"parallel", "serial"}
        PROVE  \/ FileOf(c) \in serials' \/ runs'[p][c] # << >>
               \/ \E s \in Slots : Busy(s)' /\ c \in given'[s]
    BY <1>a, <2>2, <2>4 DEF Covered
  <2>5. QED  BY <2>3, <2>4
\* A pass's workers are over: what they had is recorded.
<1>b. ASSUME Sound, AllOver, phase \in {"parallel", "serial"}, NEW c \in Cells, Held(c)
      PROVE  Whole(c)
  <2>1. PICK s \in Slots : Busy(s) /\ c \in given[s]
    BY <1>b
  <2>2. group[s] = "over" /\ pass \in 1..Passes
    BY <1>b, <2>1, BusyPass DEF AllOver, Busy
  <2>3. c \in seen[s]
    BY <1>b, <2>1, <2>2, AllSeen
  <2>4. QED  BY <2>1, <2>2, <2>3 DEF Fresh
<1>1. CASE UNCHANGED vars
  BY <1>1, <1>a DEF vars, Interrupted, Busy
<1>2. CASE Signal
  BY <1>2, <1>a DEF Signal, tallyVars, Interrupted, Busy, Typed, ParentTypes
<1>3. CASE Open
  BY <1>3, <1>a DEF Open, tallyVars, Interrupted
<1>4. CASE Opened
  <2>1. /\ phase' = "parallel" /\ serials' = SerialFiles
        /\ group' = [s \in Slots |-> IF s \in 1..WorkerCount THEN "preparing" ELSE "idle"]
        /\ given' = [s \in Slots |-> IF s \in 1..WorkerCount THEN CellsOf(Bucket(s)) ELSE {}]
        /\ UNCHANGED <<pass, runs, cause, signals>>
    BY <1>4, BucketsPartition DEF Opened, Prepare
  <2>2. ASSUME NEW c \in Cells
        PROVE  FileOf(c) \in serials' \/ \E s \in Slots : Busy(s)' /\ c \in given'[s]
    <3>1. FileOf(c) \in Files
      BY DEF Files
    <3>2. CASE FileOf(c) \in Serial
      BY <2>1, <3>1, <3>2 DEF SerialFiles
    <3>3. CASE FileOf(c) \notin Serial
      <4>1. FileOf(c) \in ParallelFiles
        BY <3>1, <3>3 DEF ParallelFiles, IsParallel
      <4>2. PICK s \in 1..WorkerCount : FileOf(c) \in Bucket(s)
        BY <4>1, BucketsPartition
      <4>3. s \in Slots /\ Busy(s)' /\ c \in given'[s]
        BY <2>1, <4>2, BucketsPartition DEF Busy, CellsOf
      <4>4. QED  BY <4>3
    <3>4. QED  BY <3>2, <3>3
  <2>3. Sound' => \A p \in 1..Passes, c \in Cells : p < pass' => runs'[p][c] # << >>
    BY <2>1 DEF Covered, Interrupted
  <2>4. QED  BY <2>1, <2>2, <2>3 DEF Covered
<1>5. CASE OpenFailed
  <2>1. CASE Interrupted
    BY <1>5, <2>1, <1>a DEF OpenFailed, Interrupted
  <2>2. CASE ~Interrupted
    <3>1. "world" \in cause'
      BY <1>5, <2>2 DEF OpenFailed
    <3>2. QED  BY <3>1 DEF Covered
  <2>3. QED  BY <2>1, <2>2
<1>6. CASE ParallelOver
  <2>1. /\ phase = "parallel" /\ AllOver /\ phase' = "serial"
        /\ UNCHANGED <<pass, serials, runs, cause, signals>>
    BY <1>6 DEF ParallelOver
  <2>2. Sound' => Sound
    BY <2>1 DEF Interrupted
  <2>3. Sound => \A p \in 1..Passes, c \in Cells : p < pass => runs[p][c] # << >>
    BY DEF Covered
  <2>4. Sound /\ pass \in 1..Passes => \A c \in Cells : FileOf(c) \in serials \/ Whole(c)
    BY <2>1, <1>b DEF Covered
  <2>5. QED  BY <2>1, <2>2, <2>3, <2>4 DEF Covered
<1>7. CASE SerialNext
  <2>1. phase = "serial" /\ AllOver /\ UNCHANGED <<pass, runs, cause, signals>>
    BY <1>7 DEF SerialNext
  <2>2. Sound' => Sound
    BY <2>1 DEF Interrupted
  <2>3. Sound => \A p \in 1..Passes, c \in Cells : p < pass => runs[p][c] # << >>
    BY DEF Covered
  <2>4. Sound /\ pass \in 1..Passes => \A c \in Cells : FileOf(c) \in serials \/ Whole(c)
    BY <2>1, <1>b DEF Covered
  <2>5. CASE serials = {}
    <3>1. phase' = "proof"
      BY <1>7, <2>5 DEF SerialNext
    <3>2. QED  BY <2>1, <2>2, <2>3, <2>4, <2>5, <3>1 DEF Covered
  <2>6. CASE serials # {}
    <3> DEFINE file == FileOf(Foremost(CellsOf(serials)))
    <3>1.   /\ group' = [s \in Slots |-> IF s \in {1} THEN "preparing" ELSE "idle"]
            /\ given' = [s \in Slots |-> IF s \in {1} THEN CellsOf({file}) ELSE {}]
            /\ serials' = serials \ {file} /\ phase' = phase
      BY <1>7, <2>6 DEF SerialNext, Prepare
    <3> HIDE DEF file
    <3>2. \A c \in Cells : FileOf(c) \in serials =>
            FileOf(c) \in serials' \/ (Busy(1)' /\ c \in given'[1])
      BY <1>0, <3>1 DEF Busy, CellsOf
    <3>3. QED  BY <1>0, <2>1, <2>2, <2>3, <2>4, <3>1, <3>2 DEF Covered
  <2>7. QED  BY <2>5, <2>6
<1>8. CASE StartRound
  BY <1>8, <1>a DEF StartRound, Interrupted
<1>9. CASE RoundOver
  BY <1>9, <1>a DEF RoundOver, Interrupted
<1>10. CASE RoundsDone
  BY <1>10, <1>a DEF RoundsDone, tallyVars, Interrupted
<1>11. CASE Close
  <2>1. /\ pass' = pass + 1 /\ phase = "closing" /\ phase' = "pass"
        /\ UNCHANGED <<runs, cause, signals>>
    BY <1>11 DEF Close, tallyVars
  <2>2. \A p \in 1..Passes : p < pass' => p < pass \/ p = pass
    BY <1>0, <2>1
  <2>3. QED  BY <2>1, <2>2 DEF Covered, Interrupted
<1>12. CASE Thrown
  BY <1>12, <1>a DEF Thrown, tallyVars, Interrupted
<1>13. CASE Verdict
  BY <1>13, <1>a DEF Verdict, tallyVars, Interrupted
<1>14. ASSUME NEW s \in Slots, Spawn(s)
       PROVE  Covered'
  BY <1>14, <1>a DEF Spawn, tallyVars, Interrupted, Busy, Typed, ParentTypes
<1>15. ASSUME NEW s \in Slots, SkipSpawn(s)
       PROVE  Covered'
  BY <1>15, <1>a DEF SkipSpawn, tallyVars, Interrupted, Busy, Typed, ParentTypes
<1>16. ASSUME NEW s \in Slots, phase # "done", ReadEnvelope(s)
       PROVE  Covered'
  <2>1. /\ UNCHANGED <<phase, pass, group, given, serials, signals, cause>>
        /\ group[s] = "running" /\ pipe[s] # << >>
    BY <1>16 DEF ReadEnvelope, parentVars
  <2>2. \A p \in 1..Passes, c \in Cells : runs[p][c] # << >> => runs'[p][c] # << >>
    <3>1. CASE Head(pipe[s]) = HookFailed
      BY <1>16, <3>1 DEF ReadEnvelope
    <3>2. CASE Head(pipe[s]) # HookFailed
      <4> DEFINE c == Head(pipe[s]).cell
                 outcome == Head(pipe[s]).outcome
      <4>1. /\ pass \in 1..Passes /\ c \in Cells /\ outcome \in Outcomes
            /\ runs[pass][c] \in Seq(Outcomes)
        BY <1>16, <2>1, <3>2, ReadFacts
      <4>2. runs' = [runs EXCEPT ![pass][c] = Append(@, outcome)]
        BY <1>16, <3>2 DEF ReadEnvelope
      <4> HIDE DEF c, outcome
      <4>3. /\ runs'[pass][c] = Append(runs[pass][c], outcome)
            /\ \A p \in 1..Passes, d \in Cells : p # pass \/ d # c => runs'[p][d] = runs[p][d]
        BY <4>1, <4>2 DEF Typed, TallyTypes
      <4>4. Append(runs[pass][c], outcome) # << >>
        BY <4>1
      <4>5. QED  BY <4>3, <4>4
    <3>3. QED  BY <3>1, <3>2
  <2>3. QED  BY <1>a, <2>1, <2>2 DEF Interrupted, Busy
<1>17. ASSUME NEW s \in Slots, WorkerClosed(s)
       PROVE  Covered'
  BY <1>17, <1>a DEF WorkerClosed, tallyVars, Interrupted, Busy, Typed, ParentTypes
<1>18. ASSUME NEW s \in Slots, DropLine(s)
       PROVE  Covered'
  BY <1>18, <1>a DEF DropLine, parentVars, tallyVars, Interrupted, Blame, Busy
<1>19. ASSUME NEW s \in Slots, PrepareFails(s)
       PROVE  Covered'
  BY <1>19, <1>a DEF PrepareFails, tallyVars, Interrupted
<1>20. ASSUME NEW s \in Slots, Process(s)
       PROVE  Covered'
  BY <1>20, <1>a, ProcessFrame DEF Interrupted, Busy
<1>21. QED
  BY StepCases, <1>1, <1>2, <1>3, <1>4, <1>5, <1>6, <1>7, <1>8, <1>9, <1>10, <1>11, <1>12,
     <1>13, <1>14, <1>15, <1>16, <1>17, <1>18, <1>19, <1>20

-----------------------------------------------------------------------------
(* The verdict.                                                             *)

\* Nothing is recorded and nothing is undone once the run has its verdict.
LEMMA ExitStep ==
  ASSUME Typed, Shape, [Next]_vars
  PROVE  \/ Verdict
         \/ exit' \in {"none", "signal", "threw"}
         \/ UNCHANGED <<exit, runs, blamed>> /\ cause \subseteq cause'
<1>0. exit # "none" => phase = "done"
  BY DEF Shape
<1>1. CASE UNCHANGED vars
  BY <1>1 DEF vars
<1>2. CASE Signal
  BY <1>2, <1>0 DEF Signal
<1>3. CASE Open \/ Opened \/ OpenFailed \/ ParallelOver \/ SerialNext \/ StartRound
  BY <1>3, <1>0 DEF Open, Opened, OpenFailed, ParallelOver, SerialNext, StartRound
<1>4. CASE RoundOver \/ RoundsDone \/ Close \/ Thrown
  BY <1>4, <1>0 DEF RoundOver, RoundsDone, Close, Thrown
<1>5. ASSUME NEW s \in Slots, phase # "done", Spawn(s) \/ SkipSpawn(s) \/ WorkerClosed(s)
      PROVE  exit' = "none"
  BY <1>5, <1>0 DEF Spawn, SkipSpawn, WorkerClosed, Typed, ParentTypes
<1>6. ASSUME NEW s \in Slots, phase # "done", ReadEnvelope(s) \/ DropLine(s)
      PROVE  exit' = "none"
  BY <1>6, <1>0 DEF ReadEnvelope, DropLine, parentVars, Typed, ParentTypes
<1>7. ASSUME NEW s \in Slots, PrepareFails(s)
      PROVE  exit' = "none"
  BY <1>7, <1>0 DEF PrepareFails, Typed, ParentTypes
<1>8. ASSUME NEW s \in Slots, Process(s)
      PROVE  UNCHANGED <<exit, runs, blamed>> /\ cause \subseteq cause'
  BY <1>8, ProcessFrame
<1>9. QED  BY StepCases, <1>1, <1>2, <1>3, <1>4, <1>5, <1>6, <1>7, <1>8

\* At a verdict that no signal made, the passes are over, and what is promised
\* is a record of every scenario in every environment beside what is recorded.
LEMMA AtTheEnd ==
  ASSUME Typed, Shape, Verdict, exit' \in {"green", "red"}
  PROVE  /\ ~Interrupted /\ pass > Passes /\ round = {}
         /\ Promised = FirstRuns \cup Records
         /\ (FirstRuns \subseteq Records) <=> \A p \in 1..Passes, c \in Cells : runs[p][c] # << >>
         /\ exit' = "green" <=> allPassed /\ ~failedFiles /\ written = expected
<1>1. ~Interrupted /\ (exit' = "green" <=> allPassed /\ ~failedFiles /\ written = expected)
  BY DEF Verdict
<1>2. pass > Passes /\ round = {}
  BY <1>1 DEF Verdict, Shape
<1>3. Awaited = {}
  <2>1. round \ seen[1] = {}
    BY <1>2
  <2>2. NextRuns({}) = {}
    BY DEF NextRuns
  <2>3. QED  BY <2>1, <2>2 DEF Awaited
<1>4. Promised = FirstRuns \cup Records
  BY <1>3 DEF Promised
<1>5. ASSUME NEW p \in 1..Passes, NEW c \in Cells
      PROVE  (<<<<p, c>>, 1>> \in Records) <=> runs[p][c] # << >>
  <2>1. runs[p][c] \in Seq(Outcomes) /\ 1 \in 1..ProofRuns
    BY RunConstants DEF Typed, TallyTypes
  <2>2. (1 <= Len(runs[p][c])) <=> runs[p][c] # << >>
    BY <2>1
  <2>3. <<<<p, c>>, 1>> \in Executions
    BY <2>1 DEF Executions
  <2>4. QED  BY <2>2, <2>3 DEF Records
<1>6. (FirstRuns \subseteq Records) <=> \A p \in 1..Passes, c \in Cells : runs[p][c] # << >>
  <2>1. (FirstRuns \subseteq Records) <=> \A p \in 1..Passes, c \in Cells : <<<<p, c>>, 1>> \in Records
    BY DEF FirstRuns
  <2>2. QED  BY <2>1, <1>5
<1>7. QED  BY <1>1, <1>2, <1>4, <1>6

\* GreenMeansComplete of any exit, executions and blame.
Complete(verdict, recorded, carried) ==
  verdict = "green" =>
    \A p \in 1..Passes, c \in Cells :
      /\ recorded[p][c] # << >>
      /\ c \notin Controls => ToSet(recorded[p][c]) = {"pass"}
      /\ (c \in Controls /\ ToSet(recorded[p][c]) = {"fail"}) =>
           Len(recorded[p][c]) = ProofRuns \/ <<p, c>> \in carried

LEMMA GreenIs ==
  /\ GreenMeansComplete <=> Complete(exit, runs, blamed)
  /\ GreenMeansComplete' <=> Complete(exit', runs', blamed')
BY DEF GreenMeansComplete, Complete

\* A green run has its records.
LEMMA GreenStep ==
  ASSUME Typed, Shape, Counted, Tallied, GreenMeansComplete, [Next]_vars
  PROVE  GreenMeansComplete'
<1>1. CASE exit' \in {"none", "signal", "threw"}
  BY <1>1, GreenIs DEF Complete
<1>2. CASE UNCHANGED <<exit, runs, blamed>> /\ cause \subseteq cause'
  BY <1>2, GreenIs
<1>3. CASE Verdict /\ exit' = "green"
  <2>1. UNCHANGED <<runs, blamed>>
    BY <1>3 DEF Verdict, tallyVars
  <2>2. /\ ~Interrupted /\ pass > Passes /\ allPassed /\ written = expected
        /\ Promised = FirstRuns \cup Records
        /\ (FirstRuns \subseteq Records) <=> \A p \in 1..Passes, c \in Cells : runs[p][c] # << >>
    BY <1>3, AtTheEnd
  <2>3. Cardinality(Records) = Cardinality(FirstRuns \cup Records)
    BY <2>2 DEF Counted, Tallied
  <2>4. Records = FirstRuns \cup Records
    <3>1. Records \in SUBSET (FirstRuns \cup Records) /\ IsFiniteSet(FirstRuns \cup Records)
      BY RecordsFinite
    <3> DEFINE R == Records
               U == FirstRuns \cup Records
    <3>2. R \in SUBSET U /\ IsFiniteSet(U) /\ Cardinality(R) = Cardinality(U)
      BY <3>1, <2>3
    <3> HIDE DEF R, U
    <3>3. R = U
      BY <3>2, FS_Subset
    <3>4. QED  BY <3>3 DEF R, U
  <2>5. \A p \in 1..Passes, c \in Cells : runs[p][c] # << >>
    BY <2>2, <2>4
  <2>6. ASSUME NEW p \in 1..Passes, NEW c \in Cells \ Controls
        PROVE  ToSet(runs[p][c]) = {"pass"}
    <3>1. \A i \in DOMAIN runs[p][c] : runs[p][c][i] = "pass"
      BY <2>2 DEF Tallied
    <3>2. runs[p][c] \in Seq(Outcomes) /\ runs[p][c] # << >>
      BY <2>5 DEF Typed, TallyTypes
    <3>3. 1 \in DOMAIN runs[p][c]
      BY <3>2
    <3>4. QED  BY <3>1, <3>3 DEF ToSet
  <2>7. ASSUME NEW p \in 1..Passes, NEW c \in Cells, c \in Controls, ToSet(runs[p][c]) = {"fail"}
        PROVE  Len(runs[p][c]) = ProofRuns \/ <<p, c>> \in blamed
    <3>1. /\ runs[p][c] \in Seq(Outcomes) /\ runs[p][c] # << >> /\ Len(runs[p][c]) <= ProofRuns
          /\ ProofRuns \in Nat
      BY <2>5, RunConstants DEF Typed, TallyTypes
    <3>2. Len(runs[p][c]) \in 1..ProofRuns
      BY <3>1
    <3>3. \A i \in DOMAIN runs[p][c] : runs[p][c][i] = "fail"
      BY <2>7 DEF ToSet
    <3>4. Len(runs[p][c]) # ProofRuns => NeedsProof(p, c)
      BY <2>7, <3>1, <3>2, <3>3 DEF NeedsProof
    <3>5. p < pass
      BY <2>2, RunConstants DEF Typed, ParentTypes
    <3>6. QED  BY <2>2, <3>4, <3>5 DEF Tallied
  <2>8. QED  BY <2>1, <2>5, <2>6, <2>7, GreenIs DEF Complete
<1>4. CASE Verdict /\ exit' # "green"
  BY <1>4, GreenIs DEF Complete
<1>5. QED  BY <1>1, <1>2, <1>3, <1>4, ExitStep

\* A red run has its cause.
LEMMA RedStep ==
  ASSUME Typed, Shape, Counted, Marked, Covered, RedMeansCause, [Next]_vars
  PROVE  RedMeansCause'
<1>1. CASE exit' \in {"none", "signal", "threw"}
  BY <1>1 DEF RedMeansCause
<1>2. CASE UNCHANGED <<exit, runs, blamed>> /\ cause \subseteq cause'
  BY <1>2 DEF RedMeansCause
<1>3. CASE Verdict /\ exit' = "red"
  <2>1. UNCHANGED cause
    BY <1>3 DEF Verdict
  <2>2. /\ ~Interrupted /\ pass > Passes /\ Promised = FirstRuns \cup Records
        /\ (FirstRuns \subseteq Records) <=> \A p \in 1..Passes, c \in Cells : runs[p][c] # << >>
        /\ ~(allPassed /\ ~failedFiles /\ written = expected)
    BY <1>3, AtTheEnd
  <2>3. SUFFICES ASSUME cause = {}
                 PROVE  FALSE
    BY <2>1 DEF RedMeansCause
  <2>4. \A p \in 1..Passes, c \in Cells : runs[p][c] # << >>
    <3>1. \A p \in 1..Passes : p < pass
      BY <2>2, RunConstants DEF Typed, ParentTypes
    <3>2. QED  BY <2>2, <2>3, <3>1 DEF Covered
  <2>5. Promised = Records
    BY <2>2, <2>4
  <2>6. written = expected
    BY <2>2, <2>3, <2>5 DEF Counted
  <2>7. allPassed /\ ~failedFiles
    BY <2>2, <2>3 DEF Marked
  <2>8. QED  BY <2>2, <2>6, <2>7
<1>4. CASE Verdict /\ exit' # "red"
  BY <1>4 DEF RedMeansCause
<1>5. QED  BY <1>1, <1>2, <1>3, <1>4, ExitStep

\* The invariant holds of a run that starts.
LEMMA InitInv == Init => IInv
<1> SUFFICES ASSUME Init
             PROVE  IInv
  OBVIOUS
<1>0. /\ 1 \in Slots /\ Passes \in Nat \ {0} /\ ProofRuns \in Nat \ {0} /\ Concurrency \in Nat \ {0}
      /\ Len(Pickles) \in Nat /\ MaxSignals \in 0..2 /\ Controls \subseteq Cells
  BY RunConstants, CellsCounted DEF Slots
<1>1. Len(<< >>) = 0 /\ DOMAIN << >> = {}
  OBVIOUS
<1>2. Typed
  <2>1. ParentTypes
    BY <1>0 DEF Init, ParentTypes
  <2>2. WorkerTypes
    <3>1. << >> \in Seq(Envelopes)
      OBVIOUS
    <3>2. QED  BY <3>1 DEF Init, WorkerTypes
  <2>3. TallyTypes
    <3>1. << >> \in Seq(Outcomes)
      OBVIOUS
    <3>2. \A p \in 1..Passes, c \in Cells : runs[p][c] = << >>
      BY DEF Init
    <3>3. runs \in [1..Passes -> [Cells -> Seq(Outcomes)]]
      BY <3>1 DEF Init
    <3>4. \A p \in 1..Passes, c \in Cells : Len(runs[p][c]) <= ProofRuns
      BY <1>0, <1>1, <3>2
    <3>5. QED  BY <3>3, <3>4 DEF Init, TallyTypes
  <2>4. QED  BY <2>1, <2>2, <2>3 DEF Typed
<1>3. \A s \in Slots : InPipe(s) = {} /\ OnceInPipe(s) /\ ~Busy(s) /\ ~Alive(s)
  BY <1>1 DEF Init, InPipe, OnceInPipe, Busy, Alive
<1>4. Shape
  BY <1>0, <1>3 DEF Init, Shape, Interrupted
<1>5. Hands
  BY <1>3 DEF Init, Hands
<1>6. Fresh
  BY <1>0, <1>3 DEF Init, Fresh
<1>7. Counted
  <2>1. Records = {}
    BY <1>0, <1>1 DEF Init, Records, Executions
  <2>2. round \ seen[1] = {} /\ Awaited = {}
    BY DEF Init, Awaited, NextRuns
  <2>3. Promised = FirstRuns
    BY <2>1, <2>2 DEF Promised
  <2>4. Cardinality({}) = 0 /\ Cardinality(FirstRuns) = Passes * Len(Pickles)
    BY ExecutionsCounted, FS_EmptySet
  <2>5. written = 0 /\ expected = Len(Pickles) * Passes /\ pass = 1
    BY DEF Init
  <2>6. /\ Len(Pickles) * Passes \in Int /\ Len(Pickles) * Passes = Passes * Len(Pickles)
        /\ Len(Pickles) * Passes >= Len(Pickles) * (Passes + 1 - 1) + 0
    BY <1>0
  <2>7. written = Cardinality(Records)
    BY <2>1, <2>4, <2>5
  <2>8. expected = Cardinality(Promised)
    BY <2>3, <2>4, <2>5, <2>6
  <2>9. expected >= Len(Pickles) * (Passes + 1 - pass) + Cardinality(round \ seen[1])
    BY <2>2, <2>4, <2>5, <2>6
  <2>10. QED  BY <2>5, <2>6, <2>7, <2>8, <2>9 DEF Counted
<1>8. Tallied
  BY <1>0, <1>1 DEF Init, Tallied
<1>9. Marked /\ Delivered /\ Covered
  BY <1>0, <1>1 DEF Init, Marked, Delivered, Covered
<1>10. GreenMeansComplete /\ RedMeansCause
  BY DEF Init, GreenMeansComplete, RedMeansCause
<1>11. QED  BY <1>2, <1>4, <1>5, <1>6, <1>7, <1>8, <1>9, <1>10 DEF IInv

\* The invariant is kept by every step.
LEMMA InvStep == IInv /\ [Next]_vars => IInv'
<1> SUFFICES ASSUME IInv, [Next]_vars
             PROVE  IInv'
  OBVIOUS
<1>1. /\ Typed /\ Shape /\ Hands /\ Fresh /\ Counted /\ Tallied /\ Marked
      /\ Delivered /\ Covered
  BY DEF IInv
<1>2. Typed'
  BY <1>1, TypedStep
<1>3. Shape' /\ Hands' /\ Fresh'
  BY <1>1, ShapeStep, HandsStep, FreshStep
<1>4. Counted' /\ Tallied'
  BY <1>1, <1>2, CountedStep, TalliedStep
<1>5. Marked' /\ Delivered' /\ Covered'
  BY <1>1, <1>2, MarkedStep, DeliveredStep, CoveredStep
<1>6. GreenMeansComplete' /\ RedMeansCause'
  BY <1>1, GreenStep, RedStep DEF IInv
<1>7. QED  BY <1>2, <1>3, <1>4, <1>5, <1>6 DEF IInv

\* The invariant holds of every state of every run.
THEOREM RunInvariant == Spec => []IInv
<1>1. QED  BY InitInv, InvStep, PTL DEF Spec

\* Every state of a run has its types: no more is written than the environments
\* and the proof runs have room for, and no count of what is expected is negative.
THEOREM TypeCorrect == Spec => []TypeOK
<1>1. IInv => TypeOK
  <2> SUFFICES ASSUME IInv
               PROVE  TypeOK
    OBVIOUS
  <2>1. Typed /\ Counted
    BY DEF IInv
  <2>2. /\ Passes \in Nat /\ ProofRuns \in Nat /\ Len(Pickles) \in Nat /\ pass \in Nat
        /\ pass <= Passes + 1
    BY <2>1, RunConstants, CellsCounted DEF Typed, ParentTypes
  <2>3. written \in 0..Len(Pickles) * Passes * ProofRuns
    <3> DEFINE n == Len(Pickles)
               w == written
    <3>1. /\ w = Cardinality(Records) /\ Cardinality(Records) \in Nat
          /\ Cardinality(Records) <= (Passes * n) * ProofRuns
      BY <2>1, RecordsFinite, ExecutionsCounted DEF Counted
    <3>2. Passes * n = n * Passes /\ (n * Passes) * ProofRuns \in Nat
      BY <2>2
    <3> HIDE DEF n, w
    <3>3. w \in 0..(n * Passes) * ProofRuns
      BY <3>1, <3>2
    <3>4. QED  BY <3>3 DEF n, w
  <2>4. expected \in Nat
    <3> DEFINE owed == Len(Pickles) * (Passes + 1 - pass)
               open == Cardinality(round \ seen[1])
    <3>1. Passes + 1 - pass \in Nat
      BY <2>2
    <3>2. owed \in Nat
      BY <2>2, <3>1
    <3>3. open \in Nat
      <4>1. round \ seen[1] \in SUBSET Cells
        BY <2>1, RunConstants DEF Typed, ParentTypes
      <4>2. IsFiniteSet(round \ seen[1])
        BY <4>1, CellsCounted, FS_Subset
      <4>3. QED  BY <4>2, FS_CardinalityType
    <3>4. expected \in Int /\ expected >= owed + open
      BY <2>1 DEF Counted
    <3> HIDE DEF owed, open
    <3>5. QED  BY <3>2, <3>3, <3>4
  <2>5. CountTypes
    BY <2>3, <2>4 DEF CountTypes
  <2>6. QED  BY <2>1, <2>5 DEF TypeOK, Typed
<1>2. QED  BY <1>1, RunInvariant, PTL

\* A run that quietly reports fewer records than it promised is not green.
THEOREM GreenIsComplete == Spec => []GreenMeansComplete
<1>1. IInv => GreenMeansComplete
  BY DEF IInv
<1>2. QED  BY <1>1, RunInvariant, PTL

\* Neither a control nor anything of a proof round makes a run red.
THEOREM RedHasCause == Spec => []RedMeansCause
<1>1. IInv => RedMeansCause
  BY DEF IInv
<1>2. QED  BY <1>1, RunInvariant, PTL

\* While a serial file runs no other worker does: two workers that are alive
\* were both given files of the parallel phase.
THEOREM SerialIsAlone == Spec => []SerialAlone
<1>1. IInv => SerialAlone
  <2> SUFFICES ASSUME IInv, NEW s \in Slots, NEW t \in Slots, Alive(s), Alive(t), s # t,
                      NEW c \in given[s], FileOf(c) \in Serial
               PROVE  FALSE
    BY DEF SerialAlone
  <2>1. Busy(s) /\ Busy(t)
    BY DEF IInv, Shape, Busy
  <2>2. given[s] \subseteq CellsOf(ParallelFiles)
    BY <2>1 DEF IInv, Hands
  <2>3. QED  BY <2>2 DEF CellsOf, ParallelFiles, IsParallel
<1>2. QED  BY <1>1, RunInvariant, PTL

-----------------------------------------------------------------------------
(* The world of a pass.  A run that is over has no worker left, but for    *)
(* the two ends that wait for none: a second signal, and a throw.          *)

WorldInv ==
  /\ phase \in {"parallel", "serial", "proof", "closing", "thrown"} => world = "up"
  /\ phase = "done" /\ signals # 2 /\ exit # "threw" => \A s \in Slots : ~Busy(s)

\* The world is up from the pass's first worker to after its last.
LEMMA WorldStep ==
  ASSUME Typed, Shape, WorldInv, [Next]_vars
  PROVE  WorldInv'
<1> USE DEF WorldInv, Busy
<1>1. CASE UNCHANGED vars
  BY <1>1 DEF vars
<1>2. CASE Signal
  BY <1>2, RunConstants DEF Signal, Typed, ParentTypes
<1>3. CASE Open
  BY <1>3 DEF Open
<1>4. CASE Opened
  BY <1>4 DEF Opened
<1>5. CASE OpenFailed
  BY <1>5 DEF OpenFailed
<1>6. CASE ParallelOver \/ SerialNext
  BY <1>6 DEF ParallelOver, SerialNext
<1>7. CASE StartRound \/ RoundOver \/ RoundsDone
  BY <1>7 DEF StartRound, RoundOver, RoundsDone
<1>8. CASE Close \/ Thrown
  BY <1>8 DEF Close, Thrown
<1>9. CASE Verdict
  BY <1>9 DEF Verdict, Shape
<1>10. ASSUME NEW s \in Slots, phase # "done", Spawn(s) \/ SkipSpawn(s) \/ WorkerClosed(s)
       PROVE  WorldInv'
  BY <1>10 DEF Spawn, SkipSpawn, WorkerClosed
<1>11. ASSUME NEW s \in Slots, phase # "done", ReadEnvelope(s) \/ DropLine(s)
       PROVE  WorldInv'
  BY <1>11 DEF ReadEnvelope, DropLine, parentVars
<1>12. ASSUME NEW s \in Slots, PrepareFails(s)
       PROVE  WorldInv'
  <2>1. /\ phase' = "thrown" /\ world' = world
        /\ phase # "done" /\ Busy(s)
    BY <1>12 DEF PrepareFails
  <2>2. phase \in {"parallel", "serial", "proof", "thrown"}
    BY <2>1, BusyPass
  <2> QED BY <2>1, <2>2
<1>13. ASSUME NEW s \in Slots, Process(s)
       PROVE  WorldInv'
  BY <1>13, ProcessFrame
<1>14. QED
  BY StepCases, <1>1, <1>2, <1>3, <1>4, <1>5, <1>6, <1>7, <1>8, <1>9, <1>10, <1>11, <1>12, <1>13

\* Whatever fails, crashes or is signalled, the world of a pass is there as
\* long as one of its workers is, until a second signal or a throw ends the run.
THEOREM WorldIsLast == Spec => []WorldOutlivesWorkers
<1>1. Init => WorldInv
  BY DEF Init, WorldInv
<1>2. IInv /\ WorldInv /\ [Next]_vars => WorldInv'
  BY WorldStep DEF IInv
<1>3. IInv /\ WorldInv => WorldOutlivesWorkers
  <2> SUFFICES ASSUME IInv, WorldInv, NEW s \in Slots, Alive(s), signals # 2, exit # "threw"
               PROVE  world = "up"
    BY DEF WorldOutlivesWorkers
  <2>1. Typed /\ Shape /\ Busy(s)
    BY DEF IInv, Shape, Busy
  <2>2. phase # "done"
    BY <2>1 DEF WorldInv
  <2>3. phase \in {"parallel", "serial", "proof", "thrown"}
    BY <2>1, <2>2, BusyPass
  <2>4. QED  BY <2>3 DEF WorldInv
<1>4. QED  BY <1>1, <1>2, <1>3, RunInvariant, PTL DEF Spec

=============================================================================

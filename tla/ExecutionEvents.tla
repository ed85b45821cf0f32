--------------------------- MODULE ExecutionEvents ---------------------------
(***************************************************************************)
(* A claim on what a step made the program do, counted from the lines the  *)
(* program appends to its events file: what the step leaves behind when it *)
(* ends (src/context/events-file.ts), the reading a later step judges its  *)
(* claim on (src/context/events-read.ts), and the count the world's stop   *)
(* makes again (src/run/events-after-stop.ts).  The program works and      *)
(* writes beside all of it, by the rules of docs/execution-events.md, and  *)
(* may be gone at any moment.                                              *)
(***************************************************************************)
EXTENDS Naturals, Sequences, FiniteSets

CONSTANTS
  Programs,   \* what a program may do for a step: operation -> what it is
  Selections, \* what a claim may count
  Marked,     \* the tables a list marks as bookkeeping or infrastructure
  MaxDamaged  \* bound: lines that do not read

Kinds == {"request", "run", "tx", "enqueue", "db", "odd"}
Changing == {"insert", "update", "delete"}

\* A program keeps to the format.  What an operation is inside, it is inside
\* of all the way out; a job is enqueued by the step's work, before its run,
\* and runs once for it; a line may say less than what was done.
Nested(p) ==
  \A o \in DOMAIN p :
    /\ p[o].kind \in Kinds /\ p[o].around \in Seq(DOMAIN p)
    /\ p[o].kind \in {"request", "run"} <=> p[o].around = <<>>
    /\ \A k \in DOMAIN p[o].around :
         /\ p[p[o].around[k]].kind \in (IF k = Len(p[o].around) THEN {"request", "run"} ELSE {"tx"})
         /\ p[p[o].around[k]].around = SubSeq(p[o].around, k + 1, Len(p[o].around))

Outermost(p, o) == IF p[o].around = <<>> THEN o ELSE p[o].around[Len(p[o].around)]

Enqueued(p) ==
  LET performs == {o \in DOMAIN p : p[o].kind = "run"}
      from(r) == Outermost(p, p[r].by)
  IN /\ \A r \in performs :
          /\ p[r].by \in DOMAIN p /\ p[p[r].by].kind = "enqueue" /\ p[p[r].by].job = p[r].job
          /\ p[from(r)].kind = "request" => p[from(r)].from \in {"step", "process"}
          /\ \A q \in performs : p[q].by = p[r].by => q = r
     /\ \A S \in (SUBSET performs) \ {{}} : \E r \in S : from(r) \notin S

Honest(p) ==
  \A w \in {o \in DOMAIN p : p[o].kind \in {"db", "odd"}} :
    LET inTx == \E k \in DOMAIN p[w].around : p[p[w].around[k]].kind = "tx"
    IN /\ p[w].committed \in {"absent", "persisted", "not-persisted"}
       /\ p[w].committed = "persisted" => p[w].keeps /\ ~inTx
       /\ p[w].committed = "not-persisted" => ~p[w].keeps
       /\ p[w].committed = "absent" => p[w].keeps \/ ~inTx
       /\ p[w].says.op = p[w].really.op \/ (p[w].says.op = "other" /\ p[w].really.op \in Changing)
       /\ p[w].says.table \in {p[w].really.table, "unknown"}

ASSUME EventsConstants ==
  /\ \A p \in Programs : IsFiniteSet(DOMAIN p) /\ Nested(p) /\ Enqueued(p) /\ Honest(p)
  /\ \A selection \in Selections : selection.committed \in {"unstated", "persisted", "not-persisted"}
  /\ "unknown" \notin Marked

VARIABLES
  program,   \* the one of this behaviour
  reporting, \* it reports its statements and transactions
  fate,      \* of each operation: "not", "open", "ended", "undone"
  written,   \* the operations whose lines it wrote
  damaged,   \* those whose lines do not read
  rotated,   \* the events file is no longer the one nukadoko made
  lost,      \* the lines that were in that one
  requested, \* the requests that went out
  command,   \* the step's runCommand process: "none", "runs", "over"
  moment,    \* "step", "later", "reading", "judged", "stopped"
  left,      \* what the ended step left: [spans, processes]
  read       \* what the reading saw: [lines, damaged, replaced, kinds]

eventsVars == <<program, reporting, fate, written, damaged, rotated, lost, requested, command,
                moment, left, read>>
fileVars == <<written, damaged, rotated, lost>>
readerVars == <<moment, left, read>>

-----------------------------------------------------------------------------
(* Operations.  `around` names what one is inside, the nearest first; the  *)
(* last is a request, or the run of a job.                                 *)

Operations == DOMAIN program
Kind(o) == program[o].kind
Around(o) == program[o].around
Of(kind) == {o \in Operations : Kind(o) = kind}

\* An "odd" line is a statement's too, under a kind the format lacks.
Statements == Of("db") \cup Of("odd")

Within(o) == {i \in Operations : \E k \in DOMAIN Around(i) : Around(i)[k] = o}
Root(o) == Outermost(program, o)

\* The requests that carry the step's trace, and those its process sends.
Stamped == {o \in Of("request") : program[o].from = "step"}
OfProcess == {o \in Of("request") : program[o].from = "process"}

\* A job carries the trace of what enqueued it.
Traced(o) == Root(o) \in Stamped \cup OfProcess \cup Of("run")

EventsInit ==
  /\ program \in Programs
  /\ reporting \in BOOLEAN
  /\ fate = [o \in Operations |-> "not"]
  /\ written = {} /\ damaged = {} /\ rotated = FALSE /\ lost = {}
  /\ requested = {} /\ command = "none"
  /\ moment = "step" /\ left = [spans |-> {}, processes |-> "none"]
  /\ read = [lines |-> {}, damaged |-> {}, replaced |-> FALSE, kinds |-> FALSE]

-----------------------------------------------------------------------------
(* The program.                                                            *)

\* A request begins once it was sent, a run once its job was enqueued, and
\* anything else while what it is inside is open.
MayBegin(o) ==
  CASE Kind(o) = "request" -> o \in requested
    [] Kind(o) = "run" -> fate[program[o].by] = "ended"
    [] OTHER -> fate[Around(o)[1]] = "open"

Starts(o) ==
  /\ fate[o] = "not" /\ MayBegin(o)
  /\ fate' = [fate EXCEPT ![o] = IF Kind(o) \in {"request", "run", "tx"} THEN "open" ELSE "ended"]
  /\ UNCHANGED <<program, reporting, fileVars, requested, command, readerVars>>

\* It ends after all inside it; a transaction commits or rolls back.
Finishes(o) ==
  /\ fate[o] = "open" /\ \A i \in Within(o) : fate[i] # "open"
  /\ \/ fate' = [fate EXCEPT ![o] = "ended"]
     \/ Kind(o) = "tx" /\ fate' = [fate EXCEPT ![o] = "undone"]
  /\ UNCHANGED <<program, reporting, fileVars, requested, command, readerVars>>

Done(o) == fate[o] \in {"ended", "undone"}
Silent(o) == Kind(o) \in {"db", "odd", "tx"} /\ ~reporting
Unwritten(o) == Done(o) /\ ~Silent(o) /\ o \notin written \cup damaged

\* Inside first: its line comes after the lines of all inside it.
Writes(o) ==
  /\ Unwritten(o) /\ \A i \in Within(o) : ~Unwritten(i)
  /\ \/ written' = written \cup {o} /\ UNCHANGED damaged
     \/ Cardinality(damaged) < MaxDamaged /\ damaged' = damaged \cup {o} /\ UNCHANGED written
  /\ UNCHANGED <<program, reporting, fate, rotated, lost, requested, command, readerVars>>

\* Another file takes its place, and the program goes on in that one.
Rotate ==
  /\ ~rotated
  /\ rotated' = TRUE /\ lost' = written \cup damaged
  /\ UNCHANGED <<program, reporting, fate, written, damaged, requested, command, readerVars>>

Work == Rotate \/ \E o \in Operations : Starts(o) \/ Finishes(o) \/ Writes(o)

-----------------------------------------------------------------------------
(* The step.                                                               *)

Send(r) ==
  /\ r \notin requested
  /\ \/ r \in Stamped /\ moment = "step"
     \/ r \in OfProcess /\ command = "runs"
     \/ r \notin Stamped \cup OfProcess   \* one that nukadoko did not stamp
  /\ requested' = requested \cup {r}
  /\ UNCHANGED <<program, reporting, fate, fileVars, command, readerVars>>

RunCommand ==
  /\ moment = "step" /\ command = "none" /\ OfProcess # {}
  /\ command' = "runs"
  /\ UNCHANGED <<program, reporting, fate, fileVars, requested, readerVars>>

\* It closed, and no process of its group is left.
CommandOver ==
  /\ command = "runs" /\ command' = "over"
  /\ UNCHANGED <<program, reporting, fate, fileVars, requested, readerVars>>

Processes ==
  CASE command = "none" -> "none" [] command = "over" -> "ended" [] OTHER -> "unbounded"

\* What the step leaves to read its events by.
EndStep ==
  /\ moment = "step" /\ moment' = "later"
  /\ left' = [spans |-> requested \cap Stamped, processes |-> Processes]
  /\ UNCHANGED <<program, reporting, fate, fileVars, requested, command, read>>

-----------------------------------------------------------------------------
(* What lines say.  A view is [lines, damaged, replaced, kinds].           *)

JobsOf(kind, job, lines) == {o \in lines : Kind(o) = kind /\ program[o].job = job}

\* Mutant: all runs together are counted against all that were enqueued.
PendingInAll(job, lines) ==
  Cardinality(lines \cap Of("run")) < Cardinality(lines \cap Of("enqueue"))

Pending(job, lines) ==
  Cardinality(JobsOf("run", job, lines)) < Cardinality(JobsOf("enqueue", job, lines))

\* No gap is open: the step stamped a request or ran a process, no process
\* may still send, every stamped request has its line, no job is pending,
\* every line of the trace reads, the file is the one it was, and the
\* program reports statements at all.
Whole(view, processes) ==
  /\ left.spans # {} \/ processes # "none"
  /\ processes # "unbounded"
  /\ left.spans \subseteq view.lines
  /\ \A e \in Of("enqueue") : ~Pending(program[e].job, view.lines)
  /\ \A o \in view.damaged : ~Traced(o)
  /\ ~view.replaced
  /\ view.kinds

\* The chain of transactions around a statement, from the inside: those up to
\* the k-th have the lines of their commits.
Commits(w, k, lines) ==
  \A n \in 1..k : Around(w)[n] \in lines /\ Kind(Around(w)[n]) = "tx" /\ fate[Around(w)[n]] = "ended"

\* It ends at one that rolled back, or at a line that is no transaction's; or
\* at what has no line, which leaves it open.
RolledBack(w, lines) ==
  \E k \in DOMAIN Around(w) :
    Commits(w, k - 1, lines) /\ Around(w)[k] \in lines /\ fate[Around(w)[k]] = "undone"

Committed(w, lines) ==
  LET top == Len(Around(w))
  IN top > 1 /\ Commits(w, top - 1, lines) /\ Around(w)[top] \in lines

\* Whether a statement's change persisted, from the lines alone.
StateOf(w, lines) ==
  LET own == program[w].committed
  IN CASE own # "absent" /\ ~RolledBack(w, lines) -> own
       [] own = "absent" /\ RolledBack(w, lines) -> "not-persisted"
       [] own = "absent" /\ Committed(w, lines) -> "persisted"
       [] OTHER -> "unknown"

-----------------------------------------------------------------------------
(* What a line says about a selection [ops, tables, committed].            *)

\* Whether one field matches, as far as the line says.
OpMatches(selection, op) ==
  IF op \in selection.ops THEN "yes"
  ELSE IF op = "other" /\ selection.ops \cap Changing # {} THEN "unknown" ELSE "no"

TableMatches(selection, table) ==
  IF selection.tables = {} \/ table \in selection.tables THEN "yes"
  ELSE IF table = "unknown" THEN "unknown" ELSE "no"

\* A definite "no" wins over what is not known.
MatchFields(selection, says) ==
  LET fields == {OpMatches(selection, says.op), TableMatches(selection, says.table)}
  IN IF "no" \in fields THEN "no"
     ELSE IF "unknown" \in fields THEN "field_unknown"
     ELSE IF selection.committed = "unstated" THEN "yes" ELSE "commit-state"

MatchLine(selection, o) ==
  IF Kind(o) = "odd" THEN "undefined_kind"
  ELSE IF Kind(o) # "db" THEN "no" ELSE MatchFields(selection, program[o].says)

\* A selection that names no table leaves out what marked ones hold.
TableRule(selection, o, listed) ==
  IF selection.tables # {} \/ Kind(o) # "db" THEN "counted"
  ELSE IF ~listed \/ (program[o].says.table = "unknown" /\ Marked # {}) THEN "unknown"
  ELSE IF program[o].says.table \in Marked THEN "left-out" ELSE "counted"

Decided(selection, o, lines) ==
  LET match == MatchLine(selection, o)
      state == StateOf(o, lines)
  IN IF match # "commit-state" THEN match
     ELSE IF state = "unknown" THEN "commit_unknown"
     ELSE IF state = selection.committed THEN "yes" ELSE "no"

Yes(selection, listed, view) ==
  {o \in view.lines : /\ Traced(o) /\ TableRule(selection, o, listed) = "counted"
                      /\ Decided(selection, o, view.lines) = "yes"}

\* The lines that may match, those no step owns among them.
Maybe(selection, listed, view) ==
  {o \in view.lines \ Yes(selection, listed, view) :
     /\ TableRule(selection, o, listed) # "left-out"
     /\ IF Traced(o) THEN Decided(selection, o, view.lines) # "no" ELSE MatchLine(selection, o) # "no"}
    \cup {o \in view.damaged : Traced(o)}

CountRange(selection, listed, view, processes) ==
  LET yes == Cardinality(Yes(selection, listed, view))
  IN [at_least |-> yes,
      at_most |-> yes + Cardinality(Maybe(selection, listed, view)),
      bounded |-> Whole(view, processes)]

-----------------------------------------------------------------------------
(* What a range says of a claim.                                           *)

Compares == {"equal", "not-equal", "greater-than", "at-least", "less-than", "at-most"}

CompareCount(count, compare, expected) ==
  CASE compare = "equal" -> count = expected
    [] compare = "not-equal" -> count # expected
    [] compare = "greater-than" -> count > expected
    [] compare = "at-least" -> count >= expected
    [] compare = "less-than" -> count < expected
    [] compare = "at-most" -> count <= expected

\* Mutant: a range with no upper bound ends at what it has.
AlwaysBounded(range, compare, expected) ==
  LET holds == \A n \in range.at_least..range.at_most : CompareCount(n, compare, expected)
      breaks == \A n \in range.at_least..range.at_most : ~CompareCount(n, compare, expected)
  IN IF holds THEN "held" ELSE IF breaks THEN "broken" ELSE "unknown"

JudgeRange(range, compare, expected) ==
  LET low == range.at_least
      high == range.at_most
      one == range.bounded /\ high = low
      within == expected >= low /\ (range.bounded => expected <= high)
      answer(holds, breaks) == IF holds THEN "held" ELSE IF breaks THEN "broken" ELSE "unknown"
  IN CASE compare = "equal" -> answer(within /\ one, ~within)
       [] compare = "not-equal" -> answer(~within, within /\ one)
       [] compare = "greater-than" -> answer(low > expected, range.bounded /\ high <= expected)
       [] compare = "at-least" -> answer(low >= expected, range.bounded /\ high < expected)
       [] compare = "less-than" -> answer(range.bounded /\ high < expected, low >= expected)
       [] compare = "at-most" -> answer(range.bounded /\ high <= expected, low > expected)

-----------------------------------------------------------------------------
(* The reading, and the stop.                                              *)

\* Each look reads what the file gained; a replaced file is read no more.
ReadOn ==
  /\ moment \in {"later", "reading"} /\ moment' = "reading"
  /\ read' = IF rotated THEN [read EXCEPT !.replaced = TRUE]
             ELSE [read EXCEPT !.lines = written, !.damaged = damaged]
  /\ UNCHANGED <<program, reporting, fate, fileVars, requested, command, left>>

\* Settled, or the deadline is near.
Judge ==
  /\ moment = "reading" /\ moment' = "judged"
  /\ read' = [read EXCEPT !.kinds = ~rotated /\ \E o \in written : Kind(o) = "db"]
  /\ UNCHANGED <<program, reporting, fate, fileVars, requested, command, left>>

\* The world stops, however far the program is.
StopWorld ==
  /\ moment = "judged" /\ moment' = "stopped"
  /\ UNCHANGED <<program, reporting, fate, fileVars, requested, command, left, read>>

EventsNext ==
  /\ moment # "stopped"
  /\ \/ Work \/ RunCommand \/ CommandOver \/ EndStep \/ ReadOn \/ Judge \/ StopWorld
     \/ \E r \in Of("request") : Send(r)

EventsSpec == EventsInit /\ [][EventsNext]_eventsVars

\* What the stop counts: all lines of the trace, and those no step owns that
\* the reading had.
Recounted ==
  LET inFile == (written \cup damaged) \ lost
  IN [lines |-> {o \in written \cap inFile : Traced(o)} \cup {o \in read.lines : ~Traced(o)},
      damaged |-> {o \in damaged \cap inFile : Traced(o)},
      replaced |-> read.replaced,
      kinds |-> \E o \in written \cap inFile : Kind(o) = "db"]

\* The slice's gaps are what is left of the step's processes.
ProcessesOfSlice ==
  IF left.processes = "ended" /\ left.spans # {} THEN "none" ELSE left.processes

OfTrace(view) == {o \in view.lines \cup view.damaged : Traced(o)}

\* The range the claim is judged on, and the stop's.
ReadRange(selection, listed) == CountRange(selection, listed, read, left.processes)
StopRange(selection, listed) == CountRange(selection, listed, Recounted, ProcessesOfSlice)

MoreCame == Cardinality(OfTrace(Recounted)) > Cardinality(OfTrace(read))

\* Over all the lines the claim is judged otherwise: its cell is broke.
JudgedEarly(before, after, compare, expected) ==
  MoreCame /\ JudgeRange(after, compare, expected) # JudgeRange(before, compare, expected)

-----------------------------------------------------------------------------
(* Properties.                                                             *)

\* What really came of a statement.
Persisted(w) ==
  /\ fate[w] = "ended" /\ program[w].keeps
  /\ \A k \in DOMAIN Around(w) : Kind(Around(w)[k]) = "tx" => fate[Around(w)[k]] = "ended"

ReallyMatches(selection, w) ==
  /\ fate[w] = "ended"
  /\ {program[w].really.op, program[w].says.op} \cap selection.ops # {}
  /\ IF selection.tables = {} THEN program[w].really.table \notin Marked
     ELSE {program[w].really.table, program[w].says.table} \cap selection.tables # {}
  /\ selection.committed # "unstated" => (selection.committed = "persisted" <=> Persisted(w))

\* The work of the step: all of its trace, and of what carries no trace the
\* part that is the step's and had its line when the claim was judged.
TrueCount(selection) ==
  Cardinality({w \in Statements : /\ Traced(w) \/ (w \in read.lines /\ program[Root(w)].ours)
                                  /\ ReallyMatches(selection, w)})

RunOnce == \A d, e \in Of("enqueue") : program[d].job = program[e].job => d = e

\* A whole reading may miss lines: of what a process sent, which nothing
\* waits for by name, and of a job that is tried again.
MayMissLines == left.processes = "ended" \/ ~RunOnce

\* A claim that held or broke, and was not judged early, says what really
\* happened, wherever the lines are damaged, late, replaced, undecided or
\* nobody's, and whatever the program left unfinished; where a reading may
\* miss lines, as long as the program wrote them before its end.
JudgmentStands ==
  moment = "stopped" =>
    \/ MayMissLines /\ \E o \in Operations : Traced(o) /\ Done(o) /\ o \notin (written \cup damaged) \ lost
    \/ \A selection \in Selections, listed \in BOOLEAN :
         LET before == ReadRange(selection, listed)
             after == StopRange(selection, listed)
             count == TrueCount(selection)
         IN \A compare \in Compares, expected \in 0..3 :
              \/ JudgeRange(before, compare, expected) = "unknown"
              \/ JudgedEarly(before, after, compare, expected)
              \/ JudgeRange(before, compare, expected) = "held" <=> CompareCount(count, compare, expected)

\* A whole reading is the end of the step's work: of what it did not see
\* nothing has begun, and nothing will, when every job is enqueued once and
\* no process sent requests.
WholeIsLast ==
  moment \in {"judged", "stopped"} /\ Whole(read, left.processes) /\ ~MayMissLines =>
    \A o \in Operations : Traced(o) /\ o \notin read.lines => fate[o] = "not"

\* What a step's events are read as stands, whatever is written later.
ReadingStands == JudgmentStands /\ WholeIsLast

\* WholeIsLast when a job is tried again, as docs/execution-events.md has it ("A
\* reader then never sees the job as done between a failed run and its
\* retry"): the retry's `perform` line may come before the `enqueue` line
\* that the failed run writes for it.
RetryIsSeen ==
  moment \in {"judged", "stopped"} /\ Whole(read, left.processes) /\ left.processes = "none" =>
    \A o \in Operations : Traced(o) /\ o \notin read.lines => fate[o] = "not"

=============================================================================

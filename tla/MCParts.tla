------------------------------- MODULE MCParts -------------------------------
(***************************************************************************)
(* Five small parts, each checked alone in a behaviour of its own: how a   *)
(* line is fed (FromOrder), lines out of a pipe (LineBuffer), the run      *)
(* directories (RunDirs), the passes over other trees (OtherWorlds), and   *)
(* a claim counted from the program's events (ExecutionEvents).            *)
(***************************************************************************)
EXTENDS FromOrder, LineBuffer, RunDirs, OtherWorlds, ExecutionEvents, TLC

VARIABLE part  \* the one this behaviour is of

-----------------------------------------------------------------------------
(* The characters and the texts of LineBuffer.                             *)

\* "wide" takes three bytes, as the characters of Japanese text do.
ThreeChars == ("a" :> 1) @@ (Newline :> 1) @@ ("wide" :> 3)

UpToFour == UNION {[1..n -> DOMAIN ThreeChars] : n \in 0..4}

-----------------------------------------------------------------------------
(* The steps and the scenarios of FromOrder.                               *)

ThreeSteps == {"create", "import", "archive"}

Needed == [s \in ThreeSteps |-> IF s = "archive" THEN {"id", "note"} ELSE {}]

\* One key with two registered producers and one unknown, a key its own step
\* produces, and a key of one candidate.
Producers ==
  [s \in ThreeSteps |->
     CASE s = "archive" ->
            [key \in {"id", "tag"} |->
               IF key = "id" THEN {<<"create", "id">>, <<"import", "id">>, <<"ghost", "id">>}
               ELSE {<<"import", "tag">>, <<"archive", "tag">>}]
       [] s = "import" -> [key \in {"by"} |-> {<<"create", "owner">>}]
       [] OTHER -> [key \in {} |-> {}]]

Returned ==
  [s \in ThreeSteps |->
     CASE s = "create" -> {{"id"}, {"id", "owner"}}
       [] s = "import" -> {{"id", "tag"}, {"tag"}}
       [] OTHER -> {{"tag"}}]

Lines ==
  [step : {"undefined", "ambiguous", "create"}, captures : {{}}, attached : {FALSE}]
    \cup [step : {"import"}, captures : SUBSET {"by"}, attached : {FALSE}]
    \cup [step : {"archive"}, captures : SUBSET {"id", "note", "tag"}, attached : BOOLEAN]

UpToThree == UNION {[1..n -> Lines] : n \in 1..3}

Blank == <<[step |-> "undefined", captures |-> {}, attached |-> FALSE]>>

-----------------------------------------------------------------------------
(* The programs and the claims of ExecutionEvents.                         *)

Statement(around, op, table, committed) ==
  [kind |-> "db", around |-> around, says |-> [op |-> op, table |-> table],
   committed |-> committed, keeps |-> TRUE, really |-> [op |-> op, table |-> table]]

Request(from) == [kind |-> "request", around |-> <<>>, from |-> from, ours |-> TRUE]
Transaction(around) == [kind |-> "tx", around |-> around]
Enqueue(around, job) == [kind |-> "enqueue", around |-> around, job |-> job]
JobRun(by, job) == [kind |-> "run", around |-> <<>>, by |-> by, job |-> job]

\* One transaction in another, and a delete that failed on its own.
TwoTransactions ==
  ("r" :> Request("step")) @@ ("t1" :> Transaction(<<"r">>)) @@ ("t2" :> Transaction(<<"t1", "r">>))
    @@ ("w1" :> Statement(<<"t2", "t1", "r">>, "insert", "orders", "absent"))
    @@ ("w2" :> [Statement(<<"r">>, "delete", "orders", "absent") EXCEPT !.keeps = FALSE])

\* A job that is enqueued again by its own run.
JobTriedAgain ==
  ("r" :> Request("step")) @@ ("e1" :> Enqueue(<<"r">>, "a")) @@ ("j1" :> JobRun("e1", "a"))
    @@ ("e2" :> Enqueue(<<"j1">>, "a")) @@ ("j2" :> JobRun("e2", "a"))
    @@ ("w1" :> Statement(<<"j2">>, "insert", "orders", "persisted"))

\* A job that enqueues another, whose statement the claim is about.
JobOfAJob ==
  ("r" :> Request("step")) @@ ("e1" :> Enqueue(<<"r">>, "a")) @@ ("j1" :> JobRun("e1", "a"))
    @@ ("e2" :> Enqueue(<<"j1">>, "b")) @@ ("j2" :> JobRun("e2", "b"))
    @@ ("w1" :> Statement(<<"j2">>, "insert", "orders", "persisted"))

\* A request of the step's process.
OfAProcess ==
  ("r" :> Request("step")) @@ ("p" :> Request("process"))
    @@ ("w1" :> Statement(<<"p">>, "insert", "orders", "persisted"))

\* A request that nobody stamped.
OfNobody ==
  ("r" :> Request("step")) @@ ("u" :> Request("nobody"))
    @@ ("w1" :> Statement(<<"u">>, "insert", "orders", "persisted"))
    @@ ("w2" :> Statement(<<"r">>, "insert", "orders", "persisted"))

\* Lines that say less than what was done.
SaysLess ==
  ("r" :> Request("step"))
    @@ ("w1" :> [Statement(<<"r">>, "insert", "orders", "persisted") EXCEPT !.says.op = "other"])
    @@ ("w2" :> [Statement(<<"r">>, "insert", "visits", "persisted") EXCEPT !.says.table = "unknown"])
    @@ ("w3" :> [Statement(<<"r">>, "insert", "orders", "absent") EXCEPT !.kind = "odd"])
    @@ ("w4" :> [Statement(<<"r">>, "insert", "orders", "persisted") EXCEPT !.says.table = "unknown"])

SixPrograms == {TwoTransactions, JobTriedAgain, JobOfAJob, OfAProcess, OfNobody, SaysLess}

Claims ==
  { [ops |-> {"insert", "update", "delete", "other"}, tables |-> {}, committed |-> "persisted"],
    [ops |-> {"insert"}, tables |-> {"orders"}, committed |-> "persisted"],
    [ops |-> {"insert", "delete"}, tables |-> {"orders"}, committed |-> "not-persisted"] }

-----------------------------------------------------------------------------
(* One part at a time.                                                     *)

PartsInit ==
  /\ part \in {"from", "pipe", "dirs", "other", "events"}
  /\ IF part = "from" THEN Init
     ELSE pickle = Blank /\ line = 0 /\ chain = [s \in {} |-> {}] /\ ended = "no"
  /\ BufferInit /\ (part = "pipe" \/ text = <<>>)
  /\ DirsInit /\ (part = "dirs" \/ walks = {})
  /\ OtherInit
  /\ EventsInit /\ (part = "events" \/ (program = SaysLess /\ reporting))

PartsNext ==
  /\ UNCHANGED part
  /\ \/ part = "from" /\ Next /\ UNCHANGED <<bufferVars, dirsVars, otherVars, eventsVars>>
     \/ part = "pipe" /\ BufferNext /\ UNCHANGED <<vars, dirsVars, otherVars, eventsVars>>
     \/ part = "dirs" /\ DirsNext /\ UNCHANGED <<vars, bufferVars, otherVars, eventsVars>>
     \/ part = "other" /\ OtherNext /\ UNCHANGED <<vars, bufferVars, dirsVars, eventsVars>>
     \/ part = "events" /\ EventsNext /\ UNCHANGED <<vars, bufferVars, dirsVars, otherVars>>

PartsSpec ==
  PartsInit /\ [][PartsNext]_<<part, vars, bufferVars, dirsVars, otherVars, eventsVars>>

=============================================================================

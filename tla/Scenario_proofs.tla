--------------------------- MODULE Scenario_proofs ---------------------------
(***************************************************************************)
(* What holds of a scenario's record, its hooks and its walk for any       *)
(* number of lines, hooks, scenarios and escaped calls.                    *)
(***************************************************************************)
EXTENDS Scenario, TLAPS

Phases == {"before", "line", "after_step", "after"}
Hows == {"passed", "threw", "timeout", "uncalled"}
Entries == [status : {"passed", "failed", "skipped"}, began : BOOLEAN]
HookRecords == [type : Phases, step : Nat, status : {"passed", "failed"}]
Marks == Phases \X Nat
Tellings == [status : {"FAILED", "SKIPPED", "PASSED"}, failure : Marks \cup {<<>>}, so_far : Nat]
Pauses == [step : 1..Lines, remaining : Nat, answer : {"next", "stop"}]

Typed ==
  /\ walked \in BOOLEAN /\ number \in Nat /\ next \in Nat
  /\ phase \in (Phases \X {"open", "run"}) \cup {<<"idle", "open">>}
  /\ entries \in Seq(Entries) /\ hooks \in Seq(HookRecords)
  /\ failed \in BOOLEAN /\ held \in Marks \cup {<<>>}
  /\ due \in 0..Lines /\ stopped \in 0..Lines
  /\ written \in {"none", "passed", "failed", "stopped"}
  /\ late \subseteq Nat \X Phases \X Nat
  /\ escaped \in BOOLEAN /\ owed \in BOOLEAN /\ red \in BOOLEAN
  /\ pauses \in Seq(Pauses) /\ failures \in Seq(Marks) /\ heard \in Seq(Tellings)

Busy == phase[1] # "idle"

\* The lines are entered one by one.
Counted ==
  /\ Busy => next > 0 /\ number > 0
  /\ phase[1] = "before" => Len(entries) = 0 /\ stopped = 0 /\ due = 0 /\ Len(pauses) = 0
  /\ phase[1] = "line" => next = Len(entries) + 1 /\ Len(entries) <= Lines
  /\ phase = <<"line", "run">> => next <= Lines /\ ~failed /\ stopped = 0 /\ ~PauseIsDue
  /\ phase[1] = "after_step" => Len(entries) \in 1..Lines
  /\ phase[1] = "after" => Len(entries) = Lines
  /\ phase[1] = "idle" /\ number > 0 => Len(entries) = Lines

HasFailed == \/ \E k \in DOMAIN entries : entries[k].status = "failed"
             \/ \E k \in DOMAIN hooks : hooks[k].status = "failed"
Skips == \E k \in DOMAIN entries : entries[k].status = "skipped"

\* What has failed is held, noted, and on an entry or a hook.
Marked ==
  /\ number > 0 => (failed <=> HasFailed)
  /\ Busy => (failed <=> Len(failures) > 0)
  /\ Busy => held = IF Len(failures) > 0 THEN failures[1] ELSE <<>>

\* A line is skipped only after a failure or a stop, and a walk stops only
\* where lines are left and everything before passed.
Stops ==
  /\ Skips => failed \/ stopped # 0
  /\ stopped # 0 => /\ stopped < Lines /\ stopped <= Len(entries)
                    /\ \A k \in DOMAIN entries :
                         entries[k].status = IF k <= stopped THEN "passed" ELSE "skipped"

\* What the After hooks heard.
Hears ==
  \A k \in DOMAIN heard :
    /\ heard[k].status = "FAILED" <=> heard[k].so_far > 0
    /\ heard[k].so_far <= Len(failures)
    /\ heard[k].failure = IF heard[k].so_far > 0 THEN failures[1] ELSE <<>>

\* The record is what the scenario came to.
Written ==
  phase[1] = "idle" /\ number > 0 =>
    written = IF failed THEN "failed" ELSE IF stopped # 0 THEN "stopped" ELSE "passed"

\* A body past its deadline failed its scenario.
Lateness ==
  \A body \in late : body[1] <= number /\ (body[1] = number => failed)

\* What finished under an escaped call failed its scenario.
Owing == owed => red \/ (Busy /\ failed)

\* A walk pauses after every line that began, at the head of the next one,
\* and holds to what it answered.
Pending == IF walked /\ due # 0 /\ phase[1] \in {"line", "after_step"} THEN {due} ELSE {}
Paused ==
  walked =>
    /\ due # 0 => /\ phase[1] \in {"line", "after_step"} /\ due = Len(entries) /\ entries[due].began
                  /\ stopped = 0
                  /\ \A k \in DOMAIN pauses : pauses[k].step < due
    /\ phase[1] = "after_step" => due # 0
    /\ \A k \in DOMAIN pauses : pauses[k].step <= Len(entries)
    /\ \A j, k \in DOMAIN pauses : j < k => pauses[j].step < pauses[k].step
    /\ {pauses[k].step : k \in DOMAIN pauses} \cup Pending = {n \in DOMAIN entries : entries[n].began}

\* What a pause said comes true: of the line after it, or of all of them.
Kept(p) ==
  IF p.remaining > 0 /\ p.answer = "next"
  THEN /\ p.step < Lines
       /\ p.step + 1 \in DOMAIN entries => entries[p.step + 1].status # "skipped"
       /\ p.step + 1 \notin DOMAIN entries => phase[1] = "line" /\ ~failed /\ stopped = 0
  ELSE /\ \A n \in DOMAIN entries : n > p.step => entries[n].status = "skipped"
       /\ failed \/ stopped # 0 \/ p.step = Lines
Keeps == walked => \A k \in DOMAIN pauses : Kept(pauses[k])

ScenarioInvariant ==
  /\ Typed /\ Counted /\ Marked /\ Stops /\ Hears /\ Written /\ Lateness /\ Owing
  /\ Paused /\ Keeps

-----------------------------------------------------------------------------
(* Lemmas.                                                                 *)

LEMMA EmptyFacts == Len(<<>>) = 0 /\ DOMAIN <<>> = {} /\ \A S : <<>> \in Seq(S)
<1>1. DOMAIN <<>> = {}
  OBVIOUS
<1>2. \A S : <<>> \in Seq(S)
  OBVIOUS
<1> QED BY <1>1, <1>2

LEMMA AppendFacts ==
  ASSUME NEW S, NEW seq \in Seq(S), NEW x \in S
  PROVE  LET longer == Append(seq, x) IN
           /\ longer \in Seq(S) /\ Len(seq) \in Nat /\ Len(longer) = Len(seq) + 1
           /\ DOMAIN seq = 1..Len(seq) /\ DOMAIN longer = 1..(Len(seq) + 1)
           /\ DOMAIN longer = DOMAIN seq \cup {Len(seq) + 1}
           /\ \A k \in DOMAIN seq : longer[k] = seq[k]
           /\ longer[Len(seq) + 1] = x
           /\ Len(seq) + 1 \notin DOMAIN seq
OBVIOUS

LEMMA ElementFacts ==
  ASSUME Typed
  PROVE  /\ \A k \in DOMAIN pauses : pauses[k].step \in Nat /\ pauses[k].step \in 1..Lines
         /\ \A k \in DOMAIN heard : heard[k].so_far \in Nat
         /\ \A k \in DOMAIN entries : entries[k].status \in {"passed", "failed", "skipped"}
<1>1. pauses \in Seq(Pauses) /\ heard \in Seq(Tellings) /\ entries \in Seq(Entries)
  BY DEF Typed
<1>2. \A k \in DOMAIN pauses : pauses[k] \in Pauses
  BY <1>1
<1>3. \A k \in DOMAIN heard : heard[k] \in Tellings
  BY <1>1
<1>4. \A k \in DOMAIN entries : entries[k] \in Entries
  BY <1>1
<1>5. \A k \in DOMAIN pauses : pauses[k].step \in 1..Lines
  BY <1>2 DEF Pauses
<1>6. \A n \in 1..Lines : n \in Nat
  OBVIOUS
<1>7. \A k \in DOMAIN heard : heard[k].so_far \in Nat
  BY <1>3 DEF Tellings
<1>8. \A k \in DOMAIN entries : entries[k].status \in {"passed", "failed", "skipped"}
  BY <1>4 DEF Entries
<1> QED BY <1>5, <1>6, <1>7, <1>8

LEMMA PhaseFacts ==
  ASSUME Typed
  PROVE  /\ Busy <=> phase[1] \in Phases
         /\ phase[2] = "run" => Busy
         /\ \A type \in Phases : <<type, "open">> \in (Phases \X {"open", "run"}) \cup {<<"idle", "open">>}
         /\ Busy => [phase EXCEPT ![2] = "run"] = <<phase[1], "run">>
                    /\ <<phase[1], "run">> \in (Phases \X {"open", "run"}) \cup {<<"idle", "open">>}
<1>1. CASE phase = <<"idle", "open">>
  BY <1>1 DEF Busy, Phases
<1>2. CASE phase \in Phases \X {"open", "run"}
  <2>1. PICK p \in Phases, s \in {"open", "run"} : phase = <<p, s>>
    BY <1>2
  <2>2. [<<p, s>> EXCEPT ![2] = "run"] = <<p, "run">>
    OBVIOUS
  <2> QED BY <2>1, <2>2 DEF Busy, Phases
<1> QED BY <1>1, <1>2 DEF Typed

\* What a body leaves when it ends: the late ones, and the call it took.
LEMMA EndedFacts ==
  ASSUME Typed, Busy, NEW how \in Hows, Ended(how)
  PROVE  /\ Result(how) \in {"passed", "failed"}
         /\ late' \subseteq Nat \X Phases \X Nat
         /\ escaped' \in BOOLEAN /\ owed' \in BOOLEAN
         /\ \A body \in late' : body \in late \/ (body[1] = number /\ Result(how) = "failed")
         /\ owed' => owed \/ Result(how) = "failed"
         /\ how = "uncalled" <=> phase[2] = "open"
<1>1. Result(how) \in {"passed", "failed"}
  BY DEF Result
<1>2. phase[1] \in Phases /\ number \in Nat /\ next \in Nat /\ late \subseteq Nat \X Phases \X Nat
  BY PhaseFacts DEF Typed
<1>3. late' \subseteq Nat \X Phases \X Nat
  BY <1>2 DEF Ended
<1>4. escaped' \in BOOLEAN /\ owed' \in BOOLEAN
  BY DEF Ended
<1>5. \A body \in late' : body \in late \/ (body[1] = number /\ Result(how) = "failed")
  BY DEF Ended, Result
<1>6. owed' => owed \/ Result(how) = "failed"
  BY DEF Ended, Result, Takes
<1>7. phase[2] \in {"open", "run"}
  BY DEF Typed
<1> QED BY <1>1, <1>3, <1>4, <1>5, <1>6, <1>7 DEF Ended

LEMMA FailingFacts ==
  ASSUME Typed, Busy, Marked, NEW type \in Phases, Failing(type)
  PROVE  /\ failed' = TRUE /\ failures' \in Seq(Marks) /\ Len(failures') = Len(failures) + 1
         /\ held' = failures'[1] /\ held' \in Marks
         /\ Len(failures) > 0 => failures'[1] = failures[1]
<1>1. <<type, next>> \in Marks /\ failures \in Seq(Marks) /\ Len(failures) \in Nat
  BY DEF Typed, Marks
<1>2. failed' = TRUE /\ failures' = Append(failures, <<type, next>>) /\ held' = Note(type, next)
  BY DEF Failing
<1>3. /\ failures' \in Seq(Marks) /\ Len(failures') = Len(failures) + 1
      /\ Len(failures) > 0 => failures'[1] = failures[1]
      /\ Len(failures) = 0 => failures'[1] = <<type, next>>
  BY <1>1, <1>2
<1>4. held = IF Len(failures) > 0 THEN failures[1] ELSE <<>>
  BY DEF Marked
<1>5. CASE Len(failures) > 0
  <2>1. failures[1] \in Marks
    BY <1>1, <1>5
  <2>2. failures[1] # <<>>
    BY <2>1 DEF Marks
  <2> QED BY <1>2, <1>3, <1>4, <1>5, <2>1, <2>2 DEF Note
<1>6. CASE Len(failures) = 0
  BY <1>1, <1>2, <1>3, <1>4, <1>6 DEF Note
<1> QED BY <1>1, <1>2, <1>3, <1>5, <1>6

-----------------------------------------------------------------------------
(* A hook that ends, and an entry that is added.                           *)

\* What the end of a hook or of a line does to failures.
Fails(type, how) ==
  IF Result(how) = "passed" THEN UNCHANGED <<failed, held, failures>> ELSE Failing(type)

LEMMA FailsFacts ==
  ASSUME Typed, Busy, Marked, NEW type \in Phases, NEW how \in Hows, Fails(type, how)
  PROVE  /\ failed' \in BOOLEAN /\ held' \in Marks \cup {<<>>} /\ failures' \in Seq(Marks)
         /\ failed' <=> failed \/ Result(how) = "failed"
         /\ failed' <=> Len(failures') > 0
         /\ held' = IF Len(failures') > 0 THEN failures'[1] ELSE <<>>
         /\ Len(failures) <= Len(failures') /\ Len(failures) \in Nat
         /\ Len(failures) > 0 => failures'[1] = failures[1]
<1>1. Result(how) \in {"passed", "failed"} /\ Len(failures) \in Nat /\ failures \in Seq(Marks)
  BY DEF Result, Typed
<1>2. failed \in BOOLEAN /\ held \in Marks \cup {<<>>}
      /\ (failed <=> Len(failures) > 0) /\ held = IF Len(failures) > 0 THEN failures[1] ELSE <<>>
  BY DEF Typed, Marked
<1>3. CASE Result(how) = "passed"
  <2>1. failed' = failed /\ held' = held /\ failures' = failures
    BY <1>3 DEF Fails
  <2> QED BY <1>1, <1>2, <1>3, <2>1
<1>4. CASE Result(how) = "failed"
  <2>1. Failing(type)
    BY <1>4 DEF Fails
  <2>2. /\ failed' = TRUE /\ failures' \in Seq(Marks) /\ Len(failures') = Len(failures) + 1
        /\ held' = failures'[1] /\ held' \in Marks
        /\ Len(failures) > 0 => failures'[1] = failures[1]
    BY <2>1, FailingFacts
  <2>3. Len(failures') > 0 /\ Len(failures) <= Len(failures')
    BY <1>1, <2>2
  <2> QED BY <1>1, <1>4, <2>2, <2>3
<1> QED BY <1>1, <1>3, <1>4

\* The marks that only grow, after a body ended.
LEMMA FailsKeeps ==
  ASSUME ScenarioInvariant, Busy, Busy', NEW type \in Phases, NEW how \in Hows, Fails(type, how),
         Ended(how), UNCHANGED <<number, heard, red>>
  PROVE  Hears' /\ Lateness' /\ Owing'
<1>1. /\ failed' <=> failed \/ Result(how) = "failed"
      /\ Len(failures) <= Len(failures') /\ Len(failures) \in Nat
      /\ failures' \in Seq(Marks)
      /\ Len(failures) > 0 => failures'[1] = failures[1]
  BY FailsFacts DEF ScenarioInvariant
<1>2. /\ \A body \in late' : body \in late \/ (body[1] = number /\ Result(how) = "failed")
      /\ owed' => owed \/ Result(how) = "failed"
  BY EndedFacts DEF ScenarioInvariant
<1>3. Hears'
  <2>1. SUFFICES ASSUME NEW k \in DOMAIN heard
                 PROVE  /\ heard[k].status = "FAILED" <=> heard[k].so_far > 0
                        /\ heard[k].so_far <= Len(failures')
                        /\ heard[k].failure = IF heard[k].so_far > 0 THEN failures'[1] ELSE <<>>
    BY DEF Hears
  <2>2. heard[k] \in Tellings
    BY DEF ScenarioInvariant, Typed
  <2>3. heard[k].so_far \in Nat
    BY <2>2 DEF Tellings
  <2>4. /\ heard[k].status = "FAILED" <=> heard[k].so_far > 0
        /\ heard[k].so_far <= Len(failures)
        /\ heard[k].failure = IF heard[k].so_far > 0 THEN failures[1] ELSE <<>>
    BY DEF ScenarioInvariant, Hears
  <2>5. Len(failures') \in Nat
    BY <1>1
  <2>6. heard[k].so_far <= Len(failures') /\ (heard[k].so_far > 0 => Len(failures) > 0)
    BY <1>1, <2>3, <2>4, <2>5
  <2> QED BY <1>1, <2>4, <2>6
<1>4. Lateness'
  <2>1. \A body \in late' : body[1] <= number
    BY <1>2 DEF ScenarioInvariant, Typed, Lateness
  <2> QED BY <1>1, <1>2, <2>1 DEF ScenarioInvariant, Lateness
<1>5. Owing'
  BY <1>1, <1>2 DEF ScenarioInvariant, Owing
<1> QED BY <1>3, <1>4, <1>5

LEMMA HookEndKeeps ==
  ASSUME ScenarioInvariant, Busy, Busy', NEW type \in Phases, NEW how \in Hows,
         RecordHook(type, how), Fails(type, how),
         UNCHANGED <<number, entries, stopped, heard, red>>
  PROVE  /\ hooks' \in Seq(HookRecords) /\ failed' \in BOOLEAN /\ held' \in Marks \cup {<<>>}
         /\ failures' \in Seq(Marks) /\ late' \subseteq Nat \X Phases \X Nat
         /\ escaped' \in BOOLEAN /\ owed' \in BOOLEAN
         /\ failed' <=> failed \/ Result(how) = "failed"
         /\ Marked' /\ Stops' /\ Hears' /\ Lateness' /\ Owing'
<1> DEFINE new == [type |-> type, step |-> Len(entries), status |-> Result(how)]
<1>1. Ended(how) /\ hooks' = Append(hooks, new)
  BY DEF RecordHook
<1>2. /\ failed' \in BOOLEAN /\ held' \in Marks \cup {<<>>} /\ failures' \in Seq(Marks)
      /\ failed' <=> failed \/ Result(how) = "failed"
      /\ failed' <=> Len(failures') > 0
      /\ held' = IF Len(failures') > 0 THEN failures'[1] ELSE <<>>
  BY FailsFacts DEF ScenarioInvariant
<1>3. /\ Result(how) \in {"passed", "failed"} /\ late' \subseteq Nat \X Phases \X Nat
      /\ escaped' \in BOOLEAN /\ owed' \in BOOLEAN
  BY <1>1, EndedFacts DEF ScenarioInvariant
<1>4. new \in HookRecords /\ new.status = Result(how)
  BY <1>3 DEF HookRecords, ScenarioInvariant, Typed
<1> HIDE DEF new
<1>5. hooks \in Seq(HookRecords)
  BY DEF ScenarioInvariant, Typed
<1>6. /\ hooks' \in Seq(HookRecords) /\ DOMAIN hooks' = DOMAIN hooks \cup {Len(hooks) + 1}
      /\ \A k \in DOMAIN hooks : hooks'[k] = hooks[k]
      /\ hooks'[Len(hooks) + 1] = new
  BY <1>1, <1>4, <1>5, AppendFacts
<1>7. HasFailed' <=> HasFailed \/ Result(how) = "failed"
  BY <1>4, <1>6 DEF HasFailed
<1>8. Marked'
  BY <1>2, <1>7 DEF ScenarioInvariant, Marked, Counted
<1>9. Stops'
  BY <1>2 DEF ScenarioInvariant, Stops, Skips
<1>10. Hears' /\ Lateness' /\ Owing'
  BY <1>1, FailsKeeps
<1> QED BY <1>2, <1>3, <1>6, <1>8, <1>9, <1>10

LEMMA EntryKeeps ==
  ASSUME ScenarioInvariant, Busy, NEW entry \in Entries, entries' = Append(entries, entry),
         failed' \in BOOLEAN, failed' <=> failed \/ entry.status = "failed",
         failed' <=> Len(failures') > 0,
         held' = IF Len(failures') > 0 THEN failures'[1] ELSE <<>>,
         entry.status = "skipped" => failed \/ stopped # 0,
         entry.status # "skipped" => stopped = 0,
         UNCHANGED <<number, hooks, stopped>>
  PROVE  /\ entries' \in Seq(Entries) /\ Len(entries') = Len(entries) + 1 /\ Len(entries) \in Nat
         /\ DOMAIN entries = 1..Len(entries) /\ DOMAIN entries' = DOMAIN entries \cup {Len(entries) + 1}
         /\ \A k \in DOMAIN entries : entries'[k] = entries[k]
         /\ entries'[Len(entries) + 1] = entry
         /\ Marked' /\ Stops'
<1>1. /\ entries \in Seq(Entries) /\ stopped \in 0..Lines
  BY DEF ScenarioInvariant, Typed
<1>2. /\ entries' \in Seq(Entries) /\ Len(entries') = Len(entries) + 1 /\ Len(entries) \in Nat
      /\ DOMAIN entries = 1..Len(entries) /\ DOMAIN entries' = DOMAIN entries \cup {Len(entries) + 1}
      /\ \A k \in DOMAIN entries : entries'[k] = entries[k]
      /\ entries'[Len(entries) + 1] = entry
  BY <1>1, AppendFacts
<1>3. HasFailed' <=> HasFailed \/ entry.status = "failed"
  BY <1>2 DEF HasFailed
<1>4. Marked'
  BY <1>3 DEF ScenarioInvariant, Marked, Counted
<1>5. Stops'
  <2>1. Skips' => failed' \/ stopped # 0
    BY <1>2 DEF ScenarioInvariant, Stops, Skips
  <2>2. ASSUME stopped # 0
        PROVE  /\ stopped < Lines /\ stopped <= Len(entries')
               /\ \A k \in DOMAIN entries' :
                    entries'[k].status = IF k <= stopped THEN "passed" ELSE "skipped"
    <3>1. /\ stopped < Lines /\ stopped <= Len(entries)
          /\ \A k \in DOMAIN entries :
               entries[k].status = IF k <= stopped THEN "passed" ELSE "skipped"
      BY <2>2 DEF ScenarioInvariant, Stops
    <3>2. stopped \in Nat /\ ~(Len(entries) + 1 <= stopped) /\ stopped <= Len(entries')
      BY <1>1, <1>2, <3>1
    <3>3. entry.status = "skipped"
      BY <2>2
    <3> QED BY <1>2, <3>1, <3>2, <3>3
  <2> QED BY <2>1, <2>2 DEF Stops
<1> QED BY <1>2, <1>4, <1>5

\* The entries stand, the failures only grow, and the walk is nowhere between
\* a pause and the line after it.
LEMMA StandingWalk ==
  ASSUME ScenarioInvariant, UNCHANGED <<walked, entries, stopped, pauses, due>>, failed => failed',
         \/ phase[1] # "line" \/ Len(entries) = Lines \/ (failed' = failed /\ phase'[1] = "line"),
         walked /\ due # 0 => phase'[1] \in {"line", "after_step"},
         walked /\ phase'[1] = "after_step" => due # 0
  PROVE  Paused' /\ Keeps'
<1>1. Pending' = Pending
  BY DEF ScenarioInvariant, Paused, Pending
<1>2. Paused'
  BY <1>1 DEF ScenarioInvariant, Paused
<1>3. Keeps'
  <2>1. SUFFICES ASSUME walked, NEW k \in DOMAIN pauses PROVE Kept(pauses[k])'
    BY DEF Keeps
  <2>2. /\ pauses[k] \in Pauses /\ pauses[k].step <= Len(entries)
        /\ Len(entries) \in Nat /\ DOMAIN entries = 1..Len(entries)
    BY <2>1 DEF ScenarioInvariant, Typed, Paused
  <2>3. pauses[k].step \in Nat /\ Lines \in Nat
    BY <2>2, ScenarioConstants DEF Pauses
  <2>4. Kept(pauses[k])
    BY <2>1 DEF ScenarioInvariant, Keeps
  <2>5. CASE pauses[k].remaining > 0 /\ pauses[k].answer = "next"
    <3>1. /\ pauses[k].step < Lines
          /\ pauses[k].step + 1 \in DOMAIN entries => entries[pauses[k].step + 1].status # "skipped"
          /\ pauses[k].step + 1 \notin DOMAIN entries => phase[1] = "line" /\ ~failed /\ stopped = 0
      BY <2>4, <2>5 DEF Kept
    <3>2. Len(entries) = Lines => pauses[k].step + 1 \in DOMAIN entries
      BY <2>2, <2>3, <3>1
    <3>3. pauses[k].step + 1 \notin DOMAIN entries => phase'[1] = "line" /\ ~failed' /\ stopped = 0
      BY <3>1, <3>2
    <3> QED BY <2>5, <3>1, <3>3 DEF Kept
  <2>6. CASE ~(pauses[k].remaining > 0 /\ pauses[k].answer = "next")
    BY <2>4, <2>6 DEF Kept
  <2> QED BY <2>5, <2>6
<1> QED BY <1>2, <1>3

-----------------------------------------------------------------------------
(* The steps that end no body and add no entry.                            *)

LEMMA QuietKeeps ==
  ASSUME ScenarioInvariant, Busy,
         UNCHANGED <<number, entries, hooks, failed, held, stopped, late, owed, failures>>
  PROVE  Marked' /\ Stops' /\ Lateness'
<1>1. Marked'
  BY DEF ScenarioInvariant, Marked, HasFailed
<1>2. Stops'
  BY DEF ScenarioInvariant, Stops, Skips
<1>3. Lateness'
  BY DEF ScenarioInvariant, Lateness
<1> QED BY <1>1, <1>2, <1>3

LEMMA ToldFacts ==
  ASSUME ScenarioInvariant, Busy
  PROVE  /\ Told \in Tellings
         /\ Told.status = "FAILED" <=> Told.so_far > 0
         /\ Told.so_far <= Len(failures)
         /\ Told.failure = IF Told.so_far > 0 THEN failures[1] ELSE <<>>
<1>1. /\ failed \in BOOLEAN /\ held \in Marks \cup {<<>>} /\ failures \in Seq(Marks)
      /\ (failed <=> Len(failures) > 0) /\ held = IF Len(failures) > 0 THEN failures[1] ELSE <<>>
  BY DEF ScenarioInvariant, Typed, Marked
<1>2. Len(failures) \in Nat
  BY <1>1
<1> QED BY <1>1, <1>2 DEF Told, Tellings

LEMMA StartHookStep ==
  ASSUME ScenarioInvariant, StartHook
  PROVE  ScenarioInvariant'
<1>1. /\ phase[1] \in {"before", "after_step", "after"} /\ phase[2] = "open"
      /\ phase' = [phase EXCEPT ![2] = "run"]
      /\ heard' = heard \/ heard' = Append(heard, Told)
      /\ UNCHANGED <<walked, number, never, next, entries, hooks, failed, held, due, stopped,
                     pauses, written, late, escaped, exits, owed, failures, red>>
  BY DEF StartHook, Hook, Called, walkVars, exitVars
<1>2. Busy /\ Typed
  BY <1>1 DEF ScenarioInvariant, Busy
<1>3. phase' = <<phase[1], "run">> /\ phase' \in (Phases \X {"open", "run"}) \cup {<<"idle", "open">>}
  BY <1>1, <1>2, PhaseFacts
<1>4. phase'[1] = phase[1] /\ Busy'
  BY <1>2, <1>3 DEF Busy
<1>5. /\ heard \in Seq(Tellings) /\ Told \in Tellings
      /\ Told.status = "FAILED" <=> Told.so_far > 0
      /\ Told.so_far <= Len(failures)
      /\ Told.failure = IF Told.so_far > 0 THEN failures[1] ELSE <<>>
  BY <1>2, ToldFacts DEF Typed
<1> DEFINE told == Told
<1> HIDE DEF told
<1>6. heard' \in Seq(Tellings) /\ \A k \in DOMAIN heard' : (k \in DOMAIN heard /\ heard'[k] = heard[k]) \/ heard'[k] = told
  <2>1. CASE heard' = heard
    BY <1>5, <2>1
  <2>2. CASE heard' = Append(heard, told)
    BY <1>5, <2>2, AppendFacts DEF told
  <2> QED BY <1>1, <2>1, <2>2 DEF told
<1>7. Typed'
  BY <1>1, <1>2, <1>3, <1>6 DEF Typed
<1>8. Counted'
  BY <1>1, <1>2, <1>3, <1>4 DEF ScenarioInvariant, Counted, Busy, PauseIsDue
<1>9. Marked' /\ Stops' /\ Lateness'
  BY <1>1, <1>2, QuietKeeps
<1>10. Hears'
  BY <1>1, <1>5, <1>6 DEF ScenarioInvariant, Hears, told
<1>11. Written' /\ Owing'
  BY <1>1, <1>2, <1>4 DEF ScenarioInvariant, Written, Owing, Busy
<1>12. Paused' /\ Keeps'
  BY <1>1, <1>4, StandingWalk DEF ScenarioInvariant, Paused
<1> QED BY <1>7, <1>8, <1>9, <1>10, <1>11, <1>12 DEF ScenarioInvariant

LEMMA BeforesDoneStep ==
  ASSUME ScenarioInvariant, BeforesDone
  PROVE  ScenarioInvariant'
<1>1. /\ phase[1] = "before" /\ phase' = <<"line", "open">> /\ next' = 1
      /\ UNCHANGED <<walked, number, never, entries, hooks, failed, held, due, stopped,
                     pauses, written, late, escaped, exits, owed, failures, heard, red>>
  BY DEF BeforesDone, Hook, Phase, walkVars, exitVars
<1>2. Busy /\ Busy' /\ Typed /\ phase'[1] = "line" /\ phase'[2] = "open" /\ "line" \in Phases
  BY <1>1 DEF ScenarioInvariant, Busy, Phases
<1>3. Typed'
  BY <1>1, <1>2, PhaseFacts DEF Typed
<1>4. Counted'
  BY <1>1, <1>2, ScenarioConstants DEF ScenarioInvariant, Counted, Busy
<1>5. Marked' /\ Stops' /\ Lateness'
  BY <1>1, <1>2, QuietKeeps
<1>6. Hears' /\ Written' /\ Owing'
  BY <1>1, <1>2 DEF ScenarioInvariant, Hears, Written, Owing, Busy
<1>7. Paused' /\ Keeps'
  BY <1>1, <1>2, StandingWalk
<1> QED BY <1>3, <1>4, <1>5, <1>6, <1>7 DEF ScenarioInvariant

LEMMA BeginLineStep ==
  ASSUME ScenarioInvariant, BeginLine
  PROVE  ScenarioInvariant'
<1>1. /\ phase = <<"line", "open">> /\ next <= Lines /\ ~failed /\ stopped = 0 /\ ~PauseIsDue
      /\ phase' = [phase EXCEPT ![2] = "run"]
      /\ UNCHANGED <<walked, number, never, next, entries, hooks, failed, held, due, stopped,
                     pauses, written, late, escaped, exits, owed, failures, heard, red>>
  BY DEF BeginLine, LineRuns, AtLine, InLines, Called, walkVars, exitVars
<1>2. Busy /\ Typed /\ phase[1] = "line"
  BY <1>1 DEF ScenarioInvariant, Busy
<1>3. phase' = <<"line", "run">> /\ phase' \in (Phases \X {"open", "run"}) \cup {<<"idle", "open">>}
  BY <1>1, <1>2, PhaseFacts
<1>4. phase'[1] = "line" /\ Busy'
  BY <1>3 DEF Busy
<1>5. Typed'
  BY <1>1, <1>2, <1>3 DEF Typed
<1>6. Counted'
  BY <1>1, <1>2, <1>4 DEF ScenarioInvariant, Counted, Busy, PauseIsDue
<1>7. Marked' /\ Stops' /\ Lateness'
  BY <1>1, <1>2, QuietKeeps
<1>8. Hears' /\ Written' /\ Owing'
  BY <1>1, <1>2, <1>4 DEF ScenarioInvariant, Hears, Written, Owing, Busy
<1>9. Paused' /\ Keeps'
  BY <1>1, <1>4, StandingWalk
<1> QED BY <1>5, <1>6, <1>7, <1>8, <1>9 DEF ScenarioInvariant

LEMMA AfterStepsDoneStep ==
  ASSUME ScenarioInvariant, AfterStepsDone
  PROVE  ScenarioInvariant'
<1>1. /\ phase[1] = "after_step" /\ phase' = <<"line", "open">> /\ next' = Len(entries) + 1
      /\ UNCHANGED <<walked, number, never, entries, hooks, failed, held, due, stopped,
                     pauses, written, late, escaped, exits, owed, failures, heard, red>>
  BY DEF AfterStepsDone, Hook, Phase, walkVars, exitVars
<1>2. Busy /\ Busy' /\ Typed /\ phase'[1] = "line" /\ phase'[2] = "open" /\ "line" \in Phases
  BY <1>1 DEF ScenarioInvariant, Busy, Phases
<1>3. Len(entries) \in Nat
  BY <1>2 DEF Typed
<1>4. Typed'
  BY <1>1, <1>2, <1>3, PhaseFacts DEF Typed
<1>5. Counted'
  BY <1>1, <1>2, <1>3 DEF ScenarioInvariant, Counted, Busy
<1>6. Marked' /\ Stops' /\ Lateness'
  BY <1>1, <1>2, QuietKeeps
<1>7. Hears' /\ Written' /\ Owing'
  BY <1>1, <1>2 DEF ScenarioInvariant, Hears, Written, Owing, Busy
<1>8. Paused' /\ Keeps'
  BY <1>1, <1>2, StandingWalk
<1> QED BY <1>4, <1>5, <1>6, <1>7, <1>8 DEF ScenarioInvariant

LEMMA LinesDoneStep ==
  ASSUME ScenarioInvariant, LinesDone
  PROVE  ScenarioInvariant'
<1>1. /\ phase = <<"line", "open">> /\ next > Lines /\ ~PauseIsDue
      /\ phase' = <<"after", "open">> /\ next' = 1
      /\ UNCHANGED <<walked, number, never, entries, hooks, failed, held, due, stopped,
                     pauses, written, late, escaped, exits, owed, failures, heard, red>>
  BY DEF LinesDone, InLines, Phase, walkVars, exitVars
<1>2. Busy /\ Busy' /\ Typed /\ phase[1] = "line" /\ phase'[1] = "after" /\ "after" \in Phases
  BY <1>1 DEF ScenarioInvariant, Busy, Phases
<1>3. Len(entries) \in Nat /\ Lines \in Nat
  BY <1>2, ScenarioConstants DEF Typed
<1>4. Len(entries) = Lines
  BY <1>1, <1>2, <1>3 DEF ScenarioInvariant, Counted
<1>5. Typed'
  BY <1>1, <1>2, PhaseFacts DEF Typed
<1>6. Counted'
  BY <1>1, <1>2, <1>4 DEF ScenarioInvariant, Counted, Busy
<1>7. Marked' /\ Stops' /\ Lateness'
  BY <1>1, <1>2, QuietKeeps
<1>8. Hears' /\ Written' /\ Owing'
  BY <1>1, <1>2 DEF ScenarioInvariant, Hears, Written, Owing, Busy
<1>9. Paused' /\ Keeps'
  BY <1>1, <1>2, <1>4, StandingWalk DEF PauseIsDue
<1> QED BY <1>5, <1>6, <1>7, <1>8, <1>9 DEF ScenarioInvariant

LEMMA WriteRecordStep ==
  ASSUME ScenarioInvariant, WriteRecord
  PROVE  ScenarioInvariant'
<1>1. /\ phase[1] = "after" /\ phase' = <<"idle", "open">> /\ next' = 0
      /\ written' = Outcome /\ red' = (red \/ Outcome # "passed")
      /\ UNCHANGED <<walked, number, never, entries, hooks, failed, held, due, stopped,
                     pauses, late, escaped, exits, owed, failures, heard>>
  BY DEF WriteRecord, Hook, Phase, walkVars, exitVars
<1>2. Busy /\ ~Busy' /\ Typed /\ phase'[1] = "idle" /\ phase'[2] = "open"
  BY <1>1 DEF ScenarioInvariant, Busy
<1>3. Outcome \in {"passed", "failed", "stopped"} /\ (failed => Outcome = "failed")
  BY DEF Outcome
<1>4. Len(entries) = Lines
  BY <1>1 DEF ScenarioInvariant, Counted
<1>5. Typed'
  BY <1>1, <1>2, <1>3 DEF Typed
<1>6. Counted'
  BY <1>1, <1>2, <1>4 DEF ScenarioInvariant, Counted, Busy
<1>7. Marked' /\ Stops' /\ Lateness'
  BY <1>1, <1>2, QuietKeeps
<1>8. Hears' /\ Written' /\ Owing'
  BY <1>1, <1>2, <1>3 DEF ScenarioInvariant, Hears, Written, Owing, Busy, Outcome
<1>9. Paused' /\ Keeps'
  <2>1. walked => due = 0
    BY <1>1 DEF ScenarioInvariant, Paused
  <2> QED BY <1>1, <1>2, <1>4, <2>1, StandingWalk
<1> QED BY <1>5, <1>6, <1>7, <1>8, <1>9 DEF ScenarioInvariant

\* What goes on beside the scenario: a late body that settles, a call of
\* process.exit, nothing.
LEMMA BesideStep ==
  ASSUME ScenarioInvariant, LateEnds \/ Escape \/ UNCHANGED scenarioVars
  PROVE  ScenarioInvariant'
<1>1. /\ late' \subseteq late /\ escaped' \in BOOLEAN
      /\ UNCHANGED <<walked, number, never, phase, next, entries, hooks, failed, held, due, stopped,
                     pauses, written, owed, failures, heard, red>>
  BY DEF ScenarioInvariant, Typed, LateEnds, Escape, scenarioVars, walkVars, exitVars
<1>2. Typed'
  BY <1>1 DEF ScenarioInvariant, Typed
<1>3. Counted' /\ Marked' /\ Stops'
  BY <1>1 DEF ScenarioInvariant, Counted, Marked, Stops, Busy, HasFailed, Skips, PauseIsDue
<1>4. Hears' /\ Written' /\ Lateness' /\ Owing'
  BY <1>1 DEF ScenarioInvariant, Hears, Written, Lateness, Owing, Busy
<1>5. Paused'
  BY <1>1 DEF ScenarioInvariant, Paused, Pending
<1>6. Keeps'
  BY <1>1 DEF ScenarioInvariant, Keeps, Kept
<1> QED BY <1>2, <1>3, <1>4, <1>5, <1>6 DEF ScenarioInvariant

-----------------------------------------------------------------------------
(* The hooks that end.                                                     *)

LEMMA EndBeforeStep ==
  ASSUME ScenarioInvariant, NEW how \in Hows, EndBefore(how)
  PROVE  ScenarioInvariant'
<1>1. /\ phase[1] = "before" /\ RecordHook("before", how) /\ Fails("before", how)
      /\ \/ phase' = <<"before", "open">> /\ next' = next + 1
         \/ phase' = <<"line", "open">> /\ next' = 1
      /\ UNCHANGED <<walked, number, never, entries, due, stopped, pauses, written, heard, red>>
  BY DEF EndBefore, Hook, Phase, Fails, walkVars
<1>2. Busy /\ Busy' /\ Typed /\ {"before", "line"} \subseteq Phases /\ phase'[2] = "open"
  BY <1>1 DEF ScenarioInvariant, Busy, Phases
<1>3. /\ hooks' \in Seq(HookRecords) /\ failed' \in BOOLEAN /\ held' \in Marks \cup {<<>>}
      /\ failures' \in Seq(Marks) /\ late' \subseteq Nat \X Phases \X Nat
      /\ escaped' \in BOOLEAN /\ owed' \in BOOLEAN
      /\ failed' <=> failed \/ Result(how) = "failed"
      /\ Marked' /\ Stops' /\ Hears' /\ Lateness' /\ Owing'
  BY <1>1, <1>2, HookEndKeeps
<1>4. next \in Nat /\ next' \in Nat /\ next' > 0
  BY <1>1, <1>2 DEF Typed
<1>5. phase' \in (Phases \X {"open", "run"}) \cup {<<"idle", "open">>}
  BY <1>1, <1>2, PhaseFacts
<1>6. Typed'
  BY <1>1, <1>2, <1>3, <1>4, <1>5 DEF Typed
<1>7. Counted'
  BY <1>1, <1>2, <1>4, ScenarioConstants DEF ScenarioInvariant, Counted, Busy
<1>8. Written'
  BY <1>2 DEF Written, Busy
<1>9. due = 0
  BY <1>1 DEF ScenarioInvariant, Counted
<1>10. Paused' /\ Keeps'
  BY <1>1, <1>3, <1>9, StandingWalk
<1> QED BY <1>3, <1>6, <1>7, <1>8, <1>10 DEF ScenarioInvariant

LEMMA EndAfterStepStep ==
  ASSUME ScenarioInvariant, NEW how \in Hows, EndAfterStep(how)
  PROVE  ScenarioInvariant'
<1>1. /\ phase[1] = "after_step" /\ RecordHook("after_step", how) /\ Fails("after_step", how)
      /\ phase' = <<"after_step", "open">> /\ next' = next + 1
      /\ UNCHANGED <<walked, number, never, entries, due, stopped, pauses, written, heard, red>>
  BY DEF EndAfterStep, Hook, Phase, Fails, walkVars
<1>2. Busy /\ Busy' /\ Typed /\ "after_step" \in Phases /\ phase'[1] = "after_step" /\ phase'[2] = "open"
  BY <1>1 DEF ScenarioInvariant, Busy, Phases
<1>3. /\ hooks' \in Seq(HookRecords) /\ failed' \in BOOLEAN /\ held' \in Marks \cup {<<>>}
      /\ failures' \in Seq(Marks) /\ late' \subseteq Nat \X Phases \X Nat
      /\ escaped' \in BOOLEAN /\ owed' \in BOOLEAN
      /\ failed' <=> failed \/ Result(how) = "failed"
      /\ Marked' /\ Stops' /\ Hears' /\ Lateness' /\ Owing'
  BY <1>1, <1>2, HookEndKeeps
<1>4. next \in Nat /\ next' \in Nat /\ next' > 0
  BY <1>1, <1>2 DEF Typed
<1>5. phase' \in (Phases \X {"open", "run"}) \cup {<<"idle", "open">>}
  BY <1>1, <1>2, PhaseFacts
<1>6. Typed'
  BY <1>1, <1>2, <1>3, <1>4, <1>5 DEF Typed
<1>7. Counted'
  BY <1>1, <1>2, <1>4 DEF ScenarioInvariant, Counted, Busy
<1>8. Written'
  BY <1>2 DEF Written, Busy
<1>9. walked => due # 0
  BY <1>1 DEF ScenarioInvariant, Paused
<1>10. Paused' /\ Keeps'
  BY <1>1, <1>2, <1>3, <1>9, StandingWalk
<1> QED BY <1>3, <1>6, <1>7, <1>8, <1>10 DEF ScenarioInvariant

LEMMA EndAfterHookStep ==
  ASSUME ScenarioInvariant, NEW how \in Hows, EndAfter(how)
  PROVE  ScenarioInvariant'
<1>1. /\ phase[1] = "after" /\ RecordHook("after", how) /\ Fails("after", how)
      /\ phase' = <<"after", "open">> /\ next' = next + 1
      /\ UNCHANGED <<walked, number, never, entries, due, stopped, pauses, written, heard, red>>
  BY DEF EndAfter, Hook, Phase, Fails, walkVars
<1>2. Busy /\ Busy' /\ Typed /\ "after" \in Phases /\ phase'[1] = "after" /\ phase'[2] = "open"
  BY <1>1 DEF ScenarioInvariant, Busy, Phases
<1>3. /\ hooks' \in Seq(HookRecords) /\ failed' \in BOOLEAN /\ held' \in Marks \cup {<<>>}
      /\ failures' \in Seq(Marks) /\ late' \subseteq Nat \X Phases \X Nat
      /\ escaped' \in BOOLEAN /\ owed' \in BOOLEAN
      /\ failed' <=> failed \/ Result(how) = "failed"
      /\ Marked' /\ Stops' /\ Hears' /\ Lateness' /\ Owing'
  BY <1>1, <1>2, HookEndKeeps
<1>4. next \in Nat /\ next' \in Nat /\ next' > 0
  BY <1>1, <1>2 DEF Typed
<1>5. phase' \in (Phases \X {"open", "run"}) \cup {<<"idle", "open">>}
  BY <1>1, <1>2, PhaseFacts
<1>6. Typed'
  BY <1>1, <1>2, <1>3, <1>4, <1>5 DEF Typed
<1>7. Counted'
  BY <1>1, <1>2, <1>4 DEF ScenarioInvariant, Counted, Busy
<1>8. Written'
  BY <1>2 DEF Written, Busy
<1>9. walked => due = 0
  BY <1>1 DEF ScenarioInvariant, Paused
<1>10. Paused' /\ Keeps'
  BY <1>1, <1>2, <1>3, <1>9, StandingWalk
<1> QED BY <1>3, <1>6, <1>7, <1>8, <1>10 DEF ScenarioInvariant

-----------------------------------------------------------------------------
(* The start of a scenario.                                                *)

\* What both starts leave: nothing of the scenario before.
LEMMA FreshFacts ==
  ASSUME ScenarioInvariant, NEW first \in {"before", "idle"}, NEW unmatched, Fresh(first, unmatched)
  PROVE  /\ phase[1] = "idle" /\ number \in Nat /\ number' = number + 1 /\ number' > 0
         /\ phase' = <<first, "open">> /\ phase'[1] = first /\ phase'[2] = "open" /\ next' = 1
         /\ phase' \in (Phases \X {"open", "run"}) \cup {<<"idle", "open">>}
         /\ hooks' = <<>> /\ held' = <<>> /\ due' = 0 /\ stopped' = 0
         /\ pauses' = <<>> /\ failures' = <<>> /\ heard' = <<>>
         /\ UNCHANGED <<walked, late, escaped, exits, owed>>
         /\ Lateness' /\ Hears' /\ DOMAIN pauses' = {} /\ DOMAIN hooks' = {}
<1>1. /\ phase[1] = "idle" /\ number' = number + 1 /\ phase' = <<first, "open">> /\ next' = 1
      /\ hooks' = <<>> /\ held' = <<>> /\ due' = 0 /\ stopped' = 0
      /\ pauses' = <<>> /\ failures' = <<>> /\ heard' = <<>>
      /\ UNCHANGED <<walked, late, escaped, exits, owed>>
  BY DEF Fresh, exitVars
<1>2. number \in Nat /\ number' > 0 /\ late \subseteq Nat \X Phases \X Nat
  BY <1>1 DEF ScenarioInvariant, Typed
<1>3. phase' \in (Phases \X {"open", "run"}) \cup {<<"idle", "open">>}
  BY <1>1 DEF Phases
<1>4. Lateness'
  <2>1. SUFFICES ASSUME NEW body \in late PROVE body[1] <= number' /\ body[1] # number'
    BY <1>1 DEF Lateness
  <2>2. body[1] \in Nat /\ body[1] <= number
    BY <1>2 DEF ScenarioInvariant, Lateness
  <2> QED BY <1>1, <1>2, <2>2
<1>5. Hears' /\ DOMAIN pauses' = {} /\ DOMAIN hooks' = {}
  BY <1>1, EmptyFacts DEF Hears
<1> QED BY <1>1, <1>2, <1>3, <1>4, <1>5

LEMMA StartStep ==
  ASSUME ScenarioInvariant, Start
  PROVE  ScenarioInvariant'
<1>1. PICK unmatched \in SUBSET (1..Lines) : Fresh("before", unmatched)
  BY DEF Start
<1>2. entries' = <<>> /\ failed' = FALSE /\ written' = "none" /\ red' = red
  BY DEF Start
<1>3. /\ phase[1] = "idle" /\ number' \in Nat /\ number' > 0
      /\ phase'[1] = "before" /\ phase'[2] = "open" /\ next' = 1
      /\ phase' \in (Phases \X {"open", "run"}) \cup {<<"idle", "open">>}
      /\ hooks' = <<>> /\ held' = <<>> /\ due' = 0 /\ stopped' = 0
      /\ pauses' = <<>> /\ failures' = <<>> /\ heard' = <<>>
      /\ UNCHANGED <<walked, late, escaped, exits, owed>>
      /\ Lateness' /\ Hears' /\ DOMAIN pauses' = {} /\ DOMAIN hooks' = {}
  BY <1>1, FreshFacts
<1>4. DOMAIN entries' = {} /\ Len(entries') = 0 /\ Len(failures') = 0 /\ Len(pauses') = 0
  BY <1>2, <1>3, EmptyFacts
<1>5. Typed'
  <2>1. /\ entries' \in Seq(Entries) /\ hooks' \in Seq(HookRecords) /\ pauses' \in Seq(Pauses)
        /\ failures' \in Seq(Marks) /\ heard' \in Seq(Tellings)
    BY <1>2, <1>3, EmptyFacts
  <2>2. due' \in 0..Lines /\ stopped' \in 0..Lines
    BY <1>3, ScenarioConstants
  <2> QED BY <1>2, <1>3, <2>1, <2>2 DEF ScenarioInvariant, Typed
<1>6. Counted'
  BY <1>3, <1>4 DEF Counted, Busy
<1>7. Marked' /\ Stops'
  BY <1>2, <1>3, <1>4 DEF Marked, HasFailed, Stops, Skips
<1>8. Written' /\ Owing'
  BY <1>2, <1>3 DEF ScenarioInvariant, Written, Owing, Busy
<1>9. Paused' /\ Keeps'
  BY <1>3, <1>4 DEF Paused, Pending, Keeps
<1> QED BY <1>3, <1>5, <1>6, <1>7, <1>8, <1>9 DEF ScenarioInvariant

LEMMA RefusedStep ==
  ASSUME ScenarioInvariant, Refused
  PROVE  ScenarioInvariant'
<1>1. PICK named \in (SUBSET (1..Lines)) \ {{}} :
        /\ Fresh("idle", {})
        /\ entries' = [k \in 1..Lines |-> IF k \in named THEN NeverBegan ELSE Skipped]
        /\ failed' = TRUE /\ written' = "failed" /\ red' = TRUE
  BY DEF Refused
<1>2. /\ phase[1] = "idle" /\ number' \in Nat /\ number' > 0
      /\ phase'[1] = "idle" /\ phase'[2] = "open" /\ next' = 1
      /\ phase' \in (Phases \X {"open", "run"}) \cup {<<"idle", "open">>}
      /\ hooks' = <<>> /\ held' = <<>> /\ due' = 0 /\ stopped' = 0
      /\ pauses' = <<>> /\ failures' = <<>> /\ heard' = <<>>
      /\ UNCHANGED <<walked, late, escaped, exits, owed>>
      /\ Lateness' /\ Hears' /\ DOMAIN pauses' = {} /\ DOMAIN hooks' = {}
  BY <1>1, FreshFacts
<1>3. phase' # <<"line", "run">>
  BY <1>2
<1>4. PICK first \in named : first \in 1..Lines
  BY <1>1
<1>5. NeverBegan \in Entries /\ Skipped \in Entries /\ NeverBegan.status = "failed"
      /\ NeverBegan.began = FALSE /\ Skipped.began = FALSE
  BY DEF NeverBegan, Skipped, Entries
<1>6. /\ DOMAIN entries' = 1..Lines
      /\ \A k \in 1..Lines : entries'[k] \in Entries /\ entries'[k].began = FALSE
      /\ entries'[first].status = "failed"
  BY <1>1, <1>4, <1>5
<1>7. Lines \in Nat /\ entries' \in Seq(Entries) /\ Len(entries') = Lines
  <2>1. entries' = [k \in 1..Lines |-> entries'[k]]
    BY <1>1
  <2> QED BY <1>6, <2>1, ScenarioConstants
<1>8. Typed'
  <2>1. /\ hooks' \in Seq(HookRecords) /\ pauses' \in Seq(Pauses)
        /\ failures' \in Seq(Marks) /\ heard' \in Seq(Tellings)
    BY <1>2, EmptyFacts
  <2>2. due' \in 0..Lines /\ stopped' \in 0..Lines
    BY <1>2, ScenarioConstants
  <2> QED BY <1>1, <1>2, <1>7, <2>1, <2>2 DEF ScenarioInvariant, Typed
<1>9. Counted'
  BY <1>2, <1>3, <1>7 DEF Counted, Busy
<1>10. Marked' /\ Stops'
  BY <1>1, <1>2, <1>4, <1>6 DEF Marked, HasFailed, Stops, Skips, Busy
<1>11. Written' /\ Owing'
  BY <1>1, <1>2 DEF Written, Owing
<1>12. Paused' /\ Keeps'
  BY <1>2, <1>6 DEF Paused, Pending, Keeps
<1> QED BY <1>2, <1>8, <1>9, <1>10, <1>11, <1>12 DEF ScenarioInvariant

-----------------------------------------------------------------------------
(* The lines, and the pauses between them.                                 *)

LEMMA SkipLineStep ==
  ASSUME ScenarioInvariant, SkipLine
  PROVE  ScenarioInvariant'
<1>1. /\ phase = <<"line", "open">> /\ ~PauseIsDue /\ next <= Lines /\ (failed \/ stopped # 0)
      /\ entries' = Append(entries, Skipped) /\ next' = next + 1
      /\ UNCHANGED <<walked, number, never, phase, hooks, failed, held, due, stopped,
                     pauses, written, late, escaped, exits, owed, failures, heard, red>>
  BY DEF SkipLine, AtLine, LineRuns, InLines, walkVars, exitVars
<1>2. Busy /\ Busy' /\ Typed /\ phase[1] = "line" /\ phase # <<"line", "run">>
  BY <1>1 DEF ScenarioInvariant, Busy
<1>3. Skipped \in Entries /\ Skipped.status = "skipped" /\ ~Skipped.began
  BY DEF Skipped, Entries
<1>4. /\ failed' \in BOOLEAN /\ (failed' <=> failed \/ Skipped.status = "failed")
      /\ (failed' <=> Len(failures') > 0)
      /\ held' = IF Len(failures') > 0 THEN failures'[1] ELSE <<>>
  BY <1>1, <1>2, <1>3 DEF Typed, Marked, ScenarioInvariant
<1>5. /\ entries' \in Seq(Entries) /\ Len(entries') = Len(entries) + 1 /\ Len(entries) \in Nat
      /\ DOMAIN entries = 1..Len(entries) /\ DOMAIN entries' = DOMAIN entries \cup {Len(entries) + 1}
      /\ \A k \in DOMAIN entries : entries'[k] = entries[k]
      /\ entries'[Len(entries) + 1] = Skipped
      /\ Marked' /\ Stops'
  BY <1>1, <1>2, <1>3, <1>4, EntryKeeps
<1>6. next = Len(entries) + 1
  BY <1>2 DEF ScenarioInvariant, Counted
<1>7. Typed'
  BY <1>1, <1>2, <1>5 DEF Typed
<1>8. Counted'
  BY <1>1, <1>2, <1>5, <1>6, ScenarioConstants DEF ScenarioInvariant, Counted
<1>9. Hears' /\ Written' /\ Lateness' /\ Owing'
  BY <1>1, <1>2 DEF ScenarioInvariant, Hears, Written, Lateness, Owing, Busy
<1>10. ASSUME walked
       PROVE  Paused' /\ Keeps'
  <2>1. due = 0 /\ Pending = {} /\ Pending' = {}
    BY <1>1, <1>10 DEF PauseIsDue, Pending
  <2>2. {pauses[k].step : k \in DOMAIN pauses} = {n \in DOMAIN entries : entries[n].began}
    BY <1>10, <2>1 DEF ScenarioInvariant, Paused
  <2>3. {n \in DOMAIN entries' : entries'[n].began} = {n \in DOMAIN entries : entries[n].began}
    BY <1>3, <1>5
  <2>4. \A k \in DOMAIN pauses : pauses[k].step <= Len(entries')
    <3>1. SUFFICES ASSUME NEW k \in DOMAIN pauses PROVE pauses[k].step <= Len(entries')
      OBVIOUS
    <3>2. pauses[k].step \in Nat /\ pauses[k].step <= Len(entries)
      BY <1>2, <1>10, ElementFacts DEF ScenarioInvariant, Paused
    <3> QED BY <1>5, <3>2
  <2>5. Paused'
    BY <1>1, <1>2, <1>10, <2>1, <2>2, <2>3, <2>4 DEF ScenarioInvariant, Paused
  <2>6. Keeps'
    <3>1. SUFFICES ASSUME NEW k \in DOMAIN pauses PROVE Kept(pauses[k])'
      BY <1>1 DEF Keeps
    <3>2. Kept(pauses[k])
      BY <1>10 DEF ScenarioInvariant, Keeps
    <3>3. CASE pauses[k].remaining > 0 /\ pauses[k].answer = "next"
      <4>1. /\ pauses[k].step < Lines /\ pauses[k].step + 1 \in DOMAIN entries
            /\ entries[pauses[k].step + 1].status # "skipped"
        BY <1>1, <3>2, <3>3 DEF Kept
      <4>2. /\ pauses[k].step + 1 \in DOMAIN entries'
            /\ entries'[pauses[k].step + 1].status # "skipped"
        BY <1>5, <4>1
      <4> QED BY <1>1, <3>3, <4>1, <4>2 DEF Kept
    <3>4. CASE ~(pauses[k].remaining > 0 /\ pauses[k].answer = "next")
      BY <1>1, <1>3, <1>5, <3>2, <3>4 DEF Kept
    <3> QED BY <3>3, <3>4
  <2> QED BY <2>5, <2>6
<1>11. Paused' /\ Keeps'
  BY <1>1, <1>10 DEF Paused, Keeps
<1> QED BY <1>5, <1>7, <1>8, <1>9, <1>11 DEF ScenarioInvariant

\* A line that runs, or that could not: no pause had said it would not.
LEMMA RunningKeeps ==
  ASSUME ScenarioInvariant, phase[1] = "line", next <= Lines, ~failed, stopped = 0,
         DOMAIN entries' = DOMAIN entries \cup {Len(entries) + 1},
         \A k \in DOMAIN entries : entries'[k] = entries[k],
         entries'[Len(entries) + 1].status # "skipped",
         UNCHANGED <<walked, pauses>>
  PROVE  Keeps'
<1>1. SUFFICES ASSUME walked, NEW k \in DOMAIN pauses PROVE Kept(pauses[k])'
  BY DEF Keeps
<1>2. Kept(pauses[k])
  BY <1>1 DEF ScenarioInvariant, Keeps
<1>3. /\ Len(entries) \in Nat /\ DOMAIN entries = 1..Len(entries) /\ Len(entries) < Lines
      /\ Lines \in Nat
  <2>1. Len(entries) \in Nat /\ DOMAIN entries = 1..Len(entries) /\ next = Len(entries) + 1
    BY DEF ScenarioInvariant, Typed, Counted
  <2> QED BY <2>1, ScenarioConstants
<1>4. pauses[k].step \in 1..Lines /\ pauses[k].step <= Len(entries)
  BY <1>1, ElementFacts DEF ScenarioInvariant, Paused
<1>5. CASE pauses[k].remaining > 0 /\ pauses[k].answer = "next"
  <2>1. /\ pauses[k].step < Lines
        /\ pauses[k].step + 1 \in DOMAIN entries => entries[pauses[k].step + 1].status # "skipped"
    BY <1>2, <1>5 DEF Kept
  <2>2. pauses[k].step + 1 \in DOMAIN entries \/ pauses[k].step + 1 = Len(entries) + 1
    BY <1>3, <1>4
  <2>3. /\ pauses[k].step + 1 \in DOMAIN entries'
        /\ entries'[pauses[k].step + 1].status # "skipped"
    BY <2>1, <2>2
  <2> QED BY <1>5, <2>1, <2>3 DEF Kept
<1>6. CASE ~(pauses[k].remaining > 0 /\ pauses[k].answer = "next")
  <2>1. pauses[k].step = Lines
    BY <1>2, <1>6 DEF Kept
  <2> QED BY <1>3, <1>4, <2>1
<1> QED BY <1>5, <1>6

LEMMA LineNeverBeginsStep ==
  ASSUME ScenarioInvariant, LineNeverBegins
  PROVE  ScenarioInvariant'
<1>1. /\ phase = <<"line", "open">> /\ ~PauseIsDue /\ next <= Lines /\ ~failed /\ stopped = 0
      /\ entries' = Append(entries, NeverBegan) /\ Failing("line") /\ next' = next + 1
      /\ UNCHANGED <<walked, number, never, phase, hooks, due, stopped,
                     pauses, written, late, escaped, exits, owed, heard, red>>
  BY DEF LineNeverBegins, AtLine, LineRuns, InLines, walkVars, exitVars
<1>2. Busy /\ Busy' /\ Typed /\ phase[1] = "line" /\ phase # <<"line", "run">> /\ "line" \in Phases
  BY <1>1 DEF ScenarioInvariant, Busy, Phases
<1>3. NeverBegan \in Entries /\ NeverBegan.status = "failed" /\ ~NeverBegan.began
  BY DEF NeverBegan, Entries
<1>4. /\ failed' = TRUE /\ failures' \in Seq(Marks) /\ Len(failures') = Len(failures) + 1
      /\ held' = failures'[1] /\ held' \in Marks
      /\ Len(failures) > 0 => failures'[1] = failures[1]
  BY <1>1, <1>2, FailingFacts DEF ScenarioInvariant
<1>5. Len(failures) \in Nat /\ ~(Len(failures) > 0) /\ Len(failures') > 0
  BY <1>1, <1>2, <1>4 DEF ScenarioInvariant, Typed, Marked
<1>6. /\ failed' \in BOOLEAN /\ (failed' <=> failed \/ NeverBegan.status = "failed")
      /\ (failed' <=> Len(failures') > 0)
      /\ held' = IF Len(failures') > 0 THEN failures'[1] ELSE <<>>
  BY <1>3, <1>4, <1>5
<1>7. /\ entries' \in Seq(Entries) /\ Len(entries') = Len(entries) + 1 /\ Len(entries) \in Nat
      /\ DOMAIN entries = 1..Len(entries) /\ DOMAIN entries' = DOMAIN entries \cup {Len(entries) + 1}
      /\ \A k \in DOMAIN entries : entries'[k] = entries[k]
      /\ entries'[Len(entries) + 1] = NeverBegan
      /\ Marked' /\ Stops'
  BY <1>1, <1>2, <1>3, <1>6, EntryKeeps
<1>8. next = Len(entries) + 1
  BY <1>2 DEF ScenarioInvariant, Counted
<1>9. Typed'
  BY <1>1, <1>2, <1>4, <1>7 DEF Typed
<1>10. Counted'
  BY <1>1, <1>2, <1>7, <1>8, ScenarioConstants DEF ScenarioInvariant, Counted
<1>11. Hears'
  <2>1. \A k \in DOMAIN heard : heard[k].so_far \in Nat
    BY <1>2, ElementFacts
  <2>2. \A k \in DOMAIN heard : ~(heard[k].so_far > 0)
    BY <1>5, <2>1 DEF ScenarioInvariant, Hears
  <2>3. \A k \in DOMAIN heard : heard[k].so_far <= Len(failures')
    BY <1>4, <1>5, <2>1 DEF ScenarioInvariant, Hears
  <2> QED BY <1>1, <2>2, <2>3 DEF ScenarioInvariant, Hears
<1>12. Written' /\ Lateness' /\ Owing'
  BY <1>1, <1>2, <1>4 DEF ScenarioInvariant, Written, Lateness, Owing, Busy
<1>13. Keeps'
  BY <1>1, <1>2, <1>3, <1>7, RunningKeeps
<1>14. ASSUME walked
       PROVE  Paused'
  <2>1. due = 0 /\ Pending = {} /\ Pending' = {}
    BY <1>1, <1>14 DEF PauseIsDue, Pending
  <2>2. {pauses[k].step : k \in DOMAIN pauses} = {n \in DOMAIN entries : entries[n].began}
    BY <1>14, <2>1 DEF ScenarioInvariant, Paused
  <2>3. {n \in DOMAIN entries' : entries'[n].began} = {n \in DOMAIN entries : entries[n].began}
    BY <1>3, <1>7
  <2>4. \A k \in DOMAIN pauses : pauses[k].step <= Len(entries')
    <3>1. SUFFICES ASSUME NEW k \in DOMAIN pauses PROVE pauses[k].step <= Len(entries')
      OBVIOUS
    <3>2. pauses[k].step \in Nat /\ pauses[k].step <= Len(entries)
      BY <1>2, <1>14, ElementFacts DEF ScenarioInvariant, Paused
    <3> QED BY <1>7, <3>2
  <2> QED BY <1>1, <1>2, <1>14, <2>1, <2>2, <2>3, <2>4 DEF ScenarioInvariant, Paused
<1>15. Paused'
  BY <1>1, <1>14 DEF Paused
<1> QED BY <1>7, <1>9, <1>10, <1>11, <1>12, <1>13, <1>15 DEF ScenarioInvariant

LEMMA EndLineStep ==
  ASSUME ScenarioInvariant, NEW how \in Hows, EndLine(how)
  PROVE  ScenarioInvariant'
<1> DEFINE entry == [status |-> Result(how), began |-> TRUE]
<1>1. /\ phase[1] = "line" /\ next <= Lines /\ (phase[2] = "open" => LineRuns)
      /\ Ended(how) /\ entries' = Append(entries, entry) /\ due' = next /\ Fails("line", how)
      /\ phase' = <<"after_step", "open">> /\ next' = 1
      /\ UNCHANGED <<walked, number, never, hooks, stopped, pauses, written, heard, red>>
  BY DEF EndLine, Fails, Phase
<1>2. Busy /\ Busy' /\ Typed /\ {"line", "after_step"} \subseteq Phases
      /\ phase'[1] = "after_step" /\ phase'[2] = "open"
  BY <1>1 DEF ScenarioInvariant, Busy, Phases
<1>3. ~failed /\ stopped = 0 /\ ~PauseIsDue
  <2>1. CASE phase[2] = "open"
    BY <1>1, <2>1 DEF LineRuns, AtLine
  <2>2. CASE phase[2] # "open"
    <3>1. phase = <<"line", "run">>
      <4>1. PICK p \in Phases, s \in {"open", "run"} : phase = <<p, s>>
        BY <1>1, <1>2 DEF Typed
      <4> QED BY <1>1, <2>2, <4>1
    <3> QED BY <3>1 DEF ScenarioInvariant, Counted
  <2> QED BY <2>1, <2>2
<1>4. /\ failed' \in BOOLEAN /\ held' \in Marks \cup {<<>>} /\ failures' \in Seq(Marks)
      /\ failed' <=> failed \/ Result(how) = "failed"
      /\ failed' <=> Len(failures') > 0
      /\ held' = IF Len(failures') > 0 THEN failures'[1] ELSE <<>>
  BY <1>1, <1>2, FailsFacts DEF ScenarioInvariant
<1>5. /\ Result(how) \in {"passed", "failed"} /\ late' \subseteq Nat \X Phases \X Nat
      /\ escaped' \in BOOLEAN /\ owed' \in BOOLEAN
  BY <1>1, <1>2, EndedFacts
<1>6. entry \in Entries /\ entry.status = Result(how) /\ entry.began
  BY <1>5 DEF Entries
<1> HIDE DEF entry
<1>7. /\ entries' \in Seq(Entries) /\ Len(entries') = Len(entries) + 1 /\ Len(entries) \in Nat
      /\ DOMAIN entries = 1..Len(entries) /\ DOMAIN entries' = DOMAIN entries \cup {Len(entries) + 1}
      /\ \A k \in DOMAIN entries : entries'[k] = entries[k]
      /\ entries'[Len(entries) + 1] = entry
      /\ Marked' /\ Stops'
  <2>1. entry.status # "skipped"
    BY <1>5, <1>6
  <2>2. failed' <=> failed \/ entry.status = "failed"
    BY <1>4, <1>6
  <2> QED BY <1>1, <1>2, <1>3, <1>4, <1>6, <2>1, <2>2, EntryKeeps
<1>8. next = Len(entries) + 1 /\ next \in 1..Lines
  <2>1. next = Len(entries) + 1
    BY <1>1 DEF ScenarioInvariant, Counted
  <2> QED BY <1>1, <1>7, <2>1, ScenarioConstants
<1>9. phase' \in (Phases \X {"open", "run"}) \cup {<<"idle", "open">>}
  BY <1>1, <1>2, PhaseFacts
<1>10. Typed'
  BY <1>1, <1>2, <1>4, <1>5, <1>7, <1>8, <1>9, ScenarioConstants DEF Typed
<1>11. Counted'
  BY <1>1, <1>2, <1>7, <1>8, ScenarioConstants DEF ScenarioInvariant, Counted, Busy
<1>12. Hears' /\ Lateness' /\ Owing' /\ Written'
  <2>1. Hears' /\ Lateness' /\ Owing'
    BY <1>1, <1>2, FailsKeeps
  <2> QED BY <1>2, <2>1 DEF Written, Busy
<1>13. Keeps'
  BY <1>1, <1>3, <1>5, <1>6, <1>7, RunningKeeps
<1>14. ASSUME walked
       PROVE  Paused'
  <2>1. due = 0 /\ Pending = {} /\ due' = Len(entries) + 1 /\ due' # 0 /\ walked' = walked
    BY <1>1, <1>3, <1>7, <1>8, <1>14 DEF PauseIsDue, Pending
  <2>2. Pending' = {Len(entries) + 1}
    BY <1>2, <1>14, <2>1 DEF Pending
  <2>3. {pauses[k].step : k \in DOMAIN pauses} = {n \in DOMAIN entries : entries[n].began}
    BY <1>14, <2>1 DEF ScenarioInvariant, Paused
  <2>4. {n \in DOMAIN entries' : entries'[n].began}
          = {n \in DOMAIN entries : entries[n].began} \cup {Len(entries) + 1}
    BY <1>6, <1>7
  <2>5. \A k \in DOMAIN pauses : pauses[k].step <= Len(entries') /\ pauses[k].step < due'
    <3>1. SUFFICES ASSUME NEW k \in DOMAIN pauses
                   PROVE  pauses[k].step <= Len(entries') /\ pauses[k].step < due'
      OBVIOUS
    <3>2. pauses[k].step \in Nat /\ pauses[k].step <= Len(entries)
      BY <1>2, <1>14, ElementFacts DEF ScenarioInvariant, Paused
    <3> QED BY <1>7, <2>1, <3>2
  <2>6. \A j, k \in DOMAIN pauses : j < k => pauses[j].step < pauses[k].step
    BY <1>14 DEF ScenarioInvariant, Paused
  <2>7. {pauses'[k].step : k \in DOMAIN pauses'} \cup Pending'
          = {n \in DOMAIN entries' : entries'[n].began}
    BY <1>1, <2>2, <2>3, <2>4
  <2>8. entries'[due'].began /\ due' = Len(entries')
    BY <1>6, <1>7, <2>1
  <2> QED BY <1>1, <1>2, <1>3, <2>1, <2>5, <2>6, <2>7, <2>8 DEF Paused
<1>15. Paused'
  BY <1>1, <1>14 DEF Paused
<1> QED BY <1>7, <1>10, <1>11, <1>12, <1>13, <1>15 DEF ScenarioInvariant

LEMMA PauseStep ==
  ASSUME ScenarioInvariant, Pause
  PROVE  ScenarioInvariant'
<1>1. /\ phase = <<"line", "open">> /\ walked /\ due # 0 /\ due' = 0
      /\ UNCHANGED <<walked, number, never, phase, next, entries, hooks, failed, held,
                     written, late, escaped, exits, owed, failures, heard, red>>
  BY DEF Pause, InLines, PauseIsDue, exitVars
<1>2. PICK answer \in {"next", "stop"} :
        /\ pauses' = Append(pauses, [step |-> due, remaining |-> Remaining, answer |-> answer])
        /\ stopped' = IF answer = "stop" /\ Remaining > 0 THEN due ELSE stopped
  BY DEF Pause
<1> DEFINE pause == [step |-> due, remaining |-> Remaining, answer |-> answer]
<1>3. Busy /\ Busy' /\ Typed /\ phase[1] = "line" /\ phase # <<"line", "run">>
  BY <1>1 DEF ScenarioInvariant, Busy
<1>4. /\ due = Len(entries) /\ entries[due].began /\ stopped = 0
      /\ \A k \in DOMAIN pauses : pauses[k].step < due
  BY <1>1 DEF ScenarioInvariant, Paused
<1>5. /\ due \in 1..Lines /\ Lines \in Nat /\ Remaining \in Nat
      /\ Remaining = IF failed THEN 0 ELSE Lines - due
  BY <1>1, <1>3, ScenarioConstants DEF Typed, Remaining
<1>6. /\ pause \in Pauses /\ pause.step = due /\ pause.remaining = Remaining /\ pause.answer = answer
  BY <1>5 DEF Pauses
<1> HIDE DEF pause
<1>7. /\ pauses' = Append(pauses, pause) /\ pauses \in Seq(Pauses) /\ Len(pauses) \in Nat
      /\ entries \in Seq(Entries) /\ DOMAIN entries = 1..Len(entries) /\ Len(entries) \in Nat
  BY <1>2, <1>3 DEF pause, Typed
<1>8. /\ pauses' \in Seq(Pauses) /\ DOMAIN pauses' = DOMAIN pauses \cup {Len(pauses) + 1}
      /\ DOMAIN pauses = 1..Len(pauses)
      /\ \A k \in DOMAIN pauses : pauses'[k] = pauses[k]
      /\ pauses'[Len(pauses) + 1] = pause
  BY <1>6, <1>7, AppendFacts
<1>9. stopped' \in 0..Lines
  BY <1>2, <1>4, <1>5
<1>10. Typed'
  BY <1>1, <1>3, <1>8, <1>9, <1>5 DEF Typed
<1>11. Counted'
  BY <1>1, <1>3 DEF ScenarioInvariant, Counted, Busy
<1>12. Marked' /\ Hears' /\ Written' /\ Lateness' /\ Owing'
  BY <1>1, <1>3 DEF ScenarioInvariant, Marked, HasFailed, Hears, Written, Lateness, Owing, Busy
<1>13. Stops'
  <2>1. CASE stopped' = 0
    BY <1>1, <1>4, <2>1 DEF ScenarioInvariant, Stops, Skips
  <2>2. CASE stopped' # 0
    <3>1. stopped' = due /\ Remaining > 0 /\ ~failed /\ due < Lines
      BY <1>2, <1>4, <1>5, <2>2
    <3>2. ~Skips /\ ~HasFailed
      BY <1>3, <1>4, <3>1 DEF ScenarioInvariant, Stops, Marked, Counted
    <3>3. \A k \in DOMAIN entries : entries[k].status = "passed"
      BY <1>3, <3>2, ElementFacts DEF Skips, HasFailed
    <3>4. \A k \in DOMAIN entries : k <= due
      BY <1>4, <1>7
    <3> QED BY <1>1, <1>4, <1>5, <1>7, <3>1, <3>3, <3>4 DEF Stops
  <2> QED BY <2>1, <2>2
<1>14. Paused'
  <2>1. Pending = {due} /\ Pending' = {}
    BY <1>1, <1>3 DEF Pending
  <2>2. {pauses[k].step : k \in DOMAIN pauses} \cup {due} = {n \in DOMAIN entries : entries[n].began}
    BY <1>1, <2>1 DEF ScenarioInvariant, Paused
  <2>3. {pauses'[k].step : k \in DOMAIN pauses'} = {pauses[k].step : k \in DOMAIN pauses} \cup {due}
    BY <1>6, <1>8
  <2>4. \A k \in DOMAIN pauses' : pauses'[k].step <= Len(entries)
    BY <1>1, <1>4, <1>5, <1>6, <1>8 DEF ScenarioInvariant, Paused
  <2>5. ASSUME NEW j \in DOMAIN pauses', NEW k \in DOMAIN pauses', j < k
        PROVE  pauses'[j].step < pauses'[k].step
    <3>1. j \in DOMAIN pauses
      BY <1>7, <1>8, <2>5
    <3>2. CASE k \in DOMAIN pauses
      BY <1>1, <1>8, <2>5, <3>1, <3>2 DEF ScenarioInvariant, Paused
    <3>3. CASE k = Len(pauses) + 1
      BY <1>4, <1>6, <1>8, <3>1, <3>3
    <3> QED BY <1>8, <3>2, <3>3
  <2> QED BY <1>1, <1>3, <2>1, <2>2, <2>3, <2>4, <2>5 DEF Paused
<1>15. Keeps'
  <2>1. SUFFICES ASSUME NEW k \in DOMAIN pauses' PROVE Kept(pauses[k])'
    BY DEF Keeps
  <2>2. CASE k \in DOMAIN pauses
    <3>1. /\ pauses'[k] = pauses[k] /\ Kept(pauses[k]) /\ pauses[k].step < due
          /\ pauses[k].step \in Nat
      BY <1>1, <1>3, <1>4, <1>8, <2>2, ElementFacts DEF ScenarioInvariant, Keeps
    <3>2. pauses[k].step + 1 \in DOMAIN entries
      BY <1>4, <1>5, <1>7, <3>1
    <3> QED BY <1>1, <1>4, <3>1, <3>2 DEF Kept
  <2>3. CASE k = Len(pauses) + 1
    <3>1. pauses'[k] = pause
      BY <1>8, <2>3
    <3>2. due + 1 \notin DOMAIN entries /\ \A n \in DOMAIN entries : ~(n > due)
      BY <1>4, <1>7
    <3>3. CASE Remaining > 0 /\ answer = "next"
      <4>1. ~failed /\ due < Lines /\ stopped' = 0
        BY <1>2, <1>4, <1>5, <3>3
      <4> QED BY <1>1, <1>3, <1>6, <3>1, <3>2, <3>3, <4>1 DEF Kept
    <3>4. CASE ~(Remaining > 0 /\ answer = "next")
      <4>1. failed \/ stopped' # 0 \/ due = Lines
        BY <1>1, <1>2, <1>5, <3>4
      <4> QED BY <1>1, <1>6, <3>1, <3>2, <3>4, <4>1 DEF Kept
    <3> QED BY <3>3, <3>4
  <2> QED BY <1>8, <2>2, <2>3
<1> QED BY <1>10, <1>11, <1>12, <1>13, <1>14, <1>15 DEF ScenarioInvariant

-----------------------------------------------------------------------------
(* The theorems.                                                           *)

LEMMA InitInvariant == ScenarioInit => ScenarioInvariant
<1> SUFFICES ASSUME ScenarioInit PROVE ScenarioInvariant
  OBVIOUS
<1>1. /\ walked \in BOOLEAN /\ number = 0 /\ phase = <<"idle", "open">> /\ next = 0
      /\ entries = <<>> /\ hooks = <<>> /\ failed = FALSE /\ held = <<>>
      /\ due = 0 /\ stopped = 0 /\ written = "none" /\ late = {} /\ escaped = FALSE
      /\ pauses = <<>> /\ failures = <<>> /\ heard = <<>> /\ owed = FALSE /\ red = FALSE
  BY DEF ScenarioInit
<1>2. /\ phase[1] = "idle" /\ ~Busy
      /\ DOMAIN entries = {} /\ DOMAIN pauses = {} /\ DOMAIN heard = {} /\ Len(entries) = 0
  BY <1>1, EmptyFacts DEF Busy
<1>3. Typed
  <2>1. /\ entries \in Seq(Entries) /\ hooks \in Seq(HookRecords) /\ pauses \in Seq(Pauses)
        /\ failures \in Seq(Marks) /\ heard \in Seq(Tellings)
    BY <1>1, EmptyFacts
  <2>2. due \in 0..Lines /\ stopped \in 0..Lines
    BY <1>1, ScenarioConstants
  <2> QED BY <1>1, <2>1, <2>2 DEF Typed
<1>4. Counted /\ Marked
  BY <1>1, <1>2 DEF Counted, Marked, Busy
<1>5. Stops /\ Hears /\ Written /\ Lateness /\ Owing
  BY <1>1, <1>2 DEF Stops, Skips, Hears, Written, Lateness, Owing
<1>6. Paused /\ Keeps
  BY <1>1, <1>2 DEF Paused, Pending, Keeps
<1> QED BY <1>3, <1>4, <1>5, <1>6 DEF ScenarioInvariant

LEMMA NextInvariant ==
  ScenarioInvariant /\ [ScenarioNext]_scenarioVars => ScenarioInvariant'
<1> SUFFICES ASSUME ScenarioInvariant, [ScenarioNext]_scenarioVars PROVE ScenarioInvariant'
  OBVIOUS
<1>1. CASE Start
  BY <1>1, StartStep
<1>2. CASE Refused
  BY <1>2, RefusedStep
<1>3. CASE StartHook
  BY <1>3, StartHookStep
<1>4. CASE BeforesDone
  BY <1>4, BeforesDoneStep
<1>5. CASE Pause
  BY <1>5, PauseStep
<1>6. CASE SkipLine
  BY <1>6, SkipLineStep
<1>7. CASE LineNeverBegins
  BY <1>7, LineNeverBeginsStep
<1>8. CASE BeginLine
  BY <1>8, BeginLineStep
<1>9. CASE BodyEnds
  <2>1. PICK how \in Hows : EndBefore(how) \/ EndLine(how) \/ EndAfterStep(how) \/ EndAfter(how)
    BY <1>9 DEF BodyEnds, Hows
  <2> QED BY <2>1, EndBeforeStep, EndLineStep, EndAfterStepStep, EndAfterHookStep
<1>10. CASE AfterStepsDone
  BY <1>10, AfterStepsDoneStep
<1>11. CASE LinesDone
  BY <1>11, LinesDoneStep
<1>12. CASE WriteRecord
  BY <1>12, WriteRecordStep
<1>13. CASE LateEnds \/ Escape \/ UNCHANGED scenarioVars
  BY <1>13, BesideStep
<1> QED
  BY <1>1, <1>2, <1>3, <1>4, <1>5, <1>6, <1>7, <1>8, <1>9, <1>10, <1>11, <1>12, <1>13
     DEF ScenarioNext, Executor

\* The inductive invariant of run-scenario.ts's run of its pickles, for any
\* number of lines, hooks, scenarios and escaped calls.
THEOREM ScenarioHolds == ScenarioSpec => []ScenarioInvariant
<1> QED BY InitInvariant, NextInvariant, PTL DEF ScenarioSpec

LEMMA WholeRecord == ScenarioInvariant => RecordIsWhole
<1> SUFFICES ASSUME ScenarioInvariant, Over
             PROVE  /\ Len(entries) = Lines
                    /\ written = "failed" <=> "failed" \in Statuses
                    /\ written = "passed" <=> Statuses \subseteq {"passed"}
                    /\ written = "stopped" => \E n \in 1..(Lines - 1) : \A k \in 1..Lines :
                         entries[k].status = (IF k <= n THEN "passed" ELSE "skipped")
  BY DEF RecordIsWhole
<1>1. phase[1] = "idle" /\ number > 0 /\ Typed /\ Len(entries) = Lines
  BY DEF Over, ScenarioInvariant, Counted
<1>2. DOMAIN entries = 1..Lines /\ Lines \in Nat /\ hooks \in Seq(HookRecords)
      /\ stopped \in Nat /\ failed \in BOOLEAN
  BY <1>1, ScenarioConstants DEF Typed
<1>3. /\ \A k \in DOMAIN entries : entries[k].status \in {"passed", "failed", "skipped"}
      /\ \A k \in DOMAIN hooks : hooks[k].status \in {"passed", "failed"}
  <2>1. \A k \in DOMAIN hooks : hooks[k] \in HookRecords
    BY <1>2
  <2> QED BY <1>1, <2>1, ElementFacts DEF HookRecords
<1>4. /\ written = IF failed THEN "failed" ELSE IF stopped # 0 THEN "stopped" ELSE "passed"
      /\ failed <=> HasFailed
  BY <1>1 DEF ScenarioInvariant, Written, Marked
<1>5. HasFailed <=> "failed" \in Statuses
  BY DEF HasFailed, Statuses
<1>6. "skipped" \in Statuses <=> Skips
  BY <1>3 DEF Skips, Statuses
<1>7. Statuses \subseteq {"passed", "failed", "skipped"}
  BY <1>3 DEF Statuses
<1>8. stopped # 0 => /\ stopped \in 1..(Lines - 1)
                     /\ \A k \in 1..Lines :
                          entries[k].status = (IF k <= stopped THEN "passed" ELSE "skipped")
  BY <1>2 DEF ScenarioInvariant, Stops
<1>9. stopped # 0 => Skips
  <2>1. stopped # 0 => Lines \in 1..Lines /\ ~(Lines <= stopped)
    BY <1>2, <1>8
  <2> QED BY <1>2, <1>8, <2>1 DEF Skips
<1>10. Skips => failed \/ stopped # 0
  BY DEF ScenarioInvariant, Stops
<1>11. written = "passed" <=> Statuses \subseteq {"passed"}
  BY <1>2, <1>4, <1>5, <1>6, <1>7, <1>9, <1>10
<1>12. written = "failed" <=> "failed" \in Statuses
  BY <1>2, <1>4, <1>5
<1>13. written = "stopped" => stopped # 0
  BY <1>4
<1> QED BY <1>1, <1>8, <1>11, <1>12, <1>13

\* Every scenario's record says what happened to all of it (runScenario's
\* return in run-scenario.ts): an entry for every line, and the outcome the
\* entries and the hooks add up to.
THEOREM RecordsAreWhole == ScenarioSpec => []RecordIsWhole
<1> QED BY ScenarioHolds, WholeRecord, PTL

\* An After hook hears the first failure of its scenario, and hears of one
\* exactly when there was one (noteFailure and the result the hooks are given).
THEOREM HooksHearTheFirst == ScenarioSpec => []AfterHearsFirstFailure
<1>1. ScenarioInvariant => AfterHearsFirstFailure
  BY DEF ScenarioInvariant, Hears, AfterHearsFirstFailure
<1> QED BY <1>1, ScenarioHolds, PTL

\* A process.exit from a timer that something finished after makes the run
\* red, whichever step or hook that was (takeEscapedExit of project-exit.ts).
THEOREM ExitCallsTurnRed == ScenarioSpec => []ExitCallNeverGreen
<1>1. ScenarioInvariant => ExitCallNeverGreen
  BY DEF ScenarioInvariant, Owing, Busy, ExitCallNeverGreen
<1> QED BY <1>1, ScenarioHolds, PTL

LEMMA ShownWalk == ScenarioInvariant => WalkShowsEveryLine
<1> SUFFICES ASSUME ScenarioInvariant, walked, Over
             PROVE  /\ \A j, k \in DOMAIN pauses : j < k => pauses[j].step < pauses[k].step
                    /\ {pauses[k].step : k \in DOMAIN pauses} = {n \in 1..Lines : entries[n].began}
                    /\ \A k \in DOMAIN pauses :
                         LET after == {entries[n].status : n \in (pauses[k].step + 1)..Lines}
                         IN IF pauses[k].remaining > 0 /\ pauses[k].answer = "next"
                              THEN entries[pauses[k].step + 1].status # "skipped"
                              ELSE after \subseteq {"skipped"}
  BY DEF WalkShowsEveryLine
<1>1. phase[1] = "idle" /\ Typed /\ Len(entries) = Lines
  BY DEF Over, ScenarioInvariant, Counted
<1>2. DOMAIN entries = 1..Lines /\ Lines \in Nat
  BY <1>1, ScenarioConstants DEF Typed
<1>3. Pending = {}
  BY <1>1 DEF Pending
<1>4. /\ \A j, k \in DOMAIN pauses : j < k => pauses[j].step < pauses[k].step
      /\ {pauses[k].step : k \in DOMAIN pauses} = {n \in 1..Lines : entries[n].began}
  BY <1>2, <1>3 DEF ScenarioInvariant, Paused
<1>5. ASSUME NEW k \in DOMAIN pauses
      PROVE  IF pauses[k].remaining > 0 /\ pauses[k].answer = "next"
               THEN entries[pauses[k].step + 1].status # "skipped"
               ELSE {entries[n].status : n \in (pauses[k].step + 1)..Lines} \subseteq {"skipped"}
  <2>1. Kept(pauses[k]) /\ pauses[k].step \in 1..Lines /\ pauses[k].step \in Nat
    BY <1>1, ElementFacts DEF ScenarioInvariant, Keeps
  <2>2. CASE pauses[k].remaining > 0 /\ pauses[k].answer = "next"
    BY <1>1, <2>1, <2>2 DEF Kept
  <2>3. CASE ~(pauses[k].remaining > 0 /\ pauses[k].answer = "next")
    <3>1. \A n \in (pauses[k].step + 1)..Lines : n \in DOMAIN entries /\ n > pauses[k].step
      BY <1>2, <2>1
    <3>2. \A n \in DOMAIN entries : n > pauses[k].step => entries[n].status = "skipped"
      BY <2>1, <2>3 DEF Kept
    <3>3. \A n \in (pauses[k].step + 1)..Lines : entries[n].status = "skipped"
      BY <3>1, <3>2
    <3> QED BY <2>3, <3>3
  <2> QED BY <2>2, <2>3
<1> QED BY <1>4, <1>5

\* `--step` shows every line that ran, once and in order, and what it says of
\* the lines left is what becomes of them (pauseIfDue of run-scenario.ts).
THEOREM WalkIsShown == ScenarioSpec => []WalkShowsEveryLine
<1> QED BY ScenarioHolds, ShownWalk, PTL

LEMMA FailedSinceLate ==
  ASSUME ScenarioInvariant, [ScenarioNext]_scenarioVars, phase[1] = "line", phase'[2] = "run"
  PROVE  ~failed
<1>1. CASE BeginLine
  BY <1>1 DEF BeginLine, LineRuns
<1>2. CASE phase' = phase
  <2>1. phase = <<"line", "run">>
    <3>1. PICK p \in Phases, s \in {"open", "run"} : phase = <<p, s>>
      BY DEF ScenarioInvariant, Typed
    <3> QED BY <1>2, <3>1
  <2> QED BY <2>1 DEF ScenarioInvariant, Counted
<1>3. CASE Start \/ Refused
  BY <1>3 DEF Start, Refused, Fresh
<1>4. CASE StartHook
  BY <1>4 DEF StartHook, Hook
<1>5. CASE BeforesDone \/ AfterStepsDone \/ LinesDone \/ WriteRecord
  BY <1>5 DEF BeforesDone, AfterStepsDone, LinesDone, WriteRecord, Phase
<1>6. CASE BodyEnds
  BY <1>6 DEF BodyEnds, EndBefore, EndLine, EndAfterStep, EndAfter, Phase
<1>7. CASE Pause \/ SkipLine \/ LineNeverBegins
  BY <1>2, <1>7 DEF Pause, SkipLine, LineNeverBegins
<1>8. CASE LateEnds \/ Escape \/ UNCHANGED scenarioVars
  BY <1>2, <1>8 DEF LateEnds, Escape, scenarioVars
<1> QED
  BY <1>1, <1>3, <1>4, <1>5, <1>6, <1>7, <1>8 DEF ScenarioNext, Executor

\* The lines of a scenario never run beside a body of that scenario past its
\* deadline: step-deadline.ts lets it go on, and its failure skips them.
THEOREM LateBodiesRunAlone == ScenarioSpec => NoStepBesideLateBody
<1>1. ScenarioInvariant /\ [ScenarioNext]_scenarioVars
        => [phase[1] = "line" /\ phase'[2] = "run"
              => \A body \in late : body[1] # number]_scenarioVars
  BY FailedSinceLate DEF ScenarioInvariant, Lateness
<1> QED BY <1>1, ScenarioHolds, PTL DEF ScenarioSpec, NoStepBesideLateBody
=============================================================================

----------------------------- MODULE Walk_proofs -----------------------------
(***************************************************************************)
(* What the run and the calls promise each other, for any number of calls  *)
(* at once, of walks one after the other and of steps of each.             *)
(***************************************************************************)
EXTENDS Walk, TLAPS

-----------------------------------------------------------------------------
(* The invariant.                                                          *)

\* walk.json is of the newest walk, and of the last pause it made.
JsonIsNewest ==
  /\ json.state = "none" <=> json.walk = 0
  /\ json.walk # 0 => reached[json.walk] = json.pause
  /\ json.state = "starting" => json.pause = 0
  /\ json.state = "paused" => json.pause > 0
  /\ \A w \in alive : w <= json.walk
  /\ \A w \in Walks : w > json.walk => reached[w] = 0

\* A walk goes on past a pause only with its answer.
PastIsAnswered ==
  \A w \in Walks, k \in Pauses :
    k < reached[w] \/ (w = json.walk /\ json.state = "running" /\ k = reached[w])
      => applied[w][k] # "none"

\* A stop taken leaves the walk skipping to its end.
StopSkips ==
  \A k \in Pauses :
    json.walk # 0 /\ applied[json.walk][k] = "stop" =>
      json.state = "ended" \/ (json.state = "running" /\ skipping)

\* A call that writes an answer saw its pause, and one that created the file
\* is alone in writing it.
WritersOwn ==
  /\ \A c \in Callers : at[c] \in {"write", "fill"} =>
       call[c].kind = "answer" /\ call[c].pause <= reached[call[c].walk]
  /\ \A c \in Callers : at[c] = "fill" => answers[call[c].walk][call[c].pause] = "empty"
  /\ \A c, d \in Callers :
       c # d /\ at[c] = "fill" /\ at[d] = "fill" =>
         call[c].walk # call[d].walk \/ call[c].pause # call[d].pause

\* What a call read was so, and what it read as over is.
Reading(c) == at[c] \in {"look", "decide"}

ReadWasSo ==
  \A c \in Callers : Reading(c) =>
    /\ read[c].state = "none" <=> read[c].walk = 0
    /\ read[c].walk <= json.walk
    /\ read[c].walk # 0 => read[c].pause <= reached[read[c].walk]
    /\ read[c].state = "ended" => read[c].walk < json.walk \/ json.state = "ended"
    /\ read[c].state = "gone" => read[c].walk \notin alive

\* A walk whose end was reported is over, and it stays so.
ReportedIsOver ==
  \A w \in reported : w <= json.walk /\ (w \in alive => w < json.walk \/ json.state = "ended")

\* The ends known when a call started are of walks before the one it waits for.
KnownIsBefore ==
  \A c \in Callers :
    /\ known[c] \subseteq reported
    /\ at[c] = "idle" => target[c] = 0
    /\ at[c] = "decide" => target[c] # 0
    /\ Reading(c) => \A w \in known[c] :
         w <= read[c].walk /\ (w < read[c].walk \/ read[c].state \in {"ended", "gone"} \/ w \notin alive)
    /\ target[c] # 0 /\ call[c].kind = "wait" /\ call[c].walk = 0 =>
         \A w \in known[c] : w < target[c]

RunInv == JsonIsNewest /\ PastIsAnswered /\ StopIsLast /\ StopSkips
FileInv == NoAnswerAhead /\ AppliedIsTheFile /\ WritersOwn
CallInv == ReadWasSo /\ ReportedIsOver /\ KnownIsBefore

Inv == TypeOK /\ RunInv /\ FileInv /\ CallInv

-----------------------------------------------------------------------------
(* The run.                                                                *)

USE DEF Walks, Pauses

\* A walk opens, with the next number.
LEMMA OpenWalkKeeps == Inv /\ OpenWalk => Inv'
<1> SUFFICES ASSUME Inv, OpenWalk PROVE Inv'
  OBVIOUS
<1> USE WalkConstants
<1>1. TypeOK'
  <2>1. json.walk + 1 \in Walks /\ json'.walk = json.walk + 1 /\ json' \in WalkStates /\ json'.state # "gone"
    BY DEF Inv, TypeOK, OpenWalk, WalkStates
  <2> QED BY <2>1 DEF Inv, TypeOK, OpenWalk, callVars
<1>2. json' = [walk |-> json.walk + 1, pause |-> 0, state |-> "starting"] /\ json.walk \in 0..MaxWalk
      /\ json'.walk \in Walks /\ reached[json'.walk] = 0 /\ reached' = reached /\ applied' = applied
  BY DEF Inv, TypeOK, RunInv, JsonIsNewest, OpenWalk, WalkStates
<1>3. \A k \in Pauses : applied[json'.walk][k] = "none"
  BY <1>2 DEF Inv, TypeOK, FileInv, NoAnswerAhead, AppliedIsTheFile
<1>4. RunInv'
  BY <1>1, <1>2, <1>3 DEF Inv, RunInv, JsonIsNewest, PastIsAnswered, StopIsLast, StopSkips, OpenWalk, TypeOK, WalkStates
<1>5. FileInv'
  BY DEF Inv, FileInv, NoAnswerAhead, AppliedIsTheFile, WritersOwn, OpenWalk, callVars
<1>6. CallInv'
  BY <1>2 DEF Inv, TypeOK, WalkStates, CallInv, ReadWasSo, Reading, ReportedIsOver, KnownIsBefore, OpenWalk, callVars
<1> QED BY <1>1, <1>4, <1>5, <1>6 DEF Inv

\* It begins its scenario.
LEMMA BeginKeeps == Inv /\ Begin => Inv'
<1> SUFFICES ASSUME Inv, Begin PROVE Inv'
  OBVIOUS
<1> USE WalkConstants
<1>1. TypeOK'
  BY DEF Inv, TypeOK, Begin, callVars, WalkStates
<1>2. json'.walk = json.walk /\ json'.pause = json.pause /\ json'.state = "running" /\ json.walk # 0
      /\ json' \in WalkStates
      /\ json.state = "starting" /\ json.pause = 0 /\ json.walk \in Walks
  <2>1. json \in WalkStates
    BY DEF Inv, TypeOK
  <2>2. json.walk \in 0..MaxWalk /\ json.pause \in 0..Steps
    BY <2>1 DEF WalkStates
  <2>3. /\ json'.walk = json.walk /\ json'.pause = json.pause /\ json'.state = "running"
        /\ json' \in WalkStates
    BY <2>1 DEF Begin, WalkStates
  <2> QED BY <2>2, <2>3 DEF Inv, TypeOK, RunInv, JsonIsNewest, Begin
<1>3. \A k \in Pauses : applied[json.walk][k] = "none"
  BY <1>2 DEF Inv, TypeOK, RunInv, JsonIsNewest, FileInv, NoAnswerAhead, AppliedIsTheFile
<1>4. RunInv'
  BY <1>1, <1>2, <1>3 DEF Inv, RunInv, JsonIsNewest, PastIsAnswered, StopIsLast, StopSkips, Begin, TypeOK, WalkStates
<1>5. FileInv'
  BY DEF Inv, FileInv, NoAnswerAhead, AppliedIsTheFile, WritersOwn, Begin, callVars
<1>6. CallInv'
  BY <1>2 DEF Inv, TypeOK, WalkStates, CallInv, ReadWasSo, Reading, ReportedIsOver, KnownIsBefore, Begin, callVars
<1> QED BY <1>1, <1>4, <1>5, <1>6 DEF Inv

\* It pauses after a step: every pause before has its answer.
LEMMA PauseAfterKeeps == Inv /\ PauseAfter => Inv'
<1> SUFFICES ASSUME Inv, PauseAfter PROVE Inv'
  OBVIOUS
<1> USE WalkConstants
<1>2. json'.walk = json.walk /\ json'.pause = json.pause + 1 /\ json'.state = "paused" /\ json.walk \in Walks
      /\ json' \in WalkStates
      /\ json.state = "running" /\ ~skipping /\ json.pause \in 0..(Steps - 1) /\ reached[json.walk] = json.pause
      /\ reached' = [reached EXCEPT ![json.walk] = json.pause + 1]
      /\ UNCHANGED <<alive, answers, applied, reported, at, call, known, target, read>>
      /\ skipping' \in BOOLEAN
  <2>1. json \in WalkStates /\ json.pause < Steps
    BY DEF Inv, TypeOK, PauseAfter
  <2>2. json.walk \in 0..MaxWalk /\ json.pause \in 0..Steps
    BY <2>1 DEF WalkStates
  <2>3. /\ json'.walk = json.walk /\ json'.pause = json.pause + 1 /\ json'.state = "paused"
        /\ json' \in WalkStates
    <3>1. json' = [json EXCEPT !.state = "paused", !.pause = json.pause + 1] /\ json.pause + 1 \in 0..Steps
      BY <2>1, <2>2 DEF PauseAfter
    <3> QED BY <2>1, <3>1 DEF WalkStates
  <2> QED BY <2>1, <2>2, <2>3 DEF Inv, TypeOK, RunInv, JsonIsNewest, PauseAfter, Live, callVars
<1>1. TypeOK'
  BY <1>2 DEF Inv, TypeOK
<1>3. /\ reached'[json.walk] = json.pause + 1
      /\ \A w \in Walks : w # json.walk => reached'[w] = reached[w]
      /\ \A w \in Walks : reached[w] \in Nat /\ reached'[w] \in Nat /\ reached[w] <= reached'[w]
  BY <1>2 DEF Inv, TypeOK
<1>4. RunInv'
  <2>1. JsonIsNewest'
    BY <1>2, <1>3 DEF Inv, RunInv, JsonIsNewest
  <2>2. PastIsAnswered'
    BY <1>2, <1>3 DEF Inv, RunInv, PastIsAnswered
  <2>3. StopIsLast'
    BY <1>2, <1>3 DEF Inv, RunInv, StopIsLast, StopSkips
  <2>4. StopSkips'
    BY <1>2, <1>3 DEF Inv, RunInv, StopSkips
  <2> QED BY <2>1, <2>2, <2>3, <2>4 DEF RunInv
<1>5. FileInv'
  <2>1. NoAnswerAhead' /\ AppliedIsTheFile'
    BY <1>2, <1>3 DEF Inv, FileInv, NoAnswerAhead, AppliedIsTheFile
  <2>2. \A c \in Callers : call[c].kind = "answer" => call[c].walk \in Walks /\ call[c].pause \in Pauses
    BY DEF Inv, TypeOK, Calls
  <2>3. WritersOwn'
    BY <1>2, <1>3, <2>2 DEF Inv, FileInv, WritersOwn
  <2> QED BY <2>1, <2>3 DEF FileInv
<1>6. CallInv'
  <2>1. \A c \in Callers : read[c].walk \in 0..MaxWalk /\ read[c].pause \in 0..Steps
    BY DEF Inv, TypeOK, WalkStates
  <2>2. ReadWasSo'
    BY <1>2, <1>3, <2>1 DEF Inv, CallInv, ReadWasSo, Reading
  <2> QED BY <1>2, <2>2 DEF Inv, CallInv, ReportedIsOver, KnownIsBefore, Reading
<1> QED BY <1>1, <1>4, <1>5, <1>6 DEF Inv

\* It takes the answer of the pause it is at.
LEMMA TakeAnswerKeeps == Inv /\ TakeAnswer => Inv'
<1> SUFFICES ASSUME Inv, TakeAnswer PROVE Inv'
  OBVIOUS
<1> USE WalkConstants
<1> DEFINE w0 == json.walk
           k0 == json.pause
<1>2. /\ json'.walk = w0 /\ json'.pause = k0 /\ json'.state = "running" /\ w0 \in Walks /\ k0 \in Pauses
      /\ json' \in WalkStates
      /\ json.state = "paused" /\ reached[w0] = k0 /\ answers[w0][k0] \in Answers
      /\ applied' = [applied EXCEPT ![w0][k0] = answers[w0][k0]]
      /\ skipping' = (skipping \/ answers[w0][k0] = "stop")
      /\ UNCHANGED <<alive, reached, answers, reported, at, call, known, target, read>>
  <2>1. json \in WalkStates
    BY DEF Inv, TypeOK
  <2>2. json.walk \in 0..MaxWalk /\ json.pause \in 0..Steps
    BY <2>1 DEF WalkStates
  <2>3. /\ json'.walk = json.walk /\ json'.pause = json.pause /\ json'.state = "running"
        /\ json' \in WalkStates
    BY <2>1 DEF TakeAnswer, WalkStates
  <2> QED BY <2>2, <2>3 DEF Inv, TypeOK, RunInv, JsonIsNewest, TakeAnswer, Live, callVars
<1>3. /\ applied'[w0][k0] = answers[w0][k0]
      /\ \A w \in Walks, k \in Pauses : w # w0 \/ k # k0 => applied'[w][k] = applied[w][k]
  BY <1>2 DEF Inv, TypeOK
<1>1. TypeOK'
  BY <1>2 DEF Inv, TypeOK
<1>4. RunInv'
  <2>1. JsonIsNewest'
    BY <1>2 DEF Inv, RunInv, JsonIsNewest
  <2>2. PastIsAnswered'
    <3>1. answers[w0][k0] # "none"
      BY <1>2
    <3> QED BY <1>2, <1>3, <3>1 DEF Inv, RunInv, PastIsAnswered
  <2>3. StopIsLast'
    BY <1>2, <1>3 DEF Inv, RunInv, StopIsLast
  <2>4. StopSkips'
    <3> SUFFICES ASSUME NEW k \in Pauses, applied'[w0][k] = "stop" PROVE skipping'
      BY <1>2 DEF StopSkips
    <3>1. CASE k = k0
      BY <1>2, <1>3, <3>1
    <3>2. CASE k # k0
      BY <1>2, <1>3, <3>2 DEF Inv, RunInv, StopSkips
    <3> QED BY <3>1, <3>2
  <2> QED BY <2>1, <2>2, <2>3, <2>4 DEF RunInv
<1>5. FileInv'
  BY <1>2, <1>3 DEF Inv, FileInv, NoAnswerAhead, AppliedIsTheFile, WritersOwn
<1>6. CallInv'
  BY <1>2 DEF Inv, CallInv, ReadWasSo, Reading, ReportedIsOver, KnownIsBefore
<1> QED BY <1>1, <1>4, <1>5, <1>6 DEF Inv

\* It ends, early or not.
LEMMA EndKeeps == Inv /\ (Finish \/ EndEarly) => Inv'
<1> SUFFICES ASSUME Inv, Finish \/ EndEarly PROVE Inv'
  OBVIOUS
<1> USE WalkConstants
<1>2. /\ json'.walk = json.walk /\ json'.pause = json.pause /\ json'.state = "ended" /\ json.walk \in Walks
      /\ json' \in WalkStates /\ json.state \in {"starting", "running", "paused"}
      /\ UNCHANGED <<alive, skipping, reached, answers, applied, reported, at, call, known, target, read>>
  BY DEF Inv, TypeOK, RunInv, JsonIsNewest, Finish, EndEarly, End, WalkStates, Live, callVars
<1>1. TypeOK'
  BY <1>2 DEF Inv, TypeOK
<1>4. RunInv'
  BY <1>2 DEF Inv, RunInv, JsonIsNewest, PastIsAnswered, StopIsLast, StopSkips
<1>5. FileInv'
  BY <1>2 DEF Inv, FileInv, NoAnswerAhead, AppliedIsTheFile, WritersOwn
<1>6. CallInv'
  BY <1>2 DEF Inv, CallInv, ReadWasSo, Reading, ReportedIsOver, KnownIsBefore
<1> QED BY <1>1, <1>4, <1>5, <1>6 DEF Inv

\* A run's process is gone.
LEMMA RunGoneKeeps == Inv /\ RunGone => Inv'
<1> SUFFICES ASSUME Inv, RunGone PROVE Inv'
  OBVIOUS
<1>2. /\ alive' \subseteq alive
      /\ UNCHANGED <<json, skipping, reached, answers, applied, reported, at, call, known, target, read>>
  BY DEF RunGone, callVars
<1>1. TypeOK'
  BY <1>2 DEF Inv, TypeOK
<1>4. RunInv'
  BY <1>2 DEF Inv, RunInv, JsonIsNewest, PastIsAnswered, StopIsLast, StopSkips
<1>5. FileInv'
  BY <1>2 DEF Inv, FileInv, NoAnswerAhead, AppliedIsTheFile, WritersOwn
<1>6. CallInv'
  BY <1>2 DEF Inv, CallInv, ReadWasSo, Reading, ReportedIsOver, KnownIsBefore
<1> QED BY <1>1, <1>4, <1>5, <1>6 DEF Inv

-----------------------------------------------------------------------------
(* The calls.                                                              *)

\* A step of a call leaves the run alone.
LEMMA RunStands ==
  ASSUME Inv, UNCHANGED runVars
  PROVE  RunInv'
BY DEF Inv, RunInv, JsonIsNewest, PastIsAnswered, StopIsLast, StopSkips, runVars

\* One that writes no file and does not come to write one leaves the files.
LEMMA FilesStand ==
  ASSUME Inv, NEW c \in Callers, UNCHANGED <<runVars, answers>>,
         \A d \in Callers \ {c} : at'[d] = at[d] /\ call'[d] = call[d],
         at'[c] \notin {"write", "fill"}
  PROVE  FileInv'
BY DEF Inv, FileInv, NoAnswerAhead, AppliedIsTheFile, WritersOwn, runVars

\* A call is asked.
LEMMA CallKeeps ==
  ASSUME Inv, NEW c \in Callers, Call(c)
  PROVE  Inv'
<1>1. PICK asked \in Calls : call' = [call EXCEPT ![c] = asked]
  BY DEF Call
<1>2. /\ at[c] = "idle" /\ at' = [at EXCEPT ![c] = "read"]
      /\ known' = [known EXCEPT ![c] = IF call'[c] = NoCall THEN reported ELSE {}]
      /\ UNCHANGED <<runVars, answers, reported, target, read>>
  BY DEF Call
<1>3. TypeOK'
  BY <1>1, <1>2 DEF Inv, TypeOK, runVars
<1>4. \A d \in Callers \ {c} : at'[d] = at[d] /\ call'[d] = call[d] /\ known'[d] = known[d]
  BY <1>1, <1>2 DEF Inv, TypeOK
<1>5. at'[c] = "read" /\ known'[c] \subseteq reported /\ target[c] = 0
  BY <1>1, <1>2 DEF Inv, TypeOK, CallInv, KnownIsBefore
<1>6. CallInv'
  <2>1. ReadWasSo'
    BY <1>2, <1>4, <1>5 DEF Inv, CallInv, ReadWasSo, Reading, runVars
  <2>2. ReportedIsOver'
    BY <1>2 DEF Inv, CallInv, ReportedIsOver, runVars
  <2>3. KnownIsBefore'
    BY <1>2, <1>4, <1>5 DEF Inv, CallInv, KnownIsBefore, Reading, runVars
  <2> QED BY <2>1, <2>2, <2>3 DEF CallInv
<1> QED BY <1>2, <1>3, <1>4, <1>5, <1>6, RunStands, FilesStand DEF Inv

\* It reads walk.json.
LEMMA ReadJsonKeeps ==
  ASSUME Inv, NEW c \in Callers, ReadJson(c)
  PROVE  Inv'
<1>1. /\ at[c] = "read" /\ at' = [at EXCEPT ![c] = "look"] /\ read' = [read EXCEPT ![c] = json]
      /\ UNCHANGED <<runVars, answers, reported, call, known, target>>
  BY DEF ReadJson
<1>2. TypeOK'
  BY <1>1 DEF Inv, TypeOK, runVars
<1>3. /\ at'[c] = "look" /\ read'[c] = json
      /\ \A d \in Callers \ {c} : at'[d] = at[d] /\ call'[d] = call[d] /\ read'[d] = read[d]
  BY <1>1 DEF Inv, TypeOK
<1>4. json.walk \in 0..MaxWalk /\ json.pause \in 0..Steps /\ reached \in [Walks -> 0..Steps]
  BY DEF Inv, TypeOK, WalkStates
<1>5. CallInv'
  <2>1. ReadWasSo'
    BY <1>1, <1>3, <1>4 DEF Inv, TypeOK, CallInv, RunInv, JsonIsNewest, ReadWasSo, Reading, runVars
  <2>2. ReportedIsOver'
    BY <1>1 DEF Inv, CallInv, ReportedIsOver, runVars
  <2>3. \A w \in known[c] : w <= json.walk /\ (w < json.walk \/ json.state = "ended" \/ w \notin alive)
    BY <1>4 DEF Inv, TypeOK, CallInv, KnownIsBefore, ReportedIsOver
  <2>4. KnownIsBefore'
    BY <1>1, <1>3, <2>3 DEF Inv, CallInv, KnownIsBefore, Reading, runVars
  <2> QED BY <2>1, <2>2, <2>4 DEF CallInv
<1> QED BY <1>1, <1>2, <1>3, <1>5, RunStands, FilesStand DEF Inv

\* It looks whether the walk it read is alive, and is then about one walk.
LEMMA LookKeeps ==
  ASSUME Inv, NEW c \in Callers, Look(c)
  PROVE  Inv'
<1> DEFINE seen == SeeWalk(read[c])
<1>1. /\ at[c] = "look" /\ at' = [at EXCEPT ![c] = "decide"] /\ read' = [read EXCEPT ![c] = seen]
      /\ target' = [target EXCEPT ![c] = IF target[c] = 0 THEN CallTarget(call[c], seen) ELSE target[c]]
      /\ UNCHANGED <<runVars, answers, reported, call, known>>
  BY DEF Look
<1>2. /\ read[c] \in WalkStates /\ call[c] \in Calls
      /\ read[c].walk \in 0..MaxWalk /\ call[c].walk \in 0..MaxWalk /\ target[c] \in 0..(MaxWalk + 1)
      /\ MaxWalk \in Nat \ {0}
  BY WalkConstants DEF Inv, TypeOK, WalkStates, Calls
<1>3. /\ seen \in WalkStates /\ seen.walk = read[c].walk /\ seen.pause = read[c].pause
      /\ seen = read[c] \/ (seen.state = "gone" /\ read[c].state # "ended" /\ read[c].walk \notin alive /\ read[c].state # "none")
      /\ seen.state \in {"none", "ended", "gone"} \/ seen.walk \in alive
  BY <1>2 DEF SeeWalk, WalkStates
<1>4. /\ seen.state = "none" <=> seen.walk = 0
      /\ seen.walk <= json.walk
      /\ seen.walk # 0 => seen.pause <= reached[seen.walk]
      /\ seen.state = "ended" => seen.walk < json.walk \/ json.state = "ended"
      /\ seen.state = "gone" => seen.walk \notin alive
  BY <1>1, <1>3 DEF Inv, CallInv, ReadWasSo, Reading
<1>5. CallTarget(call[c], seen) \in 1..(MaxWalk + 1)
  BY <1>2, <1>3, <1>4 DEF CallTarget
<1>6. TypeOK'
  BY <1>1, <1>3, <1>5 DEF Inv, TypeOK, runVars
<1>7. /\ at'[c] = "decide" /\ read'[c] = seen /\ target'[c] \in 1..(MaxWalk + 1)
      /\ target'[c] = (IF target[c] = 0 THEN CallTarget(call[c], seen) ELSE target[c])
      /\ \A d \in Callers \ {c} : at'[d] = at[d] /\ call'[d] = call[d] /\ read'[d] = read[d]
                                  /\ target'[d] = target[d]
  BY <1>1, <1>2, <1>5 DEF Inv, TypeOK
<1>8. \A w \in known[c] : w \in Walks /\ w \in reported
                          /\ w <= seen.walk /\ (w < seen.walk \/ Over(seen) \/ w \notin alive)
  BY <1>1, <1>3 DEF Inv, TypeOK, CallInv, KnownIsBefore, Reading, Over
<1>9. ASSUME target[c] = 0, call[c].walk = 0, NEW w \in known[c]
      PROVE  w < CallTarget(call[c], seen)
  <2>1. seen.state # "none"
    BY <1>3, <1>4, <1>8, <1>9
  <2>2. CASE Over(seen) /\ seen.walk \in reported
    BY <1>2, <1>3, <1>8, <1>9, <2>1, <2>2 DEF CallTarget
  <2>3. CASE Over(seen) /\ seen.walk \notin reported
    BY <1>2, <1>3, <1>8, <1>9, <2>1, <2>3 DEF CallTarget
  <2>4. CASE ~Over(seen)
    BY <1>2, <1>3, <1>8, <1>9, <2>1, <2>4 DEF CallTarget, Over
  <2> QED BY <2>2, <2>3, <2>4
<1>10. CallInv'
  <2>1. ReadWasSo'
    BY <1>1, <1>4, <1>7 DEF Inv, CallInv, ReadWasSo, Reading, runVars
  <2>2. ReportedIsOver'
    BY <1>1 DEF Inv, CallInv, ReportedIsOver, runVars
  <2>3. KnownIsBefore'
    BY <1>1, <1>7, <1>8, <1>9 DEF Inv, CallInv, KnownIsBefore, Reading, Over, runVars
  <2> QED BY <2>1, <2>2, <2>3 DEF CallInv
<1> QED BY <1>1, <1>6, <1>7, <1>10, RunStands, FilesStand DEF Inv

\* It returns; a report of a walk that is over says so first.
LEMMA ReturnKeeps ==
  ASSUME Inv, NEW c \in Callers, Report(c) \/ Refuse(c) \/ GiveUp(c) \/ DieWriting(c)
  PROVE  Inv'
<1>1. /\ at' = [at EXCEPT ![c] = "idle"] /\ call' = [call EXCEPT ![c] = NoCall]
      /\ known' = [known EXCEPT ![c] = {}] /\ target' = [target EXCEPT ![c] = 0]
      /\ read' = [read EXCEPT ![c] = NoWalk]
      /\ UNCHANGED <<runVars, answers>>
  BY DEF Report, Refuse, GiveUp, DieWriting, Return
<1>2. \/ reported' = reported
      \/ at[c] = "decide" /\ Over(read[c]) /\ reported' = reported \cup {read[c].walk}
  BY DEF Report, Refuse, GiveUp, DieWriting
<1>3. reported' \subseteq Walks /\ ReportedIsOver'
  <2>1. CASE reported' = reported
    BY <1>1, <2>1 DEF Inv, TypeOK, CallInv, ReportedIsOver, runVars
  <2>2. CASE at[c] = "decide" /\ Over(read[c]) /\ reported' = reported \cup {read[c].walk}
    <3>1. read[c].walk \in 0..MaxWalk
      BY DEF Inv, TypeOK, WalkStates
    <3>2. read[c].walk \in Walks /\ read[c].walk <= json.walk
          /\ (read[c].walk \in alive => read[c].walk < json.walk \/ json.state = "ended")
      BY <2>2, <3>1 DEF Inv, CallInv, ReadWasSo, Reading, Over
    <3> QED BY <1>1, <2>2, <3>2 DEF Inv, TypeOK, CallInv, ReportedIsOver, runVars
  <2> QED BY <1>2, <2>1, <2>2
<1>4. NoCall \in Calls /\ NoWalk \in WalkStates
  BY WalkConstants DEF NoCall, NoWalk, Calls, WalkStates
<1>5. TypeOK'
  BY <1>1, <1>3, <1>4, WalkConstants DEF Inv, TypeOK, runVars
<1>6. /\ at'[c] = "idle" /\ known'[c] = {} /\ target'[c] = 0 /\ reported \subseteq reported'
      /\ \A d \in Callers \ {c} : at'[d] = at[d] /\ call'[d] = call[d] /\ read'[d] = read[d]
                                  /\ target'[d] = target[d] /\ known'[d] = known[d]
  BY <1>1, <1>2 DEF Inv, TypeOK
<1>7. ReadWasSo' /\ KnownIsBefore'
  <2>1. ReadWasSo'
    BY <1>1, <1>6 DEF Inv, CallInv, ReadWasSo, Reading, runVars
  <2>2. KnownIsBefore'
    BY <1>1, <1>6 DEF Inv, CallInv, KnownIsBefore, Reading, runVars
  <2> QED BY <2>1, <2>2
<1> QED BY <1>1, <1>3, <1>5, <1>6, <1>7, RunStands, FilesStand DEF Inv, CallInv

\* It reads again.
LEMMA AgainKeeps ==
  ASSUME Inv, NEW c \in Callers, Again(c)
  PROVE  Inv'
<1>1. /\ at' = [at EXCEPT ![c] = "read"] /\ read' = [read EXCEPT ![c] = NoWalk]
      /\ UNCHANGED <<runVars, answers, reported, call, known, target>>
  BY DEF Again
<1>2. NoWalk \in WalkStates
  BY WalkConstants DEF NoWalk, WalkStates
<1>3. TypeOK'
  BY <1>1, <1>2 DEF Inv, TypeOK, runVars
<1>4. /\ at'[c] = "read"
      /\ \A d \in Callers \ {c} : at'[d] = at[d] /\ call'[d] = call[d] /\ read'[d] = read[d]
  BY <1>1 DEF Inv, TypeOK
<1>5. CallInv'
  BY <1>1, <1>4 DEF Inv, CallInv, ReadWasSo, Reading, ReportedIsOver, KnownIsBefore, runVars
<1> QED BY <1>1, <1>3, <1>4, <1>5, RunStands, FilesStand DEF Inv

\* It goes on to write: it read the pause it answers.
LEMMA DecideWriteKeeps ==
  ASSUME Inv, NEW c \in Callers, DecideWrite(c)
  PROVE  Inv'
<1>1. /\ at[c] = "decide" /\ Decision(c) = "write"
      /\ at' = [at EXCEPT ![c] = "write"] /\ read' = [read EXCEPT ![c] = NoWalk]
      /\ UNCHANGED <<runVars, answers, reported, call, known, target>>
  BY DEF DecideWrite
<1>2. NoWalk \in WalkStates
  BY WalkConstants DEF NoWalk, WalkStates
<1>3. TypeOK'
  BY <1>1, <1>2 DEF Inv, TypeOK, runVars
<1>4. /\ at'[c] = "write"
      /\ \A d \in Callers \ {c} : at'[d] = at[d] /\ call'[d] = call[d] /\ read'[d] = read[d]
  BY <1>1 DEF Inv, TypeOK
<1>5. call[c].kind = "answer" /\ call[c].pause <= reached[call[c].walk]
  <2>1. call[c].kind = "answer"
    <3>1. call[c].kind \in {"wait", "answer"} /\ DecideWait(call[c], target[c], read[c]) # "write"
      BY DEF Inv, TypeOK, Calls, DecideWait
    <3> QED BY <1>1, <3>1 DEF Decision
  <2>2. read[c].walk = call[c].walk /\ read[c].pause = call[c].pause /\ call[c].walk # 0
    <3>1. call[c].walk \in Walks
      BY <2>1 DEF Inv, TypeOK, Calls
    <3> QED BY <1>1, <2>1, <3>1 DEF Decision, DecideAnswer
  <2> QED BY <1>1, <2>1, <2>2 DEF Inv, CallInv, ReadWasSo, Reading
<1>6. FileInv'
  BY <1>1, <1>4, <1>5 DEF Inv, FileInv, NoAnswerAhead, AppliedIsTheFile, WritersOwn, runVars
<1>7. CallInv'
  BY <1>1, <1>4 DEF Inv, CallInv, ReadWasSo, Reading, ReportedIsOver, KnownIsBefore, runVars
<1> QED BY <1>1, <1>3, <1>6, <1>7, RunStands DEF Inv

\* It creates the file of its answer, or finds it there and reads again.
LEMMA CreateAnswerKeeps ==
  ASSUME Inv, NEW c \in Callers, CreateAnswer(c)
  PROVE  Inv'
<1> DEFINE w0 == call[c].walk
           k0 == call[c].pause
<1>1. /\ at[c] = "write" /\ UNCHANGED <<runVars, reported, call, known, target, read>>
      /\ w0 \in Walks /\ k0 \in Pauses /\ call[c].kind = "answer" /\ k0 <= reached[w0]
  BY DEF CreateAnswer, Inv, TypeOK, Calls, FileInv, WritersOwn
<1>2. CASE answers[w0][k0] = "none" /\ answers' = [answers EXCEPT ![w0][k0] = "empty"]
           /\ at' = [at EXCEPT ![c] = "fill"]
  <2>1. /\ answers'[w0][k0] = "empty" /\ at'[c] = "fill"
        /\ \A w \in Walks, k \in Pauses : w # w0 \/ k # k0 => answers'[w][k] = answers[w][k]
        /\ \A d \in Callers \ {c} : at'[d] = at[d]
    BY <1>1, <1>2 DEF Inv, TypeOK
  <2>2. TypeOK'
    BY <1>1, <1>2 DEF Inv, TypeOK, runVars
  <2>3. \A d \in Callers : at[d] = "fill" =>
          call[d].walk \in Walks /\ call[d].pause \in Pauses /\ answers[call[d].walk][call[d].pause] = "empty"
    BY DEF Inv, TypeOK, Calls, FileInv, WritersOwn
  <2>4. FileInv'
    <3>1. NoAnswerAhead' /\ AppliedIsTheFile'
      BY <1>1, <1>2, <2>1 DEF Inv, FileInv, NoAnswerAhead, AppliedIsTheFile, runVars
    <3>2. WritersOwn'
      BY <1>1, <1>2, <2>1, <2>3 DEF Inv, FileInv, WritersOwn, runVars
    <3> QED BY <3>1, <3>2 DEF FileInv
  <2>5. CallInv'
    BY <1>1, <2>1 DEF Inv, CallInv, ReadWasSo, Reading, ReportedIsOver, KnownIsBefore, runVars
  <2> QED BY <1>1, <2>2, <2>4, <2>5, RunStands DEF Inv
<1>3. CASE UNCHANGED answers /\ at' = [at EXCEPT ![c] = "read"]
  <2>1. at'[c] = "read" /\ \A d \in Callers \ {c} : at'[d] = at[d]
    BY <1>3 DEF Inv, TypeOK
  <2>2. TypeOK'
    BY <1>1, <1>3 DEF Inv, TypeOK, runVars
  <2>3. CallInv'
    BY <1>1, <2>1 DEF Inv, CallInv, ReadWasSo, Reading, ReportedIsOver, KnownIsBefore, runVars
  <2> QED BY <1>1, <1>3, <2>1, <2>2, <2>3, RunStands, FilesStand DEF Inv
<1> QED BY <1>2, <1>3 DEF CreateAnswer

\* It writes its answer to the file it created.
LEMMA FillAnswerKeeps ==
  ASSUME Inv, NEW c \in Callers, FillAnswer(c)
  PROVE  Inv'
<1> DEFINE w0 == call[c].walk
           k0 == call[c].pause
<1>1. /\ at[c] = "fill" /\ UNCHANGED <<runVars, reported, call, known, target, read>>
      /\ answers' = [answers EXCEPT ![w0][k0] = call[c].answer] /\ at' = [at EXCEPT ![c] = "read"]
      /\ w0 \in Walks /\ k0 \in Pauses /\ k0 <= reached[w0] /\ answers[w0][k0] = "empty"
      /\ call[c].answer \in Answers
  BY DEF FillAnswer, Inv, TypeOK, Calls, FileInv, WritersOwn
<1>2. /\ at'[c] = "read" /\ \A d \in Callers \ {c} : at'[d] = at[d]
      /\ \A w \in Walks, k \in Pauses : w # w0 \/ k # k0 => answers'[w][k] = answers[w][k]
  BY <1>1 DEF Inv, TypeOK
<1>3. TypeOK'
  BY <1>1 DEF Inv, TypeOK, runVars
<1>4. applied[w0][k0] = "none"
  BY <1>1, WalkConstants DEF Inv, TypeOK, FileInv, AppliedIsTheFile
<1>5. \A d \in Callers : at[d] = "fill" => call[d].walk \in Walks /\ call[d].pause \in Pauses
  BY DEF Inv, TypeOK, Calls, FileInv, WritersOwn
<1>6. FileInv'
  <2>1. NoAnswerAhead' /\ AppliedIsTheFile'
    BY <1>1, <1>2, <1>4 DEF Inv, FileInv, NoAnswerAhead, AppliedIsTheFile, runVars
  <2>2. WritersOwn'
    BY <1>1, <1>2, <1>5 DEF Inv, FileInv, WritersOwn, runVars
  <2> QED BY <2>1, <2>2 DEF FileInv
<1>7. CallInv'
  BY <1>1, <1>2 DEF Inv, CallInv, ReadWasSo, Reading, ReportedIsOver, KnownIsBefore, runVars
<1> QED BY <1>1, <1>3, <1>6, <1>7, RunStands DEF Inv

-----------------------------------------------------------------------------
(* The theorems.                                                           *)

\* The invariant holds before the first walk.
LEMMA InvInit == Init => Inv
<1> SUFFICES ASSUME Init PROVE Inv
  OBVIOUS
<1>1. NoCall \in Calls /\ NoWalk \in WalkStates
  BY WalkConstants DEF NoCall, NoWalk, Calls, WalkStates
<1>2. TypeOK
  <2>1. json \in WalkStates /\ json.state # "gone"
    BY <1>1 DEF Init, NoWalk
  <2>2. call \in [Callers -> Calls] /\ read \in [Callers -> WalkStates]
    BY <1>1 DEF Init
  <2>3. /\ alive \subseteq Walks /\ skipping \in BOOLEAN /\ reported \subseteq Walks
        /\ at \in [Callers -> {"idle", "read", "look", "decide", "write", "fill"}]
        /\ known \in [Callers -> SUBSET Walks]
    BY DEF Init
  <2>4. reached \in [Walks -> 0..Steps] /\ target \in [Callers -> 0..MaxWalk + 1]
    <3>1. 0 \in 0..Steps /\ 0 \in 0..MaxWalk + 1
      BY WalkConstants
    <3> QED BY <3>1 DEF Init
  <2>5. /\ answers \in [Walks -> [Pauses -> Answers \cup {"none", "empty"}]]
        /\ applied \in [Walks -> [Pauses -> Answers \cup {"none"}]]
    BY DEF Init
  <2> QED BY <2>1, <2>2, <2>3, <2>4, <2>5 DEF TypeOK
<1>3. RunInv
  BY WalkConstants DEF Init, NoWalk, RunInv, JsonIsNewest, PastIsAnswered, StopIsLast, StopSkips
<1>4. FileInv /\ CallInv
  BY DEF Init, FileInv, NoAnswerAhead, AppliedIsTheFile, WritersOwn, CallInv, ReadWasSo, Reading,
         ReportedIsOver, KnownIsBefore
<1> QED BY <1>2, <1>3, <1>4 DEF Inv

\* The invariant holds in every state of the walks and the calls.
LEMMA Inductive == Spec => []Inv
<1>1. Inv /\ [Next]_vars => Inv'
  <2> SUFFICES ASSUME Inv, [Next]_vars PROVE Inv'
    OBVIOUS
  <2>1. CASE UNCHANGED vars
    BY <2>1 DEF vars, Inv, TypeOK, RunInv, JsonIsNewest, PastIsAnswered, StopIsLast, StopSkips, FileInv,
       NoAnswerAhead, AppliedIsTheFile, WritersOwn, CallInv, ReadWasSo, Reading, ReportedIsOver, KnownIsBefore
  <2>2. CASE OpenWalk \/ Run \/ EndEarly \/ RunGone
    BY <2>2, OpenWalkKeeps, BeginKeeps, PauseAfterKeeps, TakeAnswerKeeps, EndKeeps, RunGoneKeeps DEF Run
  <2>3. CASE \E c \in Callers : Call(c) \/ Proceed(c) \/ DieWriting(c)
    BY <2>3, CallKeeps, ReadJsonKeeps, LookKeeps, ReturnKeeps, AgainKeeps, DecideWriteKeeps,
       CreateAnswerKeeps, FillAnswerKeeps DEF Proceed
  <2> QED BY <2>1, <2>2, <2>3 DEF Next
<1> QED BY <1>1, InvInit, PTL DEF Spec

\* No answer is in place before its own walk showed its pause (walk-files.ts,
\* writeAnswer, after stepDecision).
THEOREM NotAhead == Spec => []NoAnswerAhead
<1>1. Inv => NoAnswerAhead
  BY DEF Inv, FileInv
<1> QED BY <1>1, Inductive, PTL

\* The answer a run took is the one in the file for good: it is created
\* exclusively, and written by the one call that created it.
THEOREM AppliedStays == Spec => []AppliedIsTheFile
<1>1. Inv => AppliedIsTheFile
  BY DEF Inv, FileInv
<1> QED BY <1>1, Inductive, PTL

\* No pause follows the one a stop answered (walk.ts, advanceWalk).
THEOREM StopEnds == Spec => []StopIsLast
<1>1. Inv => StopIsLast
  BY DEF Inv, RunInv
<1> QED BY <1>1, Inductive, PTL

\* A call that is told the walk went on past its pause gave the answer the
\* run took (stepDecision reads walk.json before the answers).
THEOREM ReportsApplied == Spec => ReportMeansApplied
<1> DEFINE Said(c) ==
      Reports(c) /\ call[c].kind = "answer"
        /\ read[c].state = "paused" /\ read[c].pause > call[c].pause
          => read[c].walk = call[c].walk /\ applied[call[c].walk][call[c].pause] = call[c].answer
<1>1. Inv => \A c \in Callers : Said(c)
  <2> SUFFICES ASSUME Inv, NEW c \in Callers, at[c] = "decide", Decision(c) = "report",
                      call[c].kind = "answer", read[c].state = "paused", read[c].pause > call[c].pause
               PROVE  read[c].walk = call[c].walk /\ applied[call[c].walk][call[c].pause] = call[c].answer
    BY DEF Reports
  <2>1. /\ call[c].walk \in Walks /\ call[c].pause \in Pauses /\ call[c].answer \in Answers
        /\ read[c].walk \in 0..MaxWalk /\ read[c].pause \in 0..Steps
    BY DEF Inv, TypeOK, Calls, WalkStates
  <2>2. read[c].walk = call[c].walk /\ answers[call[c].walk][call[c].pause] = call[c].answer
    BY <2>1 DEF Decision, DecideAnswer
  <2>3. call[c].pause < reached[call[c].walk]
    <3>1. read[c].walk \in Walks /\ reached[read[c].walk] \in 0..Steps
      BY <2>1, <2>2 DEF Inv, TypeOK
    <3>2. read[c].walk # 0 => read[c].pause <= reached[read[c].walk]
      BY DEF Inv, CallInv, ReadWasSo, Reading
    <3>3. read[c].pause <= reached[call[c].walk]
      BY <3>1, <3>2, <2>2
    <3> QED BY <2>1, <2>2, <3>1, <3>3
  <2>4. applied[call[c].walk][call[c].pause] # "none"
    BY <2>1, <2>3 DEF Inv, RunInv, PastIsAnswered
  <2> QED BY <2>1, <2>2, <2>4 DEF Inv, FileInv, AppliedIsTheFile
<1>2. Inv /\ [Next]_vars =>
        [\A c \in Callers :
           (Reports(c) /\ call[c].kind = "answer"
              /\ read[c].state = "paused" /\ read[c].pause > call[c].pause)
             => /\ read[c].walk = call[c].walk
                /\ applied[call[c].walk][call[c].pause] = call[c].answer]_vars
  BY <1>1
<1> QED BY <1>2, Inductive, PTL DEF Spec, ReportMeansApplied

\* A wait that names no walk reports none whose end was reported before it
\* started (callTarget).
THEOREM EndsOnce == Spec => EndReportedOnce
<1> DEFINE Fresh(c) ==
      Reports(c) /\ call[c].kind = "wait" /\ call[c].walk = 0 /\ Over(read[c])
        => read[c].walk \notin known[c]
<1>1. Inv => \A c \in Callers : Fresh(c)
  <2> SUFFICES ASSUME Inv, NEW c \in Callers, at[c] = "decide", Decision(c) = "report",
                      call[c].kind = "wait", call[c].walk = 0, read[c].walk \in known[c]
               PROVE  FALSE
    BY DEF Reports
  <2>1. read[c].walk < target[c]
    BY DEF Inv, CallInv, KnownIsBefore
  <2>2. ~(read[c].walk < target[c])
    BY DEF Decision, DecideWait
  <2> QED BY <2>1, <2>2
<1>2. Inv /\ [Next]_vars => [\A c \in Callers : Fresh(c)]_vars
  BY <1>1
<1> QED BY <1>2, Inductive, PTL DEF Spec, EndReportedOnce
=============================================================================

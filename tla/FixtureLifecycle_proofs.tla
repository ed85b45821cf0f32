---------------------- MODULE FixtureLifecycle_proofs -----------------------
(***************************************************************************)
(* What holds of fixtures for any graph of them, any scenarios and any     *)
(* moment of the signals.                                                  *)
(***************************************************************************)
EXTENDS FixtureLifecycle, TLAPS

Outcomes == {"failed", "passed"}
Instances == [name : Fixtures, scope : Scopes, deps : SUBSET Nat,
              status : Statuses, told : {"nothing", "failed", "passed"}]
Teardowns == [at : {"none", "running", "done"}, left : Seq(Nat)]
Busy == {"resolve", "setup", "over", "teardown"}
\* The statuses of an instance that called use() in time.
Suspended == {"up", "tearing", "ended"}

\* The types, with what TypeOK says nothing about.
Shape ==
  /\ built \in Seq(Instances)
  /\ cache \in [Scopes -> Seq(Nat)] /\ teardown \in [Scopes -> Teardowns]
  /\ at \in Busy \cup {"between", "closing"}
  /\ scenario \in Scopes /\ (scenario > 0 => step \in DOMAIN Asks[scenario])
  /\ DOMAIN have \subseteq Fixtures /\ failed \in BOOLEAN /\ allPassed \in BOOLEAN
  /\ outcome \in [Scopes -> Outcomes]
  /\ signals \in 0..MaxSignals
  /\ handler \in [at : {"idle", "scenario", "process"}, scope : Scopes]
  /\ upAtSignal \subseteq DOMAIN built
  /\ exit \in {"none", "returned", "signalled"}

\* A scope's cache: its own instances, in build order.
KeptIn(s) ==
  /\ \A p \in DOMAIN cache[s] : /\ cache[s][p] \in DOMAIN built
                                /\ built[cache[s][p]].scope = s
                                /\ built[cache[s][p]].status \in Suspended
  /\ \A p, q \in DOMAIN cache[s] : p < q => cache[s][p] < cache[s][q]
Kept == \A s \in Scopes : KeptIn(s)

\* What a list of instances to tear down must be: latest first.
Leavable(s, left) ==
  /\ \A p \in DOMAIN left : /\ left[p] \in DOMAIN built
                            /\ built[left[p]].scope = s
                            /\ built[left[p]].status \in Suspended
  /\ \A p, q \in DOMAIN left : p < q => left[q] < left[p]
Leaving ==
  \A s \in Scopes :
    /\ teardown[s].at = "running" <=> teardown[s].left # << >>
    /\ Leavable(s, teardown[s].left)

\* Until a scope's teardown begins, all it keeps is up.
Standing ==
  \A s \in Scopes : teardown[s].at = "none" =>
    \A p \in DOMAIN cache[s] : built[cache[s][p]].status = "up"

\* An instance is built from earlier ones, of its own scope or the process.
Based ==
  \A i \in DOMAIN built :
    /\ built[i].scope = 0 <=> built[i].name \in ProcessWide
    /\ built[i].scope <= scenario
    /\ \A d \in built[i].deps : /\ d \in DOMAIN built /\ d < i
                                /\ built[d].scope \in {0, built[i].scope}

\* Only the latest instance is ever set up, and only while the run waits.
Setups ==
  /\ \A i \in DOMAIN built : built[i].status = "setup" => at = "setup" /\ i = Len(built)
  /\ at = "setup" => /\ built # << >> /\ built[Len(built)].status = "setup"
                     /\ built[Len(built)].scope \in {0, scenario}

\* Where the run is says which teardowns have begun, until a signal comes.
Places ==
  /\ at \in Busy => scenario > 0
  /\ at = "closing" => scenario = Len(Asks)
  /\ at = "teardown" => teardown[scenario].at # "none"
  /\ at = "closing" => teardown[0].at # "none"
  /\ signals = 0 =>
       /\ at # "closing" => teardown[0].at = "none"
       /\ \A k \in Scopes : /\ k > scenario => teardown[k].at = "none"
                            /\ 0 < k /\ k < scenario => teardown[k].at = "done"
       /\ at \in {"resolve", "setup", "over"} => teardown[scenario].at = "none"
       /\ at \notin Busy /\ scenario > 0 => teardown[scenario].at = "done"

\* The fixtures a step has are those it asked for.
Having ==
  at \in {"resolve", "setup"} =>
    \A g \in DOMAIN have : /\ have[g] \in DOMAIN built
                           /\ built[have[g]].name = g
                           /\ built[have[g]].scope \in {0, scenario}
                           /\ signals = 0 => built[have[g]].status = "up"

\* DependencyOutlives, from the moment an instance is started.
Supported ==
  signals = 0 => \A i \in DOMAIN built : built[i].status \in {"setup", "up"} =>
                   \A d \in built[i].deps : built[d].status = "up"

\* What is up, or was when the signal came, is on somebody's list.
Held ==
  \A i \in DOMAIN built :
    built[i].status = "up" /\ (signals = 0 \/ i \in upAtSignal) =>
      LET s == built[i].scope IN
        /\ teardown[s].at # "done"
        /\ teardown[s].at = "none" => \E p \in DOMAIN cache[s] : cache[s][p] = i
        /\ teardown[s].at = "running" =>
             \E p \in DOMAIN teardown[s].left : p > 1 /\ teardown[s].left[p] = i

\* What was up when the signal came is in the scopes the handler waits for.
Marked ==
  /\ \A i \in upAtSignal : built[i].status \in Suspended
  /\ handler.at = "idle" <=> signals = 0
  /\ signals > 0 =>
       /\ \A i \in upAtSignal : built[i].status = "up" => built[i].scope \in {0, handler.scope}
       /\ handler.at = "process" => handler.scope = 0 \/ teardown[handler.scope].at = "done"

\* "passed" is an outcome that was settled.
Settled ==
  /\ outcome[0] = "passed" => at = "closing" /\ allPassed
  /\ \A k \in Scopes : k > scenario => outcome[k] = "failed"
  /\ at \in {"resolve", "setup", "over"} => outcome[scenario] = "failed"

\* A teardown that tells "passed" is one of a scope that ended well.
Telling ==
  \A s \in Scopes : teardown[s].at = "running" =>
    LET told == built[teardown[s].left[1]].told IN
      /\ told # "nothing"
      /\ told = "passed" => IF s = 0 THEN at = "closing" /\ allPassed
                            ELSE at = "teardown" /\ scenario = s /\ ~failed

\* The two ways out.
Exits ==
  /\ exit = "returned" /\ signals = 0 => at = "closing" /\ teardown[0].at = "done"
  /\ exit = "signalled" /\ signals = 1 => handler.at = "process" /\ teardown[0].at = "done"

FixtureInv ==
  /\ Shape /\ Kept /\ Leaving /\ Standing /\ Based /\ Setups /\ Places
  /\ Having /\ Supported /\ Held /\ Marked /\ Settled /\ Telling /\ Exits

-----------------------------------------------------------------------------
(* Lemmas about the operators.                                             *)

LEMMA ScopeFacts ==
  /\ Len(Asks) \in Nat /\ Scopes = 0..Len(Asks) /\ 0 \in Scopes
  /\ \A k \in Scopes : k \in Nat /\ (k > 0 => Len(Asks[k]) \in Nat /\ Len(Asks[k]) > 0 /\ DOMAIN Asks[k] = 1..Len(Asks[k]))
  /\ \A k \in Scopes : k < Len(Asks) => k + 1 \in Scopes /\ 1 \in DOMAIN Asks[k + 1]
BY FixtureConstants DEF Scopes

LEMMA NoneHad == DOMAIN << >> = {}
OBVIOUS

\* What resuming the first of a list of instances does to each variable.
Resumed(s, left, told) ==
  /\ built' \in Seq(Instances) /\ Len(built') = Len(built) /\ DOMAIN built' = DOMAIN built
  /\ \A i \in DOMAIN built : /\ built'[i].name = built[i].name
                             /\ built'[i].scope = built[i].scope
                             /\ built'[i].deps = built[i].deps
                             /\ (left = << >> \/ i # left[1]) => built'[i] = built[i]
  /\ left # << >> => /\ left[1] \in DOMAIN built
                     /\ built'[left[1]].status = "tearing" /\ built'[left[1]].told = told
  /\ cache' \in [Scopes -> Seq(Nat)]
  /\ \A k \in Scopes \ {s} : cache'[k] = cache[k] /\ teardown'[k] = teardown[k]
  /\ cache'[s] = IF left = << >> THEN << >> ELSE cache[s]
  /\ teardown' \in [Scopes -> Teardowns]
  /\ teardown'[s] = [at |-> IF left = << >> THEN "done" ELSE "running", left |-> left]

LEMMA ResumeFrame ==
  ASSUME Shape, NEW s \in Scopes, NEW left \in Seq(Nat), NEW told \in Outcomes,
         Leavable(s, left), Resume(s, left, told)
  PROVE  Resumed(s, left, told)
<1> USE DEF Shape
<1>1. /\ teardown' \in [Scopes -> Teardowns]
      /\ teardown'[s] = [at |-> IF left = << >> THEN "done" ELSE "running", left |-> left]
      /\ \A k \in Scopes \ {s} : teardown'[k] = teardown[k]
  BY DEF Resume, Teardowns
<1>2. CASE left = << >>
  BY <1>1, <1>2 DEF Resume, Resumed, Teardowns
<1>3. CASE left # << >>
  <2>1. left[1] \in DOMAIN built /\ Head(left) = left[1]
    BY <1>3 DEF Leavable
  <2>2. /\ cache' = cache
        /\ built' = [built EXCEPT ![left[1]].status = "tearing", ![left[1]].told = told]
    BY <1>3, <2>1 DEF Resume
  <2>3. built[left[1]] \in Instances
    BY <2>1
  <2>4. built' = [built EXCEPT ![left[1]] = [built[left[1]] EXCEPT !.status = "tearing", !.told = told]]
    BY <2>1, <2>2
  <2>5. [built[left[1]] EXCEPT !.status = "tearing", !.told = told] \in Instances
    BY <2>3 DEF Instances, Statuses, Outcomes
  <2>6. /\ built' \in Seq(Instances) /\ Len(built') = Len(built) /\ DOMAIN built' = DOMAIN built
        /\ \A i \in DOMAIN built : i # left[1] => built'[i] = built[i]
        /\ built'[left[1]] = [built[left[1]] EXCEPT !.status = "tearing", !.told = told]
    BY <2>1, <2>4, <2>5
  <2>7. /\ built'[left[1]].name = built[left[1]].name
        /\ built'[left[1]].scope = built[left[1]].scope
        /\ built'[left[1]].deps = built[left[1]].deps
        /\ built'[left[1]].status = "tearing" /\ built'[left[1]].told = told
    BY <2>3, <2>6 DEF Instances
  <2> QED BY <1>1, <1>3, <2>1, <2>2, <2>6, <2>7 DEF Resumed
<1> QED BY <1>2, <1>3

\* The list a teardown starts from.
LEMMA ReverseLeavable ==
  ASSUME Shape, Kept, NEW s \in Scopes
  PROVE  /\ Reverse(cache[s]) \in Seq(Nat) /\ Leavable(s, Reverse(cache[s]))
         /\ \A p \in DOMAIN cache[s] : \E q \in DOMAIN Reverse(cache[s]) : Reverse(cache[s])[q] = cache[s][p]
<1> DEFINE kept == cache[s]
<1>1. /\ kept \in Seq(Nat) /\ KeptIn(s)
  BY DEF Shape, Kept
<1>2. Len(kept) \in Nat /\ DOMAIN kept = 1..Len(kept)
  BY <1>1
<1>3. Reverse(kept) = [i \in 1..Len(kept) |-> kept[(Len(kept) - i) + 1]]
  BY DEF Reverse
<1>4. \A i \in 1..Len(kept) : (Len(kept) - i) + 1 \in 1..Len(kept)
  BY <1>2
<1>5. Reverse(kept) \in Seq(Nat) /\ DOMAIN Reverse(kept) = 1..Len(kept)
  BY <1>1, <1>2, <1>3, <1>4
<1>6. \A p \in DOMAIN kept : (Len(kept) - p) + 1 \in 1..Len(kept) /\ (Len(kept) - ((Len(kept) - p) + 1)) + 1 = p
  BY <1>2
<1>7. \A p \in DOMAIN kept : \E q \in DOMAIN Reverse(kept) : Reverse(kept)[q] = kept[p]
  BY <1>3, <1>5, <1>6
<1>8. \A p, q \in 1..Len(kept) : p < q => (Len(kept) - q) + 1 < (Len(kept) - p) + 1
  BY <1>2
<1>9. ASSUME NEW p \in DOMAIN Reverse(kept)
      PROVE  /\ Reverse(kept)[p] \in DOMAIN built
             /\ built[Reverse(kept)[p]].scope = s
             /\ built[Reverse(kept)[p]].status \in Suspended
  <2>1. PICK q \in DOMAIN kept : Reverse(kept)[p] = kept[q]
    BY <1>2, <1>3, <1>4, <1>5
  <2> QED BY <2>1, <1>1 DEF KeptIn
<1>10. ASSUME NEW p \in DOMAIN Reverse(kept), NEW q \in DOMAIN Reverse(kept), p < q
       PROVE  Reverse(kept)[q] < Reverse(kept)[p]
  <2>1. /\ Reverse(kept)[p] = kept[(Len(kept) - p) + 1]
        /\ Reverse(kept)[q] = kept[(Len(kept) - q) + 1]
    BY <1>3, <1>5
  <2>2. /\ (Len(kept) - p) + 1 \in DOMAIN kept /\ (Len(kept) - q) + 1 \in DOMAIN kept
        /\ (Len(kept) - q) + 1 < (Len(kept) - p) + 1
    BY <1>2, <1>4, <1>5, <1>8, <1>10
  <2>3. \A m, n \in DOMAIN kept : m < n => kept[m] < kept[n]
    BY <1>1 DEF KeptIn
  <2> HIDE DEF kept
  <2> QED BY <2>1, <2>2, <2>3
<1>11. Leavable(s, Reverse(kept))
  BY <1>9, <1>10 DEF Leavable
<1> QED BY <1>5, <1>7, <1>11

\* What any resumption of a list keeps: the caches, the lists and the instances.
LEMMA ResumeKeeps ==
  ASSUME FixtureInv, NEW s \in Scopes, NEW left \in Seq(Nat), NEW told \in Outcomes,
         Leavable(s, left), Resume(s, left, told), scenario' = scenario, at' \in {at, "teardown", "closing"},
         at = "setup" => at' = "setup"
  PROVE  Kept' /\ Leaving' /\ Standing' /\ Based' /\ Setups'
<1> USE DEF FixtureInv
<1>1. Resumed(s, left, told)
  BY ResumeFrame
<1>2. \A i \in DOMAIN built : built[i].status \in Suspended => built'[i].status \in Suspended
  BY <1>1 DEF Resumed, Suspended
<1>3. Kept'
  <2>1. ASSUME NEW k \in Scopes PROVE KeptIn(k)'
    <3>1. KeptIn(k) /\ (cache'[k] = cache[k] \/ cache'[k] = << >>)
      BY <1>1 DEF Resumed, Kept
    <3>2. CASE cache'[k] = << >>
      BY <3>2 DEF KeptIn
    <3>3. CASE cache'[k] = cache[k]
      BY <1>1, <1>2, <3>1, <3>3 DEF Resumed, KeptIn
    <3> QED BY <3>1, <3>2, <3>3
  <2> QED BY <2>1 DEF Kept
<1>4. Leaving'
  <2>1. ASSUME NEW k \in Scopes, NEW list, Leavable(k, list) PROVE Leavable(k, list)'
    BY <1>1, <1>2, <2>1 DEF Resumed, Leavable
  <2>2. /\ teardown'[s].at = "running" <=> teardown'[s].left # << >>
        /\ Leavable(s, teardown'[s].left)
    BY <1>1 DEF Resumed
  <2>3. ASSUME NEW k \in Scopes
        PROVE  /\ teardown'[k].at = "running" <=> teardown'[k].left # << >>
               /\ Leavable(k, teardown'[k].left)
    BY <1>1, <2>2 DEF Resumed, Leaving
  <2>4. ASSUME NEW k \in Scopes PROVE Leavable(k, teardown[k].left)'
    <3>1. Leavable(k, teardown'[k].left)
      BY <2>3
    <3> QED BY <1>1, <1>2, <3>1 DEF Resumed, Leavable
  <2> QED BY <2>3, <2>4 DEF Leaving
<1>5. Standing'
  <2>1. ASSUME NEW k \in Scopes, teardown'[k].at = "none", NEW p \in DOMAIN cache'[k]
        PROVE  built'[cache'[k][p]].status = "up"
    <3>1. k # s /\ cache'[k] = cache[k] /\ teardown[k].at = "none"
      BY <1>1, <2>1 DEF Resumed
    <3>2. /\ cache[k][p] \in DOMAIN built /\ built[cache[k][p]].scope = k
          /\ built[cache[k][p]].status = "up"
      BY <2>1, <3>1 DEF Standing, Kept, KeptIn
    <3>3. left # << >> => built[left[1]].scope = s
      BY DEF Leavable
    <3>4. built'[cache[k][p]] = built[cache[k][p]]
      BY <1>1, <3>1, <3>2, <3>3 DEF Resumed
    <3> QED BY <3>1, <3>2, <3>4
  <2> QED BY <2>1 DEF Standing
<1>6. Based'
  BY <1>1 DEF Resumed, Based
<1>7. Setups'
  <2>1. left # << >> => built[left[1]].status \in Suspended
    BY DEF Leavable
  <2>2. \A i \in DOMAIN built : (built'[i].status = "setup") = (built[i].status = "setup")
    BY <1>1, <2>1 DEF Resumed, Suspended
  <2>3. at' = "setup" => at = "setup"
    OBVIOUS
  <2>4. built # << >> <=> Len(built) > 0
    BY DEF Shape
  <2>5. Len(built) > 0 => Len(built) \in DOMAIN built
    BY DEF Shape
  <2>6. built' # << >> <=> Len(built') > 0
    BY <1>1 DEF Resumed
  <2> QED BY <1>1, <2>2, <2>3, <2>4, <2>5, <2>6 DEF Resumed, Setups
<1> QED BY <1>3, <1>4, <1>5, <1>6, <1>7

\* What is up after a resumption was up before, and is not what was resumed.
LEMMA ResumeUp ==
  ASSUME FixtureInv, NEW s \in Scopes, NEW left \in Seq(Nat), NEW told \in Outcomes,
         Leavable(s, left), Resume(s, left, told)
  PROVE  \A i \in DOMAIN built' :
           built'[i].status = "up" =>
             /\ i \in DOMAIN built /\ built[i].status = "up" /\ built'[i] = built[i]
             /\ left # << >> => i # left[1]
BY ResumeFrame DEF FixtureInv, Resumed

\* Whoever is on the list resumed is still held.
LEMMA ResumeHolds ==
  ASSUME FixtureInv, NEW s \in Scopes, NEW left \in Seq(Nat), NEW told \in Outcomes,
         Leavable(s, left), Resume(s, left, told),
         \A i \in DOMAIN built :
           built[i].status = "up" /\ (signals = 0 \/ i \in upAtSignal) /\ built[i].scope = s =>
             \E p \in DOMAIN left : left[p] = i,
         \A i \in DOMAIN built :
           built[i].status = "up" /\ (signals' = 0 \/ i \in upAtSignal') => signals = 0 \/ i \in upAtSignal
  PROVE  Held'
<1>1. SUFFICES ASSUME NEW i \in DOMAIN built', built'[i].status = "up",
                      signals' = 0 \/ i \in upAtSignal'
               PROVE  LET k == built'[i].scope IN
                        /\ teardown'[k].at # "done"
                        /\ teardown'[k].at = "none" => \E p \in DOMAIN cache'[k] : cache'[k][p] = i
                        /\ teardown'[k].at = "running" =>
                             \E p \in DOMAIN teardown'[k].left : p > 1 /\ teardown'[k].left[p] = i
  BY DEF Held
<1> DEFINE k == built[i].scope
<1>0. Resumed(s, left, told)
  BY ResumeFrame DEF FixtureInv
<1>2. /\ i \in DOMAIN built /\ built[i].status = "up" /\ built'[i] = built[i]
      /\ left # << >> => i # left[1]
  BY <1>1, ResumeUp
<1>3. signals = 0 \/ i \in upAtSignal
  BY <1>1, <1>2
<1>4. k \in Scopes
  <2>1. built[i] \in Instances
    BY <1>2 DEF FixtureInv, Shape
  <2> QED BY <2>1 DEF Instances
<1>5. CASE k = s
  <2>1. PICK p \in DOMAIN left : left[p] = i
    BY <1>2, <1>3, <1>5
  <2>2. p > 1 /\ left # << >>
    BY <1>2, <2>1
  <2>3. teardown'[s].at = "running" /\ teardown'[s].left = left
    BY <2>2, <1>0 DEF Resumed
  <2> QED BY <1>2, <1>5, <2>1, <2>2, <2>3
<1>6. CASE k # s
  <2>1. cache'[k] = cache[k] /\ teardown'[k] = teardown[k]
    BY <1>4, <1>6, <1>0 DEF Resumed
  <2> QED BY <1>2, <1>3, <2>1 DEF FixtureInv, Held
<1> QED BY <1>5, <1>6

\* With no signal about, a list is resumed only when nothing up needs its first.
LEMMA ResumeSupports ==
  ASSUME FixtureInv, NEW s \in Scopes, NEW left \in Seq(Nat), NEW told \in Outcomes,
         Leavable(s, left), Resume(s, left, told), signals = 0, at # "setup",
         \A i \in DOMAIN built :
           built[i].status = "up" /\ built[i].scope = s => \E p \in DOMAIN left : left[p] = i,
         s = 0 => \A k \in Scopes \ {0} : k <= scenario => teardown[k].at = "done"
  PROVE  Supported'
<1>1. SUFFICES ASSUME NEW i \in DOMAIN built', built'[i].status \in {"setup", "up"},
                      NEW d \in built'[i].deps
               PROVE  built'[d].status = "up"
  BY DEF Supported
<1>2. Resumed(s, left, told)
  BY ResumeFrame DEF FixtureInv
<1>3. i \in DOMAIN built /\ d \in built[i].deps
  BY <1>1, <1>2 DEF Resumed
<1>4. built[i].status # "setup"
  BY <1>3 DEF FixtureInv, Setups
<1>5. built'[i] = built[i] /\ built[i].status = "up" /\ (left # << >> => i # left[1])
  <2>1. left # << >> /\ i = left[1] => built'[i].status = "tearing"
    BY <1>2 DEF Resumed
  <2> QED BY <1>1, <1>2, <1>3, <1>4, <2>1 DEF Resumed
<1>6. built[d].status = "up" /\ d \in DOMAIN built /\ d < i
      /\ built[d].scope \in {0, built[i].scope} /\ built[i].scope <= scenario
  BY <1>3, <1>5 DEF FixtureInv, Supported, Based
<1>7. built[i].scope \in Scopes /\ i \in Nat /\ d \in Nat
  <2>1. built[i] \in Instances /\ DOMAIN built \subseteq Nat
    BY <1>3 DEF FixtureInv, Shape
  <2> QED BY <1>3, <1>6, <2>1 DEF Instances
<1>8. SUFFICES ASSUME left # << >>, d = left[1] PROVE FALSE
  BY <1>2, <1>6 DEF Resumed
<1>9. built[d].scope = s
  BY <1>8 DEF Leavable
<1>10. CASE built[i].scope = s
  <2>1. PICK p \in DOMAIN left : left[p] = i
    BY <1>3, <1>5, <1>10
  <2>2. p > 1 /\ 1 \in DOMAIN left
    BY <1>5, <1>8, <2>1
  <2>3. left[p] < left[1]
    BY <2>1, <2>2 DEF Leavable
  <2> QED BY <1>6, <1>7, <1>8, <2>1, <2>3
<1>11. CASE built[i].scope # s
  <2>1. s = 0 /\ built[i].scope # 0
    BY <1>6, <1>9, <1>11
  <2>2. teardown[built[i].scope].at = "done"
    BY <1>6, <1>7, <2>1
  <2>3. teardown[built[i].scope].at # "done"
    BY <1>3, <1>5 DEF FixtureInv, Held
  <2> QED BY <2>2, <2>3
<1> QED BY <1>10, <1>11

-----------------------------------------------------------------------------
(* The steps that tear down: a teardown asked for, or one that goes on.    *)

\* What they have in common.
Tears(s, told) ==
  /\ built' \in Seq(Instances) /\ Len(built') = Len(built) /\ DOMAIN built' = DOMAIN built
  /\ \A i \in DOMAIN built : /\ built'[i].name = built[i].name
                             /\ built'[i].scope = built[i].scope
                             /\ built'[i].deps = built[i].deps
                             /\ built'[i].status = "up" => built[i].status = "up"
                             /\ built[i].status \in Suspended => built'[i].status \in Suspended
  /\ cache' \in [Scopes -> Seq(Nat)] /\ teardown' \in [Scopes -> Teardowns]
  /\ \A k \in Scopes \ {s} : teardown'[k] = teardown[k]
  /\ teardown'[s].at # "none"
  /\ teardown[s].at = "done" => teardown'[s].at = "done"
  /\ \A k \in Scopes : teardown'[k].at = "running" =>
       \/ k = s /\ teardown[s].at = "none" /\ built'[teardown'[k].left[1]].told = told
       \/ /\ teardown[k].at = "running"
          /\ built'[teardown'[k].left[1]].told = built[teardown[k].left[1]].told

\* The list is resumed: at its beginning or from what is left of it.
LEMMA ResumeTears ==
  ASSUME FixtureInv, NEW s \in Scopes, NEW left \in Seq(Nat), NEW told \in Outcomes,
         Leavable(s, left), Resume(s, left, told),
         \/ teardown[s].at = "none"
         \/ teardown[s].at = "running" /\ told = built[teardown[s].left[1]].told
  PROVE  Tears(s, told)
<1>1. Resumed(s, left, told)
  BY ResumeFrame DEF FixtureInv
<1>2. \A i \in DOMAIN built : /\ built'[i].status = "up" => built[i].status = "up"
                              /\ built[i].status \in Suspended => built'[i].status \in Suspended
  BY <1>1 DEF Resumed, Suspended
<1>3. ASSUME NEW k \in Scopes, teardown'[k].at = "running"
      PROVE  \/ k = s /\ teardown[s].at = "none" /\ built'[teardown'[k].left[1]].told = told
             \/ /\ teardown[k].at = "running"
                /\ built'[teardown'[k].left[1]].told = built[teardown[k].left[1]].told
  <2>1. CASE k = s
    BY <1>1, <1>3, <2>1 DEF Resumed
  <2>2. CASE k # s
    <3>1. teardown'[k] = teardown[k]
      BY <1>1, <2>2 DEF Resumed
    <3>2. teardown[k].left # << >> /\ teardown[k].left \in Seq(Nat) /\ Leavable(k, teardown[k].left)
      BY <1>3, <3>1 DEF FixtureInv, Leaving, Shape, Teardowns
    <3>3. 1 \in DOMAIN teardown[k].left
      BY <3>2
    <3>4. teardown[k].left[1] \in DOMAIN built /\ built[teardown[k].left[1]].scope = k
      BY <3>2, <3>3 DEF Leavable
    <3>5. left # << >> => built[left[1]].scope = s
      BY DEF Leavable
    <3>6. built'[teardown[k].left[1]] = built[teardown[k].left[1]]
      BY <1>1, <2>2, <3>4, <3>5 DEF Resumed
    <3> QED BY <1>3, <3>1, <3>6
  <2> QED BY <2>1, <2>2
<1>4. teardown'[s].at # "none" /\ teardown[s].at # "done"
  BY <1>1 DEF Resumed
<1> QED BY <1>1, <1>2, <1>3, <1>4 DEF Resumed, Tears

\* A teardown asked for: it begins, or it had begun and nothing changes.
LEMMA TeardownEffect ==
  ASSUME FixtureInv, NEW s \in Scopes, NEW told \in Outcomes, Teardown(s, told),
         scenario' = scenario, at' \in {at, "teardown", "closing"}, at = "setup" => at' = "setup",
         \A i \in DOMAIN built :
           built[i].status = "up" /\ (signals' = 0 \/ i \in upAtSignal') => signals = 0 \/ i \in upAtSignal
  PROVE  /\ Tears(s, told) /\ Kept' /\ Leaving' /\ Standing' /\ Based' /\ Setups' /\ Held'
         /\ (/\ signals = 0 /\ at # "setup"
             /\ s = 0 => \A k \in Scopes \ {0} : k <= scenario => teardown[k].at = "done") => Supported'
<1>1. CASE teardown[s].at = "none"
  <2> DEFINE left == Reverse(cache[s])
  <2>1. Resume(s, left, told)
    BY <1>1 DEF Teardown
  <2>2. /\ left \in Seq(Nat) /\ Leavable(s, left)
        /\ \A p \in DOMAIN cache[s] : \E q \in DOMAIN left : left[q] = cache[s][p]
    BY ReverseLeavable DEF FixtureInv
  <2> HIDE DEF left
  <2>3. \A i \in DOMAIN built :
          built[i].status = "up" /\ (signals = 0 \/ i \in upAtSignal) /\ built[i].scope = s =>
            \E p \in DOMAIN left : left[p] = i
    <3>1. SUFFICES ASSUME NEW i \in DOMAIN built, built[i].status = "up",
                          signals = 0 \/ i \in upAtSignal, built[i].scope = s
                   PROVE  \E p \in DOMAIN left : left[p] = i
      OBVIOUS
    <3>2. \E p \in DOMAIN cache[s] : cache[s][p] = i
      BY <1>1, <3>1 DEF FixtureInv, Held
    <3> QED BY <2>2, <3>2
  <2>4. Tears(s, told)
    BY <1>1, <2>1, <2>2, ResumeTears
  <2>5. Kept' /\ Leaving' /\ Standing' /\ Based' /\ Setups'
    BY <2>1, <2>2, ResumeKeeps
  <2>6. Held'
    BY <2>1, <2>2, <2>3, ResumeHolds
  <2>7. ASSUME signals = 0, at # "setup",
               s = 0 => \A k \in Scopes \ {0} : k <= scenario => teardown[k].at = "done"
        PROVE  Supported'
    BY <2>1, <2>2, <2>3, <2>7, ResumeSupports
  <2> QED BY <2>4, <2>5, <2>6, <2>7
<1>2. CASE teardown[s].at # "none"
  <2>1. UNCHANGED <<built, cache, teardown>>
    BY <1>2 DEF Teardown
  <2>2. built \in Seq(Instances) /\ cache \in [Scopes -> Seq(Nat)] /\ teardown \in [Scopes -> Teardowns]
    BY DEF FixtureInv, Shape
  <2>3. Tears(s, told)
    BY <1>2, <2>1, <2>2 DEF Tears
  <2>4. Kept' /\ Leaving' /\ Standing'
    BY <2>1 DEF FixtureInv, Kept, KeptIn, Leaving, Leavable, Standing
  <2>5. Based'
    BY <2>1 DEF FixtureInv, Based
  <2>6. Setups'
    BY <2>1 DEF FixtureInv, Setups
  <2>7. Held'
    BY <2>1 DEF FixtureInv, Held
  <2>8. signals = 0 => Supported'
    BY <2>1 DEF FixtureInv, Supported
  <2> QED BY <2>3, <2>4, <2>5, <2>6, <2>7, <2>8
<1> QED BY <1>1, <1>2

\* A teardown that goes on, because what it awaited ended or took too long.
LEMMA AwaitingEffect ==
  ASSUME FixtureInv, NEW s \in Scopes, Awaiting(s)
  PROVE  /\ \E told \in Outcomes : Tears(s, told) /\ teardown[s].at = "running"
         /\ Kept' /\ Leaving' /\ Standing' /\ Based' /\ Setups' /\ Held' /\ Supported'
<1> DEFINE list == teardown[s].left
           told == built[list[1]].told
<1>1. /\ teardown[s].at = "running" /\ Resume(s, Tail(list), built[Head(list)].told)
      /\ UNCHANGED <<at, scenario, step, have, failed, allPassed, signals, handler, upAtSignal>>
  BY DEF Awaiting, TeardownNext, TeardownTimeout, run
<1>2. list # << >> /\ list \in Seq(Nat) /\ Leavable(s, list)
  BY <1>1 DEF FixtureInv, Leaving, Shape, Teardowns
<1>3. Head(list) = list[1] /\ 1 \in DOMAIN list /\ list[1] \in DOMAIN built
  BY <1>2 DEF Leavable
<1>4. told \in Outcomes
  <2>1. told # "nothing" /\ built[list[1]] \in Instances
    BY <1>1, <1>3 DEF FixtureInv, Telling, Shape
  <2> QED BY <2>1 DEF Instances, Outcomes
<1>5. Tail(list) \in Seq(Nat) /\ \A p \in DOMAIN Tail(list) : p + 1 \in DOMAIN list /\ Tail(list)[p] = list[p + 1]
  BY <1>2
<1>6. \A p \in DOMAIN list : p > 1 => p - 1 \in DOMAIN Tail(list) /\ Tail(list)[p - 1] = list[p]
  <2>1. /\ Len(list) \in Nat /\ DOMAIN list = 1..Len(list)
        /\ Tail(list) \in Seq(Nat) /\ Len(Tail(list)) = Len(list) - 1
    BY <1>2
  <2>2. DOMAIN Tail(list) = 1..(Len(list) - 1)
    BY <2>1
  <2>3. \A p \in DOMAIN list : p > 1 => p - 1 \in DOMAIN Tail(list) /\ (p - 1) + 1 = p
    BY <2>1, <2>2
  <2> QED BY <1>5, <2>3
<1>7. Leavable(s, Tail(list))
  <2>1. ASSUME NEW p \in DOMAIN Tail(list), NEW q \in DOMAIN Tail(list), p < q
        PROVE  Tail(list)[q] < Tail(list)[p]
    <3>1. p + 1 < q + 1
      BY <1>5, <2>1
    <3> QED BY <1>2, <1>5, <3>1 DEF Leavable
  <2> QED BY <1>2, <1>5, <2>1 DEF Leavable
<1>8. Resume(s, Tail(list), told)
  BY <1>1, <1>3
<1>9. \A i \in DOMAIN built :
        built[i].status = "up" /\ (signals = 0 \/ i \in upAtSignal) /\ built[i].scope = s =>
          \E p \in DOMAIN Tail(list) : Tail(list)[p] = i
  <2>1. SUFFICES ASSUME NEW i \in DOMAIN built, built[i].status = "up",
                        signals = 0 \/ i \in upAtSignal, built[i].scope = s
                 PROVE  \E p \in DOMAIN Tail(list) : Tail(list)[p] = i
    OBVIOUS
  <2>2. PICK p \in DOMAIN list : p > 1 /\ list[p] = i
    BY <1>1, <2>1 DEF FixtureInv, Held
  <2> QED BY <1>6, <2>2
<1> HIDE DEF list, told
<1>10. Tears(s, told)
  BY <1>1, <1>4, <1>5, <1>7, <1>8, ResumeTears DEF list, told
<1>11. scenario' = scenario /\ at' \in {at, "teardown", "closing"} /\ (at = "setup" => at' = "setup")
  BY <1>1
<1>12. Kept' /\ Leaving' /\ Standing' /\ Based' /\ Setups'
  BY <1>4, <1>5, <1>7, <1>8, <1>11, ResumeKeeps
<1>13. Held'
  BY <1>1, <1>4, <1>5, <1>7, <1>8, <1>9, ResumeHolds
<1>14. Supported'
  <2>1. CASE signals # 0
    BY <1>1, <2>1 DEF Supported
  <2>2. CASE signals = 0
    <3>1. at # "setup" /\ (s = 0 => at = "closing")
      BY <1>1, <2>2, ScopeFacts DEF FixtureInv, Places, Shape, Setups, Busy
    <3>2. s = 0 => \A k \in Scopes \ {0} : k <= scenario => teardown[k].at = "done"
      <4>1. SUFFICES ASSUME s = 0, NEW k \in Scopes \ {0}, k <= scenario
                     PROVE  teardown[k].at = "done"
        OBVIOUS
      <4>2. k \in Nat /\ k > 0 /\ scenario \in Nat /\ scenario > 0
        BY <4>1, ScopeFacts DEF FixtureInv, Shape
      <4>3. k < scenario => teardown[k].at = "done"
        BY <2>2, <4>2 DEF FixtureInv, Places
      <4>4. teardown[scenario].at = "done"
        BY <2>2, <3>1, <4>1, <4>2 DEF FixtureInv, Places, Busy
      <4>5. k < scenario \/ k = scenario
        BY <4>1, <4>2
      <4> QED BY <4>3, <4>4, <4>5
    <3> QED BY <1>4, <1>5, <1>7, <1>8, <1>9, <2>2, <3>1, <3>2, ResumeSupports
  <2> QED BY <2>1, <2>2
<1> QED BY <1>1, <1>4, <1>10, <1>12, <1>13, <1>14

-----------------------------------------------------------------------------
(* The steps of the run that leave every instance and list alone.          *)

LEMMA ControlKeeps ==
  ASSUME FixtureInv, UNCHANGED <<built, cache, teardown, upAtSignal>>,
         signals' = 0 => signals = 0, scenario' \in {scenario, scenario + 1}
  PROVE  Kept' /\ Leaving' /\ Standing' /\ Based' /\ Held' /\ Supported'
<1>1. Kept' /\ Leaving' /\ Standing'
  BY DEF FixtureInv, Kept, KeptIn, Leaving, Leavable, Standing
<1>2. Based'
  <2>1. \A i \in DOMAIN built : built[i].scope \in Nat
    <3>1. \A i \in DOMAIN built : built[i] \in Instances
      BY DEF FixtureInv, Shape
    <3> QED BY <3>1, ScopeFacts DEF Instances
  <2>2. scenario \in Nat
    BY ScopeFacts DEF FixtureInv, Shape
  <2>3. \A i \in DOMAIN built : built[i].scope <= scenario => built[i].scope <= scenario'
    BY <2>1, <2>2
  <2> QED BY <2>3 DEF FixtureInv, Based
<1>3. Held'
  BY DEF FixtureInv, Held
<1>4. Supported'
  BY DEF FixtureInv, Supported
<1> QED BY <1>1, <1>2, <1>3, <1>4

LEMMA BeginStep == ASSUME FixtureInv, Begin PROVE FixtureInv'
<1> USE DEF FixtureInv, Begin
<1>1. /\ UNCHANGED <<built, cache, teardown, signals, upAtSignal, handler, outcome, allPassed, exit>>
      /\ at = "between" /\ at' = "resolve" /\ scenario' = scenario + 1 /\ step' = 1
      /\ have' = << >> /\ failed' = FALSE
  OBVIOUS
<1>2. /\ scenario \in Nat /\ Len(Asks) \in Nat /\ scenario' \in Scopes /\ scenario' > 0
      /\ 1 \in DOMAIN Asks[scenario']
  BY ScopeFacts DEF Shape
<1>3. Shape'
  <2>1. DOMAIN have' = {}
    BY <1>1, NoneHad
  <2>2. step' \in DOMAIN Asks[scenario']
    BY <1>1, <1>2
  <2> QED BY <1>1, <1>2, <2>1, <2>2 DEF Shape, Busy
<1>4. Kept' /\ Leaving' /\ Standing' /\ Based' /\ Held' /\ Supported'
  BY <1>1, ControlKeeps
<1>5. Setups'
  BY <1>1 DEF Setups
<1>6. Places'
  <2>1. ASSUME signals = 0, NEW k \in Scopes
        PROVE  /\ k > scenario + 1 => teardown[k].at = "none"
               /\ 0 < k /\ k < scenario + 1 => teardown[k].at = "done"
    <3>1. k \in Nat
      BY ScopeFacts
    <3>2. k > scenario + 1 => k > scenario
      BY <1>2, <3>1
    <3>3. 0 < k /\ k < scenario + 1 => k < scenario \/ k = scenario
      BY <1>2, <3>1
    <3> QED BY <1>1, <1>2, <2>1, <3>1, <3>2, <3>3 DEF Places, Busy
  <2>2. signals = 0 => teardown[scenario + 1].at = "none" /\ teardown[0].at = "none"
    BY <1>1, <1>2 DEF Places
  <2> QED BY <1>1, <1>2, <2>1, <2>2 DEF Places, Busy
<1>7. Having'
  BY <1>1 DEF Having
<1>8. Marked'
  BY <1>1 DEF Marked
<1>9. Settled'
  <2>1. \A k \in Scopes : k > scenario + 1 => k > scenario
    BY <1>2, ScopeFacts
  <2> QED BY <1>1, <1>2, <2>1 DEF Settled
<1>10. Telling'
  BY <1>1 DEF Telling
<1>11. Exits'
  BY <1>1 DEF Exits
<1> QED BY <1>3, <1>4, <1>5, <1>6, <1>7, <1>8, <1>9, <1>10, <1>11

LEMMA ReuseStep == ASSUME FixtureInv, NEW f \in Fixtures, Reuse(f) PROVE FixtureInv'
<1> USE DEF FixtureInv, Reuse
<1>1. /\ UNCHANGED <<built, cache, teardown, at, scenario, step, failed, allPassed, signals, upAtSignal, handler, outcome, exit>>
      /\ at = "resolve" /\ f \in Needed
  BY DEF Due
<1>2. PICK i \in Cached(f) : have' = With(f, i)
  OBVIOUS
<1>3. ScopeOf(f) \in Scopes /\ ScopeOf(f) \in {0, scenario}
  BY ScopeFacts DEF ScopeOf, Shape
<1>4. PICK p \in DOMAIN cache[ScopeOf(f)] : cache[ScopeOf(f)][p] = i
  BY <1>2, <1>3 DEF Cached, ToSet
<1>5. /\ i \in DOMAIN built /\ built[i].name = f /\ built[i].scope \in {0, scenario}
      /\ signals = 0 => built[i].status = "up"
  <2>1. i \in DOMAIN built /\ built[i].scope = ScopeOf(f) /\ built[i].name = f
    BY <1>2, <1>3, <1>4 DEF Kept, KeptIn, Cached
  <2>2. signals = 0 => teardown[ScopeOf(f)].at = "none"
    BY <1>1, <1>3 DEF Places
  <2> QED BY <1>3, <1>4, <2>1, <2>2 DEF Standing
<1>6. /\ DOMAIN have' = DOMAIN have \cup {f}
      /\ \A g \in DOMAIN have' : have'[g] = IF g = f THEN i ELSE have[g]
  BY <1>2 DEF With
<1>7. Shape'
  BY <1>1, <1>6 DEF Shape
<1>8. Kept' /\ Leaving' /\ Standing' /\ Based' /\ Held' /\ Supported'
  BY <1>1, ControlKeeps
<1>9. Setups' /\ Places' /\ Marked' /\ Settled' /\ Telling' /\ Exits'
  BY <1>1 DEF Setups, Places, Marked, Settled, Telling, Exits
<1>10. Having'
  <2>1. ASSUME NEW g \in DOMAIN have'
        PROVE  /\ have'[g] \in DOMAIN built /\ built[have'[g]].name = g
               /\ built[have'[g]].scope \in {0, scenario}
               /\ signals = 0 => built[have'[g]].status = "up"
    <3>1. \/ g \in DOMAIN have /\ have'[g] = have[g]
          \/ g = f /\ have'[g] = i
      BY <1>6
    <3> QED BY <1>1, <1>5, <3>1 DEF Having
  <2> QED BY <1>1, <2>1 DEF Having
<1> QED BY <1>7, <1>8, <1>9, <1>10

LEMMA StepPassesStep == ASSUME FixtureInv, StepPasses PROVE FixtureInv'
<1> USE DEF FixtureInv, StepPasses
<1>1. /\ UNCHANGED <<built, cache, teardown, scenario, failed, allPassed, signals, upAtSignal, handler, outcome, exit>>
      /\ at = "resolve" /\ scenario > 0
  BY DEF Places, Busy
<1>2. \/ have' = << >> /\ step' = step + 1 /\ step < Len(Asks[scenario]) /\ at' = at
      \/ at' = "over" /\ UNCHANGED <<have, step>>
  OBVIOUS
<1>3. Shape'
  <2>1. DOMAIN have' \subseteq Fixtures
    BY <1>2, NoneHad DEF Shape
  <2>2. step' \in DOMAIN Asks[scenario]
    BY <1>1, <1>2, ScopeFacts DEF Shape
  <2> QED BY <1>1, <1>2, <2>1, <2>2 DEF Shape, Busy
<1>4. Kept' /\ Leaving' /\ Standing' /\ Based' /\ Held' /\ Supported'
  BY <1>1, ControlKeeps
<1>5. Having'
  BY <1>1, <1>2, NoneHad DEF Having
<1>6. Setups' /\ Places' /\ Marked' /\ Settled' /\ Telling' /\ Exits'
  BY <1>1, <1>2 DEF Setups, Places, Marked, Settled, Telling, Exits, Busy
<1> QED BY <1>3, <1>4, <1>5, <1>6

LEMMA StepFailsStep == ASSUME FixtureInv, StepFails PROVE FixtureInv'
<1> USE DEF FixtureInv, StepFails
<1>1. /\ UNCHANGED <<built, cache, teardown, scenario, step, have, allPassed, signals, upAtSignal, handler, outcome, exit>>
      /\ at = "resolve" /\ at' = "over" /\ failed' = TRUE
  OBVIOUS
<1>2. Shape'
  BY <1>1 DEF Shape, Busy
<1>3. Kept' /\ Leaving' /\ Standing' /\ Based' /\ Held' /\ Supported'
  BY <1>1, ControlKeeps
<1>4. Setups' /\ Places' /\ Having' /\ Marked' /\ Settled' /\ Telling' /\ Exits'
  BY <1>1 DEF Setups, Places, Having, Marked, Settled, Telling, Exits, Busy
<1> QED BY <1>2, <1>3, <1>4

LEMMA ScenarioDoneStep == ASSUME FixtureInv, ScenarioDone PROVE FixtureInv'
<1> USE DEF FixtureInv, ScenarioDone
<1>1. /\ UNCHANGED <<built, cache, teardown, scenario, step, have, failed, signals, upAtSignal, handler, outcome, exit>>
      /\ at = "teardown" /\ at' = "between" /\ teardown[scenario].at = "done"
      /\ allPassed' \in BOOLEAN
  OBVIOUS
<1>2. Shape'
  BY <1>1 DEF Shape, Busy
<1>3. Kept' /\ Leaving' /\ Standing' /\ Based' /\ Held' /\ Supported'
  BY <1>1, ControlKeeps
<1>4. Setups' /\ Places' /\ Having' /\ Marked' /\ Settled' /\ Exits'
  BY <1>1 DEF Setups, Places, Having, Marked, Settled, Exits, Busy
<1>5. Telling'
  BY <1>1 DEF Telling
<1> QED BY <1>2, <1>3, <1>4, <1>5

\* The two ways out, and a second signal.
LEMMA ExitStep == ASSUME FixtureInv, exit = "none", Return \/ HandlerExit \/ SecondSignal PROVE FixtureInv'
<1> USE DEF FixtureInv
<1>1. /\ UNCHANGED <<built, cache, teardown, at, scenario, step, have, failed, allPassed, upAtSignal, handler, outcome>>
      /\ exit' \in {"returned", "signalled"}
      /\ signals' = signals \/ (signals = 1 /\ signals' = 2 /\ 2 \in 0..MaxSignals /\ exit' = "signalled")
  BY FixtureConstants DEF Return, HandlerExit, SecondSignal, run
<1>2. Shape'
  BY <1>1 DEF Shape
<1>3. Kept' /\ Leaving' /\ Standing' /\ Based' /\ Held' /\ Supported'
  BY <1>1, ControlKeeps
<1>4. Setups' /\ Places' /\ Having' /\ Marked' /\ Settled' /\ Telling'
  BY <1>1 DEF Setups, Places, Having, Marked, Settled, Telling
<1>5. Exits'
  BY <1>1 DEF Exits, Return, HandlerExit, SecondSignal, run
<1> QED BY <1>2, <1>3, <1>4, <1>5

-----------------------------------------------------------------------------
(* The steps that ask for a teardown or go on with one.                    *)

\* A teardown that is over stays over, and what was up when the signal came
\* either is up still or is past use().
LEMMA TearsMarked ==
  ASSUME FixtureInv, NEW s \in Scopes, NEW told \in Outcomes, Tears(s, told),
         upAtSignal' = upAtSignal
  PROVE  /\ \A i \in upAtSignal : built'[i].status \in Suspended
         /\ signals > 0 => \A i \in upAtSignal : built'[i].status = "up" => built'[i].scope \in {0, handler.scope}
         /\ \A k \in Scopes : teardown[k].at = "done" => teardown'[k].at = "done"
<1>1. \A i \in upAtSignal : i \in DOMAIN built
  BY DEF FixtureInv, Shape
<1>2. ASSUME NEW i \in upAtSignal
      PROVE  built'[i].status \in Suspended
  BY <1>1 DEF FixtureInv, Marked, Tears
<1>3. ASSUME signals > 0, NEW i \in upAtSignal, built'[i].status = "up"
      PROVE  built'[i].scope \in {0, handler.scope}
  BY <1>1, <1>3 DEF FixtureInv, Marked, Tears
<1>4. ASSUME NEW k \in Scopes, teardown[k].at = "done"
      PROVE  teardown'[k].at = "done"
  BY <1>4 DEF Tears
<1> QED BY <1>2, <1>3, <1>4

LEMMA ScenarioOverStep == ASSUME FixtureInv, exit = "none", ScenarioOver PROVE FixtureInv'
<1> USE DEF FixtureInv, ScenarioOver
<1> DEFINE told == outcome'[scenario]
<1>1. /\ UNCHANGED <<scenario, step, have, failed, allPassed, signals, upAtSignal, handler, exit>>
      /\ at = "over" /\ at' = "teardown" /\ Teardown(scenario, told)
  OBVIOUS
<1>2. scenario \in Scopes /\ scenario \in Nat /\ scenario > 0
  BY <1>1, ScopeFacts DEF Places, Shape, Busy
<1>3. /\ outcome' \in [Scopes -> Outcomes] /\ told \in Outcomes
      /\ \A k \in Scopes \ {scenario} : outcome'[k] = outcome[k]
      /\ told = "passed" => ~failed
  BY <1>2 DEF Shape, Outcomes
<1> HIDE DEF told
<1>4. /\ Tears(scenario, told) /\ Kept' /\ Leaving' /\ Standing' /\ Based' /\ Setups' /\ Held'
      /\ signals = 0 => Supported'
  BY <1>1, <1>2, <1>3, TeardownEffect
<1>5. Supported'
  BY <1>1, <1>4 DEF Supported
<1>6. Shape'
  BY <1>1, <1>3, <1>4 DEF Shape, Tears, Busy
<1>7. Places'
  BY <1>1, <1>2, <1>4, ScopeFacts DEF Places, Tears, Busy
<1>8. Having'
  BY <1>1 DEF Having
<1>9. Marked'
  <2>1. handler \in [at : {"idle", "scenario", "process"}, scope : Scopes]
    BY DEF Shape
  <2> QED BY <1>1, <1>2, <1>3, <1>4, <2>1, TearsMarked DEF Marked
<1>10. Settled'
  BY <1>1, <1>2, <1>3, ScopeFacts DEF Settled
<1>11. Telling'
  <2>1. ASSUME NEW k \in Scopes, teardown'[k].at = "running"
        PROVE  LET said == built'[teardown'[k].left[1]].told IN
                 /\ said # "nothing"
                 /\ said = "passed" => IF k = 0 THEN at' = "closing" /\ allPassed'
                                       ELSE at' = "teardown" /\ scenario' = k /\ ~failed'
    <3>1. CASE k = scenario /\ built'[teardown'[k].left[1]].told = told
      BY <1>1, <1>2, <1>3, <3>1 DEF Outcomes
    <3>2. CASE /\ teardown[k].at = "running"
               /\ built'[teardown'[k].left[1]].told = built[teardown[k].left[1]].told
      BY <1>1, <3>2 DEF Telling
    <3> QED BY <1>4, <2>1, <3>1, <3>2 DEF Tears
  <2> QED BY <2>1 DEF Telling
<1>12. Exits'
  BY <1>1 DEF Exits
<1> QED BY <1>4, <1>5, <1>6, <1>7, <1>8, <1>9, <1>10, <1>11, <1>12

LEMMA CloseStep == ASSUME FixtureInv, exit = "none", Close PROVE FixtureInv'
<1> USE DEF FixtureInv, Close
<1> DEFINE told == IF signals > 0 THEN "failed" ELSE outcome'[0]
<1>1. /\ UNCHANGED <<scenario, step, have, failed, allPassed, signals, upAtSignal, handler, exit>>
      /\ at = "between" /\ at' = "closing" /\ scenario = Len(Asks) /\ Teardown(0, told)
  OBVIOUS
<1>2. scenario \in Scopes /\ scenario \in Nat /\ 0 \in Scopes
  BY <1>1, ScopeFacts DEF Shape
<1>3. /\ outcome' \in [Scopes -> Outcomes] /\ told \in Outcomes
      /\ \A k \in Scopes \ {0} : outcome'[k] = outcome[k]
      /\ told = "passed" => allPassed
      /\ outcome'[0] = "passed" => allPassed
  BY <1>2 DEF Shape, Outcomes
<1> HIDE DEF told
<1>4. /\ Tears(0, told) /\ Kept' /\ Leaving' /\ Standing' /\ Based' /\ Setups' /\ Held'
      /\ (signals = 0 /\ \A k \in Scopes \ {0} : k <= scenario => teardown[k].at = "done") => Supported'
  BY <1>1, <1>2, <1>3, TeardownEffect
<1>5. signals = 0 => \A k \in Scopes \ {0} : k <= scenario => teardown[k].at = "done"
  <2>1. SUFFICES ASSUME signals = 0, NEW k \in Scopes \ {0}, k <= scenario
                 PROVE  teardown[k].at = "done"
    OBVIOUS
  <2>2. k \in Nat /\ k > 0
    BY ScopeFacts
  <2>3. k < scenario \/ (k = scenario /\ scenario > 0)
    BY <1>2, <2>1, <2>2
  <2> QED BY <1>1, <2>1, <2>2, <2>3 DEF Places, Busy
<1>6. Supported'
  BY <1>1, <1>4, <1>5 DEF Supported
<1>7. Shape'
  BY <1>1, <1>3, <1>4 DEF Shape, Tears, Busy
<1>8. Places'
  <2>1. teardown'[0].at # "none" /\ \A k \in Scopes : k # 0 => teardown'[k] = teardown[k]
    BY <1>4 DEF Tears
  <2>2. \A k \in Scopes : k > scenario => k # 0
    BY <1>2, ScopeFacts
  <2> QED BY <1>1, <1>2, <2>1, <2>2 DEF Places, Busy
<1>9. Having'
  BY <1>1 DEF Having
<1>10. Marked'
  <2>1. handler \in [at : {"idle", "scenario", "process"}, scope : Scopes]
    BY DEF Shape
  <2> QED BY <1>1, <1>2, <1>3, <1>4, <2>1, TearsMarked DEF Marked
<1>11. Settled'
  BY <1>1, <1>2, <1>3, ScopeFacts DEF Settled
<1>12. Telling'
  <2>1. ASSUME NEW k \in Scopes, teardown'[k].at = "running"
        PROVE  LET said == built'[teardown'[k].left[1]].told IN
                 /\ said # "nothing"
                 /\ said = "passed" => IF k = 0 THEN at' = "closing" /\ allPassed'
                                       ELSE at' = "teardown" /\ scenario' = k /\ ~failed'
    <3>1. CASE k = 0 /\ built'[teardown'[k].left[1]].told = told
      BY <1>1, <1>2, <1>3, <3>1 DEF Outcomes
    <3>2. CASE /\ teardown[k].at = "running"
               /\ built'[teardown'[k].left[1]].told = built[teardown[k].left[1]].told
      BY <1>1, <3>2 DEF Telling
    <3> QED BY <1>4, <2>1, <3>1, <3>2 DEF Tears
  <2> QED BY <2>1 DEF Telling
<1>13. Exits'
  BY <1>1 DEF Exits
<1> QED BY <1>4, <1>6, <1>7, <1>8, <1>9, <1>10, <1>11, <1>12, <1>13

LEMMA SignalStep == ASSUME FixtureInv, exit = "none", Signal PROVE FixtureInv'
<1> USE DEF FixtureInv, Signal
<1> DEFINE s == IF Registered THEN scenario ELSE 0
           told == IF Registered THEN outcome[scenario] ELSE "failed"
<1>1. /\ UNCHANGED <<at, scenario, step, have, failed, allPassed, outcome, exit>>
      /\ signals = 0 /\ signals' = 1 /\ 1 \in 0..MaxSignals /\ upAtSignal' = Up
      /\ handler' = [at |-> IF Registered THEN "scenario" ELSE "process", scope |-> s]
      /\ Teardown(s, told)
  BY FixtureConstants DEF run
<1>2. Registered <=> at \in Busy
  BY DEF Registered, Busy
<1>3. scenario \in Scopes /\ 0 \in Scopes /\ s \in Scopes /\ told \in Outcomes
  BY ScopeFacts DEF Shape, Outcomes
<1>4. /\ teardown[s].at = "none" => told = "failed"
      /\ Registered => s = scenario /\ scenario > 0
      /\ ~Registered => s = 0
  BY <1>2, <1>3 DEF Settled, Places, Shape, Busy, Outcomes
<1> HIDE DEF s, told
<1>5. Tears(s, told) /\ Kept' /\ Leaving' /\ Standing' /\ Based' /\ Setups' /\ Held'
  BY <1>1, <1>3, TeardownEffect
<1>6. Supported'
  BY <1>1 DEF Supported
<1>7. Shape'
  <2>1. Up \subseteq DOMAIN built' /\ handler' \in [at : {"idle", "scenario", "process"}, scope : Scopes]
    BY <1>1, <1>3, <1>5 DEF Up, Tears
  <2> QED BY <1>1, <1>5, <2>1 DEF Shape, Tears
<1>8. Places'
  <2>1. \A k \in Scopes : teardown[k].at # "none" => teardown'[k].at # "none"
    BY <1>5 DEF Tears
  <2> QED BY <1>1, <1>3, <2>1 DEF Places
<1>9. Having'
  <2>1. ASSUME at \in {"resolve", "setup"}, NEW g \in DOMAIN have
        PROVE  /\ have[g] \in DOMAIN built' /\ built'[have[g]].name = g
               /\ built'[have[g]].scope \in {0, scenario}
    BY <1>5, <2>1 DEF Having, Tears
  <2> QED BY <1>1, <2>1 DEF Having
<1>10. Marked'
  <2>1. ASSUME NEW i \in Up
        PROVE  /\ built'[i].status \in Suspended
               /\ built'[i].scope \in {0, s}
    <3>1. i \in DOMAIN built /\ built[i].status = "up"
      BY DEF Up
    <3>2. built'[i].status \in Suspended /\ built'[i].scope = built[i].scope
      BY <1>5, <3>1 DEF Tears, Suspended
    <3>3. built[i] \in Instances
      BY <3>1 DEF Shape
    <3>4. built[i].scope \in Scopes /\ built[i].scope \in Nat /\ scenario \in Nat /\ built[i].scope <= scenario
      BY <1>3, <3>1, <3>3, ScopeFacts DEF Instances, Based
    <3>5. teardown[built[i].scope].at # "done"
      BY <1>1, <3>1 DEF Held
    <3>6. built[i].scope = 0 \/ built[i].scope = scenario
      BY <1>1, <3>4, <3>5 DEF Places
    <3>7. ~Registered => built[i].scope = 0
      BY <1>1, <1>2, <3>4, <3>5, <3>6 DEF Places
    <3> QED BY <1>4, <3>2, <3>6, <3>7
  <2>2. handler'.at # "idle" /\ handler'.scope = s
        /\ (handler'.at = "process" => s = 0)
    BY <1>1, <1>4
  <2> QED BY <1>1, <2>1, <2>2 DEF Marked
<1>11. Settled'
  BY <1>1 DEF Settled
<1>12. Telling'
  <2>1. ASSUME NEW k \in Scopes, teardown'[k].at = "running"
        PROVE  LET said == built'[teardown'[k].left[1]].told IN
                 /\ said # "nothing"
                 /\ said = "passed" => IF k = 0 THEN at' = "closing" /\ allPassed'
                                       ELSE at' = "teardown" /\ scenario' = k /\ ~failed'
    <3>1. CASE built'[teardown'[k].left[1]].told = "failed"
      BY <3>1
    <3>2. CASE /\ teardown[k].at = "running"
               /\ built'[teardown'[k].left[1]].told = built[teardown[k].left[1]].told
      BY <1>1, <3>2 DEF Telling
    <3> QED BY <1>4, <1>5, <2>1, <3>1, <3>2 DEF Tears
  <2> QED BY <2>1 DEF Telling
<1>13. Exits'
  BY <1>1 DEF Exits
<1> QED BY <1>5, <1>6, <1>7, <1>8, <1>9, <1>10, <1>11, <1>12, <1>13

LEMMA HandlerProcessStep == ASSUME FixtureInv, exit = "none", HandlerProcess PROVE FixtureInv'
<1> USE DEF FixtureInv, HandlerProcess
<1>1. /\ UNCHANGED <<at, scenario, step, have, failed, allPassed, outcome, signals, upAtSignal, exit>>
      /\ handler.at = "scenario" /\ teardown[handler.scope].at = "done"
      /\ handler' = [handler EXCEPT !.at = "process"]
      /\ Teardown(0, "failed")
  BY DEF run
<1>2. /\ handler.scope \in Scopes /\ handler'.at = "process" /\ handler'.scope = handler.scope
      /\ handler' \in [at : {"idle", "scenario", "process"}, scope : Scopes]
  BY <1>1 DEF Shape
<1>3. 0 \in Scopes /\ "failed" \in Outcomes /\ signals > 0 /\ signals # 0
  BY <1>1, ScopeFacts, FixtureConstants DEF Marked, Shape, Outcomes
<1>4. Tears(0, "failed") /\ Kept' /\ Leaving' /\ Standing' /\ Based' /\ Setups' /\ Held'
  BY <1>1, <1>3, TeardownEffect
<1>5. Supported'
  BY <1>1, <1>3 DEF Supported
<1>6. Shape'
  BY <1>1, <1>2, <1>4 DEF Shape, Tears
<1>7. Places'
  <2>1. \A k \in Scopes : teardown[k].at # "none" => teardown'[k].at # "none"
    BY <1>4 DEF Tears
  <2>2. scenario \in Scopes
    BY DEF Shape
  <2> QED BY <1>1, <1>3, <2>1, <2>2 DEF Places
<1>8. Having'
  <2>1. ASSUME at \in {"resolve", "setup"}, NEW g \in DOMAIN have
        PROVE  /\ have[g] \in DOMAIN built' /\ built'[have[g]].name = g
               /\ built'[have[g]].scope \in {0, scenario}
    BY <1>4, <2>1 DEF Having, Tears
  <2> QED BY <1>1, <1>3, <2>1 DEF Having
<1>9. Marked'
  BY <1>1, <1>2, <1>3, <1>4, TearsMarked DEF Marked
<1>10. Settled'
  BY <1>1 DEF Settled
<1>11. Telling'
  <2>1. ASSUME NEW k \in Scopes, teardown'[k].at = "running"
        PROVE  LET said == built'[teardown'[k].left[1]].told IN
                 /\ said # "nothing"
                 /\ said = "passed" => IF k = 0 THEN at' = "closing" /\ allPassed'
                                       ELSE at' = "teardown" /\ scenario' = k /\ ~failed'
    <3>1. CASE built'[teardown'[k].left[1]].told = "failed"
      BY <3>1
    <3>2. CASE /\ teardown[k].at = "running"
               /\ built'[teardown'[k].left[1]].told = built[teardown[k].left[1]].told
      BY <1>1, <3>2 DEF Telling
    <3> QED BY <1>4, <2>1, <3>1, <3>2 DEF Tears
  <2> QED BY <2>1 DEF Telling
<1>12. Exits'
  BY <1>1 DEF Exits
<1> QED BY <1>4, <1>5, <1>6, <1>7, <1>8, <1>9, <1>10, <1>11, <1>12

LEMMA AwaitingStep == ASSUME FixtureInv, exit = "none", NEW s \in Scopes, Awaiting(s) PROVE FixtureInv'
<1> USE DEF FixtureInv
<1>1. UNCHANGED <<at, scenario, step, have, failed, allPassed, outcome, signals, handler, upAtSignal, exit>>
  BY DEF Awaiting, TeardownNext, TeardownTimeout, run
<1>2. PICK told \in Outcomes : Tears(s, told) /\ teardown[s].at = "running"
  BY AwaitingEffect
<1>3. Kept' /\ Leaving' /\ Standing' /\ Based' /\ Setups' /\ Held' /\ Supported'
  BY AwaitingEffect
<1>4. Shape'
  BY <1>1, <1>2 DEF Shape, Tears
<1>5. Places'
  <2>1. \A k \in Scopes : /\ teardown[k].at # "none" => teardown'[k].at # "none"
                          /\ k # s => teardown'[k] = teardown[k]
    BY <1>2 DEF Tears
  <2>2. scenario \in Scopes /\ 0 \in Scopes
    BY ScopeFacts DEF Shape
  <2>3. signals = 0 => /\ at # "closing" => s # 0
                       /\ ~(s > scenario) /\ ~(0 < s /\ s < scenario)
                       /\ at \in {"resolve", "setup", "over"} => s # scenario
                       /\ at \notin Busy /\ scenario > 0 => s # scenario
    BY <1>2, <2>2 DEF Places
  <2> QED BY <1>1, <2>1, <2>2, <2>3 DEF Places
<1>6. Having'
  <2>1. ASSUME at \in {"resolve", "setup"}, NEW g \in DOMAIN have
        PROVE  /\ have[g] \in DOMAIN built' /\ built'[have[g]].name = g
               /\ built'[have[g]].scope \in {0, scenario}
    BY <1>2, <2>1 DEF Having, Tears
  <2>2. at \in {"resolve", "setup"} => signals # 0
    <3>1. s \in Nat /\ scenario \in Nat
      BY ScopeFacts DEF Shape
    <3>2. s = 0 \/ s > scenario \/ (0 < s /\ s < scenario) \/ s = scenario
      BY <3>1
    <3> QED BY <1>2, <3>2 DEF Places
  <2> QED BY <1>1, <2>1, <2>2 DEF Having
<1>7. Marked'
  <2>1. handler.scope \in Scopes
    BY DEF Shape
  <2> QED BY <1>1, <1>2, <2>1, TearsMarked DEF Marked
<1>8. Settled'
  BY <1>1 DEF Settled
<1>9. Telling'
  <2>1. ASSUME NEW k \in Scopes, teardown'[k].at = "running"
        PROVE  /\ teardown[k].at = "running"
               /\ built'[teardown'[k].left[1]].told = built[teardown[k].left[1]].told
    BY <1>2, <2>1 DEF Tears
  <2> QED BY <1>1, <2>1 DEF Telling
<1>10. Exits'
  BY <1>1 DEF Exits
<1> QED BY <1>3, <1>4, <1>5, <1>6, <1>7, <1>8, <1>9, <1>10

-----------------------------------------------------------------------------
(* The steps of fixture code.                                              *)

\* One instance changes its status and what it was told, and nothing else.
Changed(i, status, told) ==
  /\ built' \in Seq(Instances) /\ Len(built') = Len(built) /\ DOMAIN built' = DOMAIN built
  /\ \A j \in DOMAIN built : /\ built'[j].name = built[j].name
                             /\ built'[j].scope = built[j].scope
                             /\ built'[j].deps = built[j].deps
                             /\ j # i => built'[j] = built[j]
  /\ built'[i].status = status /\ built'[i].told = told

LEMMA ChangeFrame ==
  ASSUME Shape, NEW i \in DOMAIN built, NEW status \in Statuses, NEW told \in {"nothing", "failed", "passed"},
         built' = [built EXCEPT ![i] = [built[i] EXCEPT !.status = status, !.told = told]]
  PROVE  Changed(i, status, told)
<1>1. built \in Seq(Instances) /\ built[i] \in Instances
  BY DEF Shape
<1>2. [built[i] EXCEPT !.status = status, !.told = told] \in Instances
  BY <1>1 DEF Instances
<1>3. /\ built' \in Seq(Instances) /\ Len(built') = Len(built) /\ DOMAIN built' = DOMAIN built
      /\ \A j \in DOMAIN built : j # i => built'[j] = built[j]
      /\ built'[i] = [built[i] EXCEPT !.status = status, !.told = told]
  BY <1>1, <1>2
<1>4. /\ built'[i].name = built[i].name /\ built'[i].scope = built[i].scope
      /\ built'[i].deps = built[i].deps /\ built'[i].status = status /\ built'[i].told = told
  BY <1>1, <1>3 DEF Instances
<1> QED BY <1>3, <1>4 DEF Changed

\* An instance that is not up leaves its setup or goes on past it.
LEMMA ChangeKeeps ==
  ASSUME FixtureInv, exit = "none", NEW i \in DOMAIN built, NEW status, NEW told, Changed(i, status, told),
         built[i].status # "up", status \notin {"setup", "up"},
         built[i].status \in Suspended => status \in Suspended /\ told = built[i].told,
         UNCHANGED <<cache, teardown, scenario, step, have, allPassed, outcome, signals,
                     handler, upAtSignal, exit>>,
         \/ at' = at /\ failed' = failed /\ built[i].status # "setup"
         \/ at = "setup" /\ at' = "over" /\ failed' = TRUE /\ built[i].status = "setup"
  PROVE  FixtureInv'
<1> USE DEF FixtureInv
<1>1. \A j \in DOMAIN built : /\ built'[j].status = "up" <=> built[j].status = "up"
                              /\ built[j].status \in Suspended => /\ built'[j].status \in Suspended
                                                                  /\ built'[j].told = built[j].told
                              /\ built'[j].status = "setup" => built[j].status = "setup" /\ j # i
  BY DEF Changed
<1>2. Shape'
  BY DEF Shape, Changed, Busy
<1>3. Kept'
  <2>1. \A s \in Scopes : KeptIn(s)'
    BY <1>1 DEF Kept, KeptIn, Changed
  <2> QED BY <2>1 DEF Kept
<1>4. Leaving'
  <2>1. \A s \in Scopes : Leavable(s, teardown[s].left)'
    BY <1>1 DEF Leaving, Leavable, Changed
  <2> QED BY <2>1 DEF Leaving
<1>5. Standing'
  BY <1>1 DEF Standing, Kept, KeptIn
<1>6. Based'
  BY DEF Based, Changed
<1>7. Setups'
  <2>1. CASE at' = at /\ built[i].status # "setup"
    <3>1. built' # << >> <=> built # << >>
      BY DEF Shape, Changed
    <3>2. built # << >> => Len(built) \in DOMAIN built
      BY DEF Shape
    <3> QED BY <1>1, <2>1, <3>1, <3>2 DEF Setups, Changed
  <2>2. CASE at = "setup" /\ at' = "over" /\ built[i].status = "setup"
    <3>1. \A j \in DOMAIN built' : built'[j].status # "setup"
      <4>1. SUFFICES ASSUME NEW j \in DOMAIN built, built'[j].status = "setup" PROVE FALSE
        BY DEF Changed
      <4>2. j = Len(built) /\ j # i
        BY <1>1, <4>1 DEF Setups
      <4>3. i = Len(built)
        BY <2>2 DEF Setups
      <4> QED BY <4>2, <4>3
    <3> QED BY <2>2, <3>1 DEF Setups
  <2> QED BY <2>1, <2>2
<1>8. Places'
  BY DEF Places, Busy
<1>9. Having'
  <2>1. ASSUME at' \in {"resolve", "setup"}, NEW g \in DOMAIN have
        PROVE  /\ have[g] \in DOMAIN built' /\ built'[have[g]].name = g
               /\ built'[have[g]].scope \in {0, scenario}
               /\ signals = 0 => built'[have[g]].status = "up"
    BY <1>1, <2>1 DEF Having, Changed
  <2> QED BY <2>1 DEF Having
<1>10. Supported'
  <2>1. ASSUME signals = 0, NEW j \in DOMAIN built, built'[j].status \in {"setup", "up"},
               NEW d \in built[j].deps
        PROVE  built'[d].status = "up"
    <3>1. built[d].status = "up" /\ d \in DOMAIN built
      BY <1>1, <2>1 DEF Supported, Based
    <3> QED BY <1>1, <3>1
  <2> QED BY <2>1 DEF Supported, Changed
<1>11. Held'
  BY <1>1 DEF Held, Changed
<1>12. Marked'
  <2>1. \A j \in upAtSignal : j \in DOMAIN built
    BY DEF Shape
  <2> QED BY <1>1, <2>1 DEF Marked, Changed
<1>13. Settled'
  BY DEF Settled
<1>14. Telling'
  <2>1. ASSUME NEW s \in Scopes, teardown[s].at = "running"
        PROVE  built'[teardown[s].left[1]].told = built[teardown[s].left[1]].told
    <3>1. teardown[s].left # << >> /\ teardown[s].left \in Seq(Nat) /\ Leavable(s, teardown[s].left)
      BY <2>1 DEF Leaving, Shape, Teardowns
    <3>2. 1 \in DOMAIN teardown[s].left
      BY <3>1
    <3> QED BY <1>1, <3>1, <3>2 DEF Leavable
  <2> QED BY <2>1 DEF Telling
<1>15. Exits'
  BY DEF Exits
<1> QED BY <1>2, <1>3, <1>4, <1>5, <1>6, <1>7, <1>8, <1>9, <1>10, <1>11, <1>12, <1>13, <1>14, <1>15

\* A setup that fails, a late use(), and a function that settles.
LEMMA SetupFailsStep ==
  ASSUME FixtureInv, exit = "none", NEW status \in {"late", "ended"}, SetupFails(status)
  PROVE  FixtureInv'
<1> DEFINE i == Len(built)
<1>1. /\ at = "setup" /\ built[i].status = "setup" /\ built' = [built EXCEPT ![i].status = status]
      /\ failed' = TRUE /\ at' = "over"
      /\ UNCHANGED <<cache, teardown, scenario, step, have, allPassed, outcome, signals,
                     handler, upAtSignal, exit>>
  BY DEF SetupFails
<1>2. i \in DOMAIN built /\ built \in Seq(Instances) /\ built[i] \in Instances
  <2>1. built # << >> /\ built \in Seq(Instances)
    BY <1>1 DEF FixtureInv, Setups, Shape
  <2>2. i \in DOMAIN built
    BY <2>1
  <2> QED BY <2>1, <2>2
<1>3. /\ built[i].told \in {"nothing", "failed", "passed"} /\ status \in Statuses
      /\ [built[i] EXCEPT !.status = status, !.told = built[i].told] = [built[i] EXCEPT !.status = status]
  BY <1>2 DEF Instances, Statuses
<1>4. built' = [built EXCEPT ![i] = [built[i] EXCEPT !.status = status, !.told = built[i].told]]
  BY <1>1, <1>2, <1>3
<1> HIDE DEF i
<1>5. Changed(i, status, built[i].told)
  BY <1>2, <1>3, <1>4, ChangeFrame DEF FixtureInv
<1> QED BY <1>1, <1>2, <1>5, ChangeKeeps DEF Suspended

LEMMA UseLateStep ==
  ASSUME FixtureInv, exit = "none", NEW i \in DOMAIN built, UseLate(i)
  PROVE  FixtureInv'
<1>1. /\ built[i].status = "late" /\ built' = [built EXCEPT ![i].status = "tearing", ![i].told = "failed"]
      /\ UNCHANGED <<cache, teardown, at, failed, scenario, step, have, allPassed, outcome, signals,
                     handler, upAtSignal, exit>>
  BY DEF UseLate, run
<1>2. built \in Seq(Instances) /\ built[i] \in Instances
  BY DEF FixtureInv, Shape
<1>3. built' = [built EXCEPT ![i] = [built[i] EXCEPT !.status = "tearing", !.told = "failed"]]
  BY <1>1, <1>2
<1>4. Changed(i, "tearing", "failed")
  BY <1>3, ChangeFrame DEF FixtureInv, Statuses
<1>5. built[i].status # "up" /\ built[i].status \notin Suspended /\ built[i].status # "setup"
  BY <1>1 DEF Suspended
<1>6. "tearing" \notin {"setup", "up"}
  OBVIOUS
<1>7. built[i].status \in Suspended => "tearing" \in Suspended /\ "failed" = built[i].told
  BY <1>5
<1>8. at' = at /\ failed' = failed
  BY <1>1
<1> QED BY <1>1, <1>4, <1>5, <1>6, <1>7, <1>8, ChangeKeeps

LEMMA FixtureEndsStep ==
  ASSUME FixtureInv, exit = "none", NEW i \in DOMAIN built, FixtureEnds(i)
  PROVE  FixtureInv'
<1>1. /\ built[i].status \in {"late", "tearing"} /\ built' = [built EXCEPT ![i].status = "ended"]
      /\ UNCHANGED <<cache, teardown, at, failed, scenario, step, have, allPassed, outcome, signals,
                     handler, upAtSignal, exit>>
  BY DEF FixtureEnds, run
<1>2. built \in Seq(Instances) /\ built[i] \in Instances
  BY DEF FixtureInv, Shape
<1>3. /\ built[i].told \in {"nothing", "failed", "passed"}
      /\ [built[i] EXCEPT !.status = "ended", !.told = built[i].told] = [built[i] EXCEPT !.status = "ended"]
  BY <1>2 DEF Instances
<1>4. built' = [built EXCEPT ![i] = [built[i] EXCEPT !.status = "ended", !.told = built[i].told]]
  BY <1>1, <1>2, <1>3
<1>5. Changed(i, "ended", built[i].told)
  BY <1>3, <1>4, ChangeFrame DEF FixtureInv, Statuses
<1>6. built[i].status # "up" /\ built[i].status # "setup"
  BY <1>1
<1>7. "ended" \notin {"setup", "up"} /\ "ended" \in Suspended
  BY DEF Suspended
<1>8. at' = at /\ failed' = failed
  BY <1>1
<1> QED BY <1>1, <1>5, <1>6, <1>7, <1>8, ChangeKeeps

LEMMA StartStep == ASSUME FixtureInv, exit = "none", NEW f \in Fixtures, Start(f) PROVE FixtureInv'
<1> USE DEF FixtureInv
<1> DEFINE n == Len(built) + 1
           new == [name |-> f, scope |-> ScopeOf(f), deps |-> {have[d] : d \in Deps[f]},
                   status |-> "setup", told |-> "nothing"]
<1>1. /\ at = "resolve" /\ at' = "setup" /\ Deps[f] \subseteq DOMAIN have
      /\ built' = Append(built, new)
      /\ UNCHANGED <<cache, teardown, scenario, step, have, failed, allPassed, outcome, signals,
                     handler, upAtSignal, exit>>
  BY DEF Start, Due
<1>2. /\ built \in Seq(Instances) /\ Len(built) \in Nat /\ DOMAIN built = 1..Len(built)
      /\ scenario \in Scopes /\ scenario \in Nat /\ scenario > 0 /\ 0 \in Scopes
  BY <1>1, ScopeFacts DEF Shape, Places, Busy
<1>3. /\ ScopeOf(f) \in Scopes /\ ScopeOf(f) \in {0, scenario} /\ ScopeOf(f) <= scenario
      /\ (ScopeOf(f) = 0) = (f \in ProcessWide)
  BY <1>2 DEF ScopeOf
<1>4. \A d \in Deps[f] : have[d] \in DOMAIN built /\ have[d] \in Nat /\ have[d] < n
  BY <1>1, <1>2 DEF Having
<1>5. \A d \in Deps[f] : built[have[d]].scope \in {0, ScopeOf(f)}
  <2>1. SUFFICES ASSUME NEW d \in Deps[f] PROVE built[have[d]].scope \in {0, ScopeOf(f)}
    OBVIOUS
  <2>2. built[have[d]].name = d /\ built[have[d]].scope \in {0, scenario}
    BY <1>1 DEF Having
  <2>3. CASE f \in ProcessWide
    <3>1. d \in ProcessWide
      BY <2>3, FixtureConstants
    <3> QED BY <1>4, <2>2, <3>1 DEF Based
  <2>4. CASE f \notin ProcessWide
    BY <2>2, <2>4 DEF ScopeOf
  <2> QED BY <2>3, <2>4
<1>6. new \in Instances
  BY <1>3, <1>4 DEF Instances, Statuses
<1> HIDE DEF new
<1>7. /\ built' \in Seq(Instances) /\ Len(built') = n /\ DOMAIN built' = 1..n /\ n \in DOMAIN built'
      /\ \A i \in DOMAIN built : i \in DOMAIN built' /\ built'[i] = built[i]
      /\ built'[n] = new
  BY <1>1, <1>2, <1>6
<1>8. /\ new.name = f /\ new.scope = ScopeOf(f) /\ new.status = "setup"
      /\ new.deps = {have[d] : d \in Deps[f]}
  BY DEF new
<1>9. \A i \in DOMAIN built' : i \in DOMAIN built \/ i = n
  BY <1>2, <1>7
<1> HIDE DEF n
<1>10. Shape'
  BY <1>1, <1>7 DEF Shape, Busy
<1>11. Kept'
  <2>1. \A s \in Scopes : KeptIn(s)'
    BY <1>1, <1>7 DEF Kept, KeptIn
  <2> QED BY <2>1 DEF Kept
<1>12. Leaving'
  <2>1. \A s \in Scopes : Leavable(s, teardown[s].left)'
    BY <1>1, <1>7 DEF Leaving, Leavable
  <2> QED BY <1>1, <2>1 DEF Leaving
<1>13. Standing'
  BY <1>1, <1>7 DEF Standing, Kept, KeptIn
<1>14. Based'
  <2>1. ASSUME NEW i \in DOMAIN built
        PROVE  /\ built'[i].scope = 0 <=> built'[i].name \in ProcessWide
               /\ built'[i].scope <= scenario'
               /\ \A d \in built'[i].deps : /\ d \in DOMAIN built' /\ d < i
                                            /\ built'[d].scope \in {0, built'[i].scope}
    BY <1>1, <1>7 DEF Based
  <2>2. /\ built'[n].scope = 0 <=> built'[n].name \in ProcessWide
        /\ built'[n].scope <= scenario'
    BY <1>1, <1>3, <1>7, <1>8
  <2>3. \A d \in built'[n].deps : /\ d \in DOMAIN built' /\ d < n
                                  /\ built'[d].scope \in {0, built'[n].scope}
    BY <1>4, <1>5, <1>7, <1>8
  <2> QED BY <1>9, <2>1, <2>2, <2>3 DEF Based
<1>15. Setups'
  <2>1. \A i \in DOMAIN built : built[i].status # "setup"
    BY <1>1 DEF Setups
  <2>2. built' # << >>
    BY <1>7, NoneHad
  <2> QED BY <1>1, <1>3, <1>7, <1>8, <1>9, <2>1, <2>2 DEF Setups
<1>16. Places'
  BY <1>1 DEF Places, Busy
<1>17. Having'
  BY <1>1, <1>7 DEF Having
<1>18. Supported'
  <2>1. ASSUME signals = 0, NEW i \in DOMAIN built, built[i].status \in {"setup", "up"},
               NEW d \in built[i].deps
        PROVE  built'[d].status = "up"
    BY <1>7, <2>1 DEF Supported, Based
  <2>2. ASSUME signals = 0, NEW d \in Deps[f]
        PROVE  built'[have[d]].status = "up"
    BY <1>1, <1>4, <1>7, <2>2 DEF Having
  <2>3. ASSUME signals = 0, NEW i \in DOMAIN built', built'[i].status \in {"setup", "up"},
               NEW d \in built'[i].deps
        PROVE  built'[d].status = "up"
    <3>1. CASE i \in DOMAIN built
      BY <1>7, <2>1, <2>3, <3>1
    <3>2. CASE i = n
      <4>1. PICK g \in Deps[f] : d = have[g]
        BY <1>7, <1>8, <2>3, <3>2
      <4> QED BY <2>2, <2>3, <4>1
    <3> QED BY <1>9, <2>3, <3>1, <3>2
  <2> QED BY <1>1, <2>3 DEF Supported
<1>19. Held'
  <2>1. \A i \in DOMAIN built' : built'[i].status = "up" => i \in DOMAIN built /\ built'[i] = built[i]
    BY <1>7, <1>8, <1>9
  <2> QED BY <1>1, <2>1 DEF Held
<1>20. Marked'
  <2>1. \A i \in upAtSignal : i \in DOMAIN built
    BY DEF Shape
  <2> QED BY <1>1, <1>7, <2>1 DEF Marked
<1>21. Settled'
  BY <1>1 DEF Settled
<1>22. Telling'
  <2>1. ASSUME NEW s \in Scopes, teardown[s].at = "running"
        PROVE  built'[teardown[s].left[1]].told = built[teardown[s].left[1]].told
    <3>1. teardown[s].left # << >> /\ teardown[s].left \in Seq(Nat) /\ Leavable(s, teardown[s].left)
      BY <2>1 DEF Leaving, Shape, Teardowns
    <3>2. 1 \in DOMAIN teardown[s].left
      BY <3>1
    <3> QED BY <1>7, <3>1, <3>2 DEF Leavable
  <2> QED BY <1>1, <2>1 DEF Telling
<1>23. Exits'
  BY <1>1 DEF Exits
<1> QED BY <1>10, <1>11, <1>12, <1>13, <1>14, <1>15, <1>16, <1>17, <1>18, <1>19, <1>20, <1>21, <1>22, <1>23

\* The instance the run waits for calls use(): it is up, kept, and had.
LEMMA UseStep == ASSUME FixtureInv, exit = "none", Use PROVE FixtureInv'
<1> USE DEF FixtureInv
<1>1. /\ at = "setup" /\ at' = "resolve" /\ built[Len(built)].status = "setup"
      /\ built' = [built EXCEPT ![Len(built)].status = "up"]
      /\ cache' = [cache EXCEPT ![built[Len(built)].scope] = Append(@, Len(built))]
      /\ have' = With(built[Len(built)].name, Len(built))
      /\ UNCHANGED <<teardown, scenario, step, failed, allPassed, outcome, signals,
                     handler, upAtSignal, exit>>
  BY DEF Use
<1>2. PICK i \in DOMAIN built : /\ i = Len(built) /\ built \in Seq(Instances) /\ built[i] \in Instances
                               /\ i \in Nat /\ DOMAIN built = 1..i
  <2>1. built # << >> /\ built \in Seq(Instances)
    BY <1>1 DEF Setups, Shape
  <2>2. Len(built) \in DOMAIN built /\ Len(built) \in Nat /\ DOMAIN built = 1..Len(built)
    BY <2>1
  <2> QED BY <2>1, <2>2
<1>3. PICK s \in Scopes :
        /\ s = built[i].scope /\ s \in {0, scenario}
        /\ built[i].told \in {"nothing", "failed", "passed"} /\ built[i].name \in Fixtures
        /\ [built[i] EXCEPT !.status = "up", !.told = built[i].told] = [built[i] EXCEPT !.status = "up"]
  BY <1>1, <1>2 DEF Instances, Setups
<1>4. built' = [built EXCEPT ![i] = [built[i] EXCEPT !.status = "up", !.told = built[i].told]]
  BY <1>1, <1>2, <1>3
<1>5. Changed(i, "up", built[i].told)
  BY <1>2, <1>3, <1>4, ChangeFrame DEF Statuses
<1>6. /\ cache[s] \in Seq(Nat) /\ cache' \in [Scopes -> Seq(Nat)]
      /\ \A k \in Scopes : k # s => cache'[k] = cache[k]
      /\ cache'[s] = Append(cache[s], i)
  <2>1. cache[s] \in Seq(Nat) /\ cache \in [Scopes -> Seq(Nat)]
    BY <1>3 DEF Shape
  <2>2. Append(cache[s], i) \in Seq(Nat)
    BY <1>2, <2>1
  <2>3. cache' = [cache EXCEPT ![s] = Append(cache[s], i)]
    BY <1>1, <1>2, <1>3
  <2> QED BY <1>3, <2>1, <2>2, <2>3
<1>7. LET n == Len(cache[s]) IN
        /\ n \in Nat /\ DOMAIN cache[s] = 1..n /\ DOMAIN cache'[s] = 1..(n + 1)
        /\ cache'[s][n + 1] = i
        /\ \A p \in 1..n : cache'[s][p] = cache[s][p]
  BY <1>2, <1>6
<1>8. /\ DOMAIN have' = DOMAIN have \cup {built[i].name}
      /\ \A g \in DOMAIN have' : have'[g] = IF g = built[i].name THEN i ELSE have[g]
  BY <1>1, <1>2 DEF With
<1>9. signals = 0 => teardown[s].at = "none"
  BY <1>1, <1>3 DEF Places
<1>10. /\ \A j \in DOMAIN built : j # i => built'[j] = built[j]
       /\ \A j \in DOMAIN built : built[j].status \in Suspended => j # i
       /\ built'[i].status = "up" /\ built'[i].scope = s
  BY <1>1, <1>2, <1>3, <1>5 DEF Changed, Suspended
<1>11. Shape'
  <2>1. DOMAIN have' \subseteq Fixtures
    BY <1>3, <1>8 DEF Shape
  <2> QED BY <1>1, <1>5, <1>6, <2>1 DEF Shape, Changed, Busy
<1>12. Kept'
  <2>1. ASSUME NEW k \in Scopes, k # s PROVE KeptIn(k)'
    <3>1. KeptIn(k) /\ cache'[k] = cache[k]
      BY <1>6, <2>1 DEF Kept
    <3> QED BY <1>5, <1>10, <3>1 DEF KeptIn, Changed
  <2>2. ASSUME NEW p \in DOMAIN cache'[s]
        PROVE  /\ cache'[s][p] \in DOMAIN built'
               /\ built'[cache'[s][p]].scope = s
               /\ built'[cache'[s][p]].status \in Suspended
    <3>1. p \in 1..Len(cache[s]) \/ cache'[s][p] = i
      BY <1>7
    <3>2. CASE cache'[s][p] = i
      BY <1>2, <1>5, <1>10, <3>2 DEF Changed, Suspended
    <3>3. CASE p \in 1..Len(cache[s])
      <4>1. cache'[s][p] = cache[s][p] /\ p \in DOMAIN cache[s]
        BY <1>7, <3>3
      <4>2. /\ cache[s][p] \in DOMAIN built /\ built[cache[s][p]].scope = s
            /\ built[cache[s][p]].status \in Suspended
        BY <1>3, <4>1 DEF Kept, KeptIn
      <4> QED BY <1>5, <1>10, <4>1, <4>2 DEF Changed
    <3> QED BY <3>1, <3>2, <3>3
  <2>3. ASSUME NEW p \in DOMAIN cache'[s], NEW q \in DOMAIN cache'[s], p < q
        PROVE  cache'[s][p] < cache'[s][q]
    <3>1. p \in 1..Len(cache[s]) /\ (q \in 1..Len(cache[s]) \/ cache'[s][q] = i)
      BY <1>7, <2>3
    <3>2. cache'[s][p] = cache[s][p] /\ p \in DOMAIN cache[s]
      BY <1>7, <3>1
    <3>3. cache[s][p] \in DOMAIN built /\ built[cache[s][p]].status \in Suspended
      BY <1>3, <3>2 DEF Kept, KeptIn
    <3>4. CASE cache'[s][q] = i
      BY <1>2, <1>10, <3>2, <3>3, <3>4
    <3>5. CASE q \in 1..Len(cache[s])
      BY <1>3, <1>7, <2>3, <3>2, <3>5 DEF Kept, KeptIn
    <3> QED BY <3>1, <3>4, <3>5
  <2>4. KeptIn(s)'
    BY <2>2, <2>3 DEF KeptIn
  <2> QED BY <2>1, <2>4 DEF Kept
<1>13. Leaving'
  <2>1. ASSUME NEW k \in Scopes PROVE Leavable(k, teardown[k].left)'
    <3>1. Leavable(k, teardown[k].left) /\ teardown' = teardown
      BY <1>1 DEF Leaving
    <3>2. \A j \in DOMAIN built : built[j].status \in Suspended => built'[j] = built[j]
      BY <1>10
    <3> QED BY <1>5, <3>1, <3>2 DEF Leavable, Changed
  <2> QED BY <1>1, <2>1 DEF Leaving
<1>14. Standing'
  <2>1. ASSUME NEW k \in Scopes, teardown[k].at = "none", NEW p \in DOMAIN cache'[k]
        PROVE  built'[cache'[k][p]].status = "up"
    <3>1. CASE cache'[k][p] = i
      BY <1>10, <3>1
    <3>2. CASE cache'[k][p] # i
      <4>1. p \in DOMAIN cache[k] /\ cache'[k][p] = cache[k][p]
        <5>1. CASE k = s
          BY <1>7, <2>1, <3>2, <5>1
        <5>2. CASE k # s
          BY <1>6, <2>1, <5>2
        <5> QED BY <5>1, <5>2
      <4>2. cache[k][p] \in DOMAIN built /\ built[cache[k][p]].status = "up"
        BY <2>1, <4>1 DEF Kept, KeptIn, Standing
      <4> QED BY <1>10, <3>2, <4>1, <4>2
    <3> QED BY <3>1, <3>2
  <2> QED BY <1>1, <2>1 DEF Standing
<1>15. Based'
  BY <1>1, <1>5 DEF Based, Changed
<1>16. Setups'
  <2>1. \A j \in DOMAIN built : built[j].status = "setup" => j = i
    BY <1>2 DEF Setups
  <2> QED BY <1>1, <1>5, <1>10, <2>1 DEF Setups, Changed
<1>17. Places'
  BY <1>1 DEF Places, Busy
<1>18. Having'
  <2>1. ASSUME NEW g \in DOMAIN have'
        PROVE  /\ have'[g] \in DOMAIN built' /\ built'[have'[g]].name = g
               /\ built'[have'[g]].scope \in {0, scenario}
               /\ signals = 0 => built'[have'[g]].status = "up"
    <3>1. CASE g = built[i].name
      BY <1>2, <1>3, <1>5, <1>8, <1>10, <3>1 DEF Changed
    <3>2. CASE g # built[i].name
      <4>1. g \in DOMAIN have /\ have'[g] = have[g]
        BY <1>8, <2>1, <3>2
      <4>2. /\ have[g] \in DOMAIN built /\ built[have[g]].name = g
            /\ built[have[g]].scope \in {0, scenario}
            /\ signals = 0 => built[have[g]].status = "up"
        BY <1>1, <4>1 DEF Having
      <4> QED BY <1>5, <1>10, <4>1, <4>2 DEF Changed
    <3> QED BY <3>1, <3>2
  <2> QED BY <1>1, <2>1 DEF Having
<1>19. Supported'
  <2>1. ASSUME signals = 0, NEW j \in DOMAIN built, built'[j].status \in {"setup", "up"},
               NEW d \in built[j].deps
        PROVE  built'[d].status = "up"
    <3>1. built[j].status \in {"setup", "up"}
      BY <1>1, <1>10, <2>1
    <3>2. built[d].status = "up" /\ d \in DOMAIN built
      BY <2>1, <3>1 DEF Supported, Based
    <3> QED BY <1>10, <3>2
  <2> QED BY <1>1, <1>5, <2>1 DEF Supported, Changed
<1>20. Held'
  <2>1. SUFFICES ASSUME NEW j \in DOMAIN built, built'[j].status = "up",
                        signals = 0 \/ j \in upAtSignal
                 PROVE  LET k == built[j].scope IN
                          /\ teardown[k].at # "done"
                          /\ teardown[k].at = "none" => \E p \in DOMAIN cache'[k] : cache'[k][p] = j
                          /\ teardown[k].at = "running" =>
                               \E p \in DOMAIN teardown[k].left : p > 1 /\ teardown[k].left[p] = j
    BY <1>1, <1>5 DEF Held, Changed
  <2>2. CASE j = i
    <3>1. signals = 0
      BY <1>10, <2>1, <2>2, <1>2 DEF Marked
    <3>2. teardown[s].at = "none"
      BY <1>9, <3>1
    <3>3. \E p \in DOMAIN cache'[s] : cache'[s][p] = i
      BY <1>7
    <3> QED BY <1>3, <2>2, <3>2, <3>3
  <2>3. CASE j # i
    <3> DEFINE k == built[j].scope
    <3>1. built[j].status = "up"
      BY <1>10, <2>1, <2>3
    <3>2. built[j] \in Instances
      BY <1>2
    <3>3. k \in Scopes
      BY <3>2 DEF Instances
    <3>4. \A p \in DOMAIN cache[k] : p \in DOMAIN cache'[k] /\ cache'[k][p] = cache[k][p]
      <4>1. CASE k = s
        BY <1>7, <4>1
      <4>2. CASE k # s
        BY <1>6, <3>3, <4>2
      <4> QED BY <4>1, <4>2
    <3>5. /\ teardown[k].at # "done"
          /\ teardown[k].at = "none" => \E p \in DOMAIN cache[k] : cache[k][p] = j
          /\ teardown[k].at = "running" =>
               \E p \in DOMAIN teardown[k].left : p > 1 /\ teardown[k].left[p] = j
      BY <2>1, <3>1 DEF Held
    <3> QED BY <3>4, <3>5
  <2> QED BY <2>2, <2>3
<1>21. Marked'
  <2>1. \A j \in upAtSignal : j \in DOMAIN built /\ j # i
    BY <1>10 DEF Shape, Marked
  <2> QED BY <1>1, <1>10, <2>1 DEF Marked
<1>22. Settled'
  BY <1>1 DEF Settled
<1>23. Telling'
  <2>1. ASSUME NEW k \in Scopes, teardown[k].at = "running"
        PROVE  built'[teardown[k].left[1]].told = built[teardown[k].left[1]].told
    <3>1. teardown[k].left # << >> /\ teardown[k].left \in Seq(Nat) /\ Leavable(k, teardown[k].left)
      BY <2>1 DEF Leaving, Shape, Teardowns
    <3>2. 1 \in DOMAIN teardown[k].left
      BY <3>1
    <3> QED BY <1>10, <3>1, <3>2 DEF Leavable
  <2> QED BY <1>1, <2>1 DEF Telling
<1>24. Exits'
  BY <1>1 DEF Exits
<1> QED BY <1>11, <1>12, <1>13, <1>14, <1>15, <1>16, <1>17, <1>18, <1>19, <1>20, <1>21, <1>22, <1>23, <1>24

-----------------------------------------------------------------------------
(* The theorems.                                                           *)

LEMMA InitInv == Init => FixtureInv
<1> SUFFICES ASSUME Init PROVE FixtureInv
  OBVIOUS
<1> USE DEF Init
<1>1. DOMAIN built = {}
  BY NoneHad
<1>2. \A s \in Scopes : cache[s] = << >> /\ teardown[s].at = "none" /\ teardown[s].left = << >>
  OBVIOUS
<1>3. Shape
  <2>1. << >> \in Seq(Instances) /\ << >> \in Seq(Nat)
    OBVIOUS
  <2>2. 0 \in Scopes /\ 0 \in 0..MaxSignals
    BY ScopeFacts, FixtureConstants
  <2>3. cache \in [Scopes -> Seq(Nat)] /\ teardown \in [Scopes -> Teardowns]
    BY <2>1 DEF Teardowns
  <2>4. outcome \in [Scopes -> Outcomes]
    BY DEF Outcomes
  <2>5. DOMAIN have \subseteq Fixtures /\ upAtSignal \subseteq DOMAIN built
    BY NoneHad
  <2> QED BY <2>1, <2>2, <2>3, <2>4, <2>5 DEF Shape
<1>4. Kept /\ Leaving /\ Standing
  BY <1>2, NoneHad DEF Kept, KeptIn, Leaving, Leavable, Standing
<1>5. Based /\ Setups /\ Having /\ Supported /\ Held
  BY <1>1 DEF Based, Setups, Having, Supported, Held
<1>6. Places
  BY <1>2, ScopeFacts DEF Places, Busy
<1>7. Marked /\ Exits
  BY DEF Marked, Exits
<1>8. Settled /\ Telling
  BY <1>2, ScopeFacts DEF Settled, Telling
<1> QED BY <1>3, <1>4, <1>5, <1>6, <1>7, <1>8 DEF FixtureInv

LEMMA NextInv == FixtureInv /\ [Next]_vars => FixtureInv'
<1> SUFFICES ASSUME FixtureInv, [Next]_vars PROVE FixtureInv'
  OBVIOUS
<1>1. CASE UNCHANGED vars
  <2>1. UNCHANGED <<built, cache, teardown, at, scenario, step, have, failed, allPassed, outcome,
                    signals, handler, upAtSignal, exit>>
    BY <1>1 DEF vars
  <2>2. Shape' /\ Setups' /\ Places' /\ Having' /\ Marked' /\ Settled' /\ Telling' /\ Exits'
    BY <2>1 DEF FixtureInv, Shape, Setups, Places, Having, Marked, Settled, Telling, Exits
  <2>3. Kept' /\ Leaving' /\ Standing' /\ Based' /\ Held' /\ Supported'
    BY <2>1, ControlKeeps
  <2> QED BY <2>2, <2>3 DEF FixtureInv
<1>2. CASE exit = "none" /\ Run
  <2>1. CASE Begin
    BY <2>1, BeginStep
  <2>2. CASE \E f \in Fixtures : Reuse(f) \/ Start(f)
    BY <1>2, <2>2, ReuseStep, StartStep
  <2>3. CASE SetupFails("late")
    BY <1>2, <2>3, SetupFailsStep
  <2>4. CASE StepPasses
    BY <2>4, StepPassesStep
  <2>5. CASE StepFails
    BY <2>5, StepFailsStep
  <2>6. CASE ScenarioOver
    BY <1>2, <2>6, ScenarioOverStep
  <2>7. CASE ScenarioDone
    BY <2>7, ScenarioDoneStep
  <2>8. CASE Close
    BY <1>2, <2>8, CloseStep
  <2>9. CASE Return
    BY <1>2, <2>9, ExitStep
  <2> QED BY <1>2, <2>1, <2>2, <2>3, <2>4, <2>5, <2>6, <2>7, <2>8, <2>9 DEF Run
<1>3. CASE exit = "none" /\ Handler
  BY <1>3, HandlerProcessStep, ExitStep DEF Handler
<1>4. CASE exit = "none" /\ Fixture
  <2>1. CASE Use
    BY <1>4, <2>1, UseStep
  <2>2. CASE SetupFails("ended")
    BY <1>4, <2>2, SetupFailsStep
  <2>3. CASE \E i \in DOMAIN built : UseLate(i) \/ FixtureEnds(i)
    BY <1>4, <2>3, UseLateStep, FixtureEndsStep
  <2> QED BY <1>4, <2>1, <2>2, <2>3 DEF Fixture
<1>5. CASE exit = "none" /\ \E s \in Scopes : Awaiting(s)
  BY <1>5, AwaitingStep
<1>6. CASE exit = "none" /\ Signal
  BY <1>6, SignalStep
<1>7. CASE exit = "none" /\ SecondSignal
  BY <1>7, ExitStep
<1> QED BY <1>1, <1>2, <1>3, <1>4, <1>5, <1>6, <1>7 DEF Next

\* The inductive invariant: what is kept where, in which order, who will be
\* told what, and which teardowns have begun.
THEOREM FixtureInvariant == Spec => []FixtureInv
BY InitInv, NextInv, PTL DEF Spec

\* The state keeps its shape, for any fixtures and scenarios.
THEOREM TypeCorrect == Spec => []TypeOK
<1>1. FixtureInv => TypeOK
  <2> SUFFICES ASSUME FixtureInv PROVE TypeOK
    OBVIOUS
  <2>1. built \in Seq([name : Fixtures, scope : Scopes, deps : SUBSET Nat,
                       status : Statuses, told : {"nothing", "failed", "passed"}])
    BY DEF FixtureInv, Shape, Instances
  <2>2. ASSUME NEW s \in Scopes
        PROVE  /\ ToSet(cache[s]) \subseteq DOMAIN built
               /\ teardown[s].at \in {"none", "running", "done"}
               /\ ToSet(teardown[s].left) \subseteq DOMAIN built
    <3>1. ToSet(cache[s]) \subseteq DOMAIN built
      BY DEF FixtureInv, Kept, KeptIn, ToSet
    <3>2. Leavable(s, teardown[s].left) /\ teardown[s] \in Teardowns
      BY DEF FixtureInv, Leaving, Shape
    <3>3. teardown[s].at \in {"none", "running", "done"}
      BY <3>2 DEF Teardowns
    <3>4. ToSet(teardown[s].left) \subseteq DOMAIN built
      BY <3>2 DEF Leavable, ToSet
    <3> QED BY <3>1, <3>3, <3>4
  <2>3. handler.at \in {"idle", "scenario", "process"} /\ outcome \in [Scopes -> {"failed", "passed"}]
    BY DEF FixtureInv, Shape, Outcomes
  <2> QED BY <2>1, <2>2, <2>3 DEF FixtureInv, Shape, Busy, TypeOK
<1> QED BY <1>1, FixtureInvariant, PTL

\* Of what is up, with no signal or up since before it, the scope's teardown
\* is not over.
LEMMA UpIsHeld ==
  ASSUME FixtureInv, NEW i \in Up, signals = 0 \/ i \in upAtSignal
  PROVE  /\ i \in DOMAIN built /\ built[i].scope \in Scopes /\ built[i].scope <= scenario
         /\ teardown[built[i].scope].at # "done"
<1>1. i \in DOMAIN built /\ built[i].status = "up"
  BY DEF Up
<1>2. built[i] \in Instances
  BY <1>1 DEF FixtureInv, Shape
<1> QED BY <1>1, <1>2 DEF FixtureInv, Instances, Held, Based

\* A run no signal reached returns with nothing up (lifecycle.ts:113-120,
\* resolver.ts:78-84).
THEOREM ReturnIsClean == Spec => []ReturnLeavesNothingUp
<1>1. FixtureInv => ReturnLeavesNothingUp
  <2>1. SUFFICES ASSUME FixtureInv, exit = "returned", signals = 0, NEW i \in Up PROVE FALSE
    BY DEF ReturnLeavesNothingUp
  <2>2. /\ built[i].scope \in Scopes /\ built[i].scope <= scenario
        /\ teardown[built[i].scope].at # "done"
    BY <2>1, UpIsHeld
  <2>3. at = "closing" /\ teardown[0].at = "done"
    BY <2>1 DEF FixtureInv, Exits
  <2>4. built[i].scope \in Nat /\ scenario \in Nat
    <3>1. scenario \in Scopes
      BY <2>1 DEF FixtureInv, Shape
    <3> QED BY <2>2, <3>1, ScopeFacts
  <2>5. \/ built[i].scope = 0
        \/ 0 < built[i].scope /\ built[i].scope < scenario
        \/ scenario > 0 /\ built[i].scope = scenario
    BY <2>2, <2>4
  <2> QED BY <2>1, <2>2, <2>3, <2>5 DEF FixtureInv, Places, Busy
<1> QED BY <1>1, FixtureInvariant, PTL

\* Without a signal, what a fixture was built from is up for as long as it is
\* (resolver.ts:165-178).
THEOREM DependenciesOutlive == Spec => []DependencyOutlives
<1>1. FixtureInv => DependencyOutlives
  BY DEF FixtureInv, Supported, Up, DependencyOutlives
<1> QED BY <1>1, FixtureInvariant, PTL

\* The first signal's exit leaves nothing up that was up when it came
\* (process-signal.ts:11-17).
THEOREM SignalCleansUp == Spec => []SignalTearsDownWhatWasUp
<1>1. FixtureInv => SignalTearsDownWhatWasUp
  <2>1. SUFFICES ASSUME FixtureInv, exit = "signalled", signals = 1, NEW i \in upAtSignal, i \in Up
                 PROVE  FALSE
    BY DEF SignalTearsDownWhatWasUp
  <2>2. built[i].status = "up" /\ teardown[built[i].scope].at # "done"
    BY <2>1, UpIsHeld DEF Up
  <2>3. handler.at = "process" /\ teardown[0].at = "done"
    BY <2>1 DEF FixtureInv, Exits
  <2>4. built[i].scope \in {0, handler.scope}
    BY <2>1, <2>2 DEF FixtureInv, Marked
  <2>5. handler.scope = 0 \/ teardown[handler.scope].at = "done"
    BY <2>1, <2>3 DEF FixtureInv, Marked
  <2> QED BY <2>2, <2>3, <2>4, <2>5
<1> QED BY <1>1, FixtureInvariant, PTL

\* Whom a teardown that begins tells something.
LEMMA TeardownTells ==
  ASSUME FixtureInv, NEW s \in Scopes, NEW told \in Outcomes, Teardown(s, told),
         NEW i \in DOMAIN built, built'[i].told # built[i].told
  PROVE  built'[i].told = told /\ built'[i].scope = s /\ teardown[s].at = "none"
<1>1. teardown[s].at = "none" /\ Resume(s, Reverse(cache[s]), told)
  BY DEF Teardown
<1>2. Reverse(cache[s]) \in Seq(Nat) /\ Leavable(s, Reverse(cache[s]))
  BY ReverseLeavable DEF FixtureInv
<1>3. Resumed(s, Reverse(cache[s]), told)
  BY <1>1, <1>2, ResumeFrame DEF FixtureInv
<1>4. Reverse(cache[s]) # << >> /\ i = Reverse(cache[s])[1]
  BY <1>3 DEF Resumed
<1>5. built[i].scope = s
  BY <1>2, <1>4 DEF Leavable
<1> QED BY <1>1, <1>3, <1>4, <1>5 DEF Resumed

LEMMA TeardownDomain ==
  ASSUME FixtureInv, NEW s \in Scopes, NEW told \in Outcomes, Teardown(s, told)
  PROVE  DOMAIN built' = DOMAIN built
<1>1. CASE teardown[s].at # "none"
  BY <1>1 DEF Teardown
<1>2. CASE teardown[s].at = "none"
  <2>1. Reverse(cache[s]) \in Seq(Nat) /\ Leavable(s, Reverse(cache[s]))
    BY ReverseLeavable DEF FixtureInv
  <2>2. Resume(s, Reverse(cache[s]), told)
    BY <1>2 DEF Teardown
  <2> QED BY <2>1, <2>2, ResumeFrame DEF FixtureInv, Resumed
<1> QED BY <1>1, <1>2

LEMMA AwaitingTells ==
  ASSUME FixtureInv, NEW s \in Scopes, Awaiting(s),
         NEW i \in DOMAIN built, built'[i].told # built[i].told
  PROVE  /\ built'[i].told = built[teardown[s].left[1]].told /\ built'[i].scope = s
         /\ teardown[s].at = "running" /\ UNCHANGED <<at, failed, allPassed, signals>>
<1> DEFINE list == teardown[s].left
           told == built[Head(list)].told
<1>1. /\ teardown[s].at = "running" /\ Resume(s, Tail(list), told)
      /\ UNCHANGED <<at, failed, allPassed, signals>>
  BY DEF Awaiting, TeardownNext, TeardownTimeout, run
<1>2. list # << >> /\ list \in Seq(Nat) /\ Leavable(s, list)
  BY <1>1 DEF FixtureInv, Leaving, Shape, Teardowns
<1>3. Head(list) = list[1] /\ 1 \in DOMAIN list /\ list[1] \in DOMAIN built
  BY <1>2 DEF Leavable
<1>4. told \in Outcomes
  <2>1. told # "nothing" /\ built[list[1]] \in Instances
    BY <1>1, <1>3 DEF FixtureInv, Telling, Shape
  <2> QED BY <1>3, <2>1 DEF Instances, Outcomes
<1>5. Tail(list) \in Seq(Nat) /\ \A p \in DOMAIN Tail(list) : p + 1 \in DOMAIN list /\ Tail(list)[p] = list[p + 1]
  BY <1>2
<1>6. Leavable(s, Tail(list))
  <2>1. ASSUME NEW p \in DOMAIN Tail(list), NEW q \in DOMAIN Tail(list), p < q
        PROVE  Tail(list)[q] < Tail(list)[p]
    <3>1. p + 1 < q + 1
      BY <1>5, <2>1
    <3> QED BY <1>2, <1>5, <3>1 DEF Leavable
  <2> QED BY <1>2, <1>5, <2>1 DEF Leavable
<1> HIDE DEF told
<1>7. Resumed(s, Tail(list), told)
  BY <1>1, <1>4, <1>5, <1>6, ResumeFrame DEF FixtureInv
<1>8. Tail(list) # << >> /\ i = Tail(list)[1]
  BY <1>7 DEF Resumed
<1>9. built[i].scope = s
  <2>1. 1 \in DOMAIN Tail(list)
    BY <1>5, <1>8
  <2> QED BY <1>6, <1>8, <2>1 DEF Leavable
<1>10. built'[i].told = told /\ built'[i].scope = s
  BY <1>7, <1>8, <1>9 DEF Resumed
<1> QED BY <1>1, <1>3, <1>10 DEF told

\* "passed" is told only by a scope that ended well (run-scenario.ts:1011,
\* cli/run.ts:2285-2290), at every step from a state of the invariant.
LEMMA EarnedStep ==
  ASSUME FixtureInv, [Next]_vars, NEW i \in DOMAIN built', built'[i].told = "passed",
         i \in DOMAIN built => built[i].told = "nothing"
  PROVE  IF built'[i].scope = 0 THEN allPassed /\ (signals = 0 \/ teardown[0].at = "running")
         ELSE ~failed /\ at' = "teardown"
<1>0. i \in DOMAIN built => built'[i].told # built[i].told
  OBVIOUS
<1> DEFINE Well == IF built'[i].scope = 0 THEN allPassed /\ (signals = 0 \/ teardown[0].at = "running")
                   ELSE ~failed /\ at' = "teardown"
<1>1. CASE UNCHANGED built
  BY <1>0, <1>1
<1>2. CASE \E f \in Fixtures : Start(f)
  <2>1. PICK f \in Fixtures : Start(f)
    BY <1>2
  <2>2. /\ built' = Append(built, [name |-> f, scope |-> ScopeOf(f), deps |-> {have[d] : d \in Deps[f]},
                                   status |-> "setup", told |-> "nothing"])
        /\ built \in Seq(Instances)
    BY <2>1 DEF Start, FixtureInv, Shape
  <2>3. \/ i \in DOMAIN built /\ built'[i] = built[i]
        \/ built'[i].told = "nothing"
    BY <2>2
  <2> QED BY <1>0, <2>3
<1>3. CASE Use \/ (\E status \in {"late", "ended"} : SetupFails(status)) \/ \E j \in DOMAIN built : FixtureEnds(j)
  <2>1. ASSUME NEW j, NEW status, built' = [built EXCEPT ![j].status = status]
        PROVE  Well
    <3>1. i \in DOMAIN built /\ built[i] \in Instances
      BY <2>1 DEF FixtureInv, Shape
    <3>2. built'[i].told = built[i].told
      BY <2>1, <3>1 DEF Instances
    <3> QED BY <1>0, <3>1, <3>2
  <2>2. CASE Use
    BY <2>1, <2>2 DEF Use
  <2>3. CASE \E status \in {"late", "ended"} : SetupFails(status)
    BY <2>1, <2>3 DEF SetupFails
  <2>4. CASE \E j \in DOMAIN built : FixtureEnds(j)
    BY <2>1, <2>4 DEF FixtureEnds
  <2> QED BY <1>3, <2>2, <2>3, <2>4
<1>4. CASE \E j \in DOMAIN built : UseLate(j)
  <2>1. PICK j \in DOMAIN built : built' = [built EXCEPT ![j].status = "tearing", ![j].told = "failed"]
    BY <1>4 DEF UseLate
  <2>2. i \in DOMAIN built /\ built[i] \in Instances
    BY <2>1 DEF FixtureInv, Shape
  <2>3. built'[i].told = built[i].told \/ built'[i].told = "failed"
    BY <2>1, <2>2 DEF Instances
  <2> QED BY <1>0, <2>2, <2>3
<1>5. CASE ScenarioOver
  <2>1. /\ Teardown(scenario, outcome'[scenario]) /\ at = "over" /\ at' = "teardown"
        /\ outcome' = [outcome EXCEPT ![scenario] = IF failed THEN "failed" ELSE "passed"]
    BY <1>5 DEF ScenarioOver
  <2>2. scenario \in Scopes /\ scenario > 0 /\ scenario \in Nat /\ outcome \in [Scopes -> Outcomes]
    BY <2>1, ScopeFacts DEF FixtureInv, Places, Shape, Busy
  <2>3. outcome'[scenario] \in Outcomes /\ (outcome'[scenario] = "passed" => ~failed)
    BY <2>1, <2>2 DEF Outcomes
  <2>4. i \in DOMAIN built
    BY <2>1, <2>2, <2>3, TeardownDomain
  <2>5. built'[i].told = outcome'[scenario] /\ built'[i].scope = scenario
    BY <1>0, <2>1, <2>2, <2>3, <2>4, TeardownTells
  <2> QED BY <2>1, <2>2, <2>3, <2>5
<1>6. CASE Close
  <2> DEFINE told == IF signals > 0 THEN "failed" ELSE outcome'[0]
  <2>1. /\ Teardown(0, told)
        /\ outcome' = [outcome EXCEPT ![0] = IF allPassed THEN "passed" ELSE "failed"]
    BY <1>6 DEF Close
  <2>2. 0 \in Scopes /\ outcome \in [Scopes -> Outcomes] /\ signals \in Nat
    BY ScopeFacts, FixtureConstants DEF FixtureInv, Shape
  <2>3. told \in Outcomes /\ (told = "passed" => allPassed /\ signals = 0)
    BY <2>1, <2>2 DEF Outcomes
  <2> HIDE DEF told
  <2>4. i \in DOMAIN built
    BY <2>1, <2>2, <2>3, TeardownDomain
  <2>5. built'[i].told = told /\ built'[i].scope = 0
    BY <1>0, <2>1, <2>2, <2>3, <2>4, TeardownTells
  <2> QED BY <2>3, <2>5
<1>7. CASE Signal
  <2> DEFINE s == IF Registered THEN scenario ELSE 0
             told == IF Registered THEN outcome[scenario] ELSE "failed"
  <2>1. Teardown(s, told)
    BY <1>7 DEF Signal
  <2>2. scenario \in Scopes /\ 0 \in Scopes /\ s \in Scopes /\ told \in Outcomes
    BY ScopeFacts DEF FixtureInv, Shape, Outcomes
  <2>3. teardown[s].at = "none" => told = "failed"
    BY <2>2 DEF FixtureInv, Settled, Places, Registered, Outcomes
  <2> HIDE DEF s, told
  <2>4. i \in DOMAIN built
    BY <2>1, <2>2, TeardownDomain
  <2>5. built'[i].told = told /\ teardown[s].at = "none"
    BY <1>0, <2>1, <2>2, <2>4, TeardownTells
  <2> QED BY <2>3, <2>5
<1>8. CASE HandlerProcess
  <2>1. Teardown(0, "failed") /\ 0 \in Scopes /\ "failed" \in Outcomes
    BY <1>8, ScopeFacts DEF HandlerProcess, Outcomes
  <2>2. i \in DOMAIN built
    BY <2>1, TeardownDomain
  <2>3. built'[i].told = "failed"
    BY <1>0, <2>1, <2>2, TeardownTells
  <2> QED BY <2>3
<1>9. CASE \E s \in Scopes : Awaiting(s)
  <2>1. PICK s \in Scopes : Awaiting(s)
    BY <1>9
  <2>2. i \in DOMAIN built
    BY <2>1, AwaitingEffect DEF Tears
  <2>3. /\ built'[i].told = built[teardown[s].left[1]].told /\ built'[i].scope = s
        /\ teardown[s].at = "running" /\ UNCHANGED <<at, failed, allPassed, signals>>
    BY <1>0, <2>1, <2>2, AwaitingTells
  <2>4. IF s = 0 THEN at = "closing" /\ allPassed ELSE at = "teardown" /\ scenario = s /\ ~failed
    BY <2>3 DEF FixtureInv, Telling
  <2> QED BY <2>3, <2>4
<1> QED BY <1>1, <1>2, <1>3, <1>4, <1>5, <1>6, <1>7, <1>8, <1>9
     DEF Next, Run, Handler, Fixture, vars, run, Begin, Reuse, StepPasses, StepFails, ScenarioDone,
         Return, HandlerExit, SecondSignal

THEOREM PassedEarned == Spec => PassedIsEarned
<1>1. FixtureInv /\ [Next]_vars =>
        [\A i \in DOMAIN built' :
           (built'[i].told = "passed" /\ (i \in DOMAIN built => built[i].told = "nothing")) =>
             IF built'[i].scope = 0 THEN allPassed /\ (signals = 0 \/ teardown[0].at = "running")
             ELSE ~failed /\ at' = "teardown"]_vars
  BY EarnedStep
<1> QED BY <1>1, FixtureInvariant, PTL DEF Spec, PassedIsEarned
=============================================================================

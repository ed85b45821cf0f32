----------------------------- MODULE Parts_proofs -----------------------------
(***************************************************************************)
(* The theorems about five parts that share nothing, the ones MCParts      *)
(* checks beside each other: the order guard and what it guards, the run   *)
(* directories, the passes over other trees, the judgment of a claim by    *)
(* the program's events, and the lines out of a pipe.                      *)
(***************************************************************************)
EXTENDS FromOrder, LineBuffer, RunDirs, OtherWorlds, ExecutionEvents,
        FiniteSetTheorems, SequenceTheorems, TLAPS

-----------------------------------------------------------------------------
(***************************************************************************)
(* FromOrder.                                                              *)
(* The guard and the run agree, for every vocabulary and every scenario.   *)
(***************************************************************************)

(* What the guard reads in the text is what the run finds in the results:  *)
(* the steps of the lines before, all of which passed.                     *)

\* `had` has a result of each line before k, and of no other.
Has(k, had) == DOMAIN had = {pickle[j].step : j \in 1..(k - 1)} \cap Vocabulary

\* A key the attachment fills is none of `from`'s.
LEMMA OpenIsAsked ==
  ASSUME NEW k
  PROVE  Asked(k) = Open(k)
BY DEF Asked, Open, AttachmentFills, UnconsumedRequired

\* The producers the guard counts are those the run will meet.
LEMMA PresentIsBound ==
  ASSUME NEW k, NEW key, NEW had, Has(k, had)
  PROVE  Present(k, key, had) = BoundBefore(k, key)
<1>1. \A s : s \in DOMAIN had <=> s \in Vocabulary /\ \E j \in 1..(k - 1) : pickle[j].step = s
  BY DEF Has
<1> QED BY <1>1 DEF Present, BoundBefore, Named

\* An ambiguous line is one the run cannot decide.
LEMMA AmbiguousIsUndecided ==
  ASSUME NEW k, NEW had, Has(k, had)
  PROVE  Undecided(k, had) <=> AmbiguousKeys(k) # {}
<1>1. \A key : Present(k, key, had) = BoundBefore(k, key)
  BY PresentIsBound
<1> QED BY <1>1, OpenIsAsked DEF Undecided, AmbiguousKeys

\* A key the guard calls missing or unfillable is one the args will lack.
LEMMA IssueIsLack ==
  ASSUME NEW k, NEW had, Has(k, had)
  PROVE  /\ MissingKeys(k) \subseteq Lacking(k, had)
         /\ UnfillableKeys(k) \subseteq Lacking(k, had)
<1>1. \A key : Present(k, key, had) = BoundBefore(k, key)
  BY PresentIsBound
<1>2. MissingKeys(k) \subseteq Lacking(k, had)
  <2>1. ASSUME NEW key \in MissingKeys(k)
        PROVE  key \notin Filled(k, had)
    BY <2>1, <1>1 DEF MissingKeys, Filled
  <2> QED BY <2>1, OpenIsAsked DEF MissingKeys, Lacking, Asked
<1>3. UnfillableKeys(k) \subseteq Lacking(k, had)
  BY DEF UnfillableKeys, Lacking, UnconsumedRequired, Filled, Asked
<1> QED BY <1>2, <1>3

\* And the other way: a key the args lack has a producer that lacks it, has
\* no registered one, or is one of those the guard names.
LEMMA LackIsIssue ==
  ASSUME NEW k, NEW had, Has(k, had), ~BindFails(k),
         NEW key \in Lacking(k, had), UnfillableKeys(k) = {}, MissingKeys(k) = {}
  PROVE  /\ key \in Asked(k)
         /\ Named(k, key) = {} \/ Present(k, key, had) # {}
<1>1. key \in Asked(k)
  BY DEF Lacking, Asked, UnfillableKeys, UnconsumedRequired, BindFails
<1>2. Present(k, key, had) = BoundBefore(k, key)
  BY PresentIsBound
<1>3. key \in Open(k) \cap Required[pickle[k].step]
  BY <1>1, OpenIsAsked DEF Lacking
<1> QED BY <1>1, <1>2, <1>3 DEF MissingKeys

-----------------------------------------------------------------------------
(* The refusals.                                                           *)

\* What all the lines before k could have returned is one such `had`.
LEMMA MostHas ==
  ASSUME NEW k
  PROVE  Has(k, MostBefore(k))
BY DEF Has, MostBefore

\* A refusal is right whatever the state: it follows from the text alone.
LEMMA IssuesAreCertain ==
  ASSUME NEW k, Issues(k)
  PROVE  BindFails(k) \/ Undecided(k, MostBefore(k)) \/ Lacking(k, MostBefore(k)) # {}
BY MostHas, AmbiguousIsUndecided, IssueIsLack DEF Issues

\* A line the guard refuses would fail before its body in every run
\* (checkFromOrder and checkUnfillableKeys before runScenario's first line).
THEOREM RefusalsRight == Spec => []RefusalIsCertain
<1>1. RefusalIsCertain
  BY IssuesAreCertain DEF RefusalIsCertain
<1> QED BY <1>1, PTL

-----------------------------------------------------------------------------
(* The scenarios let through.  Every line before the one it is at passed,  *)
(* so each is matched and has its result in the chain.                     *)

FedPassed ==
  /\ pickle \in Pickles /\ line \in Nat
  /\ \A j \in 1..(line - 1) : Matched(j)
  /\ DOMAIN chain = {pickle[j].step : j \in 1..(line - 1)}

GuardJudged ==
  /\ line = 0 => ended = "no"
  /\ line # 0 /\ ended # "refused" => \A k \in DOMAIN pickle : ~Issues(k)

FedInv == FedPassed /\ GuardJudged /\ LetThroughIsFed

\* At a line, the chain has what the guard counted on.
LEMMA ChainHas ==
  ASSUME FedPassed
  PROVE  Has(line, chain) /\ ~HeldBack(line)
<1>1. Has(line, chain)
  BY DEF FedPassed, Has, Matched
<1>2. ~HeldBack(line)
  BY FromOrderConstants DEF FedPassed, HeldBack, Matched, Unmatched
<1> QED BY <1>1, <1>2

\* The first line is line 1.
LEMMA LinesFromOne ==
  ASSUME FedPassed, AtLine
  PROVE  line \in Nat \ {0}
<1>1. PICK S : pickle \in Seq(S)
  BY FromOrderConstants DEF FedPassed
<1>2. DOMAIN pickle = 1..Len(pickle)
  BY <1>1
<1> QED BY <1>2 DEF AtLine, FedPassed

\* The guard leaves no issue to a scenario it lets run.
LEMMA GuardJudges == FedInv /\ Guard => FedInv'
<1> SUFFICES ASSUME FedInv, Guard PROVE FedInv'
  OBVIOUS
<1>1. \A k : Issues(k)' <=> Issues(k)
  BY DEF Guard, Issues, Matched, AmbiguousKeys, MissingKeys, UnfillableKeys, HeldBack, Open,
         BoundBefore, Named, AttachmentFills, UnconsumedRequired
<1>2. FedPassed'
  BY DEF FedInv, FedPassed, Guard
<1>3. GuardJudged'
  BY <1>1 DEF Guard, GuardJudged
<1>4. LetThroughIsFed'
  BY DEF Guard, LetThroughIsFed
<1> QED BY <1>2, <1>3, <1>4 DEF FedInv

\* A failure changes nothing but `ended`.
LEMMA FailKeeps ==
  ASSUME FedInv, AtLine, NEW why, why # "refused", Fail(why)
  PROVE  FedPassed' /\ GuardJudged'
<1>1. FedPassed'
  BY DEF FedInv, FedPassed, Fail, Matched
<1>2. line # 0
  BY LinesFromOne DEF FedInv
<1>3. \A k : Issues(k)' <=> Issues(k)
  BY DEF Fail, Issues, Matched, AmbiguousKeys, MissingKeys, UnfillableKeys, HeldBack, Open,
         BoundBefore, Named, AttachmentFills, UnconsumedRequired
<1>4. GuardJudged'
  BY <1>2, <1>3 DEF FedInv, GuardJudged, Fail, AtLine
<1> QED BY <1>1, <1>4

\* A failure other than for the args says nothing of them.
LEMMA OtherFailures ==
  ASSUME FedInv, AtLine, NEW why, why \notin {"internal", "args_lack", "refused"}, Fail(why)
  PROVE  FedInv'
BY FailKeeps DEF Fail, LetThroughIsFed, FedInv

\* The args fail for nothing the guard should have seen.
LEMMA ArgsFailFed == FedInv /\ ArgsFail => FedInv'
<1> SUFFICES ASSUME FedInv, ArgsFail PROVE FedInv'
  OBVIOUS
<1>1. Has(line, chain) /\ ~HeldBack(line)
  BY ChainHas DEF FedInv
<1>2. /\ AtLine /\ Matched(line) /\ ~BindFails(line)
      /\ line \in DOMAIN pickle
  BY DEF ArgsFail, Fed, AtLine
<1>3. ~Issues(line)
  BY <1>2, LinesFromOne DEF FedInv, GuardJudged, AtLine
<1>4. AmbiguousKeys(line) = {} /\ MissingKeys(line) = {} /\ UnfillableKeys(line) = {}
  BY <1>1, <1>2, <1>3 DEF Issues
<1>5. ~Undecided(line, chain)
  BY <1>1, <1>4, AmbiguousIsUndecided
<1>6. PICK why \in {"args_lack", "args_invalid"} : Fail(why)
  BY <1>5 DEF ArgsFail
<1>7. \A key \in Lacking(line, chain) :
        key \in Asked(line) /\ (Named(line, key) = {} \/ Present(line, key, chain) # {})
  BY <1>1, <1>2, <1>4, LackIsIssue
<1>8. LetThroughIsFed'
  <2>1. /\ Lacking(line, chain)' = Lacking(line, chain) /\ Asked(line)' = Asked(line)
        /\ \A key : Named(line, key)' = Named(line, key)
        /\ \A key : Present(line, key, chain)' = Present(line, key, chain)
    BY <1>6 DEF Fail, Lacking, Asked, Named, Present, Filled, AttachmentFills, UnconsumedRequired
  <2> QED BY <1>6, <1>7, <2>1 DEF Fail, LetThroughIsFed
<1> QED BY <1>2, <1>6, <1>8, FailKeeps DEF FedInv

\* A line that passes adds its step to the chain.
LEMMA BodyReturnsFed == FedInv /\ BodyReturns => FedInv'
<1> SUFFICES ASSUME FedInv, BodyReturns PROVE FedInv'
  OBVIOUS
<1>1. /\ AtLine /\ Matched(line) /\ line' = line + 1 /\ UNCHANGED <<pickle, ended>>
      /\ DOMAIN chain' = DOMAIN chain \cup {pickle[line].step}
  BY DEF BodyReturns, Given, Fed
<1>2. line \in Nat \ {0}
  BY <1>1, LinesFromOne DEF FedInv
<1>3. 1..(line' - 1) = 1..(line - 1) \cup {line}
  BY <1>1, <1>2
<1>4. FedPassed'
  BY <1>1, <1>2, <1>3 DEF FedInv, FedPassed, Matched
<1>5. \A k : Issues(k)' <=> Issues(k)
  BY <1>1 DEF Issues, Matched, AmbiguousKeys, MissingKeys, UnfillableKeys, HeldBack, Open,
         BoundBefore, Named, AttachmentFills, UnconsumedRequired
<1>6. GuardJudged'
  BY <1>1, <1>2, <1>5 DEF FedInv, GuardJudged
<1>7. LetThroughIsFed'
  BY <1>1 DEF AtLine, LetThroughIsFed
<1> QED BY <1>4, <1>6, <1>7 DEF FedInv

LEMMA FedInvHolds == Spec => []FedInv
<1>1. Init => FedInv
  BY DEF Init, FedInv, FedPassed, GuardJudged, LetThroughIsFed
<1>2. FedInv /\ [Next]_vars => FedInv'
  <2> SUFFICES ASSUME FedInv, [Next]_vars PROVE FedInv'
    OBVIOUS
  <2>1. CASE Guard
    BY <2>1, GuardJudges
  <2>2. CASE RunUnmatched
    <3> DEFINE L == [step : Vocabulary \cup Unmatched,
                     captures : SUBSET UNION {Required[s] \cup DOMAIN From[s] : s \in Vocabulary},
                     attached : BOOLEAN]
    <3>1. pickle \in Seq(L)
      BY FromOrderConstants DEF FedInv, FedPassed
    <3>2. pickle[line] \in L
      <4> HIDE DEF L
      <4>1. line \in 1..Len(pickle)
        BY <2>2, <3>1 DEF RunUnmatched, AtLine
      <4> QED BY <3>1, <4>1
    <3>3. pickle[line].step \in Unmatched
      BY <2>2, <3>2 DEF RunUnmatched, Matched
    <3>4. pickle[line].step \notin {"internal", "args_lack", "refused"}
      BY <3>3 DEF Unmatched
    <3> QED BY <2>2, <3>4, OtherFailures DEF RunUnmatched
  <2>3. CASE Bind
    BY <2>3, OtherFailures DEF Bind
  <2>4. CASE ArgsFail
    BY <2>4, ArgsFailFed
  <2>5. CASE BodyThrows
    BY <2>5, OtherFailures DEF BodyThrows, Given, Fed
  <2>6. CASE BodyReturns
    BY <2>6, BodyReturnsFed
  <2>7. CASE UNCHANGED vars
    <3>1. FedPassed'
      BY <2>7 DEF vars, FedInv, FedPassed, Matched
    <3>2. \A k : Issues(k)' <=> Issues(k)
      BY <2>7 DEF vars, Issues, Matched, AmbiguousKeys, MissingKeys, UnfillableKeys, HeldBack, Open,
             BoundBefore, Named, AttachmentFills, UnconsumedRequired
    <3>3. GuardJudged'
      BY <2>7, <3>2 DEF vars, FedInv, GuardJudged
    <3>4. LetThroughIsFed'
      BY <2>7 DEF vars, FedInv, LetThroughIsFed, Lacking, Asked, Filled, Named, Present,
             AttachmentFills, UnconsumedRequired
    <3> QED BY <3>1, <3>3, <3>4 DEF FedInv
  <2> QED BY <2>1, <2>2, <2>3, <2>4, <2>5, <2>6, <2>7 DEF Next
<1> QED BY <1>1, <1>2, PTL DEF Spec

\* A scenario the guard lets through never fails for want of a producer: the
\* throw of injectFrom called unreachable is, and `from` fills what it can
\* (injectFrom in run-scenario.ts).
THEOREM LetThroughFed == Spec => []LetThroughIsFed
BY FedInvHolds, PTL DEF FedInv

\* Both: what checkFromOrder and checkUnfillableKeys say of a scenario's text
\* is what injectFrom and args validation do with it.
THEOREM GuardExact == Spec => []GuardIsExact
BY RefusalsRight, LetThroughFed, PTL DEF GuardIsExact

-----------------------------------------------------------------------------
(***************************************************************************)
(* RunDirs.                                                                *)
(* Why a run directory is lost, for any number of runs, any retention and  *)
(* any number of kills and of `nuka clean` commands one after another.     *)
(***************************************************************************)

(* The invariant.  What a plan holds was due when it was made, and what    *)
(* made it due does not go away.                                           *)

DirPhases == {"before", "starting", "made", "running", "ranking", "aging", "written", "over", "killed"}

DirsTypeOK ==
  /\ walks \subseteq Runs /\ phase \in [Runs -> DirPhases]
  /\ dir \in [Runs -> {"none", "open", "ended"}]
  /\ silent \subseteq Runs /\ sweep \subseteq Runs /\ counted \subseteq Runs
  /\ old \in [Runs -> SUBSET Runs] /\ plan \in [Runs -> SUBSET Runs]
  /\ cleaner \in {"idle", "looked", "removing"}

\* A run.json is written at the end of its run and nowhere else.
EndsLate ==
  \A r \in Runs :
    /\ phase[r] \in {"ranking", "aging", "written"} => r \in counted
    /\ phase[r] = "before" => dir[r] = "none"
    /\ phase[r] = "starting" => dir[r] = "none"
    /\ phase[r] = "written" => dir[r] # "open"
    /\ dir[r] = "ended" => r \in counted /\ phase[r] \in {"written", "over", "killed"}

SilenceIsKept ==
  /\ \A s \in silent : dir[s] # "none" /\ (dir[s] = "open" => <<s, "open">> \in silences)
  /\ \A r, s \in Runs : s \in old[r] => <<s, "open">> \in silences

PlansAreDue ==
  \A r \in Runs : \A s \in plan[r] :
    /\ phase[r] = "ranking" => EnoughNewer(s)
    /\ phase[r] = "aging" => <<s, "open">> \in silences

\* The walk it saw and may remove has ended by then.
SweepIsDue ==
  /\ cleaner # "removing" => sweep = {}
  /\ \A s \in sweep : s = live => phase[s] \in {"written", "over", "killed"}

DirsInv == DirsTypeOK /\ EndsLate /\ SilenceIsKept /\ PlansAreDue /\ SweepIsDue

-----------------------------------------------------------------------------
(* The steps of a run.                                                     *)

\* A run that comes to its end makes no count of newer runs smaller.
LEMMA CountGrows ==
  ASSUME MaxRuns \in Nat, Keep \in Nat, NEW S \in SUBSET Runs, NEW T \in SUBSET Runs, S \subseteq T,
         NEW s \in Runs, Cardinality({t \in S : t > s}) >= Keep
  PROVE  Cardinality({t \in T : t > s}) >= Keep
<1>1. IsFiniteSet(Runs)
  BY FS_Interval DEF Runs
<1>2. IsFiniteSet({t \in T : t > s})
  BY <1>1, FS_Subset
<1>3. {t \in S : t > s} \subseteq {t \in T : t > s}
  OBVIOUS
<1>4. /\ IsFiniteSet({t \in S : t > s})
      /\ Cardinality({t \in S : t > s}) <= Cardinality({t \in T : t > s})
  BY <1>2, <1>3, FS_Subset
<1>5. Cardinality({t \in S : t > s}) \in Nat /\ Cardinality({t \in T : t > s}) \in Nat
  BY <1>2, <1>4, FS_CardinalityType
<1> QED BY <1>4, <1>5

\* Its own phase, and no other, moves.
LEMMA MoveKeepsOthers ==
  ASSUME DirsInv, NEW r \in Runs, NEW from, NEW to \in DirPhases, Moves(r, from, to)
  PROVE  /\ phase' \in [Runs -> DirPhases] /\ phase[r] = from /\ phase'[r] = to
         /\ \A s \in Runs \ {r} : phase'[s] = phase[s]
BY DEF DirsInv, DirsTypeOK, Moves

LEMMA StepsBeforeTheEnd ==
  ASSUME DirsInv, NEW r \in Runs,
         Start(r) \/ MakeDir(r) \/ Begin(r) \/ WriteStep(r) \/ Kill(r) \/ GoSilent(r) \/ End(r)
  PROVE  DirsInv'
<1>1. CASE Start(r)
  <2>1. PICK to \in {"starting", "running"} : Moves(r, "before", to)
    BY <1>1 DEF Start
  <2>2. /\ phase' \in [Runs -> DirPhases] /\ phase[r] = "before" /\ phase'[r] = to
        /\ \A s \in Runs \ {r} : phase'[s] = phase[s]
    BY <2>1, MoveKeepsOthers DEF DirPhases
  <2> QED BY <1>1, <2>2 DEF Start, DirsInv, DirsTypeOK, EndsLate, SilenceIsKept, PlansAreDue, SweepIsDue, EnoughNewer, cleanVars
<1>2. CASE MakeDir(r)
  <2>1. /\ phase' \in [Runs -> DirPhases] /\ phase[r] = "starting" /\ phase'[r] = "made"
        /\ \A s \in Runs \ {r} : phase'[s] = phase[s]
    BY <1>2, MoveKeepsOthers DEF MakeDir, DirPhases
  <2> QED BY <1>2, <2>1 DEF MakeDir, DirsInv, DirsTypeOK, EndsLate, SilenceIsKept, PlansAreDue, SweepIsDue, EnoughNewer, cleanVars
<1>3. CASE Begin(r)
  <2>1. /\ phase' \in [Runs -> DirPhases] /\ phase[r] = "made" /\ phase'[r] = "running"
        /\ \A s \in Runs \ {r} : phase'[s] = phase[s]
    BY <1>3, MoveKeepsOthers DEF Begin, DirPhases
  <2> QED BY <1>3, <2>1 DEF Begin, DirsInv, DirsTypeOK, EndsLate, SilenceIsKept, PlansAreDue, SweepIsDue, EnoughNewer, cleanVars
<1>4. CASE WriteStep(r)
  BY <1>4 DEF WriteStep, DirsInv, DirsTypeOK, EndsLate, SilenceIsKept, PlansAreDue, SweepIsDue, EnoughNewer, cleanVars
<1>5. CASE Kill(r)
  BY <1>5 DEF Kill, DirsInv, DirsTypeOK, EndsLate, SilenceIsKept, PlansAreDue, SweepIsDue, EnoughNewer, cleanVars, DirPhases
<1>6. CASE GoSilent(r)
  BY <1>6 DEF GoSilent, DirsInv, DirsTypeOK, EndsLate, SilenceIsKept, PlansAreDue, SweepIsDue, EnoughNewer, cleanVars, runVars
<1>7. CASE End(r)
  <2>1. /\ phase' \in [Runs -> DirPhases] /\ phase[r] = "written" /\ phase'[r] = "over"
        /\ \A s \in Runs \ {r} : phase'[s] = phase[s]
    BY <1>7, MoveKeepsOthers DEF End, DirPhases
  <2> QED BY <1>7, <2>1 DEF End, DirsInv, DirsTypeOK, EndsLate, SilenceIsKept, PlansAreDue, SweepIsDue, EnoughNewer, cleanVars
<1> QED BY <1>1, <1>2, <1>3, <1>4, <1>5, <1>6, <1>7

-----------------------------------------------------------------------------
(* Its retention.                                                          *)

\* The run rule drops what Keep ended runs, or this one, are newer than.
LEMMA RankKeeps ==
  ASSUME MaxRuns \in Nat, Keep \in Nat, DirsInv, NEW r \in Runs, RankRuns(r)
  PROVE  DirsInv'
<1>1. /\ phase' \in [Runs -> DirPhases] /\ phase[r] = "running" /\ phase'[r] = "ranking"
      /\ \A s \in Runs \ {r} : phase'[s] = phase[s]
  BY MoveKeepsOthers DEF RankRuns, DirPhases
<1>2. DirsTypeOK'
  BY <1>1 DEF RankRuns, DirsInv, DirsTypeOK, Dropped, Ranked, EndedDirs, Dated, cleanVars
<1>3. EndsLate'
  BY <1>1 DEF RankRuns, DirsInv, DirsTypeOK, EndsLate
<1>4. SilenceIsKept'
  <2>1. \A s \in Dated(r) : s \in Runs /\ <<s, "open">> \in silences
    BY DEF DirsInv, DirsTypeOK, SilenceIsKept, Dated, Ranked, EndedDirs
  <2>2. /\ \A q \in Runs : old'[q] = IF q = r THEN Dated(r) ELSE old[q]
        /\ UNCHANGED <<dir, silent, silences>>
    BY DEF RankRuns, DirsInv, DirsTypeOK
  <2> QED BY <2>1, <2>2 DEF DirsInv, SilenceIsKept
<1>5. \A s \in Runs : EnoughNewer(s) => EnoughNewer(s)'
  <2> SUFFICES ASSUME NEW s \in Runs, EnoughNewer(s) PROVE EnoughNewer(s)'
    OBVIOUS
  <2>1. counted \subseteq counted' /\ counted' \subseteq Runs
    BY DEF RankRuns, DirsInv, DirsTypeOK
  <2>2. Cardinality({t \in counted' : t > s}) >= Keep
    BY <2>1, CountGrows DEF EnoughNewer
  <2> QED BY <2>2 DEF EnoughNewer
<1>6. \A s \in plan'[r] : EnoughNewer(s)'
  <2> SUFFICES ASSUME NEW s \in plan'[r] PROVE EnoughNewer(s)'
    OBVIOUS
  <2>1. s \in Runs /\ Cardinality({t \in Ranked(r) : t > s}) >= Keep
    BY DEF RankRuns, DirsInv, DirsTypeOK, Dropped, Ranked, EndedDirs
  <2>2. Ranked(r) \subseteq counted' /\ counted' \subseteq Runs
    BY <1>2 DEF RankRuns, Ranked, EndedDirs, DirsInv, EndsLate, DirsTypeOK
  <2> QED BY <2>1, <2>2, CountGrows DEF EnoughNewer
<1>7. PlansAreDue'
  <2> SUFFICES ASSUME NEW q \in Runs, NEW s \in plan'[q]
               PROVE  /\ phase'[q] = "ranking" => EnoughNewer(s)'
                      /\ phase'[q] = "aging" => <<s, "open">> \in silences'
    BY DEF PlansAreDue
  <2>1. CASE q = r
    BY <2>1, <1>1, <1>6
  <2>2. CASE q # r
    <3>1. plan'[q] = plan[q] /\ phase'[q] = phase[q] /\ s \in Runs
      BY <2>2, <1>1 DEF RankRuns, DirsInv, DirsTypeOK
    <3> QED BY <3>1, <1>5 DEF RankRuns, DirsInv, PlansAreDue
  <2> QED BY <2>1, <2>2
<1>8. SweepIsDue'
  BY <1>1 DEF RankRuns, DirsInv, DirsTypeOK, SweepIsDue, cleanVars
<1> QED BY <1>2, <1>3, <1>4, <1>7, <1>8 DEF DirsInv

LEMMA RetentionKeeps ==
  ASSUME DirsInv, NEW r \in Runs, RemovePlanned(r) \/ AgeDirs(r) \/ WriteRunJson(r)
  PROVE  DirsInv'
<1>1. CASE RemovePlanned(r)
  <2>1. DirsTypeOK' /\ EndsLate' /\ SweepIsDue'
    BY <1>1 DEF RemovePlanned, Remove, DirsInv, DirsTypeOK, EndsLate, SweepIsDue, cleanVars
  <2>2. SilenceIsKept'
    BY <1>1 DEF RemovePlanned, Remove, DirsInv, DirsTypeOK, SilenceIsKept
  <2>3. PlansAreDue'
    <3> SUFFICES ASSUME NEW q \in Runs, NEW s \in plan'[q]
                 PROVE  /\ phase'[q] = "ranking" => EnoughNewer(s)'
                        /\ phase'[q] = "aging" => <<s, "open">> \in silences'
      BY Zenon DEF PlansAreDue
    <3>1. s \in plan[q] /\ UNCHANGED <<phase, silences, counted>>
      BY <1>1 DEF RemovePlanned, Remove, DirsInv, DirsTypeOK
    <3> QED BY <3>1 DEF DirsInv, PlansAreDue, EnoughNewer
  <2> QED BY <2>1, <2>2, <2>3 DEF DirsInv
<1>2. CASE AgeDirs(r)
  <2>1. /\ phase' \in [Runs -> DirPhases] /\ phase[r] = "ranking" /\ phase'[r] = "aging"
        /\ \A s \in Runs \ {r} : phase'[s] = phase[s]
    BY <1>2, MoveKeepsOthers DEF AgeDirs, DirPhases
  <2>2. DirsTypeOK' /\ EndsLate'
    BY <1>2, <2>1 DEF AgeDirs, DirsInv, DirsTypeOK, EndsLate, cleanVars
  <2>3. SilenceIsKept'
    BY <1>2, <2>1 DEF AgeDirs, DirsInv, DirsTypeOK, SilenceIsKept
  <2>4. PlansAreDue'
    <3> SUFFICES ASSUME NEW q \in Runs, NEW s \in plan'[q]
                 PROVE  /\ phase'[q] = "ranking" => EnoughNewer(s)'
                        /\ phase'[q] = "aging" => <<s, "open">> \in silences'
      BY Zenon DEF PlansAreDue
    <3>1. UNCHANGED <<silences, counted>>
      BY <1>2 DEF AgeDirs
    <3>2. CASE q = r
      BY <1>2, <2>1, <3>1, <3>2 DEF AgeDirs, DirsInv, DirsTypeOK, SilenceIsKept
    <3>3. CASE q # r
      <4>1. plan'[q] = plan[q] /\ phase'[q] = phase[q]
        BY <1>2, <2>1, <3>3 DEF AgeDirs, DirsInv, DirsTypeOK
      <4> QED BY <3>1, <4>1 DEF DirsInv, PlansAreDue, EnoughNewer
    <3> QED BY <3>2, <3>3
  <2>5. SweepIsDue'
    BY <1>2, <2>1 DEF AgeDirs, DirsInv, DirsTypeOK, SweepIsDue, cleanVars
  <2> QED BY <2>2, <2>3, <2>4, <2>5 DEF DirsInv
<1>3. CASE WriteRunJson(r)
  <2>1. PICK to \in {"written", "over"} : Moves(r, "aging", to)
    BY <1>3 DEF WriteRunJson
  <2>2. /\ phase' \in [Runs -> DirPhases] /\ phase[r] = "aging" /\ phase'[r] = to
        /\ \A s \in Runs \ {r} : phase'[s] = phase[s]
    BY <2>1, MoveKeepsOthers DEF DirPhases
  <2>3. DirsTypeOK' /\ EndsLate'
    BY <1>3, <2>2 DEF WriteRunJson, DirsInv, DirsTypeOK, EndsLate, cleanVars
  <2>4. SilenceIsKept'
    BY <1>3, <2>2 DEF WriteRunJson, DirsInv, DirsTypeOK, SilenceIsKept
  <2>5. PlansAreDue' /\ SweepIsDue'
    BY <1>3, <2>2 DEF WriteRunJson, DirsInv, DirsTypeOK, PlansAreDue, SweepIsDue, EnoughNewer, cleanVars
  <2> QED BY <2>3, <2>4, <2>5 DEF DirsInv
<1> QED BY <1>1, <1>2, <1>3

-----------------------------------------------------------------------------
(* nuka clean.                                                             *)

LEMMA CleanKeeps ==
  ASSUME DirsInv, Look \/ List \/ Sweep \/ Cleaned
  PROVE  DirsInv'
<1>1. CASE Look
  BY <1>1 DEF Look, DirsInv, DirsTypeOK, EndsLate, SilenceIsKept, PlansAreDue, SweepIsDue, EnoughNewer, runVars
<1>2. CASE List
  \* What it spares keeps a walk's directory until that has its run.json.
  <2>1. \A s \in sweep' : s = live' => phase'[s] \in {"written", "over", "killed"}
    <3> SUFFICES ASSUME NEW s \in Runs, s = live, live # 0, ~Spares(s)
                 PROVE  phase[s] \in {"written", "over", "killed"}
      BY <1>2 DEF List, runVars, Runs
    <3>1. dir[s] = "ended"
      BY DEF Spares
    <3> QED BY <3>1 DEF DirsInv, EndsLate
  <2> QED BY <1>2, <2>1 DEF List, DirsInv, DirsTypeOK, EndsLate, SilenceIsKept, PlansAreDue, SweepIsDue,
             EnoughNewer, runVars
<1>3. CASE Sweep
  BY <1>3 DEF Sweep, Remove, DirsInv, DirsTypeOK, EndsLate, SilenceIsKept, PlansAreDue, SweepIsDue,
         EnoughNewer, runVars
<1>4. CASE Cleaned
  BY <1>4 DEF Cleaned, DirsInv, DirsTypeOK, EndsLate, SilenceIsKept, PlansAreDue, SweepIsDue, EnoughNewer, runVars
<1> QED BY <1>1, <1>2, <1>3, <1>4

-----------------------------------------------------------------------------
(* The theorem.                                                            *)

LEMMA DirsInvHolds ==
  ASSUME MaxRuns \in Nat, Keep \in Nat
  PROVE  DirsSpec => []DirsInv
<1>1. DirsInit => DirsInv
  BY DEF DirsInit, DirsInv, DirsTypeOK, EndsLate, SilenceIsKept, PlansAreDue, SweepIsDue, DirPhases
<1>2. DirsInv /\ [DirsNext]_dirsVars => DirsInv'
  <2> SUFFICES ASSUME DirsInv, [DirsNext]_dirsVars PROVE DirsInv'
    OBVIOUS
  <2>1. ASSUME NEW r \in Runs, RunStep(r) PROVE DirsInv'
    BY <2>1, StepsBeforeTheEnd, RankKeeps, RetentionKeeps DEF RunStep
  <2>2. CASE UNCHANGED dirsVars
    BY <2>2 DEF dirsVars, DirsInv, DirsTypeOK, EndsLate, SilenceIsKept, PlansAreDue, SweepIsDue, EnoughNewer
  <2> QED BY <2>1, <2>2, CleanKeeps DEF DirsNext
<1> QED BY <1>1, <1>2, PTL DEF DirsSpec

\* A directory is gone for a plan of a retention, or for the sweep.
LEMMA OnlyRemovalsLose ==
  ASSUME DirsInv, [DirsNext]_dirsVars, NEW s \in Runs, Loses(s)
  PROVE  \/ \E r \in Runs : RemovePlanned(r)
         \/ Sweep
<1>1. ASSUME NEW r \in Runs, RunStep(r) PROVE RemovePlanned(r)
  <2>1. ~(\/ Start(r) \/ Begin(r) \/ RankRuns(r) \/ AgeDirs(r) \/ End(r) \/ Kill(r) \/ GoSilent(r))
    BY DEF Loses, Start, Begin, RankRuns, AgeDirs, End, Kill, GoSilent
  <2>2. ~(MakeDir(r) \/ WriteStep(r) \/ WriteRunJson(r))
    BY DEF Loses, MakeDir, WriteStep, WriteRunJson, DirsInv, DirsTypeOK
  <2> QED BY <1>1, <2>1, <2>2 DEF RunStep
<1>2. ~(Look \/ List \/ Cleaned) /\ ~UNCHANGED dirsVars
  BY DEF Loses, Look, List, Cleaned, dirsVars
<1> QED BY <1>1, <1>2 DEF DirsNext

\* A run directory is lost only when Keep newer runs came to their end, when
\* it fell silent before it had a run.json, or to a `nuka clean` that saw no
\* walk writing there (applyRetention, runClean).
THEOREM LossesDue ==
  ASSUME MaxRuns \in Nat, Keep \in Nat
  PROVE  DirsSpec => LossesAreDue
<1>1. DirsInv /\ [DirsNext]_dirsVars => LossIsDue
  <2> SUFFICES ASSUME DirsInv, [DirsNext]_dirsVars, NEW s \in Runs, Loses(s)
               PROVE  /\ \A r \in Runs : Removes(r, s) =>
                           IF phase[r] = "ranking" THEN EnoughNewer(s)
                           ELSE <<s, "open">> \in silences
                      /\ s \in sweep \ sweep' => ~(s = live /\ s \in LiveWalks /\ dir[s] = "open")
    BY DEF LossIsDue
  <2>1. ASSUME NEW r \in Runs, RemovePlanned(r)
        PROVE  /\ Removes(r, s) => IF phase[r] = "ranking" THEN EnoughNewer(s)
                                   ELSE <<s, "open">> \in silences
               /\ \A q \in Runs \ {r} : ~Removes(q, s)
               /\ sweep' = sweep
    BY <2>1 DEF RemovePlanned, Removes, DirsInv, DirsTypeOK, PlansAreDue, cleanVars
  <2>2. CASE Sweep
    BY <2>2 DEF Sweep, Removes, runVars, LiveWalks, Over, DirsInv, SweepIsDue, EndsLate, DirsTypeOK
  <2> QED BY <2>1, <2>2, OnlyRemovalsLose
<1>2. DirsSpec => [][DirsNext]_dirsVars
  BY DEF DirsSpec
<1> QED BY <1>1, DirsInvHolds, PTL DEF DirsSpec, LossesAreDue

-----------------------------------------------------------------------------
(***************************************************************************)
(* OtherWorlds.                                                            *)
(* The order in which the other worlds are taken down, and the end of      *)
(* their proof rounds, for any files, workers, passes and proof runs.      *)
(***************************************************************************)

(* The invariant.                                                          *)

Places == {"next", "starting", "parallel", "serial", "proof", "wait", "over"}

OtherTypeOK ==
  /\ at \in Places /\ rounds \in Nat
  /\ group \in [Ids -> SUBSET Files] /\ unseen \in [Ids -> SUBSET Files]
  /\ worker \in [Ids -> {"none", "writing", "live"}]
  /\ runs \in [Files -> Nat] /\ unsettled \subseteq Files /\ notRun \in BOOLEAN
  /\ world \in {"down", "starting", "up"}
  /\ handler \in {"none", "workers", "world", "trees", "exited"}
  /\ snapshot \subseteq Ids /\ late \subseteq Ids /\ trees \in BOOLEAN

\* Between two passes, and while a world starts, nothing of a pass is left.
BetweenPasses ==
  /\ at \in {"next", "starting", "parallel", "wait", "over"} => Idle
  /\ at \in {"next", "over"} => world = "down"
  /\ at = "starting" <=> world = "starting"

\* How far the handler is says what is left for it.
HandlerGoesOn ==
  /\ handler = "workers" => at # "starting" /\ \A w \in Ids : worker[w] = "live" => w \in snapshot \cup late
  /\ handler \in {"world", "trees", "exited"} => \A w \in Ids : worker[w] = "live" => w \in late
  /\ handler \in {"trees", "exited"} => world = "down"
  /\ ~trees => handler = "exited" \/ at = "over"

\* What is still due ran in every round so far, but for what the worker of
\* this round has not written yet.
EachRoundCounts ==
  rounds > 0 =>
    /\ at \in {"proof", "next", "wait", "over"}
    /\ \A w \in Ids \ {0} : unseen[w] = {}
    /\ \A f \in unseen[0] : runs[f] >= rounds
    /\ \A f \in Due \ unseen[0] : runs[f] >= rounds + 1

NothingRanYet == at \in {"starting", "parallel"} => \A f \in Files : runs[f] = 0

OtherInv == OtherTypeOK /\ BetweenPasses /\ HandlerGoesOn /\ EachRoundCounts /\ NothingRanYet /\ RoundsEnd

USE DEF Ids

-----------------------------------------------------------------------------
(* From one pass to the next.                                              *)

LEMMA PassesKeep ==
  ASSUME Concurrency \in Nat, ProofRuns \in Nat \ {0}, OtherInv, NextPass \/ WorldStarts \/ RemoveTrees
  PROVE  OtherInv'
<1>1. CASE NextPass
  <2>1. /\ at' \in {"starting", "parallel"} /\ rounds' = 0 /\ runs' = [f \in Files |-> 0]
        /\ Idle /\ world = "down"
    BY <1>1 DEF NextPass, OtherInv, BetweenPasses
  <2>2. /\ world' = (IF at' = "starting" THEN "starting" ELSE "down") /\ ~Interrupted /\ trees
        /\ unsettled' = Files /\ notRun' = FALSE /\ UNCHANGED <<group, worker, unseen, signalVars>>
    BY <1>1, <2>1 DEF NextPass, OtherInv, HandlerGoesOn, Interrupted, Running
  <2>3. OtherTypeOK'
    BY <2>1, <2>2 DEF OtherInv, OtherTypeOK, Places, signalVars
  <2>4. BetweenPasses' /\ HandlerGoesOn' /\ NothingRanYet'
    BY <2>1, <2>2 DEF BetweenPasses, Idle, HandlerGoesOn, NothingRanYet, Interrupted, signalVars
  <2>5. EachRoundCounts' /\ RoundsEnd'
    BY <2>1 DEF EachRoundCounts, RoundsEnd
  <2> QED BY <2>3, <2>4, <2>5 DEF OtherInv
<1>2. CASE WorldStarts
  BY <1>2 DEF WorldStarts, OtherInv, OtherTypeOK, Places, BetweenPasses, Idle, HandlerGoesOn, EachRoundCounts,
         NothingRanYet, RoundsEnd, Interrupted, Running, Due, workerVars, signalVars
<1>3. CASE RemoveTrees
  BY <1>3 DEF RemoveTrees, OtherInv, OtherTypeOK, Places, BetweenPasses, Idle, HandlerGoesOn, EachRoundCounts,
         NothingRanYet, RoundsEnd, Interrupted, Running, Due, workerVars
<1> QED BY <1>1, <1>2, <1>3

-----------------------------------------------------------------------------
(* A pass.                                                                 *)

\* Before the first round there is nothing to count.
LEMMA GroupsKeep ==
  ASSUME Concurrency \in Nat, ProofRuns \in Nat \ {0}, OtherInv, Running, Idle,
         at \in {"parallel", "serial"}, at' = "serial",
         NEW groups \in [Ids -> SUBSET Files], Give(groups),
         UNCHANGED <<pass, rounds, world, signalVars>>
  PROVE  OtherInv'
<1>1. rounds = 0 /\ trees
  BY DEF OtherInv, OtherTypeOK, EachRoundCounts, HandlerGoesOn, Running
<1>2. OtherTypeOK'
  BY DEF OtherInv, OtherTypeOK, Give, Places, signalVars
<1>3. BetweenPasses' /\ NothingRanYet'
  BY DEF OtherInv, BetweenPasses, NothingRanYet
<1>4. \A w \in Ids : worker'[w] # "live"
  BY DEF Give
<1>5. HandlerGoesOn'
  BY <1>1, <1>4 DEF OtherInv, HandlerGoesOn, signalVars
<1>6. EachRoundCounts' /\ RoundsEnd'
  BY <1>1 DEF EachRoundCounts, RoundsEnd
<1> QED BY <1>2, <1>3, <1>5, <1>6 DEF OtherInv

LEMMA StartsKeep ==
  ASSUME Concurrency \in Nat, ProofRuns \in Nat \ {0}, SerialFiles \subseteq Files, OtherInv,
         StartParallel \/ StartSerial \/ SerialDone
  PROVE  OtherInv'
<1>1. CASE StartParallel
  <2>1. PICK deal : Give([w \in Ids |-> {f \in Parallel : deal[f] = w}])
    BY <1>1 DEF StartParallel
  <2> DEFINE groups == [w \in Ids |-> {f \in Parallel : deal[f] = w}]
  <2>2. groups \in [Ids -> SUBSET Files] /\ Give(groups)
    BY <2>1 DEF Parallel
  <2>3. Running /\ Idle /\ at = "parallel" /\ at' = "serial" /\ UNCHANGED <<pass, rounds, world, signalVars>>
    BY <1>1 DEF StartParallel
  <2> HIDE DEF groups
  <2> QED BY <2>2, <2>3, GroupsKeep
<1>2. CASE StartSerial
  <2>1. PICK f \in SerialFiles : Give(Alone({f}))
    BY <1>2 DEF StartSerial
  <2>2. Alone({f}) \in [Ids -> SUBSET Files]
    BY DEF Alone
  <2>3. Running /\ Idle /\ at = "serial" /\ at' = "serial" /\ UNCHANGED <<pass, rounds, world, signalVars>>
    BY <1>2 DEF StartSerial
  <2> QED BY <2>1, <2>2, <2>3, GroupsKeep
<1>3. CASE SerialDone
  BY <1>3 DEF SerialDone, OtherInv, OtherTypeOK, Places, BetweenPasses, Idle, HandlerGoesOn, EachRoundCounts,
         NothingRanYet, RoundsEnd, Interrupted, Running, Due, workerVars, signalVars
<1> QED BY <1>1, <1>2, <1>3

LEMMA RoundsKeep ==
  ASSUME Concurrency \in Nat, ProofRuns \in Nat \ {0}, OtherInv, StartRound \/ RoundsDone
  PROVE  OtherInv'
<1>1. CASE StartRound
  <2>1. /\ at = "proof" /\ at' = "proof" /\ rounds' = rounds + 1 /\ Due # {} /\ trees
        /\ rounds > 0 => unseen[0] = {}
    BY <1>1 DEF StartRound, NothingLost, OtherInv, HandlerGoesOn, Running
  <2>2. /\ unseen' = Alone(Due) /\ Due \subseteq Files /\ group' = Alone(Due)
        /\ UNCHANGED <<runs, unsettled, notRun, world, signalVars>>
    BY <1>1 DEF StartRound, Give, Due
  <2>3. \A w \in Ids : unseen'[w] = IF w = 0 THEN Due ELSE {}
    BY <2>2 DEF Alone
  <2>4. \A f \in Due : runs[f] >= rounds + 1 /\ runs[f] < ProofRuns
    BY <2>1 DEF OtherInv, OtherTypeOK, EachRoundCounts, Due
  <2>5. rounds' < ProofRuns
    BY <2>1, <2>4 DEF OtherInv, OtherTypeOK, Due
  <2>6. OtherTypeOK'
    <3>1. worker' \in [Ids -> {"none", "writing", "live"}] /\ group' \in [Ids -> SUBSET Files]
          /\ unseen' \in [Ids -> SUBSET Files]
      BY <1>1, <2>2 DEF StartRound, Give, Alone
    <3> QED BY <3>1, <2>1, <2>2 DEF OtherInv, OtherTypeOK, Places, signalVars
  <2>7. BetweenPasses' /\ NothingRanYet'
    BY <2>1, <2>2 DEF OtherInv, BetweenPasses, NothingRanYet
  <2>8. HandlerGoesOn'
    <3>1. \A w \in Ids : worker'[w] # "live"
      BY <1>1 DEF StartRound, Give
    <3> QED BY <3>1, <2>1, <2>2 DEF OtherInv, HandlerGoesOn, signalVars
  <2>9. EachRoundCounts' /\ RoundsEnd'
    BY <2>1, <2>2, <2>3, <2>4, <2>5 DEF EachRoundCounts, RoundsEnd, Due, OtherInv, OtherTypeOK
  <2> QED BY <2>6, <2>7, <2>8, <2>9 DEF OtherInv
<1>2. CASE RoundsDone
  BY <1>2 DEF RoundsDone, OtherInv, OtherTypeOK, Places, BetweenPasses, Idle, HandlerGoesOn, EachRoundCounts,
         NothingRanYet, RoundsEnd, Interrupted, Running, Due, NothingLost, workerVars, signalVars
<1> QED BY <1>1, <1>2

LEMMA WorkersKeep ==
  ASSUME Concurrency \in Nat, ProofRuns \in Nat \ {0}, OtherInv, NEW w \in Ids, NEW code \in 0..1,
         Spawn(w) \/ Record(w) \/ Close(w, code)
  PROVE  OtherInv'
<1>1. CASE Spawn(w)
  BY <1>1 DEF Spawn, OtherInv, OtherTypeOK, Places, BetweenPasses, Idle, HandlerGoesOn, EachRoundCounts,
         NothingRanYet, RoundsEnd, Interrupted, Running, Due
<1>2. CASE Record(w)
  <2>1. PICK f \in unseen[w], settles \in BOOLEAN :
          /\ unseen' = [unseen EXCEPT ![w] = @ \ {f}]
          /\ runs' = [runs EXCEPT ![f] = @ + 1]
          /\ unsettled' = IF settles THEN unsettled \ {f} ELSE unsettled
    BY <1>2 DEF Record
  <2>2. /\ worker[w] = "live" /\ f \in Files
        /\ UNCHANGED <<pass, at, rounds, group, worker, served, notRun, world, signalVars>>
    BY <1>2, <2>1 DEF Record, OtherInv, OtherTypeOK
  <2>3. at \in {"serial", "proof"}
    BY <2>2 DEF OtherInv, OtherTypeOK, Places, BetweenPasses, Idle
  <2>4. OtherTypeOK'
    BY <2>1, <2>2 DEF OtherInv, OtherTypeOK, signalVars
  <2>5. BetweenPasses' /\ HandlerGoesOn' /\ NothingRanYet'
    BY <2>2, <2>3 DEF OtherInv, BetweenPasses, HandlerGoesOn, NothingRanYet, signalVars
  <2>6. EachRoundCounts'
    <3> SUFFICES ASSUME rounds > 0 PROVE EachRoundCounts'
      BY <2>2 DEF EachRoundCounts
    <3>1. w = 0 /\ \A v \in Ids \ {0} : unseen'[v] = {}
      BY <2>1, <2>2 DEF OtherInv, OtherTypeOK, EachRoundCounts
    <3>2. unseen'[0] = unseen[0] \ {f} /\ f \in unseen[0]
      BY <2>1, <3>1 DEF OtherInv, OtherTypeOK
    <3>3. runs'[f] = runs[f] + 1 /\ \A g \in Files \ {f} : runs'[g] = runs[g]
      BY <2>1, <2>2 DEF OtherInv, OtherTypeOK
    <3>4. Due' \subseteq Due \cup {f}
      BY <2>1, <3>3 DEF Due
    <3>5. unseen[0] \subseteq Files /\ Due \subseteq Files /\ rounds \in Nat /\ runs \in [Files -> Nat]
      BY DEF OtherInv, OtherTypeOK, Due
    <3>6. \A g \in unseen'[0] : runs'[g] >= rounds
      BY <3>2, <3>3, <3>5 DEF OtherInv, EachRoundCounts
    <3>7. \A g \in Due' \ unseen'[0] : runs'[g] >= rounds + 1
      BY <3>2, <3>3, <3>4, <3>5 DEF OtherInv, EachRoundCounts
    <3> QED BY <2>2, <2>3, <3>1, <3>6, <3>7 DEF OtherInv, EachRoundCounts
  <2>7. RoundsEnd'
    BY <2>2, <2>3 DEF OtherInv, RoundsEnd
  <2> QED BY <2>4, <2>5, <2>6, <2>7 DEF OtherInv
<1>3. CASE Close(w, code)
  BY <1>3 DEF Close, OtherInv, OtherTypeOK, Places, BetweenPasses, Idle, HandlerGoesOn, EachRoundCounts,
         NothingRanYet, RoundsEnd, Interrupted, Running, Due
<1> QED BY <1>1, <1>2, <1>3

-----------------------------------------------------------------------------
(* A signal.                                                               *)

LEMMA HandlerKeeps ==
  ASSUME Concurrency \in Nat, ProofRuns \in Nat \ {0}, OtherInv,
         Signal \/ WorkersStopped \/ WorldStopped \/ HandlerRemovesTrees
  PROVE  OtherInv'
<1>1. CASE Signal
  BY <1>1 DEF Signal, OtherInv, OtherTypeOK, Places, BetweenPasses, Idle, HandlerGoesOn, EachRoundCounts,
         NothingRanYet, RoundsEnd, Interrupted, Running, Due, workerVars
<1>2. CASE WorkersStopped
  BY <1>2 DEF WorkersStopped, OtherInv, OtherTypeOK, Places, BetweenPasses, Idle, HandlerGoesOn, EachRoundCounts,
         NothingRanYet, RoundsEnd, Interrupted, Running, Due
<1>3. CASE WorldStopped
  BY <1>3 DEF WorldStopped, StartSettled, OtherInv, OtherTypeOK, Places, BetweenPasses, Idle, HandlerGoesOn,
         EachRoundCounts, NothingRanYet, RoundsEnd, Interrupted, Running, Due, workerVars
<1>4. CASE HandlerRemovesTrees
  BY <1>4 DEF HandlerRemovesTrees, OtherInv, OtherTypeOK, Places, BetweenPasses, Idle, HandlerGoesOn, EachRoundCounts,
         NothingRanYet, RoundsEnd, Interrupted, Running, Due, workerVars
<1> QED BY <1>1, <1>2, <1>3, <1>4

-----------------------------------------------------------------------------
(* The theorems.                                                           *)

LEMMA OtherInvHolds ==
  ASSUME Concurrency \in Nat, ProofRuns \in Nat \ {0}, SerialFiles \subseteq Files
  PROVE  OtherSpec => []OtherInv
<1>1. OtherInit => OtherInv
  <2> SUFFICES ASSUME OtherInit PROVE OtherInv
    OBVIOUS
  <2>1. OtherTypeOK
    BY DEF OtherInit, OtherTypeOK, Places
  <2>2. BetweenPasses /\ HandlerGoesOn /\ EachRoundCounts /\ NothingRanYet
    BY DEF OtherInit, BetweenPasses, Idle, HandlerGoesOn, EachRoundCounts, NothingRanYet
  <2>3. Due = {}
    BY DEF OtherInit, Due
  <2>4. RoundsEnd
    BY <2>3 DEF OtherInit, RoundsEnd
  <2> QED BY <2>1, <2>2, <2>4 DEF OtherInv
<1>2. OtherInv /\ [OtherNext]_otherVars => OtherInv'
  <2> SUFFICES ASSUME OtherInv, [OtherNext]_otherVars PROVE OtherInv'
    OBVIOUS
  <2>1. CASE OtherNext
    BY <2>1, PassesKeep, StartsKeep, RoundsKeep, WorkersKeep, HandlerKeeps DEF OtherNext
  <2>2. CASE UNCHANGED otherVars
    BY <2>2 DEF otherVars, OtherInv, OtherTypeOK, BetweenPasses, Idle, HandlerGoesOn, EachRoundCounts,
           NothingRanYet, RoundsEnd, Interrupted, Due
  <2> QED BY <2>1, <2>2
<1> QED BY <1>1, <1>2, PTL DEF OtherSpec

\* The trees are removed after the worlds and the workers that are in them,
\* but for a worker spawned after the signal's handler looked (runOtherWorlds).
THEOREM TreesLast ==
  ASSUME Concurrency \in Nat, ProofRuns \in Nat \ {0}, SerialFiles \subseteq Files
  PROVE  OtherSpec => []TreesGoLast
<1>1. OtherInv => TreesGoLast
  BY DEF OtherInv, OtherTypeOK, BetweenPasses, Idle, HandlerGoesOn, TreesGoLast
<1> QED BY <1>1, OtherInvHolds, PTL

\* The proof rounds of a pass end, and end with nothing in question or with
\* something said to be missing (runTreePass).
THEOREM ProofRoundsEnd ==
  ASSUME Concurrency \in Nat, ProofRuns \in Nat \ {0}, SerialFiles \subseteq Files
  PROVE  OtherSpec => []RoundsEnd
<1>1. OtherInv => RoundsEnd
  BY DEF OtherInv
<1> QED BY <1>1, OtherInvHolds, PTL

-----------------------------------------------------------------------------
(***************************************************************************)
(* ExecutionEvents.                                                        *)
(* That a reading called whole is the last word, and that a judgment which *)
(* stands after the stop is so, for every program that keeps to the        *)
(* format, any number of its operations and any order of its lines.        *)
(***************************************************************************)

(* How operations lie inside one another.                                  *)

\* The operations of p that go on inside o, at any depth.
Inside(p, o) == {i \in DOMAIN p : \E k \in DOMAIN p[i].around : p[i].around[k] = o}

\* What is inside o shares its outermost, and so does what it is directly inside of.
LEMMA Ancestry ==
  ASSUME NEW p, Nested(p), NEW o \in DOMAIN p, NEW i \in Inside(p, o)
  PROVE  /\ i \in DOMAIN p /\ p[i].kind \notin {"request", "run"}
         /\ p[i].around # <<>> /\ p[i].around[1] \in DOMAIN p
         /\ p[i].around[1] = o \/ p[i].around[1] \in Inside(p, o)
         /\ Outermost(p, i) = Outermost(p, o)
<1>1. PICK k \in DOMAIN p[i].around : p[i].around[k] = o
  BY DEF Inside
<1> DEFINE a == p[i].around
           n == Len(a)
<1>2. i \in DOMAIN p /\ a \in Seq(DOMAIN p) /\ n \in Nat /\ DOMAIN a = 1..n /\ k \in 1..n
  BY <1>1 DEF Inside, Nested
<1>3. a # <<>> /\ a[1] \in DOMAIN p /\ p[i].kind \notin {"request", "run"}
  BY <1>2 DEF Nested
<1>4. p[o].around = SubSeq(a, k + 1, n) /\ p[a[1]].around = SubSeq(a, 2, n)
  <2>1. \A j \in DOMAIN a : p[a[j]].around = SubSeq(a, j + 1, n)
    BY <1>2 DEF Nested
  <2>2. 1 \in DOMAIN a /\ 1 + 1 = 2
    BY <1>2
  <2> QED BY <2>1, <2>2, <1>1, <1>2
<1>7. \A m \in 1..n :
        /\ Len(SubSeq(a, m + 1, n)) = n - m
        /\ SubSeq(a, m + 1, n) \in Seq(DOMAIN p)
        /\ \A j \in 1..(n - m) : SubSeq(a, m + 1, n)[j] = a[m + j]
  <2> SUFFICES ASSUME NEW m \in 1..n
               PROVE  /\ Len(SubSeq(a, m + 1, n)) = n - m
                      /\ SubSeq(a, m + 1, n) \in Seq(DOMAIN p)
                      /\ \A j \in 1..(n - m) : SubSeq(a, m + 1, n)[j] = a[m + j]
    OBVIOUS
  <2>1. \A j \in (m + 1)..n : a[j] \in DOMAIN p
    BY <1>2
  <2>2. /\ Len(SubSeq(a, m + 1, n)) = IF m + 1 <= n THEN n - (m + 1) + 1 ELSE 0
        /\ SubSeq(a, m + 1, n) \in Seq(DOMAIN p)
        /\ \A j \in 1..(n - (m + 1) + 1) : SubSeq(a, m + 1, n)[j] = a[m + 1 + j - 1]
    BY <2>1, <1>2, SubSeqProperties
  <2> QED BY <2>2, <1>2
<1>5. a[1] = o \/ a[1] \in Inside(p, o)
  <2>1. CASE k = 1
    BY <1>1, <2>1
  <2>2. CASE k # 1
    <3>1. k - 1 \in DOMAIN SubSeq(a, 2, n) /\ SubSeq(a, 2, n)[k - 1] = a[k]
      <4>1. 1 \in 1..n /\ 1 + 1 = 2 /\ k - 1 \in 1..(n - 1) /\ 1 + (k - 1) = k
        BY <1>2, <2>2
      <4> QED BY <4>1, <1>7
    <3> QED BY <3>1, <1>4, <1>3, <1>1 DEF Inside
  <2> QED BY <2>1, <2>2
<1>6. Outermost(p, i) = Outermost(p, o)
  <2>1. CASE k = n
    <3>1. p[o].around = <<>>
      BY <1>2, <1>4, <1>7, <2>1
    <3> QED BY <3>1, <1>1, <1>3, <2>1 DEF Outermost
  <2>2. CASE k # n
    <3>1. /\ Len(SubSeq(a, k + 1, n)) = n - k /\ SubSeq(a, k + 1, n) # <<>>
          /\ SubSeq(a, k + 1, n)[n - k] = a[n]
      BY <1>2, <1>7, <2>2
    <3> QED BY <3>1, <1>3, <1>4 DEF Outermost
  <2> QED BY <2>1, <2>2
<1> QED BY <1>2, <1>3, <1>5, <1>6

\* An outermost is a request or a run, and the rest is inside it.
LEMMA Outermosts ==
  ASSUME NEW p, Nested(p), NEW o \in DOMAIN p
  PROVE  /\ Outermost(p, o) \in DOMAIN p /\ p[Outermost(p, o)].kind \in {"request", "run"}
         /\ o = Outermost(p, o) \/ o \in Inside(p, Outermost(p, o))
<1>1. CASE p[o].around = <<>>
  BY <1>1 DEF Outermost, Nested
<1>2. CASE p[o].around # <<>>
  <2> DEFINE n == Len(p[o].around)
  <2>1. p[o].around \in Seq(DOMAIN p) /\ n \in DOMAIN p[o].around /\ p[o].around[n] \in DOMAIN p
    BY <1>2 DEF Nested
  <2> QED BY <1>2, <2>1 DEF Outermost, Nested, Inside
<1> QED BY <1>1, <1>2

-----------------------------------------------------------------------------
(* The invariant.                                                          *)

EventsTypeOK ==
  /\ program \in Programs /\ reporting \in BOOLEAN
  /\ fate \in [Operations -> {"not", "open", "ended", "undone"}]
  /\ written \subseteq Operations /\ damaged \subseteq Operations
  /\ rotated \in BOOLEAN /\ lost \subseteq written \cup damaged
  /\ requested \subseteq Of("request") /\ command \in {"none", "runs", "over"}
  /\ moment \in {"step", "later", "reading", "judged", "stopped"}
  /\ left \in [spans : SUBSET Operations, processes : {"none", "ended", "unbounded"}]
  /\ read \in [lines : SUBSET Operations, damaged : SUBSET Operations, replaced : BOOLEAN,
               kinds : BOOLEAN]

\* A line is of what is done, and the reading has only lines there are.
LinesOfTheDone ==
  /\ \A o \in written \cup damaged : Done(o) /\ ~Silent(o)
  /\ written \cap damaged = {}
  /\ read.lines \subseteq written /\ read.damaged \subseteq damaged

\* Nothing goes on inside what is done, and what goes on is inside what began.
NestedInTime ==
  \A o \in Operations : \A i \in Inside(program, o) :
    /\ Done(o) => fate[i] # "open"
    /\ fate[o] = "not" => fate[i] = "not"

\* Only requests, runs and transactions go on, and only those roll back.
FatesOfKinds ==
  \A o \in Operations :
    /\ fate[o] = "open" => Kind(o) \in {"request", "run", "tx"}
    /\ fate[o] = "undone" => Kind(o) = "tx"

\* What a line is inside of comes after it.
ClosedInside(lines) ==
  \A o \in lines : \A i \in Inside(program, o) : fate[i] = "not" \/ i \in lines \/ Silent(i)

InsideFirst ==
  ClosedInside(written \cup damaged) /\ ClosedInside(read.lines \cup read.damaged)

\* What began was asked for: a request was sent, a run's job enqueued.
AskedFor ==
  \A o \in Operations :
    fate[o] # "not" =>
      /\ Kind(o) = "request" => o \in requested
      /\ Kind(o) = "run" => fate[program[o].by] = "ended"

\* What the step left stays true of what it sent.
LeftStands ==
  /\ requested \cap OfProcess # {} => command # "none"
  /\ moment # "step" => /\ left.spans = requested \cap Stamped
                        /\ left.processes = "none" => command = "none"

\* Kinds seen are kinds reported.
KindsReported == read.kinds => reporting

EventsInv == /\ EventsTypeOK /\ LinesOfTheDone /\ NestedInTime /\ FatesOfKinds /\ InsideFirst /\ AskedFor
       /\ LeftStands /\ KindsReported

\* The program of a behaviour is one of the nested ones.
LEMMA ProgramIsNested == EventsTypeOK => Nested(program)
BY EventsConstants DEF EventsTypeOK

\* Before anything begins the invariant holds.
LEMMA EventsInvInit == EventsInit => EventsInv
<1> SUFFICES ASSUME EventsInit PROVE EventsInv
  OBVIOUS
<1>1. EventsTypeOK
  BY DEF EventsInit, EventsTypeOK
<1>2. Nested(program)
  BY <1>1, ProgramIsNested
<1>3. \A o \in Operations : \A i \in Inside(program, o) : fate[i] = "not" /\ fate[o] = "not"
  BY DEF EventsInit, Inside, Operations
<1>4. LinesOfTheDone /\ InsideFirst
  BY DEF EventsInit, LinesOfTheDone, InsideFirst, ClosedInside
<1>5. NestedInTime /\ FatesOfKinds /\ AskedFor
  BY <1>3 DEF EventsInit, NestedInTime, FatesOfKinds, AskedFor, Done
<1>6. LeftStands /\ KindsReported
  BY DEF EventsInit, LeftStands, KindsReported
<1> QED BY <1>1, <1>4, <1>5, <1>6 DEF EventsInv

\* Only what is inside nothing, or inside something open, begins.
LEMMA NothingStartsInTheDone ==
  ASSUME EventsInv, NEW s \in Operations, Starts(s), NEW o \in Operations, s \in Inside(program, o)
  PROVE  fate[o] = "open"
<1>1. Nested(program)
  BY ProgramIsNested DEF EventsInv
<1>2. /\ Kind(s) \notin {"request", "run"} /\ program[s].around[1] \in Operations
      /\ program[s].around[1] = o \/ program[s].around[1] \in Inside(program, o)
  BY <1>1, Ancestry DEF Operations, Kind
<1>3. fate[program[s].around[1]] = "open"
  BY <1>2 DEF Starts, MayBegin, Around
<1>4. fate[o] \in {"not", "open", "ended", "undone"}
  BY DEF EventsInv, EventsTypeOK
<1> QED BY <1>2, <1>3, <1>4 DEF EventsInv, NestedInTime, Done

\* An operation begins: nothing it is inside of is done.
LEMMA StartsKeeps ==
  ASSUME EventsInv, NEW s \in Operations, Starts(s)
  PROVE  EventsInv'
<1>1. /\ UNCHANGED <<program, reporting, written, damaged, rotated, lost, requested, command, moment, left, read>>
      /\ fate[s] = "not" /\ MayBegin(s)
      /\ fate \in [Operations -> {"not", "open", "ended", "undone"}]
      /\ fate'[s] \in {"open", "ended"} /\ \A i \in Operations \ {s} : fate'[i] = fate[i]
      /\ fate' \in [Operations -> {"not", "open", "ended", "undone"}]
  BY DEF Starts, EventsInv, EventsTypeOK, fileVars, readerVars
<1>2. EventsTypeOK'
  BY <1>1 DEF EventsInv, EventsTypeOK, Operations, Of, Kind
<1>3. written \cup damaged \subseteq Operations \ {s}
  BY <1>1 DEF EventsInv, EventsTypeOK, LinesOfTheDone, Done
<1>4. LinesOfTheDone'
  BY <1>1, <1>3 DEF EventsInv, LinesOfTheDone, Done, Silent, Kind
<1>5. NestedInTime'
  <2> SUFFICES ASSUME NEW o \in Operations, NEW i \in Inside(program, o)
               PROVE  (Done(o) => fate[i] # "open")' /\ (fate[o] = "not" => fate[i] = "not")'
    BY <1>1 DEF NestedInTime, Operations
  <2>1. i \in Operations /\ Kind(i) \notin {"request", "run"}
    BY ProgramIsNested, Ancestry DEF EventsInv, Operations, Kind
  <2>2. CASE i = s
    <3>1. fate[o] = "open" /\ o # s
      BY <1>1, <2>2, NothingStartsInTheDone
    <3> QED BY <3>1, <1>1 DEF Done
  <2>3. CASE i # s /\ o = s
    <3>1. fate[i] = "not"
      BY <1>1, <2>3 DEF EventsInv, NestedInTime
    <3> QED BY <3>1, <2>1, <2>3, <1>1 DEF Done
  <2>4. CASE i # s /\ o # s
    BY <2>1, <2>4, <1>1 DEF EventsInv, NestedInTime, Done
  <2> QED BY <2>2, <2>3, <2>4
<1>6. InsideFirst'
  <2> SUFFICES ASSUME NEW S, S \subseteq written \cup damaged, ClosedInside(S)
               PROVE  ClosedInside(S)'
    <3>1. /\ ClosedInside(written \cup damaged) /\ ClosedInside(read.lines \cup read.damaged)
          /\ read.lines \cup read.damaged \subseteq written \cup damaged
      BY DEF EventsInv, InsideFirst, LinesOfTheDone
    <3>2. /\ (written \cup damaged)' = written \cup damaged
          /\ (read.lines \cup read.damaged)' = read.lines \cup read.damaged
      BY <1>1
    <3> QED BY <3>1, <3>2 DEF InsideFirst, ClosedInside
  <2> SUFFICES ASSUME NEW o \in S, NEW i \in Inside(program, o)
               PROVE  (fate[i] = "not" \/ i \in S \/ Silent(i))'
    BY <1>1 DEF ClosedInside
  <2>1. o \in Operations /\ fate[o] # "open" /\ i \in Operations
    BY <1>3, ProgramIsNested, Ancestry DEF EventsInv, Operations, LinesOfTheDone, Done
  <2>2. i # s
    BY <2>1, NothingStartsInTheDone
  <2> QED BY <2>1, <2>2, <1>1 DEF ClosedInside, Silent, Kind
<1>7. AskedFor'
  <2> SUFFICES ASSUME NEW o \in Operations, fate'[o] # "not"
               PROVE  /\ Kind(o) = "request" => o \in requested
                      /\ Kind(o) = "run" => fate'[program[o].by] = "ended"
    BY <1>1 DEF AskedFor, Operations, Kind
  <2>1. CASE o = s
    <3>1. Kind(o) = "request" => o \in requested
      BY <2>1, <1>1 DEF MayBegin
    <3>2. ASSUME Kind(o) = "run" PROVE fate'[program[o].by] = "ended"
      <4>1. fate[program[o].by] = "ended" /\ program[o].by \in Operations
        BY <2>1, <3>2, <1>1, EventsConstants DEF MayBegin, EventsInv, EventsTypeOK, Enqueued, Operations, Kind
      <4> QED BY <4>1, <1>1
    <3> QED BY <3>1, <3>2
  <2>2. CASE o # s
    <3>1. Kind(o) = "run" => program[o].by \in Operations
      BY EventsConstants DEF EventsInv, EventsTypeOK, Enqueued, Operations, Kind
    <3> QED BY <2>2, <3>1, <1>1 DEF EventsInv, AskedFor
  <2> QED BY <2>1, <2>2
<1>8. LeftStands' /\ KindsReported'
  BY <1>1 DEF EventsInv, LeftStands, KindsReported, Stamped, OfProcess, Of, Operations, Kind
<1>9. FatesOfKinds'
  <2>1. fate'[s] = IF Kind(s) \in {"request", "run", "tx"} THEN "open" ELSE "ended"
    BY <1>1 DEF Starts
  <2> QED BY <2>1, <1>1 DEF EventsInv, FatesOfKinds, Operations, Kind
<1> QED BY <1>2, <1>4, <1>5, <1>6, <1>7, <1>8, <1>9 DEF EventsInv

\* An operation ends, or rolls back: nothing inside it is open.
LEMMA FinishesKeeps ==
  ASSUME EventsInv, NEW s \in Operations, Finishes(s)
  PROVE  EventsInv'
<1>1. /\ UNCHANGED <<program, reporting, written, damaged, rotated, lost, requested, command, moment, left, read>>
      /\ fate[s] = "open" /\ \A i \in Inside(program, s) : fate[i] # "open"
      /\ fate \in [Operations -> {"not", "open", "ended", "undone"}]
      /\ fate'[s] \in {"ended", "undone"} /\ \A i \in Operations \ {s} : fate'[i] = fate[i]
      /\ fate' \in [Operations -> {"not", "open", "ended", "undone"}]
  BY DEF Finishes, EventsInv, EventsTypeOK, fileVars, readerVars, Within, Inside, Around, Operations
<1>2. EventsTypeOK'
  BY <1>1 DEF EventsInv, EventsTypeOK, Operations, Of, Kind
<1>3. LinesOfTheDone'
  BY <1>1 DEF EventsInv, EventsTypeOK, LinesOfTheDone, Done, Silent, Kind
<1>4. \A o \in Operations : \A i \in Inside(program, o) : i \in Operations
  BY DEF Inside, Operations
<1>5. NestedInTime'
  <2> SUFFICES ASSUME NEW o \in Operations, NEW i \in Inside(program, o)
               PROVE  (Done(o) => fate[i] # "open")' /\ (fate[o] = "not" => fate[i] = "not")'
    BY <1>1 DEF NestedInTime, Operations
  <2> QED BY <1>1, <1>4 DEF EventsInv, NestedInTime, Done
<1>6. InsideFirst'
  BY <1>1, <1>4 DEF EventsInv, InsideFirst, ClosedInside, LinesOfTheDone, EventsTypeOK, Silent, Kind
<1>7. AskedFor'
  <2> SUFFICES ASSUME NEW o \in Operations, fate'[o] # "not"
               PROVE  /\ Kind(o) = "request" => o \in requested
                      /\ Kind(o) = "run" => fate'[program[o].by] = "ended"
    BY <1>1 DEF AskedFor, Operations, Kind
  <2>1. Kind(o) = "run" => program[o].by \in Operations
    BY EventsConstants DEF EventsInv, EventsTypeOK, Enqueued, Operations, Kind
  <2> QED BY <2>1, <1>1 DEF EventsInv, AskedFor
<1>8. LeftStands' /\ KindsReported'
  BY <1>1 DEF EventsInv, LeftStands, KindsReported, Stamped, OfProcess, Of, Operations, Kind
<1>9. FatesOfKinds'
  <2>1. fate'[s] = "undone" => Kind(s) = "tx"
    BY <1>1 DEF Finishes
  <2> QED BY <2>1, <1>1 DEF EventsInv, FatesOfKinds, Operations, Kind
<1> QED BY <1>2, <1>3, <1>5, <1>6, <1>7, <1>8, <1>9 DEF EventsInv

\* A line is written, or damaged: the lines inside it came first.
LEMMA WritesKeeps ==
  ASSUME EventsInv, NEW s \in Operations, Writes(s)
  PROVE  EventsInv'
<1>1. /\ UNCHANGED <<program, reporting, fate, rotated, lost, requested, command, moment, left, read>>
      /\ Done(s) /\ ~Silent(s) /\ s \notin written \cup damaged
      /\ \A i \in Inside(program, s) : ~Unwritten(i)
      /\ \/ written' = written \cup {s} /\ damaged' = damaged
         \/ damaged' = damaged \cup {s} /\ written' = written
  BY DEF Writes, Unwritten, readerVars, Within, Inside, Around, Operations
<1>2. EventsTypeOK'
  BY <1>1 DEF EventsInv, EventsTypeOK, Operations, Of, Kind
<1>3. LinesOfTheDone'
  BY <1>1 DEF EventsInv, LinesOfTheDone, Done, Silent, Kind
<1>4. NestedInTime' /\ FatesOfKinds' /\ AskedFor' /\ LeftStands' /\ KindsReported'
  BY <1>1 DEF EventsInv, NestedInTime, FatesOfKinds, AskedFor, LeftStands, KindsReported, Done, Stamped, OfProcess, Of,
              Operations, Kind
<1>5. InsideFirst'
  <2>1. ClosedInside(read.lines \cup read.damaged)'
    BY <1>1 DEF EventsInv, InsideFirst, ClosedInside, Silent, Kind
  <2>2. \A i \in Inside(program, s) : fate[i] = "not" \/ i \in written \cup damaged \/ Silent(i)
    BY <1>1 DEF EventsInv, EventsTypeOK, NestedInTime, Unwritten, Done, Inside, Operations
  <2>3. (written \cup damaged)' = (written \cup damaged) \cup {s}
    BY <1>1
  <2>4. ClosedInside(written \cup damaged)
    BY DEF EventsInv, InsideFirst
  <2>5. ClosedInside((written \cup damaged) \cup {s})
    BY <2>2, <2>4 DEF ClosedInside
  <2>6. ClosedInside(written \cup damaged)'
    BY <2>3, <2>5, <1>1 DEF ClosedInside, Silent, Kind
  <2> QED BY <2>1, <2>6 DEF InsideFirst
<1> QED BY <1>2, <1>3, <1>4, <1>5 DEF EventsInv

\* The events file is replaced: only what is lost from now on changes.
LEMMA RotateKeeps == EventsInv /\ Rotate => EventsInv'
BY DEF EventsInv, EventsTypeOK, LinesOfTheDone, NestedInTime, FatesOfKinds, InsideFirst, ClosedInside, AskedFor, LeftStands,
       KindsReported, Rotate, readerVars, Done, Silent, Stamped, OfProcess, Of, Operations, Kind

\* What a step of the reader's side does to the program: nothing.
LEMMA ReaderKeeps ==
  ASSUME EventsInv, UNCHANGED <<program, reporting, fate, fileVars>>, EventsTypeOK', LeftStands', KindsReported',
         \/ UNCHANGED <<read.lines, read.damaged>>
         \/ read.lines' = written /\ read.damaged' = damaged,
         requested \subseteq requested'
  PROVE  EventsInv'
<1>1. LinesOfTheDone' /\ NestedInTime' /\ FatesOfKinds' /\ AskedFor'
  BY DEF EventsInv, LinesOfTheDone, NestedInTime, FatesOfKinds, AskedFor, fileVars, Done, Silent, Operations, Kind
<1>2. InsideFirst'
  BY DEF EventsInv, InsideFirst, ClosedInside, fileVars, Silent, Kind
<1> QED BY <1>1, <1>2 DEF EventsInv

\* The step sends a request.
LEMMA SendKeeps ==
  ASSUME EventsInv, NEW r \in Of("request"), Send(r)
  PROVE  EventsInv'
<1>1. EventsTypeOK' /\ KindsReported'
  BY DEF EventsInv, EventsTypeOK, KindsReported, Send, fileVars, readerVars, Operations, Of, Kind
<1>2. LeftStands'
  BY DEF EventsInv, LeftStands, Send, fileVars, readerVars, Stamped, OfProcess, Of, Operations, Kind
<1> QED BY <1>1, <1>2, ReaderKeeps DEF Send, readerVars

\* The step starts a command, or the command is over.
LEMMA CommandKeeps == EventsInv /\ (RunCommand \/ CommandOver) => EventsInv'
<1> SUFFICES ASSUME EventsInv, RunCommand \/ CommandOver PROVE EventsInv'
  OBVIOUS
<1>1. EventsTypeOK' /\ KindsReported'
  BY DEF EventsInv, EventsTypeOK, KindsReported, RunCommand, CommandOver, fileVars, readerVars, Operations, Of, Kind
<1>2. LeftStands'
  BY DEF EventsInv, LeftStands, RunCommand, CommandOver, fileVars, readerVars, Stamped, OfProcess, Of, Operations, Kind
<1> QED BY <1>1, <1>2, ReaderKeeps DEF RunCommand, CommandOver, readerVars

\* The step ends and leaves what it sent and ran.
LEMMA EndStepKeeps == EventsInv /\ EndStep => EventsInv'
<1> SUFFICES ASSUME EventsInv, EndStep PROVE EventsInv'
  OBVIOUS
<1>1. EventsTypeOK' /\ KindsReported'
  BY DEF EventsInv, EventsTypeOK, KindsReported, EndStep, fileVars, Processes, Stamped, Operations, Of, Kind
<1>2. LeftStands'
  BY DEF EventsInv, EventsTypeOK, LeftStands, EndStep, fileVars, Processes, Stamped, OfProcess, Of, Operations, Kind
<1> QED BY <1>1, <1>2, ReaderKeeps DEF EndStep

\* A reading takes lines of the file, and the stop takes what came after.
LEMMA ReadingKeeps == EventsInv /\ (ReadOn \/ Judge \/ StopWorld) => EventsInv'
<1> SUFFICES ASSUME EventsInv, ReadOn \/ Judge \/ StopWorld PROVE EventsInv'
  OBVIOUS
<1>1. UNCHANGED <<program, reporting, fate, fileVars, requested, command, left>>
  BY DEF ReadOn, Judge, StopWorld
<1>2. EventsTypeOK'
  <2>1. EventsTypeOK /\ read' \in [lines : SUBSET Operations, damaged : SUBSET Operations,
                            replaced : BOOLEAN, kinds : BOOLEAN]
    <3>1. CASE ReadOn
      BY <3>1 DEF EventsInv, EventsTypeOK, ReadOn
    <3>2. CASE Judge
      <4>1. (~rotated /\ \E o \in written : Kind(o) = "db") \in BOOLEAN
        OBVIOUS
      <4>2. read' = [read EXCEPT !.kinds = ~rotated /\ \E o \in written : Kind(o) = "db"]
        BY <3>2 DEF Judge
      <4> QED BY <4>1, <4>2 DEF EventsInv, EventsTypeOK
    <3>3. CASE StopWorld
      BY <3>3 DEF EventsInv, EventsTypeOK, StopWorld
    <3> QED BY <3>1, <3>2, <3>3
  <2>2. moment' \in {"step", "later", "reading", "judged", "stopped"}
    BY DEF ReadOn, Judge, StopWorld
  <2>3. Operations' = Operations /\ Of("request")' = Of("request")
    BY <1>1 DEF Operations, Of, Kind
  <2> QED BY <2>1, <2>2, <2>3, <1>1 DEF EventsTypeOK, fileVars
<1>3. LeftStands'
  BY DEF EventsInv, LeftStands, ReadOn, Judge, StopWorld, Stamped, OfProcess, Of, Operations, Kind
<1>4. KindsReported'
  <2>1. (\E o \in written : Kind(o) = "db") => reporting
    BY DEF EventsInv, EventsTypeOK, LinesOfTheDone, Silent
  <2> QED BY <2>1 DEF EventsInv, EventsTypeOK, KindsReported, ReadOn, Judge, StopWorld
<1>5. \/ UNCHANGED <<read.lines, read.damaged>>
      \/ read.lines' = written /\ read.damaged' = damaged
  BY DEF EventsInv, EventsTypeOK, ReadOn, Judge, StopWorld
<1> QED BY <1>1, <1>2, <1>3, <1>4, <1>5, ReaderKeeps

\* The invariant holds in every state.
LEMMA EventsInvHolds == EventsSpec => []EventsInv
<1>1. EventsInv /\ [EventsNext]_eventsVars => EventsInv'
  <2> SUFFICES ASSUME EventsInv, [EventsNext]_eventsVars PROVE EventsInv'
    OBVIOUS
  <2>1. CASE UNCHANGED eventsVars
    BY <2>1 DEF eventsVars, EventsInv, EventsTypeOK, LinesOfTheDone, NestedInTime, FatesOfKinds, InsideFirst, ClosedInside, AskedFor,
       LeftStands, KindsReported, Done, Silent, Stamped, OfProcess, Of, Operations, Kind
  <2>2. CASE EventsNext
    BY <2>2, RotateKeeps, StartsKeeps, FinishesKeeps, WritesKeeps, SendKeeps, CommandKeeps, EndStepKeeps,
       ReadingKeeps DEF EventsNext, Work
  <2> QED BY <2>1, <2>2
<1> QED BY <1>1, EventsInvInit, PTL DEF EventsSpec

-----------------------------------------------------------------------------
(* A whole reading is the last word.                                       *)

\* What a reading's line is inside of is read too, once it began.
LEMMA ReadInside ==
  ASSUME EventsInv, Whole(read, left.processes), NEW o \in read.lines, Traced(o),
         NEW i \in Inside(program, o), fate[i] # "not"
  PROVE  i \in read.lines /\ Traced(i)
<1>1. Root(i) = Root(o)
  BY ProgramIsNested, Ancestry DEF EventsInv, EventsTypeOK, Root, Operations
<1>2. Traced(i)
  BY <1>1 DEF Traced
<1>3. i \notin read.damaged
  BY <1>2 DEF Whole
<1>4. ~Silent(i)
  BY DEF EventsInv, KindsReported, Whole, Silent
<1> QED BY <1>2, <1>3, <1>4 DEF EventsInv, InsideFirst, ClosedInside

\* With no process of the step, every request of its trace is read.
LEMMA RequestsAreRead ==
  ASSUME EventsInv, Whole(read, left.processes), moment # "step", left.processes = "none",
         NEW r \in Stamped \cup OfProcess, fate[r] # "not"
  PROVE  r \in read.lines
<1>1. r \in requested
  BY DEF EventsInv, AskedFor, Stamped, OfProcess, Of
<1>2. r \in left.spans
  BY <1>1 DEF EventsInv, LeftStands
<1> QED BY <1>2 DEF Whole

\* Every run that began is read: take one whose enqueue is not in an unread
\* run; that enqueue is read, and with it a run of its job, which is this one.
LEMMA RunsAreRead ==
  ASSUME EventsInv, Whole(read, left.processes), moment # "step", left.processes = "none", RunOnce,
         NEW r \in Of("run"), fate[r] # "not"
  PROVE  r \in read.lines
<1> DEFINE Unread == {q \in Of("run") : fate[q] # "not" /\ q \notin read.lines}
<1>1. SUFFICES ASSUME Unread # {} PROVE FALSE
  OBVIOUS
<1>2. program \in Programs /\ Nested(program) /\ Enqueued(program) /\ IsFiniteSet(Operations)
  BY ProgramIsNested, EventsConstants DEF EventsInv, EventsTypeOK, Operations
<1>3. PICK q \in Unread : Outermost(program, program[q].by) \notin Unread
  <2>1. Unread \in SUBSET {o \in DOMAIN program : program[o].kind = "run"}
    BY DEF Of, Operations, Kind
  <2>2. Unread \in (SUBSET {o \in DOMAIN program : program[o].kind = "run"}) \ {{}}
    BY <2>1, <1>1
  <2> HIDE DEF Unread
  <2> QED BY <2>2, <1>2 DEF Enqueued
<1> DEFINE e == program[q].by
           root == Outermost(program, e)
<1>4. /\ q \in Operations /\ Kind(q) = "run" /\ fate[q] # "not" /\ q \notin read.lines
      /\ e \in Operations /\ Kind(e) = "enqueue" /\ program[e].job = program[q].job
  BY <1>2 DEF Enqueued, Of, Operations, Kind
<1>5. fate[e] = "ended"
  BY <1>4 DEF EventsInv, AskedFor
<1>6. /\ root \in Operations /\ Kind(root) \in {"request", "run"} /\ e \in Inside(program, root)
      /\ Root(root) = root
  <2>1. /\ root \in Operations /\ Kind(root) \in {"request", "run"}
        /\ e = root \/ e \in Inside(program, root)
    BY <1>2, <1>4, Outermosts DEF Operations, Kind
  <2>2. e # root
    BY <2>1, <1>4
  <2>3. Root(root) = root
    BY <2>1, <1>2 DEF Nested, Root, Outermost, Operations, Kind
  <2> QED BY <2>1, <2>2, <2>3
<1>7. fate[root] # "not"
  BY <1>5, <1>6 DEF EventsInv, NestedInTime
<1>8. Traced(root) /\ root \in read.lines
  <2>1. CASE Kind(root) = "run"
    BY <2>1, <1>3, <1>6, <1>7 DEF Traced, Of
  <2>2. CASE Kind(root) = "request"
    <3>1. root \in Stamped \cup OfProcess
      BY <2>2, <1>2, <1>4, <1>6 DEF Enqueued, Stamped, OfProcess, Of, Operations, Kind
    <3> QED BY <3>1, <1>6, <1>7, RequestsAreRead DEF Traced
  <2> QED BY <2>1, <2>2, <1>6
<1>9. e \in read.lines
  BY <1>5, <1>6, <1>8, ReadInside
<1> DEFINE job == program[e].job
           performs == JobsOf("run", job, read.lines)
           enqueues == JobsOf("enqueue", job, read.lines)
<1>10. performs # {}
  <2>1. IsFiniteSet(performs) /\ IsFiniteSet(enqueues)
    <3>1. performs \subseteq Operations /\ enqueues \subseteq Operations
      BY DEF EventsInv, EventsTypeOK, JobsOf
    <3> QED BY <3>1, <1>2, FS_Subset
  <2>2. Cardinality(performs) \in Nat /\ Cardinality(enqueues) \in Nat
    BY <2>1, FS_CardinalityType
  <2>3. e \in enqueues
    BY <1>4, <1>9 DEF JobsOf
  <2>4. Cardinality(enqueues) # 0
    BY <2>1, <2>3, FS_EmptySet
  <2>5. ~(Cardinality(performs) < Cardinality(enqueues))
    BY <1>4 DEF Whole, Pending, Of
  <2>6. Cardinality(performs) # 0
    BY <2>2, <2>4, <2>5
  <2> QED BY <2>1, <2>6, FS_EmptySet
<1>11. PICK d \in Of("run") : d \in read.lines /\ program[d].job = job
  BY <1>10 DEF JobsOf, Of, EventsInv, EventsTypeOK
<1>12. /\ program[d].by \in Operations /\ Kind(program[d].by) = "enqueue"
       /\ program[program[d].by].job = job
  BY <1>2, <1>11 DEF Enqueued, Of, Operations, Kind
<1>13. program[d].by = e
  BY <1>4, <1>12 DEF RunOnce, Of
<1>14. d = q
  BY <1>2, <1>4, <1>11, <1>13 DEF Enqueued, Of, Operations, Kind
<1> QED BY <1>4, <1>11, <1>14

\* What a whole reading of a step without a process lacks never began: its
\* outermost is a request or a run that would have been read.
LEMMA WholeReadIsLast == EventsInv => WholeIsLast
<1> SUFFICES ASSUME EventsInv, moment \in {"judged", "stopped"}, Whole(read, left.processes), ~MayMissLines,
                    NEW o \in Operations, Traced(o), o \notin read.lines, fate[o] # "not"
             PROVE  FALSE
  BY DEF WholeIsLast
<1>1. left.processes = "none" /\ moment # "step" /\ RunOnce
  BY DEF EventsInv, EventsTypeOK, Whole, MayMissLines
<1> DEFINE root == Root(o)
<1>2. /\ root \in Operations /\ Root(root) = root
      /\ o = root \/ o \in Inside(program, root)
  BY ProgramIsNested, Outermosts DEF EventsInv, Root, Operations, Nested, Outermost
<1>3. fate[root] # "not"
  BY <1>2 DEF EventsInv, NestedInTime
<1>4. root \in read.lines /\ Traced(root)
  BY <1>1, <1>2, <1>3, RequestsAreRead, RunsAreRead DEF Traced
<1> QED BY <1>2, <1>4, ReadInside

\* The reading a claim is judged on (tally.ts, reading) is called whole only when
\* no line of the trace is still to come.
THEOREM LastWord == EventsSpec => []WholeIsLast
BY EventsInvHolds, WholeReadIsLast, PTL

-----------------------------------------------------------------------------
(* A judgment that stands.                                                 *)

\* What is said of a range is so of every count in it.
LEMMA JudgeRangeIsRight ==
  ASSUME NEW range, range.at_least \in Nat, range.at_most \in Nat, range.bounded \in BOOLEAN,
         NEW n \in Nat, range.at_least <= n, range.bounded => n <= range.at_most,
         NEW compare \in Compares, NEW expected \in Nat,
         JudgeRange(range, compare, expected) # "unknown"
  PROVE  JudgeRange(range, compare, expected) = "held" <=> CompareCount(n, compare, expected)
<1>1. CASE compare = "equal"
  BY <1>1 DEF JudgeRange, CompareCount
<1>2. CASE compare = "not-equal"
  BY <1>2 DEF JudgeRange, CompareCount
<1>3. CASE compare = "greater-than"
  BY <1>3 DEF JudgeRange, CompareCount
<1>4. CASE compare = "at-least"
  BY <1>4 DEF JudgeRange, CompareCount
<1>5. CASE compare = "less-than"
  BY <1>5 DEF JudgeRange, CompareCount
<1>6. CASE compare = "at-most"
  BY <1>6 DEF JudgeRange, CompareCount
<1> QED BY <1>1, <1>2, <1>3, <1>4, <1>5, <1>6 DEF Compares

\* A statement of p made inside a transaction.
InTx(p, w) == \E k \in DOMAIN p[w].around : p[p[w].around[k]].kind = "tx"

\* What the format asks of a statement's own fields.
LEMMA StatementsAreHonest ==
  ASSUME EventsInv, NEW w \in Statements
  PROVE  /\ w \in Operations /\ Kind(w) \in {"db", "odd"}
         /\ program[w].committed \in {"absent", "persisted", "not-persisted"}
         /\ program[w].committed = "persisted" => program[w].keeps /\ ~InTx(program, w)
         /\ program[w].committed = "not-persisted" => ~program[w].keeps
         /\ program[w].committed = "absent" => program[w].keeps \/ ~InTx(program, w)
         /\ program[w].says.op = program[w].really.op
            \/ (program[w].says.op = "other" /\ program[w].really.op \in Changing)
         /\ program[w].says.table \in {program[w].really.table, "unknown"}
<1>1. program \in Programs /\ Honest(program)
  BY EventsConstants DEF EventsInv, EventsTypeOK
<1>2. w \in {o \in DOMAIN program : program[o].kind \in {"db", "odd"}}
  BY DEF Statements, Of, Operations, Kind
<1> QED BY <1>1, <1>2 DEF Honest, InTx, Operations, Kind

\* What the lines say of a change is so.
LEMMA StateOfIsRight ==
  ASSUME EventsInv, NEW w \in Statements, Done(w), NEW lines
  PROVE  /\ StateOf(w, lines) \in {"persisted", "not-persisted", "unknown"}
         /\ StateOf(w, lines) = "persisted" => Persisted(w)
         /\ StateOf(w, lines) = "not-persisted" => ~Persisted(w)
<1> DEFINE top == Len(Around(w))
<1>1. fate[w] = "ended"
  BY StatementsAreHonest DEF EventsInv, FatesOfKinds, Done
<1>2. /\ Around(w) \in Seq(Operations) /\ DOMAIN Around(w) = 1..top /\ top \in Nat
      /\ \A k \in 1..top : Around(w)[k] \in Operations /\ (k # top <=> Kind(Around(w)[k]) = "tx")
  <2>1. w \in DOMAIN program /\ Nested(program)
    BY StatementsAreHonest, ProgramIsNested DEF EventsInv, Operations
  <2>2. /\ program[w].around \in Seq(DOMAIN program)
        /\ \A k \in DOMAIN program[w].around :
             program[program[w].around[k]].kind \in (IF k = Len(program[w].around) THEN {"request", "run"} ELSE {"tx"})
    BY <2>1 DEF Nested
  <2>3. \A k \in DOMAIN program[w].around :
          k # Len(program[w].around) <=> program[program[w].around[k]].kind = "tx"
    BY <2>2
  <2> QED BY <2>2, <2>3 DEF Around, Operations, Kind
<1>3. RolledBack(w, lines) => ~Persisted(w)
  <2> SUFFICES ASSUME NEW k \in DOMAIN Around(w), fate[Around(w)[k]] = "undone"
               PROVE  ~Persisted(w)
    BY DEF RolledBack
  <2>1. Kind(Around(w)[k]) = "tx"
    BY <1>2 DEF EventsInv, FatesOfKinds
  <2> QED BY <2>1 DEF Persisted
<1>4. ASSUME Committed(w, lines), program[w].keeps
      PROVE  Persisted(w)
  <2>1. top > 1 /\ \A k \in 1..(top - 1) : fate[Around(w)[k]] = "ended"
    BY <1>4 DEF Committed, Commits
  <2>2. ASSUME NEW k \in DOMAIN Around(w), Kind(Around(w)[k]) = "tx"
        PROVE  k \in 1..(top - 1)
    <3>1. k \in 1..top /\ k # top /\ top \in Nat
      BY <1>2, <2>2
    <3> HIDE DEF top
    <3> QED BY <3>1
  <2> QED BY <2>1, <2>2, <1>1, <1>4 DEF Persisted
<1>5. Committed(w, lines) => InTx(program, w)
  BY <1>2 DEF Committed, InTx, Kind, Around
<1>6. ~InTx(program, w) /\ program[w].keeps => Persisted(w)
  BY <1>1 DEF InTx, Persisted, Kind, Around
<1>7. ~program[w].keeps => ~Persisted(w)
  BY DEF Persisted
<1> DEFINE own == program[w].committed
           state == StateOf(w, lines)
<1>8. /\ own \in {"absent", "persisted", "not-persisted"}
      /\ own = "persisted" => program[w].keeps /\ ~InTx(program, w)
      /\ own = "not-persisted" => ~program[w].keeps
      /\ own = "absent" => program[w].keeps \/ ~InTx(program, w)
  BY StatementsAreHonest
<1>9. \/ state = "unknown"
      \/ own # "absent" /\ state = own
      \/ own = "absent" /\ RolledBack(w, lines) /\ state = "not-persisted"
      \/ own = "absent" /\ Committed(w, lines) /\ state = "persisted"
  BY DEF StateOf
<1> HIDE DEF own, state
<1>10. own = "persisted" => Persisted(w)
  BY <1>6, <1>8
<1>11. own = "not-persisted" => ~Persisted(w)
  BY <1>7, <1>8
<1>12. own = "absent" /\ Committed(w, lines) => Persisted(w)
  BY <1>4, <1>5, <1>8
<1>13. CASE own = "absent"
  BY <1>3, <1>9, <1>12, <1>13 DEF state
<1>14. CASE own # "absent"
  BY <1>8, <1>9, <1>10, <1>11, <1>14 DEF state
<1> QED BY <1>13, <1>14

\* What matches a selection for sure really does.
LEMMA YesIsTrue ==
  ASSUME EventsInv, NEW selection \in Selections, NEW listed \in BOOLEAN,
         NEW view, view.lines \subseteq written, NEW w \in Yes(selection, listed, view)
  PROVE  w \in Statements /\ Traced(w) /\ ReallyMatches(selection, w)
<1>1. /\ w \in Operations /\ Traced(w) /\ Done(w)
      /\ TableRule(selection, w, listed) = "counted" /\ Decided(selection, w, view.lines) = "yes"
  BY DEF Yes, EventsInv, EventsTypeOK, LinesOfTheDone
<1>2. Kind(w) = "db" /\ MatchFields(selection, program[w].says) \in {"yes", "commit-state"}
  <2>1. MatchLine(selection, w) \in {"yes", "commit-state"}
    BY <1>1 DEF Decided
  <2> QED BY <2>1 DEF MatchLine
<1>3. w \in Statements
  BY <1>1, <1>2 DEF Statements, Of
<1>4. fate[w] = "ended"
  BY <1>1, <1>2 DEF EventsInv, FatesOfKinds, Done
<1>5. /\ OpMatches(selection, program[w].says.op) = "yes"
      /\ TableMatches(selection, program[w].says.table) = "yes"
      /\ selection.committed # "unstated" => MatchLine(selection, w) = "commit-state"
  <2>1. /\ OpMatches(selection, program[w].says.op) \in {"yes", "unknown", "no"}
        /\ TableMatches(selection, program[w].says.table) \in {"yes", "unknown", "no"}
    BY DEF OpMatches, TableMatches
  <2> QED BY <1>2, <2>1 DEF MatchFields, MatchLine
<1>6. program[w].says.op \in selection.ops
  BY <1>5 DEF OpMatches
<1>7. IF selection.tables = {} THEN program[w].really.table \notin Marked
      ELSE program[w].says.table \in selection.tables
  <2>1. CASE selection.tables = {}
    <3>1. program[w].says.table \notin Marked /\ (program[w].says.table = "unknown" => Marked = {})
      BY <1>1, <1>2, <2>1 DEF TableRule
    <3> QED BY <3>1, <2>1, <1>3, StatementsAreHonest
  <2>2. CASE selection.tables # {}
    BY <2>2, <1>5 DEF TableMatches
  <2> QED BY <2>1, <2>2
<1>8. selection.committed # "unstated" => (selection.committed = "persisted" <=> Persisted(w))
  <2> SUFFICES ASSUME selection.committed # "unstated"
               PROVE  selection.committed = "persisted" <=> Persisted(w)
    OBVIOUS
  <2>1. StateOf(w, view.lines) = selection.committed
    BY <1>1, <1>2, <1>5 DEF Decided
  <2>2. selection.committed \in {"persisted", "not-persisted"}
    BY EventsConstants
  <2> QED BY <2>1, <2>2, <1>1, <1>3, StateOfIsRight
<1> QED BY <1>1, <1>3, <1>4, <1>6, <1>7, <1>8 DEF ReallyMatches

\* A line of what really matches is never told apart from the selection.
LEMMA TrueIsCounted ==
  ASSUME EventsInv, NEW selection \in Selections, NEW listed \in BOOLEAN,
         NEW view, view.lines \subseteq written, NEW w \in Statements, w \in view.lines,
         ReallyMatches(selection, w)
  PROVE  w \in Yes(selection, listed, view) \cup Maybe(selection, listed, view)
<1>1. Done(w)
  BY DEF EventsInv, LinesOfTheDone
<1>2. TableRule(selection, w, listed) # "left-out"
  <2>1. "unknown" \notin Marked
    BY EventsConstants
  <2>2. selection.tables = {} => program[w].says.table \notin Marked
    BY <2>1, StatementsAreHonest DEF ReallyMatches
  <2> QED BY <2>2 DEF TableRule
<1>3. MatchLine(selection, w) # "no"
  <2>1. OpMatches(selection, program[w].says.op) # "no"
    BY StatementsAreHonest DEF ReallyMatches, OpMatches
  <2>2. TableMatches(selection, program[w].says.table) # "no"
    BY StatementsAreHonest DEF ReallyMatches, TableMatches
  <2> QED BY <2>1, <2>2, StatementsAreHonest DEF MatchLine, MatchFields
<1>4. Decided(selection, w, view.lines) # "no"
  <2>1. CASE MatchLine(selection, w) # "commit-state"
    BY <2>1, <1>3 DEF Decided
  <2>2. CASE MatchLine(selection, w) = "commit-state"
    <3>1. selection.committed # "unstated"
      BY <2>2 DEF MatchLine, MatchFields
    <3>2. /\ selection.committed \in {"persisted", "not-persisted"}
          /\ selection.committed = "persisted" <=> Persisted(w)
      BY <3>1, EventsConstants DEF ReallyMatches
    <3>3. StateOf(w, view.lines) \in {"unknown", selection.committed}
      BY <3>2, <1>1, StateOfIsRight
    <3> QED BY <2>2, <3>3 DEF Decided
  <2> QED BY <2>1, <2>2
<1> QED BY <1>2, <1>3, <1>4 DEF Yes, Maybe

TrueSet(selection) ==
  {w \in Statements : /\ Traced(w) \/ (w \in read.lines /\ program[Root(w)].ours)
                      /\ ReallyMatches(selection, w)}

\* A range ends where it should: no lower than what happened, and no higher
\* unless something that happened was not seen.
LEMMA RangeIsRight ==
  ASSUME EventsInv, NEW selection \in Selections, NEW listed \in BOOLEAN, NEW processes,
         NEW view, view.lines \subseteq written, view.damaged \subseteq damaged
  PROVE  LET range == CountRange(selection, listed, view, processes)
         IN /\ range.at_least \in Nat /\ range.at_most \in Nat /\ range.bounded \in BOOLEAN
            /\ range.bounded = Whole(view, processes)
            /\ TrueCount(selection) \in Nat /\ range.at_least <= TrueCount(selection)
            /\ TrueSet(selection) \subseteq view.lines \cup {o \in view.damaged : Traced(o)}
                 => TrueCount(selection) <= range.at_most
<1> DEFINE yes == Yes(selection, listed, view)
           maybe == Maybe(selection, listed, view)
           true == TrueSet(selection)
<1>1. /\ yes \subseteq Operations /\ maybe \subseteq Operations /\ true \subseteq Operations
      /\ IsFiniteSet(Operations)
  BY EventsConstants DEF EventsInv, EventsTypeOK, Yes, Maybe, TrueSet, Statements, Of, Operations
<1>2. /\ IsFiniteSet(yes) /\ IsFiniteSet(maybe) /\ IsFiniteSet(true) /\ IsFiniteSet(yes \cup maybe)
      /\ yes \cup maybe \subseteq Operations
  BY <1>1, FS_Subset
<1>3. /\ Cardinality(yes) \in Nat /\ Cardinality(maybe) \in Nat /\ Cardinality(true) \in Nat
      /\ Cardinality(yes \cup maybe) \in Nat
  BY <1>2, FS_CardinalityType
<1>4. yes \subseteq true
  BY YesIsTrue DEF TrueSet
<1>5. Cardinality(yes) <= Cardinality(true)
  BY <1>2, <1>4, FS_Subset
<1>6. Cardinality(yes \cup maybe) <= Cardinality(yes) + Cardinality(maybe)
  <2>1. IsFiniteSet(yes \cap maybe)
    BY <1>2, FS_Subset
  <2>2. Cardinality(yes \cap maybe) \in Nat
    BY <2>1, FS_CardinalityType
  <2>3. Cardinality(yes \cup maybe) = Cardinality(yes) + Cardinality(maybe) - Cardinality(yes \cap maybe)
    BY <1>2, FS_Union
  <2> QED BY <2>2, <2>3, <1>3
<1>7. ASSUME true \subseteq view.lines \cup {o \in view.damaged : Traced(o)}
      PROVE  Cardinality(true) <= Cardinality(yes) + Cardinality(maybe)
  <2>1. \A w \in true : w \in view.lines => w \in yes \cup maybe
    BY TrueIsCounted DEF TrueSet
  <2>2. \A w \in true : w \in view.damaged /\ Traced(w) => w \in yes \cup maybe
    BY DEF Maybe
  <2>3. true \subseteq yes \cup maybe
    BY <2>1, <2>2, <1>7
  <2>4. Cardinality(true) <= Cardinality(yes \cup maybe)
    BY <2>3, <1>2, FS_Subset
  <2> QED BY <2>4, <1>3, <1>6
<1>8. TrueCount(selection) = Cardinality(true)
  BY DEF TrueCount, TrueSet
<1>9. Whole(view, processes) \in BOOLEAN
  BY DEF Whole
<1> QED BY <1>3, <1>5, <1>7, <1>8, <1>9 DEF CountRange

\* A judgment that the recount leaves standing is so: both ends of the range
\* it was made on are right of what really happened.
LEMMA EventsInvStands == EventsInv => JudgmentStands
<1> SUFFICES ASSUME EventsInv, moment = "stopped",
                    MayMissLines => \A o \in Operations :
                                      Traced(o) /\ Done(o) => o \in (written \cup damaged) \ lost,
                    NEW selection \in Selections, NEW listed \in BOOLEAN,
                    NEW compare \in Compares, NEW expected \in 0..3,
                    JudgeRange(ReadRange(selection, listed), compare, expected) # "unknown",
                    ~JudgedEarly(ReadRange(selection, listed), StopRange(selection, listed), compare, expected)
             PROVE  JudgeRange(ReadRange(selection, listed), compare, expected) = "held"
                      <=> CompareCount(TrueCount(selection), compare, expected)
  BY DEF JudgmentStands
<1> DEFINE before == ReadRange(selection, listed)
           after == StopRange(selection, listed)
           true == TrueSet(selection)
           count == TrueCount(selection)
           inFile == (written \cup damaged) \ lost
<1>1. /\ read.lines \subseteq written /\ read.damaged \subseteq damaged
      /\ Recounted.lines = {o \in written \cap inFile : Traced(o)} \cup {o \in read.lines : ~Traced(o)}
      /\ Recounted.damaged = {o \in damaged \cap inFile : Traced(o)}
      /\ expected \in Nat
  BY DEF EventsInv, LinesOfTheDone, Recounted
<1>2. /\ before.at_least \in Nat /\ before.at_most \in Nat /\ before.bounded \in BOOLEAN
      /\ before.bounded = Whole(read, left.processes)
      /\ count \in Nat /\ before.at_least <= count
      /\ true \subseteq read.lines \cup {o \in read.damaged : Traced(o)} => count <= before.at_most
  BY <1>1, RangeIsRight DEF ReadRange
<1>3. /\ after.at_least \in Nat /\ after.at_most \in Nat /\ after.bounded \in BOOLEAN
      /\ after.at_least <= count
      /\ true \subseteq Recounted.lines \cup {o \in Recounted.damaged : Traced(o)} => count <= after.at_most
  <2>1. Recounted.lines \subseteq written /\ Recounted.damaged \subseteq damaged
    BY <1>1
  <2> QED BY <2>1, RangeIsRight DEF StopRange
<1>4. \A w \in true : /\ w \in Operations /\ Done(w)
                      /\ Traced(w) \/ w \in read.lines
  BY DEF TrueSet, ReallyMatches, Statements, Of, Done
<1> HIDE DEF before, after, true, count
<1>5. CASE ~before.bounded
  BY <1>1, <1>2, <1>5, JudgeRangeIsRight DEF before, count
<1>6. CASE before.bounded /\ ~MayMissLines
  <2>1. \A w \in true : w \in read.lines
    BY <1>2, <1>4, <1>6, WholeReadIsLast DEF WholeIsLast, Done
  <2>2. count <= before.at_most
    BY <1>2, <2>1
  <2> QED BY <1>1, <1>2, <2>2, JudgeRangeIsRight DEF before, count
<1>7. CASE MayMissLines
  <2>1. \A o \in Operations : Traced(o) /\ Done(o) => o \in inFile
    BY <1>7
  <2>2. true \subseteq Recounted.lines \cup {o \in Recounted.damaged : Traced(o)}
    BY <1>1, <1>4, <2>1
  <2>3. CASE MoreCame
    <3>1. JudgeRange(after, compare, expected) = JudgeRange(before, compare, expected)
      BY <2>3 DEF JudgedEarly, before, after
    <3>2. count <= after.at_most
      BY <1>3, <2>2
    <3> QED BY <1>1, <1>2, <1>3, <3>1, <3>2, JudgeRangeIsRight DEF before, count
  <2>4. CASE ~MoreCame
    <3>1. OfTrace(read) \subseteq OfTrace(Recounted)
      BY <1>1, <2>1 DEF OfTrace, EventsInv, EventsTypeOK, LinesOfTheDone
    <3>2. IsFiniteSet(OfTrace(Recounted)) /\ IsFiniteSet(OfTrace(read))
      <4>1. OfTrace(Recounted) \subseteq Operations /\ IsFiniteSet(Operations)
        BY <1>1, EventsConstants DEF OfTrace, EventsInv, EventsTypeOK, Operations
      <4> QED BY <3>1, <4>1, FS_Subset
    <3>3. /\ Cardinality(OfTrace(read)) \in Nat /\ Cardinality(OfTrace(Recounted)) \in Nat
          /\ Cardinality(OfTrace(read)) <= Cardinality(OfTrace(Recounted))
      BY <3>1, <3>2, FS_CardinalityType, FS_Subset
    <3>4. Cardinality(OfTrace(read)) = Cardinality(OfTrace(Recounted))
      BY <2>4, <3>3 DEF MoreCame
    <3>5. OfTrace(read) = OfTrace(Recounted)
      BY <3>1, <3>2, <3>4, FS_Subset
    <3>6. true \subseteq read.lines \cup {o \in read.damaged : Traced(o)}
      BY <1>1, <1>4, <2>1, <3>5 DEF OfTrace
    <3>7. count <= before.at_most
      BY <1>2, <3>6
    <3> QED BY <1>1, <1>2, <3>7, JudgeRangeIsRight DEF before, count
  <2> QED BY <2>3, <2>4
<1> QED BY <1>2, <1>5, <1>6, <1>7

\* A claim judged on a count (count.ts, judgeRange) and not taken back at the stop
\* (events-after-stop.ts) is true of what the program really did.
THEOREM StandingJudgments == EventsSpec => []JudgmentStands
BY EventsInvHolds, EventsInvStands, PTL

\* Both: what readEvents says of a step's events (events-read.ts) stands
\* when the world has stopped.
THEOREM StandingReadings == EventsSpec => []ReadingStands
BY LastWord, StandingJudgments, PTL DEF ReadingStands

-----------------------------------------------------------------------------
(***************************************************************************)
(* LineBuffer.                                                             *)
(* Lines as written, for every text and every cut of its bytes.            *)
(***************************************************************************)

\* Line n of a text, from after a to before b.
LineAt(one, n, t, a, b) ==
  /\ a \in Newlines(t) \cup {0}
  /\ a < b /\ \A q \in Newlines(t) : q <= a \/ b <= q
  /\ Cardinality(NewlinesTo(t, a)) = n - 1
  /\ one = SubSeq(t, a + 1, b - 1)

\* A text is split at c: the lines before are out, the rest is kept.
SplitAt(c, t, lines, rest) ==
  /\ c \in Newlines(t) \cup {0}
  /\ rest = SubSeq(t, c + 1, Len(t))
  /\ lines \in Seq(Seq(Chars)) /\ Len(lines) = Cardinality(NewlinesTo(t, c))
  /\ \A n \in DOMAIN lines :
       \E a \in Nat, b \in Newlines(t) : b <= c /\ LineAt(lines[n], n, t, a, b)

BufferInv ==
  /\ text \in Seq(Chars) /\ got \in Points /\ stop \in Points
  /\ flushed \in BOOLEAN
  /\ ~flushed => held = got[2] /\ \E c \in Nat : SplitAt(c, SoFar, emitted, carry)
  /\ flushed => carry = <<>> /\ LinesAsWritten

LEMMA PointIsPair ==
  ASSUME NEW p \in Points, text \in Seq(Chars)
  PROVE  /\ p = <<p[1], p[2]>> /\ p[1] \in 0..Len(text) /\ p[2] \in Nat
         /\ p[1] = Len(text) => p[2] = 0
         /\ p[1] # Len(text) => p[2] <= Width[text[p[1] + 1]] - 1
<1>1. PICK n \in 0..Len(text) :
        p \in {<<n, i>> : i \in 0..(IF n = Len(text) THEN 0 ELSE Width[text[n + 1]] - 1)}
  BY DEF Points
<1>2. PICK i \in 0..(IF n = Len(text) THEN 0 ELSE Width[text[n + 1]] - 1) : p = <<n, i>>
  BY <1>1
<1>3. p[1] = n /\ p[2] = i
  BY <1>2
<1>4. CASE n = Len(text)
  BY <1>2, <1>3, <1>4
<1>5. CASE n # Len(text)
  <2>1. n + 1 \in 1..Len(text)
    BY <1>5
  <2>2. Width[text[n + 1]] \in Nat
    BY <2>1, BufferConstants DEF Chars
  <2> QED BY <1>2, <1>3, <1>5, <2>2
<1> QED BY <1>4, <1>5

LEMMA SoFarText ==
  ASSUME text \in Seq(Chars), NEW k \in 0..Len(text)
  PROVE  /\ SubSeq(text, 1, k) \in Seq(Chars) /\ Len(SubSeq(text, 1, k)) = k
         /\ \A i \in 1..k : SubSeq(text, 1, k)[i] = text[i]
OBVIOUS

LEMMA NewlinesAre ==
  ASSUME NEW S, NEW t \in Seq(S)
  PROVE  /\ Newlines(t) \subseteq 1..Len(t)
         /\ IsFiniteSet(Newlines(t)) /\ Cardinality(Newlines(t)) \in Nat
         /\ \A p : /\ IsFiniteSet(NewlinesTo(t, p)) /\ Cardinality(NewlinesTo(t, p)) \in Nat
                   /\ Cardinality(NewlinesTo(t, p)) <= Cardinality(Newlines(t))
<1>1. Newlines(t) \subseteq 1..Len(t)
  BY DEF Newlines
<1>2. IsFiniteSet(1..Len(t))
  BY FS_Interval
<1>3. IsFiniteSet(Newlines(t)) /\ Cardinality(Newlines(t)) \in Nat
  BY <1>1, <1>2, FS_Subset, FS_CardinalityType
<1>4. ASSUME NEW p
      PROVE  /\ IsFiniteSet(NewlinesTo(t, p)) /\ Cardinality(NewlinesTo(t, p)) \in Nat
             /\ Cardinality(NewlinesTo(t, p)) <= Cardinality(Newlines(t))
  <2>1. NewlinesTo(t, p) \subseteq Newlines(t)
    BY DEF NewlinesTo
  <2> QED BY <2>1, <1>3, FS_Subset, FS_CardinalityType
<1> QED BY <1>1, <1>3, <1>4

\* A part of a text.
LEMMA PartOf ==
  ASSUME NEW S, NEW t \in Seq(S), NEW a \in 1..(Len(t) + 1), NEW n \in (a - 1)..Len(t)
  PROVE  /\ SubSeq(t, a, n) \in Seq(S) /\ Len(SubSeq(t, a, n)) = n - a + 1
         /\ \A i \in 1..(n - a + 1) : SubSeq(t, a, n)[i] = t[a + i - 1]
<1> DEFINE part == SubSeq(t, a, n)
<1>1. \A i \in a..n : t[i] \in S
  OBVIOUS
<1>2. a \in Int /\ n \in Int
  OBVIOUS
<1>3. /\ part \in Seq(S) /\ Len(part) = IF a <= n THEN n - a + 1 ELSE 0
      /\ \A i \in 1..(n - a + 1) : part[i] = t[a + i - 1]
  BY <1>1, <1>2, SubSeqProperties
<1> HIDE DEF part
<1>4. Len(part) = n - a + 1
  <2>1. Len(part) = IF a <= n THEN n - a + 1 ELSE 0
    BY <1>3
  <2> QED BY <2>1
<1> QED BY <1>3, <1>4 DEF part

LEMMA PartAfter ==
  ASSUME NEW S, NEW t \in Seq(S), NEW c \in 0..Len(t), NEW n \in c..Len(t)
  PROVE  /\ SubSeq(t, c + 1, n) \in Seq(S) /\ Len(SubSeq(t, c + 1, n)) = n - c
         /\ \A i \in 1..(n - c) : SubSeq(t, c + 1, n)[i] = t[c + i]
<1>1. PICK a \in 1..(Len(t) + 1) : a = c + 1
  OBVIOUS
<1>2. n \in (a - 1)..Len(t)
  BY <1>1
<1>3. PICK x \in Seq(S) : x = SubSeq(t, a, n)
  BY <1>2, PartOf
<1>4. Len(x) = n - a + 1 /\ \A i \in 1..(n - a + 1) : x[i] = t[a + i - 1]
  BY <1>2, <1>3, PartOf
<1>5. n - a + 1 = n - c
  BY <1>1
<1>6. ASSUME NEW i \in 1..(n - c) PROVE x[i] = t[c + i]
  <2>1. x[i] = t[a + i - 1]
    BY <1>4, <1>5
  <2>2. a + i - 1 = c + i
    BY <1>1
  <2> QED BY <2>1, <2>2
<1> QED BY <1>1, <1>3, <1>4, <1>5, <1>6

\* k characters of one text, from a on, are those of another from b on.
Agree(t, a, u, b, k) == \A i \in 1..k : t[a + i - 1] = u[b + i - 1]

LEMMA SamePart ==
  ASSUME NEW S, NEW t \in Seq(S), NEW u \in Seq(S),
         NEW a \in 1..(Len(t) + 1), NEW n \in (a - 1)..Len(t),
         NEW b \in 1..(Len(u) + 1), NEW m \in (b - 1)..Len(u),
         NEW k \in Nat, k = n - a + 1, k = m - b + 1, Agree(t, a, u, b, k)
  PROVE  SubSeq(t, a, n) = SubSeq(u, b, m)
<1>1. PICK x \in Seq(S) : x = SubSeq(t, a, n)
  BY PartOf
<1>2. PICK y \in Seq(S) : y = SubSeq(u, b, m)
  BY PartOf
<1>3. Len(x) = k /\ \A i \in 1..k : x[i] = t[a + i - 1]
  BY <1>1, PartOf
<1>4. Len(y) = k /\ \A i \in 1..k : y[i] = u[b + i - 1]
  BY <1>2, PartOf
<1>5. \A i \in 1..k : x[i] = y[i]
  BY <1>3, <1>4 DEF Agree
<1>6. x = y
  BY <1>3, <1>4, <1>5, SeqEqual
<1> QED BY <1>1, <1>2, <1>6

LEMMA StartsSame ==
  ASSUME NEW S, NEW t \in Seq(S), NEW u \in Seq(S), Len(t) <= Len(u),
         \A i \in 1..Len(t) : u[i] = t[i],
         NEW x \in 1..(Len(t) + 1), NEW y \in 0..Len(t), x - 1 <= y
  PROVE  SubSeq(u, x, y) = SubSeq(t, x, y)
<1>1. y \in (x - 1)..Len(t) /\ x \in 1..(Len(u) + 1) /\ y \in (x - 1)..Len(u)
  OBVIOUS
<1>2. PICK k \in Nat : k = y - x + 1
  OBVIOUS
<1>3. Agree(u, x, t, x, k)
  <2> SUFFICES ASSUME NEW i \in 1..k PROVE u[x + i - 1] = t[x + i - 1]
    BY DEF Agree
  <2>1. x + i - 1 \in 1..Len(t)
    BY <1>2
  <2> QED BY <2>1
<1> QED BY <1>1, <1>2, <1>3, SamePart

\* What is added to a text leaves its complete lines as they were.
LEMMA LinesStay ==
  ASSUME NEW S, NEW t \in Seq(S), NEW u \in Seq(S), NEW v \in Seq(S), u = t \o v
  PROVE  /\ \A p \in 0..Len(t) : NewlinesTo(u, p) = NewlinesTo(t, p)
         /\ Newlines(t) \subseteq Newlines(u)
         /\ \A q \in Newlines(u) : q \in Newlines(t) \/ q > Len(t)
         /\ \A one, n : \A a \in Nat, b \in Newlines(t) :
              LineAt(one, n, t, a, b) => LineAt(one, n, u, a, b)
<1>1. /\ Len(u) = Len(t) + Len(v)
      /\ \A i \in 1..Len(t) : u[i] = t[i]
  OBVIOUS
<1>2. Newlines(t) \subseteq Newlines(u) /\ \A q \in Newlines(u) : q \in Newlines(t) \/ q > Len(t)
  BY <1>1 DEF Newlines
<1>3. ASSUME NEW p \in 0..Len(t)
      PROVE  NewlinesTo(u, p) = NewlinesTo(t, p)
  <2>1. Newlines(t) \subseteq 1..Len(t) /\ Newlines(u) \subseteq 1..Len(u)
    BY DEF Newlines
  <2> QED BY <1>2, <2>1 DEF NewlinesTo
<1>4. ASSUME NEW one, NEW n, NEW a \in Nat, NEW b \in Newlines(t), LineAt(one, n, t, a, b)
      PROVE  LineAt(one, n, u, a, b)
  <2>1. a \in 0..Len(t) /\ b \in 1..Len(t) /\ a < b
    BY <1>4 DEF LineAt, Newlines
  <2>2. NewlinesTo(u, a) = NewlinesTo(t, a)
    BY <1>3, <2>1
  <2>3. SubSeq(u, a + 1, b - 1) = SubSeq(t, a + 1, b - 1)
    <3>1. PICK x \in 1..(Len(t) + 1) : x = a + 1
      BY <2>1
    <3>2. PICK y \in 0..Len(t) : y = b - 1
      BY <2>1
    <3>3. x - 1 <= y
      BY <2>1, <3>1, <3>2
    <3>4. SubSeq(u, x, y) = SubSeq(t, x, y)
      BY <1>1, <3>3, StartsSame
    <3> QED BY <3>1, <3>2, <3>4
  <2>4. \A q \in Newlines(u) : q <= a \/ b <= q
    <3> SUFFICES ASSUME NEW q \in Newlines(u) PROVE q <= a \/ b <= q
      OBVIOUS
    <3>1. CASE q \in Newlines(t)
      BY <3>1, <1>4 DEF LineAt
    <3>2. CASE q > Len(t)
      <4>1. q \in Nat
        BY DEF Newlines
      <4> QED BY <3>2, <2>1, <4>1
    <3> QED BY <3>1, <3>2, <1>2
  <2> QED BY <1>2, <1>4, <2>1, <2>2, <2>3, <2>4 DEF LineAt
<1> QED BY <1>2, <1>3, <1>4

LEMMA BufferInvInit == BufferInit => BufferInv
<1> SUFFICES ASSUME BufferInit PROVE BufferInv
  OBVIOUS
<1>1. text \in Seq(Chars)
  BY BufferConstants DEF BufferInit
<1>2. got \in Points /\ stop \in Points
  <2>1. 0 \in 0..Len(text)
    BY <1>1
  <2>2. 0 \in 0..(IF 0 = Len(text) THEN 0 ELSE Width[text[0 + 1]] - 1)
    <3>1. CASE 0 = Len(text)
      BY <3>1
    <3>2. CASE 0 # Len(text)
      <4>1. Width[text[1]] \in Nat \ {0}
        BY <1>1, <3>2, BufferConstants DEF Chars
      <4> QED BY <4>1
    <3> QED BY <3>1, <3>2
  <2> QED BY <2>1, <2>2 DEF Points, BufferInit
<1>3. SoFar = <<>>
  BY <1>1 DEF SoFar, BufferInit
<1>4. Newlines(SoFar) = {} /\ NewlinesTo(SoFar, 0) = {}
  BY <1>3 DEF Newlines, NewlinesTo
<1>5. SplitAt(0, SoFar, emitted, carry)
  BY <1>3, <1>4, FS_EmptySet DEF SplitAt, BufferInit
<1> QED BY <1>1, <1>2, <1>5 DEF BufferInv, BufferInit

\* What a text ends with, and what is added to it.
LEMMA RestGrows ==
  ASSUME NEW S, NEW t \in Seq(S), NEW v \in Seq(S), NEW c \in 0..Len(t)
  PROVE  SubSeq(t, c + 1, Len(t)) \o v = SubSeq(t \o v, c + 1, Len(t \o v))
<1>1. PICK u \in Seq(S) : u = t \o v
  BY ConcatProperties
<1>2. PICK m \in Nat : m = Len(t)
  OBVIOUS
<1>3. PICK k \in Nat : k = Len(v)
  OBVIOUS
<1>4. Len(u) = m + k /\ \A i \in 1..(m + k) : u[i] = IF i <= m THEN t[i] ELSE v[i - m]
  BY <1>1, <1>2, <1>3, ConcatProperties
<1>5. PICK n \in Nat : n = m + k
  OBVIOUS
<1>6. PICK x \in 1..(m + 1) : x = c + 1
  BY <1>2
<1>7. PICK y \in 1..(n + 1) : y = m + 1
  BY <1>5
<1>8. m <= n /\ n = Len(u)
  BY <1>4, <1>5
<1>9. SubSeq(u, x, m) = SubSeq(t, x, m)
  <2>1. \A i \in 1..m : u[i] = t[i]
    BY <1>4
  <2>2. Len(t) <= Len(u) /\ x \in 1..(Len(t) + 1) /\ m \in 0..Len(t) /\ x - 1 <= m
    BY <1>2, <1>8
  <2> QED BY <1>2, <2>1, <2>2, StartsSame
<1>10. SubSeq(u, y, n) = v
  <2>1. y \in 1..(Len(u) + 1) /\ n \in (y - 1)..Len(u)
    BY <1>7, <1>8
  <2>2. PICK part \in Seq(S) : part = SubSeq(u, y, n)
    BY <2>1, PartOf
  <2>3. Len(part) = n - y + 1 /\ \A i \in 1..(n - y + 1) : part[i] = u[y + i - 1]
    BY <2>1, <2>2, PartOf
  <2>4. n - y + 1 = k
    BY <1>5, <1>7
  <2>5. ASSUME NEW i \in 1..k PROVE part[i] = v[i]
    <3>1. part[i] = u[y + i - 1]
      BY <2>3, <2>4
    <3>2. PICK j \in 1..(m + k) : j = y + i - 1 /\ ~(j <= m) /\ j - m = i
      BY <1>7
    <3>3. u[j] = v[j - m]
      BY <1>4, <3>2
    <3> QED BY <3>1, <3>2, <3>3
  <2>6. part = v
    BY <1>3, <2>3, <2>4, <2>5, SeqEqual
  <2> QED BY <2>2, <2>6
<1>11. SubSeq(u, x, m) \o SubSeq(u, y, n) = SubSeq(u, x, n)
  <2>1. x \in 1..(Len(u) + 1) /\ m \in (x - 1)..Len(u) /\ n \in m..Len(u)
    BY <1>8
  <2> QED BY <1>7, <2>1, ConcatAdjacentSubSeq
<1>12. SubSeq(t, c + 1, Len(t)) = SubSeq(u, x, m)
  BY <1>2, <1>6, <1>9
<1>13. SubSeq(u, c + 1, Len(u)) = SubSeq(u, x, n)
  BY <1>6, <1>8
<1> QED BY <1>1, <1>10, <1>11, <1>12, <1>13

\* What comes next in a text.
LEMMA NextPart ==
  ASSUME NEW S, NEW t \in Seq(S), NEW n \in 0..Len(t), NEW m \in n..Len(t)
  PROVE  LET v == [k \in 1..(m - n) |-> t[n + k]]
         IN  v \in Seq(S) /\ SubSeq(t, 1, n) \o v = SubSeq(t, 1, m)
<1> DEFINE v == [k \in 1..(m - n) |-> t[n + k]]
<1>1. v \in [1..(m - n) -> S] /\ m - n \in Nat
  OBVIOUS
<1>2. v \in Seq(S) /\ Len(v) = m - n /\ \A k \in 1..(m - n) : v[k] = t[n + k]
  BY <1>1
<1> HIDE DEF v
<1>3. PICK y \in 1..(Len(t) + 1) : y = n + 1
  OBVIOUS
<1>4. SubSeq(t, y, m) = v
  <2>1. m \in (y - 1)..Len(t)
    BY <1>3
  <2>2. PICK part \in Seq(S) : part = SubSeq(t, y, m)
    BY <2>1, PartOf
  <2>3. Len(part) = m - y + 1 /\ \A i \in 1..(m - y + 1) : part[i] = t[y + i - 1]
    BY <2>1, <2>2, PartOf
  <2>4. m - y + 1 = m - n
    BY <1>3
  <2>5. ASSUME NEW i \in 1..(m - n) PROVE part[i] = v[i]
    <3>1. part[i] = t[y + i - 1]
      BY <2>3, <2>4
    <3>2. y + i - 1 = n + i
      BY <1>3
    <3> QED BY <3>1, <3>2, <1>2
  <2>6. part = v
    BY <1>2, <2>3, <2>4, <2>5, SeqEqual
  <2> QED BY <2>2, <2>6
<1>5. SubSeq(t, 1, n) \o SubSeq(t, y, m) = SubSeq(t, 1, m)
  <2>1. 1 \in 1..(Len(t) + 1) /\ n \in (1 - 1)..Len(t)
    OBVIOUS
  <2> QED BY <1>3, <2>1, ConcatAdjacentSubSeq
<1> QED BY <1>2, <1>4, <1>5 DEF v

\* A chunk adds to the text so far the characters it completes.
LEMMA WriteIsNext ==
  ASSUME text \in Seq(Chars), got \in Points, held = got[2],
         NEW to \in Points, got[1] <= to[1]
  PROVE  /\ Write(to) \in Seq(Chars) /\ SoFar \in Seq(Chars) /\ Len(SoFar) = got[1]
         /\ SubSeq(text, 1, to[1]) = SoFar \o Write(to)
<1>1. got[1] \in 0..Len(text) /\ to[1] \in 0..Len(text)
  BY PointIsPair
<1>2. Write(to) = [k \in 1..(to[1] - got[1]) |-> text[got[1] + k]]
  BY DEF Write
<1>3. to[1] \in got[1]..Len(text)
  BY <1>1
<1>4. Write(to) \in Seq(Chars) /\ SubSeq(text, 1, got[1]) \o Write(to) = SubSeq(text, 1, to[1])
  BY <1>1, <1>2, <1>3, NextPart
<1> QED BY <1>1, <1>4, SoFarText DEF SoFar

LEMMA PushKeeps == BufferInv /\ Push => BufferInv'
<1> SUFFICES ASSUME BufferInv, Push PROVE BufferInv'
  OBVIOUS
<1>1. PICK to \in Points \ {got} :
        /\ Upto(got, to) /\ Upto(to, stop)
        /\ carry' = carry \o Write(to)
        /\ held' = IF to[1] = got[1] THEN held + (to[2] - got[2]) ELSE to[2]
        /\ got' = to
  BY DEF Push
<1>2. ~flushed /\ UNCHANGED <<text, stop, emitted, flushed>>
  BY DEF Push
<1>3. /\ text \in Seq(Chars) /\ got \in Points /\ stop \in Points
      /\ held = got[2]
  BY <1>2 DEF BufferInv
<1>4. PICK c \in Nat : SplitAt(c, SoFar, emitted, carry)
  BY <1>2 DEF BufferInv
<1>5. /\ got[1] \in Nat /\ got[2] \in Nat /\ to[1] \in Nat /\ to[2] \in Nat
      /\ got[1] <= to[1]
  BY <1>1, <1>3, PointIsPair DEF Upto
<1>6. /\ Write(to) \in Seq(Chars) /\ SoFar \in Seq(Chars) /\ Len(SoFar) = got[1]
      /\ SubSeq(text, 1, to[1]) = SoFar \o Write(to)
  BY <1>3, <1>5, WriteIsNext
<1>7. SoFar' = SoFar \o Write(to)
  BY <1>1, <1>2, <1>6 DEF SoFar
<1>8. held' = got'[2]
  BY <1>1, <1>3, <1>5
<1>9. Points' = Points
  BY <1>2 DEF Points
<1>10. PICK sofar \in Seq(Chars) : sofar = SoFar
  BY <1>6
<1>11. PICK more \in Seq(Chars) : more = Write(to)
  BY <1>6
<1>12. PICK new \in Seq(Chars) : new = sofar \o more
  BY ConcatProperties
<1>13. SplitAt(c, sofar, emitted, carry) /\ carry' = carry \o more /\ SoFar' = new
  BY <1>1, <1>4, <1>7, <1>10, <1>11, <1>12
<1>14. /\ \A p \in 0..Len(sofar) : NewlinesTo(new, p) = NewlinesTo(sofar, p)
       /\ Newlines(sofar) \subseteq Newlines(new)
       /\ \A one, n : \A a \in Nat, b \in Newlines(sofar) :
            LineAt(one, n, sofar, a, b) => LineAt(one, n, new, a, b)
  BY <1>12, LinesStay
<1>15. c \in 0..Len(sofar)
  BY <1>13 DEF SplitAt, Newlines
<1>16. SplitAt(c, new, emitted, carry')
  <2>1. c \in Newlines(new) \cup {0}
    BY <1>13, <1>14 DEF SplitAt
  <2>2. carry' = SubSeq(new, c + 1, Len(new))
    <3>1. carry' = SubSeq(sofar, c + 1, Len(sofar)) \o more
      BY <1>13 DEF SplitAt
    <3> QED BY <3>1, <1>12, <1>15, RestGrows
  <2>3. emitted \in Seq(Seq(Chars)) /\ Len(emitted) = Cardinality(NewlinesTo(new, c))
    BY <1>13, <1>14, <1>15 DEF SplitAt
  <2>4. \A n \in DOMAIN emitted :
          \E a \in Nat, b \in Newlines(new) : b <= c /\ LineAt(emitted[n], n, new, a, b)
    <3> SUFFICES ASSUME NEW n \in DOMAIN emitted
                 PROVE  \E a \in Nat, b \in Newlines(new) : b <= c /\ LineAt(emitted[n], n, new, a, b)
      OBVIOUS
    <3>1. PICK a \in Nat, b \in Newlines(sofar) : b <= c /\ LineAt(emitted[n], n, sofar, a, b)
      BY <1>13 DEF SplitAt
    <3>2. LineAt(emitted[n], n, new, a, b) /\ b \in Newlines(new)
      BY <3>1, <1>14
    <3> QED BY <3>1, <3>2
  <2> QED BY <2>1, <2>2, <2>3, <2>4 DEF SplitAt
<1> QED BY <1>1, <1>2, <1>3, <1>8, <1>9, <1>13, <1>16 DEF BufferInv

\* The next newline is one more.
LEMMA OneMore ==
  ASSUME NEW S, NEW t \in Seq(S), NEW c \in Nat, NEW d \in Newlines(t), c < d,
         \A q \in Newlines(t) : q <= c \/ d <= q
  PROVE  Cardinality(NewlinesTo(t, d)) = Cardinality(NewlinesTo(t, c)) + 1
<1>1. Newlines(t) \subseteq Nat
  BY DEF Newlines
<1>2. NewlinesTo(t, d) = NewlinesTo(t, c) \cup {d} /\ d \notin NewlinesTo(t, c)
  BY <1>1 DEF NewlinesTo
<1>3. IsFiniteSet(NewlinesTo(t, c))
  BY NewlinesAre
<1> QED BY <1>2, <1>3, FS_AddElement

LEMMA EmitLineKeeps == BufferInv /\ ~flushed /\ EmitLine => BufferInv'
<1> SUFFICES ASSUME BufferInv, ~flushed, EmitLine PROVE BufferInv'
  OBVIOUS
<1>1. PICK i \in DOMAIN carry :
        /\ carry[i] = Newline /\ \A j \in 1..(i - 1) : carry[j] # Newline
        /\ emitted' = Append(emitted, SubSeq(carry, 1, i - 1))
        /\ carry' = SubSeq(carry, i + 1, Len(carry))
        /\ UNCHANGED <<text, stop, got, held, flushed>>
  BY DEF EmitLine
<1>2. text \in Seq(Chars) /\ got[1] \in 0..Len(text) /\ held = got[2]
  BY PointIsPair DEF BufferInv
<1>3. SoFar \in Seq(Chars) /\ Len(SoFar) = got[1]
  BY <1>2, SoFarText DEF SoFar
<1>4. PICK c \in Nat : SplitAt(c, SoFar, emitted, carry)
  BY DEF BufferInv
<1>5. PICK t \in Seq(Chars) : t = SoFar
  BY <1>3
<1>6. SoFar' = t
  BY <1>1, <1>5 DEF SoFar
<1>7. /\ c \in Newlines(t) \cup {0} /\ c \in 0..Len(t)
      /\ carry = SubSeq(t, c + 1, Len(t))
      /\ emitted \in Seq(Seq(Chars)) /\ Len(emitted) = Cardinality(NewlinesTo(t, c))
      /\ \A n \in DOMAIN emitted :
           \E a \in Nat, b \in Newlines(t) : b <= c /\ LineAt(emitted[n], n, t, a, b)
  BY <1>4, <1>5 DEF SplitAt, Newlines
<1>8. /\ carry \in Seq(Chars) /\ Len(carry) = Len(t) - c
      /\ \A j \in 1..(Len(t) - c) : carry[j] = t[c + j]
  BY <1>7
<1>9. i \in 1..(Len(t) - c)
  BY <1>8
<1>10. PICK d \in Nat : d = c + i
  BY <1>9
<1>11. d \in Newlines(t) /\ c < d /\ d <= Len(t)
  <2>1. t[d] = Newline
    BY <1>1, <1>8, <1>9, <1>10
  <2>2. d \in 1..Len(t) /\ c < d
    BY <1>7, <1>9, <1>10
  <2> QED BY <2>1, <2>2 DEF Newlines
<1>12. \A q \in Newlines(t) : q <= c \/ d <= q
  <2> SUFFICES ASSUME NEW q \in Newlines(t), c < q, q < d PROVE FALSE
    BY <1>11 DEF Newlines
  <2>1. q \in 1..Len(t) /\ t[q] = Newline
    BY DEF Newlines
  <2>2. q - c \in 1..(i - 1) /\ c + (q - c) = q
    BY <2>1, <1>7, <1>10
  <2>3. q - c \in 1..(Len(t) - c)
    BY <2>2, <1>9
  <2> QED BY <2>1, <2>2, <2>3, <1>1, <1>8
<1>13. Cardinality(NewlinesTo(t, d)) = Cardinality(NewlinesTo(t, c)) + 1
  BY <1>11, <1>12, OneMore
<1>14. PICK one \in Seq(Chars) : one = SubSeq(t, c + 1, d - 1)
  <2>1. d - 1 \in c..Len(t)
    BY <1>7, <1>11
  <2> QED BY <2>1, <1>7, PartAfter
<1>15. SubSeq(carry, 1, i - 1) = one
  <2>1. i - 1 \in 0..Len(carry) /\ d - 1 \in c..Len(t) /\ d - 1 - c = i - 1
    BY <1>7, <1>8, <1>9, <1>10
  <2>2. /\ SubSeq(carry, 1, i - 1) \in Seq(Chars) /\ Len(SubSeq(carry, 1, i - 1)) = i - 1
        /\ \A j \in 1..(i - 1) : SubSeq(carry, 1, i - 1)[j] = carry[j]
    <3>1. 0 \in 0..Len(carry) /\ i - 1 - 0 = i - 1 /\ 0 + 1 = 1 /\ \A j \in Nat : 0 + j = j
      BY <2>1
    <3> QED BY <3>1, <2>1, <1>8, PartAfter
  <2>3. Len(one) = i - 1 /\ \A j \in 1..(i - 1) : one[j] = t[c + j]
    BY <1>7, <1>14, <2>1, PartAfter
  <2>4. \A j \in 1..(i - 1) : carry[j] = t[c + j]
    BY <1>8, <1>9
  <2> QED BY <2>2, <2>3, <2>4, SeqEqual
<1>16. carry' = SubSeq(t, d + 1, Len(t))
  <2>1. i \in 0..Len(carry) /\ d \in 0..Len(t) /\ Len(t) - d = Len(carry) - i
    BY <1>7, <1>8, <1>9, <1>10
  <2>2. /\ carry' \in Seq(Chars) /\ Len(carry') = Len(carry) - i
        /\ \A j \in 1..(Len(carry) - i) : carry'[j] = carry[i + j]
    <3>1. Len(carry) \in i..Len(carry) /\ carry \in Seq(Chars)
      BY <2>1, <1>8
    <3>2. carry' = SubSeq(carry, i + 1, Len(carry))
      BY <1>1
    <3> QED BY <2>1, <3>1, <3>2, PartAfter
  <2>3. /\ SubSeq(t, d + 1, Len(t)) \in Seq(Chars) /\ Len(SubSeq(t, d + 1, Len(t))) = Len(t) - d
        /\ \A j \in 1..(Len(t) - d) : SubSeq(t, d + 1, Len(t))[j] = t[d + j]
    BY <2>1, PartAfter
  <2>4. \A j \in 1..(Len(t) - d) : i + j \in 1..(Len(t) - c) /\ c + (i + j) = d + j
    BY <1>7, <1>8, <1>9, <1>10
  <2>5. \A j \in 1..(Len(t) - d) : carry[i + j] = t[d + j]
    BY <2>4, <1>8
  <2> QED BY <2>1, <2>2, <2>3, <2>5, SeqEqual
<1>17. PICK lines \in Seq(Seq(Chars)) : lines = emitted
  BY <1>7
<1>18. PICK more \in Seq(Seq(Chars)) : more = Append(lines, one)
  BY <1>14, <1>17, AppendProperties
<1>19. emitted' = more
  BY <1>1, <1>15, <1>17, <1>18
<1>20. /\ Len(more) = Len(lines) + 1 /\ more[Len(lines) + 1] = one
       /\ \A n \in DOMAIN lines : more[n] = lines[n]
  BY <1>18
<1>21. LineAt(one, Len(lines) + 1, t, c, d)
  BY <1>7, <1>11, <1>12, <1>14, <1>17 DEF LineAt
<1>22. \A n \in DOMAIN more :
         \E a \in Nat, b \in Newlines(t) : b <= d /\ LineAt(more[n], n, t, a, b)
  <2> SUFFICES ASSUME NEW n \in DOMAIN more
               PROVE  \E a \in Nat, b \in Newlines(t) : b <= d /\ LineAt(more[n], n, t, a, b)
    OBVIOUS
  <2>1. CASE n = Len(lines) + 1
    BY <2>1, <1>11, <1>20, <1>21
  <2>2. CASE n # Len(lines) + 1
    <3>1. n \in DOMAIN lines
      BY <2>2, <1>20
    <3>2. PICK a \in Nat, b \in Newlines(t) : b <= c /\ LineAt(lines[n], n, t, a, b)
      BY <3>1, <1>7, <1>17
    <3>3. b <= d
      BY <3>2, <1>11 DEF Newlines
    <3> QED BY <3>1, <3>2, <3>3, <1>20
  <2> QED BY <2>1, <2>2
<1>23. SplitAt(d, t, more, carry')
  BY <1>7, <1>11, <1>13, <1>16, <1>17, <1>20, <1>22 DEF SplitAt
<1>24. Points' = Points
  BY <1>1 DEF Points
<1> QED BY <1>1, <1>6, <1>19, <1>23, <1>24 DEF BufferInv

\* Once the loop is through no newline is left behind the split.
LEMMA NoneLeft ==
  ASSUME NEW t \in Seq(Chars), NEW c \in Nat, SplitAt(c, t, emitted, carry), ~Complete
  PROVE  \A q \in Newlines(t) : q <= c
<1> SUFFICES ASSUME NEW q \in Newlines(t), c < q PROVE FALSE
  BY DEF Newlines
<1>1. q \in 1..Len(t) /\ t[q] = Newline
  BY DEF Newlines
<1>2. /\ carry \in Seq(Chars) /\ Len(carry) = Len(t) - c
      /\ \A j \in 1..(Len(t) - c) : carry[j] = t[c + j]
  <2>1. PICK x \in 1..(Len(t) + 1) : x = c + 1
    BY <1>1
  <2>2. Len(t) \in (x - 1)..Len(t) /\ carry = SubSeq(t, x, Len(t))
    BY <1>1, <2>1 DEF SplitAt
  <2>3. /\ carry \in Seq(Chars) /\ Len(carry) = Len(t) - x + 1
        /\ \A j \in 1..(Len(t) - x + 1) : carry[j] = t[x + j - 1]
    BY <2>2, PartOf
  <2>4. Len(t) - x + 1 = Len(t) - c /\ \A j \in 1..(Len(t) - c) : x + j - 1 = c + j
    BY <2>1
  <2> QED BY <2>3, <2>4
<1>3. q - c \in 1..(Len(t) - c) /\ c + (q - c) = q
  BY <1>1
<1>4. carry[q - c] = Newline /\ q - c \in DOMAIN carry
  BY <1>1, <1>2, <1>3
<1> QED BY <1>4 DEF Complete

LEMMA FlushKeeps == BufferInv /\ ~flushed /\ Flush => BufferInv'
<1> SUFFICES ASSUME BufferInv, ~flushed, Flush PROVE BufferInv'
  OBVIOUS
<1>1. /\ got = stop /\ ~Complete
      /\ emitted' = IF LastLine = <<>> THEN emitted ELSE Append(emitted, LastLine)
      /\ flushed' = TRUE /\ UNCHANGED <<text, stop, got>>
  BY DEF Flush
<1>2. /\ text \in Seq(Chars) /\ got[1] \in 0..Len(text)
      /\ held = got[2] /\ got[2] \in Nat
  BY PointIsPair DEF BufferInv
<1>3. PICK c \in Nat : SplitAt(c, SoFar, emitted, carry)
  BY DEF BufferInv
<1> DEFINE S == Chars \cup {Broken}
<1>4. PICK t \in Seq(Chars) : t = SoFar
  BY <1>2, SoFarText DEF SoFar
<1>5. PICK tail \in Seq(S) : tail = (IF held = 0 THEN <<>> ELSE <<Broken>>)
  <2>1. <<>> \in Seq(S) /\ <<Broken>> \in Seq(S)
    OBVIOUS
  <2> QED BY <2>1
<1>6. PICK u \in Seq(S) : u = t \o tail
  <2>1. t \in Seq(S)
    BY SeqMonotonic
  <2> QED BY <2>1, ConcatProperties
<1>7. t \in Seq(S) /\ Chars \subseteq S
  BY SeqMonotonic
<1> HIDE DEF S
<1>8. Written' = u
  BY <1>1, <1>2, <1>4, <1>5, <1>6 DEF Written, SoFar
<1>9. SplitAt(c, t, emitted, carry) /\ c \in 0..Len(t)
  BY <1>3, <1>4 DEF SplitAt, Newlines
<1>10. LastLine = SubSeq(u, c + 1, Len(u))
  <2>1. LastLine = SubSeq(t, c + 1, Len(t)) \o tail
    BY <1>5, <1>9 DEF LastLine, SplitAt
  <2> QED BY <2>1, <1>6, <1>7, <1>9, RestGrows
<1>11. \A q \in Newlines(t) : q <= c
  BY <1>1, <1>9, NoneLeft
<1>12. /\ Len(u) \in Len(t)..(Len(t) + 1)
       /\ Len(u) # Len(t) => u[Len(u)] = Broken
  <2>1. CASE held = 0
    BY <2>1, <1>5, <1>6, <1>7, ConcatProperties
  <2>2. CASE held # 0
    <3>1. tail = <<Broken>> /\ Len(tail) = 1 /\ tail[1] = Broken
      BY <2>2, <1>5
    <3>2. /\ Len(u) = Len(t) + 1
          /\ u[Len(t) + 1] = IF Len(t) + 1 <= Len(t) THEN t[Len(t) + 1] ELSE tail[Len(t) + 1 - Len(t)]
      BY <3>1, <1>6, <1>7, ConcatProperties
    <3>3. Len(t) \in Nat /\ ~(Len(t) + 1 <= Len(t)) /\ Len(t) + 1 - Len(t) = 1
      OBVIOUS
    <3> QED BY <3>1, <3>2, <3>3
  <2> QED BY <2>1, <2>2
<1>13. /\ \A p \in 0..Len(t) : NewlinesTo(u, p) = NewlinesTo(t, p)
       /\ Newlines(t) \subseteq Newlines(u)
       /\ \A q \in Newlines(u) : q \in Newlines(t) \/ q > Len(t)
       /\ \A one, n : \A a \in Nat, b \in Newlines(t) :
            LineAt(one, n, t, a, b) => LineAt(one, n, u, a, b)
  BY <1>5, <1>6, <1>7, LinesStay
<1>14. \A q \in Newlines(u) : q \in Newlines(t) /\ q <= c
  <2> SUFFICES ASSUME NEW q \in Newlines(u), q > Len(t) PROVE FALSE
    BY <1>11, <1>13
  <2>1. q \in 1..Len(u) /\ u[q] = Newline
    BY DEF Newlines
  <2>2. q = Len(u) /\ Len(u) # Len(t)
    BY <2>1, <1>12
  <2>3. Broken = Newline
    BY <2>1, <2>2, <1>12
  <2> QED BY <2>3 DEF Broken, Newline
<1>15. NewlinesTo(u, c) = Newlines(u) /\ Len(emitted) = Cardinality(Newlines(u))
  <2>1. NewlinesTo(u, c) = Newlines(u)
    BY <1>14 DEF NewlinesTo
  <2>2. NewlinesTo(u, c) = NewlinesTo(t, c)
    BY <1>9, <1>13
  <2> QED BY <2>1, <2>2, <1>9 DEF SplitAt
<1>16. \A n \in DOMAIN emitted : IsLine(emitted[n], n, u)
  <2> SUFFICES ASSUME NEW n \in DOMAIN emitted PROVE IsLine(emitted[n], n, u)
    OBVIOUS
  <2>1. PICK a \in Nat, b \in Newlines(t) : b <= c /\ LineAt(emitted[n], n, t, a, b)
    BY <1>9 DEF SplitAt
  <2>2. LineAt(emitted[n], n, u, a, b) /\ b \in Newlines(u)
    BY <2>1, <1>13
  <2> QED BY <2>2 DEF LineAt, IsLine
<1>17. emitted \in Seq(Seq(S)) /\ LastLine \in Seq(S) /\ Len(LastLine) = Len(u) - c
  <2>1. PICK x \in 1..(Len(u) + 1) : x = c + 1
    BY <1>9, <1>12
  <2>2. LastLine \in Seq(S) /\ Len(LastLine) = Len(u) - c
    <3>1. Len(u) \in (x - 1)..Len(u) /\ Len(u) - x + 1 = Len(u) - c
      BY <1>9, <1>12, <2>1
    <3>2. LastLine = SubSeq(u, x, Len(u))
      BY <1>10, <2>1
    <3>3. LastLine \in Seq(S) /\ Len(LastLine) = Len(u) - x + 1
      BY <3>1, <3>2, PartOf
    <3> QED BY <3>1, <3>3
  <2>3. emitted \in Seq(Seq(Chars)) /\ Seq(Chars) \subseteq Seq(S)
    BY <1>7, <1>9, SeqMonotonic DEF SplitAt
  <2> QED BY <2>2, <2>3, SeqMonotonic
<1>18. /\ \A n \in DOMAIN emitted' : IsLine(emitted'[n], n, u)
       /\ Len(emitted') = Cardinality(Newlines(u))
                            + (IF u = <<>> \/ u[Len(u)] = Newline THEN 0 ELSE 1)
  <2>1. CASE LastLine = <<>>
    <3>1. Len(u) = c /\ Len(t) = c
      BY <2>1, <1>9, <1>12, <1>17
    <3>2. u = <<>> \/ u[Len(u)] = Newline
      <4>1. CASE c = 0
        BY <4>1, <3>1
      <4>2. CASE c # 0
        <5>1. c \in Newlines(u)
          BY <4>2, <1>9, <1>13 DEF SplitAt
        <5> QED BY <5>1, <3>1 DEF Newlines
      <4> QED BY <4>1, <4>2
    <3>3. emitted' = emitted /\ Len(emitted) \in Nat
      BY <2>1, <1>1, <1>17
    <3> QED BY <3>2, <3>3, <1>15, <1>16
  <2>2. CASE LastLine # <<>>
    <3>1. Len(u) > c /\ Len(u) \in Nat
      BY <2>2, <1>9, <1>17
    <3>2. ~(u = <<>> \/ u[Len(u)] = Newline)
      <4> SUFFICES ASSUME u[Len(u)] = Newline PROVE FALSE
        BY <3>1, <1>9
      <4>1. Len(u) \in Newlines(u)
        BY <3>1, <1>9 DEF Newlines
      <4> QED BY <4>1, <3>1, <1>9, <1>14
    <3>3. /\ Len(emitted') = Len(emitted) + 1 /\ emitted'[Len(emitted) + 1] = LastLine
          /\ \A n \in 1..Len(emitted) : emitted'[n] = emitted[n]
          /\ DOMAIN emitted' = 1..(Len(emitted) + 1)
      <4>1. emitted' = Append(emitted, LastLine)
        BY <2>2, <1>1
      <4>2. emitted' \in Seq(Seq(S))
        BY <4>1, <1>17, AppendProperties
      <4> QED BY <4>1, <4>2, <1>17, AppendProperties
    <3>4. LineAt(LastLine, Len(emitted) + 1, u, c, Len(u) + 1)
      <4>1. c \in Newlines(u) \cup {0}
        BY <1>9, <1>13 DEF SplitAt
      <4>2. Cardinality(NewlinesTo(u, c)) = Len(emitted) + 1 - 1
        BY <1>15, <1>17
      <4>3. LastLine = SubSeq(u, c + 1, Len(u) + 1 - 1)
        BY <3>1, <1>10
      <4>4. c < Len(u) + 1
        BY <3>1
      <4> QED BY <4>1, <4>2, <4>3, <4>4, <1>14 DEF LineAt
    <3>5. IsLine(LastLine, Len(emitted) + 1, u)
      BY <3>4 DEF LineAt, IsLine
    <3>6. \A n \in DOMAIN emitted' : IsLine(emitted'[n], n, u)
      <4> SUFFICES ASSUME NEW n \in DOMAIN emitted' PROVE IsLine(emitted'[n], n, u)
        OBVIOUS
      <4>1. CASE n = Len(emitted) + 1
        BY <4>1, <3>3, <3>5
      <4>2. CASE n # Len(emitted) + 1
        <5>1. Len(emitted) \in Nat /\ DOMAIN emitted = 1..Len(emitted)
          BY <1>17
        <5>2. n \in 1..Len(emitted)
          BY <4>2, <5>1, <3>3
        <5> QED BY <5>1, <5>2, <3>3, <1>16
      <4> QED BY <4>1, <4>2
    <3> QED BY <3>2, <3>3, <3>6, <1>15
  <2> QED BY <2>1, <2>2
<1>19. LinesAsWritten'
  BY <1>1, <1>8, <1>18 DEF LinesAsWritten
<1>20. Points' = Points /\ carry' = <<>>
  BY <1>1 DEF Points, Flush
<1> QED BY <1>1, <1>2, <1>19, <1>20 DEF BufferInv

LEMMA BufferInvHolds == BufferSpec => []BufferInv
<1>1. BufferInv /\ [BufferNext]_bufferVars => BufferInv'
  <2> SUFFICES ASSUME BufferInv, [BufferNext]_bufferVars PROVE BufferInv'
    OBVIOUS
  <2>1. CASE Push
    BY <2>1, PushKeeps
  <2>2. CASE EmitLine
    <3>1. ~flushed
      BY <2>2 DEF EmitLine, BufferInv
    <3> QED BY <2>2, <3>1, EmitLineKeeps
  <2>3. CASE Flush
    <3>1. ~flushed
      BY <2>3 DEF Flush
    <3> QED BY <2>3, <3>1, FlushKeeps
  <2>4. CASE UNCHANGED bufferVars
    <3>1. UNCHANGED <<text, stop, got, held, carry, emitted, flushed>>
      BY <2>4 DEF bufferVars
    <3>2. Points' = Points /\ SoFar' = SoFar /\ Written' = Written /\ (Complete' <=> Complete)
      BY <3>1 DEF Points, SoFar, Written, Complete
    <3>3. LinesAsWritten' <=> LinesAsWritten
      BY <3>1, <3>2 DEF LinesAsWritten
    <3> QED BY <3>1, <3>2, <3>3 DEF BufferInv
  <2> QED BY <2>1, <2>2, <2>3, <2>4 DEF BufferNext
<1> QED BY <1>1, BufferInvInit, PTL DEF BufferSpec

LEMMA BufferInvSplits == BufferInv => LinesAsWritten
<1> SUFFICES ASSUME BufferInv, ~flushed PROVE LinesAsWritten
  BY DEF BufferInv
<1>1. text \in Seq(Chars) /\ got[1] \in 0..Len(text)
  BY PointIsPair DEF BufferInv
<1>2. PICK t \in Seq(Chars) : t = SoFar
  BY <1>1, SoFarText DEF SoFar
<1>3. PICK c \in Nat : SplitAt(c, t, emitted, carry)
  BY <1>2 DEF BufferInv
<1>4. \A n \in DOMAIN emitted : IsLine(emitted[n], n, t)
  <2> SUFFICES ASSUME NEW n \in DOMAIN emitted PROVE IsLine(emitted[n], n, t)
    OBVIOUS
  <2>1. PICK a \in Nat, b \in Newlines(t) : b <= c /\ LineAt(emitted[n], n, t, a, b)
    BY <1>3 DEF SplitAt
  <2> QED BY <2>1 DEF LineAt, IsLine
<1>5. Len(emitted) <= Cardinality(Newlines(t))
  BY <1>3, NewlinesAre DEF SplitAt
<1>6. ASSUME ~Complete PROVE Len(emitted) = Cardinality(Newlines(t))
  <2>1. NewlinesTo(t, c) = Newlines(t)
    BY <1>3, <1>6, NoneLeft DEF NewlinesTo
  <2> QED BY <2>1, <1>3 DEF SplitAt
<1> QED BY <1>2, <1>4, <1>5, <1>6 DEF LinesAsWritten

(* However the bytes of a pipe are cut, the lines heard are those written. *)
THEOREM LinesWritten == BufferSpec => []LinesAsWritten
BY BufferInvHolds, BufferInvSplits, PTL

=============================================================================

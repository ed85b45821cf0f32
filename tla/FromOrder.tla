------------------------------ MODULE FromOrder ------------------------------
(***************************************************************************)
(* How a line gets its args from the lines before it.  A step declares, in *)
(* `from`, which steps may fill a key of its args.  Before a scenario runs *)
(* its text alone is judged (src/check/from-order.ts and                   *)
(* src/check/unfillable-key.ts); then each line is bound, fed from the     *)
(* results so far and validated (src/run/run-scenario.ts).  The guard and  *)
(* the run read the same declarations and share nothing else.              *)
(***************************************************************************)
EXTENDS Naturals, Sequences

CONSTANTS
  Vocabulary,  \* the typed steps discovery registered
  Required,    \* the keys of a step's args that may not be left out
  From,        \* of each step: key -> its candidates, <<step, key of its result>>
  Results,     \* of each step: the sets of keys a result of it may have
  Pickles      \* scenarios: sequences of lines, each with what its text captures

\* What a line is that runs no step.
Unmatched == {"undefined", "ambiguous"}

ASSUME FromOrderConstants ==
  /\ Unmatched \cap Vocabulary = {}
  /\ Pickles \subseteq Seq([step : Vocabulary \cup Unmatched,
                            captures : SUBSET UNION {Required[s] \cup DOMAIN From[s] : s \in Vocabulary},
                            attached : BOOLEAN])
  /\ \A s \in Vocabulary : Results[s] # {}

VARIABLES
  pickle,  \* the scenario
  line,    \* the line it is at, 0 before the guard
  chain,   \* the steps that passed so far, and the keys of each one's result
  ended    \* why no further line runs, "no" while one does

vars == <<pickle, line, chain, ended>>

Init ==
  /\ pickle \in Pickles
  /\ line = 0 /\ chain = [s \in {} |-> {}] /\ ended = "no"

-----------------------------------------------------------------------------
(* What both sides read.                                                   *)

Several(S) == \E c, d \in S : c # d

Matched(k) == pickle[k].step \in Vocabulary

\* The required keys neither a capture nor `from` speaks for.
UnconsumedRequired(k) == Required[pickle[k].step] \ (pickle[k].captures \cup DOMAIN From[pickle[k].step])

\* A table or docstring goes to the one such key, when there is exactly one.
AttachmentFills(k) ==
  {key \in UnconsumedRequired(k) : pickle[k].attached /\ ~Several(UnconsumedRequired(k))}

-----------------------------------------------------------------------------
(* The guard.                                                              *)

Named(k, key) == {c \in From[pickle[k].step][key] : c[1] \in Vocabulary}

BoundBefore(k, key) == {c \in Named(k, key) : \E j \in 1..(k - 1) : pickle[j].step = c[1]}

\* Mutant: the keys of `from`, whether or not the text captures them.
Declared(k) == DOMAIN From[pickle[k].step]

\* A capture wins its key.
Open(k) == DOMAIN From[pickle[k].step] \ pickle[k].captures

\* Mutant: a choice of producers is an error for a required key alone.
AmbiguousRequired(k) == {key \in Open(k) \cap Required[pickle[k].step] : Several(BoundBefore(k, key))}

AmbiguousKeys(k) == {key \in Open(k) : Several(BoundBefore(k, key))}

MissingKeys(k) ==
  {key \in Open(k) \cap Required[pickle[k].step] : Named(k, key) # {} /\ BoundBefore(k, key) = {}}

\* A line that matches no step may be meant to run the producer: that line
\* fails first, and says why.
HeldBack(k) == \E j \in 1..(k - 1) : pickle[j].step = "undefined"

UnfillableKeys(k) ==
  {key \in UnconsumedRequired(k) : key \notin AttachmentFills(k) /\ ~(pickle[k].attached /\ AttachmentFills(k) = {})}

Issues(k) ==
  /\ Matched(k)
  /\ \/ AmbiguousKeys(k) # {}
     \/ MissingKeys(k) # {} /\ ~HeldBack(k)
     \/ UnfillableKeys(k) # {}

Guard ==
  /\ line = 0
  /\ line' = 1
  /\ ended' = IF \E k \in DOMAIN pickle : Issues(k) THEN "refused" ELSE "no"
  /\ UNCHANGED <<pickle, chain>>

-----------------------------------------------------------------------------
(* The run.                                                                *)

BindFails(k) == pickle[k].attached /\ AttachmentFills(k) = {}

Present(k, key, had) == {c \in From[pickle[k].step][key] : c[1] \in DOMAIN had}

\* The keys `from` is asked for: the line has no value for them.
Asked(k) == DOMAIN From[pickle[k].step] \ (pickle[k].captures \cup AttachmentFills(k))

Undecided(k, had) == \E key \in Asked(k) : Several(Present(k, key, had))

\* A producer's result may lack the key: the args then lack it too.
Filled(k, had) == {key \in Asked(k) : \E c \in Present(k, key, had) : c[2] \in had[c[1]]}

Lacking(k, had) ==
  Required[pickle[k].step] \ (pickle[k].captures \cup AttachmentFills(k) \cup Filled(k, had))

AtLine == line \in DOMAIN pickle /\ ended = "no"

Fail(why) == ended' = why /\ UNCHANGED <<pickle, line, chain>>

RunUnmatched == AtLine /\ ~Matched(line) /\ Fail(pickle[line].step)

Bind == AtLine /\ Matched(line) /\ BindFails(line) /\ Fail("binding_invalid")

Fed == AtLine /\ Matched(line) /\ ~BindFails(line)

\* injectFrom throws on two results for one key; validation fails on a key
\* that is missing, and may fail on a value.
ArgsFail ==
  /\ Fed
  /\ Fail(IF Undecided(line, chain) THEN "internal"
          ELSE IF Lacking(line, chain) # {} THEN "args_lack" ELSE "args_invalid")

Given == Fed /\ ~Undecided(line, chain) /\ Lacking(line, chain) = {}

BodyThrows == Given /\ Fail("step")

BodyReturns ==
  /\ Given
  /\ LET s == pickle[line].step IN \E keys \in Results[s] :
       chain' = [t \in DOMAIN chain \cup {s} |-> IF t = s THEN keys ELSE chain[t]]
  /\ line' = line + 1
  /\ UNCHANGED <<pickle, ended>>

Next == Guard \/ RunUnmatched \/ Bind \/ ArgsFail \/ BodyThrows \/ BodyReturns

Spec == Init /\ [][Next]_vars

-----------------------------------------------------------------------------
(* Properties.                                                             *)

\* No scenario the guard lets through fails for want of a producer: no line
\* of it meets two results for one key, and a line that lacks a key lacks it
\* because the one producer's result did, or because no candidate is a
\* registered step.
LetThroughIsFed ==
  /\ ended # "internal"
  /\ ended = "args_lack" =>
       \A key \in Lacking(line, chain) :
         /\ key \in Asked(line)
         /\ Named(line, key) = {} \/ Present(line, key, chain) # {}

\* All the lines before k could have put in the chain.
MostBefore(k) ==
  [s \in {pickle[j].step : j \in 1..(k - 1)} \cap Vocabulary |-> UNION Results[s]]

\* A refusal is never wrong: each line it names would fail before its body
\* even when every line before it passed and returned all it can.
RefusalIsCertain ==
  ended = "refused" =>
    \A k \in DOMAIN pickle :
      Issues(k) => BindFails(k) \/ Undecided(k, MostBefore(k)) \/ Lacking(k, MostBefore(k)) # {}

\* The guard says of a scenario what running it says, both ways.
GuardIsExact == LetThroughIsFed /\ RefusalIsCertain

=============================================================================

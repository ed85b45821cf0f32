------------------------------ MODULE WalkMutex ------------------------------
(***************************************************************************)
(* What the walk lock of `nuka run --step` promises, with no directory, no *)
(* listing and no race: one owner at a time, under a number that no walk   *)
(* recorded so far has, and walk.json written by the owner alone.          *)
(***************************************************************************)
EXTENDS Integers

CONSTANTS
  Procs,   \* the processes
  NoOne    \* nobody owns the lock

VARIABLES
  owner,    \* the process that holds the lock
  number,   \* the number of its walk, 0 while there is no owner
  recorded  \* the walks walk.json or walks-reported/ name

vars == <<owner, number, recorded>>

Init == owner = NoOne /\ number = 0 /\ recorded = {}

Take(p) ==
  /\ owner = NoOne
  /\ owner' = p
  /\ number' \in Nat /\ number' > 0
  /\ \A n \in recorded : n < number'
  /\ UNCHANGED recorded

\* walk.json names the owner's walk, in place of the walk it named.
Record ==
  /\ owner # NoOne
  /\ number \in recorded' /\ recorded' \subseteq recorded \cup {number}
  /\ UNCHANGED <<owner, number>>

\* Released, killed or crashed.
Leave ==
  /\ owner # NoOne
  /\ owner' = NoOne /\ number' = 0
  /\ UNCHANGED recorded

\* walk.json is lost.
Lose ==
  /\ recorded' \subseteq recorded
  /\ UNCHANGED <<owner, number>>

Next == (\E p \in Procs : Take(p)) \/ Record \/ Leave \/ Lose

Spec == Init /\ [][Next]_vars
=============================================================================

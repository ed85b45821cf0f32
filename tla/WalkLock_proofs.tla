-------------------------- MODULE WalkLock_proofs --------------------------
(***************************************************************************)
(* What the walk lock promises, proved for any number of processes, walks  *)
(* and attempts, with and without pids used again.                         *)
(***************************************************************************)
EXTENDS WalkLock, TLAPS

\* The inductive invariant holds of an empty lock directory (walk-files.ts).
THEOREM InitInv == Init => IInv
BY LockConstants DEF Init, IInv, LockInv, FreshInv, TypeOK, Texts, Names, NoJson, Labels, Trying, Holding,
  WonKeepsFile, TryingOrBeaten, SharedNumberIsBeaten, LowerWonIsAhead,
  ClearsOnlyLower, NumbersStartAtOne, RecordedIsPassed, WonIsFresh,
  Won, Verified, Recorded, Numbered

\* Each file operation keeps the types.
LEMMA TypeStep == TypeOK /\ [Next]_vars => TypeOK'
<1> USE LockConstants DEF TypeOK, Names, Labels, Trying, Holding, Texts
<1> SUFFICES ASSUME TypeOK, [Next]_vars PROVE TypeOK'
    OBVIOUS
<1>1. CASE UNCHANGED vars
      BY <1>1 DEF vars
<1>2. ASSUME NEW p \in Procs, Start(p) PROVE TypeOK'
      BY <1>2 DEF Start, Goto
<1>3. ASSUME NEW p \in Procs, List(p) PROVE TypeOK'
  <2>1. CASE Names = {} /\ seen' = [seen EXCEPT ![p] = 0]
        BY <1>3, <2>1 DEF List, Goto
  <2>2. CASE \E m \in Names : Top(m) /\ seen' = [seen EXCEPT ![p] = m]
        BY <1>3, <2>2 DEF List, Goto
  <2> QED
      BY <1>3, <2>1, <2>2 DEF List
<1>4. ASSUME NEW p \in Procs, ReadTop(p) PROVE TypeOK'
      BY <1>4 DEF ReadTop, Goto
<1>5. ASSUME NEW p \in Procs, RefuseHeld(p) PROVE TypeOK'
      BY <1>5 DEF RefuseHeld, Goto
<1>6. ASSUME NEW p \in Procs, PickNumber(p) PROVE TypeOK'
      BY <1>6 DEF PickNumber, Goto, Larger
<1>7. ASSUME NEW p \in Procs, Link(p) PROVE TypeOK'
  <2>1. Names' \subseteq Nat /\ \A n \in Names' : locks'[n] \in Procs \cup {Released}
    <3>1. Names' = Names \cup {num[p]}
          BY <1>7 DEF Link, Write
    <3>2. \A n \in Names' : locks'[n] \in Procs \cup {Released}
          BY <1>7, <3>1 DEF Link, Write
    <3> QED
        BY <3>1, <3>2
  <2> QED
      BY <1>7, <2>1 DEF Link, Goto
<1>8. ASSUME NEW p \in Procs, LinkExists(p) PROVE TypeOK'
      BY <1>8 DEF LinkExists, Retry, Goto
<1>9. ASSUME NEW p \in Procs, Verify(p) PROVE TypeOK'
      BY <1>9 DEF Verify, Goto
<1>10. ASSUME NEW p \in Procs, VerifyRead(p) PROVE TypeOK'
      BY <1>10 DEF VerifyRead, Goto
<1>11. ASSUME NEW p \in Procs, BelowList(p) PROVE TypeOK'
      BY <1>11 DEF BelowList, Goto, Lower
<1>12. ASSUME NEW p \in Procs, Taken(p) PROVE TypeOK'
      BY <1>12 DEF Taken, Goto
<1>13. ASSUME NEW p \in Procs, GiveWay(p) PROVE TypeOK'
      BY <1>13 DEF GiveWay, Retry, RemoveQuietly, Goto
<1>14. ASSUME NEW p \in Procs, NEW n \in todo[p], BelowFree(p, n) PROVE TypeOK'
      BY <1>14 DEF BelowFree
<1>15. ASSUME NEW p \in Procs, NEW n \in todo[p], BelowHeld(p, n) PROVE TypeOK'
      BY <1>15 DEF BelowHeld, LiveOther, Goto
<1>16. ASSUME NEW p \in Procs, NEW n \in todo[p], ClearOne(p, n) PROVE TypeOK'
      BY <1>16 DEF ClearOne, RemoveQuietly
<1>17. ASSUME NEW p \in Procs, ClearList(p) PROVE TypeOK'
      BY <1>17 DEF ClearList, Goto, Lower
<1>18. ASSUME NEW p \in Procs, Cleared(p) PROVE TypeOK'
      BY <1>18 DEF Cleared, Goto
<1>19. ASSUME NEW p \in Procs, WriteStarting(p) PROVE TypeOK'
      BY <1>19 DEF WriteStarting, Goto
<1>20. ASSUME NEW p \in Procs, ReadOwn(p) PROVE TypeOK'
      BY <1>20 DEF ReadOwn, Goto
<1>21. ASSUME NEW p \in Procs, Release(p) PROVE TypeOK'
  <2>1. Names' \subseteq Nat /\ \A n \in Names' : locks'[n] \in Procs \cup {Released}
    <3>1. Names' = Names \cup {num[p]}
          BY <1>21 DEF Release, Write
    <3>2. \A n \in Names' : locks'[n] \in Procs \cup {Released}
          BY <1>21, <3>1 DEF Release, Write
    <3> QED
        BY <3>1, <3>2
  <2> QED
      BY <1>21, <2>1 DEF Release, Goto
<1>22. ASSUME NEW p \in Procs, Exit(p) \/ Crash(p) PROVE TypeOK'
  <2>1. (Forget(p, "over") \/ Forget(p, "gone")) /\ UNCHANGED <<locks, json, reported>>
        BY <1>22 DEF Exit, Crash
  <2>2. /\ pc' \in [Procs -> Labels] /\ attempt' \in [Procs -> 0..Attempts]
        /\ seen' \in [Procs -> Nat] /\ holder' \in [Procs -> Texts \cup {NoOne}]
        /\ num' \in [Procs -> Nat] /\ todo' \in [Procs -> SUBSET Nat]
        BY <2>1 DEF Forget, Goto
  <2> QED
      BY <2>1, <2>2
<1>23. ASSUME NEW p \in Procs, WriteEnded(p) PROVE TypeOK'
      BY <1>23 DEF WriteEnded, Goto
<1>24. CASE MarkEndReported
      BY <1>24 DEF MarkEndReported
<1>25. CASE LoseJson
      BY <1>25 DEF LoseJson, NoJson
<1>26. CASE LoseLocks
      BY <1>26 DEF LoseLocks
<1> QED
      BY <1>1, <1>2, <1>3, <1>4, <1>5, <1>6, <1>7, <1>8, <1>9, <1>10, <1>11, <1>12,
         <1>13, <1>14, <1>15, <1>16, <1>17, <1>18, <1>19, <1>20, <1>21, <1>22,
         <1>23, <1>24, <1>25, <1>26 DEF Next, Step
-----------------------------------------------------------------------------
(* The lock's invariant.  Most steps only move one process about: they are  *)
(* two lemmas, and the steps that look at or change the directory follow.   *)

\* A step of p that leaves the directory and every other process alone.
Moves(p) ==
  /\ UNCHANGED locks
  /\ \A q \in Procs \ {p} : /\ pc'[q] = pc[q] /\ seen'[q] = seen[q]
                            /\ num'[q] = num[q] /\ todo'[q] = todo[q]

\* A process that is not after the lock any more, or not yet, holds back
\* no other one.
LEMMA StandAside ==
  ASSUME TypeOK, LockInv, NEW p \in Procs, Moves(p),
         pc'[p] \notin Trying \cup Holding
  PROVE  LockInv'
<1> USE DEF Moves, Trying, Holding, Names, Won, Verified, OwnFile
<1>1. WonKeepsFile' /\ ClearsOnlyLower'
      BY DEF LockInv, WonKeepsFile, ClearsOnlyLower
<1>2. \A m \in Names : Settled(m) => Settled(m)'
      BY DEF Settled
<1>3. TryingOrBeaten'
      BY <1>2 DEF LockInv, TryingOrBeaten, Beaten
<1>4. SharedNumberIsBeaten'
      BY <1>2 DEF LockInv, SharedNumberIsBeaten, Beaten
<1>5. LowerWonIsAhead'
      BY DEF LockInv, LowerWonIsAhead
<1> QED
    BY <1>1, <1>3, <1>4, <1>5 DEF LockInv

\* A holder that goes on holding the lock.
LEMMA HoldOn ==
  ASSUME TypeOK, LockInv, NEW p \in Procs, Moves(p), UNCHANGED num,
         pc[p] \in Holding, pc'[p] \in Holding \ {"clear"}
  PROVE  LockInv'
<1> USE DEF Moves, Trying, Holding, Names, Won, Verified, OwnFile
<1>1. WonKeepsFile' /\ ClearsOnlyLower'
      BY DEF LockInv, WonKeepsFile, ClearsOnlyLower
<1>2. \A m \in Names : Settled(m) => Settled(m)'
      BY DEF Settled
<1>3. TryingOrBeaten'
      BY <1>2 DEF LockInv, TryingOrBeaten, Beaten
<1>4. SharedNumberIsBeaten'
      BY <1>2 DEF LockInv, SharedNumberIsBeaten, Beaten
<1>5. LowerWonIsAhead'
      BY DEF LockInv, LowerWonIsAhead
<1> QED
    BY <1>1, <1>3, <1>4, <1>5 DEF LockInv

\* Each file operation keeps what excludes two holders.
LEMMA LockStep == TypeOK /\ LockInv /\ [Next]_vars => LockInv'
<1> USE DEF TypeOK, Names, Trying, Holding, Texts, Goto
<1> SUFFICES ASSUME TypeOK, LockInv, [Next]_vars PROVE LockInv'
    OBVIOUS
<1>1. CASE UNCHANGED vars
      BY <1>1 DEF vars, Won, Verified, OwnFile, LockInv, WonKeepsFile, TryingOrBeaten, SharedNumberIsBeaten,
           LowerWonIsAhead, ClearsOnlyLower, Beaten, Settled
<1>2. ASSUME NEW p \in Procs, Start(p) PROVE LockInv'
  <2>1. Moves(p) /\ pc'[p] \notin Trying \cup Holding
        BY <1>2 DEF Moves, Start
  <2> QED
      BY <2>1, StandAside
<1>3. ASSUME NEW p \in Procs, List(p) PROVE LockInv'
  <2>1. Moves(p) /\ pc'[p] \notin Trying \cup Holding
        BY <1>3 DEF Moves, List
  <2> QED
      BY <2>1, StandAside
<1>4. ASSUME NEW p \in Procs, ReadTop(p) PROVE LockInv'
  <2>1. Moves(p) /\ pc'[p] \notin Trying \cup Holding
        BY <1>4 DEF Moves, ReadTop
  <2> QED
      BY <2>1, StandAside
<1>5. ASSUME NEW p \in Procs, RefuseHeld(p) PROVE LockInv'
  <2>1. Moves(p) /\ pc'[p] \notin Trying \cup Holding
        BY <1>5 DEF Moves, RefuseHeld
  <2> QED
      BY <2>1, StandAside
<1>6. ASSUME NEW p \in Procs, PickNumber(p) PROVE LockInv'
  <2>1. Moves(p) /\ pc'[p] \notin Trying \cup Holding
        BY <1>6 DEF Moves, PickNumber
  <2> QED
      BY <2>1, StandAside
<1>7. ASSUME NEW p \in Procs, LinkExists(p) PROVE LockInv'
  <2>1. Moves(p) /\ pc'[p] \notin Trying \cup Holding
        BY <1>7 DEF Moves, LinkExists, Retry
  <2> QED
      BY <2>1, StandAside
<1>8. ASSUME NEW p \in Procs, Exit(p) \/ Crash(p) PROVE LockInv'
  <2>1. Moves(p) /\ pc'[p] \notin Trying \cup Holding
        BY <1>8 DEF Moves, Exit, Crash, Forget
  <2> QED
      BY <2>1, StandAside
<1>9. ASSUME NEW p \in Procs, Cleared(p) PROVE LockInv'
  <2>1. /\ Moves(p) /\ UNCHANGED num
        /\ pc[p] \in Holding /\ pc'[p] \in Holding \ {"clear"}
        BY <1>9 DEF Moves, Cleared
  <2> QED
      BY <2>1, HoldOn
<1>10. ASSUME NEW p \in Procs, WriteStarting(p) PROVE LockInv'
  <2>1. /\ Moves(p) /\ UNCHANGED num
        /\ pc[p] \in Holding /\ pc'[p] \in Holding \ {"clear"}
        BY <1>10 DEF Moves, WriteStarting
  <2> QED
      BY <2>1, HoldOn
<1>11. ASSUME NEW p \in Procs, WriteEnded(p) PROVE LockInv'
  <2>1. /\ Moves(p) /\ UNCHANGED num
        /\ pc[p] \in Holding /\ pc'[p] \in Holding \ {"clear"}
        BY <1>11 DEF Moves, WriteEnded
  <2> QED
      BY <2>1, HoldOn
<1>12. ASSUME NEW p \in Procs, ReadOwn(p) PROVE LockInv'
  <2>1. /\ Moves(p) /\ UNCHANGED num /\ pc[p] \in Holding
        /\ pc'[p] \in Holding \ {"clear"} \/ pc'[p] \notin Trying \cup Holding
        BY <1>12 DEF Moves, ReadOwn
  <2> QED
      BY <2>1, HoldOn, StandAside
<1>13. ASSUME NEW p \in Procs, Link(p) PROVE LockInv'
  <2> USE DEF Won, Verified, OwnFile
  <2>1. WonKeepsFile'
        BY <1>13 DEF LockInv, Link, Write, WonKeepsFile, TryingOrBeaten, SharedNumberIsBeaten, LowerWonIsAhead, ClearsOnlyLower
  <2>2. TryingOrBeaten'
        BY <1>13 DEF LockInv, Link, Write, TryingOrBeaten, WonKeepsFile, SharedNumberIsBeaten, ClearsOnlyLower, Beaten, Settled
  <2>3. SharedNumberIsBeaten'
        BY <1>13 DEF LockInv, Link, Write, SharedNumberIsBeaten, WonKeepsFile, TryingOrBeaten, ClearsOnlyLower, Beaten, Settled
  <2>4. LowerWonIsAhead'
        BY <1>13 DEF LockInv, Link, Write, LowerWonIsAhead, WonKeepsFile, SharedNumberIsBeaten
  <2>5. ClearsOnlyLower'
        BY <1>13 DEF LockInv, Link, Write, ClearsOnlyLower
  <2> QED
      BY <2>1, <2>2, <2>3, <2>4, <2>5 DEF LockInv
<1>14. ASSUME NEW p \in Procs, Verify(p) PROVE LockInv'
  <2> USE DEF Won, Verified, OwnFile
  <2>0. /\ Moves(p) /\ UNCHANGED <<num, todo>> /\ pc[p] = "verify"
        /\ pc'[p] \in {"verifyRead", "giveWay"}
        /\ pc'[p] = "verifyRead" => \A n \in Names : n <= seen'[p]
        BY <1>14 DEF Moves, Verify, Top
  <2>1. \A m \in Names : Settled(m) => Settled(m)'
        BY <2>0 DEF Moves, Settled
  <2>2. Won(p)' => ~Beaten(p) /\ num[p] = seen'[p] /\ OwnFile(p)
        BY <2>0 DEF Beaten, LockInv, TryingOrBeaten
  <2>3. WonKeepsFile'
        BY <2>0, <2>2 DEF Moves, LockInv, WonKeepsFile
  <2>4. TryingOrBeaten'
        BY <2>0, <2>1 DEF Moves, LockInv, TryingOrBeaten, Beaten
  <2>5. SharedNumberIsBeaten'
    <3> SUFFICES ASSUME NEW q \in Procs, NEW r \in Procs, q # r,
                        pc'[q] \in Trying, pc'[r] \in Trying \cup Holding,
                        num'[q] = num'[r]
                 PROVE  ~Won(q)' /\ ~Won(r)' /\ Beaten(q)'
        BY DEF SharedNumberIsBeaten
    <3>1. Beaten(q) /\ ~Won(q) /\ ~Won(r)
          BY <2>0 DEF Moves, LockInv, SharedNumberIsBeaten
    <3>2. Beaten(q)' /\ Beaten(r)
          BY <2>0, <2>1, <3>1 DEF Moves, Beaten
    <3> QED
        BY <2>0, <2>2, <3>1, <3>2 DEF Moves
  <2>6. LowerWonIsAhead'
    <3> SUFFICES ASSUME NEW q \in Procs, NEW r \in Procs,
                        Won(q)', Won(r)', num'[q] < num'[r]
                 PROVE  pc'[r] \notin Holding /\ (pc'[r] = "below" => num'[q] \in todo'[r])
        BY DEF LowerWonIsAhead
    <3>1. CASE r = p
          BY <2>0, <3>1
    <3>2. CASE r # p /\ q # p
          BY <2>0, <3>2 DEF Moves, LockInv, LowerWonIsAhead
    <3>3. CASE r # p /\ q = p
      <4>1. num[r] \in Names
            BY <2>0, <3>3 DEF Moves, LockInv, WonKeepsFile
      <4> QED
          BY <2>0, <2>2, <3>3, <4>1
    <3> QED
        BY <3>1, <3>2, <3>3
  <2>7. ClearsOnlyLower'
        BY <2>0 DEF Moves, LockInv, ClearsOnlyLower
  <2> QED
      BY <2>3, <2>4, <2>5, <2>6, <2>7 DEF LockInv
<1>15. ASSUME NEW p \in Procs, VerifyRead(p) PROVE LockInv'
  <2> USE DEF Won, Verified, OwnFile
  <2>1. WonKeepsFile'
        BY <1>15 DEF LockInv, VerifyRead, WonKeepsFile, TryingOrBeaten, SharedNumberIsBeaten, LowerWonIsAhead, ClearsOnlyLower
  <2>2. TryingOrBeaten'
        BY <1>15 DEF LockInv, VerifyRead, TryingOrBeaten, WonKeepsFile, SharedNumberIsBeaten, ClearsOnlyLower, Beaten, Settled
  <2>3. SharedNumberIsBeaten'
        BY <1>15 DEF LockInv, VerifyRead, SharedNumberIsBeaten, WonKeepsFile, TryingOrBeaten, ClearsOnlyLower, Beaten, Settled
  <2>4. LowerWonIsAhead'
        BY <1>15 DEF LockInv, VerifyRead, LowerWonIsAhead, WonKeepsFile, SharedNumberIsBeaten
  <2>5. ClearsOnlyLower'
        BY <1>15 DEF LockInv, VerifyRead, ClearsOnlyLower
  <2> QED
      BY <2>1, <2>2, <2>3, <2>4, <2>5 DEF LockInv
<1>16. ASSUME NEW p \in Procs, BelowList(p) PROVE LockInv'
  <2> USE DEF Won, Verified, OwnFile
  <2>1. WonKeepsFile'
        BY <1>16 DEF LockInv, BelowList, Lower, WonKeepsFile, TryingOrBeaten, SharedNumberIsBeaten, LowerWonIsAhead, ClearsOnlyLower
  <2>2. TryingOrBeaten'
        BY <1>16 DEF LockInv, BelowList, Lower, TryingOrBeaten, WonKeepsFile, SharedNumberIsBeaten, ClearsOnlyLower, Beaten, Settled
  <2>3. SharedNumberIsBeaten'
        BY <1>16 DEF LockInv, BelowList, Lower, SharedNumberIsBeaten, WonKeepsFile, TryingOrBeaten, ClearsOnlyLower, Beaten, Settled
  <2>4. LowerWonIsAhead'
        BY <1>16 DEF LockInv, BelowList, Lower, LowerWonIsAhead, WonKeepsFile, SharedNumberIsBeaten
  <2>5. ClearsOnlyLower'
        BY <1>16 DEF LockInv, BelowList, Lower, ClearsOnlyLower
  <2> QED
      BY <2>1, <2>2, <2>3, <2>4, <2>5 DEF LockInv
<1>17. ASSUME NEW p \in Procs, NEW n \in todo[p], BelowFree(p, n) PROVE LockInv'
  <2> USE DEF Won, Verified, OwnFile
  <2>1. WonKeepsFile'
        BY <1>17 DEF LockInv, BelowFree, LiveOther, Alive, WonKeepsFile, TryingOrBeaten, SharedNumberIsBeaten, LowerWonIsAhead, ClearsOnlyLower
  <2>2. TryingOrBeaten'
        BY <1>17 DEF LockInv, BelowFree, LiveOther, Alive, TryingOrBeaten, WonKeepsFile, SharedNumberIsBeaten, ClearsOnlyLower, Beaten, Settled
  <2>3. SharedNumberIsBeaten'
        BY <1>17 DEF LockInv, BelowFree, LiveOther, Alive, SharedNumberIsBeaten, WonKeepsFile, TryingOrBeaten, ClearsOnlyLower, Beaten, Settled
  <2>4. LowerWonIsAhead'
        BY <1>17 DEF LockInv, BelowFree, LiveOther, Alive, LowerWonIsAhead, WonKeepsFile, SharedNumberIsBeaten
  <2>5. ClearsOnlyLower'
        BY <1>17 DEF LockInv, BelowFree, LiveOther, Alive, ClearsOnlyLower
  <2> QED
      BY <2>1, <2>2, <2>3, <2>4, <2>5 DEF LockInv
<1>18. ASSUME NEW p \in Procs, NEW n \in todo[p], BelowHeld(p, n) PROVE LockInv'
  <2> USE DEF Won, Verified, OwnFile
  <2>1. WonKeepsFile'
        BY <1>18 DEF LockInv, BelowHeld, WonKeepsFile, TryingOrBeaten, SharedNumberIsBeaten, LowerWonIsAhead, ClearsOnlyLower
  <2>2. TryingOrBeaten'
        BY <1>18 DEF LockInv, BelowHeld, TryingOrBeaten, WonKeepsFile, SharedNumberIsBeaten, ClearsOnlyLower, Beaten, Settled
  <2>3. SharedNumberIsBeaten'
        BY <1>18 DEF LockInv, BelowHeld, SharedNumberIsBeaten, WonKeepsFile, TryingOrBeaten, ClearsOnlyLower, Beaten, Settled
  <2>4. LowerWonIsAhead'
        BY <1>18 DEF LockInv, BelowHeld, LowerWonIsAhead, WonKeepsFile, SharedNumberIsBeaten
  <2>5. ClearsOnlyLower'
        BY <1>18 DEF LockInv, BelowHeld, ClearsOnlyLower
  <2> QED
      BY <2>1, <2>2, <2>3, <2>4, <2>5 DEF LockInv
<1>19. ASSUME NEW p \in Procs, Taken(p) PROVE LockInv'
  <2> USE DEF Won, Verified, OwnFile
  <2>1. WonKeepsFile'
        BY <1>19 DEF LockInv, Taken, WonKeepsFile, TryingOrBeaten, SharedNumberIsBeaten, LowerWonIsAhead, ClearsOnlyLower
  <2>2. TryingOrBeaten'
        BY <1>19 DEF LockInv, Taken, TryingOrBeaten, WonKeepsFile, SharedNumberIsBeaten, ClearsOnlyLower, Beaten, Settled
  <2>3. SharedNumberIsBeaten'
        BY <1>19 DEF LockInv, Taken, SharedNumberIsBeaten, WonKeepsFile, TryingOrBeaten, ClearsOnlyLower, Beaten, Settled
  <2>4. LowerWonIsAhead'
        BY <1>19 DEF LockInv, Taken, LowerWonIsAhead, WonKeepsFile, SharedNumberIsBeaten
  <2>5. ClearsOnlyLower'
        BY <1>19 DEF LockInv, Taken, ClearsOnlyLower
  <2> QED
      BY <2>1, <2>2, <2>3, <2>4, <2>5 DEF LockInv
<1>20. ASSUME NEW p \in Procs, GiveWay(p) PROVE LockInv'
  <2> USE DEF Won, Verified, OwnFile
  <2>1. WonKeepsFile'
        BY <1>20 DEF LockInv, GiveWay, Retry, RemoveQuietly, WonKeepsFile, TryingOrBeaten, SharedNumberIsBeaten, LowerWonIsAhead, ClearsOnlyLower
  <2>2. TryingOrBeaten'
        BY <1>20 DEF LockInv, GiveWay, Retry, RemoveQuietly, TryingOrBeaten, WonKeepsFile, SharedNumberIsBeaten, ClearsOnlyLower, Beaten, Settled
  <2>3. SharedNumberIsBeaten'
        BY <1>20 DEF LockInv, GiveWay, Retry, RemoveQuietly, SharedNumberIsBeaten, WonKeepsFile, TryingOrBeaten, ClearsOnlyLower, Beaten, Settled
  <2>4. LowerWonIsAhead'
        BY <1>20 DEF LockInv, GiveWay, Retry, RemoveQuietly, LowerWonIsAhead, WonKeepsFile, SharedNumberIsBeaten
  <2>5. ClearsOnlyLower'
        BY <1>20 DEF LockInv, GiveWay, Retry, RemoveQuietly, ClearsOnlyLower
  <2> QED
      BY <2>1, <2>2, <2>3, <2>4, <2>5 DEF LockInv
<1>21. ASSUME NEW p \in Procs, ClearList(p) PROVE LockInv'
  <2> USE DEF Won, Verified, OwnFile
  <2>1. WonKeepsFile'
        BY <1>21 DEF LockInv, ClearList, Lower, WonKeepsFile, TryingOrBeaten, SharedNumberIsBeaten, LowerWonIsAhead, ClearsOnlyLower
  <2>2. TryingOrBeaten'
        BY <1>21 DEF LockInv, ClearList, Lower, TryingOrBeaten, WonKeepsFile, SharedNumberIsBeaten, ClearsOnlyLower, Beaten, Settled
  <2>3. SharedNumberIsBeaten'
        BY <1>21 DEF LockInv, ClearList, Lower, SharedNumberIsBeaten, WonKeepsFile, TryingOrBeaten, ClearsOnlyLower, Beaten, Settled
  <2>4. LowerWonIsAhead'
        BY <1>21 DEF LockInv, ClearList, Lower, LowerWonIsAhead, WonKeepsFile, SharedNumberIsBeaten
  <2>5. ClearsOnlyLower'
        BY <1>21 DEF LockInv, ClearList, Lower, ClearsOnlyLower
  <2> QED
      BY <2>1, <2>2, <2>3, <2>4, <2>5 DEF LockInv
<1>22. ASSUME NEW p \in Procs, NEW n \in todo[p], ClearOne(p, n) PROVE LockInv'
  <2> USE DEF Won, Verified, OwnFile
  <2>1. WonKeepsFile'
        BY <1>22 DEF LockInv, ClearOne, RemoveQuietly, WonKeepsFile, TryingOrBeaten, SharedNumberIsBeaten, LowerWonIsAhead, ClearsOnlyLower
  <2>2. TryingOrBeaten'
        BY <1>22 DEF LockInv, ClearOne, RemoveQuietly, TryingOrBeaten, WonKeepsFile, SharedNumberIsBeaten, ClearsOnlyLower, Beaten, Settled
  <2>3. SharedNumberIsBeaten'
        BY <1>22 DEF LockInv, ClearOne, RemoveQuietly, SharedNumberIsBeaten, WonKeepsFile, TryingOrBeaten, ClearsOnlyLower, Beaten, Settled
  <2>4. LowerWonIsAhead'
        BY <1>22 DEF LockInv, ClearOne, RemoveQuietly, LowerWonIsAhead, WonKeepsFile, SharedNumberIsBeaten
  <2>5. ClearsOnlyLower'
        BY <1>22 DEF LockInv, ClearOne, RemoveQuietly, ClearsOnlyLower
  <2> QED
      BY <2>1, <2>2, <2>3, <2>4, <2>5 DEF LockInv
<1>23. ASSUME NEW p \in Procs, Release(p) PROVE LockInv'
  <2> USE DEF Won, Verified, OwnFile
  <2>1. WonKeepsFile'
        BY <1>23 DEF LockInv, Release, Write, WonKeepsFile, TryingOrBeaten, SharedNumberIsBeaten, LowerWonIsAhead, ClearsOnlyLower
  <2>2. TryingOrBeaten'
        BY <1>23 DEF LockInv, Release, Write, TryingOrBeaten, WonKeepsFile, SharedNumberIsBeaten, ClearsOnlyLower, Beaten, Settled
  <2>3. SharedNumberIsBeaten'
        BY <1>23 DEF LockInv, Release, Write, SharedNumberIsBeaten, WonKeepsFile, TryingOrBeaten, ClearsOnlyLower, Beaten, Settled
  <2>4. LowerWonIsAhead'
        BY <1>23 DEF LockInv, Release, Write, LowerWonIsAhead, WonKeepsFile, SharedNumberIsBeaten
  <2>5. ClearsOnlyLower'
        BY <1>23 DEF LockInv, Release, Write, ClearsOnlyLower
  <2> QED
      BY <2>1, <2>2, <2>3, <2>4, <2>5 DEF LockInv
<1>24. CASE MarkEndReported
      BY <1>24 DEF MarkEndReported, Won, Verified, OwnFile, LockInv, WonKeepsFile, TryingOrBeaten, SharedNumberIsBeaten,
           LowerWonIsAhead, ClearsOnlyLower, Beaten, Settled
<1>25. CASE LoseJson
      BY <1>25 DEF LoseJson, Won, Verified, OwnFile, LockInv, WonKeepsFile, TryingOrBeaten, SharedNumberIsBeaten,
           LowerWonIsAhead, ClearsOnlyLower, Beaten, Settled
<1>26. CASE LoseLocks
      BY <1>26 DEF LoseLocks, Alive, Won, Verified, OwnFile, LockInv, WonKeepsFile, TryingOrBeaten, SharedNumberIsBeaten,
           LowerWonIsAhead, ClearsOnlyLower, Beaten, Settled
<1> QED
    BY <1>1, <1>2, <1>3, <1>4, <1>5, <1>6, <1>7, <1>8, <1>9, <1>10, <1>11, <1>12, <1>13, <1>14, <1>15, <1>16, <1>17, <1>18, <1>19, <1>20, <1>21, <1>22, <1>23, <1>24, <1>25, <1>26 DEF Next, Step

-----------------------------------------------------------------------------
(* Numbers: every walk recorded is passed by whoever is about to hold the   *)
(* lock, however old the reading its number came from.                      *)

\* A process that has no number after its step leaves the others' numbers fresh.
LEMMA FreshStandAside ==
  ASSUME TypeOK, FreshInv, NEW p \in Procs, Moves(p), Recorded' \subseteq Recorded \cup {0},
         pc'[p] \notin Numbered
  PROVE  FreshInv'
<1> USE DEF Moves, Numbered, Trying, Holding, Names, Verified
<1>1. NumbersStartAtOne'
      BY DEF FreshInv, NumbersStartAtOne
<1>2. \A m \in Names : Settled(m) => Settled(m)'
      BY DEF Settled
<1>3. RecordedIsPassed'
      BY <1>1, <1>2 DEF TypeOK, FreshInv, NumbersStartAtOne, RecordedIsPassed
<1>4. WonIsFresh'
      BY <1>1 DEF TypeOK, FreshInv, NumbersStartAtOne, WonIsFresh
<1> QED
    BY <1>1, <1>3, <1>4 DEF FreshInv

\* A step in which no process comes nearer to the lock and no file goes.
LEMMA FreshKeep ==
  ASSUME TypeOK, FreshInv, UNCHANGED <<locks, num>>, Recorded' \subseteq Recorded \cup {0},
         \A p \in Procs :
           /\ pc'[p] \in Numbered => pc[p] \in Numbered
           /\ pc'[p] \in Trying => pc[p] \in Trying
           /\ pc'[p] \in Holding => pc[p] \in Holding
           /\ Verified(p)' => Verified(p)
  PROVE  FreshInv'
<1> USE DEF Numbered, Names, Verified, Trying, Holding
<1>1. NumbersStartAtOne'
      BY DEF FreshInv, NumbersStartAtOne
<1>2. \A m \in Names : Settled(m) => Settled(m)'
      BY DEF Settled
<1>3. RecordedIsPassed'
      BY <1>1, <1>2 DEF TypeOK, FreshInv, NumbersStartAtOne, RecordedIsPassed
<1>4. WonIsFresh'
      BY <1>1 DEF TypeOK, FreshInv, NumbersStartAtOne, WonIsFresh, Verified, Trying, Holding
<1> QED
    BY <1>1, <1>3, <1>4 DEF FreshInv

\* Each file operation keeps the numbers fresh.
LEMMA FreshStep == TypeOK /\ LockInv /\ FreshInv /\ [Next]_vars => FreshInv'
<1> USE DEF TypeOK, Names, Trying, Holding, Texts, Goto, Numbered
<1> SUFFICES ASSUME TypeOK, LockInv, FreshInv, [Next]_vars PROVE FreshInv'
    OBVIOUS
<1>1. ASSUME NEW p \in Procs, Start(p) PROVE FreshInv'
  <2>1. Moves(p) /\ pc'[p] \notin Numbered /\ Recorded' = Recorded
        BY <1>1 DEF Moves, Recorded, Start
  <2> QED
      BY <2>1, FreshStandAside
<1>2. ASSUME NEW p \in Procs, List(p) PROVE FreshInv'
  <2>1. Moves(p) /\ pc'[p] \notin Numbered /\ Recorded' = Recorded
        BY <1>2 DEF Moves, Recorded, List
  <2> QED
      BY <2>1, FreshStandAside
<1>3. ASSUME NEW p \in Procs, ReadTop(p) PROVE FreshInv'
  <2>1. Moves(p) /\ pc'[p] \notin Numbered /\ Recorded' = Recorded
        BY <1>3 DEF Moves, Recorded, ReadTop
  <2> QED
      BY <2>1, FreshStandAside
<1>4. ASSUME NEW p \in Procs, RefuseHeld(p) PROVE FreshInv'
  <2>1. Moves(p) /\ pc'[p] \notin Numbered /\ Recorded' = Recorded
        BY <1>4 DEF Moves, Recorded, RefuseHeld
  <2> QED
      BY <2>1, FreshStandAside
<1>5. ASSUME NEW p \in Procs, LinkExists(p) PROVE FreshInv'
  <2>1. Moves(p) /\ pc'[p] \notin Numbered /\ Recorded' = Recorded
        BY <1>5 DEF Moves, Recorded, LinkExists, Retry
  <2> QED
      BY <2>1, FreshStandAside
<1>6. ASSUME NEW p \in Procs, Exit(p) \/ Crash(p) PROVE FreshInv'
  <2>1. Moves(p) /\ pc'[p] \notin Numbered /\ Recorded' = Recorded
        BY <1>6 DEF Moves, Recorded, Exit, Crash, Forget
  <2> QED
      BY <2>1, FreshStandAside
<1>7. CASE UNCHANGED vars
      BY <1>7, FreshKeep DEF vars, Recorded, Verified
<1>8. ASSUME NEW p \in Procs, ReadOwn(p) PROVE FreshInv'
      BY <1>8, FreshKeep DEF ReadOwn, Recorded, Verified
<1>9. ASSUME NEW p \in Procs, Cleared(p) PROVE FreshInv'
      BY <1>9, FreshKeep DEF Cleared, Recorded, Verified
<1>10. ASSUME NEW p \in Procs, WriteEnded(p) PROVE FreshInv'
  <2> USE DEF LockInv, FreshInv, Recorded, Verified
  <2>1. NumbersStartAtOne'
        BY <1>10 DEF WriteEnded, NumbersStartAtOne
  <2>2. RecordedIsPassed'
        BY <1>10, <2>1 DEF WriteEnded, RecordedIsPassed, NumbersStartAtOne, Settled, WonKeepsFile,
           SharedNumberIsBeaten, ClearsOnlyLower, Won, OwnFile, Beaten
  <2>3. WonIsFresh'
        BY <1>10, <2>1 DEF WriteEnded, RecordedIsPassed, WonIsFresh, Settled, WonKeepsFile,
           SharedNumberIsBeaten, LowerWonIsAhead, Won, OwnFile
  <2> QED
      BY <2>1, <2>2, <2>3
<1>11. ASSUME NEW p \in Procs, ClearList(p) PROVE FreshInv'
      BY <1>11, FreshKeep DEF ClearList, Recorded, Verified
<1>12. ASSUME NEW p \in Procs, BelowList(p) PROVE FreshInv'
      BY <1>12, FreshKeep DEF BelowList, Recorded, Verified
<1>13. ASSUME NEW p \in Procs, VerifyRead(p) PROVE FreshInv'
      BY <1>13, FreshKeep DEF VerifyRead, Recorded, Verified
<1>14. ASSUME NEW p \in Procs, NEW n \in todo[p], BelowFree(p, n) PROVE FreshInv'
      BY <1>14, FreshKeep DEF BelowFree, Recorded, Verified
<1>15. ASSUME NEW p \in Procs, NEW n \in todo[p], BelowHeld(p, n) PROVE FreshInv'
      BY <1>15, FreshKeep DEF BelowHeld, Recorded, Verified
<1>16. ASSUME NEW p \in Procs, PickNumber(p) PROVE FreshInv'
  <2> USE DEF LockInv, FreshInv, Recorded, Verified
  <2>1. NumbersStartAtOne'
        BY <1>16 DEF PickNumber, Larger, NumbersStartAtOne
  <2>2. RecordedIsPassed'
        BY <1>16, <2>1 DEF PickNumber, Larger, RecordedIsPassed, NumbersStartAtOne, Settled, WonKeepsFile,
           SharedNumberIsBeaten, ClearsOnlyLower, Won, OwnFile, Beaten
  <2>3. WonIsFresh'
        BY <1>16, <2>1 DEF PickNumber, Larger, RecordedIsPassed, WonIsFresh, Settled, WonKeepsFile,
           SharedNumberIsBeaten, LowerWonIsAhead, Won, OwnFile
  <2> QED
      BY <2>1, <2>2, <2>3
<1>17. ASSUME NEW p \in Procs, Link(p) PROVE FreshInv'
  <2> USE DEF LockInv, FreshInv, Recorded, Verified
  <2>1. NumbersStartAtOne'
        BY <1>17 DEF Link, Write, NumbersStartAtOne
  <2>2. RecordedIsPassed'
        BY <1>17, <2>1 DEF Link, Write, RecordedIsPassed, NumbersStartAtOne, Settled, WonKeepsFile,
           SharedNumberIsBeaten, ClearsOnlyLower, Won, OwnFile, Beaten
  <2>3. WonIsFresh'
        BY <1>17, <2>1 DEF Link, Write, RecordedIsPassed, WonIsFresh, Settled, WonKeepsFile,
           SharedNumberIsBeaten, LowerWonIsAhead, Won, OwnFile
  <2> QED
      BY <2>1, <2>2, <2>3
<1>18. ASSUME NEW p \in Procs, Verify(p) PROVE FreshInv'
  <2>0. /\ Moves(p) /\ UNCHANGED <<num, reported, json>> /\ pc[p] = "verify"
        /\ pc'[p] \in {"verifyRead", "giveWay"}
        /\ pc'[p] = "verifyRead" => \A n \in Names : n <= seen'[p]
        BY <1>18 DEF Moves, Verify, Top
  <2>1. NumbersStartAtOne'
        BY <2>0 DEF Moves, FreshInv, NumbersStartAtOne
  <2>2. \A m \in Names : Settled(m) => Settled(m)'
        BY <2>0 DEF Moves, Settled
  <2>3. RecordedIsPassed'
        BY <2>0, <2>2 DEF Moves, FreshInv, RecordedIsPassed, Recorded
  <2>4. WonIsFresh'
    <3>1. ASSUME NEW n \in Recorded, Verified(p)' PROVE n < num[p]
      <4>1. num[p] = seen'[p] /\ \A m \in Names : Settled(m) => m < num[p]
            BY <2>0, <3>1 DEF Verified, Settled
      <4>2. \/ \E m \in Names : Settled(m) /\ m >= n
            \/ num[p] > n
            BY <2>0, <3>1 DEF FreshInv, RecordedIsPassed
      <4>3. n \in Nat /\ num[p] \in Nat
            BY DEF Recorded
      <4> QED
          BY <4>1, <4>2, <4>3
    <3>2. ASSUME NEW q \in Procs \ {p}
          PROVE  (Verified(q)' => Verified(q)) /\ pc'[q] = pc[q] /\ num'[q] = num[q]
          BY <2>0 DEF Moves, Verified
    <3> QED
        BY <2>0, <3>1, <3>2 DEF FreshInv, WonIsFresh, Recorded
  <2> QED
      BY <2>1, <2>3, <2>4 DEF FreshInv
<1>19. ASSUME NEW p \in Procs, Taken(p) PROVE FreshInv'
  <2> USE DEF LockInv, FreshInv, Recorded, Verified
  <2>1. NumbersStartAtOne'
        BY <1>19 DEF Taken, NumbersStartAtOne
  <2>2. RecordedIsPassed'
        BY <1>19, <2>1 DEF Taken, RecordedIsPassed, NumbersStartAtOne, Settled, WonKeepsFile,
           SharedNumberIsBeaten, ClearsOnlyLower, Won, OwnFile, Beaten
  <2>3. WonIsFresh'
        BY <1>19, <2>1 DEF Taken, RecordedIsPassed, WonIsFresh, Settled, WonKeepsFile,
           SharedNumberIsBeaten, LowerWonIsAhead, Won, OwnFile
  <2> QED
      BY <2>1, <2>2, <2>3
<1>20. ASSUME NEW p \in Procs, GiveWay(p) PROVE FreshInv'
  <2> USE DEF LockInv, FreshInv, Recorded, Verified
  <2>1. NumbersStartAtOne'
        BY <1>20 DEF GiveWay, Retry, RemoveQuietly, NumbersStartAtOne
  <2>2. RecordedIsPassed'
        BY <1>20, <2>1 DEF GiveWay, Retry, RemoveQuietly, RecordedIsPassed, NumbersStartAtOne, Settled, WonKeepsFile,
           SharedNumberIsBeaten, ClearsOnlyLower, Won, OwnFile, Beaten
  <2>3. WonIsFresh'
        BY <1>20, <2>1 DEF GiveWay, Retry, RemoveQuietly, RecordedIsPassed, WonIsFresh, Settled, WonKeepsFile,
           SharedNumberIsBeaten, LowerWonIsAhead, Won, OwnFile
  <2> QED
      BY <2>1, <2>2, <2>3
<1>21. ASSUME NEW p \in Procs, NEW n \in todo[p], ClearOne(p, n) PROVE FreshInv'
  <2> USE DEF LockInv, FreshInv, Recorded, Verified
  <2>1. NumbersStartAtOne'
        BY <1>21 DEF ClearOne, RemoveQuietly, NumbersStartAtOne
  <2>2. RecordedIsPassed'
        BY <1>21, <2>1 DEF ClearOne, RemoveQuietly, RecordedIsPassed, NumbersStartAtOne, Settled, WonKeepsFile,
           SharedNumberIsBeaten, ClearsOnlyLower, Won, OwnFile, Beaten
  <2>3. WonIsFresh'
        BY <1>21, <2>1 DEF ClearOne, RemoveQuietly, RecordedIsPassed, WonIsFresh, Settled, WonKeepsFile,
           SharedNumberIsBeaten, LowerWonIsAhead, Won, OwnFile
  <2> QED
      BY <2>1, <2>2, <2>3
<1>22. ASSUME NEW p \in Procs, WriteStarting(p) PROVE FreshInv'
  <2> USE DEF LockInv, FreshInv, Recorded, Verified
  <2>1. NumbersStartAtOne'
        BY <1>22 DEF WriteStarting, NumbersStartAtOne
  <2>2. RecordedIsPassed'
        BY <1>22, <2>1 DEF WriteStarting, RecordedIsPassed, NumbersStartAtOne, Settled, WonKeepsFile,
           SharedNumberIsBeaten, ClearsOnlyLower, Won, OwnFile, Beaten
  <2>3. WonIsFresh'
        BY <1>22, <2>1 DEF WriteStarting, RecordedIsPassed, WonIsFresh, Settled, WonKeepsFile,
           SharedNumberIsBeaten, LowerWonIsAhead, Won, OwnFile
  <2> QED
      BY <2>1, <2>2, <2>3
<1>23. ASSUME NEW p \in Procs, Release(p) PROVE FreshInv'
  <2> USE DEF LockInv, FreshInv, Recorded, Verified
  <2>1. NumbersStartAtOne'
        BY <1>23 DEF Release, Write, NumbersStartAtOne
  <2>2. RecordedIsPassed'
        BY <1>23, <2>1 DEF Release, Write, RecordedIsPassed, NumbersStartAtOne, Settled, WonKeepsFile,
           SharedNumberIsBeaten, ClearsOnlyLower, Won, OwnFile, Beaten
  <2>3. WonIsFresh'
        BY <1>23, <2>1 DEF Release, Write, RecordedIsPassed, WonIsFresh, Settled, WonKeepsFile,
           SharedNumberIsBeaten, LowerWonIsAhead, Won, OwnFile
  <2> QED
      BY <2>1, <2>2, <2>3
<1>24. CASE MarkEndReported
      BY <1>24, FreshKeep DEF MarkEndReported, Recorded, Verified
<1>25. CASE LoseJson
      BY <1>25, FreshKeep DEF LoseJson, NoJson, Recorded, Verified
<1>26. CASE LoseLocks
      BY <1>26 DEF LoseLocks, Alive, FreshInv, Recorded, Verified, NumbersStartAtOne,
         RecordedIsPassed, WonIsFresh, Settled
<1> QED
    BY <1>1, <1>2, <1>3, <1>4, <1>5, <1>6, <1>7, <1>8, <1>9, <1>10, <1>11, <1>12, <1>13, <1>14, <1>15, <1>16, <1>17, <1>18, <1>19, <1>20, <1>21, <1>22, <1>23, <1>24, <1>25, <1>26 DEF Next, Step

-----------------------------------------------------------------------------
(* The theorems.                                                           *)

\* Every reachable state is well typed and satisfies the invariant.
THEOREM Inductive == Spec => []IInv
<1>1. IInv /\ [Next]_vars => IInv'
      BY TypeStep, LockStep, FreshStep DEF IInv
<1> QED
    BY InitInv, <1>1, PTL DEF Spec

\* The state has its shape (TypeOK) in every run of takeLock and releaseLock.
THEOREM TypeCorrect == Spec => []TypeOK
BY Inductive, PTL DEF IInv

\* The invariant excludes two holders.
LEMMA InvMutex == IInv => MutualExclusion
<1> SUFFICES ASSUME IInv, NEW p \in Procs, NEW q \in Procs,
                    pc[p] \in Holding, pc[q] \in Holding
             PROVE  p = q
    BY DEF MutualExclusion
<1>1. Won(p) /\ Won(q) /\ num[p] \in Nat /\ num[q] \in Nat
      BY DEF Won, IInv, TypeOK
<1>2. ~(num[p] < num[q]) /\ ~(num[q] < num[p])
      BY <1>1 DEF IInv, LockInv, LowerWonIsAhead
<1>3. locks[num[p]] = p /\ locks[num[q]] = q
      BY <1>1 DEF IInv, LockInv, WonKeepsFile, OwnFile
<1> QED
    BY <1>1, <1>2, <1>3

\* At most one live process holds the walk lock (takeLock's promise), for any
\* number of them and whatever is killed, listed or removed in between.
THEOREM LockExcludes == Spec => []MutualExclusion
BY Inductive, InvMutex, PTL

\* The lock file of a process that holds the lock is in place and names it.
THEOREM KeepsFile == Spec => []HolderKeepsFile
<1>1. IInv => HolderKeepsFile
      BY DEF IInv, LockInv, WonKeepsFile, HolderKeepsFile, Won, OwnFile
<1> QED
    BY Inductive, <1>1, PTL

\* One holder, named by its own file, for any number of processes and walks.
THEOREM HolderAlone == Spec => []HolderIsAlone
BY LockExcludes, KeepsFile, PTL DEF HolderIsAlone

\* A run takes the lock under a number no recorded walk has (highestWalkRecorded).
THEOREM Fresh == Spec => FreshNumber
<1>1. IInv /\ [Next]_vars =>
        [\A p \in Procs :
           pc[p] = "below" /\ pc'[p] = "clearList"
             => \A n \in reported \cup {json.walk} : n < num[p]]_vars
      BY DEF IInv, FreshInv, WonIsFresh, Verified, Recorded
<1> QED
    BY Inductive, <1>1, PTL DEF Spec, FreshNumber

\* walk.json never goes back to an earlier walk: only the holder writes it,
\* under a number past every walk recorded (openWalk's replaceFile).
THEOREM JsonForward == Spec => JsonMovesForward
<1>1. IInv /\ [Next]_vars =>
        [json'.walk # json.walk /\ json' # NoJson => json'.walk > json.walk]_vars
  <2> SUFFICES ASSUME IInv, Next, json' # json, json' # NoJson, json'.walk # json.walk
               PROVE  json'.walk > json.walk
      BY DEF vars
  <2>1. PICK p \in Procs : WriteStarting(p) \/ WriteEnded(p)
        BY DEF Next, Step, Start, List, ReadTop, RefuseHeld, PickNumber, Link, LinkExists,
           Verify, VerifyRead, BelowList, Taken, GiveWay, BelowFree, BelowHeld, ClearOne,
           ClearList, Cleared, ReadOwn, Release, Exit, Crash, MarkEndReported, LoseJson,
           LoseLocks
  <2>2. json.walk <= num[p] /\ json'.walk = num[p]
        BY <2>1 DEF WriteStarting, WriteEnded, IInv, FreshInv, WonIsFresh, Recorded, Holding
  <2> QED
      BY <2>2 DEF IInv, TypeOK
<1> QED
    BY Inductive, <1>1, PTL DEF Spec, JsonMovesForward

-----------------------------------------------------------------------------
(* The refinement.                                                          *)

OwnerIsHolder ==
  /\ \A p \in Procs : pc[p] \in Holding => owner = p
  /\ owner # NoOne => owner \in Procs /\ pc[owner] \in Holding

\* The owner of the abstract lock is the one holder, or nobody.
LEMMA OwnerIs == IInv => MutualExclusion /\ OwnerIsHolder
BY InvMutex, LockConstants DEF MutualExclusion, OwnerIsHolder, owner, Holders

\* The same after the step.
LEMMA OwnerIsNext == IInv' => (MutualExclusion /\ OwnerIsHolder)'
BY OwnerIs, PTL

\* Steps of a process that neither takes nor lets go the lock.
Aside(p) == /\ pc[p] \notin Holding /\ pc'[p] \notin Holding
            /\ \A q \in Procs \ {p} : pc'[q] = pc[q] /\ num'[q] = num[q]

\* A step outside the lock is a stutter of the abstract lock.
LEMMA AsideStutters ==
  ASSUME IInv, IInv', NEW p \in Procs, Aside(p), UNCHANGED <<json, reported>>
  PROVE  UNCHANGED Mutex!vars
<1>1. owner' = owner
      BY OwnerIs, OwnerIsNext, LockConstants DEF Aside, OwnerIsHolder
<1>2. owner # NoOne => num'[owner] = num[owner]
      BY OwnerIs DEF Aside, OwnerIsHolder
<1> QED
    BY <1>1, <1>2 DEF Mutex!vars, Recorded

\* So is a step of the holder that leaves walk.json alone.
LEMMA HolderStutters ==
  ASSUME UNCHANGED <<num, json, reported>>, NEW p \in Procs, IInv, IInv',
         pc[p] \in Holding, pc'[p] \in Holding
  PROVE  UNCHANGED Mutex!vars
<1>1. owner' = p /\ owner = p
      BY OwnerIs, OwnerIsNext DEF OwnerIsHolder
<1> QED
    BY <1>1 DEF Mutex!vars, Recorded

\* Every step of the directory protocol is a step of the abstract lock, or
\* leaves it alone: what takeLock and releaseLock promise their callers.
THEOREM Refines == Spec => ImplementsMutex
<1>1. Init => Mutex!Init
      BY DEF Init, Mutex!Init, owner, Holders, Holding, Recorded, NoJson
<1>2. IInv /\ IInv' /\ [Next]_vars => [Mutex!Next]_(Mutex!vars)
  <2> SUFFICES ASSUME IInv, IInv', [Next]_vars PROVE [Mutex!Next]_(Mutex!vars)
      OBVIOUS
  <2> USE LockConstants DEF TypeOK, Trying, Holding, Goto
  <2>1. CASE UNCHANGED vars
        BY <2>1 DEF vars, Mutex!vars, owner, Holders, Recorded
  <2>2. ASSUME NEW p \in Procs, Start(p) \/ List(p) \/ ReadTop(p) \/ RefuseHeld(p)
        PROVE  UNCHANGED Mutex!vars
    <3>1. Aside(p) /\ UNCHANGED <<json, reported>>
          BY <2>2 DEF Aside, IInv, Start, List, ReadTop, RefuseHeld
    <3> QED
        BY <3>1, AsideStutters
  <2>3. ASSUME NEW p \in Procs, PickNumber(p) \/ Link(p) \/ LinkExists(p) \/ Verify(p)
        PROVE  UNCHANGED Mutex!vars
    <3>1. Aside(p) /\ UNCHANGED <<json, reported>>
          BY <2>3 DEF Aside, IInv, PickNumber, Link, LinkExists, Retry, Verify
    <3> QED
        BY <3>1, AsideStutters
  <2>4. ASSUME NEW p \in Procs, VerifyRead(p) \/ BelowList(p) \/ GiveWay(p)
        PROVE  UNCHANGED Mutex!vars
    <3>1. Aside(p) /\ UNCHANGED <<json, reported>>
          BY <2>4 DEF Aside, IInv, VerifyRead, BelowList, GiveWay, Retry
    <3> QED
        BY <3>1, AsideStutters
  <2>5. ASSUME NEW p \in Procs, NEW n \in todo[p], BelowFree(p, n) \/ BelowHeld(p, n)
        PROVE  UNCHANGED Mutex!vars
    <3>1. Aside(p) /\ UNCHANGED <<json, reported>>
          BY <2>5 DEF Aside, IInv, BelowFree, BelowHeld
    <3> QED
        BY <3>1, AsideStutters
  <2>6. ASSUME NEW p \in Procs, Taken(p) PROVE Mutex!Take(p)
    <3>1. /\ owner' = p /\ num' = num /\ Recorded' = Recorded /\ Verified(p)
          /\ \A q \in Procs \ {p} : pc'[q] = pc[q]
          /\ pc[p] \notin Holding /\ num[p] \in Nat
          BY <2>6, OwnerIsNext DEF IInv, Taken, OwnerIsHolder, Recorded, Verified
    <3>2. owner = NoOne
          BY <3>1, OwnerIs, OwnerIsNext DEF OwnerIsHolder
    <3>3. num[p] > 0 /\ \A n \in Recorded : n < num[p]
          BY <2>6, <3>1 DEF Taken, IInv, FreshInv, WonIsFresh, NumbersStartAtOne, Numbered
    <3> QED
        BY <3>1, <3>2, <3>3 DEF Mutex!Take
  <2>7. ASSUME NEW p \in Procs, ClearList(p) \/ Cleared(p)
        PROVE  UNCHANGED Mutex!vars
    <3>1. /\ UNCHANGED <<num, json, reported>>
          /\ pc[p] \in Holding /\ pc'[p] \in Holding
          BY <2>7 DEF IInv, ClearList, Cleared
    <3> QED
        BY <3>1, HolderStutters
  <2>8. ASSUME NEW p \in Procs, NEW n \in todo[p], ClearOne(p, n)
        PROVE  UNCHANGED Mutex!vars
    <3>1. /\ UNCHANGED <<num, json, reported>>
          /\ pc[p] \in Holding /\ pc'[p] \in Holding
          BY <2>8 DEF IInv, ClearOne
    <3> QED
        BY <3>1, HolderStutters
  <2>9. ASSUME NEW p \in Procs, WriteStarting(p) \/ WriteEnded(p) PROVE Mutex!Record
    <3>1. /\ UNCHANGED <<num, reported>> /\ json'.walk = num[p]
          /\ pc[p] \in Holding /\ pc'[p] \in Holding
          BY <2>9 DEF IInv, WriteStarting, WriteEnded
    <3>2. owner = p /\ owner' = p
          BY <3>1, OwnerIs, OwnerIsNext DEF OwnerIsHolder
    <3>3. num[p] # 0
          BY <3>1 DEF IInv, FreshInv, NumbersStartAtOne, Numbered
    <3> QED
        BY <3>1, <3>2, <3>3 DEF Mutex!Record, Recorded
  <2>10. ASSUME NEW p \in Procs, ReadOwn(p) \/ Release(p) \/ Exit(p) \/ Crash(p)
         PROVE  Mutex!Leave \/ UNCHANGED Mutex!vars
    <3>1. /\ UNCHANGED <<json, reported>>
          /\ \A q \in Procs \ {p} : pc'[q] = pc[q] /\ num'[q] = num[q]
          /\ pc'[p] \in Holding => pc[p] \in Holding /\ num' = num
          BY <2>10 DEF IInv, ReadOwn, Release, Exit, Crash, Forget
    <3>2. CASE pc[p] \notin Holding
          BY <3>1, <3>2, AsideStutters DEF Aside
    <3>3. CASE pc'[p] \in Holding
          BY <3>1, <3>3, HolderStutters
    <3>4. CASE pc[p] \in Holding /\ pc'[p] \notin Holding
      <4>1. owner = p /\ owner' = NoOne
            BY <3>1, <3>4, OwnerIs, OwnerIsNext DEF OwnerIsHolder
      <4> QED
          BY <3>1, <4>1 DEF Mutex!Leave, Recorded
    <3> QED
        BY <3>2, <3>3, <3>4
  <2>11. CASE MarkEndReported
    <3>1. Recorded' = Recorded /\ UNCHANGED <<pc, num>>
          BY <2>11 DEF MarkEndReported, Recorded
    <3> QED
        BY <3>1 DEF Mutex!vars, owner, Holders
  <2>12. CASE LoseJson
    <3>1. Recorded' \subseteq Recorded \cup {0} /\ UNCHANGED <<pc, num>>
          BY <2>12 DEF LoseJson, NoJson, Recorded
    <3> QED
        BY <3>1 DEF Mutex!Next, Mutex!Lose, owner, Holders
  <2>13. CASE LoseLocks
         BY <2>13 DEF LoseLocks, Mutex!vars, owner, Holders, Recorded
  <2> QED
      BY <2>1, <2>2, <2>3, <2>4, <2>5, <2>6, <2>7, <2>8, <2>9, <2>10, <2>11, <2>12, <2>13
      DEF Next, Step, Mutex!Next
<1> QED
    BY <1>1, <1>2, Inductive, PTL DEF Spec, ImplementsMutex, Mutex!Spec
=============================================================================

------------------------------ MODULE WalkLock ------------------------------
(***************************************************************************)
(* The lock a `nuka run --step` takes before it walks a scenario           *)
(* (src/run/walk-files.ts): a directory <stateDir>/walk.lock with one file *)
(* per walk that took it, named by the walk's number and holding a pid,    *)
(* then `released`.  The highest number holds the lock.                    *)
(*                                                                         *)
(* Several processes run takeLock at once, each file operation a step of   *)
(* its own, and any of them may be killed between two of them.  A process  *)
(* that is gone may come back under the same pid.                          *)
(***************************************************************************)
EXTENDS Integers

CONSTANTS
  Procs,      \* the pids of the `nuka run --step` processes
  Released,   \* the text of a lock file its holder let go
  NoOne,      \* no pid: a `raced` outcome, a walk.json nobody wrote
  PidReuse,   \* whether a later process can get the pid of one that is gone
  Attempts,   \* takeLock's attempts (3 in the code)
  MaxWalk     \* bound: no walk is numbered past it

ASSUME LockConstants ==
  /\ Released \notin Procs /\ NoOne \notin Procs
  /\ PidReuse \in BOOLEAN
  /\ Attempts \in Nat \ {0}
  /\ MaxWalk \in Nat

VARIABLES
  locks,      \* the directory: walk number -> the file's text
  json,       \* walk.json: the walk's number, its pid, whether it is ended
  reported,   \* walks-reported/: the walks whose end a `nuka step` printed
  pc,         \* where each process is
  attempt,    \* the attempt of takeLock each process is in, from 1
  seen,       \* the highest number the process's last listing held
  holder,     \* the text lockTop read, or the live pid a refusal names
  num,        \* the number the process links
  todo        \* what is left of the listing a process goes through

vars == <<locks, json, reported, pc, attempt, seen, holder, num, todo>>

Walks == 1..MaxWalk
Texts == Procs \cup {Released}
Names == DOMAIN locks
Top(m) == m \in Names /\ \A n \in Names : n <= m

NoJson == [walk |-> 0, pid |-> NoOne, over |-> TRUE]
Alive(p) == p \in Procs /\ pc[p] \notin {"off", "over", "gone"}
Larger(a, b) == IF a >= b THEN a ELSE b

\* A process that linked a number and has not decided it holds the lock.
Trying  == {"verify", "verifyRead", "belowList", "below", "giveWay"}
\* A process whose takeLock came to `taken`, until it let the lock go.
Holding == {"clearList", "clear", "open", "walking", "ended", "releasing"}

Init ==
  /\ locks = <<>>
  /\ json = NoJson
  /\ reported = {}
  /\ pc = [p \in Procs |-> "off"]
  /\ attempt = [p \in Procs |-> 0]
  /\ seen = [p \in Procs |-> 0]
  /\ holder = [p \in Procs |-> NoOne]
  /\ num = [p \in Procs |-> 0]
  /\ todo = [p \in Procs |-> {}]

Goto(p, label) == pc' = [pc EXCEPT ![p] = label]
Write(n, text) ==
  locks' = [m \in Names \cup {n} |-> IF m = n THEN text ELSE locks[m]]
\* unlinkSync, where a file already gone is no error.
RemoveQuietly(n) == locks' = [m \in Names \ {n} |-> locks[m]]

-----------------------------------------------------------------------------
(* takeLock.                                                               *)

Start(p) ==
  /\ pc[p] = "off" \/ (PidReuse /\ pc[p] \in {"over", "gone"})
  /\ Goto(p, "list")
  /\ attempt' = [attempt EXCEPT ![p] = 1]
  /\ UNCHANGED <<locks, json, reported, seen, holder, num, todo>>

\* lockTop's listing: the highest number, or no file at all.
List(p) ==
  /\ pc[p] = "list"
  /\ \/ /\ Names = {}
        /\ seen' = [seen EXCEPT ![p] = 0]
        /\ holder' = [holder EXCEPT ![p] = NoOne]
        /\ Goto(p, "decide")
     \/ /\ \E m \in Names : Top(m) /\ seen' = [seen EXCEPT ![p] = m]
        /\ Goto(p, "read")
        /\ UNCHANGED holder
  /\ UNCHANGED <<locks, json, reported, attempt, num, todo>>

\* lockTop's read of the file it listed as highest; gone means list again.
ReadTop(p) ==
  /\ pc[p] = "read"
  /\ \/ /\ seen[p] \in Names
        /\ holder' = [holder EXCEPT ![p] = locks[seen[p]]]
        /\ Goto(p, "decide")
     \/ /\ seen[p] \notin Names
        /\ Goto(p, "list")
        /\ UNCHANGED holder
  /\ UNCHANGED <<locks, json, reported, attempt, seen, num, todo>>

\* Mutant: a pid in the file is a holder, alive or not.
HeldByAnyPid(p) == holder[p] # p /\ holder[p] \in Procs

HeldByOther(p) == holder[p] # p /\ Alive(holder[p])

\* A live holder other than this process refuses the run.
RefuseHeld(p) ==
  /\ pc[p] = "decide"
  /\ HeldByOther(p)
  /\ Goto(p, "refused")
  /\ UNCHANGED <<locks, json, reported, attempt, seen, holder, num, todo>>

\* Mutant: the next number, from the lock alone.
PickPastTop(p) ==
  /\ pc[p] = "decide"
  /\ ~HeldByOther(p)
  /\ seen[p] < MaxWalk
  /\ num' = [num EXCEPT ![p] = seen[p] + 1]
  /\ Goto(p, "link")
  /\ UNCHANGED <<locks, json, reported, attempt, seen, holder, todo>>

\* The next number: one past the lock read and every walk recorded
\* (highestWalkRecorded reads walk.json and walks-reported now).
PickNumber(p) ==
  /\ pc[p] = "decide"
  /\ ~HeldByOther(p)
  /\ \E last \in reported \cup {json.walk} :
       /\ \A n \in reported \cup {json.walk} : n <= last
       /\ Larger(seen[p], last) < MaxWalk
       /\ num' = [num EXCEPT ![p] = Larger(seen[p], last) + 1]
  /\ Goto(p, "link")
  /\ UNCHANGED <<locks, json, reported, attempt, seen, holder, todo>>

\* linkWhole: exclusive, and the file appears with its text.
Link(p) ==
  /\ pc[p] = "link"
  /\ num[p] \notin Names
  /\ Write(num[p], p)
  /\ Goto(p, "verify")
  /\ UNCHANGED <<json, reported, attempt, seen, holder, num, todo>>

\* Another attempt, or the `raced` refusal once there is none left.
Retry(p) ==
  IF attempt[p] < Attempts
    THEN /\ attempt' = [attempt EXCEPT ![p] = @ + 1]
         /\ Goto(p, "list")
         /\ UNCHANGED holder
    ELSE /\ Goto(p, "refused")
         /\ holder' = [holder EXCEPT ![p] = NoOne]
         /\ UNCHANGED attempt

LinkExists(p) ==
  /\ pc[p] = "link"
  /\ num[p] \in Names
  /\ Retry(p)
  /\ UNCHANGED <<locks, json, reported, seen, num, todo>>

\* The second lockTop: is this process's number the highest?
Verify(p) ==
  /\ pc[p] = "verify"
  /\ \/ /\ \E m \in Names : Top(m) /\ seen' = [seen EXCEPT ![p] = m]
        /\ Goto(p, "verifyRead")
        /\ UNCHANGED holder
     \/ /\ Names = {}
        /\ holder' = [holder EXCEPT ![p] = NoOne]
        /\ Goto(p, "giveWay")
        /\ UNCHANGED seen
  /\ UNCHANGED <<locks, json, reported, attempt, num, todo>>

\* Mutant: the second look at the directory is left out.
VerifyNothing(p) ==
  /\ pc[p] = "verifyRead"
  /\ Goto(p, "belowList")
  /\ UNCHANGED <<locks, json, reported, attempt, seen, holder, num, todo>>

VerifyRead(p) ==
  /\ pc[p] = "verifyRead"
  /\ \/ /\ seen[p] \notin Names
        /\ Goto(p, "verify")
        /\ UNCHANGED holder
     \/ /\ seen[p] \in Names
        /\ seen[p] = num[p]
        /\ Goto(p, "belowList")
        /\ UNCHANGED holder
     \/ /\ seen[p] \in Names
        /\ seen[p] # num[p]
        /\ Goto(p, "giveWay")
        /\ holder' = [holder EXCEPT ![p] = NoOne]
  /\ UNCHANGED <<locks, json, reported, attempt, seen, num, todo>>

Lower(p) == {n \in Names : n < num[p]}

\* liveHolderBelow's listing.
BelowList(p) ==
  /\ pc[p] = "belowList"
  /\ todo' = [todo EXCEPT ![p] = Lower(p)]
  /\ Goto(p, "below")
  /\ UNCHANGED <<locks, json, reported, attempt, seen, holder, num>>

\* Mutant: no look at the lower files.
IgnoreLower(p, n) == FALSE

LiveOther(p, n) == n \in Names /\ locks[n] # p /\ Alive(locks[n])

\* liveHolderBelow: a lower file gone, released, dead or this process's own.
BelowFree(p, n) ==
  /\ pc[p] = "below"
  /\ n \in todo[p]
  /\ ~LiveOther(p, n)
  /\ todo' = [todo EXCEPT ![p] = @ \ {n}]
  /\ UNCHANGED <<locks, json, reported, pc, attempt, seen, holder, num>>

\* liveHolderBelow: a live pid below gives it the lock.
BelowHeld(p, n) ==
  /\ pc[p] = "below"
  /\ n \in todo[p]
  /\ LiveOther(p, n)
  /\ holder' = [holder EXCEPT ![p] = locks[n]]
  /\ Goto(p, "giveWay")
  /\ UNCHANGED <<locks, json, reported, attempt, seen, num, todo>>

\* Removes the number it linked, then refuses or tries again.
GiveWay(p) ==
  /\ pc[p] = "giveWay"
  /\ RemoveQuietly(num[p])
  /\ \/ /\ holder[p] # NoOne
        /\ Goto(p, "refused")
        /\ UNCHANGED <<attempt, holder>>
     \/ /\ holder[p] = NoOne
        /\ Retry(p)
  /\ UNCHANGED <<json, reported, seen, num, todo>>

Taken(p) ==
  /\ pc[p] = "below"
  /\ todo[p] = {}
  /\ Goto(p, "clearList")
  /\ UNCHANGED <<locks, json, reported, attempt, seen, holder, num, todo>>

\* Every number below this one goes, from a listing of its own.
ClearList(p) ==
  /\ pc[p] = "clearList"
  /\ todo' = [todo EXCEPT ![p] = Lower(p)]
  /\ Goto(p, "clear")
  /\ UNCHANGED <<locks, json, reported, attempt, seen, holder, num>>

ClearOne(p, n) ==
  /\ pc[p] = "clear"
  /\ n \in todo[p]
  /\ RemoveQuietly(n)
  /\ todo' = [todo EXCEPT ![p] = @ \ {n}]
  /\ UNCHANGED <<json, reported, pc, attempt, seen, holder, num>>

Cleared(p) ==
  /\ pc[p] = "clear"
  /\ todo[p] = {}
  /\ Goto(p, "open")
  /\ UNCHANGED <<locks, json, reported, attempt, seen, holder, num, todo>>

-----------------------------------------------------------------------------
(* openWalk's first write, the walk's end, releaseLock, and the process.    *)

WriteStarting(p) ==
  /\ pc[p] = "open"
  /\ json' = [walk |-> num[p], pid |-> p, over |-> FALSE]
  /\ Goto(p, "walking")
  /\ UNCHANGED <<locks, reported, attempt, seen, holder, num, todo>>

WriteEnded(p) ==
  /\ pc[p] = "walking"
  /\ json' = [walk |-> num[p], pid |-> p, over |-> TRUE]
  /\ Goto(p, "ended")
  /\ UNCHANGED <<locks, reported, attempt, seen, holder, num, todo>>

\* releaseLock: a file that no longer names this process stays as it is.
ReadOwn(p) ==
  /\ pc[p] = "ended"
  /\ Goto(p, IF num[p] \in Names /\ locks[num[p]] = p THEN "releasing" ELSE "done")
  /\ UNCHANGED <<locks, json, reported, attempt, seen, holder, num, todo>>

\* replaceFile renames onto the name, whatever is there by now.
Release(p) ==
  /\ pc[p] = "releasing"
  /\ Write(num[p], Released)
  /\ Goto(p, "done")
  /\ UNCHANGED <<json, reported, attempt, seen, holder, num, todo>>

Forget(p, label) ==
  /\ Goto(p, label)
  /\ attempt' = [attempt EXCEPT ![p] = 0]
  /\ seen' = [seen EXCEPT ![p] = 0]
  /\ holder' = [holder EXCEPT ![p] = NoOne]
  /\ num' = [num EXCEPT ![p] = 0]
  /\ todo' = [todo EXCEPT ![p] = {}]

Exit(p) ==
  /\ pc[p] \in {"refused", "done"}
  /\ Forget(p, "over")
  /\ UNCHANGED <<locks, json, reported>>

\* A SIGKILL, a crash, or an error takeLock throws.
Crash(p) ==
  /\ Alive(p) /\ pc[p] \notin {"refused", "done"}
  /\ Forget(p, "gone")
  /\ UNCHANGED <<locks, json, reported>>

\* A `nuka step` call prints how the walk in walk.json ended (markEndReported).
MarkEndReported ==
  /\ json.walk > 0
  /\ json.over \/ ~Alive(json.pid)
  /\ json.walk \notin reported
  /\ reported' = reported \cup {json.walk}
  /\ UNCHANGED <<locks, json, pc, attempt, seen, holder, num, todo>>

\* walk.json is deleted, or a reader cannot parse it.
LoseJson ==
  /\ json # NoJson
  /\ json' = NoJson
  /\ UNCHANGED <<locks, reported, pc, attempt, seen, holder, num, todo>>

\* The lock directory is deleted while no run is up.
LoseLocks ==
  /\ \A p \in Procs : ~Alive(p)
  /\ Names # {}
  /\ locks' = <<>>
  /\ UNCHANGED <<json, reported, pc, attempt, seen, holder, num, todo>>

Step(p) ==
  \/ List(p) \/ ReadTop(p) \/ RefuseHeld(p) \/ PickNumber(p)
  \/ Link(p) \/ LinkExists(p) \/ Verify(p) \/ VerifyRead(p)
  \/ BelowList(p) \/ Taken(p) \/ GiveWay(p)
  \/ \E n \in todo[p] : BelowFree(p, n) \/ BelowHeld(p, n) \/ ClearOne(p, n)
  \/ ClearList(p) \/ Cleared(p) \/ WriteStarting(p)
  \/ ReadOwn(p) \/ Release(p) \/ Exit(p)

Next ==
  \/ \E p \in Procs : Start(p) \/ Step(p) \/ WriteEnded(p) \/ Crash(p)
  \/ MarkEndReported
  \/ LoseJson
  \/ LoseLocks

Spec == Init /\ [][Next]_vars

\* A started process runs on; how long its walk lasts is a person's choice.
FairSpec == Spec /\ \A p \in Procs : WF_vars(Step(p))
-----------------------------------------------------------------------------
(* What the lock promises.                                                 *)

Labels == {"off", "over", "gone", "list", "read", "decide", "link", "refused", "done"}
            \cup Trying \cup Holding

\* The shape of the state.
TypeOK ==
  /\ Names \subseteq Nat
  /\ \A n \in Names : locks[n] \in Texts
  /\ json \in [walk : Nat, pid : Procs \cup {NoOne}, over : BOOLEAN]
  /\ reported \subseteq Nat
  /\ pc \in [Procs -> Labels]
  /\ attempt \in [Procs -> 0..Attempts]
  /\ seen \in [Procs -> Nat]
  /\ holder \in [Procs -> Texts \cup {NoOne}]
  /\ num \in [Procs -> Nat]
  /\ todo \in [Procs -> SUBSET Nat]

\* "Each file has one writer": of all the live processes at most one holds
\* the lock, whatever was listed, linked, cleared or killed in between.
MutualExclusion ==
  \A p, q \in Procs : pc[p] \in Holding /\ pc[q] \in Holding => p = q

\* A file of a live process that holds the lock is never cleared by another,
\* so a later run can always see who holds it.
HolderKeepsFile ==
  \A p \in Procs : pc[p] \in Holding => num[p] \in Names /\ locks[num[p]] = p

\* Two processes never write the files of one walk, and the file of the one
\* that may is in place and names it for as long as it may.
HolderIsAlone == MutualExclusion /\ HolderKeepsFile

\* highestWalkRecorded: a run that takes the lock has a number no earlier
\* walk had, in walk.json or in a reported end, even from an old reading.
FreshNumber ==
  [][\A p \in Procs :
       pc[p] = "below" /\ pc'[p] = "clearList"
         => \A n \in reported \cup {json.walk} : n < num[p]]_vars

\* walk.json never goes back to an earlier walk while it is not lost.
JsonMovesForward ==
  [][json'.walk # json.walk /\ json' # NoJson => json'.walk > json.walk]_vars

\* "A crash at any point leaves a dead pid on top, which the next run takes
\* over; no state needs a person to clear it": a run that finds itself the
\* only live process takes the lock, unless another starts or it is killed.
Alone(p) == \A q \in Procs \ {p} : ~Alive(q)
NoNumberLeft == \E n \in Names \cup reported \cup {json.walk} : n >= MaxWalk
DeadHolderTakenOver ==
  \A p \in Procs :
    (pc[p] = "list" /\ attempt[p] = 1 /\ Alone(p))
      ~> (pc[p] \in Holding \/ ~Alone(p) \/ pc[p] = "gone" \/ NoNumberLeft)

\* A run refused because "another walk is in progress" names it: two runs
\* are never refused in favour of each other, with no walk at all.
NoMutualRefusal ==
  ~ \E p, q \in Procs :
      /\ p # q /\ pc[p] = "refused" /\ pc[q] = "refused"
      /\ holder[p] = q /\ holder[q] = p

-----------------------------------------------------------------------------
(* Why it holds: the inductive invariant.                                  *)

\* A process past the listing that showed its number on top, until it gives
\* way: the number it linked cannot be taken from it any more.
Verified(p) == \/ pc[p] = "verifyRead" /\ seen[p] = num[p]
               \/ pc[p] \in {"belowList", "below"}
Won(p) == Verified(p) \/ pc[p] \in Holding
OwnFile(p) == num[p] \in Names /\ locks[num[p]] = p

\* A file no process will remove by giving way; a process with a lower
\* number is beaten, and will find a higher one when it looks.
Settled(m) == m \in Names /\ \A s \in Procs : pc[s] \in Trying => num[s] # m
Beaten(p) == \E m \in Names : Settled(m) /\ m > num[p]

Recorded == reported \cup {json.walk}
Numbered == {"link"} \cup Trying \cup Holding

WonKeepsFile == \A p \in Procs : Won(p) => OwnFile(p)
TryingOrBeaten == \A p \in Procs : pc[p] \in Trying => OwnFile(p) \/ Beaten(p)
SharedNumberIsBeaten ==
  \A p, q \in Procs :
    (p # q /\ pc[p] \in Trying /\ pc[q] \in Trying \cup Holding /\ num[p] = num[q])
      => ~Won(p) /\ ~Won(q) /\ Beaten(p)
LowerWonIsAhead ==
  \A p, q \in Procs :
    (Won(p) /\ Won(q) /\ num[p] < num[q])
      => pc[q] \notin Holding /\ (pc[q] = "below" => num[p] \in todo[q])
ClearsOnlyLower ==
  \A p \in Procs : pc[p] = "clear" => \A n \in todo[p] : n < num[p]
NumbersStartAtOne == \A p \in Procs : pc[p] \in Numbered => num[p] > 0
RecordedIsPassed ==
  \A n \in Recorded :
    \/ \E m \in Names : Settled(m) /\ m >= n
    \/ \A p \in Procs : pc[p] \in Numbered => num[p] > n
WonIsFresh ==
  \A p \in Procs : \A n \in Recorded :
    /\ Verified(p) => n < num[p]
    /\ pc[p] \in Holding => n <= num[p]

LockInv ==
  /\ WonKeepsFile /\ TryingOrBeaten /\ SharedNumberIsBeaten /\ LowerWonIsAhead
  /\ ClearsOnlyLower
FreshInv == NumbersStartAtOne /\ RecordedIsPassed /\ WonIsFresh

IInv == TypeOK /\ LockInv /\ FreshInv
-----------------------------------------------------------------------------
(* The lock implements its promise.                                        *)

Holders == {p \in Procs : pc[p] \in Holding}
owner == IF Holders = {} THEN NoOne ELSE CHOOSE p \in Holders : TRUE

Mutex == INSTANCE WalkMutex WITH
           owner    <- owner,
           number   <- IF owner = NoOne THEN 0 ELSE num[owner],
           recorded <- Recorded \ {0}

\* takeLock, releaseLock and the crashes between their file operations do
\* nothing that an owner taking and leaving one lock would not.
ImplementsMutex == Mutex!Spec
=============================================================================

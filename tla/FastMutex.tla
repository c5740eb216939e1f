------------------------------ MODULE FastMutex ------------------------------
(***************************************************************************)
(* The XrMutex of fastmutex.h: an atomic contention counter in front of a  *)
(* counting semaphore.  A thread that raises the counter from zero enters  *)
(* at once; any other waits on the semaphore.  A thread that lowers the    *)
(* counter to anything but zero posts the semaphore, which admits one of   *)
(* the waiters.  Every other lock of the emulator (cache, Scache, run,     *)
(* interrupt, work list, controller locks) is one of these; the other      *)
(* modules take it as a lock with an owner, which is what is shown here.   *)
(*                                                                         *)
(* Each atomic operation of the C code is one step.  A thread unlocks only *)
(* what it locked, as every caller does.  The counter is a C int, and no   *)
(* more than one increment per host thread can be outstanding, so it is    *)
(* not given a width.                                                      *)
(***************************************************************************)
EXTENDS Integers, FiniteSets

CONSTANT Threads    \* host threads: scheduling threads and the main thread

ASSUME ThreadsFinite == IsFiniteSet(Threads)

VARIABLES
  ContentionCounter,  \* XrMutex.ContentionCounter
  Semaphore,          \* value of XrMutex.Semaphore
  pc                  \* where each thread stands

vars == <<ContentionCounter, Semaphore, pc>>

PC == {"idle", "waiting", "critical", "posting", "trying"}

Goto(t, from, to) ==
  /\ pc[t] = from
  /\ pc' = [pc EXCEPT ![t] = to]

\* XrInitializeMutex.
Init ==
  /\ ContentionCounter = 0
  /\ Semaphore = 0
  /\ pc = [t \in Threads |-> "idle"]

\* XrLockMutex: the atomic fetch-and-add.
Lock(t) ==
  /\ Goto(t, "idle", IF ContentionCounter = 0 THEN "critical" ELSE "waiting")
  /\ ContentionCounter' = ContentionCounter + 1
  /\ UNCHANGED Semaphore

\* XrWaitSemaphore returns (an EINTR is retried by its loop).
WaitSemaphore(t) ==
  /\ Semaphore > 0
  /\ Goto(t, "waiting", "critical")
  /\ Semaphore' = Semaphore - 1
  /\ UNCHANGED ContentionCounter

\* Mutation: the waiter test is off by one.
UnlockWakesTooFew(t) ==
  /\ Goto(t, "critical", IF ContentionCounter <= 2 THEN "idle" ELSE "posting")
  /\ ContentionCounter' = ContentionCounter - 1
  /\ UNCHANGED Semaphore

\* Mutation: the semaphore is posted whether or not anyone waits.
UnlockAlwaysPosts(t) ==
  /\ Goto(t, "critical", "posting")
  /\ ContentionCounter' = ContentionCounter - 1
  /\ UNCHANGED Semaphore

\* XrUnlockMutex: the atomic fetch-and-subtract.
Unlock(t) ==
  /\ Goto(t, "critical", IF ContentionCounter = 1 THEN "idle" ELSE "posting")
  /\ ContentionCounter' = ContentionCounter - 1
  /\ UNCHANGED Semaphore

\* XrUnlockMutex: XrPostSemaphore, when the counter was not one.
PostSemaphore(t) ==
  /\ Goto(t, "posting", "idle")
  /\ Semaphore' = Semaphore + 1
  /\ UNCHANGED ContentionCounter

\* XrTryLockMutex: the counter is read; a nonzero value means failure.
TryLock(t) ==
  /\ Goto(t, "idle", IF ContentionCounter = 0 THEN "trying" ELSE "idle")
  /\ UNCHANGED <<ContentionCounter, Semaphore>>

\* Mutation: the exchange does not compare.
StoreCounter(t) ==
  /\ Goto(t, "trying", "critical")
  /\ ContentionCounter' = 1
  /\ UNCHANGED Semaphore

\* XrTryLockMutex: compare-and-exchange zero to one; when it fails the loop
\* reads the counter again, which is TryLock's step.
CompareExchange(t) ==
  /\ Goto(t, "trying", IF ContentionCounter = 0 THEN "critical" ELSE "idle")
  /\ ContentionCounter' = IF ContentionCounter = 0 THEN 1 ELSE ContentionCounter
  /\ UNCHANGED Semaphore

Next ==
  \E t \in Threads :
    \/ Lock(t)
    \/ WaitSemaphore(t)
    \/ Unlock(t)
    \/ PostSemaphore(t)
    \/ TryLock(t)
    \/ CompareExchange(t)

Spec == Init /\ [][Next]_vars

\* A thread that was told it may enter does enter, leaves, and posts: the host
\* schedules runnable threads and no caller keeps a lock for ever.  A host
\* semaphore promises only that some waiter is admitted.
Fairness ==
  /\ \A t \in Threads : WF_vars(Unlock(t)) /\ WF_vars(PostSemaphore(t))
  /\ WF_vars(\E t \in Threads : WaitSemaphore(t))

FairSpec == Spec /\ Fairness

-----------------------------------------------------------------------------

Waiting == {t \in Threads : pc[t] = "waiting"}

\* The right to enter is with a thread inside, with one about to post it, or
\* with the semaphore.
Holders == {t \in Threads : pc[t] \in {"critical", "posting"}}

\* Types of the mutex fields; the counter and the semaphore never go negative.
TypeOK ==
  /\ ContentionCounter \in Nat
  /\ Semaphore \in Nat
  /\ pc \in [Threads -> PC]

\* Two threads are never both between XrLockMutex and XrUnlockMutex.
MutualExclusion ==
  \A s, t \in Threads : pc[s] = "critical" /\ pc[t] = "critical" => s = t

\* A waiter always has somebody to wake it (XrUnlockMutex posts when the counter
\* says that threads wait), and a post is never left over for nobody: a spare
\* credit would later admit a second thread.
NoLostWakeup ==
  /\ Waiting # {} => Holders # {} \/ Semaphore > 0
  /\ Semaphore > 0 => Waiting # {} /\ Holders = {}

\* Whenever threads wait in XrLockMutex, one of the contenders gets in.
WaitersAdmitted ==
  Waiting # {} ~> \E t \in Threads : pc[t] = "critical"

-----------------------------------------------------------------------------

\* The threads the counter counts: inside or waiting.
Counted == {t \in Threads : pc[t] \in {"waiting", "critical"}}

\* The inductive invariant behind the two safety properties: at most one right
\* to enter exists, it exists exactly while the counter is nonzero, and the
\* counter is the number of threads inside or waiting.
TokenInv ==
  /\ TypeOK
  /\ Semaphore \in {0, 1}
  /\ \A s, t \in Holders : s = t
  /\ Semaphore = 1 => Holders = {}
  /\ ContentionCounter > 0 <=> Semaphore = 1 \/ Holders # {}
  /\ ContentionCounter = Cardinality(Counted)
=============================================================================

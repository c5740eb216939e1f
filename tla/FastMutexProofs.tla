--------------------------- MODULE FastMutexProofs ---------------------------
(***************************************************************************)
(* Proofs about FastMutex, for any finite set of threads: the type         *)
(* invariant, mutual exclusion and the absence of lost wakeups, all from   *)
(* the invariant TokenInv.                                                 *)
(***************************************************************************)
EXTENDS FastMutex, FiniteSetTheorems, TLAPS

\* The set of counted threads is finite, so that its cardinality is a natural
\* number (XrMutex.ContentionCounter as a head count).
LEMMA CountedFinite ==
  /\ IsFiniteSet(Counted)
  /\ Cardinality(Counted) \in Nat
  /\ Cardinality(Counted) = 0 <=> Counted = {}
<1>1. Counted \subseteq Threads
  BY DEF Counted
<1>2. IsFiniteSet(Counted)
  BY <1>1, ThreadsFinite, FS_Subset
<1>3. QED
  BY <1>2, FS_CardinalityType, FS_EmptySet

\* A thread that enters XrLockMutex or wins XrTryLockMutex raises the head
\* count by one.
LEMMA CountUp ==
  ASSUME TypeOK, NEW t \in Threads, t \notin Counted,
         Counted' = Counted \cup {t}
  PROVE  Cardinality(Counted') = Cardinality(Counted) + 1
BY CountedFinite, FS_AddElement

\* A thread that passes the fetch-and-subtract of XrUnlockMutex lowers it by one.
LEMMA CountDown ==
  ASSUME TypeOK, NEW t \in Threads, t \in Counted,
         Counted' = Counted \ {t}
  PROVE  Cardinality(Counted') = Cardinality(Counted) - 1
BY CountedFinite, FS_RemoveElement

\* XrInitializeMutex establishes the invariant.
LEMMA InitToken == Init => TokenInv
<1> SUFFICES ASSUME Init PROVE TokenInv
  OBVIOUS
<1>1. Counted = {} /\ Holders = {}
  BY DEF Init, Counted, Holders
<1>2. Cardinality(Counted) = 0
  BY <1>1, FS_EmptySet
<1>3. TypeOK
  BY DEF Init, TypeOK, PC
<1>4. QED
  BY <1>1, <1>2, <1>3 DEF TokenInv, Init, Counted

\* Every atomic operation of fastmutex.h preserves the invariant.
LEMMA NextToken == TokenInv /\ [Next]_vars => TokenInv'
<1> SUFFICES ASSUME TokenInv, [Next]_vars PROVE TokenInv'
  OBVIOUS
<1> USE DEF TokenInv
<1>0. /\ TypeOK
      /\ ContentionCounter = Cardinality(Counted)
  BY DEF Counted
<1>1. ASSUME NEW t \in Threads, Lock(t) PROVE TokenInv'
  <2>1. TypeOK'
    BY <1>1 DEF Lock, Goto, TypeOK, PC
  <2>2. Counted' = Counted \cup {t} /\ t \notin Counted
    BY <1>1, <1>0 DEF Lock, Goto, TypeOK, Counted
  <2>3. ContentionCounter' = Cardinality(Counted')
    BY <2>2, <1>0, <1>1, CountUp DEF Lock
  <2>4. Holders' = IF ContentionCounter = 0 THEN Holders \cup {t} ELSE Holders
    BY <1>1, <1>0 DEF Lock, Goto, TypeOK, Holders
  <2>5. QED
    BY <2>1, <2>3, <2>4, <1>1, <1>0 DEF Lock, TypeOK
<1>2. ASSUME NEW t \in Threads, WaitSemaphore(t) PROVE TokenInv'
  <2>1. TypeOK'
    BY <1>2 DEF WaitSemaphore, Goto, TypeOK, PC
  <2>2. Counted' = Counted
    BY <1>2, <1>0 DEF WaitSemaphore, Goto, TypeOK, Counted
  <2>3. Holders' = Holders \cup {t}
    BY <1>2, <1>0 DEF WaitSemaphore, Goto, TypeOK, Holders
  <2>4. ContentionCounter' = Cardinality(Counted')
    BY <2>2, <1>0, <1>2 DEF WaitSemaphore
  <2>5. QED
    BY <2>1, <2>3, <2>4, <1>2, <1>0 DEF WaitSemaphore, TypeOK
<1>3. ASSUME NEW t \in Threads, Unlock(t) PROVE TokenInv'
  <2>1. t \in Holders /\ t \in Counted
    BY <1>3 DEF Unlock, Goto, Holders, Counted
  <2>2. Counted' = Counted \ {t}
    BY <1>3, <1>0 DEF Unlock, Goto, TypeOK, Counted
  <2>3. ContentionCounter' = Cardinality(Counted')
    BY <2>1, <2>2, <1>0, <1>3, CountDown DEF Unlock
  <2>4. ContentionCounter > 0 /\ Semaphore = 0 /\ Holders = {t}
    BY <2>1, <1>0 DEF TypeOK
  <2>5. TypeOK'
    BY <1>3, <2>4 DEF Unlock, Goto, TypeOK, PC
  <2>6. Holders' = IF ContentionCounter = 1 THEN Holders \ {t} ELSE Holders
    BY <1>3, <1>0, <2>1 DEF Unlock, Goto, TypeOK, Holders
  <2>7. CASE ContentionCounter = 1
    <3>1. Holders' = {} /\ ContentionCounter' = 0 /\ Semaphore' = 0
      BY <2>4, <2>6, <2>7, <1>3 DEF Unlock
    <3>2. QED
      BY <2>3, <2>5, <3>1
  <2>8. CASE ContentionCounter # 1
    <3>1. Holders' = {t} /\ ContentionCounter' > 0 /\ Semaphore' = 0
      BY <2>4, <2>6, <2>8, <1>3, <1>0 DEF Unlock, TypeOK
    <3>2. QED
      BY <2>3, <2>5, <3>1
  <2>9. QED
    BY <2>7, <2>8
<1>4. ASSUME NEW t \in Threads, PostSemaphore(t) PROVE TokenInv'
  <2>1. t \in Holders
    BY <1>4 DEF PostSemaphore, Goto, Holders
  <2>2. Counted' = Counted
    BY <1>4, <1>0 DEF PostSemaphore, Goto, TypeOK, Counted
  <2>3. ContentionCounter > 0 /\ Semaphore = 0 /\ Holders = {t}
    BY <2>1, <1>0 DEF TypeOK
  <2>4. TypeOK'
    BY <1>4 DEF PostSemaphore, Goto, TypeOK, PC
  <2>5. Holders' = Holders \ {t}
    BY <1>4, <1>0 DEF PostSemaphore, Goto, TypeOK, Holders
  <2>6. ContentionCounter' = Cardinality(Counted')
    BY <2>2, <1>0, <1>4 DEF PostSemaphore
  <2>7. QED
    BY <2>3, <2>4, <2>5, <2>6, <1>4, <1>0 DEF PostSemaphore, TypeOK
<1>5. ASSUME NEW t \in Threads, TryLock(t) PROVE TokenInv'
  <2>1. TypeOK'
    BY <1>5 DEF TryLock, Goto, TypeOK, PC
  <2>2. Counted' = Counted /\ Holders' = Holders
    BY <1>5, <1>0 DEF TryLock, Goto, TypeOK, Counted, Holders
  <2>3. QED
    BY <2>1, <2>2, <1>5, <1>0 DEF TryLock
<1>6. ASSUME NEW t \in Threads, CompareExchange(t) PROVE TokenInv'
  <2>1. TypeOK'
    BY <1>6 DEF CompareExchange, Goto, TypeOK, PC
  <2>2. CASE ContentionCounter = 0
    <3>1. Counted' = Counted \cup {t} /\ t \notin Counted
      BY <1>6, <1>0, <2>2 DEF CompareExchange, Goto, TypeOK, Counted
    <3>2. ContentionCounter' = Cardinality(Counted')
      BY <3>1, <1>0, <1>6, <2>2, CountUp DEF CompareExchange
    <3>3. Holders' = Holders \cup {t}
      BY <1>6, <1>0, <2>2 DEF CompareExchange, Goto, TypeOK, Holders
    <3>4. QED
      BY <2>1, <2>2, <3>2, <3>3, <1>6, <1>0 DEF CompareExchange, TypeOK
  <2>3. CASE ContentionCounter # 0
    <3>1. Counted' = Counted /\ Holders' = Holders
      BY <1>6, <1>0, <2>3 DEF CompareExchange, Goto, TypeOK, Counted, Holders
    <3>2. QED
      BY <2>1, <2>3, <3>1, <1>6, <1>0 DEF CompareExchange
  <2>4. QED
    BY <2>2, <2>3
<1>7. CASE UNCHANGED vars
  BY <1>7 DEF vars, TypeOK, Holders, Counted
<1>8. QED
  BY <1>1, <1>2, <1>3, <1>4, <1>5, <1>6, <1>7 DEF Next

\* XrLockMutex, XrUnlockMutex and XrTryLockMutex keep TokenInv for ever.
THEOREM TokenInvariant == Spec => []TokenInv
BY InitToken, NextToken, PTL DEF Spec

\* The counter and the semaphore of an XrMutex never go negative and every
\* thread is where the code can be.
THEOREM TypeCorrect == Spec => []TypeOK
<1>1. TokenInv => TypeOK
  BY DEF TokenInv
<1>2. QED
  BY <1>1, TokenInvariant, PTL

\* At most one thread is between XrLockMutex (or a successful XrTryLockMutex)
\* and XrUnlockMutex, however many contend.
THEOREM MutexExclusive == Spec => []MutualExclusion
<1>1. TokenInv => MutualExclusion
  BY DEF TokenInv, MutualExclusion, Holders
<1>2. QED
  BY <1>1, TokenInvariant, PTL

\* Whoever waits on the semaphore has a thread that will post it, or a post
\* already there, and no post is ever spare.
THEOREM WakeupsKept == Spec => []NoLostWakeup
<1>1. TokenInv => NoLostWakeup
  <2> SUFFICES ASSUME TokenInv PROVE NoLostWakeup
    OBVIOUS
  <2>1. ContentionCounter = Cardinality(Counted) /\ TypeOK
    BY DEF TokenInv, Counted
  <2>2. Waiting # {} => ContentionCounter > 0
    BY <2>1, CountedFinite DEF Waiting, Counted, TypeOK
  <2>3. Semaphore > 0 => Waiting # {} /\ Holders = {}
    BY <2>1, CountedFinite DEF TokenInv, Waiting, Counted, Holders, TypeOK
  <2>4. QED
    BY <2>2, <2>3 DEF TokenInv, NoLostWakeup, TypeOK
<1>2. QED
  BY <1>1, TokenInvariant, PTL
=============================================================================

--------------------------- MODULE SchedulerProofs ---------------------------
(***************************************************************************)
(* Scheduler, for any host threads, processors and devices.                *)
(*                                                                         *)
(* The semaphore counts the work on the work list, so that no thread       *)
(* sleeps while there is work for it, and none is woken for nothing.  The  *)
(* list and the semaphore are not changed together: between                *)
(* InsertTailList and XrPostSemaphore, and between XrWaitSemaphore and     *)
(* RemoveEntryList, a thread stands for the difference.  Counting those    *)
(* threads is all this part needs; which schedulables they carry does not  *)
(* matter to it.                                                           *)
(*                                                                         *)
(* Whatever is to be run is in one place, which is what the second part    *)
(* is about.  The invariant says that there are maps, kind and pos, that   *)
(* give each schedulable its place (the list and the index, the thread     *)
(* whose chain it heads, the schedulable that links to it, or the thread   *)
(* that runs it), and that every list, chain and thread holds what these   *)
(* maps place in it and nothing else.  A step moves one schedulable, at    *)
(* most two, and the maps with it.  A third map, owner, says whose chain   *)
(* each was last in: every processor is in the chain of the thread it      *)
(* prefers, so the one that runs it is the one whose chain it enters the   *)
(* device in that made it pause.                                           *)
(*                                                                         *)
(* Of ports and several threads this is not true: a port that goes on      *)
(* enters itself in the chain of the thread that last took it from the     *)
(* work list, which need not be the thread that runs it.  The assumption   *)
(* of the second part leaves these instances out; run scheduler_stale      *)
(* shows what happens in one.                                              *)
(***************************************************************************)
EXTENDS Scheduler, FiniteSetTheorems, TLAPS

\* The threads between an operation on the list and the one on the semaphore.
Between == {t \in Threads : thread[t].pc \in {"pop", "post"}}
MainBetween == IF MainAt("post") THEN 1 ELSE 0

\* The list is a sequence of whatever was entered in it, and every thread is at
\* some line.
Shape ==
  /\ \E S : XrSchedulerWorkList \in Seq(S)
  /\ XrSchedulerSemaphore \in Nat
  /\ DOMAIN thread = Threads
  /\ \A t \in Threads : "pc" \in DOMAIN thread[t]
  /\ "pc" \in DOMAIN main

PostInv == Shape /\ WorkIsPosted

\* Thread t goes to a line, the others stay where they are.
Moved(t, label) ==
  /\ thread' = [thread EXCEPT ![t] = thread'[t]]
  /\ "pc" \in DOMAIN thread'[t]
  /\ thread'[t].pc = label

\* There are finitely many threads between the two operations.
LEMMA BetweenFinite ==
  ASSUME IsFiniteSet(Threads)
  PROVE  IsFiniteSet(Between) /\ Cardinality(Between) \in Nat
<1>1. Between \subseteq Threads
  BY DEF Between
<1> QED BY <1>1, FS_Subset, FS_CardinalityType

\* XrWaitSemaphore and InsertTailList bring a thread between the two operations.
LEMMA Enters ==
  ASSUME IsFiniteSet(Threads), Shape, NEW t \in Threads, t \notin Between,
         Moved(t, "pop") \/ Moved(t, "post")
  PROVE  Cardinality(Between') = Cardinality(Between) + 1
<1>1. Between' = Between \cup {t}
  BY DEF Between, Moved, Shape
<1> QED BY <1>1, BetweenFinite, FS_AddElement

\* RemoveEntryList and XrPostSemaphore take it out again.
LEMMA Leaves ==
  ASSUME IsFiniteSet(Threads), Shape, NEW t \in Threads, t \in Between,
         NEW label, Moved(t, label), label \notin {"pop", "post"}
  PROVE  /\ Cardinality(Between') = Cardinality(Between) - 1
         /\ Cardinality(Between) > 0
<1>1. Between' = Between \ {t}
  BY DEF Between, Moved, Shape
<1>2. Cardinality(Between') = Cardinality(Between) - 1
  BY <1>1, BetweenFinite, FS_RemoveElement
<1>3. Cardinality(Between) # 0
  BY BetweenFinite, FS_EmptySet
<1> QED BY <1>2, <1>3, BetweenFinite

\* Every other line leaves the count of threads as it is.
LEMMA Stays ==
  ASSUME Shape, NEW t \in Threads, t \notin Between,
         NEW label, Moved(t, label), label \notin {"pop", "post"}
  PROVE  Between' = Between
BY DEF Between, Moved, Shape

\* Moving a thread keeps every thread at some line.
LEMMA ThreadsShaped ==
  ASSUME Shape, NEW t \in Threads, NEW label, Moved(t, label)
  PROVE  DOMAIN thread' = Threads /\ \A u \in Threads : "pc" \in DOMAIN thread'[u]
BY DEF Shape, Moved

\* InsertTailList and RemoveEntryList on the work list.
LEMMA ListLength ==
  ASSUME NEW S, NEW list \in Seq(S), NEW w
  PROVE  /\ Append(list, w) \in Seq(S \cup {w})
         /\ Len(Append(list, w)) = Len(list) + 1
         /\ list # <<>> => Tail(list) \in Seq(S) /\ Len(Tail(list)) = Len(list) - 1
         /\ list = <<>> <=> Len(list) = 0
         /\ Len(list) \in Nat
<1>1. list \in Seq(S \cup {w})
  OBVIOUS
<1>2. Append(list, w) \in Seq(S \cup {w}) /\ Len(Append(list, w)) = Len(list) + 1
  BY <1>1
<1> QED BY <1>2

\* Where the statements of XrSchedulerLoop and of the schedulables lead to.
LEMMA Gotos ==
  ASSUME Shape, NEW t \in Threads
  PROVE  /\ \A label : Goto(t, label) => Moved(t, label)
         /\ Finish(t) => Moved(t, "fetch") \/ Moved(t, "dequeued")
         /\ \A rest : WriteLate(t, rest) => Moved(t, "late")
<1>1. ASSUME NEW label, Goto(t, label) PROVE Moved(t, label)
  BY <1>1 DEF Goto, Moved, Shape
<1>2. ASSUME Finish(t) PROVE Moved(t, "fetch") \/ Moved(t, "dequeued")
  BY <1>2 DEF Finish, IdleThread, Moved, Shape
<1>3. ASSUME NEW rest, WriteLate(t, rest) PROVE Moved(t, "late")
  BY <1>3 DEF WriteLate, Moved, Shape
<1> QED BY <1>1, <1>2, <1>3

\* A step that takes no thread in between or out, and leaves the list and the
\* semaphore alone.
LEMMA Elsewhere ==
  ASSUME PostInv, NEW t \in Threads, t \notin Between,
         NEW label, Moved(t, label), label \notin {"pop", "post"},
         UNCHANGED <<XrSchedulerWorkList, XrSchedulerSemaphore, main>>
  PROVE  PostInv'
<1>1. Shape'
  BY ThreadsShaped DEF PostInv, Shape
<1>2. Between' = Between
  BY Stays DEF PostInv
<1> QED BY <1>1, <1>2 DEF PostInv, WorkIsPosted, Between, MainAt

\* XrInitializeScheduler: nothing is posted and nothing listed.
LEMMA InitPosted == Init => PostInv
<1> SUFFICES ASSUME Init PROVE PostInv
  OBVIOUS
<1>1. Shape
  BY DEF Init, Shape, IdleThread
<1>2. Between = {}
  BY DEF Init, Between, IdleThread
<1>3. Len(XrSchedulerWorkList) = 0 /\ Cardinality(Between) = 0 /\ ~MainAt("post")
  BY <1>2, FS_EmptySet DEF Init, MainAt
<1>4. XrSchedulerSemaphore = 0
  BY DEF Init
<1> QED BY <1>1, <1>3, <1>4 DEF PostInv, WorkIsPosted, Between

\* The statements of a host thread.
LEMMA LoopPosted ==
  ASSUME IsFiniteSet(Threads), PostInv, NEW t \in Threads, Loop(t)
  PROVE  PostInv'
<1> DEFINE n == Cardinality(Between)
<1>0. /\ Shape
      /\ n \in Nat
      /\ Len(XrSchedulerWorkList) = XrSchedulerSemaphore + n + MainBetween
      /\ XrSchedulerSemaphore \in Nat
      /\ MainBetween \in {0, 1}
  BY BetweenFinite DEF PostInv, WorkIsPosted, Between, MainBetween, Shape
<1>1. PICK S : XrSchedulerWorkList \in Seq(S)
  BY <1>0 DEF Shape
<1>2. SUFFICES ASSUME ~ \E label : /\ label \notin {"pop", "post"} /\ Moved(t, label)
                                   /\ t \notin Between
                                   /\ UNCHANGED <<XrSchedulerWorkList, XrSchedulerSemaphore, main>>
               PROVE  PostInv'
  BY Elsewhere
<1>3. CASE WaitForWork(t)
  <2>1. Moved(t, "pop") /\ t \notin Between /\ UNCHANGED <<XrSchedulerWorkList, main>>
    BY <1>0, <1>3, Gotos DEF WaitForWork, At, Between
  <2>2. Cardinality(Between') = n + 1
    BY <1>0, <2>1, Enters
  <2>3. XrSchedulerSemaphore' = XrSchedulerSemaphore - 1 /\ XrSchedulerSemaphore' \in Nat
    BY <1>0, <1>3 DEF WaitForWork
  <2>4. Shape'
    BY <1>0, <2>1, <2>3, ThreadsShaped DEF Shape
  <2>5. MainBetween' = MainBetween
    BY <2>1 DEF MainBetween, MainAt
  <2>6. Len(XrSchedulerWorkList)' = XrSchedulerSemaphore' + Cardinality(Between') + MainBetween'
    BY <1>0, <2>1, <2>2, <2>3, <2>5
  <2> QED BY <2>4, <2>6 DEF PostInv, WorkIsPosted, Between, MainBetween
<1>4. CASE PopWork(t)
  <2>1. t \in Between /\ UNCHANGED <<XrSchedulerSemaphore, main>>
    BY <1>4 DEF PopWork, At, Between
  <2>2. n # 0
    BY <2>1, BetweenFinite, FS_EmptySet
  <2>3. XrSchedulerWorkList # <<>>
    BY <1>0, <1>1, <2>2, ListLength
  <2>4. Moved(t, "dequeued") /\ XrSchedulerWorkList' = Tail(XrSchedulerWorkList)
    BY <1>0, <1>4, <2>3 DEF PopWork, Moved, Shape
  <2>5. Cardinality(Between') = n - 1
    BY <1>0, <2>1, <2>4, Leaves
  <2>6. XrSchedulerWorkList' \in Seq(S) /\ Len(XrSchedulerWorkList') = Len(XrSchedulerWorkList) - 1
    BY <1>1, <2>3, <2>4, ListLength
  <2>7. Shape'
    BY <1>0, <2>1, <2>4, <2>6, ThreadsShaped DEF Shape
  <2>8. MainBetween' = MainBetween
    BY <2>1 DEF MainBetween, MainAt
  <2>9. Len(XrSchedulerWorkList)' = XrSchedulerSemaphore' + Cardinality(Between') + MainBetween'
    BY <1>0, <2>1, <2>5, <2>6, <2>8
  <2> QED BY <2>7, <2>9 DEF PostInv, WorkIsPosted, Between, MainBetween
<1>5. CASE InsertPaused(t)
  <2>1. /\ Moved(t, "post") /\ t \notin Between
        /\ UNCHANGED <<XrSchedulerSemaphore, main>>
        /\ XrSchedulerWorkList' = Append(XrSchedulerWorkList, Mine(t))
    BY <1>0, <1>5, Gotos DEF InsertPaused, InsertWork, At, Between
  <2>2. Cardinality(Between') = n + 1
    BY <1>0, <2>1, Enters
  <2>3. /\ XrSchedulerWorkList' \in Seq(S \cup {Mine(t)})
        /\ Len(XrSchedulerWorkList') = Len(XrSchedulerWorkList) + 1
    BY <1>1, <2>1, ListLength
  <2>4. Shape'
    BY <1>0, <2>1, <2>3, ThreadsShaped DEF Shape
  <2>5. MainBetween' = MainBetween
    BY <2>1 DEF MainBetween, MainAt
  <2>6. Len(XrSchedulerWorkList)' = XrSchedulerSemaphore' + Cardinality(Between') + MainBetween'
    BY <1>0, <2>1, <2>2, <2>3, <2>5
  <2> QED BY <2>4, <2>6 DEF PostInv, WorkIsPosted, Between, MainBetween
<1>6. CASE PostPaused(t)
  <2>1. /\ Moved(t, "fetch") \/ Moved(t, "dequeued")
        /\ t \in Between
        /\ UNCHANGED <<XrSchedulerWorkList, main>>
        /\ XrSchedulerSemaphore' = XrSchedulerSemaphore + 1
    BY <1>0, <1>6, Gotos DEF PostPaused, PostWork, At, Between
  <2>2. Cardinality(Between') = n - 1
    BY <1>0, <2>1, Leaves
  <2>3. Shape'
    BY <1>0, <2>1, ThreadsShaped DEF Shape
  <2>4. MainBetween' = MainBetween
    BY <2>1 DEF MainBetween, MainAt
  <2>5. Len(XrSchedulerWorkList)' = XrSchedulerSemaphore' + Cardinality(Between') + MainBetween'
    BY <1>0, <2>1, <2>2, <2>4
  <2> QED BY <2>3, <2>5 DEF PostInv, WorkIsPosted, Between, MainBetween
<1>7. CASE FetchChain(t) \/ ClearChain(t) \/ Dequeue(t) \/ Unlink(t)
  <2>1. t \notin Between /\ UNCHANGED <<XrSchedulerWorkList, XrSchedulerSemaphore, main>>
    BY <1>7 DEF FetchChain, ClearChain, Dequeue, Unlink, At, Between, lists
  <2>2. Moved(t, "clear") \/ Moved(t, "wait") \/ Moved(t, "dequeued") \/ Moved(t, "unlink")
          \/ Moved(t, "func")
    <3>1. CASE FetchChain(t)
      BY <1>0, <3>1 DEF FetchChain, Moved, Shape
    <3>2. CASE ClearChain(t)
      BY <1>0, <3>2, Gotos DEF ClearChain
    <3>3. CASE Dequeue(t)
      BY <1>0, <3>3, Gotos DEF Dequeue
    <3>4. CASE Unlink(t)
      BY <1>0, <3>4 DEF Unlink, Moved, Shape
    <3> QED BY <1>7, <3>1, <3>2, <3>3, <3>4
  <2> QED BY <1>2, <2>1, <2>2
<1>8. CASE Link(t) \/ CpuFrameDone(t) \/ CpuHalted(t) \/ CpuPaused(t)
             \/ \E d \in Devices : StartDevice(t, d)
  <2>1. t \notin Between /\ UNCHANGED <<XrSchedulerWorkList, XrSchedulerSemaphore, main>>
    BY <1>8 DEF Link, CpuFrameDone, CpuHalted, CpuPaused, StartDevice, Execute, At, Between, lists
  <2>2. Moved(t, "fetch") \/ Moved(t, "dequeued") \/ Moved(t, "link") \/ Moved(t, "insert")
          \/ Moved(t, "late") \/ Moved(t, "func")
    <3>1. CASE Link(t)
      <4>1. CASE Finish(t)
        BY <1>0, <4>1, Gotos
      <4>2. CASE ~Finish(t)
        BY <1>0, <3>1, <4>2 DEF Link, Moved, Shape
      <4> QED BY <4>1, <4>2
    <3>2. CASE CpuFrameDone(t)
      BY <1>0, <3>2, Gotos DEF CpuFrameDone
    <3>3. CASE CpuHalted(t)
      BY <1>0, <3>3 DEF CpuHalted, Moved, Shape
    <3>4. CASE CpuPaused(t)
      BY <1>0, <3>4, Gotos DEF CpuPaused
    <3>5. ASSUME NEW d \in Devices, StartDevice(t, d) PROVE Moved(t, "link")
      BY <1>0, <3>5 DEF StartDevice, Moved, Shape
    <3> QED BY <1>8, <3>1, <3>2, <3>3, <3>4, <3>5
  <2> QED BY <1>2, <2>1, <2>2
<1>9. CASE DeviceDone(t) \/ DeviceFrameDone(t) \/ PortContinues(t) \/ WriteTimeslice(t)
  <2>1. t \notin Between /\ UNCHANGED <<XrSchedulerWorkList, XrSchedulerSemaphore, main>>
    BY <1>9 DEF DeviceDone, DeviceFrameDone, PortContinues, WriteTimeslice, Operating, At,
                Between, lists
  <2>2. Moved(t, "late") \/ Moved(t, "link") \/ Moved(t, "fetch") \/ Moved(t, "dequeued")
    <3>1. CASE DeviceDone(t) \/ DeviceFrameDone(t)
      BY <1>0, <3>1, Gotos DEF DeviceDone, DeviceFrameDone
    <3>2. CASE PortContinues(t)
      BY <1>0, <3>2 DEF PortContinues, Moved, Shape
    <3>3. CASE WriteTimeslice(t)
      BY <1>0, <3>3, Gotos DEF WriteTimeslice
    <3> QED BY <1>9, <3>1, <3>2, <3>3
  <2> QED BY <1>2, <2>1, <2>2
<1> HIDE <1>2
<1> QED BY <1>3, <1>4, <1>5, <1>6, <1>7, <1>8, <1>9, Zenon DEF Loop

\* The statements of the main thread, which has no line between the two counted in
\* Between: it is the last term of the sum.
LEMMA MainPosted ==
  ASSUME IsFiniteSet(Threads), PostInv, MainLoop
  PROVE  PostInv'
<1> DEFINE n == Cardinality(Between)
<1>0. /\ Shape
      /\ n \in Nat
      /\ Len(XrSchedulerWorkList) = XrSchedulerSemaphore + n + MainBetween
      /\ XrSchedulerSemaphore \in Nat
  BY BetweenFinite DEF PostInv, WorkIsPosted, Between, MainBetween, Shape
<1>1. UNCHANGED thread /\ Between' = Between
  BY DEF MainLoop, Collect, StartTimeslice, ResetEnqueued, TestEnqueued, InsertFrame, PostFrame,
         Between
<1>2. CASE Collect \/ StartTimeslice \/ ResetEnqueued \/ TestEnqueued
  <2>1. UNCHANGED <<XrSchedulerWorkList, XrSchedulerSemaphore>>
    BY <1>2 DEF Collect, StartTimeslice, ResetEnqueued, TestEnqueued, lists
  <2>2. ~MainAt("post") /\ ~MainAt("post")' /\ "pc" \in DOMAIN main'
    <3> USE <1>0 DEF MainAt, Shape
    <3>1. CASE Collect
      <4>1. main.pc = "collect" /\ \E f, d : main' = [pc |-> "start", frame |-> f, todo |-> f, dt |-> d]
        BY <3>1 DEF Collect
      <4> QED BY <4>1
    <3>2. CASE StartTimeslice
      BY <3>2 DEF StartTimeslice
    <3>3. CASE ResetEnqueued
      BY <3>3 DEF ResetEnqueued
    <3>4. CASE TestEnqueued
      <4>1. CASE NextOfFrame
        BY <3>4, <4>1 DEF TestEnqueued, NextOfFrame
      <4>2. CASE ~NextOfFrame
        <5>1. main' = [main EXCEPT !.pc = "insert"]
          BY <3>4, <4>2 DEF TestEnqueued
        <5> QED BY <3>4, <5>1 DEF TestEnqueued
      <4> QED BY <4>1, <4>2
    <3> QED BY <1>2, <3>1, <3>2, <3>3, <3>4
  <2>3. Shape'
    BY <1>0, <1>1, <2>1, <2>2 DEF Shape
  <2>4. MainBetween' = MainBetween
    BY <2>2 DEF MainBetween
  <2> QED BY <1>0, <1>1, <2>1, <2>3, <2>4 DEF PostInv, WorkIsPosted, Between, MainBetween
<1>3. CASE InsertFrame
  <2>1. PICK S : XrSchedulerWorkList \in Seq(S)
    BY <1>0 DEF Shape
  <2>2. /\ XrSchedulerWorkList' = Append(XrSchedulerWorkList, Head(main.todo))
        /\ UNCHANGED XrSchedulerSemaphore
    BY <1>3 DEF InsertFrame, InsertWork
  <2>3. ~MainAt("post") /\ MainAt("post")' /\ "pc" \in DOMAIN main'
    BY <1>0, <1>3 DEF InsertFrame, MainAt, Shape
  <2>4. /\ XrSchedulerWorkList' \in Seq(S \cup {Head(main.todo)})
        /\ Len(XrSchedulerWorkList') = Len(XrSchedulerWorkList) + 1
    BY <2>1, <2>2, ListLength
  <2>5. Shape'
    BY <1>0, <1>1, <2>2, <2>3, <2>4 DEF Shape
  <2>6. MainBetween' = MainBetween + 1 /\ MainBetween = 0
    BY <2>3 DEF MainBetween
  <2> QED BY <1>0, <1>1, <2>2, <2>4, <2>5, <2>6 DEF PostInv, WorkIsPosted, Between, MainBetween
<1>4. CASE PostFrame
  <2>1. XrSchedulerSemaphore' = XrSchedulerSemaphore + 1 /\ UNCHANGED XrSchedulerWorkList
    BY <1>4 DEF PostFrame, PostWork
  <2>2. MainAt("post") /\ ~MainAt("post")' /\ "pc" \in DOMAIN main'
    BY <1>0, <1>4 DEF PostFrame, NextOfFrame, MainAt, Shape
  <2>3. Shape'
    BY <1>0, <1>1, <2>1, <2>2 DEF Shape
  <2>4. MainBetween = 1 /\ MainBetween' = 0
    BY <2>2 DEF MainBetween
  <2> QED BY <1>0, <1>1, <2>1, <2>3, <2>4 DEF PostInv, WorkIsPosted, Between, MainBetween
<1> QED BY <1>2, <1>3, <1>4 DEF MainLoop

\* The semaphore counts the listed work, for any finite set of host threads: a
\* thread let in finds work (the retry of XrPopSchedulerWork is never taken), and a
\* thread sleeps only when all listed work is spoken for.
THEOREM SemaphoreCountsWork ==
  ASSUME IsFiniteSet(Threads)
  PROVE  Spec => []WorkIsPosted
<1>1. PostInv /\ [Next]_vars => PostInv'
  <2> SUFFICES ASSUME PostInv, [Next]_vars PROVE PostInv'
    OBVIOUS
  <2>1. CASE UNCHANGED vars
    <3>1. UNCHANGED <<XrSchedulerWorkList, XrSchedulerSemaphore, thread, main>>
      BY <2>1 DEF vars, lists
    <3> QED BY <3>1 DEF PostInv, Shape, WorkIsPosted, MainAt
  <2> QED BY LoopPosted, MainPosted, <2>1 DEF Next
<1>2. PostInv => WorkIsPosted
  BY DEF PostInv
<1> QED BY InitPosted, <1>1, <1>2, PTL DEF Spec

-----------------------------------------------------------------------------
(* Where the schedulables are.                                             *)

\* The lines that threads and main are at, and what a pointer may lead to.
Labels == {"fetch", "clear", "wait", "pop", "dequeued", "unlink", "func", "link", "insert",
           "post", "late"}
MainLabels == {"collect", "start", "enqueue", "any", "insert", "post"}
Somewhere == Work \cup {None}

\* Everything has its type.
Typed ==
  /\ XrSchedulerWorkList \in Seq(Work) /\ XrSchedulerNextFrameList \in Seq(Work)
  /\ ThreadNext \in [Threads -> Somewhere]
  /\ WorkNext \in [Work -> Somewhere]
  /\ PreferredThread \in [Work -> Threads \cup {None}]
  /\ Enqueued \in [Work -> BOOLEAN] /\ Busy \in [Devices -> BOOLEAN]
  /\ Timeslice \in [Work -> Int]
  /\ thread \in [Threads -> [pc : Labels, work : Somewhere, next : Somewhere,
                             timeslice : Int, linking : Somewhere]]
  /\ main \in [pc : MainLabels, frame : Seq(Work), todo : Seq(Work), dt : Nat]

\* What the locals of a thread hold at each label, and that work it is to enter in a
\* list is not marked Enqueued.
ThreadOK(t) ==
  LET c == thread[t] IN
  /\ c.pc = "clear" => c.work = ThreadNext[t]
  /\ c.pc \in {"fetch", "wait", "pop"} => c.work = None
  /\ c.pc \in {"dequeued", "unlink", "func", "link", "insert", "post", "late"} => c.work \in Work
  /\ c.pc \in {"insert", "post"} => c.work \in Cpus
  /\ c.pc = "late" => c.work \in Devices
  /\ c.next # None => c.pc \in {"func", "link", "insert", "post", "late"}
  /\ c.linking # None <=> c.pc = "link"
  /\ c.pc = "link" =>
       /\ c.linking = c.work \/ (c.work \in Cpus /\ c.linking \in Devices)
       /\ WorkNext[c.linking] = ThreadNext[t]
       /\ PreferredThread[c.work] = t
  /\ c.pc \in {"unlink", "func"} \/ (c.pc = "link" /\ c.linking # c.work) => ~Enqueued[c.work]

\* The same for main.
MainOK ==
  /\ main.pc = "collect" => main.frame = <<>>
  /\ main.pc = "start" =>
       /\ main.frame # <<>>
       /\ \A i \in 1 .. Len(main.todo) :
            \E j \in 1 .. Len(main.frame) : main.frame[j] = main.todo[i]
  /\ main.pc # "collect" => main.todo # <<>>
  /\ main.pc = "any" => ~Enqueued[Head(main.todo)]

\* kind and pos say for each schedulable in which one place it is.
OnList(list, name, kind, pos) ==
  /\ \A i \in 1 .. Len(list) : kind[list[i]] = name /\ pos[list[i]] = i
  /\ \A w \in Work : kind[w] = name => pos[w] \in 1 .. Len(list) /\ list[pos[w]] = w
\* The three lists, the chains that threads head, the links of chains, and what threads
\* have as next: each holds what is placed there, and no other.
OnLists(kind, pos) ==
  /\ OnList(XrSchedulerWorkList, "work list", kind, pos)
  /\ OnList(XrSchedulerNextFrameList, "next frame list", kind, pos)
  /\ OnList(Collected, "main", kind, pos)
OnChains(kind, pos) ==
  /\ \A t \in Threads : ThreadNext[t] # None /\ ~At(t, "clear") =>
       kind[ThreadNext[t]] = "chain" /\ pos[ThreadNext[t]] = t
  /\ \A w \in Work : kind[w] = "chain" =>
       pos[w] \in Threads /\ ThreadNext[pos[w]] = w /\ ~At(pos[w], "clear")
Linking(v) == \E t \in Threads : thread[t].linking = v
OnLinks(kind, pos) ==
  /\ \A v \in Work : WorkNext[v] # None /\ ~Linking(v) =>
       kind[WorkNext[v]] = "link" /\ pos[WorkNext[v]] = v
  /\ \A w \in Work : kind[w] = "link" =>
       pos[w] \in Work /\ WorkNext[pos[w]] = w /\ ~Linking(pos[w])
AsNext(kind, pos) ==
  /\ \A t \in Threads : thread[t].next # None =>
       kind[thread[t].next] = "next" /\ pos[thread[t].next] = t
  /\ \A w \in Work : kind[w] = "next" => pos[w] \in Threads /\ thread[pos[w]].next = w
\* A thread runs its work until it has put it in a list, and holds what it enters.
InHand(t, w) == w \in {Mine(t), thread[t].linking} /\ thread[t].pc \notin {"post", "late"}
Running(kind, pos) ==
  /\ \A t \in Threads, w \in Work : InHand(t, w) => kind[w] = "running" /\ pos[w] = t
  /\ \A w \in Work : kind[w] = "running" => pos[w] \in Threads /\ InHand(pos[w], w)

\* Those to be run are in a place.
Present(kind) ==
  /\ \A w \in Work : kind[w] = "none" <=> ~(w \in Cpus \/ Busy[w])
  /\ \A d \in Devices : Enqueued[d] => Busy[d]

\* Only work of a chain has a link.
LinkedOnly(kind, pos) ==
  \A v \in Work : WorkNext[v] # None =>
    \/ kind[v] \in {"chain", "link", "next"}
    \/ kind[v] = "running" /\ (thread[pos[v]].pc \in {"clear", "dequeued", "unlink"}
                               \/ thread[pos[v]].linking = v)

\* owner says whose chain each schedulable was last in: for a processor that is the
\* thread it prefers.
Owned(kind, pos, owner) ==
  /\ \A w \in Work : kind[w] \in {"chain", "next", "running"} => owner[w] = pos[w]
  /\ \A v \in Work : WorkNext[v] # None => owner[WorkNext[v]] = owner[v]
  /\ \A c \in Cpus : owner[c] = PreferredThread[c]

\* A port that no thread took from the work list yet has no timeslice to go on with.
Unpopped(kind) ==
  /\ \A d \in Ports : PreferredThread[d] = None /\ kind[d] \notin {"main", "work list"} =>
       Timeslice[d] <= 0
  /\ \A t \in Threads : At(t, "late") /\ Mine(t) \in Ports /\ PreferredThread[Mine(t)] = None =>
       thread[t].timeslice <= 0

\* The maps, and the invariant with such maps.
Kinds == {"none", "work list", "next frame list", "main", "chain", "link", "next", "running"}
Maps(kind, pos, owner) ==
  /\ kind \in [Work -> Kinds]
  /\ DOMAIN pos = Work /\ DOMAIN owner = Work

Placed(kind, pos, owner) ==
  /\ Maps(kind, pos, owner) /\ Typed /\ MainOK /\ \A t \in Threads : ThreadOK(t)
  /\ OnLists(kind, pos) /\ OnChains(kind, pos) /\ OnLinks(kind, pos)
  /\ AsNext(kind, pos) /\ Running(kind, pos)
  /\ Present(kind) /\ LinkedOnly(kind, pos) /\ Owned(kind, pos, owner) /\ Unpopped(kind)
-----------------------------------------------------------------------------
\* Work that is not added to a list or taken from it, and a list that is as it was.
LEMMA ListKept ==
  ASSUME NEW list \in Seq(Work), NEW name, NEW kind, NEW pos, NEW k, NEW p,
         OnList(list, name, kind, pos),
         \A w \in Work : (kind[w] = name \/ k[w] = name) => k[w] = kind[w] /\ p[w] = pos[w]
  PROVE  OnList(list, name, k, p)
<1>1. \A i \in 1 .. Len(list) : list[i] \in Work
  OBVIOUS
<1> QED BY <1>1 DEF OnList

\* InsertTailList.
LEMMA ListAppend ==
  ASSUME NEW list \in Seq(Work), NEW name, NEW kind, NEW pos, NEW k, NEW p, NEW w \in Work,
         OnList(list, name, kind, pos), kind[w] # name,
         k[w] = name, p[w] = Len(list) + 1,
         \A v \in Work \ {w} : (kind[v] = name \/ k[v] = name) => k[v] = kind[v] /\ p[v] = pos[v]
  PROVE  Append(list, w) \in Seq(Work) /\ OnList(Append(list, w), name, k, p)
<1>1. /\ Append(list, w) \in Seq(Work) /\ Len(Append(list, w)) = Len(list) + 1
      /\ Len(list) \in Nat
      /\ Append(list, w)[Len(list) + 1] = w
      /\ \A i \in 1 .. Len(list) : Append(list, w)[i] = list[i] /\ list[i] \in Work
  OBVIOUS
<1>2. ASSUME NEW i \in 1 .. Len(list) + 1
      PROVE  k[Append(list, w)[i]] = name /\ p[Append(list, w)[i]] = i
  <2>1. CASE i = Len(list) + 1
    BY <1>1, <2>1
  <2>2. CASE i \in 1 .. Len(list)
    <3>1. kind[list[i]] = name /\ pos[list[i]] = i
      BY <2>2 DEF OnList
    <3>2. list[i] \in Work \ {w}
      BY <1>1, <2>2, <3>1
    <3> QED BY <1>1, <2>2, <3>1, <3>2
  <2> QED BY <1>1, <2>1, <2>2
<1>3. ASSUME NEW v \in Work, k[v] = name
      PROVE  p[v] \in 1 .. Len(list) + 1 /\ Append(list, w)[p[v]] = v
  <2>1. CASE v = w
    BY <1>1, <2>1
  <2>2. CASE v # w
    <3>1. pos[v] \in 1 .. Len(list) /\ list[pos[v]] = v /\ p[v] = pos[v]
      BY <1>3, <2>2 DEF OnList
    <3> QED BY <1>1, <3>1
  <2> QED BY <2>1, <2>2
<1> QED BY <1>1, <1>2, <1>3 DEF OnList

\* InsertHeadList.
LEMMA ListPrepend ==
  ASSUME NEW list \in Seq(Work), NEW name, NEW kind, NEW pos, NEW k, NEW p, NEW w \in Work,
         OnList(list, name, kind, pos), kind[w] # name,
         k[w] = name, p[w] = 1,
         \A v \in Work \ {w} :
           /\ (kind[v] = name \/ k[v] = name) => k[v] = kind[v]
           /\ kind[v] = name => p[v] = pos[v] + 1
  PROVE  <<w>> \o list \in Seq(Work) /\ OnList(<<w>> \o list, name, k, p)
<1> DEFINE long == <<w>> \o list
<1>1. /\ long \in Seq(Work) /\ Len(long) = Len(list) + 1
      /\ Len(list) \in Nat
      /\ long[1] = w
      /\ \A i \in 1 .. Len(list) : long[i + 1] = list[i] /\ list[i] \in Work
  OBVIOUS
<1> HIDE DEF long
<1>2. ASSUME NEW i \in 1 .. Len(list) + 1
      PROVE  k[long[i]] = name /\ p[long[i]] = i
  <2>1. CASE i = 1
    BY <1>1, <2>1
  <2>2. CASE i # 1
    <3>0. PICK j \in 1 .. Len(list) : i = j + 1
      <4>1. i - 1 \in 1 .. Len(list) /\ i = (i - 1) + 1
        BY <1>1, <2>2
      <4> QED BY <4>1
    <3>1. kind[list[j]] = name /\ pos[list[j]] = j
      BY DEF OnList
    <3>2. list[j] \in Work \ {w}
      BY <1>1, <3>1
    <3> QED BY <1>1, <3>0, <3>1, <3>2
  <2> QED BY <2>1, <2>2
<1>3. ASSUME NEW v \in Work, k[v] = name
      PROVE  p[v] \in 1 .. Len(list) + 1 /\ long[p[v]] = v
  <2>1. CASE v = w
    BY <1>1, <2>1
  <2>2. CASE v # w
    <3>1. pos[v] \in 1 .. Len(list) /\ list[pos[v]] = v /\ p[v] = pos[v] + 1
      BY <1>3, <2>2 DEF OnList
    <3> QED BY <1>1, <3>1
  <2> QED BY <2>1, <2>2
<1> QED BY <1>1, <1>2, <1>3 DEF OnList, long

\* RemoveHeadList.
LEMMA ListRemove ==
  ASSUME NEW list \in Seq(Work), list # <<>>, NEW name, NEW kind, NEW pos, NEW k, NEW p,
         OnList(list, name, kind, pos),
         k[Head(list)] # name,
         \A v \in Work \ {Head(list)} :
           /\ (kind[v] = name \/ k[v] = name) => k[v] = kind[v]
           /\ kind[v] = name => p[v] = pos[v] - 1
  PROVE  /\ Head(list) \in Work /\ kind[Head(list)] = name
         /\ Tail(list) \in Seq(Work) /\ OnList(Tail(list), name, k, p)
<1> DEFINE rest == Tail(list)   w == Head(list)
<1>1. /\ rest \in Seq(Work) /\ Len(list) = Len(rest) + 1
      /\ Len(rest) \in Nat
      /\ list[1] = w
      /\ \A i \in 1 .. Len(rest) : rest[i] = list[i + 1] /\ list[i + 1] \in Work
      /\ w \in Work
  OBVIOUS
<1> HIDE DEF rest, w
<1>2. kind[w] = name /\ pos[w] = 1
  BY <1>1 DEF OnList
<1>3. ASSUME NEW i \in 1 .. Len(rest)
      PROVE  k[rest[i]] = name /\ p[rest[i]] = i
  <2>1. i + 1 \in 1 .. Len(list) /\ i + 1 # 1
    BY <1>1
  <2>2. kind[list[i + 1]] = name /\ pos[list[i + 1]] = i + 1
    BY <2>1 DEF OnList
  <2>3. list[i + 1] \in Work \ {w}
    BY <1>1, <1>2, <2>1, <2>2
  <2>4. k[list[i + 1]] = name /\ p[list[i + 1]] = (i + 1) - 1
    BY <2>2, <2>3 DEF w
  <2> QED BY <1>1, <2>4
<1>4. ASSUME NEW v \in Work, k[v] = name
      PROVE  p[v] \in 1 .. Len(rest) /\ rest[p[v]] = v
  <2>1. v # w
    BY <1>4 DEF w
  <2>2. pos[v] \in 1 .. Len(list) /\ list[pos[v]] = v /\ p[v] = pos[v] - 1
    BY <1>4, <2>1 DEF OnList, w
  <2>3. pos[v] # 1
    BY <1>1, <2>1, <2>2
  <2>4. p[v] \in 1 .. Len(rest) /\ pos[v] = p[v] + 1
    BY <1>1, <2>2, <2>3
  <2> QED BY <1>1, <2>2, <2>4
<1> QED BY <1>1, <1>2, <1>3, <1>4 DEF OnList, rest, w

-----------------------------------------------------------------------------
(* The steps of a host thread.                                             *)

\* The null pointer is nobody.
LEMMA NoneApart == None \notin Work /\ None \notin Threads
BY WorkAssumption DEF Work, Devices

\* A step of t leaves the others as they are: what they rely on is theirs, or in hand.
LEMMA OtherThreads ==
  ASSUME NEW kind, NEW pos, NEW owner, Placed(kind, pos, owner), NEW t \in Threads,
         \A u \in Threads \ {t} : thread'[u] = thread[u] /\ ThreadNext'[u] = ThreadNext[u],
         \A w \in Work : kind[w] = "running" /\ pos[w] # t =>
           /\ WorkNext'[w] = WorkNext[w] /\ PreferredThread'[w] = PreferredThread[w]
           /\ Enqueued'[w] => Enqueued[w]
  PROVE  \A u \in Threads \ {t} : ThreadOK(u)'
<1> SUFFICES ASSUME NEW u \in Threads \ {t} PROVE ThreadOK(u)'
  OBVIOUS
<1>1. ThreadOK(u) /\ thread[u].work \in Somewhere /\ thread[u].linking \in Somewhere
  BY DEF Placed, Typed
<1>2. \A w \in Work : InHand(u, w) => kind[w] = "running" /\ pos[w] # t
  BY DEF Placed, Running
<1>3. thread[u].pc \in {"dequeued", "unlink", "func", "link"} => thread[u].work \in Work /\ InHand(u, thread[u].work)
  BY <1>1 DEF ThreadOK, InHand, Mine
<1>4. thread[u].pc = "link" => thread[u].linking \in Work /\ InHand(u, thread[u].linking)
  BY <1>1 DEF ThreadOK, InHand, Mine, Somewhere
<1> QED BY <1>1, <1>2, <1>3, <1>4 DEF ThreadOK

\* What main has collected is a list.
LEMMA CollectedList ==
  ASSUME Typed, MainOK
  PROVE  Collected \in Seq(Work)
<1>1. main.frame \in Seq(Work) /\ main.todo \in Seq(Work) /\ main.pc \in MainLabels
  BY DEF Typed
<1>2. main.todo # <<>> => Tail(main.todo) \in Seq(Work)
  BY <1>1
<1> QED BY <1>1, <1>2 DEF Collected, MainOK, MainLabels

\* The lists keep their places when nothing is added or taken.
LEMMA KeepLists ==
  ASSUME NEW kind, NEW pos, NEW owner, NEW k, NEW p, Placed(kind, pos, owner),
         UNCHANGED <<XrSchedulerWorkList, XrSchedulerNextFrameList, main>>,
         \A w \in Work :
           {kind[w], k[w]} \cap {"work list", "next frame list", "main"} # {} =>
             k[w] = kind[w] /\ p[w] = pos[w]
  PROVE  OnLists(k, p)'
<1>1. /\ OnLists(kind, pos) /\ Collected \in Seq(Work)
      /\ XrSchedulerWorkList \in Seq(Work) /\ XrSchedulerNextFrameList \in Seq(Work)
  BY CollectedList DEF Placed, Typed
<1>2. OnLists(k, p)
  BY SMTT(30), ZenonT(40), <1>1, ListKept DEF OnLists
<1> QED BY <1>2 DEF OnLists, OnList, Collected

\* Between two steps, those in a place of one kind stay where they are.
Alike(kind, pos, k, p, name) ==
  \A w \in Work : name \in {kind[w], k[w]} => k[w] = kind[w] /\ p[w] = pos[w]

\* Only thread t has moved.
Only(t) == \A u \in Threads \ {t} : thread'[u] = thread[u]

\* The chains, the links and what threads have as next, when they are left alone.
LEMMA KeepChains ==
  ASSUME NEW kind, NEW pos, NEW k, NEW p, OnChains(kind, pos), NEW t \in Threads, Only(t),
         At(t, "clear")' <=> At(t, "clear"), UNCHANGED ThreadNext, Typed,
         Alike(kind, pos, k, p, "chain")
  PROVE  OnChains(k, p)'
<1>1. \A u \in Threads : At(u, "clear")' <=> At(u, "clear")
  BY DEF Only, At
<1>2. \A u \in Threads : ThreadNext[u] \in Somewhere
  BY DEF Typed
<1> QED BY <1>1, <1>2 DEF OnChains, Alike, Somewhere

\* A step that does not touch a link leaves the linked work where it is.
LEMMA KeepLinks ==
  ASSUME NEW kind, NEW pos, NEW k, NEW p, OnLinks(kind, pos), NEW t \in Threads, Only(t),
         thread'[t].linking = thread[t].linking, UNCHANGED WorkNext, Typed,
         Alike(kind, pos, k, p, "link")
  PROVE  OnLinks(k, p)'
<1>1. \A v : Linking(v)' <=> Linking(v)
  BY DEF Only, Linking
<1>2. \A v \in Work : WorkNext[v] \in Somewhere
  BY DEF Typed
<1> QED BY <1>1, <1>2 DEF OnLinks, Alike, Somewhere

\* A step that does not touch Next leaves the next of each chain where it is.
LEMMA KeepNext ==
  ASSUME NEW kind, NEW pos, NEW k, NEW p, AsNext(kind, pos), NEW t \in Threads, Only(t),
         thread'[t].next = thread[t].next, Typed, Alike(kind, pos, k, p, "next")
  PROVE  AsNext(k, p)'
<1>1. \A u \in Threads : thread'[u].next = thread[u].next
  BY DEF Only
<1>2. \A u \in Threads : thread[u].next \in Somewhere
  BY DEF Typed
<1> QED BY <1>1, <1>2 DEF AsNext, Alike, Somewhere

\* A step after which t has the same in hand leaves the running work where it is.
LEMMA KeepRunning ==
  ASSUME NEW kind, NEW pos, NEW k, NEW p, Running(kind, pos), NEW t \in Threads, Only(t),
         \A w \in Work : InHand(t, w)' <=> InHand(t, w), Alike(kind, pos, k, p, "running")
  PROVE  Running(k, p)'
<1>1. \A u \in Threads, w \in Work : InHand(u, w)' <=> InHand(u, w)
  <2>1. \A u \in Threads \ {t}, w \in Work : InHand(u, w)' <=> InHand(u, w)
    BY DEF Only, InHand, Mine
  <2> QED BY <2>1
<1> QED BY <1>1 DEF Running, Alike

\* One schedulable comes in t's hand.
LEMMA TakenInHand ==
  ASSUME NEW kind, NEW pos, NEW k, NEW p, Running(kind, pos), NEW t \in Threads, Only(t),
         NEW w \in Work,
         \A v \in Work : InHand(t, v)' <=> InHand(t, v) \/ v = w,
         \A v \in Work \ {w} : "running" \in {kind[v], k[v]} => k[v] = kind[v] /\ p[v] = pos[v],
         kind[w] # "running", k[w] = "running", p[w] = t
  PROVE  Running(k, p)'
<1>1. \A u \in Threads \ {t}, v \in Work : InHand(u, v)' <=> InHand(u, v)
  BY DEF Only, InHand, Mine
<1> QED BY <1>1 DEF Running

\* One schedulable leaves t's hand.
LEMMA PutOutOfHand ==
  ASSUME NEW kind, NEW pos, NEW k, NEW p, Running(kind, pos), NEW t \in Threads, Only(t),
         NEW w \in Work,
         \A v \in Work : InHand(t, v)' <=> InHand(t, v) /\ v # w,
         \A v \in Work \ {w} : "running" \in {kind[v], k[v]} => k[v] = kind[v] /\ p[v] = pos[v],
         InHand(t, w), k[w] # "running"
  PROVE  Running(k, p)'
<1>1. \A u \in Threads \ {t}, v \in Work : InHand(u, v)' <=> InHand(u, v)
  BY DEF Only, InHand, Mine
<1>2. kind[w] = "running" /\ pos[w] = t
  BY DEF Running
<1> QED BY <1>1, <1>2 DEF Running

\* Links are still of chains only, whatever else moves.
LEMMA KeepLinkedOnly ==
  ASSUME NEW kind, NEW pos, NEW k, NEW p, LinkedOnly(kind, pos), Running(kind, pos),
         NEW t \in Threads, Only(t),
         \A v \in Work : WorkNext'[v] \in {WorkNext[v], None},
         \A v \in Work : WorkNext'[v] # None =>
           \/ k[v] = kind[v] /\ p[v] = pos[v]
           \/ k[v] \in {"chain", "link", "next"}
           \/ k[v] = "running" /\ (\/ thread'[p[v]].pc \in {"clear", "dequeued", "unlink"}
                                   \/ thread'[p[v]].linking = v),
         thread[t].pc \in {"clear", "dequeued", "unlink"} =>
           thread'[t].pc \in {"clear", "dequeued", "unlink"} \/ WorkNext'[Mine(t)] = None,
         thread[t].linking \in {None, thread'[t].linking}, Typed, ThreadOK(t)
  PROVE  LinkedOnly(k, p)'
<1> SUFFICES ASSUME NEW v \in Work, WorkNext'[v] # None, k[v] = kind[v], p[v] = pos[v],
                    kind[v] = "running"
             PROVE  \/ thread'[p[v]].pc \in {"clear", "dequeued", "unlink"}
                    \/ thread'[p[v]].linking = v
  BY DEF LinkedOnly
<1>1. \/ thread[pos[v]].pc \in {"clear", "dequeued", "unlink"}
      \/ thread[pos[v]].linking = v
  BY DEF LinkedOnly
<1>2. pos[v] \in Threads /\ InHand(pos[v], v) /\ v # None
  BY NoneApart DEF Running
<1>3. CASE pos[v] # t
  BY <1>1, <1>2, <1>3 DEF Only
<1>4. CASE pos[v] = t
  BY <1>1, <1>2, <1>4 DEF InHand, Mine, ThreadOK
<1> QED BY <1>3, <1>4

\* Nobody else finds a change in what it is about to write back.
LEMMA KeepUnpopped ==
  ASSUME NEW kind, NEW k, Unpopped(kind), NEW t \in Threads, Only(t),
         UNCHANGED PreferredThread,
         \A d \in Work : k[d] \in {"main", "work list"} <=> kind[d] \in {"main", "work list"},
         \A d \in Ports : Timeslice'[d] = Timeslice[d],
         At(t, "late")' => At(t, "late") /\ thread'[t] = thread[t]
  PROVE  Unpopped(k)'
<1>1. \A u \in Threads : At(u, "late")' => At(u, "late") /\ thread'[u] = thread[u]
  BY DEF Only, At
<1>2. Ports \subseteq Work
  BY DEF Work, Devices
<1> QED BY <1>1, <1>2 DEF Unpopped, At, Mine

\* The conjuncts put together.
LEMMA AllPlaced ==
  ASSUME NEW k, NEW p, NEW o, NEW t \in Threads, Maps(k, p, o), Typed', MainOK',
         ThreadOK(t)', \A u \in Threads \ {t} : ThreadOK(u)',
         OnLists(k, p)', OnChains(k, p)', OnLinks(k, p)', AsNext(k, p)', Running(k, p)',
         Present(k)', LinkedOnly(k, p)', Owned(k, p, o)', Unpopped(k)'
  PROVE  \E kk, pp, oo : Placed(kk, pp, oo)'
<1>1. Maps(k, p, o)'
  BY DEF Maps
<1>2. Placed(k, p, o)'
  BY <1>1 DEF Placed
<1> QED BY <1>2

\* work = thread->Next: the first of the chain is in hand.
LEMMA FetchPlaced ==
  ASSUME NEW kind, NEW pos, NEW owner, Placed(kind, pos, owner), NEW t \in Threads,
         FetchChain(t)
  PROVE  \E k, p, o : Placed(k, p, o)'
<1> DEFINE w == ThreadNext[t]
<1>0. PICK k : k = [v \in Work |-> IF v = w THEN "running" ELSE kind[v]]
  OBVIOUS
<1>1. /\ Typed /\ ThreadOK(t) /\ Maps(kind, pos, owner) /\ w \in Somewhere
      /\ thread[t].pc = "fetch" /\ thread[t].work = None /\ thread[t].next = None
      /\ thread[t].linking = None
  BY DEF Placed, FetchChain, At, ThreadOK, Typed
<1>2. /\ UNCHANGED <<lists, chains, Enqueued, slices, devices, main>>
      /\ UNCHANGED <<ThreadNext, WorkNext, PreferredThread, Timeslice, Busy>>
      /\ thread' = [thread EXCEPT ![t].pc = "clear", ![t].work = ThreadNext[t]]
  BY DEF FetchChain, chains, slices, devices
<1>3. /\ Typed' /\ Only(t)
      /\ thread'[t].pc = "clear" /\ thread'[t].work = w
      /\ thread'[t].next = None /\ thread'[t].linking = None
  BY ZenonT(40), <1>1, <1>2 DEF Typed, Labels, lists, Only
<1>4. /\ \A v \in Work : k[v] = IF v = w THEN "running" ELSE kind[v]
      /\ \A v \in Work : v = w => kind[v] = "chain" /\ pos[v] = t
  BY <1>0, <1>1, NoneApart DEF Placed, OnChains, At
<1>p. /\ OnChains(kind, pos) /\ OnLinks(kind, pos) /\ AsNext(kind, pos)
      /\ Running(kind, pos) /\ LinkedOnly(kind, pos) /\ Unpopped(kind)
  BY DEF Placed
<1>a. Alike(kind, pos, k, pos, "link") /\ Alike(kind, pos, k, pos, "next")
  BY <1>4 DEF Alike
<1>5. MainOK' /\ ThreadOK(t)' /\ \A u \in Threads \ {t} : ThreadOK(u)'
  <2>1. MainOK'
    BY <1>2 DEF Placed, MainOK
  <2>2. ThreadOK(t)'
    <3>1. thread'[t].work = ThreadNext'[t]
      BY <1>2, <1>3
    <3> QED BY <1>3, <3>1 DEF ThreadOK
  <2>3. \A u \in Threads \ {t} : ThreadOK(u)'
    <3>1. \A u \in Threads \ {t} : thread'[u] = thread[u] /\ ThreadNext'[u] = ThreadNext[u]
      BY <1>2, <1>3 DEF Only
    <3> QED BY <1>2, <3>1, OtherThreads
  <2> QED BY <2>1, <2>2, <2>3
<1>6. OnLists(k, pos)'
  BY <1>2, <1>4, KeepLists DEF lists
<1>7. OnChains(k, pos)'
  <2>1. \A u \in Threads \ {t} : At(u, "clear")' <=> At(u, "clear")
    BY <1>3 DEF Only, At
  <2>2. At(t, "clear")'
    BY <1>3 DEF At
  <2>3. \A u \in Threads : ThreadNext[u] \in Somewhere /\ ThreadNext'[u] = ThreadNext[u]
    BY <1>1, <1>2 DEF Typed
  <2>4. ASSUME NEW u \in Threads, ThreadNext'[u] # None, ~At(u, "clear")'
        PROVE  k[ThreadNext'[u]] = "chain" /\ pos[ThreadNext'[u]] = u
    <3>1. u # t /\ kind[ThreadNext[u]] = "chain" /\ pos[ThreadNext[u]] = u
      BY <1>p, <2>1, <2>2, <2>3, <2>4 DEF OnChains
    <3> QED BY <1>4, <2>3, <2>4, <3>1 DEF Somewhere
  <2>5. ASSUME NEW v \in Work, k[v] = "chain"
        PROVE  pos[v] \in Threads /\ ThreadNext'[pos[v]] = v /\ ~At(pos[v], "clear")'
    <3>1. v # w /\ kind[v] = "chain"
      BY <1>4, <2>5
    <3>2. pos[v] \in Threads /\ ThreadNext[pos[v]] = v /\ ~At(pos[v], "clear")
      BY <1>p, <3>1 DEF OnChains
    <3> QED BY <1>2, <2>1, <3>1, <3>2
  <2> QED BY <2>4, <2>5 DEF OnChains
<1>8. OnLinks(k, pos)' /\ AsNext(k, pos)'
  BY <1>1, <1>2, <1>3, <1>p, <1>a, KeepLinks, KeepNext
<1>9. Running(k, pos)'
  BY <1>1, <1>3, <1>4, <1>p, NoneApart DEF Running, InHand, Mine, Somewhere, Only
<1>10. Present(k)'
  BY <1>2, <1>4 DEF Placed, Present
<1>11. LinkedOnly(k, pos)'
  <2>1. \A v \in Work : k[v] = kind[v] \/ (k[v] = "running" /\ thread'[pos[v]].pc = "clear")
    BY <1>3, <1>4
  <2>2. \A v \in Work : WorkNext'[v] \in {WorkNext[v], None}
    BY <1>2
  <2>3. thread[t].pc \notin {"clear", "dequeued", "unlink"} /\ thread[t].linking = None
    BY <1>1
  <2> QED BY <1>1, <1>3, <1>p, <2>1, <2>2, <2>3, KeepLinkedOnly
<1>12. Owned(k, pos, owner)'
  BY <1>2, <1>4 DEF Placed, Owned
<1>13. Unpopped(k)'
  <2>1. ~At(t, "late")'
    BY <1>3 DEF At
  <2>2. \A d \in Work : k[d] \in {"main", "work list"} <=> kind[d] \in {"main", "work list"}
    BY <1>4
  <2> QED BY <1>2, <1>3, <1>p, <2>1, <2>2, KeepUnpopped
<1> QED BY <1>0, <1>1, <1>3, <1>5, <1>6, <1>7, <1>8, <1>9, <1>10, <1>11, <1>12, <1>13, AllPlaced
     DEF Maps, Kinds

\* What main is about to enter in the work list is in its hands only.
LEMMA MainHead ==
  ASSUME NEW kind, NEW pos, NEW owner, Placed(kind, pos, owner),
         main.pc \in {"enqueue", "any", "insert"}
  PROVE  Head(main.todo) \in Work /\ kind[Head(main.todo)] = "main" /\ main.todo # <<>>
<1>1. main.todo \in Seq(Work) /\ main.todo # <<>>
  BY DEF Placed, Typed, MainOK
<1>2. OnList(main.todo, "main", kind, pos)
  BY DEF Placed, OnLists, Collected
<1>3. 1 \in 1 .. Len(main.todo) /\ Head(main.todo) = main.todo[1] /\ Head(main.todo) \in Work
  BY <1>1
<1> QED BY <1>1, <1>2, <1>3 DEF OnList

\* What is about to be entered anywhere is in hand: marking it as enqueued, or not any
\* more, is seen by nobody else.
LEMMA KeepMarks ==
  ASSUME NEW kind, NEW pos, NEW owner, Placed(kind, pos, owner), NEW t \in Threads, Only(t),
         UNCHANGED main,
         \A u \in Threads \ {t} : ThreadNext'[u] = ThreadNext[u],
         \A w \in Work : kind[w] = "running" /\ pos[w] # t =>
           WorkNext'[w] = WorkNext[w] /\ PreferredThread'[w] = PreferredThread[w],
         \A w \in Work : Enqueued'[w] =>
           Enqueued[w] \/ kind[w] = "none" \/ (kind[w] = "running" /\ pos[w] = t)
  PROVE  MainOK' /\ \A u \in Threads \ {t} : ThreadOK(u)'
<1>1. MainOK'
  <2>1. MainOK
    BY DEF Placed
  <2>2. main.pc = "any" => Head(main.todo) \in Work /\ kind[Head(main.todo)] = "main"
    BY MainHead
  <2> QED BY <2>1, <2>2 DEF MainOK
<1>2. \A u \in Threads \ {t} : ThreadOK(u)'
  BY OtherThreads DEF Only
<1> QED BY <1>1, <1>2

\* A step after which everything is where it was, with the chains to be looked at.
LEMMA Steady ==
  ASSUME NEW kind, NEW pos, NEW owner, Placed(kind, pos, owner), NEW t \in Threads, Only(t),
         UNCHANGED <<XrSchedulerWorkList, XrSchedulerNextFrameList, main, WorkNext,
                     PreferredThread, Busy>>,
         \A d \in Ports : Timeslice'[d] = Timeslice[d],
         Typed', ThreadOK(t)', OnChains(kind, pos)',
         \A u \in Threads \ {t} : ThreadNext'[u] = ThreadNext[u],
         thread'[t].next = thread[t].next, thread'[t].linking = thread[t].linking,
         thread'[t].pc # "late",
         \A w \in Work : InHand(t, w)' <=> InHand(t, w),
         \A w \in Work : Enqueued'[w] =>
           Enqueued[w] \/ (kind[w] = "running" /\ pos[w] = t),
         thread[t].pc \in {"clear", "dequeued", "unlink"} =>
           thread'[t].pc \in {"clear", "dequeued", "unlink"} \/ Mine(t) = None
  PROVE  \E k, p, o : Placed(k, p, o)'
<1>1. /\ OnLinks(kind, pos) /\ AsNext(kind, pos) /\ Running(kind, pos)
      /\ LinkedOnly(kind, pos) /\ Unpopped(kind) /\ Typed /\ ThreadOK(t)
      /\ Present(kind) /\ Owned(kind, pos, owner) /\ Maps(kind, pos, owner)
  BY DEF Placed
<1>2. MainOK' /\ \A u \in Threads \ {t} : ThreadOK(u)'
  BY KeepMarks
<1>3. OnLists(kind, pos)'
  BY KeepLists
<1>4. OnLinks(kind, pos)' /\ AsNext(kind, pos)' /\ Running(kind, pos)'
  BY <1>1, KeepLinks, KeepNext, KeepRunning DEF Alike
<1>5. Present(kind)'
  <2>1. ASSUME NEW d \in Devices, Enqueued'[d] PROVE Busy[d]
    <3>1. d \in Work /\ d \notin Cpus
      BY WorkAssumption DEF Work
    <3>2. Enqueued[d] \/ kind[d] # "none"
      BY <2>1, <3>1
    <3> QED BY <1>1, <3>1, <3>2 DEF Present
  <2> QED BY <1>1, <2>1 DEF Present
<1>6. LinkedOnly(kind, pos)'
  <2>1. thread[t].pc \in {"clear", "dequeued", "unlink"} =>
           thread'[t].pc \in {"clear", "dequeued", "unlink"} \/ Mine(t) = None
    OBVIOUS
  <2> SUFFICES ASSUME NEW v \in Work, WorkNext[v] # None, kind[v] = "running"
               PROVE  \/ thread'[pos[v]].pc \in {"clear", "dequeued", "unlink"}
                      \/ thread'[pos[v]].linking = v
    BY <1>1 DEF LinkedOnly
  <2>2. \/ thread[pos[v]].pc \in {"clear", "dequeued", "unlink"}
        \/ thread[pos[v]].linking = v
    BY <1>1 DEF LinkedOnly
  <2>3. pos[v] \in Threads /\ InHand(pos[v], v) /\ v # None
    BY <1>1, NoneApart DEF Running
  <2>4. CASE pos[v] # t
    BY <2>2, <2>3, <2>4 DEF Only
  <2>5. CASE pos[v] = t
    BY <1>1, <2>1, <2>2, <2>3, <2>5 DEF InHand, Mine, ThreadOK
  <2> QED BY <2>4, <2>5
<1>7. Owned(kind, pos, owner)'
  BY <1>1 DEF Owned
<1>8. Unpopped(kind)'
  BY <1>1, KeepUnpopped DEF At
<1> QED BY <1>1, <1>2, <1>3, <1>4, <1>5, <1>6, <1>7, <1>8, AllPlaced

\* thread->Next = 0, with its work in hand.
LEMMA ClearPlaced ==
  ASSUME NEW kind, NEW pos, NEW owner, Placed(kind, pos, owner), NEW t \in Threads,
         ClearChain(t)
  PROVE  \E k, p, o : Placed(k, p, o)'
<1>1. /\ Typed /\ ThreadOK(t) /\ OnChains(kind, pos)
      /\ thread[t].pc = "clear" /\ thread[t].next = None /\ thread[t].linking = None
      /\ thread[t].work = ThreadNext[t] /\ ThreadNext[t] \in Somewhere
  BY DEF Placed, ClearChain, At, ThreadOK, Typed
<1>2. /\ UNCHANGED <<lists, main, WorkNext, PreferredThread, Busy, Timeslice, Enqueued>>
      /\ ThreadNext' = [ThreadNext EXCEPT ![t] = None]
      /\ thread' = [thread EXCEPT ![t].pc = IF Mine(t) = None THEN "wait" ELSE "dequeued"]
  BY DEF ClearChain, Goto, slices, devices
<1>3. /\ Typed' /\ Only(t)
      /\ thread'[t].pc = IF Mine(t) = None THEN "wait" ELSE "dequeued"
      /\ thread'[t].work = thread[t].work /\ thread'[t].next = None
      /\ thread'[t].linking = None
  BY SMTT(30), ZenonT(40), <1>1, <1>2, NoneApart DEF Typed, Labels, lists, Only, Somewhere
<1>4. ThreadOK(t)'
  BY <1>1, <1>3 DEF ThreadOK, Mine, Somewhere
<1>5. \A u \in Threads \ {t} : ThreadNext'[u] = ThreadNext[u]
  BY <1>1, <1>2 DEF Typed
<1>6. OnChains(kind, pos)'
  <2>1. ThreadNext'[t] = None
    BY <1>1, <1>2 DEF Typed
  <2>2. \A u \in Threads \ {t} : At(u, "clear")' <=> At(u, "clear")
    BY <1>3 DEF Only, At
  <2>3. \A w \in Work : kind[w] = "chain" => pos[w] \in Threads \ {t}
    BY <1>1 DEF OnChains, At
  <2> QED BY <1>1, <1>5, <2>1, <2>2, <2>3 DEF OnChains
<1>7. \A w \in Work : InHand(t, w)' <=> InHand(t, w)
  BY <1>1, <1>3 DEF InHand, Mine
<1> QED BY <1>1, <1>2, <1>3, <1>4, <1>5, <1>6, <1>7, Steady DEF lists

\* XrWaitSemaphore; work->Enqueued = 0; a processor marks itself enqueued.
LEMMA SteadySteps ==
  ASSUME NEW kind, NEW pos, NEW owner, Placed(kind, pos, owner), NEW t \in Threads,
         WaitForWork(t) \/ Dequeue(t) \/ CpuPaused(t)
  PROVE  \E k, p, o : Placed(k, p, o)'
<1>1. /\ Typed /\ ThreadOK(t) /\ OnChains(kind, pos) /\ Running(kind, pos)
      /\ thread[t].pc \in {"wait", "dequeued", "func"} /\ thread[t].linking = None
      /\ thread[t].pc # "wait" => Mine(t) \in Work /\ kind[Mine(t)] = "running" /\ pos[Mine(t)] = t
  <2>1. Typed /\ ThreadOK(t) /\ OnChains(kind, pos) /\ Running(kind, pos)
    BY DEF Placed
  <2>2. thread[t].pc \in {"wait", "dequeued", "func"}
    BY DEF WaitForWork, Dequeue, CpuPaused, Execute, At
  <2>3. thread[t].linking = None
    BY <2>1, <2>2 DEF ThreadOK
  <2>4. thread[t].pc # "wait" => Mine(t) \in Work /\ InHand(t, Mine(t))
    BY <2>1, <2>2 DEF ThreadOK, InHand, Mine
  <2> QED BY <2>1, <2>2, <2>3, <2>4 DEF Running
<1>2. /\ UNCHANGED <<XrSchedulerWorkList, XrSchedulerNextFrameList, main, WorkNext, ThreadNext,
                     PreferredThread, Busy>>
      /\ \/ thread[t].pc = "wait" /\ thread' = [thread EXCEPT ![t].pc = "pop"]
         \/ thread[t].pc = "dequeued" /\ thread' = [thread EXCEPT ![t].pc = "unlink"]
         \/ /\ thread[t].pc = "func" /\ thread' = [thread EXCEPT ![t].pc = "insert"]
            /\ Mine(t) \in Cpus
  BY DEF WaitForWork, Dequeue, CpuPaused, Execute, At, Goto, chains, slices, devices, lists
<1>3. /\ Only(t) /\ thread' \in [Threads -> [pc : Labels, work : Somewhere, next : Somewhere,
                                             timeslice : Int, linking : Somewhere]]
      /\ thread'[t].work = thread[t].work /\ thread'[t].next = thread[t].next
      /\ thread'[t].linking = None
      /\ <<thread[t].pc, thread'[t].pc>> \in
           {<<"wait", "pop">>, <<"dequeued", "unlink">>, <<"func", "insert">>}
  <2>1. PICK label \in {"pop", "unlink", "insert"} :
          /\ thread' = [thread EXCEPT ![t].pc = label]
          /\ <<thread[t].pc, label>> \in
               {<<"wait", "pop">>, <<"dequeued", "unlink">>, <<"func", "insert">>}
    BY <1>2
  <2>2. label \in Labels
    BY DEF Labels
  <2> QED BY SMTT(30), ZenonT(40), <1>1, <2>1, <2>2 DEF Typed, Only
<1>4. /\ Enqueued' \in [Work -> BOOLEAN] /\ Timeslice' \in [Work -> Int]
      /\ \A d \in Ports : Timeslice'[d] = Timeslice[d]
      /\ \A w \in Work : Enqueued'[w] => Enqueued[w] \/ (thread[t].pc = "func" /\ w = Mine(t))
      /\ thread[t].pc = "dequeued" => ~Enqueued'[Mine(t)]
  <2>0. /\ Enqueued \in [Work -> BOOLEAN] /\ Timeslice \in [Work -> Int]
        /\ Mine(t) \in Cpus => Mine(t) \notin Ports /\ Mine(t) \in Work
        /\ Ports \subseteq Work
    BY <1>1, WorkAssumption DEF Typed, Work, Devices
  <2>1. CASE WaitForWork(t)
    BY <2>0, <2>1 DEF WaitForWork, At, slices
  <2>2. CASE Dequeue(t)
    BY <1>1, <2>0, <2>2 DEF Dequeue, At, slices
  <2>3. CASE CpuPaused(t)
    <3>1. /\ thread[t].pc = "func" /\ Mine(t) \in Cpus
          /\ Enqueued' = [Enqueued EXCEPT ![Mine(t)] = TRUE]
          /\ \E rest \in Int : Timeslice' = [Timeslice EXCEPT ![Mine(t)] = rest]
      <4>1. \A rest \in 1 .. thread[t].timeslice : rest \in Int
        OBVIOUS
      <4> QED BY <2>3, <4>1 DEF CpuPaused, Execute, At
    <3> QED BY <2>0, <3>1
  <2> QED BY <2>1, <2>2, <2>3
<1>6. Typed' /\ ThreadOK(t)'
  <2>1. Typed'
    BY <1>1, <1>2, <1>3, <1>4 DEF Typed
  <2>2. ThreadOK(t)'
    BY <1>1, <1>2, <1>3, <1>4, NoneApart DEF ThreadOK, Mine, Labels
  <2> QED BY <2>1, <2>2
<1>7. OnChains(kind, pos)'
  <2>1. Alike(kind, pos, kind, pos, "chain") /\ (At(t, "clear")' <=> At(t, "clear"))
    BY <1>1, <1>3 DEF Alike, At
  <2> QED BY <1>1, <1>2, <1>3, <2>1, KeepChains
<1>8. \A w \in Work : InHand(t, w)' <=> InHand(t, w)
  BY <1>1, <1>3 DEF InHand, Mine
<1> QED
  <2>1. UNCHANGED <<XrSchedulerWorkList, XrSchedulerNextFrameList, main, WorkNext,
                     PreferredThread, Busy>>
    BY <1>2
  <2>2. \A u \in Threads \ {t} : ThreadNext'[u] = ThreadNext[u]
    BY <1>2
  <2>3. /\ thread'[t].next = thread[t].next /\ thread'[t].linking = thread[t].linking
        /\ thread'[t].pc # "late"
        /\ thread[t].pc \in {"clear", "dequeued", "unlink"} => thread'[t].pc = "unlink"
    BY <1>1, <1>3
  <2>4. \A w \in Work : Enqueued'[w] => Enqueued[w] \/ (kind[w] = "running" /\ pos[w] = t)
    BY <1>1, <1>4
  <2> QED BY <1>3, <1>4, <1>6, <1>7, <1>8, <2>1, <2>2, <2>3, <2>4, Steady

\* What has a link to it is in a chain: it is the first, or follows another.
LEMMA LinkTarget ==
  ASSUME NEW kind, NEW pos, NEW owner, Placed(kind, pos, owner), NEW v \in Work,
         WorkNext[v] # None
  PROVE  WorkNext[v] \in Work /\ kind[WorkNext[v]] \in {"chain", "link"}
<1>1. WorkNext[v] \in Work /\ OnLinks(kind, pos) /\ OnChains(kind, pos)
  BY DEF Placed, Typed, Somewhere
<1>2. CASE ~Linking(v)
  BY <1>1, <1>2 DEF OnLinks
<1>3. CASE Linking(v)
  <2>1. PICK u \in Threads : thread[u].linking = v
    BY <1>3 DEF Linking
  <2>2. ThreadOK(u) /\ v # None
    BY NoneApart DEF Placed
  <2>3. thread[u].pc = "link" /\ ThreadNext[u] = WorkNext[v]
    BY <2>1, <2>2 DEF ThreadOK
  <2> QED BY <1>1, <2>3 DEF OnChains, At
<1> QED BY <1>2, <1>3

\* XrPopSchedulerWork: the first of the work list is in hand.
LEMMA PopPlaced ==
  ASSUME NEW kind, NEW pos, NEW owner, Placed(kind, pos, owner), NEW t \in Threads,
         PopWork(t), XrSchedulerWorkList # <<>>
  PROVE  \E k, p, o : Placed(k, p, o)'
<1>w. PICK w : w = Head(XrSchedulerWorkList)
  OBVIOUS
<1>0. PICK k, p, o :
        /\ k = [v \in Work |-> IF v = w THEN "running" ELSE kind[v]]
        /\ p = [v \in Work |-> IF v = w THEN t
                               ELSE IF kind[v] = "work list" THEN pos[v] - 1 ELSE pos[v]]
        /\ o = [v \in Work |-> IF v = w THEN t ELSE owner[v]]
  OBVIOUS
<1>1. /\ Typed /\ ThreadOK(t) /\ Maps(kind, pos, owner) /\ MainOK
      /\ OnLists(kind, pos) /\ OnChains(kind, pos) /\ OnLinks(kind, pos) /\ AsNext(kind, pos)
      /\ Running(kind, pos) /\ Present(kind) /\ LinkedOnly(kind, pos)
      /\ Owned(kind, pos, owner) /\ Unpopped(kind)
  BY DEF Placed
<1>2. /\ thread[t].pc = "pop" /\ thread[t].work = None /\ thread[t].next = None
      /\ thread[t].linking = None
  BY <1>1 DEF PopWork, At, ThreadOK
<1>3. /\ XrSchedulerWorkList' = Tail(XrSchedulerWorkList)
      /\ PreferredThread' = [PreferredThread EXCEPT ![w] = t]
      /\ thread' = [thread EXCEPT ![t].pc = "dequeued", ![t].work = w]
      /\ UNCHANGED <<XrSchedulerNextFrameList, ThreadNext, WorkNext, Enqueued, Timeslice,
                     Busy, main>>
  BY <1>w DEF PopWork, slices, devices
<1>4. XrSchedulerWorkList \in Seq(Work) /\ w \in Work
  BY <1>1, <1>w DEF Typed
<1>5. \A v \in Work \ {w} :
        /\ k[v] = kind[v] /\ o[v] = owner[v]
        /\ p[v] = IF kind[v] = "work list" THEN pos[v] - 1 ELSE pos[v]
  BY <1>0
<1>6. k[w] = "running" /\ p[w] = t /\ o[w] = t
  BY <1>0, <1>4
<1>7. /\ kind[w] = "work list" /\ XrSchedulerWorkList' \in Seq(Work)
      /\ OnList(XrSchedulerWorkList, "work list", k, p)'
  <2>1. OnList(XrSchedulerWorkList, "work list", kind, pos)
    BY <1>1 DEF OnLists
  <2>2. /\ kind[w] = "work list" /\ Tail(XrSchedulerWorkList) \in Seq(Work)
        /\ OnList(Tail(XrSchedulerWorkList), "work list", k, p)
    <3>1. /\ k[Head(XrSchedulerWorkList)] # "work list"
          /\ \A v \in Work \ {Head(XrSchedulerWorkList)} :
               /\ (kind[v] = "work list" \/ k[v] = "work list") => k[v] = kind[v]
               /\ kind[v] = "work list" => p[v] = pos[v] - 1
      BY <1>5, <1>6, <1>w
    <3> QED BY ZenonT(40), <1>4, <1>w, <2>1, <3>1, ListRemove
  <2> QED BY <1>3, <2>2 DEF OnList
<1>8. /\ Only(t) /\ Typed'
      /\ thread'[t].pc = "dequeued" /\ thread'[t].work = w
      /\ thread'[t].next = None /\ thread'[t].linking = None
  BY SMTT(30), ZenonT(40), <1>1, <1>2, <1>3, <1>4, <1>7 DEF Typed, Labels, Only, Somewhere
<1>9. ThreadOK(t)'
  BY <1>4, <1>8, NoneApart DEF ThreadOK
<1>10. MainOK' /\ \A u \in Threads \ {t} : ThreadOK(u)'
  <2>1. \A v \in Work \ {w} : PreferredThread'[v] = PreferredThread[v]
    BY <1>1, <1>3 DEF Typed
  <2> QED BY <1>3, <1>7, <1>8, <2>1, KeepMarks
<1>11. OnLists(k, p)'
  <2>1. Collected \in Seq(Work) /\ XrSchedulerNextFrameList \in Seq(Work)
    BY <1>1, CollectedList DEF Typed
  <2>2. \A name \in {"main", "next frame list"} : \A v \in Work :
          (kind[v] = name \/ k[v] = name) => k[v] = kind[v] /\ p[v] = pos[v]
    BY <1>5, <1>6, <1>7
  <2>3. OnList(Collected, "main", k, p)
    BY <1>1, <2>1, <2>2, ListKept DEF OnLists
  <2>4. OnList(XrSchedulerNextFrameList, "next frame list", k, p)
    BY <1>1, <2>1, <2>2, ListKept DEF OnLists
  <2> QED BY <1>3, <1>7, <2>3, <2>4 DEF OnLists, OnList, Collected
<1>12. /\ Alike(kind, pos, k, p, "chain") /\ Alike(kind, pos, k, p, "link")
       /\ Alike(kind, pos, k, p, "next")
  BY <1>5, <1>6, <1>7 DEF Alike
<1>13. OnChains(k, p)' /\ OnLinks(k, p)' /\ AsNext(k, p)'
  <2>1. At(t, "clear")' <=> At(t, "clear")
    BY <1>2, <1>8 DEF At
  <2> QED BY <1>1, <1>2, <1>3, <1>8, <1>12, <2>1, KeepChains, KeepLinks, KeepNext
<1>14. Running(k, p)'
  <2>1. \A v \in Work : InHand(t, v)' <=> InHand(t, v) \/ v = w
    BY <1>2, <1>8, NoneApart DEF InHand, Mine
  <2>2. \A v \in Work \ {w} : "running" \in {kind[v], k[v]} => k[v] = kind[v] /\ p[v] = pos[v]
    BY <1>5
  <2>3. Running(kind, pos) /\ Only(t) /\ kind[w] # "running"
    BY <1>1, <1>7, <1>8
  <2> QED BY <1>4, <1>6, <2>1, <2>2, <2>3, TakenInHand
<1>15. Present(k)'
  BY <1>1, <1>3, <1>5, <1>6, <1>7 DEF Present
<1>16. LinkedOnly(k, p)'
  <2>1. WorkNext[w] = None
    BY <1>1, <1>4, <1>7 DEF LinkedOnly
  <2>2. \A v \in Work : WorkNext[v] # None => k[v] = kind[v] /\ p[v] = pos[v]
    BY <1>1, <1>5, <2>1 DEF LinkedOnly
  <2> QED BY <1>1, <1>2, <1>3, <1>8, <2>2, KeepLinkedOnly
<1>17. Owned(k, p, o)'
  <2>1. WorkNext[w] = None
    BY <1>1, <1>4, <1>7 DEF LinkedOnly
  <2>2. \A v \in Work : WorkNext[v] # None => WorkNext[v] \in Work \ {w}
    BY <1>7, LinkTarget
  <2>3. PreferredThread'[w] = t /\ \A v \in Work \ {w} : PreferredThread'[v] = PreferredThread[v]
    BY <1>1, <1>3, <1>4 DEF Typed
  <2> QED BY <1>1, <1>3, <1>5, <1>6, <1>7, <2>1, <2>2, <2>3 DEF Owned, Work
<1>18. Unpopped(k)'
  <2>1. PreferredThread'[w] # None /\ \A v \in Work \ {w} : PreferredThread'[v] = PreferredThread[v]
    BY <1>1, <1>3, <1>4, NoneApart DEF Typed
  <2>2. \A u \in Threads : At(u, "late")' => u # t /\ At(u, "late") /\ thread'[u] = thread[u]
    BY <1>8 DEF At, Only
  <2>3. Ports \subseteq Work
    BY DEF Work, Devices
  <2>4. \A d \in Ports : PreferredThread'[d] = None => d \in Work \ {w} /\ PreferredThread[d] = None
    BY <2>1, <2>3
  <2>5. \A d \in Ports : PreferredThread'[d] = None /\ k[d] \notin {"main", "work list"} =>
          Timeslice'[d] <= 0
    BY <1>1, <1>3, <1>5, <2>4 DEF Unpopped
  <2>6. ASSUME NEW u \in Threads, At(u, "late")', thread'[u].work \in Ports,
               PreferredThread'[thread'[u].work] = None
        PROVE  thread'[u].timeslice <= 0
    <3>1. At(u, "late") /\ thread'[u] = thread[u]
      BY <2>2, <2>6
    <3> QED BY <1>1, <2>4, <2>6, <3>1 DEF Unpopped, Mine
  <2> QED BY <2>5, <2>6 DEF Unpopped, Mine
<1>19. Maps(k, p, o)
  BY <1>0, <1>1 DEF Maps, Kinds
<1> QED BY <1>8, <1>9, <1>10, <1>11, <1>13, <1>14, <1>15, <1>16, <1>17, <1>18, <1>19, AllPlaced

\* next = work->Next: what followed the work in hand is kept by the thread.
LEMMA UnlinkPlaced ==
  ASSUME NEW kind, NEW pos, NEW owner, Placed(kind, pos, owner), NEW t \in Threads,
         Unlink(t)
  PROVE  \E k, p, o : Placed(k, p, o)'
<1>w. PICK w, n : w = Mine(t) /\ n = WorkNext[w]
  OBVIOUS
<1>0. PICK k, p :
        /\ k = [v \in Work |-> IF v = n THEN "next" ELSE kind[v]]
        /\ p = [v \in Work |-> IF v = n THEN t ELSE pos[v]]
  OBVIOUS
<1>1. /\ Typed /\ ThreadOK(t) /\ Maps(kind, pos, owner) /\ MainOK
      /\ OnLists(kind, pos) /\ OnChains(kind, pos) /\ OnLinks(kind, pos) /\ AsNext(kind, pos)
      /\ Running(kind, pos) /\ Present(kind) /\ LinkedOnly(kind, pos)
      /\ Owned(kind, pos, owner) /\ Unpopped(kind)
  BY DEF Placed
<1>2. /\ thread[t].pc = "unlink" /\ thread[t].work = w /\ thread[t].next = None
      /\ thread[t].linking = None /\ w \in Work /\ n \in Somewhere
  BY <1>1, <1>w DEF Unlink, At, ThreadOK, Mine, Typed
<1>3. /\ WorkNext' = [WorkNext EXCEPT ![w] = None]
      /\ thread' = [thread EXCEPT ![t].pc = "func", ![t].next = n,
                                  ![t].timeslice = Timeslice[w]]
      /\ UNCHANGED <<XrSchedulerWorkList, XrSchedulerNextFrameList, ThreadNext, PreferredThread,
                     Enqueued, Timeslice, Busy, main>>
  BY <1>w DEF Unlink, slices, devices, lists
<1>4. kind[w] = "running" /\ pos[w] = t
  BY <1>1, <1>2 DEF Running, InHand, Mine
<1>5. ~Linking(w)
  BY <1>1, <1>2, <1>4, NoneApart DEF Linking, Running, InHand, ThreadOK, Placed
<1>6. n \in Work => kind[n] = "link" /\ pos[n] = w
  BY <1>1, <1>2, <1>5, <1>w, NoneApart DEF OnLinks
<1>7. /\ \A v \in Work : v # n => k[v] = kind[v] /\ p[v] = pos[v]
      /\ n \in Work => k[n] = "next" /\ p[n] = t
  BY <1>0
<1>8. /\ Only(t) /\ Typed' /\ \A v \in Work \ {w} : WorkNext'[v] = WorkNext[v]
      /\ WorkNext'[w] = None
      /\ thread'[t].pc = "func" /\ thread'[t].work = w
      /\ thread'[t].next = n /\ thread'[t].linking = None
  <2>1. Timeslice[w] \in Int /\ "func" \in Labels
    BY <1>1, <1>2 DEF Typed, Labels
  <2>2. WorkNext' \in [Work -> Somewhere] /\ \A v \in Work : WorkNext'[v] = IF v = w THEN None ELSE WorkNext[v]
    BY <1>1, <1>2, <1>3 DEF Typed, Somewhere
  <2>3. /\ Only(t)
        /\ thread'[t] = [thread[t] EXCEPT !.pc = "func", !.next = n, !.timeslice = Timeslice[w]]
        /\ thread' \in [Threads -> [pc : Labels, work : Somewhere, next : Somewhere,
                                    timeslice : Int, linking : Somewhere]]
    <3> DEFINE Records == [pc : Labels, work : Somewhere, next : Somewhere, timeslice : Int,
                           linking : Somewhere]
               new == [thread[t] EXCEPT !.pc = "func", !.next = n, !.timeslice = Timeslice[w]]
    <3>1. thread \in [Threads -> Records] /\ thread[t] \in Records
      BY <1>1 DEF Typed
    <3>2. new \in Records
      BY <1>2, <2>1, <3>1
    <3>3. thread' = [thread EXCEPT ![t] = new]
      BY <1>3
    <3> HIDE DEF Records, new
    <3>4. thread' \in [Threads -> Records] /\ thread'[t] = new /\ Only(t)
      BY <3>1, <3>2, <3>3 DEF Only
    <3> QED BY <3>4 DEF Records, new
  <2>4. Typed'
    BY <1>1, <1>3, <2>2, <2>3 DEF Typed
  <2>5. /\ thread'[t].pc = "func" /\ thread'[t].work = w
        /\ thread'[t].next = n /\ thread'[t].linking = None
    BY <1>1, <1>2, <2>3 DEF Typed
  <2> QED BY <1>2, <2>2, <2>3, <2>4, <2>5
<1>9. ThreadOK(t)'
  BY <1>1, <1>2, <1>3, <1>8, NoneApart DEF ThreadOK
<1>10. MainOK' /\ \A u \in Threads \ {t} : ThreadOK(u)'
  <2>1. \A v \in Work : kind[v] = "running" /\ pos[v] # t => WorkNext'[v] = WorkNext[v]
    BY <1>4, <1>8
  <2> QED BY <1>3, <1>8, <2>1, KeepMarks
<1>11. OnLists(k, p)'
  <2>1. \A v \in Work : {kind[v], k[v]} \cap {"work list", "next frame list", "main"} # {} =>
          k[v] = kind[v] /\ p[v] = pos[v]
    BY <1>6, <1>7
  <2> QED BY <1>3, <2>1, KeepLists
<1>12. OnChains(k, p)'
  <2>1. Alike(kind, pos, k, p, "chain") /\ (At(t, "clear")' <=> At(t, "clear"))
    BY <1>2, <1>6, <1>7, <1>8 DEF Alike, At
  <2> QED BY <1>1, <1>3, <1>8, <2>1, KeepChains
<1>13. OnLinks(k, p)'
  <2>1. \A v : Linking(v)' <=> Linking(v)
    BY <1>2, <1>8 DEF Linking, Only
  <2>2. ASSUME NEW v \in Work, WorkNext'[v] # None, ~Linking(v)'
        PROVE  k[WorkNext'[v]] = "link" /\ p[WorkNext'[v]] = v
    <3>1. v # w /\ WorkNext'[v] = WorkNext[v] /\ WorkNext[v] \in Work
      BY <1>1, <1>8, <2>2 DEF Typed, Somewhere
    <3>2. kind[WorkNext[v]] = "link" /\ pos[WorkNext[v]] = v
      BY <1>1, <2>1, <2>2, <3>1 DEF OnLinks
    <3> QED BY <1>6, <1>7, <3>1, <3>2
  <2>3. ASSUME NEW v \in Work, k[v] = "link"
        PROVE  p[v] \in Work /\ WorkNext'[p[v]] = v /\ ~Linking(p[v])'
    <3>1. v # n /\ kind[v] = "link" /\ p[v] = pos[v]
      BY <1>7, <2>3
    <3>2. pos[v] \in Work /\ WorkNext[pos[v]] = v /\ ~Linking(pos[v])
      BY <1>1, <3>1 DEF OnLinks
    <3> QED BY <1>8, <1>w, <2>1, <3>1, <3>2
  <2> QED BY <2>2, <2>3 DEF OnLinks
<1>14. AsNext(k, p)'
  <2>1. \A u \in Threads \ {t} : thread'[u] = thread[u] /\ thread[u].next \in Somewhere
    BY <1>1, <1>8 DEF Only, Typed
  <2>2. ASSUME NEW u \in Threads, thread'[u].next # None
        PROVE  k[thread'[u].next] = "next" /\ p[thread'[u].next] = u
    <3>1. CASE u = t
      BY <1>2, <1>7, <1>8, <2>2, <3>1 DEF Somewhere
    <3>2. CASE u # t
      <4>1. kind[thread[u].next] = "next" /\ pos[thread[u].next] = u /\ thread[u].next \in Work
        BY <1>1, <2>1, <2>2, <3>2 DEF AsNext, Somewhere
      <4> QED BY <1>6, <1>7, <2>1, <3>2, <4>1
    <3> QED BY <3>1, <3>2
  <2>3. ASSUME NEW v \in Work, k[v] = "next"
        PROVE  p[v] \in Threads /\ thread'[p[v]].next = v
    <3>1. CASE v = n
      BY <1>7, <1>8, <3>1
    <3>2. CASE v # n
      <4>1. pos[v] \in Threads /\ thread[pos[v]].next = v /\ p[v] = pos[v]
        BY <1>1, <1>7, <2>3, <3>2 DEF AsNext
      <4> QED BY <1>2, <2>1, <4>1, NoneApart
    <3> QED BY <3>1, <3>2
  <2> QED BY <2>2, <2>3 DEF AsNext
<1>15. Running(k, p)'
  <2>1. \A v \in Work : InHand(t, v)' <=> InHand(t, v)
    BY <1>2, <1>8, NoneApart DEF InHand, Mine
  <2>2. Alike(kind, pos, k, p, "running")
    BY <1>6, <1>7 DEF Alike
  <2> QED BY <1>1, <1>8, <2>1, <2>2, KeepRunning
<1>16. Present(k)'
  BY <1>1, <1>3, <1>6, <1>7 DEF Present
<1>17. LinkedOnly(k, p)'
  <2>1. \A v \in Work : WorkNext'[v] \in {WorkNext[v], None}
    BY <1>8
  <2> QED BY <1>1, <1>2, <1>6, <1>7, <1>8, <1>w, <2>1, KeepLinkedOnly
<1>18. Owned(k, p, owner)'
  <2>1. n \in Work => owner[n] = t
    BY <1>1, <1>2, <1>4, <1>w, NoneApart DEF Owned
  <2> QED BY <1>1, <1>3, <1>6, <1>7, <1>8, <2>1 DEF Owned
<1>19. Unpopped(k)'
  <2>1. ~At(t, "late")'
    BY <1>8 DEF At
  <2>2. \A d \in Work : k[d] \in {"main", "work list"} <=> kind[d] \in {"main", "work list"}
    BY <1>6, <1>7
  <2> QED BY <1>1, <1>3, <1>8, <2>1, <2>2, KeepUnpopped
<1>20. Maps(k, p, owner)
  BY <1>0, <1>1 DEF Maps, Kinds
<1> QED BY <1>8, <1>9, <1>10, <1>11, <1>12, <1>13, <1>14, <1>15, <1>16, <1>17, <1>18, <1>19, <1>20,
           AllPlaced

\* The end of a turn of t, which puts its work away (g), goes on to the next of its
\* chain (n), or both.
EndsTurn(kind, pos, owner, t, k, p, g, n) ==
  /\ Only(t) /\ Maps(k, p, owner) /\ Typed' /\ ThreadOK(t)'
  /\ OnLists(k, p)' /\ Present(k)' /\ Unpopped(k)'
  /\ UNCHANGED <<ThreadNext, WorkNext, PreferredThread, main>>
  /\ \A w \in Work : Enqueued'[w] =>
       Enqueued[w] \/ kind[w] = "none" \/ (kind[w] = "running" /\ pos[w] = t)
  /\ thread[t].pc \in {"func", "insert", "post", "late"} /\ thread[t].linking = None
  /\ thread'[t].pc # "clear" /\ thread'[t].linking = None
  /\ \A v \in Work : InHand(t, v) <=> v = g
  /\ \A v \in Work : InHand(t, v)' <=> v = n
  /\ \A v \in Work : v = g => k[v] \notin {"main", "chain", "link", "next", "running"}
  /\ n = None => thread'[t].next = thread[t].next
  /\ n # None => /\ n = thread[t].next /\ k[n] = "running" /\ p[n] = t
                 /\ thread'[t].next = None /\ thread'[t].pc = "dequeued"
  /\ \A v \in Work : v # g /\ v # n =>
       k[v] = kind[v] /\ (kind[v] \in {"chain", "link", "next", "running"} => p[v] = pos[v])

\* Whatever is put away, and wherever, the rest is where it was.
LEMMA TurnEnds ==
  ASSUME NEW kind, NEW pos, NEW owner, Placed(kind, pos, owner), NEW t \in Threads,
         NEW k, NEW p, NEW g \in Somewhere, NEW n \in Somewhere,
         EndsTurn(kind, pos, owner, t, k, p, g, n)
  PROVE  \E kk, pp, oo : Placed(kk, pp, oo)'
<1> USE DEF EndsTurn
<1>1. /\ Typed /\ ThreadOK(t) /\ OnChains(kind, pos) /\ OnLinks(kind, pos) /\ AsNext(kind, pos)
      /\ Running(kind, pos) /\ LinkedOnly(kind, pos) /\ Owned(kind, pos, owner)
  BY DEF Placed
<1>2. UNCHANGED <<ThreadNext, WorkNext, PreferredThread>>
  OBVIOUS
<1>3. \A v \in Work : v = g => kind[v] = "running" /\ pos[v] = t
  BY <1>1 DEF Running
<1>4. \A v \in Work : v = n => kind[v] = "next" /\ pos[v] = t /\ v = thread[t].next
  <2>1. n # None => n = thread[t].next
    OBVIOUS
  <2>2. thread[t].next # None => kind[thread[t].next] = "next" /\ pos[thread[t].next] = t
    BY <1>1 DEF AsNext
  <2>3. \A v \in Work : v # None
    BY NoneApart
  <2> QED BY <2>1, <2>2, <2>3
<1>5. \A v \in Work : v = g => k[v] \notin {"main", "chain", "link", "next", "running"}
  OBVIOUS
<1>6. \A v \in Work : v = n => k[v] = "running" /\ p[v] = t
  BY NoneApart
<1>7. Alike(kind, pos, k, p, "chain") /\ Alike(kind, pos, k, p, "link")
  BY <1>3, <1>4, <1>5, <1>6 DEF Alike
<1>8. MainOK' /\ \A u \in Threads \ {t} : ThreadOK(u)'
  <2>1. \A u \in Threads \ {t} : ThreadNext'[u] = ThreadNext[u]
    BY <1>2
  <2>2. \A w \in Work : kind[w] = "running" /\ pos[w] # t =>
          WorkNext'[w] = WorkNext[w] /\ PreferredThread'[w] = PreferredThread[w]
    BY <1>2
  <2>3. UNCHANGED main
    OBVIOUS
  <2> QED BY <2>1, <2>2, <2>3, KeepMarks
<1>9. OnChains(k, p)' /\ OnLinks(k, p)'
  <2>1. At(t, "clear")' <=> At(t, "clear")
    BY DEF At
  <2> QED BY <1>1, <1>2, <1>7, <2>1, KeepChains, KeepLinks
<1>10. AsNext(k, p)'
  <2>1. \A u \in Threads \ {t} : thread'[u] = thread[u]
    BY DEF Only
  <2>2. ASSUME NEW u \in Threads, thread'[u].next # None
        PROVE  k[thread'[u].next] = "next" /\ p[thread'[u].next] = u
    <3>1. thread[u].next = thread'[u].next /\ (u = t => n = None)
      BY <2>1, <2>2
    <3>2. thread[u].next \in Work
      BY <1>1, <2>2, <3>1 DEF Typed, Somewhere
    <3>3. kind[thread[u].next] = "next" /\ pos[thread[u].next] = u
      BY <1>1, <2>2, <3>1 DEF AsNext
    <3> QED BY <1>3, <1>4, <3>1, <3>2, <3>3, NoneApart
  <2>3. ASSUME NEW v \in Work, k[v] = "next"
        PROVE  p[v] \in Threads /\ thread'[p[v]].next = v
    <3>1. v # g /\ v # n /\ kind[v] = "next" /\ p[v] = pos[v]
      BY <1>5, <1>6, <2>3
    <3>2. pos[v] \in Threads /\ thread[pos[v]].next = v
      BY <1>1, <3>1 DEF AsNext
    <3>3. pos[v] = t => n = None
      BY <3>1, <3>2
    <3>4. n = None => thread'[t].next = thread[t].next
      OBVIOUS
    <3>5. CASE pos[v] = t
      BY <3>1, <3>2, <3>3, <3>4, <3>5
    <3>6. CASE pos[v] # t
      BY <2>1, <3>1, <3>2, <3>6
    <3> QED BY <3>5, <3>6
  <2> QED BY <2>2, <2>3 DEF AsNext
<1>11. Running(k, p)'
  <2>1. \A u \in Threads \ {t}, v \in Work : InHand(u, v)' <=> InHand(u, v)
    BY DEF Only, InHand, Mine
  <2>2. ASSUME NEW u \in Threads, NEW v \in Work, InHand(u, v)'
        PROVE  k[v] = "running" /\ p[v] = u
    <3>1. CASE u = t
      BY <1>6, <2>2, <3>1
    <3>2. CASE u # t
      <4>1. kind[v] = "running" /\ pos[v] = u
        BY <1>1, <2>1, <2>2, <3>2 DEF Running
      <4> QED BY <1>3, <1>4, <3>2, <4>1
    <3> QED BY <3>1, <3>2
  <2>3. ASSUME NEW v \in Work, k[v] = "running"
        PROVE  p[v] \in Threads /\ InHand(p[v], v)'
    <3>1. CASE v = n
      BY <1>6, <3>1
    <3>2. CASE v # n
      <4>1. v # g /\ kind[v] = "running" /\ p[v] = pos[v]
        BY <1>5, <2>3, <3>2
      <4>2. pos[v] \in Threads /\ InHand(pos[v], v)
        BY <1>1, <4>1 DEF Running
      <4> QED BY <2>1, <4>1, <4>2
    <3> QED BY <3>1, <3>2
  <2> QED BY <2>2, <2>3 DEF Running
<1>12. LinkedOnly(k, p)'
  <2>1. ASSUME NEW v \in Work, WorkNext[v] # None, v = g PROVE FALSE
    <3>1. InHand(t, v) /\ thread[t].linking # v
      BY <2>1, NoneApart
    <3> QED BY <1>1, <1>3, <2>1, <3>1 DEF LinkedOnly
  <2>2. \A v \in Work : WorkNext'[v] # None =>
           \/ k[v] = kind[v] /\ p[v] = pos[v]
           \/ k[v] \in {"chain", "link", "next"}
           \/ k[v] = "running" /\ thread'[p[v]].pc = "dequeued"
    <3> SUFFICES ASSUME NEW v \in Work, WorkNext[v] # None
                 PROVE  \/ k[v] = kind[v] /\ p[v] = pos[v]
                        \/ k[v] = "running" /\ thread'[p[v]].pc = "dequeued"
      BY <1>2
    <3>1. v # g /\ kind[v] \in {"chain", "link", "next", "running"}
      BY <1>1, <2>1 DEF LinkedOnly
    <3>2. CASE v = n
      BY <1>6, <3>2, NoneApart
    <3>3. CASE v # n
      BY <3>1, <3>3
    <3> QED BY <3>2, <3>3
  <2>3. /\ \A v \in Work : WorkNext'[v] \in {WorkNext[v], None}
        /\ thread[t].pc \in {"clear", "dequeued", "unlink"} =>
             thread'[t].pc \in {"clear", "dequeued", "unlink"} \/ WorkNext'[Mine(t)] = None
        /\ thread[t].linking \in {None, thread'[t].linking}
    BY <1>2
  <2>4. \A v \in Work : WorkNext'[v] # None =>
           \/ k[v] = kind[v] /\ p[v] = pos[v]
           \/ k[v] \in {"chain", "link", "next"}
           \/ k[v] = "running" /\ (\/ thread'[p[v]].pc \in {"clear", "dequeued", "unlink"}
                                   \/ thread'[p[v]].linking = v)
    BY <2>2
  <2> QED BY <1>1, <2>3, <2>4, KeepLinkedOnly
<1>13. Owned(k, p, owner)'
  <2>1. \A v \in Work : k[v] \in {"chain", "next", "running"} => owner[v] = p[v]
    <3> SUFFICES ASSUME NEW v \in Work, k[v] \in {"chain", "next", "running"}
                 PROVE  owner[v] = p[v]
      OBVIOUS
    <3>1. CASE v = n
      BY <1>1, <1>4, <1>6, <3>1 DEF Owned
    <3>2. CASE v # n
      BY <1>1, <1>5, <3>2 DEF Owned
    <3> QED BY <3>1, <3>2
  <2> QED BY <1>1, <1>2, <2>1 DEF Owned
<1> QED BY <1>8, <1>9, <1>10, <1>11, <1>12, <1>13, AllPlaced

\* The locals of a thread between two schedulables.
LEMMA IdleAt ==
  ASSUME NEW label \in Labels, NEW n \in Somewhere
  PROVE  [IdleThread EXCEPT !.pc = label, !.work = n] \in
           [pc : Labels, work : Somewhere, next : Somewhere, timeslice : Int, linking : Somewhere]
<1>1. IdleThread \in
        [pc : Labels, work : Somewhere, next : Somewhere, timeslice : Int, linking : Somewhere]
  BY DEF IdleThread, Somewhere, Labels
<1> QED BY <1>1

\* The end of Func leads on along the chain.
LEMMA Finished ==
  ASSUME Typed, NEW t \in Threads, Finish(t), NEW n, n = thread[t].next
  PROVE  /\ Only(t) /\ n \in Somewhere
         /\ thread' \in [Threads -> [pc : Labels, work : Somewhere, next : Somewhere,
                                     timeslice : Int, linking : Somewhere]]
         /\ thread'[t].pc = IF n = None THEN "fetch" ELSE "dequeued"
         /\ thread'[t].work = n /\ thread'[t].next = None /\ thread'[t].linking = None
         /\ \A v \in Work : InHand(t, v)' <=> v = n
         /\ ThreadOK(t)'
<1> DEFINE Records == [pc : Labels, work : Somewhere, next : Somewhere, timeslice : Int,
                       linking : Somewhere]
<1>1. thread \in [Threads -> Records] /\ n \in Somewhere
  BY DEF Typed
<1>2. PICK new, label : /\ label = IF n = None THEN "fetch" ELSE "dequeued"
                        /\ new = [IdleThread EXCEPT !.pc = label, !.work = n]
  OBVIOUS
<1>3. thread' = [thread EXCEPT ![t] = new]
  <2>1. new = [IdleThread EXCEPT !.pc = IF thread[t].next = None THEN "fetch" ELSE "dequeued",
                                 !.work = thread[t].next]
    BY <1>2
  <2> QED BY <2>1 DEF Finish
<1>4. /\ new \in Records
      /\ new.pc = IF n = None THEN "fetch" ELSE "dequeued"
      /\ new.work = n /\ new.next = None /\ new.linking = None
  <2>1. label \in Labels /\ None \in Somewhere
    BY <1>2 DEF Labels, Somewhere
  <2>2. new \in Records
    BY <1>1, <1>2, <2>1, IdleAt
  <2>3. new.pc = label /\ new.work = n /\ new.next = None /\ new.linking = None
    BY <1>2 DEF IdleThread
  <2> QED BY <1>2, <2>2, <2>3
<1> HIDE DEF Records
<1>5. thread' \in [Threads -> Records] /\ thread'[t] = new /\ Only(t)
  BY <1>1, <1>3, <1>4 DEF Only
<1>6. \A v \in Work : InHand(t, v)' <=> v = n
  BY <1>4, <1>5, NoneApart DEF InHand, Mine
<1>7. ThreadOK(t)'
  BY <1>1, <1>4, <1>5, NoneApart DEF ThreadOK, Somewhere
<1> QED BY <1>1, <1>4, <1>5, <1>6, <1>7 DEF Records

\* XrPostSemaphore for a paused processor, and the late write of a device's timeslice:
\* the thread goes on to what it has as next.
LEMMA GoneOnPlaced ==
  ASSUME NEW kind, NEW pos, NEW owner, Placed(kind, pos, owner), NEW t \in Threads,
         PostPaused(t) \/ WriteTimeslice(t)
  PROVE  \E k, p, o : Placed(k, p, o)'
<1>w. PICK n : n = thread[t].next
  OBVIOUS
<1>0. PICK k : k = [v \in Work |-> IF v = n THEN "running" ELSE kind[v]]
  OBVIOUS
<1>1. /\ Typed /\ ThreadOK(t) /\ Maps(kind, pos, owner) /\ AsNext(kind, pos)
      /\ Present(kind) /\ Unpopped(kind)
  BY DEF Placed
<1>2. /\ thread[t].pc \in {"post", "late"} /\ thread[t].linking = None /\ Finish(t)
      /\ thread[t].work \in Work
      /\ UNCHANGED <<XrSchedulerWorkList, XrSchedulerNextFrameList, ThreadNext, WorkNext,
                     PreferredThread, Enqueued, Busy, main>>
  BY <1>1 DEF PostPaused, WriteTimeslice, At, ThreadOK, lists, chains, devices
<1>3. /\ Only(t) /\ n \in Somewhere
      /\ thread' \in [Threads -> [pc : Labels, work : Somewhere, next : Somewhere,
                                  timeslice : Int, linking : Somewhere]]
      /\ thread'[t].pc = IF n = None THEN "fetch" ELSE "dequeued"
      /\ thread'[t].work = n /\ thread'[t].next = None /\ thread'[t].linking = None
      /\ \A v \in Work : InHand(t, v)' <=> v = n
      /\ ThreadOK(t)'
  BY <1>1, <1>2, <1>w, Finished
<1>4. /\ \A v \in Work : v # n => k[v] = kind[v]
      /\ \A v \in Work : v = n => k[v] = "running" /\ kind[v] = "next" /\ pos[v] = t
  BY <1>0, <1>1, <1>w, NoneApart DEF AsNext
<1>5. Maps(k, pos, owner)
  BY <1>0, <1>1 DEF Maps, Kinds
<1>6. OnLists(k, pos)'
  <2>1. \A v \in Work : {kind[v], k[v]} \cap {"work list", "next frame list", "main"} # {} =>
          k[v] = kind[v] /\ pos[v] = pos[v]
    BY <1>4
  <2> QED BY <1>2, <2>1, KeepLists
<1>7. Present(k)'
  BY <1>1, <1>2, <1>4 DEF Present
<1>8. \A d \in Work : k[d] \in {"main", "work list"} <=> kind[d] \in {"main", "work list"}
  BY <1>4
<1>9. ~At(t, "late")' /\ Ports \subseteq Work
  BY <1>3 DEF At, Work, Devices
<1>10. Timeslice' \in [Work -> Int] /\ Unpopped(k)'
  <2>1. CASE PostPaused(t)
    <3>1. UNCHANGED Timeslice
      BY <2>1 DEF PostPaused, slices
    <3> QED BY <1>1, <1>2, <1>3, <1>8, <1>9, <3>1, KeepUnpopped DEF Typed
  <2>2. CASE WriteTimeslice(t)
    <3>1. PICK m, rest : m = thread[t].work /\ rest = thread[t].timeslice
      OBVIOUS
    <3>2. /\ Timeslice' = [Timeslice EXCEPT ![m] = rest] /\ thread[t].pc = "late"
          /\ m \in Work /\ rest \in Int
      BY <1>1, <1>2, <2>2, <3>1 DEF WriteTimeslice, At, Mine, Typed
    <3>3. /\ Timeslice' \in [Work -> Int] /\ Timeslice'[m] = rest
          /\ \A d \in Work \ {m} : Timeslice'[d] = Timeslice[d]
      BY <1>1, <3>2 DEF Typed
    <3>4. m \in Ports /\ PreferredThread[m] = None => rest <= 0
      BY <1>1, <3>1, <3>2 DEF Unpopped, At, Mine
    <3>5. \A d \in Ports : PreferredThread'[d] = None /\ k[d] \notin {"main", "work list"} =>
            Timeslice'[d] <= 0
      <4> SUFFICES ASSUME NEW d \in Ports, PreferredThread'[d] = None,
                          k[d] \notin {"main", "work list"}
                   PROVE  Timeslice'[d] <= 0
        OBVIOUS
      <4>1. PreferredThread[d] = None /\ kind[d] \notin {"main", "work list"} /\ d \in Work
        BY <1>2, <1>8, <1>9
      <4>2. CASE d = m
        BY <3>3, <3>4, <4>1, <4>2
      <4>3. CASE d # m
        BY <1>1, <3>3, <4>1, <4>3 DEF Unpopped
      <4> QED BY <4>2, <4>3
    <3>6. \A u \in Threads : At(u, "late")' => At(u, "late") /\ thread'[u] = thread[u]
      BY <1>3, <1>9 DEF Only, At
    <3> QED BY <1>1, <1>2, <3>3, <3>5, <3>6 DEF Unpopped, Mine
  <2> QED BY <1>2, <2>1, <2>2
<1>11. Typed'
  BY <1>1, <1>2, <1>3, <1>10 DEF Typed
<1>12. \A v \in Work : InHand(t, v) <=> v = None
  BY <1>2, NoneApart DEF InHand
<1>13. /\ \A v \in Work : v = None => k[v] \notin {"main", "chain", "link", "next", "running"}
       /\ None \in Somewhere
  BY NoneApart DEF Somewhere
<1>14. /\ n = None => thread'[t].next = thread[t].next
       /\ n # None => /\ n = thread[t].next /\ k[n] = "running" /\ pos[n] = t
                      /\ thread'[t].next = None /\ thread'[t].pc = "dequeued"
  BY <1>3, <1>4, <1>w DEF Somewhere
<1>15. /\ \A v \in Work : v # None /\ v # n =>
            k[v] = kind[v] /\ (kind[v] \in {"chain", "link", "next", "running"} => pos[v] = pos[v])
       /\ \A v \in Work : Enqueued'[v] =>
            Enqueued[v] \/ kind[v] = "none" \/ (kind[v] = "running" /\ pos[v] = t)
       /\ thread[t].pc \in {"func", "insert", "post", "late"} /\ thread'[t].pc # "clear"
  BY <1>2, <1>3, <1>4
<1>16. UNCHANGED <<ThreadNext, WorkNext, PreferredThread, main>>
  BY <1>2
<1>17. Only(t) /\ thread[t].linking = None /\ thread'[t].linking = None
  BY <1>2, <1>3
<1>18. n \in Somewhere /\ ThreadOK(t)' /\ (\A v \in Work : InHand(t, v)' <=> v = n)
  BY <1>3
<1>19. Unpopped(k)'
  BY <1>10
<1>20. EndsTurn(kind, pos, owner, t, k, pos, None, n)
  BY <1>5, <1>6, <1>7, <1>11, <1>12, <1>13, <1>14, <1>15, <1>16, <1>17, <1>18, <1>19 DEF EndsTurn
<1> QED BY <1>13, <1>18, <1>20, TurnEnds

\* InsertTailList for a processor that paused.
LEMMA InsertPlaced ==
  ASSUME NEW kind, NEW pos, NEW owner, Placed(kind, pos, owner), NEW t \in Threads,
         InsertPaused(t)
  PROVE  \E k, p, o : Placed(k, p, o)'
<1>w. PICK m : m = Mine(t)
  OBVIOUS
<1>0. PICK k, p :
        /\ k = [v \in Work |-> IF v = m THEN "work list" ELSE kind[v]]
        /\ p = [v \in Work |-> IF v = m THEN Len(XrSchedulerWorkList) + 1 ELSE pos[v]]
  OBVIOUS
<1>1. /\ Typed /\ ThreadOK(t) /\ Maps(kind, pos, owner) /\ MainOK /\ Running(kind, pos)
      /\ OnLists(kind, pos) /\ Present(kind) /\ Unpopped(kind)
  BY DEF Placed
<1>2. /\ thread[t].pc = "insert" /\ thread[t].linking = None /\ thread[t].work = m
      /\ m \in Work /\ m \in Cpus
      /\ XrSchedulerWorkList' = Append(XrSchedulerWorkList, m)
      /\ thread' = [thread EXCEPT ![t].pc = "post"]
      /\ UNCHANGED <<XrSchedulerNextFrameList, ThreadNext, WorkNext, PreferredThread, Enqueued,
                     Timeslice, Busy, main>>
  BY <1>1, <1>w
     DEF InsertPaused, InsertWork, Goto, At, ThreadOK, Mine, chains, slices, devices
<1>3. kind[m] = "running" /\ pos[m] = t
  BY <1>1, <1>2 DEF Running, InHand, Mine
<1>4. /\ \A v \in Work : v # m => k[v] = kind[v] /\ p[v] = pos[v]
      /\ k[m] = "work list" /\ p[m] = Len(XrSchedulerWorkList) + 1
  BY <1>0, <1>2
<1>5. Maps(k, p, owner)
  BY <1>0, <1>1 DEF Maps, Kinds
<1>6. XrSchedulerWorkList' \in Seq(Work) /\ OnList(XrSchedulerWorkList, "work list", k, p)'
  <2>1. /\ XrSchedulerWorkList \in Seq(Work) /\ kind[m] # "work list"
        /\ OnList(XrSchedulerWorkList, "work list", kind, pos)
    BY <1>1, <1>3 DEF OnLists, Typed
  <2>2. \A v \in Work \ {m} :
          (kind[v] = "work list" \/ k[v] = "work list") => k[v] = kind[v] /\ p[v] = pos[v]
    BY <1>4
  <2>3. /\ Append(XrSchedulerWorkList, m) \in Seq(Work)
        /\ OnList(Append(XrSchedulerWorkList, m), "work list", k, p)
    <3>1. m \in Work /\ k[m] = "work list" /\ p[m] = Len(XrSchedulerWorkList) + 1
      BY <1>2, <1>4
    <3> QED BY <2>1, <2>2, <3>1, ListAppend
  <2> QED BY <1>2, <2>3 DEF OnList
<1>7. OnLists(k, p)'
  <2>1. Collected \in Seq(Work) /\ XrSchedulerNextFrameList \in Seq(Work)
    BY <1>1, CollectedList DEF Typed
  <2>2. \A name \in {"main", "next frame list"} : \A v \in Work :
          (kind[v] = name \/ k[v] = name) => k[v] = kind[v] /\ p[v] = pos[v]
    BY <1>3, <1>4
  <2>3. OnList(Collected, "main", k, p)
    BY <1>1, <2>1, <2>2, ListKept DEF OnLists
  <2>4. OnList(XrSchedulerNextFrameList, "next frame list", k, p)
    BY <1>1, <2>1, <2>2, ListKept DEF OnLists
  <2> QED BY ZenonT(40), <1>2, <1>6, <2>3, <2>4 DEF OnLists, OnList, Collected
<1>8. Present(k)'
  BY <1>1, <1>2, <1>3, <1>4 DEF Present
<1>9. /\ Only(t) /\ thread' \in [Threads -> [pc : Labels, work : Somewhere, next : Somewhere,
                                             timeslice : Int, linking : Somewhere]]
      /\ thread'[t].pc = "post" /\ thread'[t].work = m /\ thread'[t].next = thread[t].next
      /\ thread'[t].linking = None
  BY <1>1, <1>2 DEF Typed, Labels, Only
<1>10. Typed' /\ ThreadOK(t)'
  BY <1>1, <1>2, <1>6, <1>9, NoneApart DEF Typed, ThreadOK
<1>11. Unpopped(k)'
  <2>1. ~At(t, "late")' /\ Ports \subseteq Work \ {m}
    BY <1>2, <1>9, WorkAssumption DEF At, Work, Devices
  <2>2. \A u \in Threads : At(u, "late")' => At(u, "late") /\ thread'[u] = thread[u]
    BY <1>9, <2>1 DEF Only, At
  <2> QED BY <1>1, <1>2, <1>4, <2>1, <2>2 DEF Unpopped, Mine
<1>12. /\ \A v \in Work : InHand(t, v) <=> v = m
       /\ \A v \in Work : InHand(t, v)' <=> v = None
  BY <1>2, <1>9, NoneApart DEF InHand, Mine
<1>13. None \in Somewhere /\ m \in Somewhere
  BY <1>2 DEF Somewhere
<1>14. EndsTurn(kind, pos, owner, t, k, p, m, None)
  BY <1>2, <1>4, <1>5, <1>7, <1>8, <1>9, <1>10, <1>11, <1>12 DEF EndsTurn
<1> QED BY <1>13, <1>14, TurnEnds

\* A processor without timeslice waits for the next frame.
LEMMA CpuFrameDonePlaced ==
  ASSUME NEW kind, NEW pos, NEW owner, Placed(kind, pos, owner), NEW t \in Threads,
         CpuFrameDone(t)
  PROVE  \E k, p, o : Placed(k, p, o)'
<1>w. PICK m, n : m = Mine(t) /\ n = thread[t].next
  OBVIOUS
<1>0. PICK k, p :
        /\ k = [v \in Work |-> IF v = m THEN "next frame list" ELSE IF v = n THEN "running"
                               ELSE kind[v]]
        /\ p = [v \in Work |-> IF v = m THEN Len(XrSchedulerNextFrameList) + 1 ELSE pos[v]]
  OBVIOUS
<1>1. /\ Typed /\ ThreadOK(t) /\ Maps(kind, pos, owner) /\ MainOK /\ Running(kind, pos)
      /\ OnLists(kind, pos) /\ AsNext(kind, pos) /\ Present(kind) /\ Unpopped(kind)
  BY DEF Placed
<1>2. /\ thread[t].pc = "func" /\ thread[t].linking = None /\ thread[t].work = m
      /\ m \in Work /\ m \in Cpus /\ ~Enqueued[m] /\ m \notin Ports
  BY <1>1, <1>w, WorkAssumption
     DEF CpuFrameDone, Execute, At, ThreadOK, Mine, Work, Devices
<1>3. /\ XrSchedulerNextFrameList' = Append(XrSchedulerNextFrameList, m)
      /\ Enqueued' = [Enqueued EXCEPT ![m] = TRUE]
      /\ Finish(t) /\ Timeslice' = [Timeslice EXCEPT ![m] = 0]
      /\ UNCHANGED <<XrSchedulerWorkList, ThreadNext, WorkNext, PreferredThread, Busy, main>>
  BY <1>2, <1>w DEF CpuFrameDone, Execute, ForNextFrame, chains, devices
<1>4. kind[m] = "running" /\ pos[m] = t
  BY <1>1, <1>2 DEF Running, InHand, Mine
<1>5. /\ Only(t) /\ n \in Somewhere
      /\ thread' \in [Threads -> [pc : Labels, work : Somewhere, next : Somewhere,
                                  timeslice : Int, linking : Somewhere]]
      /\ thread'[t].pc = IF n = None THEN "fetch" ELSE "dequeued"
      /\ thread'[t].work = n /\ thread'[t].next = None /\ thread'[t].linking = None
      /\ \A v \in Work : InHand(t, v)' <=> v = n
      /\ ThreadOK(t)'
  BY <1>1, <1>3, <1>w, Finished
<1>6. \A v \in Work : v = n => kind[v] = "next" /\ pos[v] = t /\ v # m
  BY <1>1, <1>4, <1>w, NoneApart DEF AsNext
<1>7. /\ \A v \in Work : v # m /\ v # n => k[v] = kind[v]
      /\ \A v \in Work : v # m => p[v] = pos[v]
      /\ \A v \in Work : v = n => k[v] = "running"
      /\ k[m] = "next frame list" /\ p[m] = Len(XrSchedulerNextFrameList) + 1
  BY <1>0, <1>2, <1>6
<1>8. Maps(k, p, owner)
  BY <1>0, <1>1 DEF Maps, Kinds
<1>9. /\ XrSchedulerNextFrameList' \in Seq(Work)
      /\ OnList(XrSchedulerNextFrameList, "next frame list", k, p)'
  <2>1. /\ XrSchedulerNextFrameList \in Seq(Work) /\ kind[m] # "next frame list"
        /\ OnList(XrSchedulerNextFrameList, "next frame list", kind, pos)
    BY <1>1, <1>4 DEF OnLists, Typed
  <2>2. \A v \in Work \ {m} : (kind[v] = "next frame list" \/ k[v] = "next frame list") =>
          k[v] = kind[v] /\ p[v] = pos[v]
    BY <1>6, <1>7
  <2>3. /\ Append(XrSchedulerNextFrameList, m) \in Seq(Work)
        /\ OnList(Append(XrSchedulerNextFrameList, m), "next frame list", k, p)
    <3>1. m \in Work /\ k[m] = "next frame list" /\ p[m] = Len(XrSchedulerNextFrameList) + 1
      BY <1>2, <1>7
    <3> QED BY <2>1, <2>2, <3>1, ListAppend
  <2> QED BY <1>3, <2>3 DEF OnList
<1>10. OnLists(k, p)'
  <2>1. Collected \in Seq(Work) /\ XrSchedulerWorkList \in Seq(Work)
    BY <1>1, CollectedList DEF Typed
  <2>2. \A name \in {"main", "work list"} : \A v \in Work :
          (kind[v] = name \/ k[v] = name) => k[v] = kind[v] /\ p[v] = pos[v]
    BY <1>4, <1>6, <1>7
  <2>3. OnList(Collected, "main", k, p)
    BY <1>1, <2>1, <2>2, ListKept DEF OnLists
  <2>4. OnList(XrSchedulerWorkList, "work list", k, p)
    BY <1>1, <2>1, <2>2, ListKept DEF OnLists
  <2> QED BY <1>3, <1>9, <2>3, <2>4 DEF OnLists, OnList, Collected
<1>11. /\ Enqueued' \in [Work -> BOOLEAN] /\ Timeslice' \in [Work -> Int]
       /\ \A v \in Work : Enqueued'[v] => Enqueued[v] \/ v = m
       /\ \A d \in Ports : Timeslice'[d] = Timeslice[d]
       /\ Ports \subseteq Work
  BY <1>1, <1>2, <1>3 DEF Typed, Work, Devices
<1>12. Typed'
  BY <1>1, <1>3, <1>5, <1>9, <1>11 DEF Typed
<1>13. Present(k)'
  <2>1. \A d \in Devices : d \in Work /\ d # m
    BY <1>2, WorkAssumption DEF Work, Devices
  <2>2. \A v \in Work : k[v] = "none" <=> kind[v] = "none"
    BY <1>4, <1>6, <1>7
  <2>3. \A d \in Devices : Enqueued'[d] => Enqueued[d]
    BY <1>11, <2>1
  <2> QED BY <1>1, <1>3, <2>2, <2>3 DEF Present
<1>14. Unpopped(k)'
  <2>1. \A d \in Work : k[d] \in {"main", "work list"} <=> kind[d] \in {"main", "work list"}
    BY <1>4, <1>6, <1>7
  <2>2. ~At(t, "late")'
    BY <1>5 DEF At
  <2> QED BY <1>1, <1>3, <1>5, <1>11, <2>1, <2>2, KeepUnpopped
<1>15. \A v \in Work : InHand(t, v) <=> v = m
  BY <1>2, NoneApart DEF InHand, Mine
<1>16. m \in Somewhere
  BY <1>2 DEF Somewhere
<1>17. /\ n = None => thread'[t].next = thread[t].next
       /\ n # None => /\ n = thread[t].next /\ k[n] = "running" /\ p[n] = t
                      /\ thread'[t].next = None /\ thread'[t].pc = "dequeued"
  BY <1>5, <1>6, <1>7, <1>w DEF Somewhere
<1>18. /\ thread'[t].pc # "clear"
       /\ \A v \in Work : Enqueued'[v] =>
            Enqueued[v] \/ kind[v] = "none" \/ (kind[v] = "running" /\ pos[v] = t)
  BY <1>4, <1>5, <1>11
<1>19. EndsTurn(kind, pos, owner, t, k, p, m, n)
  BY <1>2, <1>3, <1>5, <1>7, <1>8, <1>10, <1>12, <1>13, <1>14, <1>15, <1>17, <1>18
     DEF EndsTurn
<1> QED BY <1>5, <1>16, <1>19, TurnEnds

\* The unlock with a timeslice still to be written.
LEMMA WrittenLate ==
  ASSUME Typed, NEW t \in Threads, NEW rest \in Int, WriteLate(t, rest),
         thread[t].work \in Devices, thread[t].linking = None
  PROVE  /\ Only(t) /\ thread' \in [Threads -> [pc : Labels, work : Somewhere, next : Somewhere,
                                                timeslice : Int, linking : Somewhere]]
         /\ thread'[t].pc = "late" /\ thread'[t].work = thread[t].work
         /\ thread'[t].next = thread[t].next /\ thread'[t].linking = None
         /\ thread'[t].timeslice = rest
         /\ \A v \in Work : InHand(t, v)' <=> v = None
         /\ ThreadOK(t)'
<1>1. /\ Only(t) /\ thread' \in [Threads -> [pc : Labels, work : Somewhere, next : Somewhere,
                                             timeslice : Int, linking : Somewhere]]
      /\ thread'[t].pc = "late" /\ thread'[t].work = thread[t].work
      /\ thread'[t].next = thread[t].next /\ thread'[t].linking = None
      /\ thread'[t].timeslice = rest
  BY SMTT(30), ZenonT(40) DEF Typed, WriteLate, Labels, Only
<1>2. \A v \in Work : InHand(t, v)' <=> v = None
  BY <1>1, NoneApart DEF InHand
<1>3. ThreadOK(t)'
  BY <1>1 DEF ThreadOK, Work
<1> QED BY <1>1, <1>2, <1>3

\* The operation of a device completes: it is to be run no more.
LEMMA DeviceDonePlaced ==
  ASSUME NEW kind, NEW pos, NEW owner, Placed(kind, pos, owner), NEW t \in Threads,
         DeviceDone(t)
  PROVE  \E k, p, o : Placed(k, p, o)'
<1>w. PICK m : m = Mine(t)
  OBVIOUS
<1>0. PICK k : k = [v \in Work |-> IF v = m THEN "none" ELSE kind[v]]
  OBVIOUS
<1>1. /\ Typed /\ ThreadOK(t) /\ Maps(kind, pos, owner) /\ Running(kind, pos)
      /\ OnLists(kind, pos) /\ Present(kind) /\ Unpopped(kind)
  BY DEF Placed
<1>2. /\ thread[t].pc = "func" /\ thread[t].linking = None /\ thread[t].work = m
      /\ m \in Work /\ m \in Devices /\ m \notin Cpus /\ ~Enqueued[m] /\ Timeslice[m] \in Int
      /\ Busy' = [Busy EXCEPT ![m] = FALSE]
      /\ UNCHANGED <<XrSchedulerWorkList, XrSchedulerNextFrameList, ThreadNext, WorkNext,
                     PreferredThread, Enqueued, Timeslice, main>>
  BY <1>1, <1>w, WorkAssumption
     DEF DeviceDone, Operating, At, ThreadOK, Mine, lists, chains, slices, Work, Typed
<1>3. kind[m] = "running" /\ pos[m] = t
  BY <1>1, <1>2 DEF Running, InHand, Mine
<1>4. /\ \A v \in Work : v # m => k[v] = kind[v]
      /\ k[m] = "none"
  BY <1>0, <1>2
<1>5. Maps(k, pos, owner)
  BY <1>0, <1>1 DEF Maps, Kinds
<1>6. PICK rest \in Int : WriteLate(t, rest) /\ 0 <= rest /\ rest < Timeslice[m]
  <2>1. PICK r \in 0 .. Timeslice[m] - 1 : WriteLate(t, r)
    BY <1>w DEF DeviceDone
  <2> QED BY <1>2, <2>1
<1>7. /\ Only(t) /\ thread' \in [Threads -> [pc : Labels, work : Somewhere, next : Somewhere,
                                                timeslice : Int, linking : Somewhere]]
      /\ thread'[t].pc = "late" /\ thread'[t].work = m
      /\ thread'[t].next = thread[t].next /\ thread'[t].linking = None
      /\ \A v \in Work : InHand(t, v)' <=> v = None
      /\ ThreadOK(t)'
  BY <1>1, <1>2, <1>6, WrittenLate
<1>8. OnLists(k, pos)'
  <2>1. \A v \in Work : {kind[v], k[v]} \cap {"work list", "next frame list", "main"} # {} =>
          k[v] = kind[v] /\ pos[v] = pos[v]
    BY <1>3, <1>4
  <2> QED BY <1>2, <2>1, KeepLists
<1>9. Busy' \in [Devices -> BOOLEAN] /\ ~Busy'[m] /\ \A d \in Devices \ {m} : Busy'[d] = Busy[d]
  BY <1>1, <1>2 DEF Typed
<1>10. Typed'
  BY <1>1, <1>2, <1>7, <1>9 DEF Typed
<1>11. Present(k)'
  BY <1>1, <1>2, <1>4, <1>9 DEF Present, Work
<1>12. Unpopped(k)'
  <2>1. m \in Ports /\ PreferredThread[m] = None => FALSE
    <3>1. kind[m] \notin {"main", "work list"}
      BY <1>3
    <3>2. m \in Ports /\ PreferredThread[m] = None => Timeslice[m] <= 0
      BY <1>1, <3>1 DEF Unpopped
    <3> QED BY <1>2, <1>6, <3>2
  <2>2. \A u \in Threads : u # t => (At(u, "late")' <=> At(u, "late")) /\ thread'[u] = thread[u]
    BY <1>7 DEF Only, At
  <2>3. \A d \in Ports : d \in Work
    BY DEF Work, Devices
  <2> QED BY <1>1, <1>2, <1>3, <1>4, <1>7, <2>1, <2>2, <2>3 DEF Unpopped, Mine
<1>13. \A v \in Work : InHand(t, v) <=> v = m
  BY <1>2, NoneApart DEF InHand, Mine
<1>14. None \in Somewhere /\ m \in Somewhere
  BY <1>2 DEF Somewhere
<1>15. EndsTurn(kind, pos, owner, t, k, pos, m, None)
  BY <1>2, <1>4, <1>5, <1>7, <1>8, <1>10, <1>11, <1>12, <1>13 DEF EndsTurn
<1> QED BY <1>14, <1>15, TurnEnds

\* InsertHeadList for a device whose timeslice is not enough.
LEMMA DeviceFrameDonePlaced ==
  ASSUME NEW kind, NEW pos, NEW owner, Placed(kind, pos, owner), NEW t \in Threads,
         DeviceFrameDone(t)
  PROVE  \E k, p, o : Placed(k, p, o)'
<1>w. PICK m : m = Mine(t)
  OBVIOUS
<1>0. PICK k, p :
        /\ k = [v \in Work |-> IF v = m THEN "next frame list" ELSE kind[v]]
        /\ p = [v \in Work |-> IF v = m THEN 1
                               ELSE IF kind[v] = "next frame list" THEN pos[v] + 1 ELSE pos[v]]
  OBVIOUS
<1>1. /\ Typed /\ ThreadOK(t) /\ Maps(kind, pos, owner) /\ MainOK /\ Running(kind, pos)
      /\ OnLists(kind, pos) /\ Present(kind) /\ Unpopped(kind)
  BY DEF Placed
<1>2. /\ thread[t].pc = "func" /\ thread[t].linking = None /\ thread[t].work = m
      /\ m \in Work /\ m \in Devices /\ m \notin Cpus /\ ~Enqueued[m] /\ Busy[m]
      /\ WriteLate(t, 0)
      /\ UNCHANGED <<XrSchedulerWorkList, ThreadNext, WorkNext, PreferredThread, Timeslice,
                     Busy, main>>
  BY <1>1, <1>w, WorkAssumption
     DEF DeviceFrameDone, Operating, At, ThreadOK, Mine, chains, slices, devices, Work
<1>3. /\ XrSchedulerNextFrameList' = <<m>> \o XrSchedulerNextFrameList
      /\ Enqueued' = [Enqueued EXCEPT ![m] = TRUE]
  BY <1>2, <1>w DEF DeviceFrameDone, ForNextFrame
<1>4. kind[m] = "running" /\ pos[m] = t
  BY <1>1, <1>2 DEF Running, InHand, Mine
<1>5. /\ \A v \in Work : v # m =>
           /\ k[v] = kind[v]
           /\ p[v] = IF kind[v] = "next frame list" THEN pos[v] + 1 ELSE pos[v]
      /\ k[m] = "next frame list" /\ p[m] = 1
  BY <1>0, <1>2
<1>6. Maps(k, p, owner)
  BY <1>0, <1>1 DEF Maps, Kinds
<1>7. /\ XrSchedulerNextFrameList' \in Seq(Work)
      /\ OnList(XrSchedulerNextFrameList, "next frame list", k, p)'
  <2>1. /\ XrSchedulerNextFrameList \in Seq(Work) /\ kind[m] # "next frame list"
        /\ OnList(XrSchedulerNextFrameList, "next frame list", kind, pos)
    BY <1>1, <1>4 DEF OnLists, Typed
  <2>2. \A v \in Work \ {m} :
          /\ (kind[v] = "next frame list" \/ k[v] = "next frame list") => k[v] = kind[v]
          /\ kind[v] = "next frame list" => p[v] = pos[v] + 1
    BY <1>5
  <2>3. /\ <<m>> \o XrSchedulerNextFrameList \in Seq(Work)
        /\ OnList(<<m>> \o XrSchedulerNextFrameList, "next frame list", k, p)
    <3>1. m \in Work /\ k[m] = "next frame list" /\ p[m] = 1
      BY <1>2, <1>5
    <3> QED BY <2>1, <2>2, <3>1, ListPrepend
  <2> QED BY <1>3, <2>3 DEF OnList
<1>8. OnLists(k, p)'
  <2>1. Collected \in Seq(Work) /\ XrSchedulerWorkList \in Seq(Work)
    BY <1>1, CollectedList DEF Typed
  <2>2. \A name \in {"main", "work list"} : \A v \in Work :
          (kind[v] = name \/ k[v] = name) => k[v] = kind[v] /\ p[v] = pos[v]
    BY <1>4, <1>5
  <2>3. OnList(Collected, "main", k, p)
    BY <1>1, <2>1, <2>2, ListKept DEF OnLists
  <2>4. OnList(XrSchedulerWorkList, "work list", k, p)
    BY <1>1, <2>1, <2>2, ListKept DEF OnLists
  <2> QED BY <1>2, <1>7, <2>3, <2>4, SMTT(30), ZenonT(40) DEF OnLists, OnList, Collected
<1>9. /\ Only(t) /\ thread' \in [Threads -> [pc : Labels, work : Somewhere, next : Somewhere,
                                                timeslice : Int, linking : Somewhere]]
      /\ thread'[t].pc = "late" /\ thread'[t].work = m /\ thread'[t].timeslice = 0
      /\ thread'[t].next = thread[t].next /\ thread'[t].linking = None
      /\ \A v \in Work : InHand(t, v)' <=> v = None
      /\ ThreadOK(t)'
  <2>1. 0 \in Int /\ thread[t].work \in Devices
    BY <1>2
  <2> QED BY <1>1, <1>2, <2>1, WrittenLate
<1>10. /\ Enqueued' \in [Work -> BOOLEAN]
       /\ \A v \in Work : Enqueued'[v] => Enqueued[v] \/ v = m
  BY <1>1, <1>2, <1>3 DEF Typed
<1>11. Typed'
  BY <1>1, <1>2, <1>7, <1>9, <1>10 DEF Typed
<1>12. Present(k)'
  <2>1. \A v \in Work : k[v] = "none" <=> kind[v] = "none"
    BY <1>4, <1>5
  <2>2. \A d \in Devices : Enqueued'[d] => Enqueued[d] \/ d = m
    BY <1>10 DEF Work
  <2> QED BY <1>1, <1>2, <2>1, <2>2 DEF Present
<1>13. Unpopped(k)'
  <2>1. \A u \in Threads : u # t => (At(u, "late")' <=> At(u, "late")) /\ thread'[u] = thread[u]
    BY <1>9 DEF Only, At
  <2>2. \A d \in Ports : d \in Work
    BY DEF Work, Devices
  <2>3. \A d \in Work : k[d] \in {"main", "work list"} <=> kind[d] \in {"main", "work list"}
    BY <1>4, <1>5
  <2>4. \A d \in Ports : PreferredThread'[d] = None /\ k[d] \notin {"main", "work list"} =>
          Timeslice'[d] <= 0
    BY <1>1, <1>2, <2>2, <2>3 DEF Unpopped
  <2>5. ASSUME NEW u \in Threads, At(u, "late")', Mine(u)' \in Ports,
               PreferredThread'[Mine(u)'] = None
        PROVE  thread'[u].timeslice <= 0
    <3>1. CASE u = t
      BY <1>9, <3>1
    <3>2. CASE u # t
      <4>1. At(u, "late") /\ Mine(u)' = Mine(u) /\ thread'[u] = thread[u]
        BY <2>1, <2>5, <3>2 DEF Mine
      <4> QED BY <1>1, <1>2, <2>5, <4>1 DEF Unpopped
    <3> QED BY <3>1, <3>2
  <2> QED BY <2>4, <2>5 DEF Unpopped
<1>14. \A v \in Work : InHand(t, v) <=> v = m
  BY <1>2, NoneApart DEF InHand, Mine
<1>15. None \in Somewhere /\ m \in Somewhere
  BY <1>2 DEF Somewhere
<1>16. /\ thread'[t].pc # "clear"
       /\ \A v \in Work : Enqueued'[v] =>
            Enqueued[v] \/ kind[v] = "none" \/ (kind[v] = "running" /\ pos[v] = t)
  BY <1>4, <1>9, <1>10
<1>17. EndsTurn(kind, pos, owner, t, k, p, m, None)
  BY <1>2, <1>5, <1>6, <1>8, <1>9, <1>11, <1>12, <1>13, <1>14, <1>16 DEF EndsTurn
<1> QED BY <1>15, <1>17, TurnEnds

\* Thread t begins to enter w in its chain: its own work, or an idle device.
EntersChain(kind, t, m, w) ==
  /\ Only(t) /\ thread[t].pc = "func" /\ thread[t].work = m
  /\ thread' \in [Threads -> [pc : Labels, work : Somewhere, next : Somewhere,
                              timeslice : Int, linking : Somewhere]]
  /\ thread'[t].pc = "link" /\ thread'[t].work = m /\ thread'[t].linking = w
  /\ thread'[t].next = thread[t].next
  /\ w \in Work
  /\ w = m \/ (m \in Cpus /\ w \in Devices /\ kind[w] = "none")
  /\ PreferredThread[m] = t
  /\ Enqueued' = [Enqueued EXCEPT ![w] = TRUE]
  /\ WorkNext' = [WorkNext EXCEPT ![w] = ThreadNext[t]]
  /\ UNCHANGED <<XrSchedulerWorkList, XrSchedulerNextFrameList, ThreadNext, PreferredThread, main>>
  /\ Timeslice' \in [Work -> Int] /\ \A d \in Ports : Timeslice'[d] = Timeslice[d]
  /\ Busy' \in [Devices -> BOOLEAN] /\ \A d \in Devices : Busy'[d] <=> Busy[d] \/ d = w

\* XrScheduleWorkForMe up to the link.
LEMMA ForMePlaced ==
  ASSUME NEW kind, NEW pos, NEW owner, Placed(kind, pos, owner), NEW t \in Threads,
         NEW m, NEW w, EntersChain(kind, t, m, w)
  PROVE  \E k, p, o : Placed(k, p, o)'
<1>0. PICK k, p, o :
        /\ k = [v \in Work |-> IF v = w THEN "running" ELSE kind[v]]
        /\ p = [v \in Work |-> IF v = w THEN t ELSE pos[v]]
        /\ o = [v \in Work |-> IF v = w THEN t ELSE owner[v]]
  OBVIOUS
<1>1. /\ Typed /\ ThreadOK(t) /\ Maps(kind, pos, owner) /\ MainOK
      /\ OnLists(kind, pos) /\ OnChains(kind, pos) /\ OnLinks(kind, pos) /\ AsNext(kind, pos)
      /\ Running(kind, pos) /\ Present(kind) /\ LinkedOnly(kind, pos)
      /\ Owned(kind, pos, owner) /\ Unpopped(kind)
  BY DEF Placed
<1>2. /\ thread[t].pc = "func" /\ thread[t].work = m /\ m \in Work /\ w \in Work
      /\ thread[t].linking = None /\ ~Enqueued[m] /\ ThreadNext[t] \in Somewhere
  BY <1>1 DEF EntersChain, ThreadOK, Typed
<1>3. /\ Only(t) /\ thread'[t].pc = "link" /\ thread'[t].work = m /\ thread'[t].linking = w
      /\ thread'[t].next = thread[t].next
      /\ UNCHANGED <<XrSchedulerWorkList, XrSchedulerNextFrameList, ThreadNext, PreferredThread,
                     main>>
      /\ PreferredThread[m] = t
  BY DEF EntersChain
<1>4. kind[m] = "running" /\ pos[m] = t /\ owner[m] = t
  BY <1>1, <1>2 DEF Running, InHand, Mine, Owned
<1>5. w # m => m \in Cpus /\ w \in Devices /\ w \notin Cpus /\ kind[w] = "none"
  BY WorkAssumption DEF EntersChain
<1>6. kind[w] \in {"running", "none"} /\ (kind[w] = "running" => w = m) /\ WorkNext[w] = None
  <2>1. kind[w] \in {"running", "none"} /\ (kind[w] = "running" => w = m)
    BY <1>4, <1>5
  <2>2. WorkNext[w] = None
    BY <1>1, <1>2, <1>4, <2>1, NoneApart DEF LinkedOnly
  <2> QED BY <2>1, <2>2
<1>7. /\ \A v \in Work : v # w => k[v] = kind[v] /\ p[v] = pos[v] /\ o[v] = owner[v]
      /\ k[w] = "running" /\ p[w] = t /\ o[w] = t
  BY <1>0, <1>2
<1>8. /\ WorkNext' \in [Work -> Somewhere] /\ WorkNext'[w] = ThreadNext[t]
      /\ \A v \in Work : v # w => WorkNext'[v] = WorkNext[v]
      /\ Enqueued' \in [Work -> BOOLEAN] /\ Enqueued'[w]
      /\ \A v \in Work : v # w => Enqueued'[v] = Enqueued[v]
  BY <1>1, <1>2 DEF EntersChain, Typed
<1>9. ThreadNext[t] # None =>
        /\ ThreadNext[t] \in Work /\ kind[ThreadNext[t]] = "chain" /\ owner[ThreadNext[t]] = t
        /\ ThreadNext[t] # w
  <2>1. ThreadNext[t] # None =>
          ThreadNext[t] \in Work /\ kind[ThreadNext[t]] = "chain" /\ pos[ThreadNext[t]] = t
    BY <1>1, <1>2 DEF OnChains, At, Somewhere
  <2> QED BY <1>1, <1>6, <2>1 DEF Owned
<1>10. Typed'
  BY <1>1, <1>3, <1>8 DEF Typed, EntersChain
<1>11. ThreadOK(t)'
  BY <1>1, <1>2, <1>3, <1>5, <1>8, NoneApart DEF ThreadOK
<1>12. MainOK' /\ \A u \in Threads \ {t} : ThreadOK(u)'
  <2>1. \A v \in Work : kind[v] = "running" /\ pos[v] # t =>
          WorkNext'[v] = WorkNext[v] /\ PreferredThread'[v] = PreferredThread[v]
    BY <1>3, <1>4, <1>6, <1>8
  <2>2. \A v \in Work : Enqueued'[v] =>
          Enqueued[v] \/ kind[v] = "none" \/ (kind[v] = "running" /\ pos[v] = t)
    BY <1>4, <1>6, <1>8
  <2>3. UNCHANGED main /\ \A u \in Threads \ {t} : ThreadNext'[u] = ThreadNext[u]
    BY <1>3
  <2> QED BY <1>3, <2>1, <2>2, <2>3, KeepMarks
<1>13. OnLists(k, p)'
  <2>1. \A v \in Work : {kind[v], k[v]} \cap {"work list", "next frame list", "main"} # {} =>
          k[v] = kind[v] /\ p[v] = pos[v]
    BY <1>6, <1>7
  <2> QED BY <1>3, <2>1, KeepLists
<1>14. OnChains(k, p)'
  <2>1. Alike(kind, pos, k, p, "chain") /\ (At(t, "clear")' <=> At(t, "clear"))
    BY <1>2, <1>3, <1>6, <1>7 DEF Alike, At
  <2> QED BY <1>1, <1>3, <2>1, KeepChains
<1>15. OnLinks(k, p)'
  <2>1. \A v \in Work : Linking(v)' <=> Linking(v) \/ v = w
    BY <1>2, <1>3, NoneApart DEF Linking, Only
  <2>2. ASSUME NEW v \in Work, WorkNext'[v] # None, ~Linking(v)'
        PROVE  k[WorkNext'[v]] = "link" /\ p[WorkNext'[v]] = v
    <3>1. v # w /\ WorkNext'[v] = WorkNext[v] /\ WorkNext[v] \in Work /\ ~Linking(v)
      BY <1>1, <1>8, <2>1, <2>2 DEF Typed, Somewhere
    <3>2. kind[WorkNext[v]] = "link" /\ pos[WorkNext[v]] = v
      BY <1>1, <2>2, <3>1 DEF OnLinks
    <3> QED BY <1>6, <1>7, <3>1, <3>2
  <2>3. ASSUME NEW v \in Work, k[v] = "link"
        PROVE  p[v] \in Work /\ WorkNext'[p[v]] = v /\ ~Linking(p[v])'
    <3>1. v # w /\ kind[v] = "link" /\ p[v] = pos[v] /\ v # None
      BY <1>7, <2>3, NoneApart
    <3>2. pos[v] \in Work /\ WorkNext[pos[v]] = v /\ ~Linking(pos[v])
      BY <1>1, <3>1 DEF OnLinks
    <3>3. pos[v] # w
      BY <1>6, <3>1, <3>2
    <3>4. WorkNext'[pos[v]] = v
      BY <1>8, <3>2, <3>3
    <3>5. ~Linking(pos[v])'
      BY <2>1, <3>2, <3>3
    <3> QED BY <3>1, <3>2, <3>4, <3>5
  <2> QED BY <2>2, <2>3 DEF OnLinks
<1>16. AsNext(k, p)'
  <2>1. Alike(kind, pos, k, p, "next")
    BY <1>6, <1>7 DEF Alike
  <2> QED BY <1>1, <1>3, <2>1, KeepNext
<1>17. Running(k, p)'
  <2>1. \A u \in Threads \ {t}, v \in Work : InHand(u, v)' <=> InHand(u, v)
    BY <1>3 DEF Only, InHand, Mine
  <2>2. \A v \in Work : InHand(t, v) <=> v = m
    BY <1>2, NoneApart DEF InHand, Mine
  <2>3. \A v \in Work : InHand(t, v)' <=> v = m \/ v = w
    BY <1>2, <1>3 DEF InHand, Mine
  <2> QED BY <1>1, <1>4, <1>6, <1>7, <2>1, <2>2, <2>3 DEF Running
<1>18. Present(k)'
  <2>1. \A d \in Devices : d \in Work /\ d \notin Cpus /\ (Busy'[d] <=> Busy[d] \/ d = w)
    BY WorkAssumption DEF EntersChain, Work
  <2>2. \A v \in Work : v \notin Cpus => v \in Devices
    BY DEF Work
  <2>3. ASSUME NEW v \in Work PROVE k[v] = "none" <=> ~(v \in Cpus \/ Busy'[v])
    <3>1. CASE v = w
      BY <1>7, <2>1, <2>2, <3>1
    <3>2. CASE v # w
      BY <1>1, <1>7, <2>1, <2>2, <3>2 DEF Present
    <3> QED BY <3>1, <3>2
  <2>4. \A d \in Devices : Enqueued'[d] => Busy'[d]
    BY <1>1, <1>8, <2>1 DEF Present
  <2> QED BY <2>3, <2>4 DEF Present
<1>19. LinkedOnly(k, p)'
  <2> SUFFICES ASSUME NEW v \in Work, WorkNext'[v] # None
               PROVE  \/ k[v] \in {"chain", "link", "next"}
                      \/ k[v] = "running" /\ (\/ thread'[p[v]].pc \in {"clear", "dequeued", "unlink"}
                                              \/ thread'[p[v]].linking = v)
    BY DEF LinkedOnly
  <2>1. CASE v = w
    BY <1>3, <1>7, <2>1
  <2>2. CASE v # w
    <3>1. /\ WorkNext[v] # None /\ k[v] = kind[v] /\ p[v] = pos[v]
      BY <1>7, <1>8, <2>2
    <3>2. \/ kind[v] \in {"chain", "link", "next"}
          \/ kind[v] = "running" /\ (\/ thread[pos[v]].pc \in {"clear", "dequeued", "unlink"}
                                     \/ thread[pos[v]].linking = v)
      BY <1>1, <3>1 DEF LinkedOnly
    <3>3. pos[v] # t \/ kind[v] # "running"
      BY <1>2, <3>2, NoneApart
    <3>4. kind[v] = "running" => pos[v] \in Threads
      BY <1>1 DEF Running
    <3> QED BY <1>3, <3>1, <3>2, <3>3, <3>4 DEF Only
  <2> QED BY <2>1, <2>2
<1>20. Owned(k, p, o)'
  <2>1. \A v \in Work : k[v] \in {"chain", "next", "running"} => o[v] = p[v]
    BY <1>1, <1>7 DEF Owned
  <2>2. ASSUME NEW v \in Work, WorkNext'[v] # None PROVE o[WorkNext'[v]] = o[v]
    <3>1. CASE v = w
      BY <1>7, <1>8, <1>9, <2>2, <3>1
    <3>2. CASE v # w
      <4>1. WorkNext'[v] = WorkNext[v] /\ WorkNext[v] # None
        BY <1>8, <2>2, <3>2
      <4>2. WorkNext[v] \in Work /\ WorkNext[v] # w
        BY <1>6, <4>1, LinkTarget
      <4> QED BY <1>1, <1>7, <3>2, <4>1, <4>2 DEF Owned
    <3> QED BY <3>1, <3>2
  <2>3. \A c \in Cpus : o[c] = PreferredThread'[c]
    BY <1>1, <1>3, <1>5, <1>7 DEF Owned, Work
  <2> QED BY <2>1, <2>2, <2>3 DEF Owned
<1>21. Unpopped(k)'
  <2>1. ~At(t, "late")'
    BY <1>3 DEF At
  <2>2. \A d \in Work : k[d] \in {"main", "work list"} <=> kind[d] \in {"main", "work list"}
    BY <1>6, <1>7
  <2>3. UNCHANGED PreferredThread /\ \A d \in Ports : Timeslice'[d] = Timeslice[d]
    BY DEF EntersChain
  <2> QED BY <1>1, <1>3, <2>1, <2>2, <2>3, KeepUnpopped
<1>22. Maps(k, p, o)
  BY <1>0, <1>1 DEF Maps, Kinds
<1> QED BY <1>10, <1>11, <1>12, <1>13, <1>14, <1>15, <1>16, <1>17, <1>18, <1>19, <1>20, <1>21,
           <1>22, AllPlaced

\* A host thread prefers itself to run the processor it has in hand.
LEMMA CpuPrefers ==
  ASSUME NEW kind, NEW pos, NEW owner, Placed(kind, pos, owner), NEW t \in Threads,
         thread[t].pc = "func"
  PROVE  /\ Mine(t) \in Work /\ kind[Mine(t)] = "running" /\ pos[Mine(t)] = t
         /\ Mine(t) \in Cpus => PreferredThread[Mine(t)] = t
<1>1. Mine(t) \in Work /\ InHand(t, Mine(t))
  BY DEF Placed, ThreadOK, InHand, Mine
<1>2. kind[Mine(t)] = "running" /\ pos[Mine(t)] = t
  BY <1>1 DEF Placed, Running
<1> QED BY <1>1, <1>2 DEF Placed, Owned

\* A processor starts the operation of a device, which is to run after it.
LEMMA StartDevicePlaced ==
  ASSUME NEW kind, NEW pos, NEW owner, Placed(kind, pos, owner), NEW t \in Threads,
         NEW d \in Devices, StartDevice(t, d)
  PROVE  \E k, p, o : Placed(k, p, o)'
<1>1. /\ Typed /\ Present(kind) /\ thread[t].pc = "func" /\ Mine(t) \in Cpus /\ ~Busy[d]
      /\ d \in Work /\ d \notin Cpus
  BY WorkAssumption DEF Placed, StartDevice, At, Work
<1>2. PreferredThread[Mine(t)] = t
  BY <1>1, CpuPrefers
<1>3. kind[d] = "none"
  BY <1>1 DEF Present
<1>4. /\ Only(t) /\ thread' \in [Threads -> [pc : Labels, work : Somewhere, next : Somewhere,
                                             timeslice : Int, linking : Somewhere]]
      /\ thread'[t].pc = "link" /\ thread'[t].work = Mine(t) /\ thread'[t].linking = d
      /\ thread'[t].next = thread[t].next
  <2>1. thread' = [thread EXCEPT ![t].pc = "link", ![t].linking = d] /\ d \in Somewhere
    BY <1>1 DEF StartDevice, Somewhere
  <2> QED BY ZenonT(40), <1>1, <2>1 DEF Typed, Labels, Only, Mine
<1>5. /\ Enqueued' = [Enqueued EXCEPT ![d] = TRUE]
      /\ WorkNext' = [WorkNext EXCEPT ![d] = ThreadNext[t]]
      /\ UNCHANGED <<XrSchedulerWorkList, XrSchedulerNextFrameList, ThreadNext, PreferredThread,
                     main>>
      /\ UNCHANGED Timeslice
  BY <1>2 DEF StartDevice, ForMe, lists, slices
<1>6. Busy' \in [Devices -> BOOLEAN] /\ \A v \in Devices : Busy'[v] <=> Busy[v] \/ v = d
  BY <1>1 DEF StartDevice, Typed
<1>7. Timeslice' \in [Work -> Int] /\ \A v \in Ports : Timeslice'[v] = Timeslice[v]
  BY <1>1, <1>5 DEF Typed
<1>8. EntersChain(kind, t, Mine(t), d)
  BY <1>1, <1>2, <1>3, <1>4, <1>5, <1>6, <1>7 DEF EntersChain, Mine
<1> QED BY <1>8, ForMePlaced

\* A processor that halted is polled again on its thread.
LEMMA CpuHaltedPlaced ==
  ASSUME NEW kind, NEW pos, NEW owner, Placed(kind, pos, owner), NEW t \in Threads,
         CpuHalted(t)
  PROVE  \E k, p, o : Placed(k, p, o)'
<1>w. PICK m : m = Mine(t)
  OBVIOUS
<1>1. Typed /\ thread[t].pc = "func" /\ m \in Cpus /\ m \in Work /\ m \notin Devices
  BY <1>w, WorkAssumption DEF Placed, CpuHalted, Execute, At, Work
<1>2. PreferredThread[m] = t
  BY <1>1, <1>w, CpuPrefers
<1>4. /\ Only(t) /\ thread' \in [Threads -> [pc : Labels, work : Somewhere, next : Somewhere,
                                             timeslice : Int, linking : Somewhere]]
      /\ thread'[t].pc = "link" /\ thread'[t].work = m /\ thread'[t].linking = m
      /\ thread'[t].next = thread[t].next /\ thread[t].work = m
  <2>1. /\ thread' = [thread EXCEPT ![t].pc = "link", ![t].linking = m] /\ m \in Somewhere
        /\ thread[t].work = m
    BY <1>1, <1>w DEF CpuHalted, Somewhere, Mine
  <2> QED BY ZenonT(40), <1>1, <2>1 DEF Typed, Labels, Only
<1>5. /\ Enqueued' = [Enqueued EXCEPT ![m] = TRUE]
      /\ WorkNext' = [WorkNext EXCEPT ![m] = ThreadNext[t]]
      /\ UNCHANGED <<XrSchedulerWorkList, XrSchedulerNextFrameList, ThreadNext, PreferredThread,
                     Busy, main>>
  BY <1>2, <1>w DEF CpuHalted, ForMe, lists, devices
<1>6. Busy' \in [Devices -> BOOLEAN] /\ \A v \in Devices : Busy'[v] <=> Busy[v] \/ v = m
  BY <1>1, <1>5 DEF Typed
<1>7. Timeslice' \in [Work -> Int] /\ \A v \in Ports : Timeslice'[v] = Timeslice[v]
  <2>1. PICK rest \in Int : Timeslice' = [Timeslice EXCEPT ![m] = rest]
    <3>1. \A rest \in 1 .. thread[t].timeslice : rest \in Int
      OBVIOUS
    <3> QED BY <1>w, <3>1 DEF CpuHalted, Execute
  <2>2. \A v \in Ports : v \in Work /\ v # m
    BY <1>1 DEF Work, Devices
  <2> QED BY <1>1, <2>1, <2>2 DEF Typed
<1>8. EntersChain(kind, t, m, m)
  BY <1>1, <1>2, <1>4, <1>5, <1>6, <1>7 DEF EntersChain
<1> QED BY <1>8, ForMePlaced

\* A port goes on on its chain.  It reads the chain of the thread it prefers, which is its
\* own only because there is no other.
LEMMA PortContinuesPlaced ==
  ASSUME NEW kind, NEW pos, NEW owner, Placed(kind, pos, owner), NEW t \in Threads,
         PortContinues(t), Ports = {} \/ \A u \in Threads : u = t
  PROVE  \E k, p, o : Placed(k, p, o)'
<1>w. PICK m : m = Mine(t)
  OBVIOUS
<1>1. /\ Typed /\ Unpopped(kind) /\ thread[t].pc = "func" /\ m \in Ports /\ m \in Work
      /\ m \in Devices /\ Busy[m] /\ Timeslice[m] > 1 /\ Timeslice[m] \in Int
  BY <1>w DEF Placed, PortContinues, Operating, At, Work, Devices, Typed
<1>2. PreferredThread[m] = t
  <2>1. kind[m] = "running"
    BY <1>1, <1>w, CpuPrefers
  <2>2. PreferredThread[m] # None
    <3>1. kind[m] \notin {"main", "work list"} /\ ~(Timeslice[m] <= 0)
      BY <1>1, <2>1
    <3> QED BY <1>1, <3>1 DEF Unpopped
  <2>3. PreferredThread[m] \in Threads
    BY <1>1, <2>2 DEF Typed
  <2> QED BY <1>1, <2>3
<1>4. /\ Only(t) /\ thread' \in [Threads -> [pc : Labels, work : Somewhere, next : Somewhere,
                                             timeslice : Int, linking : Somewhere]]
      /\ thread'[t].pc = "link" /\ thread'[t].work = m /\ thread'[t].linking = m
      /\ thread'[t].next = thread[t].next /\ thread[t].work = m
  <2>1. PICK rest \in Int :
          thread' = [thread EXCEPT ![t].pc = "link", ![t].linking = m, ![t].timeslice = rest]
    <3>1. \A rest \in 1 .. Timeslice[m] - 1 : rest \in Int
      BY <1>1
    <3> QED BY <1>w, <3>1 DEF PortContinues
  <2>2. m \in Somewhere /\ thread[t].work = m /\ "link" \in Labels
    BY <1>1, <1>w DEF Somewhere, Mine, Labels
  <2> DEFINE Records == [pc : Labels, work : Somewhere, next : Somewhere, timeslice : Int,
                         linking : Somewhere]
  <2>3. PICK new : new = [thread[t] EXCEPT !.pc = "link", !.linking = m, !.timeslice = rest]
    OBVIOUS
  <2>4. thread \in [Threads -> Records] /\ thread[t] \in Records
    BY <1>1 DEF Typed
  <2>5. /\ new \in Records /\ new.pc = "link" /\ new.work = m /\ new.linking = m
        /\ new.next = thread[t].next
    BY <2>2, <2>3, <2>4
  <2>6. thread' = [thread EXCEPT ![t] = new]
    BY <2>1, <2>3
  <2> HIDE DEF Records
  <2>7. thread' \in [Threads -> Records] /\ thread'[t] = new /\ Only(t)
    BY <2>4, <2>5, <2>6 DEF Only
  <2> QED BY <2>2, <2>5, <2>7 DEF Records
<1>5. /\ Enqueued' = [Enqueued EXCEPT ![m] = TRUE]
      /\ WorkNext' = [WorkNext EXCEPT ![m] = ThreadNext[t]]
      /\ UNCHANGED <<XrSchedulerWorkList, XrSchedulerNextFrameList, ThreadNext, PreferredThread,
                     Busy, main>>
      /\ UNCHANGED Timeslice
  BY <1>2, <1>w DEF PortContinues, ForMe, lists, slices
<1>6. Busy' \in [Devices -> BOOLEAN] /\ \A v \in Devices : Busy'[v] <=> Busy[v] \/ v = m
  BY <1>1, <1>5 DEF Typed
<1>7. Timeslice' \in [Work -> Int] /\ \A v \in Ports : Timeslice'[v] = Timeslice[v]
  BY <1>1, <1>5 DEF Typed
<1>8. EntersChain(kind, t, m, m)
  BY <1>1, <1>2, <1>4, <1>5, <1>6, <1>7 DEF EntersChain
<1> QED BY <1>8, ForMePlaced

\* Where the end of XrScheduleWorkForMe takes the thread: to the next of the chain (n) if
\* a processor entered itself.
LEMMA Linked ==
  ASSUME NEW kind, NEW pos, NEW owner, Placed(kind, pos, owner), NEW t \in Threads, Link(t),
         NEW m, NEW w, m = Mine(t), w = thread[t].linking
  PROVE  \E n \in Somewhere :
         /\ Only(t) /\ thread' \in [Threads -> [pc : Labels, work : Somewhere, next : Somewhere,
                                                timeslice : Int, linking : Somewhere]]
         /\ thread'[t].linking = None /\ thread'[t].pc \notin {"clear", "link"}
         /\ n = None => thread'[t].next = thread[t].next
         /\ n # None => /\ n = thread[t].next /\ thread'[t].next = None
                        /\ thread'[t].pc = "dequeued"
         /\ \A v \in Work : InHand(t, v)' <=> v = n \/ (v = m /\ w # m)
         /\ thread'[t].pc = "late" => thread'[t].work = m
         /\ ThreadOK(t)'
<1>1. /\ Typed /\ ThreadOK(t) /\ thread[t].pc = "link" /\ w \in Work /\ m \in Work
      /\ m = thread[t].work
  BY DEF Placed, Link, At, ThreadOK, Mine, Typed, Somewhere
<1>2. CASE w = m /\ w \in Cpus
  <2>1. PICK n : n = thread[t].next
    OBVIOUS
  <2>2. Finish(t)
    BY <1>2 DEF Link
  <2>3. /\ Only(t) /\ n \in Somewhere
        /\ thread' \in [Threads -> [pc : Labels, work : Somewhere, next : Somewhere,
                                    timeslice : Int, linking : Somewhere]]
        /\ thread'[t].pc = IF n = None THEN "fetch" ELSE "dequeued"
        /\ thread'[t].work = n /\ thread'[t].next = None /\ thread'[t].linking = None
        /\ \A v \in Work : InHand(t, v)' <=> v = n
        /\ ThreadOK(t)'
    BY <1>1, <2>1, <2>2, Finished
  <2> QED BY <1>2, <2>1, <2>3
<1>3. CASE ~(w = m /\ w \in Cpus)
  <2>1. PICK label : /\ label = IF w = m THEN "late" ELSE "func"
                     /\ thread' = [thread EXCEPT ![t].linking = None, ![t].pc = label]
    BY <1>3 DEF Link
  <2>2. label \in Labels /\ None \in Somewhere
    BY <2>1 DEF Labels, Somewhere
  <2>3. /\ Only(t) /\ thread' \in [Threads -> [pc : Labels, work : Somewhere, next : Somewhere,
                                               timeslice : Int, linking : Somewhere]]
        /\ thread'[t].pc = label /\ thread'[t].work = m /\ thread'[t].linking = None
        /\ thread'[t].next = thread[t].next
    BY ZenonT(40), <1>1, <2>1, <2>2 DEF Typed, Only
  <2>4. \A v \in Work : InHand(t, v)' <=> v = None \/ (v = m /\ w # m)
    BY <2>1, <2>3, NoneApart DEF InHand, Mine
  <2>5. ThreadOK(t)'
    <3>1. w = m => m \in Devices
      BY <1>1, <1>3 DEF Work
    <3>2. w # m => ~Enqueued'[m]
      BY <1>1 DEF ThreadOK, Link
    <3> QED BY <1>1, <2>1, <2>3, <3>1, <3>2 DEF ThreadOK
  <2> WITNESS None \in Somewhere
  <2> QED BY <2>1, <2>3, <2>4, <2>5
<1> QED BY <1>2, <1>3

\* The end of XrScheduleWorkForMe: the work entered is the first of the chain, and the
\* one that was is linked from it.
LEMMA LinkPlaced ==
  ASSUME NEW kind, NEW pos, NEW owner, Placed(kind, pos, owner), NEW t \in Threads, Link(t)
  PROVE  \E k, p, o : Placed(k, p, o)'
<1>w. PICK m, w, old : m = Mine(t) /\ w = thread[t].linking /\ old = ThreadNext[t]
  OBVIOUS
<1>n. PICK n \in Somewhere :
         /\ Only(t) /\ thread' \in [Threads -> [pc : Labels, work : Somewhere, next : Somewhere,
                                                timeslice : Int, linking : Somewhere]]
         /\ thread'[t].linking = None /\ thread'[t].pc \notin {"clear", "link"}
         /\ n = None => thread'[t].next = thread[t].next
         /\ n # None => /\ n = thread[t].next /\ thread'[t].next = None
                        /\ thread'[t].pc = "dequeued"
         /\ \A v \in Work : InHand(t, v)' <=> v = n \/ (v = m /\ w # m)
         /\ thread'[t].pc = "late" => thread'[t].work = m
         /\ ThreadOK(t)'
  BY <1>w, Linked
<1>0. PICK k, p :
        /\ k = [v \in Work |-> IF v = w THEN "chain" ELSE IF v = old THEN "link"
                               ELSE IF v = n THEN "running" ELSE kind[v]]
        /\ p = [v \in Work |-> IF v = old THEN w ELSE pos[v]]
  OBVIOUS
<1>1. /\ Typed /\ ThreadOK(t) /\ Maps(kind, pos, owner) /\ MainOK
      /\ OnLists(kind, pos) /\ OnChains(kind, pos) /\ OnLinks(kind, pos) /\ AsNext(kind, pos)
      /\ Running(kind, pos) /\ Present(kind) /\ LinkedOnly(kind, pos)
      /\ Owned(kind, pos, owner) /\ Unpopped(kind)
  BY DEF Placed
<1>2. /\ thread[t].pc = "link" /\ w \in Work /\ m \in Work /\ m = thread[t].work
      /\ old \in Somewhere /\ WorkNext[w] = old /\ PreferredThread[m] = t
  BY <1>1, <1>w DEF Link, At, ThreadOK, Mine, Typed, Somewhere
<1>3. /\ ThreadNext' = [ThreadNext EXCEPT ![t] = w]
      /\ UNCHANGED <<XrSchedulerWorkList, XrSchedulerNextFrameList, WorkNext, PreferredThread,
                     Enqueued, Timeslice, Busy, main>>
  BY <1>2, <1>w DEF Link, lists, slices
<1>4. /\ ThreadNext' \in [Threads -> Somewhere] /\ ThreadNext'[t] = w
      /\ \A u \in Threads : u # t => ThreadNext'[u] = ThreadNext[u]
  BY <1>1, <1>2, <1>3 DEF Typed, Somewhere
<1>5. \A v \in Work : InHand(t, v) <=> v = m \/ v = w
  BY <1>2, <1>w DEF InHand, Mine
<1>6. kind[w] = "running" /\ pos[w] = t /\ kind[m] = "running" /\ pos[m] = t
  BY <1>1, <1>2, <1>5 DEF Running
<1>7. \A v \in Work : v = old => kind[v] = "chain" /\ pos[v] = t
  BY <1>1, <1>2, <1>w, NoneApart DEF OnChains, At
<1>8. \A v \in Work : v = n => kind[v] = "next" /\ pos[v] = t
  BY <1>1, <1>n, NoneApart DEF AsNext
<1>9. /\ k[w] = "chain" /\ p[w] = t
      /\ \A v \in Work : v = old => k[v] = "link" /\ p[v] = w
      /\ \A v \in Work : v = n => k[v] = "running" /\ p[v] = t
      /\ \A v \in Work : v # w /\ v # old /\ v # n => k[v] = kind[v] /\ p[v] = pos[v]
  BY <1>0, <1>2, <1>6, <1>7, <1>8
<1>10. Maps(k, p, owner)
  BY <1>0, <1>1 DEF Maps, Kinds
<1>11. Typed'
  BY <1>1, <1>3, <1>4, <1>n DEF Typed
<1>12. MainOK' /\ \A u \in Threads \ {t} : ThreadOK(u)'
  BY <1>3, <1>4, <1>n, KeepMarks
<1>13. OnLists(k, p)'
  <2>1. \A v \in Work : {kind[v], k[v]} \cap {"work list", "next frame list", "main"} # {} =>
          k[v] = kind[v] /\ p[v] = pos[v]
    BY <1>6, <1>7, <1>8, <1>9
  <2> QED BY <1>3, <2>1, KeepLists
<1>14. OnChains(k, p)'
  <2>1. \A u \in Threads : u # t => (At(u, "clear")' <=> At(u, "clear"))
    BY <1>n DEF Only, At
  <2>2. ~At(t, "clear")'
    BY <1>n DEF At
  <2>3. ASSUME NEW u \in Threads, ThreadNext'[u] # None, ~At(u, "clear")'
        PROVE  k[ThreadNext'[u]] = "chain" /\ p[ThreadNext'[u]] = u
    <3>1. CASE u = t
      BY <1>4, <1>9, <3>1
    <3>2. CASE u # t
      <4>1. ThreadNext'[u] = ThreadNext[u] /\ ThreadNext[u] \in Work
        BY <1>1, <1>4, <2>3, <3>2 DEF Typed, Somewhere
      <4>2. kind[ThreadNext[u]] = "chain" /\ pos[ThreadNext[u]] = u
        BY <1>1, <2>1, <2>3, <3>2, <4>1 DEF OnChains
      <4> QED BY <1>6, <1>7, <1>8, <1>9, <3>2, <4>1, <4>2
    <3> QED BY <3>1, <3>2
  <2>4. ASSUME NEW v \in Work, k[v] = "chain"
        PROVE  p[v] \in Threads /\ ThreadNext'[p[v]] = v /\ ~At(p[v], "clear")'
    <3>1. CASE v = w
      BY <1>4, <1>9, <2>2, <3>1
    <3>2. CASE v # w
      <4>1. v # old /\ v # n /\ kind[v] = "chain" /\ p[v] = pos[v]
        BY <1>9, <2>4, <3>2
      <4>2. pos[v] \in Threads /\ ThreadNext[pos[v]] = v /\ ~At(pos[v], "clear")
        BY <1>1, <4>1 DEF OnChains
      <4>3. pos[v] # t
        BY <1>w, <4>1, <4>2
      <4> QED BY <1>4, <2>1, <4>1, <4>2, <4>3
    <3> QED BY <3>1, <3>2
  <2> QED BY <2>3, <2>4 DEF OnChains
<1>15. OnLinks(k, p)'
  <2>1. \A u \in Threads : u # t => thread[u].linking # w
    <3> SUFFICES ASSUME NEW u \in Threads, u # t, thread[u].linking = w PROVE FALSE
      OBVIOUS
    <3>1. thread[u].pc = "link"
      BY <1>2, NoneApart DEF Placed, ThreadOK
    <3>2. InHand(u, w)
      BY <3>1 DEF InHand
    <3> QED BY <1>1, <1>2, <1>6, <3>2 DEF Running
  <2>2. \A v \in Work : Linking(v)' <=> Linking(v) /\ v # w
    BY <1>n, <1>w, <2>1, NoneApart DEF Linking, Only
  <2>3. ASSUME NEW v \in Work, WorkNext[v] # None, ~Linking(v)'
        PROVE  k[WorkNext[v]] = "link" /\ p[WorkNext[v]] = v
    <3>0. WorkNext[v] \in Work
      BY <1>1, <2>3 DEF Typed, Somewhere
    <3>1. CASE v = w
      BY <1>2, <1>9, <3>0, <3>1
    <3>2. CASE v # w
      <4>1. kind[WorkNext[v]] = "link" /\ pos[WorkNext[v]] = v
        BY <1>1, <2>2, <2>3, <3>2 DEF OnLinks
      <4> QED BY <1>6, <1>7, <1>8, <1>9, <3>0, <4>1
    <3> QED BY <3>1, <3>2
  <2>4. ASSUME NEW v \in Work, k[v] = "link"
        PROVE  p[v] \in Work /\ WorkNext[p[v]] = v /\ ~Linking(p[v])'
    <3>1. CASE v = old
      BY <1>2, <1>9, <2>2, <3>1
    <3>2. CASE v # old
      <4>1. v # w /\ v # n /\ kind[v] = "link" /\ p[v] = pos[v]
        BY <1>9, <2>4, <3>2
      <4>2. pos[v] \in Work /\ WorkNext[pos[v]] = v /\ ~Linking(pos[v])
        BY <1>1, <4>1 DEF OnLinks
      <4> QED BY <2>2, <4>1, <4>2
    <3> QED BY <3>1, <3>2
  <2>5. WorkNext' = WorkNext
    BY <1>3
  <2> QED BY <2>3, <2>4, <2>5 DEF OnLinks
<1>16. AsNext(k, p)'
  <2>1. \A u \in Threads \ {t} : thread'[u] = thread[u]
    BY <1>n DEF Only
  <2>2. ASSUME NEW u \in Threads, thread'[u].next # None
        PROVE  k[thread'[u].next] = "next" /\ p[thread'[u].next] = u
    <3>1. thread[u].next = thread'[u].next /\ (u = t => n = None)
      BY <1>n, <2>1, <2>2
    <3>2. thread[u].next \in Work
      BY <1>1, <2>2, <3>1 DEF Typed, Somewhere
    <3>3. kind[thread[u].next] = "next" /\ pos[thread[u].next] = u
      BY <1>1, <2>2, <3>1 DEF AsNext
    <3>4. thread[u].next # n
      BY <1>8, <3>1, <3>2, <3>3, NoneApart
    <3> QED BY <1>6, <1>7, <1>9, <3>1, <3>2, <3>3, <3>4
  <2>3. ASSUME NEW v \in Work, k[v] = "next"
        PROVE  p[v] \in Threads /\ thread'[p[v]].next = v
    <3>1. v # n /\ kind[v] = "next" /\ p[v] = pos[v]
      BY <1>9, <2>3
    <3>2. pos[v] \in Threads /\ thread[pos[v]].next = v
      BY <1>1, <3>1 DEF AsNext
    <3>3. CASE pos[v] = t
      BY <1>n, <3>1, <3>2, <3>3
    <3>4. CASE pos[v] # t
      BY <2>1, <3>1, <3>2, <3>4
    <3> QED BY <3>3, <3>4
  <2> QED BY <2>2, <2>3 DEF AsNext
<1>17. Running(k, p)'
  <2>1. \A u \in Threads \ {t}, v \in Work : InHand(u, v)' <=> InHand(u, v)
    BY <1>n DEF Only, InHand, Mine
  <2>2. ASSUME NEW u \in Threads, NEW v \in Work, InHand(u, v)'
        PROVE  k[v] = "running" /\ p[v] = u
    <3>1. CASE u = t
      BY <1>6, <1>7, <1>9, <1>n, <2>2, <3>1
    <3>2. CASE u # t
      <4>1. kind[v] = "running" /\ pos[v] = u
        BY <1>1, <2>1, <2>2, <3>2 DEF Running
      <4> QED BY <1>6, <1>7, <1>8, <1>9, <3>2, <4>1
    <3> QED BY <3>1, <3>2
  <2>3. ASSUME NEW v \in Work, k[v] = "running"
        PROVE  p[v] \in Threads /\ InHand(p[v], v)'
    <3>1. CASE v = n
      BY <1>9, <1>n, <3>1
    <3>2. CASE v # n
      <4>1. v # w /\ v # old /\ kind[v] = "running" /\ p[v] = pos[v]
        BY <1>9, <2>3, <3>2
      <4>2. pos[v] \in Threads /\ InHand(pos[v], v)
        BY <1>1, <4>1 DEF Running
      <4>3. CASE pos[v] = t
        BY <1>5, <1>n, <4>1, <4>2, <4>3
      <4>4. CASE pos[v] # t
        BY <2>1, <4>1, <4>2, <4>4
      <4> QED BY <4>3, <4>4
    <3> QED BY <3>1, <3>2
  <2> QED BY <2>2, <2>3 DEF Running
<1>18. Present(k)'
  <2>1. \A v \in Work : k[v] = "none" <=> kind[v] = "none"
    BY <1>6, <1>7, <1>8, <1>9
  <2> QED BY <1>1, <1>3, <2>1 DEF Present
<1>19. LinkedOnly(k, p)'
  <2> SUFFICES ASSUME NEW v \in Work, WorkNext[v] # None
               PROVE  \/ k[v] \in {"chain", "link", "next"}
                      \/ k[v] = "running" /\ (\/ thread'[p[v]].pc \in {"clear", "dequeued", "unlink"}
                                              \/ thread'[p[v]].linking = v)
    BY <1>3 DEF LinkedOnly
  <2>1. CASE v = w \/ v = old
    BY <1>9, <2>1
  <2>2. CASE v = n
    BY <1>9, <1>n, <2>2, NoneApart
  <2>3. CASE v # w /\ v # old /\ v # n
    <3>1. k[v] = kind[v] /\ p[v] = pos[v]
      BY <1>9, <2>3
    <3>2. \/ kind[v] \in {"chain", "link", "next"}
          \/ kind[v] = "running" /\ (\/ thread[pos[v]].pc \in {"clear", "dequeued", "unlink"}
                                     \/ thread[pos[v]].linking = v)
      BY <1>1 DEF LinkedOnly
    <3>3. pos[v] # t \/ kind[v] # "running"
      BY <1>2, <1>w, <2>3, <3>2
    <3>4. kind[v] = "running" => pos[v] \in Threads
      BY <1>1 DEF Running
    <3> QED BY <1>n, <3>1, <3>2, <3>3, <3>4 DEF Only
  <2> QED BY <2>1, <2>2, <2>3
<1>20. Owned(k, p, owner)'
  <2>1. ASSUME NEW v \in Work, k[v] \in {"chain", "next", "running"} PROVE owner[v] = p[v]
    <3>1. kind[v] \in {"chain", "next", "running"} /\ p[v] = pos[v]
      BY <1>6, <1>8, <1>9, <2>1
    <3> QED BY <1>1, <3>1 DEF Owned
  <2> QED BY <1>1, <1>3, <2>1 DEF Owned
<1>21. Unpopped(k)'
  <2>1. \A d \in Work : k[d] \in {"main", "work list"} <=> kind[d] \in {"main", "work list"}
    BY <1>6, <1>7, <1>8, <1>9
  <2>2. \A d \in Ports : d \in Work
    BY DEF Work, Devices
  <2>3. \A d \in Ports : PreferredThread'[d] = None /\ k[d] \notin {"main", "work list"} =>
          Timeslice'[d] <= 0
    BY <1>1, <1>3, <2>1, <2>2 DEF Unpopped
  <2>4. ASSUME NEW u \in Threads, At(u, "late")', Mine(u)' \in Ports,
               PreferredThread'[Mine(u)'] = None
        PROVE  thread'[u].timeslice <= 0
    <3>1. CASE u = t
      BY <1>2, <1>3, <1>n, <2>4, <3>1, NoneApart DEF At, Mine
    <3>2. CASE u # t
      <4>1. At(u, "late") /\ Mine(u)' = Mine(u) /\ thread'[u] = thread[u]
        BY <1>n, <2>4, <3>2 DEF Mine, Only, At
      <4> QED BY <1>1, <1>3, <2>4, <4>1 DEF Unpopped
    <3> QED BY <3>1, <3>2
  <2> QED BY <2>3, <2>4 DEF Unpopped
<1> QED BY <1>10, <1>11, <1>12, <1>13, <1>14, <1>15, <1>16, <1>17, <1>18, <1>19, <1>20, <1>21,
           <1>n, AllPlaced

-----------------------------------------------------------------------------
(* The steps of the main thread.                                           *)

\* The main thread moves schedulables from list to list only.
MainMoves(kind, pos, owner, k, p) ==
  /\ Maps(k, p, owner) /\ Typed' /\ MainOK' /\ OnLists(k, p)' /\ Unpopped(k)'
  /\ UNCHANGED <<thread, ThreadNext, WorkNext, PreferredThread, Busy>>
  /\ \A w \in Work : Enqueued'[w] => Enqueued[w] \/ kind[w] = "main"
  /\ \A w \in Work :
       \/ k[w] = kind[w] /\ p[w] = pos[w]
       \/ {kind[w], k[w]} \subseteq {"work list", "next frame list", "main"}

\* What the host threads have, and what they rely on, is as it was.
LEMMA MainMoved ==
  ASSUME NEW kind, NEW pos, NEW owner, Placed(kind, pos, owner), NEW k, NEW p,
         MainMoves(kind, pos, owner, k, p)
  PROVE  \E kk, pp, oo : Placed(kk, pp, oo)'
<1>1. /\ Typed /\ \A t \in Threads : ThreadOK(t)
      /\ OnChains(kind, pos) /\ OnLinks(kind, pos) /\ AsNext(kind, pos)
      /\ Running(kind, pos) /\ Present(kind) /\ LinkedOnly(kind, pos)
      /\ Owned(kind, pos, owner)
  BY DEF Placed
<1>2. /\ UNCHANGED <<thread, ThreadNext, WorkNext, PreferredThread, Busy>>
      /\ \A w \in Work : Enqueued'[w] => Enqueued[w] \/ kind[w] = "main"
  BY DEF MainMoves
<1>3. \A name \in {"none", "chain", "link", "next", "running"} : \A w \in Work :
        name \in {kind[w], k[w]} => k[w] = kind[w] /\ p[w] = pos[w]
  BY DEF MainMoves
<1>4. ASSUME NEW t \in Threads PROVE ThreadOK(t)'
  <2>1. thread[t].pc \in {"unlink", "func", "link"} =>
          thread[t].work \in Work /\ (Enqueued'[thread[t].work] => Enqueued[thread[t].work])
    <3> SUFFICES ASSUME thread[t].pc \in {"unlink", "func", "link"}
                 PROVE  thread[t].work \in Work /\ kind[thread[t].work] # "main"
      BY <1>2
    <3>1. thread[t].work \in Work /\ InHand(t, thread[t].work)
      BY <1>1 DEF ThreadOK, InHand, Mine
    <3>2. kind[thread[t].work] = "running"
      BY <1>1, <3>1 DEF Running
    <3> QED BY <3>1, <3>2
  <2> QED BY <1>1, <1>2, <2>1 DEF ThreadOK
<1>5. OnChains(k, p)'
  <2>1. \A u \in Threads : ThreadNext[u] \in Somewhere
    BY <1>1 DEF Typed
  <2> QED BY <1>1, <1>2, <1>3, <2>1 DEF OnChains, At, Somewhere
<1>6. OnLinks(k, p)'
  <2>1. \A v \in Work : WorkNext[v] \in Somewhere
    BY <1>1 DEF Typed
  <2> QED BY <1>1, <1>2, <1>3, <2>1 DEF OnLinks, Linking, Somewhere
<1>7. AsNext(k, p)'
  <2>1. \A u \in Threads : thread[u].next \in Somewhere
    BY <1>1 DEF Typed
  <2> QED BY <1>1, <1>2, <1>3, <2>1 DEF AsNext, Somewhere
<1>8. Running(k, p)'
  BY <1>1, <1>2, <1>3 DEF Running, InHand, Mine
<1>9. Present(k)'
  <2>1. \A d \in Devices : d \in Work /\ d \notin Cpus
    BY WorkAssumption DEF Work
  <2>2. \A w \in Work : k[w] = "none" <=> kind[w] = "none"
    BY <1>3
  <2>3. \A d \in Devices : kind[d] = "main" => Busy[d]
    BY <1>1, <2>1 DEF Present
  <2> QED BY <1>1, <1>2, <2>1, <2>2, <2>3 DEF Present
<1>10. LinkedOnly(k, p)'
  BY <1>1, <1>2, <1>3 DEF LinkedOnly
<1>11. Owned(k, p, owner)'
  BY <1>1, <1>2, <1>3 DEF Owned
<1>12. Maps(k, p, owner)'
  BY DEF MainMoves, Maps
<1>13. Placed(k, p, owner)'
  BY <1>4, <1>5, <1>6, <1>7, <1>8, <1>9, <1>10, <1>11, <1>12 DEF MainMoves, Placed
<1> QED BY <1>13

\* The next frame list moves to main's.
LEMMA CollectPlaced ==
  ASSUME NEW kind, NEW pos, NEW owner, Placed(kind, pos, owner), Collect
  PROVE  \E k, p, o : Placed(k, p, o)'
<1>0. PICK k : k = [v \in Work |-> IF kind[v] = "next frame list" THEN "main" ELSE kind[v]]
  OBVIOUS
<1>1. Typed /\ Maps(kind, pos, owner) /\ MainOK /\ OnLists(kind, pos) /\ Unpopped(kind)
  BY DEF Placed
<1>2. main.pc = "collect" /\ main.frame = <<>> /\ Collected = <<>>
  BY <1>1 DEF Collect, MainAt, MainOK, Collected
<1>3. PICK list, dt : /\ list = XrSchedulerNextFrameList /\ list # <<>> /\ dt \in Nat
                      /\ main' = [pc |-> "start", frame |-> list, todo |-> list, dt |-> dt]
  <2>1. \A dt \in 0 .. MaxDt : dt \in Nat
    OBVIOUS
  <2> QED BY <2>1 DEF Collect
<1>4. /\ XrSchedulerNextFrameList' = <<>>
      /\ UNCHANGED <<XrSchedulerWorkList, ThreadNext, WorkNext, PreferredThread, Enqueued,
                     Timeslice, Busy, thread>>
  BY DEF Collect, chains, slices, devices
<1>5. list \in Seq(Work) /\ main'.pc = "start" /\ main'.frame = list /\ main'.todo = list
  BY <1>1, <1>3 DEF Typed
<1>6. Typed'
  <2>1. main' \in [pc : MainLabels, frame : Seq(Work), todo : Seq(Work), dt : Nat]
    BY <1>3, <1>5 DEF MainLabels
  <2>2. <<>> \in Seq(Work)
    OBVIOUS
  <2> QED BY <1>1, <1>4, <2>1, <2>2 DEF Typed
<1>7. MainOK'
  BY <1>3, <1>5 DEF MainOK
<1>8. \A v \in Work : kind[v] # "main"
  <2>1. OnList(<<>>, "main", kind, pos)
    BY <1>1, <1>2 DEF OnLists
  <2> QED BY <2>1 DEF OnList
<1>9. \A v \in Work :
        IF kind[v] = "next frame list" THEN k[v] = "main" ELSE k[v] = kind[v] /\ k[v] # "main"
  BY <1>0, <1>8
<1>10. OnLists(k, pos)'
  <2>1. OnList(XrSchedulerWorkList, "work list", k, pos)
    <3>1. XrSchedulerWorkList \in Seq(Work) /\ OnList(XrSchedulerWorkList, "work list", kind, pos)
      BY <1>1 DEF Typed, OnLists
    <3>2. \A v \in Work : (kind[v] = "work list" \/ k[v] = "work list") =>
            k[v] = kind[v] /\ pos[v] = pos[v]
      BY <1>9
    <3> QED BY <3>1, <3>2, ListKept
  <2>2. OnList(<<>>, "next frame list", k, pos)
    <3>1. \A v \in Work : k[v] # "next frame list"
      BY <1>9
    <3>2. 1 .. Len(<<>>) = {}
      OBVIOUS
    <3> QED BY <3>1, <3>2 DEF OnList
  <2>3. OnList(list, "main", k, pos)
    <3>1. OnList(list, "next frame list", kind, pos)
      BY <1>1, <1>3 DEF OnLists
    <3>2. \A i \in 1 .. Len(list) : list[i] \in Work
      BY <1>5
    <3> QED BY <1>9, <3>1, <3>2 DEF OnList
  <2>4. Collected' = list
    BY <1>5 DEF Collected
  <2> QED BY <1>4, <2>1, <2>2, <2>3, <2>4 DEF OnLists, OnList
<1>11. Unpopped(k)'
  <2>1. \A d \in Work : kind[d] \in {"main", "work list"} => k[d] \in {"main", "work list"}
    BY <1>9
  <2>2. \A d \in Ports : d \in Work
    BY DEF Work, Devices
  <2> QED BY <1>1, <1>4, <2>1, <2>2 DEF Unpopped, At, Mine
<1>12. \A v \in Work :
         \/ k[v] = kind[v] /\ pos[v] = pos[v]
         \/ {kind[v], k[v]} \subseteq {"work list", "next frame list", "main"}
  BY <1>9
<1>13. Maps(k, pos, owner)
  BY <1>0, <1>1 DEF Maps, Kinds
<1>14. MainMoves(kind, pos, owner, k, pos)
  BY <1>4, <1>6, <1>7, <1>10, <1>11, <1>12, <1>13 DEF MainMoves
<1> QED BY <1>14, MainMoved

\* The start of a timeslice, and Enqueued reset and set again: everything stays where it
\* is.
LEMMA MainStaysPlaced ==
  ASSUME NEW kind, NEW pos, NEW owner, Placed(kind, pos, owner),
         StartTimeslice \/ ResetEnqueued \/ TestEnqueued \/ PostFrame
  PROVE  \E k, p, o : Placed(k, p, o)'
<1>1. Typed /\ Maps(kind, pos, owner) /\ MainOK /\ OnLists(kind, pos) /\ Unpopped(kind)
  BY DEF Placed
<1>w. PICK todo, w : todo = main.todo /\ w = Head(todo)
  OBVIOUS
<1>2. /\ main.pc \in {"start", "enqueue", "any", "post"}
      /\ todo \in Seq(Work) /\ todo # <<>> /\ Len(todo) \in Nat \ {0}
      /\ w \in Work /\ w = todo[1] /\ 1 \in 1 .. Len(todo)
      /\ Tail(todo) \in Seq(Work) /\ Len(Tail(todo)) = Len(todo) - 1
      /\ \A i \in 1 .. Len(Tail(todo)) : Tail(todo)[i] = todo[i + 1] /\ i + 1 \in 1 .. Len(todo)
  <2>1. main.pc \in {"start", "enqueue", "any", "post"}
    BY DEF StartTimeslice, ResetEnqueued, TestEnqueued, PostFrame, MainAt
  <2>2. todo \in Seq(Work) /\ todo # <<>>
    BY <1>1, <1>w, <2>1 DEF Typed, MainOK
  <2>3. /\ Len(todo) \in Nat \ {0} /\ w \in Work /\ w = todo[1] /\ 1 \in 1 .. Len(todo)
        /\ Tail(todo) \in Seq(Work) /\ Len(Tail(todo)) = Len(todo) - 1
    BY <1>w, <2>2
  <2>4. \A i \in 1 .. Len(Tail(todo)) : Tail(todo)[i] = todo[i + 1] /\ i + 1 \in 1 .. Len(todo)
    BY <2>2, <2>3
  <2> QED BY <2>1, <2>2, <2>3, <2>4
<1>3. UNCHANGED <<XrSchedulerWorkList, XrSchedulerNextFrameList, ThreadNext, WorkNext,
                  PreferredThread, Busy, thread>>
  BY DEF StartTimeslice, ResetEnqueued, TestEnqueued, PostFrame, lists, chains, devices
<1>4. w \in Work /\ (main.pc \in {"start", "enqueue", "any"} => kind[w] = "main")
  <2>1. CASE main.pc = "start"
    <3>1. PICK j \in 1 .. Len(main.frame) : main.frame[j] = w
      BY <1>1, <1>2, <1>w, <2>1 DEF MainOK
    <3>2. OnList(main.frame, "main", kind, pos)
      BY <1>1, <2>1 DEF OnLists, Collected
    <3> QED BY <1>2, <3>1, <3>2 DEF OnList
  <2>2. CASE main.pc \in {"enqueue", "any"}
    BY <1>w, <2>2, MainHead
  <2> QED BY <1>2, <2>1, <2>2
<1>5. /\ Enqueued' \in [Work -> BOOLEAN]
      /\ \A v \in Work : Enqueued'[v] => Enqueued[v] \/ kind[v] = "main"
      /\ ResetEnqueued => ~Enqueued'[w]
  <2>1. CASE StartTimeslice \/ PostFrame
    BY <1>1, <1>w, <2>1 DEF Typed, StartTimeslice, PostFrame, ResetEnqueued, MainAt
  <2>2. CASE ResetEnqueued
    BY <1>1, <1>w, <1>4, <2>2 DEF Typed, ResetEnqueued
  <2>3. CASE TestEnqueued
    <3>1. main.pc = "any" /\ (UNCHANGED Enqueued \/ Enqueued' = [Enqueued EXCEPT ![w] = TRUE])
      BY <1>w, <2>3 DEF TestEnqueued, MainAt
    <3> QED BY <1>1, <1>4, <3>1 DEF Typed, ResetEnqueued, MainAt
  <2> QED BY <2>1, <2>2, <2>3
<1>6. /\ Timeslice' \in [Work -> Int]
      /\ \A v \in Work : Timeslice'[v] = Timeslice[v] \/ kind[v] = "main"
  <2>1. CASE StartTimeslice
    <3>1. PICK slice : Timeslice' = [Timeslice EXCEPT ![w] = slice] /\ slice \in Int
      <4>1. main.dt \in Int /\ Timeslice[w] \in Int /\ StepMs \in Int
        BY <1>1, <1>4, WorkAssumption DEF Typed
      <4>2. PICK slice : /\ Timeslice' = [Timeslice EXCEPT ![w] = slice]
                         /\ slice \in {main.dt, StepMs, Timeslice[w] + main.dt}
        <5>1. \/ Timeslice' = [Timeslice EXCEPT ![w] = main.dt]
              \/ Timeslice' = [Timeslice EXCEPT ![w] =
                   IF Timeslice[w] + main.dt >= StepMs * 50 THEN StepMs ELSE Timeslice[w] + main.dt]
          BY <1>1, <1>4, <1>w, <2>1 DEF StartTimeslice, Typed
        <5> QED BY <5>1
      <4>3. slice = main.dt \/ slice = StepMs \/ slice = Timeslice[w] + main.dt
        BY <4>2
      <4>4. Timeslice[w] + main.dt \in Int
        BY <4>1
      <4>5. slice \in Int
        BY <4>1, <4>3, <4>4
      <4> QED BY <4>2, <4>5
    <3> QED BY <1>1, <1>4, <2>1, <3>1 DEF Typed, StartTimeslice, MainAt
  <2>2. CASE ResetEnqueued \/ TestEnqueued \/ PostFrame
    BY <1>1, <2>2 DEF Typed, ResetEnqueued, TestEnqueued, PostFrame, slices
  <2> QED BY <2>1, <2>2
<1>7. /\ main' \in [pc : MainLabels, frame : Seq(Work), todo : Seq(Work), dt : Nat]
      /\ Collected' = Collected /\ MainOK'
  <2>0. main \in [pc : MainLabels, frame : Seq(Work), todo : Seq(Work), dt : Nat]
    BY <1>1 DEF Typed
  <2>1. CASE StartTimeslice
    <3>1. main.pc = "start" /\ Collected = main.frame
      BY <2>1 DEF StartTimeslice, MainAt, Collected
    <3>2. CASE Len(todo) > 1
      <4>1. main' = [main EXCEPT !.todo = Tail(todo)]
        BY <1>w, <2>1, <3>2 DEF StartTimeslice
      <4>2. /\ main' \in [pc : MainLabels, frame : Seq(Work), todo : Seq(Work), dt : Nat]
            /\ main'.pc = "start" /\ main'.frame = main.frame /\ main'.todo = Tail(todo)
        BY <1>2, <2>0, <3>1, <4>1
      <4>3. Collected' = Collected
        BY <3>1, <4>2 DEF Collected
      <4>4. Tail(todo) # <<>>
        BY <1>2, <3>2
      <4>5. MainOK'
        BY <1>1, <1>2, <1>w, <3>1, <4>2, <4>4 DEF MainOK
      <4> QED BY <4>2, <4>3, <4>5
    <3>3. CASE ~(Len(todo) > 1)
      <4>1. main' = [main EXCEPT !.pc = "enqueue", !.todo = main.frame]
        BY <1>w, <2>1, <3>3 DEF StartTimeslice
      <4>2. /\ main' \in [pc : MainLabels, frame : Seq(Work), todo : Seq(Work), dt : Nat]
            /\ main'.pc = "enqueue" /\ main'.todo = main.frame
        BY <2>0, <4>1 DEF MainLabels
      <4> QED BY <1>1, <3>1, <4>2 DEF Collected, MainOK
    <3> QED BY <3>2, <3>3
  <2>2. CASE ResetEnqueued
    <3>1. main.pc = "enqueue" /\ main' = [main EXCEPT !.pc = "any"]
      BY <2>2 DEF ResetEnqueued, MainAt
    <3>2. /\ main' \in [pc : MainLabels, frame : Seq(Work), todo : Seq(Work), dt : Nat]
          /\ main'.pc = "any" /\ main'.todo = todo
      BY <1>w, <2>0, <3>1 DEF MainLabels
    <3> QED BY <1>2, <1>5, <1>w, <2>2, <3>1, <3>2 DEF Collected, MainOK
  <2>3. CASE TestEnqueued
    <3>1. main.pc = "any" /\ ~Enqueued[Head(main.todo)]
      BY <1>1, <2>3 DEF TestEnqueued, MainAt, MainOK
    <3>2. main' = [main EXCEPT !.pc = "insert"]
      BY <2>3, <3>1 DEF TestEnqueued
    <3>3. /\ main' \in [pc : MainLabels, frame : Seq(Work), todo : Seq(Work), dt : Nat]
          /\ main'.pc = "insert" /\ main'.todo = todo
      BY <1>w, <2>0, <3>2 DEF MainLabels
    <3> QED BY <1>2, <1>w, <3>1, <3>3 DEF Collected, MainOK
  <2>4. CASE PostFrame
    <3>1. main.pc = "post" /\ Collected = Tail(todo)
      BY <1>w, <2>4 DEF PostFrame, MainAt, Collected
    <3>2. CASE Len(todo) > 1
      <4>1. main' = [main EXCEPT !.pc = "enqueue", !.todo = Tail(todo)]
        <5>1. main' = [main EXCEPT !.pc = "enqueue", !.todo = Tail(todo),
                                   !.frame = main.frame, !.dt = main.dt]
          BY <1>w, <2>0, <2>4, <3>2 DEF PostFrame, NextOfFrame
        <5> QED BY <2>0, <5>1
      <4>2. /\ main' \in [pc : MainLabels, frame : Seq(Work), todo : Seq(Work), dt : Nat]
            /\ main'.pc = "enqueue" /\ main'.todo = Tail(todo)
        BY <1>2, <2>0, <4>1 DEF MainLabels
      <4>3. Tail(todo) # <<>>
        BY <1>2, <3>2
      <4> QED BY <3>1, <4>2, <4>3 DEF Collected, MainOK
    <3>3. CASE ~(Len(todo) > 1)
      <4>1. main' = [main EXCEPT !.pc = "collect", !.todo = Tail(todo), !.frame = <<>>, !.dt = 0]
        BY <1>w, <2>4, <3>3 DEF PostFrame, NextOfFrame
      <4>2. /\ main' \in [pc : MainLabels, frame : Seq(Work), todo : Seq(Work), dt : Nat]
            /\ main'.pc = "collect" /\ main'.frame = <<>>
        <5>1. <<>> \in Seq(Work) /\ 0 \in Nat /\ "collect" \in MainLabels
          BY DEF MainLabels
        <5> QED BY <1>2, <2>0, <4>1, <5>1
      <4>3. Tail(todo) = <<>>
        BY <1>2, <3>3
      <4> QED BY <3>1, <4>2, <4>3 DEF Collected, MainOK
    <3> QED BY <3>2, <3>3
  <2> QED BY <2>1, <2>2, <2>3, <2>4
<1>8. Typed'
  BY <1>1, <1>3, <1>5, <1>6, <1>7 DEF Typed
<1>9. OnLists(kind, pos)'
  BY <1>1, <1>3, <1>7 DEF OnLists, OnList
<1>10. Unpopped(kind)'
  <2>1. \A d \in Ports : d \in Work
    BY DEF Work, Devices
  <2> QED BY <1>1, <1>3, <1>6, <2>1 DEF Unpopped, At, Mine
<1>11. MainMoves(kind, pos, owner, kind, pos)
  BY <1>1, <1>3, <1>5, <1>7, <1>8, <1>9, <1>10 DEF MainMoves
<1> QED BY <1>11, MainMoved

\* InsertTailList for the first of the frame.
LEMMA InsertFramePlaced ==
  ASSUME NEW kind, NEW pos, NEW owner, Placed(kind, pos, owner), InsertFrame
  PROVE  \E k, p, o : Placed(k, p, o)'
<1>w. PICK todo, w : todo = main.todo /\ w = Head(todo)
  OBVIOUS
<1>0. PICK k, p :
        /\ k = [v \in Work |-> IF v = w THEN "work list" ELSE kind[v]]
        /\ p = [v \in Work |-> IF v = w THEN Len(XrSchedulerWorkList) + 1
                               ELSE IF kind[v] = "main" THEN pos[v] - 1 ELSE pos[v]]
  OBVIOUS
<1>1. Typed /\ Maps(kind, pos, owner) /\ MainOK /\ OnLists(kind, pos) /\ Unpopped(kind)
  BY DEF Placed
<1>2. /\ main.pc = "insert" /\ todo \in Seq(Work) /\ todo # <<>> /\ w \in Work
      /\ kind[w] = "main" /\ Collected = todo
  <2>1. main.pc = "insert"
    BY DEF InsertFrame, MainAt
  <2> QED BY <1>1, <1>w, <2>1, MainHead DEF Typed, Collected
<1>3. /\ XrSchedulerWorkList' = Append(XrSchedulerWorkList, w)
      /\ main' = [main EXCEPT !.pc = "post"]
      /\ UNCHANGED <<XrSchedulerNextFrameList, ThreadNext, WorkNext, PreferredThread, Enqueued,
                     Timeslice, Busy, thread>>
  BY <1>w DEF InsertFrame, InsertWork, chains, slices, devices
<1>4. /\ main' \in [pc : MainLabels, frame : Seq(Work), todo : Seq(Work), dt : Nat]
      /\ main'.pc = "post" /\ main'.todo = todo
  BY <1>1, <1>3, <1>w DEF Typed, MainLabels
<1>5. Collected' = Tail(todo) /\ MainOK'
  BY <1>2, <1>4 DEF Collected, MainOK
<1>6. /\ k[w] = "work list" /\ p[w] = Len(XrSchedulerWorkList) + 1
      /\ \A v \in Work \ {w} :
           k[v] = kind[v] /\ p[v] = IF kind[v] = "main" THEN pos[v] - 1 ELSE pos[v]
  BY <1>0, <1>2
<1>7. /\ XrSchedulerWorkList' \in Seq(Work)
      /\ OnList(Append(XrSchedulerWorkList, w), "work list", k, p)
  <2>1. /\ XrSchedulerWorkList \in Seq(Work) /\ kind[w] # "work list"
        /\ OnList(XrSchedulerWorkList, "work list", kind, pos)
    BY <1>1, <1>2 DEF OnLists, Typed
  <2>2. \A v \in Work \ {w} :
          (kind[v] = "work list" \/ k[v] = "work list") => k[v] = kind[v] /\ p[v] = pos[v]
    BY <1>6
  <2>3. w \in Work /\ k[w] = "work list" /\ p[w] = Len(XrSchedulerWorkList) + 1
    BY <1>2, <1>6
  <2>4. /\ Append(XrSchedulerWorkList, w) \in Seq(Work)
        /\ OnList(Append(XrSchedulerWorkList, w), "work list", k, p)
    BY <2>1, <2>2, <2>3, ListAppend
  <2> QED BY <1>3, <2>4
<1>8. OnList(Tail(todo), "main", k, p)
  <2>1. OnList(todo, "main", kind, pos)
    BY <1>1, <1>2 DEF OnLists
  <2>2. /\ k[Head(todo)] # "main"
        /\ \A v \in Work \ {Head(todo)} :
             /\ (kind[v] = "main" \/ k[v] = "main") => k[v] = kind[v]
             /\ kind[v] = "main" => p[v] = pos[v] - 1
    BY <1>6, <1>w
  <2> QED BY <1>2, <2>1, <2>2, ListRemove
<1>9. OnList(XrSchedulerNextFrameList, "next frame list", k, p)
  <2>1. /\ XrSchedulerNextFrameList \in Seq(Work)
        /\ OnList(XrSchedulerNextFrameList, "next frame list", kind, pos)
    BY <1>1 DEF OnLists, Typed
  <2>2. \A v \in Work : (kind[v] = "next frame list" \/ k[v] = "next frame list") =>
          k[v] = kind[v] /\ p[v] = pos[v]
    BY <1>2, <1>6
  <2> QED BY <2>1, <2>2, ListKept
<1>10. OnLists(k, p)'
  BY <1>3, <1>5, <1>7, <1>8, <1>9 DEF OnLists, OnList
<1>11. Typed'
  BY <1>1, <1>3, <1>4, <1>7 DEF Typed
<1>12. Unpopped(k)'
  <2>1. \A d \in Work : k[d] \in {"main", "work list"} <=> kind[d] \in {"main", "work list"}
    BY <1>2, <1>6
  <2>2. \A d \in Ports : d \in Work
    BY DEF Work, Devices
  <2> QED BY <1>1, <1>3, <2>1, <2>2 DEF Unpopped, At, Mine
<1>13. \A v \in Work :
         \/ k[v] = kind[v] /\ p[v] = pos[v]
         \/ {kind[v], k[v]} \subseteq {"work list", "next frame list", "main"}
  BY <1>2, <1>6
<1>14. Maps(k, p, owner)
  BY <1>0, <1>1 DEF Maps, Kinds
<1>15. MainMoves(kind, pos, owner, k, p)
  BY <1>3, <1>5, <1>10, <1>11, <1>12, <1>13, <1>14 DEF MainMoves
<1> QED BY <1>15, MainMoved
\* A thread that finds the work list empty waits again.
LEMMA PopEmptyPlaced ==
  ASSUME NEW kind, NEW pos, NEW owner, Placed(kind, pos, owner), NEW t \in Threads,
         PopWork(t), XrSchedulerWorkList = <<>>
  PROVE  \E k, p, o : Placed(k, p, o)'
<1>1. /\ Typed /\ ThreadOK(t) /\ OnChains(kind, pos)
      /\ thread[t].pc = "pop" /\ thread[t].linking = None
  BY DEF Placed, PopWork, At, ThreadOK
<1>2. /\ UNCHANGED <<XrSchedulerWorkList, XrSchedulerNextFrameList, main, WorkNext, ThreadNext,
                     PreferredThread, Busy, Timeslice, Enqueued>>
      /\ thread' = [thread EXCEPT ![t].pc = "wait"]
  BY DEF PopWork, Goto, slices, devices
<1>3. /\ Only(t) /\ Typed'
      /\ thread'[t].work = thread[t].work /\ thread'[t].next = thread[t].next
      /\ thread'[t].linking = thread[t].linking /\ thread'[t].pc = "wait"
  BY <1>1, <1>2 DEF Typed, Labels, Only
<1>4. ThreadOK(t)'
  BY <1>1, <1>2, <1>3 DEF ThreadOK
<1>5. OnChains(kind, pos)'
  <2>1. Alike(kind, pos, kind, pos, "chain") /\ (At(t, "clear")' <=> At(t, "clear"))
    BY <1>1, <1>3 DEF Alike, At
  <2> QED BY <1>1, <1>2, <1>3, <2>1, KeepChains
<1>6. \A w \in Work : InHand(t, w)' <=> InHand(t, w)
  BY <1>1, <1>3 DEF InHand, Mine
<1>7. UNCHANGED <<XrSchedulerWorkList, XrSchedulerNextFrameList, main, WorkNext,
                  PreferredThread, Busy>>
  BY <1>2
<1>8. /\ \A d \in Ports : Timeslice'[d] = Timeslice[d]
      /\ \A u \in Threads \ {t} : ThreadNext'[u] = ThreadNext[u]
      /\ \A w \in Work : Enqueued'[w] => Enqueued[w] \/ (kind[w] = "running" /\ pos[w] = t)
      /\ thread'[t].pc # "late"
      /\ thread[t].pc \in {"clear", "dequeued", "unlink"} =>
           thread'[t].pc \in {"clear", "dequeued", "unlink"} \/ Mine(t) = None
  BY <1>1, <1>2, <1>3
<1> QED BY <1>3, <1>4, <1>5, <1>6, <1>7, <1>8, Steady

-----------------------------------------------------------------------------
(* Everything is in one place, at every step.                              *)

\* XrSchedulerLoop's threads and the main thread, step by step.
LEMMA StepPlaced ==
  ASSUME NEW kind, NEW pos, NEW owner, Placed(kind, pos, owner), Next,
         Ports = {} \/ \A t, u \in Threads : t = u
  PROVE  \E k, p, o : Placed(k, p, o)'
<1>1. CASE MainLoop
  <2>1. CASE Collect
    BY <2>1, CollectPlaced
  <2>2. CASE InsertFrame
    BY <2>2, InsertFramePlaced
  <2>3. CASE StartTimeslice \/ ResetEnqueued \/ TestEnqueued \/ PostFrame
    BY <2>3, MainStaysPlaced
  <2> QED BY <1>1, <2>1, <2>2, <2>3 DEF MainLoop
<1>2. ASSUME NEW t \in Threads, Loop(t)
      PROVE  \E k, p, o : Placed(k, p, o)'
  <2>1. CASE FetchChain(t)
    BY <2>1, FetchPlaced
  <2>2. CASE ClearChain(t)
    BY <2>2, ClearPlaced
  <2>3. CASE WaitForWork(t) \/ Dequeue(t) \/ CpuPaused(t)
    BY <2>3, SteadySteps
  <2>4. CASE PopWork(t)
    BY <2>4, PopPlaced, PopEmptyPlaced
  <2>5. CASE Unlink(t)
    BY <2>5, UnlinkPlaced
  <2>6. CASE Link(t)
    BY <2>6, LinkPlaced
  <2>7. CASE CpuFrameDone(t)
    BY <2>7, CpuFrameDonePlaced
  <2>8. CASE CpuHalted(t)
    BY <2>8, CpuHaltedPlaced
  <2>9. CASE InsertPaused(t)
    BY <2>9, InsertPlaced
  <2>10. CASE PostPaused(t) \/ WriteTimeslice(t)
    BY <2>10, GoneOnPlaced
  <2>11. ASSUME NEW d \in Devices, StartDevice(t, d)
         PROVE  \E k, p, o : Placed(k, p, o)'
    BY <2>11, StartDevicePlaced
  <2>12. CASE DeviceDone(t)
    BY <2>12, DeviceDonePlaced
  <2>13. CASE DeviceFrameDone(t)
    BY <2>13, DeviceFrameDonePlaced
  <2>14. CASE PortContinues(t)
    BY <2>14, PortContinuesPlaced
  <2> QED BY <1>2, <2>1, <2>2, <2>3, <2>4, <2>5, <2>6, <2>7, <2>8, <2>9, <2>10, <2>11, <2>12,
             <2>13, <2>14 DEF Loop
<1> QED BY <1>1, <1>2 DEF Next

\* What is left by XrInitializeProcessors: every processor is once on the next frame list.
LEMMA EveryCpuOnce ==
  ASSUME IsFiniteSet(Cpus), NEW f \in SetToSeqs(Cpus)
  PROVE  /\ f \in Seq(Work) /\ \A i \in 1 .. Len(f) : f[i] \in Cpus
         /\ \A i, j \in 1 .. Len(f) : f[i] = f[j] => i = j
         /\ \A c \in Cpus : \E i \in 1 .. Len(f) : f[i] = c
<1> DEFINE n == Cardinality(Cpus)
<1>1. n \in Nat
  BY FS_CardinalityType
<1>2. f \in [1 .. n -> Cpus] /\ \A i, j \in 1 .. n : i # j => f[i] # f[j]
  BY DEF SetToSeqs
<1>3. Len(f) = n /\ f \in Seq(Cpus)
  BY <1>1, <1>2
<1>4. f \in Injection(1 .. n, Cpus)
  BY <1>2 DEF Injection, IsInjective
<1>5. Cardinality(1 .. n) = n
  BY <1>1, FS_Interval
<1>6. f \in Surjection(1 .. n, Cpus)
  BY <1>4, <1>5, FS_Injection
<1>7. \A c \in Cpus : \E i \in 1 .. n : f[i] = c
  BY <1>6 DEF Surjection
<1>8. f \in Seq(Work)
  BY <1>1, <1>2, <1>3 DEF Work
<1> QED BY <1>2, <1>3, <1>7, <1>8

\* Everything has its place when the threads start.
LEMMA InitPlaced ==
  ASSUME IsFiniteSet(Cpus), Init
  PROVE  \E k, p, o : Placed(k, p, o)
<1> DEFINE f == XrSchedulerNextFrameList
<1>0. PICK k, p, o :
        /\ k = [w \in Work |-> IF w \in Cpus THEN "next frame list" ELSE "none"]
        /\ p = [w \in Work |-> CHOOSE i \in 1 .. Len(f) : f[i] = w]
        /\ o = [w \in Work |-> None]
  OBVIOUS
<1>1. /\ f \in Seq(Work) /\ \A i \in 1 .. Len(f) : f[i] \in Cpus
      /\ \A i, j \in 1 .. Len(f) : f[i] = f[j] => i = j
      /\ \A c \in Cpus : \E i \in 1 .. Len(f) : f[i] = c
  BY EveryCpuOnce DEF Init
<1>2. /\ XrSchedulerWorkList = <<>>
      /\ ThreadNext = [t \in Threads |-> None]
      /\ WorkNext = [w \in Work |-> None]
      /\ PreferredThread = [w \in Work |-> None]
      /\ Enqueued = [w \in Work |-> w \in Cpus]
      /\ Timeslice = [w \in Work |-> 0]
      /\ Busy = [d \in Devices |-> FALSE]
      /\ thread = [t \in Threads |-> IdleThread]
      /\ main = [pc |-> "collect", frame |-> <<>>, todo |-> <<>>, dt |-> 0]
  BY DEF Init
<1>3. /\ \A t \in Threads : /\ thread[t].pc = "fetch" /\ thread[t].work = None
                            /\ thread[t].next = None /\ thread[t].linking = None
                            /\ thread[t].timeslice = 0
      /\ Collected = <<>> /\ 1 .. Len(<<>>) = {} /\ <<>> \in Seq(Work)
  BY <1>2 DEF IdleThread, Collected
<1>4. /\ \A w \in Work : k[w] = IF w \in Cpus THEN "next frame list" ELSE "none"
      /\ \A w \in Cpus : p[w] \in 1 .. Len(f) /\ f[p[w]] = w
      /\ Cpus \subseteq Work
  <2>1. Cpus \subseteq Work
    BY DEF Work
  <2>2. ASSUME NEW w \in Cpus PROVE p[w] \in 1 .. Len(f) /\ f[p[w]] = w
    <3>1. p[w] = CHOOSE i \in 1 .. Len(f) : f[i] = w
      BY <1>0, <2>1
    <3>2. \E i \in 1 .. Len(f) : f[i] = w
      BY <1>1
    <3> QED BY <3>1, <3>2
  <2> QED BY <1>0, <2>1, <2>2
<1>5. Maps(k, p, o)
  BY <1>0 DEF Maps, Kinds
<1>6. Typed
  <2>1. thread \in [Threads -> [pc : Labels, work : Somewhere, next : Somewhere,
                                timeslice : Int, linking : Somewhere]]
    BY <1>2 DEF IdleThread, Labels, Somewhere
  <2>2. main \in [pc : MainLabels, frame : Seq(Work), todo : Seq(Work), dt : Nat]
    BY <1>2, <1>3 DEF MainLabels
  <2>3. /\ ThreadNext \in [Threads -> Somewhere] /\ WorkNext \in [Work -> Somewhere]
        /\ PreferredThread \in [Work -> Threads \cup {None}]
        /\ Enqueued \in [Work -> BOOLEAN] /\ Busy \in [Devices -> BOOLEAN]
        /\ Timeslice \in [Work -> Int]
    BY <1>2 DEF Somewhere
  <2> QED BY <1>1, <1>2, <1>3, <2>1, <2>2, <2>3 DEF Typed
<1>7. MainOK /\ \A t \in Threads : ThreadOK(t)
  BY <1>2, <1>3 DEF MainOK, ThreadOK
<1>8. OnLists(k, p)
  <2>1. OnList(f, "next frame list", k, p)
    <3>1. ASSUME NEW i \in 1 .. Len(f) PROVE k[f[i]] = "next frame list" /\ p[f[i]] = i
      BY SMTT(30), ZenonT(40), <1>1, <1>4
    <3>2. ASSUME NEW w \in Work, k[w] = "next frame list"
          PROVE  p[w] \in 1 .. Len(f) /\ f[p[w]] = w
      BY <1>4, <3>2
    <3> QED BY <3>1, <3>2 DEF OnList
  <2>2. \A w \in Work : k[w] \notin {"work list", "main"}
    BY <1>4
  <2>3. OnList(<<>>, "work list", k, p) /\ OnList(<<>>, "main", k, p)
    BY <1>3, <2>2 DEF OnList
  <2> QED BY <1>2, <1>3, <2>1, <2>3 DEF OnLists
<1>9. \A w \in Work : k[w] \notin {"chain", "link", "next", "running"} /\ w # None
  BY <1>4, NoneApart
<1>10. OnChains(k, p) /\ OnLinks(k, p) /\ LinkedOnly(k, p)
  BY <1>2, <1>9 DEF OnChains, OnLinks, LinkedOnly
<1>11. AsNext(k, p) /\ Running(k, p)
  BY <1>3, <1>9 DEF AsNext, Running, InHand, Mine
<1>12. Present(k)
  <2>1. \A d \in Devices : d \in Work /\ d \notin Cpus
    BY WorkAssumption DEF Work
  <2>2. \A w \in Work : w \in Cpus \/ w \in Devices
    BY DEF Work
  <2> QED BY <1>2, <1>4, <2>1, <2>2 DEF Present
<1>13. Owned(k, p, o)
  <2>1. \A w \in Work : o[w] = None /\ WorkNext[w] = None /\ PreferredThread[w] = None
    BY <1>0, <1>2
  <2> QED BY <1>4, <1>9, <2>1 DEF Owned
<1>14. Unpopped(k)
  <2>1. \A d \in Ports : Timeslice[d] <= 0
    <3>1. \A d \in Ports : d \in Work
      BY DEF Work, Devices
    <3> QED BY <1>2, <3>1
  <2>2. \A t \in Threads : ~At(t, "late")
    BY <1>3 DEF At
  <2> QED BY <2>1, <2>2 DEF Unpopped
<1> QED BY <1>5, <1>6, <1>7, <1>8, <1>10, <1>11, <1>12, <1>13, <1>14 DEF Placed


\* In Holders, a list holds those that are placed on it, once.
LEMMA PlacesOnList ==
  ASSUME NEW list \in Seq(Work), NEW name, NEW kind, NEW pos, OnList(list, name, kind, pos),
         NEW w \in Work
  PROVE  Places(list, w) = IF kind[w] = name THEN {pos[w]} ELSE {}
<1>1. DOMAIN list = 1 .. Len(list)
  OBVIOUS
<1>2. \A i \in 1 .. Len(list) : list[i] = w => kind[w] = name /\ pos[w] = i
  BY DEF OnList
<1>3. kind[w] = name => pos[w] \in 1 .. Len(list) /\ list[pos[w]] = w
  BY DEF OnList
<1> QED BY <1>1, <1>2, <1>3 DEF Places

\* The kind and the position of a schedulable name all that holds it.
LEMMA HeldInPlace ==
  ASSUME NEW kind, NEW pos, NEW owner, Placed(kind, pos, owner), NEW w \in Work
  PROVE  Holders(w) = IF kind[w] = "none" THEN {} ELSE {<<kind[w], pos[w]>>}
<1> DEFINE onChains == {t \in Threads : ThreadNext[t] = w /\ ~At(t, "clear")}
           onLinks == {v \in Work : /\ WorkNext[v] = w
                                    /\ \A t \in Threads : thread[t].linking # v}
           asNext == {t \in Threads : thread[t].next = w}
           running == {t \in Threads : /\ w \in {Mine(t), thread[t].linking}
                                       /\ thread[t].pc \notin {"post", "late"}}
           Here(name) == IF kind[w] = name THEN {pos[w]} ELSE {}
<1>0. w # None
  BY NoneApart
<1>1. Places(XrSchedulerWorkList, w) = Here("work list")
  <2>1. OnList(XrSchedulerWorkList, "work list", kind, pos)
    BY DEF Placed, OnLists
  <2>2. XrSchedulerWorkList \in Seq(Work)
    BY DEF Placed, Typed
  <2> QED BY <2>1, <2>2, PlacesOnList
<1>2. Places(XrSchedulerNextFrameList, w) = Here("next frame list")
  <2>1. OnList(XrSchedulerNextFrameList, "next frame list", kind, pos)
    BY DEF Placed, OnLists
  <2>2. XrSchedulerNextFrameList \in Seq(Work)
    BY DEF Placed, Typed
  <2> QED BY <2>1, <2>2, PlacesOnList
<1>3. Places(Collected, w) = Here("main")
  <2>1. OnList(Collected, "main", kind, pos)
    BY DEF Placed, OnLists
  <2>2. Collected \in Seq(Work)
    BY CollectedList DEF Placed
  <2> QED BY <2>1, <2>2, PlacesOnList
<1>4. onChains = Here("chain")
  <2>1. OnChains(kind, pos)
    BY DEF Placed
  <2> QED BY <1>0, <2>1 DEF OnChains
<1>5. onLinks = Here("link")
  <2>1. OnLinks(kind, pos)
    BY DEF Placed
  <2> QED BY <1>0, <2>1 DEF OnLinks, Linking
<1>6. asNext = Here("next")
  <2>1. AsNext(kind, pos)
    BY DEF Placed
  <2> QED BY <1>0, <2>1 DEF AsNext
<1>7. running = Here("running")
  <2>1. Running(kind, pos)
    BY DEF Placed
  <2> QED BY <2>1 DEF Running, InHand
<1>8. Holders(w) = ({"work list"} \X Here("work list"))
                     \cup ({"next frame list"} \X Here("next frame list"))
                     \cup ({"main"} \X Here("main")) \cup ({"chain"} \X Here("chain"))
                     \cup ({"link"} \X Here("link")) \cup ({"next"} \X Here("next"))
                     \cup ({"running"} \X Here("running"))
  BY <1>1, <1>2, <1>3, <1>4, <1>5, <1>6, <1>7 DEF Holders
<1>9. kind[w] \in Kinds
  BY DEF Placed, Maps
<1>10. ASSUME NEW name PROVE {name} \X Here(name) = IF kind[w] = name THEN {<<kind[w], pos[w]>>} ELSE {}
  OBVIOUS
<1> HIDE DEF Here
<1>11. PICK K : K = kind[w]
  OBVIOUS
<1>12. PICK H : H = [name \in Kinds |-> {name} \X Here(name)]
  OBVIOUS
<1>13. \A name \in Kinds : H[name] = IF K = name THEN {<<K, pos[w]>>} ELSE {}
  BY <1>10, <1>11, <1>12
<1>14. Holders(w) = H["work list"] \cup H["next frame list"] \cup H["main"] \cup H["chain"]
                      \cup H["link"] \cup H["next"] \cup H["running"]
  BY <1>8, <1>12 DEF Kinds
<1>15. PICK place : place = <<K, pos[w]>>
  OBVIOUS
<1>16. \A name \in Kinds : H[name] = IF K = name THEN {place} ELSE {}
  BY <1>13, <1>15
<1>17. K \in Kinds
  BY <1>9, <1>11
<1>18. Holders(w) = IF K = "none" THEN {} ELSE {place}
  BY <1>14, <1>16, <1>17 DEF Kinds
<1> QED BY <1>11, <1>15, <1>18

\* So there is one place for what is to be run, and none for an idle device.
LEMMA PlacedOnce ==
  ASSUME NEW kind, NEW pos, NEW owner, Placed(kind, pos, owner)
  PROVE  OnePlace /\ OwnChain
<1>1. Present(kind) /\ \A t \in Threads : ThreadOK(t)
  BY DEF Placed
<1>2. ASSUME NEW w \in Work
      PROVE  Cardinality(Holders(w)) = IF w \in Cpus \/ Busy[w] THEN 1 ELSE 0
  <2> DEFINE place == <<kind[w], pos[w]>>
  <2>1. Cardinality({place}) = 1 /\ Cardinality({}) = 0
    BY FS_Singleton, FS_EmptySet
  <2>2. kind[w] = "none" <=> ~(w \in Cpus \/ Busy[w])
    BY <1>1 DEF Present
  <2>3. Holders(w) = IF kind[w] = "none" THEN {} ELSE {place}
    BY HeldInPlace
  <2> HIDE DEF place
  <2>4. CASE kind[w] = "none"
    BY <2>1, <2>2, <2>3, <2>4
  <2>5. CASE kind[w] # "none"
    BY <2>1, <2>2, <2>3, <2>5
  <2> QED BY <2>4, <2>5
<1>3. \A d \in Devices : Enqueued[d] => Busy[d]
  BY <1>1 DEF Present
<1>4. OwnChain
  BY <1>1 DEF OwnChain, ThreadOK, At, Mine
<1> QED BY <1>2, <1>3, <1>4 DEF OnePlace

\* The inductive invariant: there are maps that place everything.
PlacesInv == \E kind, pos, owner : Placed(kind, pos, owner)

\* A step of no thread.
LEMMA StutterPlaced ==
  ASSUME PlacesInv, UNCHANGED vars
  PROVE  PlacesInv'
<1>1. PICK kind, pos, owner : Placed(kind, pos, owner)
  BY DEF PlacesInv
<1>2. UNCHANGED <<XrSchedulerWorkList, XrSchedulerNextFrameList, ThreadNext, WorkNext,
                  PreferredThread, Enqueued, Timeslice, Busy, thread, main>>
  BY DEF vars, lists, chains, slices, devices
<1>3. Maps(kind, pos, owner) /\ Typed' /\ MainOK' /\ \A t \in Threads : ThreadOK(t)'
  <2>1. Typed' /\ MainOK'
    BY <1>1, <1>2 DEF Placed, Typed, MainOK
  <2>2. \A t \in Threads : ThreadOK(t)'
    BY <1>1, <1>2 DEF Placed, ThreadOK
  <2> QED BY <1>1, <2>1, <2>2 DEF Placed
<1>4. OnLists(kind, pos)'
  BY <1>1, <1>2 DEF Placed, OnLists, OnList, Collected
<1>5. OnChains(kind, pos)' /\ OnLinks(kind, pos)' /\ AsNext(kind, pos)'
  <2>1. OnChains(kind, pos)'
    BY <1>1, <1>2 DEF Placed, OnChains, At
  <2>2. OnLinks(kind, pos)'
    BY <1>1, <1>2 DEF Placed, OnLinks, Linking
  <2>3. AsNext(kind, pos)'
    BY <1>1, <1>2 DEF Placed, AsNext
  <2> QED BY <2>1, <2>2, <2>3
<1>6. Running(kind, pos)' /\ Present(kind)' /\ LinkedOnly(kind, pos)'
  <2>1. Running(kind, pos)'
    BY <1>1, <1>2 DEF Placed, Running, InHand, Mine
  <2>2. Present(kind)'
    BY <1>1, <1>2 DEF Placed, Present
  <2>3. LinkedOnly(kind, pos)'
    BY <1>1, <1>2 DEF Placed, LinkedOnly
  <2> QED BY <2>1, <2>2, <2>3
<1>7. Owned(kind, pos, owner)' /\ Unpopped(kind)'
  <2>1. Owned(kind, pos, owner)'
    BY <1>1, <1>2 DEF Placed, Owned
  <2>2. Unpopped(kind)'
    BY <1>1, <1>2 DEF Placed, Unpopped, At, Mine
  <2> QED BY <2>1, <2>2
<1>8. Placed(kind, pos, owner)'
  BY <1>3, <1>4, <1>5, <1>6, <1>7 DEF Placed, Maps
<1> QED BY <1>8 DEF PlacesInv

\* Every step, whoever makes it.
LEMMA PlacesKept ==
  ASSUME Ports = {} \/ \A t, u \in Threads : t = u
  PROVE  PlacesInv /\ [Next]_vars => PlacesInv'
<1> SUFFICES ASSUME PlacesInv, Next PROVE PlacesInv'
  BY StutterPlaced
<1>1. PICK kind, pos, owner : Placed(kind, pos, owner)
  BY DEF PlacesInv
<1> QED BY <1>1, StepPlaced DEF PlacesInv

\* Every processor, and every device with an operation to finish, is in one place: on
\* one of the lists, in a chain, or in the hand of one thread; and an idle device is
\* nowhere and is not marked Enqueued.  With a port and several threads it is not so.
THEOREM EverythingInOnePlace ==
  ASSUME IsFiniteSet(Cpus), Ports = {} \/ \A t, u \in Threads : t = u
  PROVE  Spec => []OnePlace
<1>1. Init => PlacesInv
  BY InitPlaced DEF PlacesInv
<1>2. PlacesInv => OnePlace
  BY PlacedOnce DEF PlacesInv
<1> QED BY <1>1, <1>2, PlacesKept, PTL DEF Spec

\* XrScheduleWorkForMe, which takes no lock, enters work in the chain of the thread
\* that calls it.
THEOREM ChainsAreOwn ==
  ASSUME IsFiniteSet(Cpus), Ports = {} \/ \A t, u \in Threads : t = u
  PROVE  Spec => []OwnChain
<1>1. Init => PlacesInv
  BY InitPlaced DEF PlacesInv
<1>2. PlacesInv => OwnChain
  BY PlacedOnce DEF PlacesInv
<1> QED BY <1>1, <1>2, PlacesKept, PTL DEF Spec

\* What scheduler.c:110 promises, where the run with a port and two threads refutes
\* it: no processor with timeslice left is dropped.
THEOREM CpusAreKept ==
  ASSUME IsFiniteSet(Cpus), Ports = {} \/ \A t, u \in Threads : t = u
  PROVE  Spec => []CpuKept
<1>1. Init => PlacesInv
  BY InitPlaced DEF PlacesInv
<1>2. OnePlace => CpuKept
  BY FS_EmptySet DEF OnePlace, CpuKept, Work
<1>3. PlacesInv => CpuKept
  BY <1>2, PlacedOnce DEF PlacesInv
<1> QED BY <1>1, <1>3, PlacesKept, PTL DEF Spec
=============================================================================

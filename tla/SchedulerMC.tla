----------------------------- MODULE SchedulerMC -----------------------------
(***************************************************************************)
(* Scheduler for TLC: a behaviour is of one of the instances, which have   *)
(* other threads and devices: two host threads whose processors share a    *)
(* disk; one host thread with a serial port, in frames that are long       *)
(* enough for it to go on on its chain; one with a disk and a serial port. *)
(***************************************************************************)
EXTENDS Scheduler

CONSTANTS t1, d1, s1,
          Instances   \* of [threads, devices, dts (of frames)]

TheInstances == {[threads |-> Threads, devices |-> {d1}, dts |-> {0, 1}],
                 [threads |-> {t1}, devices |-> {s1}, dts |-> {0, 1, 2}],
                 [threads |-> {t1}, devices |-> {d1, s1}, dts |-> {1}]}

VARIABLE instance

MCInit == Init /\ instance \in Instances

\* Scheduler's actions, by the threads and on the devices of the instance.
Of(action) == action /\ UNCHANGED instance
MCMain == Of(MainLoop) /\ (main.pc = "collect" => main'.dt \in instance.dts)
MCLoop(t) ==
  /\ t \in instance.threads /\ Of(Loop(t))
  /\ \A d \in Devices \ instance.devices : ~Busy'[d]

MCNext == MCMain \/ \E t \in Threads : MCLoop(t)

MCSpec ==
  /\ MCInit /\ [][MCNext]_<<vars, instance>>
  /\ WF_<<vars, instance>>(MCMain)
  /\ \A t \in Threads : WF_<<vars, instance>>(MCLoop(t))
=============================================================================

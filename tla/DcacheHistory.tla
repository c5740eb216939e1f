--------------------------- MODULE DcacheHistory ---------------------------
(***************************************************************************)
(* Dcache with a history variable, for what LL and SC promise and for what *)
(* a load may return.  overtaken[p] is the set of lines that another       *)
(* processor has stored to since p last observed them.  An access observes *)
(* its line in the step that finds it valid, reads it from RAM or stores   *)
(* to it.  Observing says which kinds of access count.                     *)
(***************************************************************************)
EXTENDS Dcache

CONSTANT Observing

ASSUME ObservingAssumption == Observing \subseteq Accesses

VARIABLE overtaken

hvars == <<vars, overtaken>>

HInit == Init /\ overtaken = [p \in Procs |-> {}]

\* The store of p reaches the cache: it overtakes what the others observed.
HStore(p) ==
  /\ StoreStep(p)
  /\ overtaken' = [q \in Procs |->
       IF q # p THEN overtaken[q] \cup {Tag(p)}
       ELSE IF cpu[p].op \in Observing THEN overtaken[p] \ {Tag(p)}
       ELSE overtaken[p]]

\* The step in which a load of p finds its line or reads it from RAM.
Observes(p) ==
  /\ ~Writing(p)
  /\ cpu[p].op \in Observing
  /\ \/ At(p, "start") /\ Hit(p, Tag(p)) # NoLine
     \/ At(p, "filling") /\ Tag(p) \notin BadTags

\* Every other step.
HOther(p) ==
  /\ \/ LoadLookup(p) \/ LoadCopy(p)
     \/ StoreLock(p) \/ StoreFindsBufferFull(p) \/ StoreLookup(p)
     \/ UpgradeLock(p) \/ DowngradeLock(p) \/ DowngradeLine(p)
     \/ MissLock(p) \/ SetScache(p) \/ FillLock(p) \/ Fill(p) \/ FilledLoad(p)
     \/ FlushNext(p) \/ FlushLock(p) \/ FlushWrite(p)
     \/ Invalidate(p) \/ Start(p)
  /\ overtaken' = IF Observes(p) THEN [overtaken EXCEPT ![p] = @ \ {Tag(p)}]
                  ELSE overtaken

HNext == \E p \in Procs : HStore(p) \/ HOther(p)

HSpec == HInit /\ [][HNext]_hvars

\* What a load copies out without a lock (xraccess.inc.c:536) may be overtaken
\* while it is being copied, but it is what memory held when the line was found.
LoadFresh ==
  \A p \in Procs :
    /\ At(p, "copy") \/ (At(p, "filled") /\ ~Writing(p))
    /\ Tag(p) \notin overtaken[p]
    => Dc[p][cpu[p].line] = "new"

\* "Store the word in a way that will atomically fail if we no longer have the
\* cache line from LL's load" (xr17032fast.c:1032): an SC that stores does so
\* only if no other processor stored to the line since this one observed it.
ScAtomic ==
  [][\A p \in Procs : cpu[p].op = "sc" /\ HStore(p) => Tag(p) \notin overtaken[p]]_hvars
=============================================================================

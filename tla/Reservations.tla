---------------------------- MODULE Reservations ----------------------------
(***************************************************************************)
(* What LL and SC promise, without saying how.  LL loads a word and        *)
(* reserves it; SC stores only under the reservation, and ends those of    *)
(* the other processors on the word.  A reservation may be lost at any     *)
(* time.  An ordinary store leaves reservations alone: software is to keep *)
(* it away from words that others update with LL and SC.                   *)
(***************************************************************************)
EXTENDS Integers

CONSTANTS
  Procs,
  Addrs,    \* words, as word numbers
  Plain,    \* words that software also writes with ordinary stores
  Values,   \* contents of a word
  None

VARIABLES
  Memory,    \* [Addrs -> Values]
  reserved,  \* [Procs -> word or None]
  known      \* [Procs -> what it last loaded with LL or stored with SC]; None: it gave up

reservationVars == <<Memory, reserved, known>>

ReservationsInit ==
  /\ Memory \in [Addrs -> Values]
  /\ reserved = [p \in Procs |-> None]
  /\ known = [p \in Procs |-> None]

LoadLinked(p, a) ==
  /\ reserved' = [reserved EXCEPT ![p] = a]
  /\ known' = [known EXCEPT ![p] = Memory[a]]
  /\ UNCHANGED Memory

StoreConditional(p, a, v) ==
  /\ reserved[p] = a
  /\ Memory' = [Memory EXCEPT ![a] = v]
  /\ known' = [known EXCEPT ![p] = v]
  /\ reserved' = [q \in Procs |-> IF q # p /\ reserved[q] = a THEN None ELSE reserved[q]]

Lose(p) ==
  /\ reserved' = [reserved EXCEPT ![p] = None]
  /\ UNCHANGED <<Memory, known>>

GiveUp(p) ==
  /\ reserved' = [reserved EXCEPT ![p] = None]
  /\ known' = [known EXCEPT ![p] = None]
  /\ UNCHANGED Memory

PlainStore(a, v) ==
  /\ Memory' = [Memory EXCEPT ![a] = v]
  /\ UNCHANGED <<reserved, known>>

ReservationsNext ==
  \/ \E p \in Procs, a \in Addrs :
       LoadLinked(p, a) \/ \E v \in Values : StoreConditional(p, a, v)
  \/ \E p \in Procs : Lose(p) \/ GiveUp(p)
  \/ \E a \in Plain, v \in Values : PlainStore(a, v)

ReservationsSpec == ReservationsInit /\ [][ReservationsNext]_reservationVars
=============================================================================

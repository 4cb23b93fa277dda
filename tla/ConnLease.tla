------------------------------- MODULE ConnLease -------------------------------
(***************************************************************************)
(* What a pool of database connections promises: a live connection is      *)
(* either free or leased to exactly one thread, and a connection that was  *)
(* closed is never seen again.                                             *)
(***************************************************************************)
CONSTANTS Threads, Handles, None

VARIABLES
  free,   (* live connections no thread has                                *)
  lease,  (* lease[t]: the connection thread t works with, or None         *)
  dead    (* connections that were closed                                  *)

leaseVars == <<free, lease, dead>>

Leased == {lease[t] : t \in Threads} \ {None}
Unborn == Handles \ (free \cup Leased \cup dead)

LeaseInit == free = {} /\ lease = [t \in Threads |-> None] /\ dead = {}

Open == \E h \in Unborn : free' = free \cup {h} /\ UNCHANGED <<lease, dead>>

Take(t) ==
  /\ lease[t] = None
  /\ \E h \in free : lease' = [lease EXCEPT ![t] = h] /\ free' = free \ {h}
  /\ UNCHANGED dead

\* t gets a connection made for it, in place of one that had died.
Supply(t) ==
  /\ lease[t] = None
  /\ \E h \in Unborn : lease' = [lease EXCEPT ![t] = h]
  /\ UNCHANGED <<free, dead>>

GiveBack(t) ==
  /\ lease[t] # None
  /\ free' = free \cup {lease[t]} /\ lease' = [lease EXCEPT ![t] = None]
  /\ UNCHANGED dead

Discard(t) ==
  /\ lease[t] # None
  /\ dead' = dead \cup {lease[t]} /\ lease' = [lease EXCEPT ![t] = None]
  /\ UNCHANGED free

\* The pool is closed: nothing is free any more; leases go on.
Drain == dead' = dead \cup free /\ free' = {} /\ UNCHANGED lease

LeaseNext == \/ Open \/ Drain
             \/ \E t \in Threads : Take(t) \/ Supply(t) \/ GiveBack(t) \/ Discard(t)

LeaseSpec == LeaseInit /\ [][LeaseNext]_leaseVars
=============================================================================

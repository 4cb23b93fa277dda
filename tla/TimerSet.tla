------------------------------- MODULE TimerSet -------------------------------
(***************************************************************************)
(* What a timer manager promises its event loop, with no heap in sight: a  *)
(* round fires every timer that is due, the earliest first, and none that  *)
(* is not; the wait until the next round goes past no timer and ends less  *)
(* than a millisecond before the earliest.                                 *)
(***************************************************************************)
EXTENDS Integers

CONSTANTS Timers, TicksPerMs, NoTime

VARIABLES
  now,     (* the clock, in ticks                                          *)
  expire,  (* deadline of a timer                                          *)
  armed,   (* the timers that will fire                                    *)
  cutoff,  (* time the round in progress goes by, or NoTime                *)
  waitMs   (* the last wait handed out                                     *)

setVars == <<now, expire, armed, cutoff, waitMs>>

SetInit == /\ now = 0 /\ expire = [t \in Timers |-> 0] /\ armed = {}
           /\ cutoff = NoTime /\ waitMs = NoTime

Advance == now' = now + 1 /\ UNCHANGED <<expire, armed, cutoff, waitMs>>

\* Someone fixes the deadline of a timer that is not armed.
Plan == /\ \E t \in Timers \ armed :
             /\ expire'[t] \in Nat /\ expire'[t] >= now
             /\ expire' = [expire EXCEPT ![t] = expire'[t]]
        /\ UNCHANGED <<now, armed, cutoff, waitMs>>

Arm == /\ cutoff = NoTime
       /\ \E t \in Timers \ armed : armed' = armed \cup {t}
       /\ UNCHANGED <<now, expire, cutoff, waitMs>>

BeginRound == /\ cutoff = NoTime /\ cutoff' = now
              /\ UNCHANGED <<now, expire, armed, waitMs>>

Fire == /\ cutoff # NoTime
        /\ \E t \in armed : /\ expire[t] <= cutoff
                            /\ \A u \in armed : expire[t] <= expire[u]
                            /\ armed' = armed \ {t}
        /\ UNCHANGED <<now, expire, cutoff, waitMs>>

EndRound == /\ cutoff # NoTime /\ cutoff' = NoTime
            /\ \A t \in armed : expire[t] > cutoff
            /\ UNCHANGED <<now, expire, armed, waitMs>>

WaitEnd == now + waitMs' * TicksPerMs

AskWait ==
  /\ cutoff = NoTime
  /\ \/ armed = {} /\ waitMs' = NoTime
     \/ /\ armed # {} /\ waitMs' \in Nat
        /\ \A t \in armed : expire[t] < WaitEnd => waitMs' = 0
        /\ \E t \in armed : expire[t] < WaitEnd + TicksPerMs
  /\ UNCHANGED <<now, expire, armed, cutoff>>

\* The caller goes to wait, and keeps no note of how long.
Taken == waitMs' = NoTime /\ UNCHANGED <<now, expire, armed, cutoff>>

SetNext == Advance \/ Plan \/ Arm \/ BeginRound \/ Fire \/ EndRound \/ AskWait \/ Taken

SetSpec == SetInit /\ [][SetNext]_setVars
=============================================================================

----------------------------- MODULE Heartbeat ------------------------------
(***************************************************************************)
(* The heartbeats of ExampleApp while its event loop runs: update() is     *)
(* called from a timer that is re-armed relative to its last expiry, sends *)
(* a heartbeat when a second has passed since the last one, and ignores    *)
(* what became of it.  A peer considers the node alive for the lease its   *)
(* last heartbeat carried.                                                 *)
(*                                                                         *)
(* Time is counted in timer periods (UPDATE_RATE_MS).  Times are kept as   *)
(* ages, so that no variable grows with time.  The peer and the network    *)
(* are external.                                                           *)
(***************************************************************************)
EXTENDS Integers

CONSTANTS
  Second,   \* timer periods in a second (100)
  Lease,    \* timer periods in liveliness_lease_dur_s (10 seconds)
  MaxLate,  \* bound: how late the event loop runs an expired timer
  MaxLost   \* bound: heartbeats lost in a row

ASSUME HeartbeatConstants ==
  /\ Second \in Nat \ {0} /\ Lease \in Nat
  /\ MaxLate \in Nat /\ MaxLost \in Nat
  /\ (MaxLost + 1) * (Second + MaxLate) <= Lease

VARIABLES
  sinceHb,     \* time since _last_hb
  lag,         \* time since the expiry of _update_timer; -1 is in the future
  sentNow,     \* heartbeats sent since time last moved
  known,       \* the peer heard a heartbeat
  sinceHeard,  \* time since it heard the last one
  lost         \* heartbeats lost since

vars == <<sinceHb, lag, sentNow, known, sinceHeard, lost>>

\* run() sets _last_hb and starts the loop; the timer expired when the
\* constructor made it, any time before.
Init ==
  /\ sinceHb = 0
  /\ lag \in 0 .. MaxLate
  /\ sentNow = 0
  /\ known = FALSE /\ sinceHeard = 0 /\ lost = 0

\* Time passes; no expired timer waits longer than MaxLate.
Tick ==
  /\ lag < MaxLate
  /\ lag' = lag + 1
  /\ sinceHb' = sinceHb + 1
  /\ sinceHeard' = IF known THEN sinceHeard + 1 ELSE 0
  /\ sentNow' = 0
  /\ UNCHANGED <<known, lost>>

-----------------------------------------------------------------------------
(* Definitions with a suffix are plausible mistakes in the one they are     *)
(* named for; they are part of no specification.                           *)

\* The timer is moved twice for one expiry.
Rearm_Twice == lag' = lag - 2
\* The timer is armed for the expiry it just had.
Rearm_SameExpiry == lag' = lag
\* "Reschedule": one period after the last expiry, not after now, so that a
\* late loop runs the handler again at once until it has caught up.
Rearm == lag' = lag - 1

\* The next heartbeat is due a second after the last was due, not sent.
Mark_KeepPhase == sinceHb' = sinceHb - Second
\* _last_hb = now
Mark == sinceHb' = 0

\* Whole seconds are rounded to the next one but one.
Due_TwoSeconds == sinceHb >= 2 * Second
\* duration_cast<seconds>(now - _last_hb).count() >= 1
Due == sinceHb >= Second

\* send_bcmp_heartbeat: nobody looks at the result of write_frame.
Send ==
  /\ sentNow' = sentNow + 1
  /\ \/ known' = TRUE /\ sinceHeard' = 0 /\ lost' = 0
     \/ lost < MaxLost /\ lost' = lost + 1 /\ UNCHANGED <<known, sinceHeard>>

\* update_handler and update() with a heartbeat due ...
UpdateSends == lag >= 0 /\ Due /\ Mark /\ Send /\ Rearm

\* ... and without.
UpdateOnly ==
  /\ lag >= 0 /\ ~Due /\ Rearm
  /\ UNCHANGED <<sinceHb, sentNow, known, sinceHeard, lost>>

Next == Tick \/ UpdateSends \/ UpdateOnly

Spec == Init /\ [][Next]_vars

\* Time passes and the loop runs its expired timer.
FairSpec == Spec /\ WF_vars(Tick) /\ WF_vars(UpdateSends \/ UpdateOnly)
-----------------------------------------------------------------------------
(* Properties.                                                             *)

\* Every variable has its type, and the timer is never armed further ahead
\* than one period.
TypeOK ==
  /\ sinceHb \in Nat /\ lag \in -1 .. MaxLate
  /\ sentNow \in Nat
  /\ known \in BOOLEAN /\ sinceHeard \in Nat
  /\ lost \in 0 .. MaxLost

\* A loop that catches up after being held up for seconds runs the handler
\* many times at once, and sends one heartbeat, not one per second missed.
NoBurst == sentNow <= 1

\* As long as no more than MaxLost heartbeats in a row are lost and the loop
\* is no later than MaxLate, a peer that heard the node keeps it alive.
LeaseHolds == known => sinceHeard <= Lease

\* The next heartbeat always comes, whatever became of the last one.
HeartbeatsRecur == []<>(sentNow = 1)
=============================================================================

-------------------------- MODULE InteractionLease --------------------------
(***************************************************************************)
(* What InteractionHandler promises the callers of                         *)
(* setBoost(INTERACTION, duration): the INTERACTION hint is a lease.       *)
(* Acquire takes it or extends it, never shortens it; it is given back     *)
(* when its time is over, or before that once the display has been seen    *)
(* idle since the lease was last extended.                                 *)
(***************************************************************************)
EXTENDS Integers

CONSTANT Durations      \* milliseconds an Acquire may be granted

VARIABLES
  held,   \* the INTERACTION hint is in force
  left,   \* milliseconds until the lease is over
  idle    \* the display was seen idle since the last extension

vars == <<held, left, idle>>

Init ==
  /\ held = FALSE
  /\ left = 0
  /\ idle = FALSE

Acquire(d) ==
  \/ /\ held
     /\ d <= left
     /\ UNCHANGED vars
  \/ /\ held => left < d
     /\ held' = TRUE
     /\ left' = d
     /\ idle' = FALSE

\* The display is idle, or the handler can no longer tell.
Observe ==
  /\ held
  /\ idle' = TRUE
  /\ UNCHANGED <<held, left>>

Release ==
  /\ held
  /\ left = 0 \/ idle
  /\ held' = FALSE
  /\ left' = 0
  /\ idle' = FALSE

\* The handler shuts down: the lease is kept, and nobody gives it back.
Abandon ==
  /\ held
  /\ idle' = FALSE
  /\ UNCHANGED <<held, left>>

Tick ==
  /\ left' = IF left > 0 THEN left - 1 ELSE left
  /\ UNCHANGED <<held, idle>>

Next ==
  \/ \E d \in Durations : Acquire(d)
  \/ Observe
  \/ Release
  \/ Abandon
  \/ Tick

Spec == Init /\ [][Next]_vars

=============================================================================

------------------------------- MODULE OnceLog ------------------------------
(***************************************************************************)
(* What the webhook endpoint promises a forge that delivers again until it *)
(* is answered: a delivery is recorded at most once, and only a recorded   *)
(* one is acknowledged.                                                    *)
(***************************************************************************)
EXTENDS Naturals, Sequences

CONSTANT Deliveries

VARIABLES
    events,         \* the deliveries recorded, in order
    confirmed       \* deliveries that were answered with success

onceVars == <<events, confirmed>>

Recorded == {events[i] : i \in DOMAIN events}

OnceInit == events = <<>> /\ confirmed = {}

RecordOnce(d) ==
    /\ d \notin Recorded
    /\ events' = Append(events, d)
    /\ UNCHANGED confirmed

Acknowledge(d) ==
    /\ d \in Recorded
    /\ confirmed' = confirmed \cup {d}
    /\ UNCHANGED events

OnceNext == \E d \in Deliveries : RecordOnce(d) \/ Acknowledge(d)

OnceSpec == OnceInit /\ [][OnceNext]_onceVars
=============================================================================

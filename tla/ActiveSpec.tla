----------------------------- MODULE ActiveSpec -----------------------------
(***************************************************************************)
(* What an active-reference gate promises, without the counter encoding.   *)
(*                                                                         *)
(* An object is new, then active, then deactivated, then being released,   *)
(* then drained.  References can be taken only while it is active, the     *)
(* release callback runs once, and it runs only when every reference that  *)
(* was ever taken has been given back.  Module Active shows that the       *)
(* single biased counter of active.c implements this specification.        *)
(***************************************************************************)
EXTENDS Naturals

CONSTANTS
    Threads      \* the callers of the gate

VARIABLES
    phase,       \* lifecycle phase of the object
    holders,     \* holders[t]: references thread t holds
    released     \* how many times the release callback has run

avars == <<phase, holders, released>>

Phases == {"new", "active", "deactivated", "release", "drained"}

Unreferenced == \A t \in Threads : holders[t] = 0

AInit ==
    /\ phase = "new"
    /\ holders = [t \in Threads |-> 0]
    /\ released = 0

AActivate ==
    /\ phase = "new"
    /\ phase' = "active"
    /\ UNCHANGED <<holders, released>>

AAcquire(t) ==
    /\ phase = "active"
    /\ holders' = [holders EXCEPT ![t] = @ + 1]
    /\ UNCHANGED <<phase, released>>

ARelease(t) ==
    /\ holders[t] > 0
    /\ holders' = [holders EXCEPT ![t] = @ - 1]
    /\ UNCHANGED <<phase, released>>

ADeactivate ==
    /\ phase \in {"new", "active"}
    /\ phase' = "deactivated"
    /\ UNCHANGED <<holders, released>>

\* One caller is admitted to run the release, and only once nobody holds
\* a reference.
ABeginRelease ==
    /\ phase = "deactivated"
    /\ Unreferenced
    /\ phase' = "release"
    /\ UNCHANGED <<holders, released>>

ACallback ==
    /\ phase = "release"
    /\ released = 0
    /\ released' = 1
    /\ UNCHANGED <<phase, holders>>

AEndRelease ==
    /\ phase = "release"
    /\ released = 1
    /\ phase' = "drained"
    /\ UNCHANGED <<holders, released>>

ANext ==
    \/ AActivate
    \/ ADeactivate
    \/ ABeginRelease
    \/ ACallback
    \/ AEndRelease
    \/ \E t \in Threads : AAcquire(t) \/ ARelease(t)

ASpec == AInit /\ [][ANext]_avars

=============================================================================

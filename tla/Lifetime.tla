------------------------------ MODULE Lifetime ------------------------------
(***************************************************************************)
(* What nano_com promises about the lifetime of an object, whatever its    *)
(* implementation: whoever obtains an interface owns a reference, every    *)
(* reference is given back once, and the object is destroyed exactly once, *)
(* after the last reference is gone and never before.  There are no        *)
(* threads, counters or memory blocks here; RefCount implements this.      *)
(***************************************************************************)
EXTENDS Naturals

CONSTANT Refs           \* the references that clients may own

VARIABLES
  phase,                \* where the object is in its life
  owned                 \* the references that are owned by some client

lvars == <<phase, owned>>

LifetimeTypeOK ==
  /\ phase \in {"unborn", "alive", "dying", "dead"}
  /\ owned \subseteq Refs

LifetimeInit ==
  /\ phase = "unborn"
  /\ owned = {}

(* The creator gets the first reference. *)
Create(r) ==
  /\ phase = "unborn"
  /\ phase' = "alive"
  /\ owned' = {r}

(* A reference can only be made from a reference: a dying object has none, *)
(* so it cannot be brought back.                                           *)
Acquire(r) ==
  /\ phase = "alive"
  /\ owned # {}
  /\ r \notin owned
  /\ owned' = owned \union {r}
  /\ UNCHANGED phase

(* Giving back the last reference is what starts the destruction. *)
Drop(r) ==
  /\ phase = "alive"
  /\ r \in owned
  /\ owned' = owned \ {r}
  /\ phase' = IF owned = {r} THEN "dying" ELSE "alive"

Reclaim ==
  /\ phase = "dying"
  /\ phase' = "dead"
  /\ UNCHANGED owned

LifetimeNext ==
  \/ \E r \in Refs : Create(r) \/ Acquire(r) \/ Drop(r)
  \/ Reclaim

LifetimeSpec == LifetimeInit /\ [][LifetimeNext]_lvars

=============================================================================

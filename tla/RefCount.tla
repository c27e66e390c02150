------------------------------ MODULE RefCount ------------------------------
(***************************************************************************)
(* One reference-counted object of src/ncom/core_impl.c, used by several   *)
(* threads.  add_ref, release and query_interface are the only calls that  *)
(* nano_com makes thread-safe ("lifetime-only thread-safe", base.h), so    *)
(* this is where its threads interleave.                                   *)
(*                                                                         *)
(* A reference is a token with an owner.  Clients respect the ownership    *)
(* rule of doc/llm.md 2.4: a thread calls the object only while it owns a  *)
(* token, and gives every token back once; a token may move to another     *)
(* thread (the move constructor of ncom_ptr.hpp).                          *)
(*                                                                         *)
(* The counter is C11 atomic: increments are relaxed, decrements are       *)
(* acquire-release.  What that buys is tracked by "knows": u \in knows[t]  *)
(* says that every access thread u has made to the object's memory happens *)
(* before what thread t does next.                                         *)
(***************************************************************************)
EXTENDS Naturals, FiniteSets

CONSTANTS
  Threads,        \* the client threads
  Refs,           \* reference tokens: bounds the references that exist at once
  NoThread,       \* the owner of a token that is not in use
  Modulus         \* the counter holds a value modulo this (2^32 in the code)

ASSUME NoThreadAssumption == NoThread \notin Threads

(* The counter is wide enough for all the references clients can hold.     *)
ASSUME NoWrapAssumption ==
  /\ IsFiniteSet(Refs)
  /\ Modulus \in Nat
  /\ Cardinality(Refs) < Modulus

VARIABLES
  obj,            \* the block holding vtbl, counter and length: ncom_string_impl_t
  data,           \* the block holding the characters
  rc,             \* ref_cnt
  owner,          \* the thread that owns each token
  pc,             \* where a thread is inside release(): "idle" when outside
  knows,          \* knows[t]: the threads whose accesses happen before t's next step
  rcKnows         \* the same for whoever acquires the counter

vars == <<obj, data, rc, owner, pc, knows, rcKnows>>

TypeOK ==
  /\ obj \in {"none", "live", "freed"}
  /\ data \in {"none", "live", "freed"}
  /\ rc \in 0 .. Cardinality(Refs)
  /\ owner \in [Refs -> Threads \union {NoThread}]
  /\ pc \in [Threads -> {"idle", "free_data", "free_obj"}]
  /\ knows \in [Threads -> SUBSET Threads]
  /\ rcKnows \subseteq Threads

Owned == {r \in Refs : owner[r] # NoThread}

Holds(t) == \E r \in Refs : owner[r] = t

Idle(t) == pc[t] = "idle"

(***************************************************************************)
(* Memory order.  An access by t is news to everybody else.  A relaxed     *)
(* read-modify-write is such an access: it orders nothing, and leaves what *)
(* earlier decrements published (it continues their release sequence).     *)
(***************************************************************************)
Touch(t) ==
  /\ knows' = [u \in Threads |-> knows[u] \ {t}]
  /\ rcKnows' = rcKnows \ {t}

(* An acquire-release read-modify-write by t also learns what earlier      *)
(* decrements published, and publishes all that t knows.                   *)
TouchAcqRel(t) ==
  LET joined == knows[t] \union rcKnows \union {t}
  IN  /\ knows' = [u \in Threads |-> IF u = t THEN joined ELSE knows[u] \ {t}]
      /\ rcKnows' = joined

-----------------------------------------------------------------------------

Init ==
  /\ obj = "none"
  /\ data = "none"
  /\ rc = 0
  /\ owner = [r \in Refs |-> NoThread]
  /\ pc = [t \in Threads |-> "idle"]
  /\ knows = [t \in Threads |-> Threads]
  /\ rcKnows = Threads

(* Fault: the reference is counted twice.                                  *)
IncrementTwice(c) == c + 2

(* ncom_refcnt_inc and ncom_refcnt_dec on the counter's width.             *)
Increment(c) == (c + 1) % Modulus

Decrement(c) == (c + Modulus - 1) % Modulus

(* ncom_create_string: both blocks, count 1, the creator owns the token.   *)
Create(t, r) ==
  /\ obj = "none"
  /\ obj' = "live"
  /\ data' = "live"
  /\ rc' = 1
  /\ owner' = [owner EXCEPT ![r] = t]
  /\ Touch(t)
  /\ UNCHANGED pc

AddRef(t, r) ==
  /\ Idle(t)
  /\ Holds(t)
  /\ owner[r] = NoThread
  /\ rc' = Increment(rc)
  /\ owner' = [owner EXCEPT ![r] = t]
  /\ Touch(t)
  /\ UNCHANGED <<obj, data, pc>>

(* Fault: the returned pointer is not AddRef'ed. *)
QueryInterfaceUncounted(t, r) ==
  /\ Idle(t)
  /\ Holds(t)
  /\ owner[r] = NoThread
  /\ owner' = [owner EXCEPT ![r] = t]
  /\ Touch(t)
  /\ UNCHANGED <<obj, data, rc, pc>>

(* query_interface for an interface the object has (IUnknown, IString)     *)
(* returns an AddRef'ed pointer.  For any other it only reads the object.  *)
QueryInterface(t, r) ==
  /\ Idle(t)
  /\ Holds(t)
  /\ owner[r] = NoThread
  /\ \/ /\ rc' = Increment(rc)
        /\ owner' = [owner EXCEPT ![r] = t]
     \/ UNCHANGED <<rc, owner>>
  /\ Touch(t)
  /\ UNCHANGED <<obj, data, pc>>

(* c_str and length, and the client reading the characters c_str returned. *)
Read(t) ==
  /\ Idle(t)
  /\ Holds(t)
  /\ Touch(t)
  /\ UNCHANGED <<obj, data, rc, owner, pc>>

(* Fault: the object is destroyed while one reference is left. *)
ReleaseEarly(t, r) ==
  /\ Idle(t)
  /\ owner[r] = t
  /\ rc' = Decrement(rc)
  /\ owner' = [owner EXCEPT ![r] = NoThread]
  /\ pc' = [pc EXCEPT ![t] = IF rc' <= 1 THEN "free_data" ELSE "idle"]
  /\ TouchAcqRel(t)
  /\ UNCHANGED <<obj, data>>

(* Fault: the value from before the decrement is compared with 0, as when  *)
(* fetch_sub's result is used without the "- 1u" of ncom_refcnt_dec.       *)
ReleaseOldValue(t, r) ==
  /\ Idle(t)
  /\ owner[r] = t
  /\ rc' = Decrement(rc)
  /\ owner' = [owner EXCEPT ![r] = NoThread]
  /\ pc' = [pc EXCEPT ![t] = IF rc = 0 THEN "free_data" ELSE "idle"]
  /\ TouchAcqRel(t)
  /\ UNCHANGED <<obj, data>>

(* release, first step: the decrement decides whether this thread is the   *)
(* one that destroys the object.                                           *)
Release(t, r) ==
  /\ Idle(t)
  /\ owner[r] = t
  /\ rc' = Decrement(rc)
  /\ owner' = [owner EXCEPT ![r] = NoThread]
  /\ pc' = [pc EXCEPT ![t] = IF rc' = 0 THEN "free_data" ELSE "idle"]
  /\ TouchAcqRel(t)
  /\ UNCHANGED <<obj, data>>

(* release, second step: free(s->data) ...                                 *)
FreeData(t) ==
  /\ pc[t] = "free_data"
  /\ data' = "freed"
  /\ pc' = [pc EXCEPT ![t] = "free_obj"]
  /\ Touch(t)
  /\ UNCHANGED <<obj, rc, owner>>

(* ... and third: free(s).                                                 *)
FreeObj(t) ==
  /\ pc[t] = "free_obj"
  /\ obj' = "freed"
  /\ pc' = [pc EXCEPT ![t] = "idle"]
  /\ Touch(t)
  /\ UNCHANGED <<data, rc, owner>>

(* A client moves a reference to another thread.  Passing the pointer      *)
(* synchronises the two: it cannot be passed without a race otherwise.     *)
HandOff(t, u, r) ==
  /\ t # u
  /\ Idle(t)
  /\ Idle(u)
  /\ owner[r] = t
  /\ owner' = [owner EXCEPT ![r] = u]
  /\ knows' = [knows EXCEPT ![u] = @ \union knows[t] \union {t}]
  /\ UNCHANGED <<obj, data, rc, pc, rcKnows>>

Next ==
  \E t \in Threads :
    \/ \E r \in Refs :
         \/ Create(t, r)
         \/ AddRef(t, r)
         \/ QueryInterface(t, r)
         \/ Release(t, r)
         \/ \E u \in Threads : HandOff(t, u, r)
    \/ Read(t)
    \/ FreeData(t)
    \/ FreeObj(t)

Spec == Init /\ [][Next]_vars

(* A thread that has started to destroy the object gets to run again.      *)
(* Nothing is assumed of clients: they may keep their references forever.  *)
FairSpec == Spec /\ \A t \in Threads : WF_vars(FreeData(t) \/ FreeObj(t))

-----------------------------------------------------------------------------

(* While the object exists the counter is the number of references in use: *)
(* no call of any thread is lost or counted twice.                         *)
CountIsOwned == obj = "live" => rc = Cardinality(Owned)

(* As long as any thread owns a reference, nothing of the object has been  *)
(* freed: no call that the ownership rule allows touches freed memory.     *)
OwnedIsLive == Owned # {} => obj = "live" /\ data = "live"

(* At most one thread ever sees its decrement reach 0, and it frees each   *)
(* block once, the characters before the block that points to them.        *)
OneDestroyer ==
  /\ \A t, u \in Threads : ~Idle(t) /\ ~Idle(u) => t = u
  /\ \A t \in Threads :
       /\ pc[t] = "free_data" => obj = "live" /\ data = "live"
       /\ pc[t] = "free_obj" => obj = "live" /\ data = "freed"

(* The thread that frees the object does so after every access of every    *)
(* other thread, by the happens-before order of C11 and not only by luck   *)
(* of the interleaving: free() races with no late reader.                  *)
FreeAfterAccesses ==
  \A t \in Threads : ~Idle(t) => Threads \ {t} \subseteq knows[t]

(* Once the last reference is given back both blocks are freed.            *)
LastReleaseDestroys ==
  (obj = "live" /\ Owned = {}) ~> (obj = "freed" /\ data = "freed")

(* Whatever any thread has done to the object is known to the counter or   *)
(* to someone who will still decrement it or is already destroying, so the *)
(* destroyer learns of it whoever that turns out to be.                    *)
Published ==
  obj = "live" =>
    \A u \in Threads :
      \/ u \in rcKnows
      \/ \E t \in Threads : (Holds(t) \/ ~Idle(t)) /\ u \in knows[t] \union {t}

(* The inductive invariant behind the properties above: besides them, the  *)
(* object has owners or a destroyer, not both, and only while it is live.  *)
IInv ==
  /\ TypeOK
  /\ CountIsOwned
  /\ OwnedIsLive
  /\ OneDestroyer
  /\ FreeAfterAccesses
  /\ Published
  /\ Owned # {} => \A t \in Threads : Idle(t)
  /\ obj = "live" => Owned # {} \/ \E t \in Threads : ~Idle(t)
  /\ obj # "live" => \A t \in Threads : Idle(t)
  /\ obj = "none" => rcKnows = Threads

(* RefCount implements Lifetime: the object is dying from the decrement    *)
(* that reached 0 until its last block is freed.                           *)
Phase ==
  CASE obj = "none"  -> "unborn"
    [] obj = "freed" -> "dead"
    [] OTHER         -> IF \A t \in Threads : Idle(t) THEN "alive" ELSE "dying"

Abstract == INSTANCE Lifetime WITH phase <- Phase, owned <- Owned

(* Each step of a thread is one step of Lifetime or changes nothing that   *)
(* Lifetime can see: a destroyed object is never revived by a late add_ref *)
(* or query_interface, and each reference is worth exactly one release.    *)
ImplementsLifetime == Abstract!LifetimeSpec

=============================================================================

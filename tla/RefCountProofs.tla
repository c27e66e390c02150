--------------------------- MODULE RefCountProofs ---------------------------
(***************************************************************************)
(* The safety properties of RefCount, proved for every set of threads,     *)
(* every finite set of references and every counter width that has room    *)
(* for them.                                                               *)
(***************************************************************************)
EXTENDS RefCount, FiniteSetTheorems, TLAPS

(* Within the counter's width the modular operations are the plain ones.   *)
LEMMA IncrementNoWrap ==
  ASSUME NEW c \in Nat, c + 1 < Modulus
  PROVE  Increment(c) = c + 1
  BY NoWrapAssumption DEF Increment

LEMMA DecrementNoWrap ==
  ASSUME NEW c \in 1 .. Modulus - 1
  PROVE  Decrement(c) = c - 1
  BY NoWrapAssumption DEF Decrement

(* The number of references in use never exceeds the number there are.     *)
LEMMA OwnedFinite ==
  /\ IsFiniteSet(Owned)
  /\ Cardinality(Owned) \in Nat
  /\ Cardinality(Owned) <= Cardinality(Refs)
  /\ Cardinality(Refs) \in Nat
  /\ Cardinality(Owned) = 0 <=> Owned = {}
<1>1. Owned \in SUBSET Refs
  BY DEF Owned
<1>2. IsFiniteSet(Owned) /\ Cardinality(Owned) <= Cardinality(Refs)
  BY <1>1, FS_Subset, NoWrapAssumption
<1>3. QED
  BY <1>2, FS_CardinalityType, FS_EmptySet, NoWrapAssumption

(* A token that is given out adds one to the number of those in use ...    *)
LEMMA OwnedTake ==
  ASSUME TypeOK, NEW t \in Threads, NEW r \in Refs, owner[r] = NoThread,
         owner' = [owner EXCEPT ![r] = t]
  PROVE  /\ Owned' = Owned \union {r}
         /\ r \notin Owned
         /\ Cardinality(Owned') = Cardinality(Owned) + 1
         /\ Cardinality(Owned') <= Cardinality(Refs)
<1>1. Owned' = Owned \union {r} /\ r \notin Owned
  BY NoThreadAssumption DEF Owned, TypeOK
<1>2. Cardinality(Owned') = Cardinality(Owned) + 1
  BY <1>1, OwnedFinite, FS_AddElement
<1>3. Owned' \in SUBSET Refs
  BY DEF Owned
<1>4. Cardinality(Owned') <= Cardinality(Refs)
  BY <1>3, FS_Subset, NoWrapAssumption
<1>5. QED
  BY <1>1, <1>2, <1>4

(* ... and one that is given back subtracts one.                           *)
LEMMA OwnedGive ==
  ASSUME TypeOK, NEW r \in Refs, owner[r] \in Threads,
         owner' = [owner EXCEPT ![r] = NoThread]
  PROVE  /\ Owned' = Owned \ {r}
         /\ r \in Owned
         /\ Cardinality(Owned') = Cardinality(Owned) - 1
         /\ Cardinality(Owned) \in 1 .. Cardinality(Refs)
<1>1. Owned' = Owned \ {r} /\ r \in Owned
  BY NoThreadAssumption DEF Owned, TypeOK
<1>2. Cardinality(Owned') = Cardinality(Owned) - 1
  BY <1>1, OwnedFinite, FS_RemoveElement
<1>3. Cardinality(Owned) \in 1 .. Cardinality(Refs)
  BY <1>1, OwnedFinite
<1>4. QED
  BY <1>1, <1>2, <1>3

(* The owner of a token is among those that own one.                       *)
LEMMA HolderOwns ==
  ASSUME NEW t \in Threads, Holds(t)
  PROVE  Owned # {}
  BY NoThreadAssumption DEF Holds, Owned

(* A thread that owns a token still does after it took another; so does    *)
(* every other thread.                                                     *)
LEMMA HoldersTake ==
  ASSUME TypeOK, NEW t \in Threads, NEW r \in Refs, owner[r] = NoThread,
         owner' = [owner EXCEPT ![r] = t]
  PROVE  /\ Holds(t)'
         /\ \A u \in Threads : Holds(u) => Holds(u)'
  BY NoThreadAssumption DEF Holds, TypeOK

-----------------------------------------------------------------------------
(* IInv holds initially and is preserved by each action.                   *)

LEMMA InitIInv == Init => IInv
<1> SUFFICES ASSUME Init PROVE IInv
  OBVIOUS
<1>1. Owned = {}
  BY DEF Init, Owned
<1>2. TypeOK
  BY OwnedFinite, NoThreadAssumption DEF Init, TypeOK
<1>3. QED
  BY <1>1, <1>2 DEF Init, IInv, CountIsOwned, OwnedIsLive, OneDestroyer,
     FreeAfterAccesses, Published, Idle

LEMMA CreateStep ==
  ASSUME IInv, NEW t \in Threads, NEW r \in Refs, Create(t, r)
  PROVE  IInv'
<1>1. TypeOK /\ Owned = {} /\ rcKnows = Threads /\ \A u \in Threads : Idle(u)
  BY DEF IInv, OwnedIsLive, Create
<1>2. owner[r] = NoThread
  BY <1>1 DEF Owned
<1>3. Cardinality(Owned') = Cardinality(Owned) + 1 /\ Owned' = {r}
      /\ Cardinality(Owned') <= Cardinality(Refs)
  BY <1>1, <1>2, OwnedTake DEF Create
<1>4. Cardinality(Owned') = 1 /\ Owned' # {} /\ 1 <= Cardinality(Refs)
  BY <1>1, <1>3, FS_EmptySet
<1>5. \A u \in Threads : Idle(u)'
  BY <1>1 DEF Idle, Create
<1>6. TypeOK'
  BY <1>1, <1>4, OwnedFinite DEF TypeOK, Touch, Create
<1>7. Holds(t)'
  BY <1>1 DEF Holds, TypeOK, Create
<1>8. Published'
  BY <1>1, <1>7 DEF Published, Touch, Create
<1>9. obj' = "live" /\ data' = "live" /\ rc' = 1
  BY DEF Create
<1>10. QED
  BY <1>4, <1>5, <1>6, <1>8, <1>9
     DEF IInv, CountIsOwned, OwnedIsLive, OneDestroyer, FreeAfterAccesses, Idle

(* add_ref, and query_interface when it succeeds.                          *)
LEMMA TakeStep ==
  ASSUME IInv, NEW t \in Threads, NEW r \in Refs,
         Holds(t), owner[r] = NoThread, rc' = Increment(rc),
         owner' = [owner EXCEPT ![r] = t], Touch(t),
         UNCHANGED <<obj, data, pc>>
  PROVE  IInv'
<1>1. TypeOK /\ obj = "live" /\ data = "live" /\ rc = Cardinality(Owned)
      /\ \A u \in Threads : Idle(u)
  BY HolderOwns DEF IInv, OwnedIsLive, CountIsOwned
<1>2. /\ Cardinality(Owned') = Cardinality(Owned) + 1
      /\ Cardinality(Owned') <= Cardinality(Refs)
      /\ Owned' # {}
  BY <1>1, OwnedTake
<1>3. rc' = Cardinality(Owned')
  BY <1>1, <1>2, IncrementNoWrap, OwnedFinite, NoWrapAssumption
<1>4. TypeOK'
  BY <1>1, <1>2, <1>3, OwnedFinite DEF TypeOK, Touch
<1>5. \A u \in Threads : Idle(u)'
  BY <1>1 DEF Idle
<1>6. Holds(t)' /\ \A u \in Threads : Holds(u) => Holds(u)'
  BY <1>1, HoldersTake
<1>7. Published'
  BY <1>1, <1>6 DEF IInv, Published, Touch, TypeOK, Idle
<1>8. QED
  BY <1>1, <1>2, <1>3, <1>4, <1>5, <1>7
     DEF IInv, CountIsOwned, OwnedIsLive, OneDestroyer, FreeAfterAccesses

(* A call that only reads the object.                                      *)
LEMMA ReadStep ==
  ASSUME IInv, NEW t \in Threads, Holds(t), Touch(t),
         UNCHANGED <<obj, data, rc, owner, pc>>
  PROVE  IInv'
<1>1. TypeOK /\ obj = "live" /\ Owned' = Owned /\ \A u \in Threads : Idle(u)
  BY HolderOwns DEF IInv, OwnedIsLive, Owned
<1>2. TypeOK'
  BY <1>1 DEF TypeOK, Touch
<1>3. \A u \in Threads : Idle(u)' /\ (Holds(u) <=> Holds(u)')
  BY <1>1 DEF Idle, Holds
<1>4. Published'
  BY <1>1, <1>3 DEF IInv, Published, Touch, TypeOK, Idle
<1>5. QED
  BY <1>1, <1>2, <1>3, <1>4
     DEF IInv, CountIsOwned, OwnedIsLive, OneDestroyer, FreeAfterAccesses

(* release up to and including the decrement: either references remain,    *)
(* or this thread has learnt of all accesses and becomes the destroyer.    *)
LEMMA ReleaseStep ==
  ASSUME IInv, NEW t \in Threads, NEW r \in Refs, Release(t, r)
  PROVE  IInv'
<1> DEFINE joined == knows[t] \union rcKnows \union {t}
<1>1. Holds(t) /\ owner[r] \in Threads
  BY DEF Release, Holds
<1>2. TypeOK /\ obj = "live" /\ data = "live" /\ rc = Cardinality(Owned)
      /\ \A u \in Threads : Idle(u)
  BY <1>1, HolderOwns DEF IInv, OwnedIsLive, CountIsOwned
<1>3. /\ Owned' = Owned \ {r}
      /\ Cardinality(Owned') = Cardinality(Owned) - 1
      /\ Cardinality(Owned) \in 1 .. Cardinality(Refs)
  BY <1>1, <1>2, OwnedGive DEF Release
<1>4. rc' = Cardinality(Owned') /\ rc' \in 0 .. Cardinality(Refs)
  <2>1. Decrement(rc) = rc - 1
    BY <1>2, <1>3, DecrementNoWrap, OwnedFinite, NoWrapAssumption
  <2>2. QED
    BY <1>2, <1>3, <2>1, OwnedFinite DEF Release
<1>5. rc' = 0 <=> Owned' = {}
  <2>1. IsFiniteSet(Owned')
    BY <1>3, OwnedFinite, FS_RemoveElement
  <2>2. QED
    BY <1>4, <2>1, FS_EmptySet
<1>6. knows' = [u \in Threads |-> IF u = t THEN joined ELSE knows[u] \ {t}]
      /\ rcKnows' = joined
  BY DEF Release, TouchAcqRel
<1>7. TypeOK'
  BY <1>2, <1>4, <1>6 DEF TypeOK, Release
<1>8. \A u \in Threads : u # t => Idle(u)' /\ (Holds(u) => Holds(u)')
  BY <1>2 DEF Idle, Holds, Release, TypeOK
<1>9. Idle(t)' <=> Owned' # {}
  BY <1>2, <1>5 DEF Idle, Release, TypeOK
<1>10. pc'[t] = IF Owned' = {} THEN "free_data" ELSE "idle"
  BY <1>2, <1>5 DEF Release, TypeOK
<1>11. Published'
  <2>1. SUFFICES ASSUME NEW u \in Threads, u \notin joined
                 PROVE  \E v \in Threads : (Holds(v) \/ ~Idle(v))'
                                           /\ u \in knows'[v] \union {v}
    BY <1>6 DEF Published
  <2>2. PICK v \in Threads : Holds(v) /\ u \in knows[v] \union {v}
    BY <1>2, <2>1 DEF IInv, Published
  <2>3. v # t /\ u # t
    BY <2>1, <2>2
  <2>4. QED
    BY <1>2, <1>6, <1>8, <2>2, <2>3 DEF TypeOK
<1>12. Owned' = {} => Threads \subseteq joined
  <2>1. SUFFICES ASSUME Owned' = {}, NEW u \in Threads, u \notin joined
                 PROVE  FALSE
    OBVIOUS
  <2>2. PICK v \in Threads : Holds(v) /\ u \in knows[v] \union {v}
    BY <1>2, <2>1 DEF IInv, Published
  <2>3. v # t
    BY <2>1, <2>2
  <2>4. Holds(v)'
    BY <1>8, <2>2, <2>3
  <2>5. QED
    BY <2>1, <2>4, NoThreadAssumption DEF Holds, Owned
<1>13. FreeAfterAccesses'
  BY <1>2, <1>6, <1>8, <1>9, <1>12 DEF FreeAfterAccesses, TypeOK
<1>14. OneDestroyer'
  BY <1>2, <1>8, <1>10 DEF OneDestroyer, Idle, Release
<1>15. QED
  BY <1>2, <1>4, <1>7, <1>8, <1>9, <1>11, <1>13, <1>14
     DEF IInv, CountIsOwned, OwnedIsLive, Release

(* The destroyer's two steps: nobody else is inside the object.            *)
LEMMA FreeStep ==
  ASSUME IInv, NEW t \in Threads, FreeData(t) \/ FreeObj(t)
  PROVE  IInv'
<1>1. TypeOK /\ ~Idle(t) /\ obj = "live" /\ Owned = {}
  BY DEF IInv, OneDestroyer, FreeData, FreeObj, Idle
<1>2. Owned' = {} /\ \A u \in Threads : Holds(u) <=> Holds(u)'
  BY <1>1 DEF Owned, Holds, FreeData, FreeObj
<1>3. \A u \in Threads : u # t => Idle(u) /\ Idle(u)'
  BY <1>1 DEF IInv, OneDestroyer, Idle, FreeData, FreeObj, TypeOK
<1>4. TypeOK'
  BY <1>1 DEF TypeOK, Touch, FreeData, FreeObj
<1>5. CASE FreeData(t)
  <2>1. obj' = "live" /\ data' = "freed" /\ ~Idle(t)' /\ pc'[t] = "free_obj"
    BY <1>1, <1>5 DEF FreeData, Idle, TypeOK
  <2>2. knows' = [u \in Threads |-> knows[u] \ {t}]
    BY <1>5 DEF FreeData, Touch
  <2>3. FreeAfterAccesses'
    BY <1>1, <1>3, <2>2 DEF IInv, FreeAfterAccesses, TypeOK
  <2>4. Published'
    BY <1>1, <2>1, <2>2, <2>3 DEF Published, FreeAfterAccesses, TypeOK
  <2>5. OneDestroyer'
    BY <1>3, <2>1 DEF OneDestroyer, Idle
  <2>6. CountIsOwned'
    BY <1>1, <1>2, <1>5 DEF IInv, CountIsOwned, FreeData
  <2>7. QED
    BY <1>2, <1>4, <2>1, <2>3, <2>4, <2>5, <2>6 DEF IInv, OwnedIsLive
<1>6. CASE FreeObj(t)
  <2>1. obj' = "freed" /\ \A u \in Threads : Idle(u)'
    BY <1>1, <1>3, <1>6 DEF FreeObj, Idle, TypeOK
  <2>2. QED
    BY <1>2, <1>4, <2>1 DEF IInv, CountIsOwned, OwnedIsLive, OneDestroyer,
       FreeAfterAccesses, Published, Idle
<1>7. QED
  BY <1>5, <1>6

(* A reference that changes hands takes along what its old owner knew.     *)
LEMMA HandOffStep ==
  ASSUME IInv, NEW t \in Threads, NEW u \in Threads, NEW r \in Refs,
         HandOff(t, u, r)
  PROVE  IInv'
<1>1. Holds(t) /\ TypeOK
  BY DEF HandOff, Holds, IInv
<1>2. obj = "live" /\ data = "live" /\ \A v \in Threads : Idle(v)
  BY <1>1, HolderOwns DEF IInv, OwnedIsLive
<1>3. Owned' = Owned /\ Owned # {}
  BY <1>1, HolderOwns, NoThreadAssumption DEF Owned, HandOff, TypeOK
<1>4. TypeOK' /\ \A v \in Threads : Idle(v)'
  BY <1>1, <1>2 DEF TypeOK, HandOff, Idle
<1>5. Holds(u)' /\ \A v \in Threads : v # t /\ Holds(v) => Holds(v)'
  BY <1>1 DEF Holds, HandOff, TypeOK
<1>6. \A v \in Threads : knows[v] \subseteq knows'[v]
  BY <1>1 DEF HandOff, TypeOK
<1>7. knows[t] \union {t} \subseteq knows'[u]
  BY <1>1 DEF HandOff, TypeOK
<1>8. Published'
  <2>1. SUFFICES ASSUME NEW w \in Threads, w \notin rcKnows
                 PROVE  \E v \in Threads : Holds(v)' /\ w \in knows'[v] \union {v}
    BY DEF Published, HandOff
  <2>2. PICK v \in Threads : Holds(v) /\ w \in knows[v] \union {v}
    BY <1>2, <2>1 DEF IInv, Published
  <2>3. CASE v = t
    BY <1>5, <1>7, <2>2, <2>3
  <2>4. CASE v # t
    BY <1>5, <1>6, <2>2, <2>4
  <2>5. QED
    BY <2>3, <2>4
<1>9. QED
  BY <1>2, <1>3, <1>4, <1>8 DEF IInv, CountIsOwned, OwnedIsLive,
     OneDestroyer, FreeAfterAccesses, HandOff, Idle

LEMMA NextIInv == IInv /\ [Next]_vars => IInv'
<1> SUFFICES ASSUME IInv, [Next]_vars PROVE IInv'
  OBVIOUS
<1>1. ASSUME NEW t \in Threads, NEW r \in Refs, Create(t, r) PROVE IInv'
  BY <1>1, CreateStep
<1>2. ASSUME NEW t \in Threads, NEW r \in Refs, AddRef(t, r) PROVE IInv'
  BY <1>2, TakeStep DEF AddRef
<1>3. ASSUME NEW t \in Threads, NEW r \in Refs, QueryInterface(t, r)
      PROVE  IInv'
  BY <1>3, TakeStep, ReadStep DEF QueryInterface
<1>4. ASSUME NEW t \in Threads, Read(t) PROVE IInv'
  BY <1>4, ReadStep DEF Read
<1>5. ASSUME NEW t \in Threads, NEW r \in Refs, Release(t, r) PROVE IInv'
  BY <1>5, ReleaseStep
<1>6. ASSUME NEW t \in Threads, FreeData(t) \/ FreeObj(t) PROVE IInv'
  BY <1>6, FreeStep
<1>7. ASSUME NEW t \in Threads, NEW u \in Threads, NEW r \in Refs,
             HandOff(t, u, r)
      PROVE  IInv'
  BY <1>7, HandOffStep
<1>8. CASE UNCHANGED vars
  BY <1>8 DEF vars, IInv, TypeOK, CountIsOwned, OwnedIsLive, OneDestroyer,
     FreeAfterAccesses, Published, Owned, Holds, Idle
<1>9. QED
  BY <1>1, <1>2, <1>3, <1>4, <1>5, <1>6, <1>7, <1>8 DEF Next

(* IInv is an invariant of the threads.                                    *)
LEMMA Invariance == Spec => []IInv
  BY InitIInv, NextIInv, PTL DEF Spec

-----------------------------------------------------------------------------
(* The theorems: what the rest of the project and its readers rely on.     *)

(* Every variable keeps its type, and the counter never exceeds the number *)
(* of references there are.                                                *)
THEOREM TypeCorrect == Spec => []TypeOK
  BY Invariance, PTL DEF IInv

(* ncom_refcnt_inc and ncom_refcnt_dec of concurrent calls are never lost. *)
THEOREM CountCorrect == Spec => []CountIsOwned
  BY Invariance, PTL DEF IInv

(* A thread that owns a reference finds the object and its characters.     *)
THEOREM NoUseAfterFree == Spec => []OwnedIsLive
  BY Invariance, PTL DEF IInv

(* release() frees each block once, in one thread.                         *)
THEOREM FreedOnce == Spec => []OneDestroyer
  BY Invariance, PTL DEF IInv

(* free() comes after every access in happens-before: acquire-release on   *)
(* the decrement and relaxed on the increment are enough.                  *)
THEOREM NoRaceWithFree == Spec => []FreeAfterAccesses
  BY Invariance, PTL DEF IInv

-----------------------------------------------------------------------------
(* The refinement of Lifetime, step by step.                               *)

(* The phase, from the invariant's point of view.                          *)
LEMMA PhaseOfOwned ==
  ASSUME IInv
  PROVE  /\ obj = "none" => Phase = "unborn"
         /\ obj = "freed" => Phase = "dead"
         /\ Owned # {} => Phase = "alive"
         /\ obj = "live" /\ Owned = {} => Phase = "dying"
  BY DEF Phase, IInv, OwnedIsLive

(* The same in the next state, which satisfies IInv as well.               *)
LEMMA PhaseOfOwnedNext ==
  ASSUME IInv'
  PROVE  /\ obj' = "none" => Phase' = "unborn"
         /\ obj' = "freed" => Phase' = "dead"
         /\ Owned' # {} => Phase' = "alive"
         /\ obj' = "live" /\ Owned' = {} => Phase' = "dying"
  BY DEF Phase, IInv, OwnedIsLive

LEMMA StepRefines ==
  ASSUME IInv, [Next]_vars
  PROVE  [Abstract!LifetimeNext]_<<Phase, Owned>>
<1> USE PhaseOfOwned
<1>1. IInv' /\ TypeOK
  BY NextIInv DEF IInv
<1> USE <1>1, PhaseOfOwnedNext
<1>2. ASSUME NEW t \in Threads, NEW r \in Refs, Create(t, r)
      PROVE  Abstract!Create(r)
  <2>1. Owned = {}
    BY <1>2 DEF Create, IInv, OwnedIsLive
  <2>2. Owned' = {r}
    BY <1>2, <2>1, OwnedTake DEF Create, Owned
  <2>3. QED
    BY <1>2, <2>1, <2>2 DEF Abstract!Create, Create
<1>3. ASSUME NEW t \in Threads, NEW r \in Refs, Holds(t),
             owner[r] = NoThread, owner' = [owner EXCEPT ![r] = t]
      PROVE  Abstract!Acquire(r)
  BY <1>3, OwnedTake, HolderOwns DEF Abstract!Acquire
<1>4. ASSUME NEW t \in Threads, NEW r \in Refs, Release(t, r)
      PROVE  Abstract!Drop(r)
  <2>1. Owned' = Owned \ {r} /\ r \in Owned
    BY <1>4, OwnedGive DEF Release
  <2>2. obj' = "live"
    BY <1>4, <2>1 DEF Release, IInv, OwnedIsLive
  <2>3. QED
    BY <2>1, <2>2 DEF Abstract!Drop
<1>5. ASSUME NEW t \in Threads, FreeObj(t) PROVE Abstract!Reclaim
  <2>1. Owned = {} /\ Owned' = {} /\ obj = "live"
    BY <1>5 DEF FreeObj, IInv, OneDestroyer, Idle, Owned
  <2>2. QED
    BY <1>5, <2>1 DEF Abstract!Reclaim, FreeObj
<1>6. ASSUME NEW t \in Threads, FreeData(t) PROVE UNCHANGED <<Phase, Owned>>
  <2>1. Owned = {} /\ Owned' = {} /\ obj = "live" /\ obj' = "live"
    BY <1>6 DEF FreeData, IInv, OneDestroyer, Idle, Owned
  <2>2. QED
    BY <2>1
<1>7. ASSUME NEW t \in Threads, NEW u \in Threads, NEW r \in Refs,
             HandOff(t, u, r)
      PROVE  UNCHANGED <<Phase, Owned>>
  <2>1. Owned' = Owned
    BY <1>7, NoThreadAssumption DEF Owned, HandOff, TypeOK
  <2>2. Owned # {}
    BY <1>7, NoThreadAssumption DEF Owned, HandOff
  <2>3. QED
    BY <2>1, <2>2
<1>8. ASSUME UNCHANGED <<obj, owner, pc>> PROVE UNCHANGED <<Phase, Owned>>
  BY <1>8 DEF Phase, Owned, Idle
<1>9. ASSUME NEW t \in Threads, NEW r \in Refs, AddRef(t, r)
      PROVE  Abstract!Acquire(r)
  BY <1>3, <1>9 DEF AddRef
<1>10. ASSUME NEW t \in Threads, NEW r \in Refs, QueryInterface(t, r)
       PROVE  Abstract!Acquire(r) \/ UNCHANGED <<Phase, Owned>>
  BY <1>3, <1>8, <1>10 DEF QueryInterface
<1>11. ASSUME NEW t \in Threads, Read(t) PROVE UNCHANGED <<Phase, Owned>>
  BY <1>8, <1>11 DEF Read
<1>12. CASE UNCHANGED vars
  BY <1>8, <1>12 DEF vars
<1>13. QED
  BY <1>2, <1>4, <1>5, <1>6, <1>7, <1>9, <1>10, <1>11, <1>12
     DEF Next, Abstract!LifetimeNext

(* RefCount implements Lifetime, whatever the number of threads and        *)
(* references: the concurrent calls act as if each took effect at once.    *)
THEOREM RefinesLifetime == Spec => ImplementsLifetime
<1>1. Init => Abstract!LifetimeInit
  BY DEF Init, Abstract!LifetimeInit, Phase, Owned
<1>2. IInv /\ [Next]_vars => [Abstract!LifetimeNext]_<<Phase, Owned>>
  BY StepRefines
<1>3. QED
  BY <1>1, <1>2, Invariance, PTL
     DEF Spec, ImplementsLifetime, Abstract!LifetimeSpec, Abstract!lvars

=============================================================================

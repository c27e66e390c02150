------------------------- MODULE PluginLoaderProofs -------------------------
(***************************************************************************)
(* The safety properties of PluginLoader, proved for any threads and files *)
(* and any finite number of handles.                                       *)
(***************************************************************************)
EXTENDS PluginLoader, FiniteSetTheorems, TLAPS

(* What a handle block may hold.                                           *)
HandleValues == [lib : Files \union {None}, api : BOOLEAN]

(* What a call may return.                                                 *)
Returns == [st : Statuses, handle : Handles \union {None}, err : {"null", "object"}]

(* TypeOK without the bounds of the two counters, which follow from what   *)
(* they count.                                                             *)
Shape ==
  /\ disk \in [Files -> FileKinds]
  /\ maps \in [Files -> Int]
  /\ running \in [Files -> Int]
  /\ handle \in [Handles -> {None} \union HandleValues]
  /\ open \subseteq Handles
  /\ pc \in [Threads -> Steps]
  /\ path \in [Threads -> Files]
  /\ cur \in [Threads -> Handles \union {None}]
  /\ ret \in [Threads -> Returns]

Core == Shape /\ NoHandleLost /\ HandleStates

(* Setting a field of a handle leaves a handle, which is not NULL.         *)
LEMMA HandleFields ==
  /\ [lib |-> None, api |-> FALSE] \in HandleValues
  /\ [lib |-> None, api |-> FALSE] # None
  /\ None \notin HandleValues
  /\ \A x \in HandleValues, f \in Files :
       /\ [x EXCEPT !.lib = f] \in HandleValues
       /\ [x EXCEPT !.lib = f].lib = f
       /\ [x EXCEPT !.lib = f].api = x.api
  /\ \A x \in HandleValues :
       /\ [x EXCEPT !.api = TRUE] \in HandleValues
       /\ [x EXCEPT !.api = TRUE].lib = x.lib
       /\ [x EXCEPT !.api = TRUE].api
<1>1. [lib |-> None, api |-> FALSE] \in HandleValues
  BY DEF HandleValues
<1>2. None \notin HandleValues
  BY NoneAssumption DEF HandleValues
<1>3. \A x \in HandleValues, f \in Files :
       /\ [x EXCEPT !.lib = f] \in HandleValues
       /\ [x EXCEPT !.lib = f].lib = f
       /\ [x EXCEPT !.lib = f].api = x.api
  BY DEF HandleValues
<1>4. \A x \in HandleValues :
       /\ [x EXCEPT !.api = TRUE] \in HandleValues
       /\ [x EXCEPT !.api = TRUE].lib = x.lib
       /\ [x EXCEPT !.api = TRUE].api
  BY DEF HandleValues
<1>5. QED
  BY <1>1, <1>2, <1>3, <1>4

(* Setting a field of what a call returns leaves a possible return.        *)
LEMMA ReturnFields ==
  /\ \A st \in Statuses : [st |-> st, handle |-> None, err |-> "null"] \in Returns
  /\ \A x \in Returns :
       /\ \A st \in Statuses : [x EXCEPT !.st = st] \in Returns
       /\ \A err \in {"null", "object"} : [x EXCEPT !.err = err] \in Returns
       /\ \A h \in Handles : [x EXCEPT !.handle = h] \in Returns
  /\ {"OK", "INVALID_ARG", "NO_MEM", "NOT_FOUND", "FAIL"} \subseteq Statuses
BY DEF Returns, Statuses

(* The handle that a call works on is a block of its own.                  *)
LEMMA CallHandle ==
  ASSUME Core, NEW t \in Threads, pc[t] \notin {"idle", "alloc"}
  PROVE  /\ cur[t] \in Handles
         /\ cur[t] \in Allocated
         /\ cur[t] \notin open
         /\ handle[cur[t]] \in HandleValues
         /\ \A u \in Threads \ {t} : cur[u] # cur[t]
<1>1. cur[t] \in Handles /\ cur[t] # None
  BY NoneAssumption DEF Core, Shape, HandleStates
<1>2. cur[t] \in Allocated
  BY <1>1 DEF Core, NoHandleLost
<1>3. handle[cur[t]] \in HandleValues
  BY <1>1, <1>2 DEF Core, Shape, Allocated
<1>4. cur[t] \notin open /\ \A u \in Threads \ {t} : cur[u] # cur[t]
  BY <1>1 DEF Core, NoHandleLost
<1>5. QED
  BY <1>1, <1>2, <1>3, <1>4

(* Any set of handles is finite and its size is a natural number.          *)
LEMMA HandleSets ==
  ASSUME NEW S \in SUBSET Handles
  PROVE  /\ IsFiniteSet(S)
         /\ Cardinality(S) \in 0 .. Cardinality(Handles)
         /\ \A h \in Handles \ S : Cardinality(S \union {h}) = Cardinality(S) + 1
         /\ \A h \in S : Cardinality(S \ {h}) = Cardinality(S) - 1
         /\ S # {} => Cardinality(S) > 0
<1>1. IsFiniteSet(S) /\ Cardinality(S) <= Cardinality(Handles)
  BY HandlesAssumption, FS_Subset
<1>2. Cardinality(S) \in Nat /\ Cardinality(Handles) \in Nat
  BY <1>1, HandlesAssumption, FS_CardinalityType
<1>3. /\ \A h \in Handles \ S : Cardinality(S \union {h}) = Cardinality(S) + 1
      /\ \A h \in S : Cardinality(S \ {h}) = Cardinality(S) - 1
  BY <1>1, FS_AddElement, FS_RemoveElement
<1>4. S # {} => Cardinality(S) > 0
  BY <1>1, <1>2, FS_EmptySet
<1>5. QED
  BY <1>1, <1>2, <1>3, <1>4

LEMMA CountsBounded ==
  Core /\ MapsMatchHandles /\ HooksMatchHandles => LoaderInv
<1> SUFFICES ASSUME Core, MapsMatchHandles, HooksMatchHandles
             PROVE  LoaderInv
  OBVIOUS
<1>1. \A f \in Files : maps[f] \in 0 .. Cardinality(Handles)
  BY HandleSets DEF MapsMatchHandles
<1>2. \A f \in Files : running[f] \in 0 .. Cardinality(Handles)
  <2> SUFFICES ASSUME NEW f \in Files
               PROVE  running[f] \in 0 .. Cardinality(Handles)
    OBVIOUS
  <2>1. Cardinality({h \in Handles : Runs(h, f)}) \in 0 .. Cardinality(Handles)
    BY HandleSets
  <2>2. 0 \in 0 .. Cardinality(Handles)
    BY HandlesAssumption, FS_CardinalityType
  <2>3. QED
    BY <2>1, <2>2 DEF HooksMatchHandles
<1>3. TypeOK
  BY <1>1, <1>2 DEF TypeOK, Core, Shape, HandleValues, Returns
<1>4. QED
  BY <1>3 DEF LoaderInv, Core

LEMMA InvHasCore == LoaderInv => Core
BY HandleSets, HandlesAssumption, FS_CardinalityType
   DEF LoaderInv, TypeOK, Core, Shape, HandleValues, Returns

-----------------------------------------------------------------------------
(* What the counters count: nothing changes, one handle more or one less.  *)

LEMMA MapsSame ==
  ASSUME MapsMatchHandles, maps' = maps,
         \A h \in Handles, f \in Files : Maps(h, f)' <=> Maps(h, f)
  PROVE  MapsMatchHandles'
<1>1. \A f \in Files : {h \in Handles : Maps(h, f)'} = {h \in Handles : Maps(h, f)}
  OBVIOUS
<1>2. QED
  BY <1>1 DEF MapsMatchHandles

LEMMA MapsGain ==
  ASSUME MapsMatchHandles, maps \in [Files -> Int],
         NEW g \in Handles, NEW e \in Files, ~Maps(g, e),
         maps' = [maps EXCEPT ![e] = @ + 1],
         \A h \in Handles, f \in Files :
           Maps(h, f)' <=> Maps(h, f) \/ (h = g /\ f = e)
  PROVE  MapsMatchHandles'
<1> SUFFICES ASSUME NEW f \in Files
             PROVE  maps'[f] = Cardinality({h \in Handles : Maps(h, f)'})
  BY DEF MapsMatchHandles
<1> DEFINE S == {h \in Handles : Maps(h, f)}
<1>1. maps[f] = Cardinality(S)
  BY DEF MapsMatchHandles
<1>2. CASE f = e
  <2>1. {h \in Handles : Maps(h, f)'} = S \union {g} /\ g \notin S
    BY <1>2
  <2>2. QED
    BY <1>1, <1>2, <2>1, HandleSets
<1>3. CASE f # e
  <2>1. {h \in Handles : Maps(h, f)'} = S
    BY <1>3
  <2>2. QED
    BY <1>1, <1>3, <2>1
<1>4. QED
  BY <1>2, <1>3

LEMMA MapsLose ==
  ASSUME MapsMatchHandles, maps \in [Files -> Int],
         NEW g \in Handles, NEW e \in Files, Maps(g, e),
         maps' = [maps EXCEPT ![e] = @ - 1],
         \A h \in Handles, f \in Files :
           Maps(h, f)' <=> Maps(h, f) /\ ~(h = g /\ f = e)
  PROVE  MapsMatchHandles'
<1> SUFFICES ASSUME NEW f \in Files
             PROVE  maps'[f] = Cardinality({h \in Handles : Maps(h, f)'})
  BY DEF MapsMatchHandles
<1> DEFINE S == {h \in Handles : Maps(h, f)}
<1>1. maps[f] = Cardinality(S)
  BY DEF MapsMatchHandles
<1>2. CASE f = e
  <2>1. {h \in Handles : Maps(h, f)'} = S \ {g} /\ g \in S
    BY <1>2
  <2>2. QED
    BY <1>1, <1>2, <2>1, HandleSets
<1>3. CASE f # e
  <2>1. {h \in Handles : Maps(h, f)'} = S
    BY <1>3
  <2>2. QED
    BY <1>1, <1>3, <2>1
<1>4. QED
  BY <1>2, <1>3

LEMMA HooksSame ==
  ASSUME HooksMatchHandles, running' = running, disk' = disk,
         \A h \in Handles, f \in Files :
           disk[f] = "hooked" => (Runs(h, f)' <=> Runs(h, f))
  PROVE  HooksMatchHandles'
<1>1. \A f \in Files : disk[f] = "hooked" =>
        {h \in Handles : Runs(h, f)'} = {h \in Handles : Runs(h, f)}
  OBVIOUS
<1>2. QED
  BY <1>1 DEF HooksMatchHandles

LEMMA HooksGain ==
  ASSUME HooksMatchHandles, running \in [Files -> Int], disk' = disk,
         NEW g \in Handles, NEW e \in Files, ~Runs(g, e), disk[e] = "hooked",
         running' = [running EXCEPT ![e] = @ + 1],
         \A h \in Handles, f \in Files :
           Runs(h, f)' <=> Runs(h, f) \/ (h = g /\ f = e)
  PROVE  HooksMatchHandles'
<1> SUFFICES ASSUME NEW f \in Files
             PROVE  running'[f] = IF disk[f] = "hooked"
                      THEN Cardinality({h \in Handles : Runs(h, f)'}) ELSE 0
  BY DEF HooksMatchHandles
<1> DEFINE S == {h \in Handles : Runs(h, f)}
<1>1. running[f] = IF disk[f] = "hooked" THEN Cardinality(S) ELSE 0
  BY DEF HooksMatchHandles
<1>2. CASE f = e
  <2>1. {h \in Handles : Runs(h, f)'} = S \union {g} /\ g \notin S
    BY <1>2
  <2>2. QED
    BY <1>1, <1>2, <2>1, HandleSets
<1>3. CASE f # e
  <2>1. {h \in Handles : Runs(h, f)'} = S
    BY <1>3
  <2>2. QED
    BY <1>1, <1>3, <2>1
<1>4. QED
  BY <1>2, <1>3

LEMMA HooksLose ==
  ASSUME HooksMatchHandles, running \in [Files -> Int], disk' = disk,
         NEW g \in Handles, NEW e \in Files, Runs(g, e), disk[e] = "hooked",
         running' = [running EXCEPT ![e] = @ - 1],
         \A h \in Handles, f \in Files :
           Runs(h, f)' <=> Runs(h, f) /\ ~(h = g /\ f = e)
  PROVE  HooksMatchHandles'
<1> SUFFICES ASSUME NEW f \in Files
             PROVE  running'[f] = IF disk[f] = "hooked"
                      THEN Cardinality({h \in Handles : Runs(h, f)'}) ELSE 0
  BY DEF HooksMatchHandles
<1> DEFINE S == {h \in Handles : Runs(h, f)}
<1>1. running[f] = IF disk[f] = "hooked" THEN Cardinality(S) ELSE 0
  BY DEF HooksMatchHandles
<1>2. CASE f = e
  <2>1. {h \in Handles : Runs(h, f)'} = S \ {g} /\ g \in S
    BY <1>2
  <2>2. QED
    BY <1>1, <1>2, <2>1, HandleSets
<1>3. CASE f # e
  <2>1. {h \in Handles : Runs(h, f)'} = S
    BY <1>3
  <2>2. QED
    BY <1>1, <1>3, <2>1
<1>4. QED
  BY <1>2, <1>3

-----------------------------------------------------------------------------
(* LoaderInv holds initially and is preserved by each action.              *)

LEMMA InitLoaderInv == Init => LoaderInv
<1> SUFFICES ASSUME Init PROVE LoaderInv
  OBVIOUS
<1>1. Core
  <2>1. Shape
    BY ReturnFields DEF Init, Shape, Steps
  <2>2. NoHandleLost /\ HandleStates
    BY DEF Init, NoHandleLost, HandleStates, Allocated
  <2>3. QED
    BY <2>1, <2>2 DEF Core
<1>2. \A h \in Handles, f \in Files : ~Maps(h, f) /\ ~Runs(h, f)
  BY DEF Init, Maps, Runs, Allocated
<1>3. MapsMatchHandles /\ HooksMatchHandles
  <2>1. \A f \in Files : {h \in Handles : Maps(h, f)} = {}
                        /\ {h \in Handles : Runs(h, f)} = {}
    BY <1>2
  <2>2. Cardinality({}) = 0
    BY FS_EmptySet
  <2>3. QED
    BY <2>1, <2>2 DEF Init, MapsMatchHandles, HooksMatchHandles
<1>4. QED
  BY <1>1, <1>3, CountsBounded

LEMMA BeginLoadStep ==
  ASSUME LoaderInv, NEW t \in Threads, NEW f \in Files, BeginLoad(t, f)
  PROVE  LoaderInv'
<1>1. Core /\ MapsMatchHandles /\ HooksMatchHandles
  BY InvHasCore DEF LoaderInv
<1>2. Shape'
  <2>1. ret' \in [Threads -> Returns]
    BY <1>1, ReturnFields DEF Core, Shape, BeginLoad
  <2>2. pc' \in [Threads -> Steps]
    BY <1>1 DEF Core, Shape, BeginLoad, Goto, Steps
  <2>3. QED
    BY <1>1, <2>1, <2>2 DEF Core, Shape, BeginLoad
<1>3. NoHandleLost'
  BY <1>1 DEF Core, NoHandleLost, Allocated, BeginLoad
<1>4. HandleStates'
  BY <1>1 DEF Core, Shape, HandleStates, Lib, Allocated, BeginLoad, Goto, Steps
<1>5. \A h \in Handles, e \in Files :
        (Maps(h, e)' <=> Maps(h, e)) /\ (Runs(h, e)' <=> Runs(h, e))
  BY <1>1 DEF Core, Shape, Maps, Runs, Allocated, BeginLoad, Goto
<1>6. MapsMatchHandles' /\ HooksMatchHandles'
  BY <1>1, <1>5, MapsSame, HooksSame DEF BeginLoad
<1>7. QED
  BY <1>2, <1>3, <1>4, <1>6, CountsBounded, PTL DEF Core

LEMMA AllocHandleStep ==
  ASSUME LoaderInv, NEW t \in Threads, AllocHandle(t)
  PROVE  LoaderInv'
<1>1. Core /\ MapsMatchHandles /\ HooksMatchHandles
  BY InvHasCore DEF LoaderInv
<1>2. CASE ret' = [ret EXCEPT ![t].st = "NO_MEM"] /\ Goto(t, "idle") /\ UNCHANGED <<handle, cur>>
  <2>1. Shape'
    BY <1>1, <1>2, ReturnFields DEF Core, Shape, AllocHandle, Goto, Steps
  <2>2. NoHandleLost'
    BY <1>1, <1>2 DEF Core, NoHandleLost, Allocated, AllocHandle
  <2>3. HandleStates'
    BY <1>1, <1>2 DEF Core, Shape, HandleStates, Lib, Allocated, AllocHandle, Goto, Steps
  <2>4. \A h \in Handles, e \in Files :
          (Maps(h, e)' <=> Maps(h, e)) /\ (Runs(h, e)' <=> Runs(h, e))
    BY <1>1, <1>2 DEF Core, Shape, Maps, Runs, Allocated, AllocHandle, Goto
  <2>5. MapsMatchHandles' /\ HooksMatchHandles'
    BY <1>1, <2>4, MapsSame, HooksSame DEF AllocHandle
  <2>6. QED
    BY <2>1, <2>2, <2>3, <2>5, CountsBounded, PTL DEF Core
<1>3. CASE \E h \in Handles \ Allocated :
             /\ handle' = [handle EXCEPT ![h] = [lib |-> None, api |-> FALSE]]
             /\ cur' = [cur EXCEPT ![t] = h]
             /\ Goto(t, "dlopen")
             /\ UNCHANGED ret
  <2> PICK h \in Handles \ Allocated :
             /\ handle' = [handle EXCEPT ![h] = [lib |-> None, api |-> FALSE]]
             /\ cur' = [cur EXCEPT ![t] = h]
             /\ Goto(t, "dlopen")
             /\ UNCHANGED ret
    BY <1>3
  <2>a. /\ pc[t] = "alloc" /\ cur[t] = None
        /\ [lib |-> None, api |-> FALSE] \in HandleValues
        /\ [lib |-> None, api |-> FALSE] # None
    BY <1>1, HandleFields DEF Core, HandleStates, AllocHandle
  <2>b. \A u \in Threads : cur[u] # h
    BY <1>1, NoneAssumption DEF Core, Shape, NoHandleLost
  <2>1. Shape'
    BY <1>1, <2>a DEF Core, Shape, AllocHandle, Goto, Steps
  <2>2. Allocated' = Allocated \union {h} /\ h \notin Allocated
    BY <1>1, <2>a DEF Core, Shape, Allocated
  <2>3. NoHandleLost'
    BY <1>1, <2>a, <2>2, NoneAssumption DEF Core, Shape, NoHandleLost, AllocHandle
  <2>4. HandleStates'
    BY <1>1, <2>a, <2>b, <2>2, NoneAssumption
       DEF Core, Shape, NoHandleLost, HandleStates, Lib, AllocHandle, Goto, Steps
  <2>5. \A g \in Handles, e \in Files :
          (Maps(g, e)' <=> Maps(g, e)) /\ (Runs(g, e)' <=> Runs(g, e))
    BY <1>1, <2>a, <2>b, <2>2, NoneAssumption DEF Core, Shape, Maps, Runs, AllocHandle, Goto
  <2>6. MapsMatchHandles' /\ HooksMatchHandles'
    BY <1>1, <2>5, MapsSame, HooksSame DEF AllocHandle
  <2>7. QED
    BY <2>1, <2>3, <2>4, <2>6, CountsBounded, PTL DEF Core
<1>4. QED
  BY <1>2, <1>3 DEF AllocHandle

LEMMA DlopenStep ==
  ASSUME LoaderInv, NEW t \in Threads, Dlopen(t)
  PROVE  LoaderInv'
<1> DEFINE g == cur[t]
<1>1. Core /\ MapsMatchHandles /\ HooksMatchHandles
  BY InvHasCore DEF LoaderInv
<1>2. /\ g \in Handles /\ g \in Allocated /\ g \notin open /\ handle[g] \in HandleValues
      /\ \A u \in Threads \ {t} : cur[u] # g
  BY <1>1, CallHandle DEF Dlopen
<1>3. pc[t] = "dlopen" /\ handle[g].lib = None /\ ~handle[g].api /\ path[t] \in Files
  BY <1>1 DEF Core, Shape, HandleStates, Lib, Dlopen
<1>4. CASE /\ maps' = [maps EXCEPT ![path[t]] = @ + 1]
           /\ handle' = [handle EXCEPT ![g].lib = path[t]]
           /\ Goto(t, "resolve")
           /\ UNCHANGED ret
  <2>1. /\ handle'[g] \in HandleValues /\ handle'[g] # None
        /\ handle'[g].lib = path[t] /\ ~handle'[g].api
        /\ \A h \in Handles \ {g} : handle'[h] = handle[h]
        /\ handle' \in [Handles -> {None} \union HandleValues]
    BY <1>1, <1>2, <1>3, <1>4, HandleFields DEF Core, Shape
  <2>2. Allocated' = Allocated
    BY <1>2, <2>1 DEF Allocated
  <2>3. Shape'
    BY <1>1, <1>3, <1>4, <2>1 DEF Core, Shape, Dlopen, Goto, Steps
  <2>4. NoHandleLost'
    BY <1>1, <2>2 DEF Core, NoHandleLost, Dlopen
  <2>5. HandleStates'
    BY <1>1, <1>2, <1>3, <1>4, <2>1, <2>2
       DEF Core, Shape, NoHandleLost, HandleStates, Lib, Allocated, Dlopen, Goto
  <2>6. \A h \in Handles, e \in Files :
          /\ Maps(h, e)' <=> Maps(h, e) \/ (h = g /\ e = path[t])
          /\ Runs(h, e)' <=> Runs(h, e)
    BY <1>1, <1>2, <1>3, <1>4, <2>1, <2>2, NoneAssumption
       DEF Core, Shape, Maps, Runs, Dlopen, Goto
  <2>7. ~Maps(g, path[t])
    BY <1>3, NoneAssumption DEF Maps
  <2>8. MapsMatchHandles'
    BY <1>1, <1>2, <1>3, <1>4, <2>6, <2>7, MapsGain DEF Core, Shape
  <2>9. HooksMatchHandles'
    BY <1>1, <2>6, HooksSame DEF Dlopen
  <2>10. QED
    BY <2>3, <2>4, <2>5, <2>8, <2>9, CountsBounded, PTL DEF Core
<1>5. CASE /\ PosixLoadError(t)
           /\ Goto(t, "shutdown")
           /\ UNCHANGED <<maps, handle>>
  <2>1. ret' \in [Threads -> Returns]
    <3>1. PICK err \in {"object", "null"} :
            ret' = [ret EXCEPT
              ![t].st = IF disk[path[t]] = "missing" THEN "NOT_FOUND" ELSE "FAIL",
              ![t].err = err]
      BY <1>5 DEF PosixLoadError
    <3>2. (IF disk[path[t]] = "missing" THEN "NOT_FOUND" ELSE "FAIL") \in Statuses
      BY ReturnFields
    <3>3. QED
      BY <1>1, <3>1, <3>2, ReturnFields DEF Core, Shape
  <2>2. Shape'
    BY <1>1, <1>5, <2>1 DEF Core, Shape, Dlopen, Goto, Steps
  <2>3. NoHandleLost'
    BY <1>1, <1>5 DEF Core, NoHandleLost, Allocated, Dlopen
  <2>4. HandleStates'
    BY <1>1, <1>3, <1>5 DEF Core, Shape, HandleStates, Lib, Allocated, Dlopen, Goto
  <2>5. \A h \in Handles, e \in Files :
          (Maps(h, e)' <=> Maps(h, e)) /\ (Runs(h, e)' <=> Runs(h, e))
    BY <1>1, <1>2, <1>3, <1>5 DEF Core, Shape, Maps, Runs, Allocated, Dlopen, Goto
  <2>6. MapsMatchHandles' /\ HooksMatchHandles'
    BY <1>1, <1>5, <2>5, MapsSame, HooksSame DEF Dlopen
  <2>7. QED
    BY <2>2, <2>3, <2>4, <2>6, CountsBounded, PTL DEF Core
<1>6. QED
  BY <1>4, <1>5 DEF Dlopen

LEMMA ResolveStep ==
  ASSUME LoaderInv, NEW t \in Threads, Resolve(t)
  PROVE  LoaderInv'
<1>1. Core /\ MapsMatchHandles /\ HooksMatchHandles
  BY InvHasCore DEF LoaderInv
<1>2. Shape'
  <2>1. ret' \in [Threads -> Returns]
    <3>1. ret' = ret \/ ret' = [ret EXCEPT ![t].st = "FAIL"]
      BY DEF Resolve, Fail
    <3>2. ret \in [Threads -> Returns] /\ "FAIL" \in Statuses
      BY <1>1, ReturnFields DEF Core, Shape
    <3>3. [ret EXCEPT ![t].st = "FAIL"] \in [Threads -> Returns]
      BY <3>2, ReturnFields
    <3>4. QED
      BY <3>1, <3>2, <3>3
  <2>2. pc' \in [Threads -> Steps]
    BY <1>1 DEF Core, Shape, Resolve, Fail, Goto, Steps
  <2>3. QED
    BY <1>1, <2>1, <2>2 DEF Core, Shape, Resolve
<1>3. NoHandleLost'
  BY <1>1 DEF Core, NoHandleLost, Allocated, Resolve
<1>4. HandleStates'
  BY <1>1 DEF Core, Shape, HandleStates, Lib, Allocated, Resolve, Fail, Goto
<1>5. \A h \in Handles, e \in Files :
        (Maps(h, e)' <=> Maps(h, e)) /\ (Runs(h, e)' <=> Runs(h, e))
  BY <1>1 DEF Core, Shape, Maps, Runs, Allocated, Resolve, Fail, Goto
<1>6. MapsMatchHandles' /\ HooksMatchHandles'
  BY <1>1, <1>5, MapsSame, HooksSame DEF Resolve
<1>7. QED
  BY <1>2, <1>3, <1>4, <1>6, CountsBounded, PTL DEF Core

LEMMA PluginInitStep ==
  ASSUME LoaderInv, NEW t \in Threads, PluginInit(t)
  PROVE  LoaderInv'
<1> DEFINE g == cur[t]
<1>1. Core /\ MapsMatchHandles /\ HooksMatchHandles
  BY InvHasCore DEF LoaderInv
<1>2. /\ g \in Handles /\ g \in Allocated /\ g \notin open /\ handle[g] \in HandleValues
      /\ \A u \in Threads \ {t} : cur[u] # g
  BY <1>1, CallHandle DEF PluginInit
<1>3. pc[t] = "init" /\ handle[g].lib \in Files /\ ~handle[g].api
  BY <1>1 DEF Core, HandleStates, Lib, PluginInit
<1>4. /\ handle'[g] \in HandleValues /\ handle'[g] # None
      /\ handle'[g].lib = handle[g].lib /\ handle'[g].api
      /\ \A h \in Handles \ {g} : handle'[h] = handle[h]
      /\ handle' \in [Handles -> {None} \union HandleValues]
  BY <1>1, <1>2, HandleFields DEF Core, Shape, PluginInit
<1>5. Allocated' = Allocated
  BY <1>2, <1>4 DEF Allocated
<1>6. Shape'
  BY <1>1, <1>3, <1>4 DEF Core, Shape, PluginInit, Goto, Steps, Lib
<1>7. NoHandleLost'
  BY <1>1, <1>5 DEF Core, NoHandleLost, PluginInit
<1>8. HandleStates'
  BY <1>1, <1>2, <1>3, <1>4, <1>5
     DEF Core, Shape, NoHandleLost, HandleStates, Lib, Allocated, PluginInit, Goto
<1>9. \A h \in Handles, e \in Files :
        /\ Maps(h, e)' <=> Maps(h, e)
        /\ Runs(h, e)' <=> Runs(h, e) \/ (h = g /\ e = Lib(t))
  BY <1>1, <1>2, <1>3, <1>4, <1>5 DEF Core, Shape, Maps, Runs, Lib, PluginInit, Goto
<1>10. MapsMatchHandles'
  BY <1>1, <1>9, MapsSame DEF PluginInit
<1>11. HooksMatchHandles'
  <2>1. CASE disk[Lib(t)] = "hooked"
    <3>1. ~Runs(g, Lib(t))
      BY <1>3 DEF Runs
    <3>2. QED
      BY <1>1, <1>2, <1>3, <1>9, <2>1, <3>1, HooksGain DEF Core, Shape, Lib, PluginInit
  <2>2. CASE disk[Lib(t)] # "hooked"
    BY <1>1, <1>9, <2>2, HooksSame DEF PluginInit
  <2>3. QED
    BY <2>1, <2>2
<1>12. QED
  BY <1>6, <1>7, <1>8, <1>10, <1>11, CountsBounded, PTL DEF Core

LEMMA CommitStep ==
  ASSUME LoaderInv, NEW t \in Threads, Commit(t)
  PROVE  LoaderInv'
<1> DEFINE g == cur[t]
<1>1. Core /\ MapsMatchHandles /\ HooksMatchHandles
  BY InvHasCore DEF LoaderInv
<1>2. /\ g \in Handles /\ g \in Allocated /\ g \notin open /\ handle[g] \in HandleValues
      /\ \A u \in Threads \ {t} : cur[u] # g
  BY <1>1, CallHandle DEF Commit
<1>3. pc[t] = "commit" /\ handle[g].lib \in Files /\ handle[g].api
  BY <1>1 DEF Core, HandleStates, Lib, Commit
<1>4. Shape'
  BY <1>1, <1>2, ReturnFields DEF Core, Shape, Commit, Goto, Steps
<1>5. NoHandleLost'
  BY <1>1, <1>2, NoneAssumption DEF Core, Shape, NoHandleLost, Allocated, Commit
<1>6. HandleStates'
  BY <1>1, <1>2, <1>3 DEF Core, Shape, HandleStates, Lib, Allocated, Commit, Goto
<1>7. \A h \in Handles, e \in Files :
        (Maps(h, e)' <=> Maps(h, e)) /\ (Runs(h, e)' <=> Runs(h, e))
  BY <1>1, <1>2, <1>3, NoneAssumption
     DEF Core, Shape, Maps, Runs, Allocated, Commit, Goto
<1>8. MapsMatchHandles' /\ HooksMatchHandles'
  BY <1>1, <1>7, MapsSame, HooksSame DEF Commit
<1>9. QED
  BY <1>4, <1>5, <1>6, <1>8, CountsBounded, PTL DEF Core

LEMMA BeginUnloadStep ==
  ASSUME LoaderInv, NEW t \in Threads, NEW g \in Handles, BeginUnload(t, g)
  PROVE  LoaderInv'
<1>1. Core /\ MapsMatchHandles /\ HooksMatchHandles
  BY InvHasCore DEF LoaderInv
<1>2. /\ pc[t] = "idle" /\ cur[t] = None /\ g # None
      /\ g \in Allocated /\ \A u \in Threads : cur[u] # g
  BY <1>1, NoneAssumption DEF Core, NoHandleLost, HandleStates, BeginUnload
<1>3. Shape'
  BY <1>1 DEF Core, Shape, BeginUnload, Goto, Steps
<1>4. NoHandleLost'
  BY <1>1, <1>2 DEF Core, Shape, NoHandleLost, Allocated, BeginUnload
<1>5. HandleStates'
  BY <1>1, <1>2 DEF Core, Shape, HandleStates, Lib, Allocated, BeginUnload, Goto
<1>6. \A h \in Handles, e \in Files :
        (Maps(h, e)' <=> Maps(h, e)) /\ (Runs(h, e)' <=> Runs(h, e))
  BY <1>1, <1>2 DEF Core, Shape, Maps, Runs, Allocated, BeginUnload, Goto
<1>7. MapsMatchHandles' /\ HooksMatchHandles'
  BY <1>1, <1>6, MapsSame, HooksSame DEF BeginUnload
<1>8. QED
  BY <1>3, <1>4, <1>5, <1>7, CountsBounded, PTL DEF Core

LEMMA PluginShutdownStep ==
  ASSUME LoaderInv, NEW t \in Threads, PluginShutdown(t)
  PROVE  LoaderInv'
<1> DEFINE g == cur[t]
<1>1. Core /\ MapsMatchHandles /\ HooksMatchHandles
  BY InvHasCore DEF LoaderInv
<1>2. /\ g \in Handles /\ g \in Allocated /\ g \notin open /\ handle[g] \in HandleValues
      /\ \A u \in Threads \ {t} : cur[u] # g
  BY <1>1, CallHandle DEF PluginShutdown
<1>3. pc[t] = "shutdown" /\ (handle[g].api => handle[g].lib \in Files)
  BY <1>1, <1>2 DEF Core, HandleStates, PluginShutdown
<1>4. Shape'
  BY <1>1, <1>3 DEF Core, Shape, PluginShutdown, Goto, Steps, Lib
<1>5. NoHandleLost'
  BY <1>1 DEF Core, NoHandleLost, Allocated, PluginShutdown
<1>6. HandleStates'
  BY <1>1 DEF Core, Shape, HandleStates, Lib, Allocated, PluginShutdown, Goto
<1>7. \A h \in Handles, e \in Files :
        /\ Maps(h, e)' <=> Maps(h, e)
        /\ Runs(h, e)' <=> Runs(h, e) /\ ~(h = g /\ e = Lib(t))
  BY <1>1, <1>2, <1>3 DEF Core, Shape, Maps, Runs, Allocated, Lib, PluginShutdown, Goto
<1>8. MapsMatchHandles'
  BY <1>1, <1>7, MapsSame DEF PluginShutdown
<1>9. HooksMatchHandles'
  <2>1. CASE handle[g].api /\ disk[Lib(t)] = "hooked"
    <3>1. Runs(g, Lib(t))
      BY <1>1, <1>2, <1>3, <2>1 DEF Core, Shape, Maps, Runs, Lib
    <3>2. QED
      BY <1>1, <1>2, <1>3, <1>7, <2>1, <3>1, HooksLose
         DEF Core, Shape, Lib, PluginShutdown
  <2>2. CASE ~(handle[g].api /\ disk[Lib(t)] = "hooked")
    <3>1. \A h \in Handles, e \in Files :
            disk[e] = "hooked" => (Runs(h, e)' <=> Runs(h, e))
      BY <1>7, <2>2 DEF Runs, Lib
    <3>2. QED
      BY <1>1, <2>2, <3>1, HooksSame DEF PluginShutdown
  <2>3. QED
    BY <2>1, <2>2
<1>10. QED
  BY <1>4, <1>5, <1>6, <1>8, <1>9, CountsBounded, PTL DEF Core

LEMMA DlcloseStep ==
  ASSUME LoaderInv, NEW t \in Threads, Dlclose(t)
  PROVE  LoaderInv'
<1> DEFINE g == cur[t]
<1>1. Core /\ MapsMatchHandles /\ HooksMatchHandles
  BY InvHasCore DEF LoaderInv
<1>2. /\ g \in Handles /\ g \in Allocated /\ g \notin open /\ handle[g] \in HandleValues
      /\ \A u \in Threads \ {t} : cur[u] # g
  BY <1>1, CallHandle DEF Dlclose
<1>3. pc[t] = "dlclose" /\ Lib(t) \in Files \union {None}
  BY <1>2 DEF HandleValues, Lib, Dlclose
<1>4. Shape'
  BY <1>1, <1>3 DEF Core, Shape, Dlclose, Goto, Steps
<1>5. NoHandleLost'
  BY <1>1 DEF Core, NoHandleLost, Allocated, Dlclose
<1>6. HandleStates'
  BY <1>1 DEF Core, Shape, HandleStates, Lib, Allocated, Dlclose, Goto
<1>7. \A h \in Handles, e \in Files :
        /\ Maps(h, e)' <=> Maps(h, e) /\ ~(h = g /\ e = Lib(t))
        /\ Runs(h, e)' <=> Runs(h, e)
  BY <1>1, <1>2, <1>3 DEF Core, Shape, Maps, Runs, Allocated, Lib, Dlclose, Goto
<1>8. MapsMatchHandles'
  <2>1. CASE Lib(t) # None
    <3>1. Maps(g, Lib(t))
      BY <1>1, <1>2, <1>3 DEF Core, Shape, Maps, Lib
    <3>2. /\ maps \in [Files -> Int] /\ Lib(t) \in Files /\ g \in Handles
          /\ maps' = [maps EXCEPT ![Lib(t)] = @ - 1]
      BY <1>1, <1>2, <1>3, <2>1 DEF Core, Shape, Dlclose
    <3>3. \A h \in Handles, e \in Files :
            Maps(h, e)' <=> Maps(h, e) /\ ~(h = g /\ e = Lib(t))
      BY <1>7
    <3>4. QED
      BY <1>1, <3>1, <3>2, <3>3, MapsLose
  <2>2. CASE Lib(t) = None
    BY <1>1, <1>7, <2>2, MapsSame, NoneAssumption DEF Dlclose
  <2>3. QED
    BY <2>1, <2>2
<1>9. HooksMatchHandles'
  BY <1>1, <1>7, HooksSame DEF Dlclose
<1>10. QED
  BY <1>4, <1>5, <1>6, <1>8, <1>9, CountsBounded, PTL DEF Core

LEMMA FreeHandleStep ==
  ASSUME LoaderInv, NEW t \in Threads, FreeHandle(t)
  PROVE  LoaderInv'
<1> DEFINE g == cur[t]
<1>1. Core /\ MapsMatchHandles /\ HooksMatchHandles
  BY InvHasCore DEF LoaderInv
<1>2. /\ g \in Handles /\ g \in Allocated /\ g \notin open /\ handle[g] \in HandleValues
      /\ \A u \in Threads \ {t} : cur[u] # g
  BY <1>1, CallHandle DEF FreeHandle
<1>3. pc[t] = "free"
  BY DEF FreeHandle
<1>4. Shape'
  BY <1>1, <1>2 DEF Core, Shape, FreeHandle, Goto, Steps
<1>5. Allocated' = Allocated \ {g}
  BY <1>1, <1>2 DEF Core, Shape, Allocated, FreeHandle
<1>6. NoHandleLost'
  BY <1>1, <1>2, <1>5, NoneAssumption DEF Core, Shape, NoHandleLost, FreeHandle
<1>7. HandleStates'
  BY <1>1, <1>2, <1>5 DEF Core, Shape, HandleStates, Lib, Allocated, FreeHandle, Goto
<1>8. \A h \in Handles, e \in Files :
        (Maps(h, e)' <=> Maps(h, e)) /\ (Runs(h, e)' <=> Runs(h, e))
  BY <1>1, <1>2, <1>3, <1>5, NoneAssumption
     DEF Core, Shape, Maps, Runs, Allocated, FreeHandle, Goto
<1>9. MapsMatchHandles' /\ HooksMatchHandles'
  BY <1>1, <1>8, MapsSame, HooksSame DEF FreeHandle
<1>10. QED
  BY <1>4, <1>6, <1>7, <1>9, CountsBounded, PTL DEF Core

LEMMA LoaderInvariance == Spec => []LoaderInv
<1>1. LoaderInv /\ [Next]_vars => LoaderInv'
  <2> SUFFICES ASSUME LoaderInv, [Next]_vars
               PROVE  LoaderInv'
    OBVIOUS
  <2>1. CASE Next
    <3>1. PICK t \in Threads :
            \/ \E f \in Files : BeginLoad(t, f)
            \/ \E h \in Handles : BeginUnload(t, h)
            \/ Continue(t)
      BY <2>1 DEF Next
    <3>2. CASE \E f \in Files : BeginLoad(t, f)
      BY <3>2, BeginLoadStep
    <3>3. CASE \E h \in Handles : BeginUnload(t, h)
      BY <3>3, BeginUnloadStep
    <3>4. CASE Continue(t)
      BY <3>4, AllocHandleStep, DlopenStep, ResolveStep, PluginInitStep,
         CommitStep, PluginShutdownStep, DlcloseStep, FreeHandleStep DEF Continue
    <3>5. QED
      BY <3>1, <3>2, <3>3, <3>4
  <2>2. CASE UNCHANGED vars
    <3>1. Core /\ MapsMatchHandles /\ HooksMatchHandles
      BY InvHasCore DEF LoaderInv
    <3>2. Core'
      BY <2>2, <3>1 DEF vars, Core, Shape, NoHandleLost, HandleStates, Allocated, Lib
    <3>3. \A h \in Handles, f \in Files :
            (Maps(h, f)' <=> Maps(h, f)) /\ (Runs(h, f)' <=> Runs(h, f))
      BY <2>2 DEF vars, Maps, Runs, Allocated
    <3>4. MapsMatchHandles' /\ HooksMatchHandles'
      BY <2>2, <3>1, <3>3, MapsSame, HooksSame DEF vars
    <3>5. QED
      BY <3>2, <3>4, CountsBounded, PTL
  <2>3. QED
    BY <2>1, <2>2
<1>2. QED
  BY <1>1, InitLoaderInv, PTL DEF Spec

-----------------------------------------------------------------------------

(* Every variable of the loader keeps its type, and no library is mapped   *)
(* and no plugin running more often than there are handles.                *)
THEOREM LoaderTypeCorrect == Spec => []TypeOK
<1>1. LoaderInv => TypeOK
  BY DEF LoaderInv
<1>2. QED
  BY <1>1, LoaderInvariance, PTL

(* However loads fail and unloads overlap, every handle block is open at   *)
(* one client or inside one call: none leaks and none is freed twice.      *)
THEOREM HandlesAccounted == Spec => []NoHandleLost
<1>1. LoaderInv => NoHandleLost
  BY DEF LoaderInv
<1>2. QED
  BY <1>1, LoaderInvariance, PTL

(* The linker's count of each library is the number of handles that still  *)
(* need it: every dlopen of load is paired with the dlclose of unload.     *)
THEOREM MapsCounted == Spec => []MapsMatchHandles
<1>1. LoaderInv => MapsMatchHandles
  BY DEF LoaderInv
<1>2. QED
  BY <1>1, LoaderInvariance, PTL

(* Inits minus shutdowns of each plugin is the number of its handles       *)
(* between the two calls.                                                  *)
THEOREM HooksCounted == Spec => []HooksMatchHandles
<1>1. LoaderInv => HooksMatchHandles
  BY DEF LoaderInv
<1>2. QED
  BY <1>1, LoaderInvariance, PTL

(* No other thread's load, failed load or unload unmaps the code behind a  *)
(* handle that load returned, or code that a call is about to run.         *)
THEOREM CodeMapped == Spec => []CodeStaysMapped
<1>1. LoaderInv => CodeStaysMapped
  <2> SUFFICES ASSUME LoaderInv PROVE CodeStaysMapped
    OBVIOUS
  <2>1. \A h \in Handles, f \in Files : Maps(h, f) => maps[f] > 0
    <3> SUFFICES ASSUME NEW h \in Handles, NEW f \in Files, Maps(h, f)
                 PROVE  maps[f] > 0
      OBVIOUS
    <3>1. Cardinality({g \in Handles : Maps(g, f)}) > 0
      BY HandleSets
    <3>2. QED
      BY <3>1 DEF LoaderInv, MapsMatchHandles
  <2>2. \A h \in open : handle[h].api /\ maps[handle[h].lib] > 0
    <3> SUFFICES ASSUME NEW h \in open
                 PROVE  handle[h].api /\ maps[handle[h].lib] > 0
      OBVIOUS
    <3>1. /\ h \in Handles /\ h \in Allocated /\ handle[h].api
          /\ handle[h].lib \in Files /\ \A t \in Threads : cur[t] # h
      BY DEF LoaderInv, TypeOK, NoHandleLost, HandleStates
    <3>2. Maps(h, handle[h].lib)
      BY <3>1 DEF Maps
    <3>3. QED
      BY <2>1, <3>1, <3>2
  <2>3. ASSUME NEW t \in Threads, CallsInto(t)
        PROVE  maps[Lib(t)] > 0
    <3>1. pc[t] \in {"resolve", "init", "shutdown"}
      BY <2>3 DEF CallsInto
    <3>2. cur[t] \in Handles /\ cur[t] \in Allocated /\ \A u \in Threads \ {t} : cur[u] # cur[t]
      BY <3>1, InvHasCore, CallHandle
    <3>3. Lib(t) \in Files
      BY <2>3, <3>2 DEF LoaderInv, HandleStates, CallsInto, Lib
    <3>4. Maps(cur[t], Lib(t))
      BY <3>1, <3>2 DEF Maps, Lib
    <3>5. QED
      BY <2>1, <3>2, <3>3, <3>4
  <2>4. QED
    BY <2>2, <2>3 DEF CodeStaysMapped
<1>2. QED
  BY <1>1, LoaderInvariance, PTL

=============================================================================

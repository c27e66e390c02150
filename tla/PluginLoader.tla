---------------------------- MODULE PluginLoader ----------------------------
(***************************************************************************)
(* ncom_plugin_load and ncom_plugin_unload of src/ncom/plugin_loader.c,    *)
(* called by several threads.  The loader keeps no state of its own: what  *)
(* the calls share is the dynamic linker's table of mapped libraries       *)
(* (dlopen counts, dlclose unmaps at 0) and the state that a plugin's      *)
(* hooks build up inside its one mapped image.                             *)
(***************************************************************************)
EXTENDS Integers, FiniteSets

CONSTANTS
  Threads,      \* the callers
  Files,        \* the paths they pass
  Handles,      \* the handle blocks calloc may return: bounds the open handles
  None          \* NULL

ASSUME NoneAssumption ==
  /\ None \notin Files \union Handles
  /\ None \notin [lib : Files \union {None}, api : BOOLEAN]

ASSUME HandlesAssumption == IsFiniteSet(Handles)

(* What is found at a path: nothing; a file dlopen rejects; a library with *)
(* no entry point; one whose table is NULL, of another version or without  *)
(* create_instance; a plugin without hooks; a plugin with hooks.           *)
FileKinds == {"missing", "broken", "no_symbol", "bad_api", "plain", "hooked"}

Loadable == FileKinds \ {"missing", "broken"}

VARIABLES
  disk,         \* the kind of each file
  maps,         \* the linker's reference count of each library
  running,      \* plugin_init minus plugin_shutdown calls of each library
  handle,       \* each handle block: None or its fields lib and api
  open,         \* the handles that load returned and nobody passed to unload
  pc,           \* where each thread is in load or unload
  path,         \* the path argument of each thread's load
  cur,          \* h, the handle its call works on
  ret           \* what its last load returned, as far as it has got:
                \* the status, *out_handle and *out_err

vars == <<disk, maps, running, handle, open, pc, path, cur, ret>>

Steps == {"idle", "alloc", "dlopen", "resolve", "init", "commit",
          "shutdown", "dlclose", "free"}

Statuses == {"OK", "INVALID_ARG", "NO_MEM", "NOT_FOUND", "FAIL"}

TypeOK ==
  /\ disk \in [Files -> FileKinds]
  /\ maps \in [Files -> 0 .. Cardinality(Handles)]
  /\ running \in [Files -> 0 .. Cardinality(Handles)]
  /\ handle \in [Handles -> {None} \union [lib : Files \union {None}, api : BOOLEAN]]
  /\ open \subseteq Handles
  /\ pc \in [Threads -> Steps]
  /\ path \in [Threads -> Files]
  /\ cur \in [Threads -> Handles \union {None}]
  /\ ret \in [Threads -> [st : Statuses, handle : Handles \union {None},
                          err : {"null", "object"}]]

Allocated == {h \in Handles : handle[h] # None}

Lib(t) == handle[cur[t]].lib

Goto(t, step) == pc' = [pc EXCEPT ![t] = step]

(* Fault: a failure returns without unloading.                             *)
FailNoCleanup(t, st) ==
  /\ ret' = [ret EXCEPT ![t].st = st]
  /\ Goto(t, "idle")

(* "goto cleanup" with a status: what has been built so far is unloaded.   *)
Fail(t, st) ==
  /\ ret' = [ret EXCEPT ![t].st = st]
  /\ Goto(t, "shutdown")

-----------------------------------------------------------------------------

Init ==
  /\ disk \in [Files -> FileKinds]
  /\ maps = [f \in Files |-> 0]
  /\ running = [f \in Files |-> 0]
  /\ handle = [h \in Handles |-> None]
  /\ open = {}
  /\ pc = [t \in Threads |-> "idle"]
  /\ path \in [Threads -> Files]
  /\ cur = [t \in Threads |-> None]
  /\ ret = [t \in Threads |-> [st |-> "OK", handle |-> None, err |-> "null"]]

(* load: the out parameters are cleared before the arguments are checked.  *)
BeginLoad(t, f) ==
  /\ pc[t] = "idle"
  /\ path' = [path EXCEPT ![t] = f]
  /\ \/ /\ ret' = [ret EXCEPT ![t] = [st |-> "OK", handle |-> None, err |-> "null"]]
        /\ Goto(t, "alloc")
     \/ /\ ret' = [ret EXCEPT ![t] =
                     [st |-> "INVALID_ARG", handle |-> None, err |-> "null"]]
        /\ UNCHANGED pc
  /\ UNCHANGED <<disk, maps, running, handle, open, cur>>

(* The handle block, if there is memory (and a block within the bound).    *)
AllocHandle(t) ==
  /\ pc[t] = "alloc"
  /\ \/ \E h \in Handles \ Allocated :
          /\ handle' = [handle EXCEPT ![h] = [lib |-> None, api |-> FALSE]]
          /\ cur' = [cur EXCEPT ![t] = h]
          /\ Goto(t, "dlopen")
          /\ UNCHANGED ret
     \/ /\ ret' = [ret EXCEPT ![t].st = "NO_MEM"]
        /\ Goto(t, "idle")
        /\ UNCHANGED <<handle, cur>>
  /\ UNCHANGED <<disk, maps, running, open, path>>

(* posix_load_error: the status says whether the file exists, and *out_err *)
(* gets an error object if there is memory for one.                        *)
PosixLoadError(t) ==
  \E err \in {"object", "null"} :
    ret' = [ret EXCEPT
              ![t].st = IF disk[path[t]] = "missing" THEN "NOT_FOUND" ELSE "FAIL",
              ![t].err = err]

Dlopen(t) ==
  /\ pc[t] = "dlopen"
  /\ \/ /\ disk[path[t]] \in Loadable
        /\ maps' = [maps EXCEPT ![path[t]] = @ + 1]
        /\ handle' = [handle EXCEPT ![cur[t]].lib = path[t]]
        /\ Goto(t, "resolve")
        /\ UNCHANGED ret
     \/ /\ disk[path[t]] \notin Loadable
        /\ PosixLoadError(t)
        /\ Goto(t, "shutdown")
        /\ UNCHANGED <<maps, handle>>
  /\ UNCHANGED <<disk, running, open, path, cur>>

(* Fault: a rejected library is closed here and once more by unload.       *)
ResolveAndClose(t) ==
  /\ pc[t] = "resolve"
  /\ \/ /\ disk[Lib(t)] \in {"plain", "hooked"}
        /\ Goto(t, "init")
        /\ UNCHANGED <<maps, ret>>
     \/ /\ disk[Lib(t)] \in {"no_symbol", "bad_api"}
        /\ maps' = [maps EXCEPT ![Lib(t)] = @ - 1]
        /\ Fail(t, "FAIL")
  /\ UNCHANGED <<disk, running, handle, open, path, cur>>

(* dlsym, get_api() and the checks on the table it returns.                *)
Resolve(t) ==
  /\ pc[t] = "resolve"
  /\ \/ /\ disk[Lib(t)] \in {"plain", "hooked"}
        /\ Goto(t, "init")
        /\ UNCHANGED ret
     \/ /\ disk[Lib(t)] \in {"no_symbol", "bad_api"}
        /\ Fail(t, "FAIL")
  /\ UNCHANGED <<disk, maps, running, handle, open, path, cur>>

(* Fault: the init hook runs only for the first handle of a library.       *)
PluginInitOnce(t) ==
  /\ pc[t] = "init"
  /\ handle' = [handle EXCEPT ![cur[t]].api = TRUE]
  /\ running' = IF disk[Lib(t)] = "hooked" /\ running[Lib(t)] = 0
                THEN [running EXCEPT ![Lib(t)] = @ + 1] ELSE running
  /\ Goto(t, "commit")
  /\ UNCHANGED <<disk, maps, open, path, cur, ret>>

(* Fault: h->api is not set, so unload does not call the shutdown hook.    *)
PluginInitNoApi(t) ==
  /\ pc[t] = "init"
  /\ running' = IF disk[Lib(t)] = "hooked"
                THEN [running EXCEPT ![Lib(t)] = @ + 1] ELSE running
  /\ Goto(t, "commit")
  /\ UNCHANGED <<disk, maps, handle, open, path, cur, ret>>

(* h->api is set, which is what makes unload call the shutdown hook, and   *)
(* the init hook runs.                                                     *)
PluginInit(t) ==
  /\ pc[t] = "init"
  /\ handle' = [handle EXCEPT ![cur[t]].api = TRUE]
  /\ running' = IF disk[Lib(t)] = "hooked"
                THEN [running EXCEPT ![Lib(t)] = @ + 1] ELSE running
  /\ Goto(t, "commit")
  /\ UNCHANGED <<disk, maps, open, path, cur, ret>>

(* The handle becomes the caller's.                                        *)
Commit(t) ==
  /\ pc[t] = "commit"
  /\ ret' = [ret EXCEPT ![t].handle = cur[t]]
  /\ open' = open \union {cur[t]}
  /\ cur' = [cur EXCEPT ![t] = None]
  /\ Goto(t, "idle")
  /\ UNCHANGED <<disk, maps, running, handle, path>>

(* A caller gives up a handle; unload(NULL) does nothing and is no step.   *)
BeginUnload(t, h) ==
  /\ pc[t] = "idle"
  /\ h \in open
  /\ open' = open \ {h}
  /\ cur' = [cur EXCEPT ![t] = h]
  /\ Goto(t, "shutdown")
  /\ UNCHANGED <<disk, maps, running, handle, path, ret>>

(* unload, also on load's failure path: the shutdown hook runs only for a  *)
(* handle that has its api.                                                *)
PluginShutdown(t) ==
  /\ pc[t] = "shutdown"
  /\ running' = IF handle[cur[t]].api /\ disk[Lib(t)] = "hooked"
                THEN [running EXCEPT ![Lib(t)] = @ - 1] ELSE running
  /\ Goto(t, "dlclose")
  /\ UNCHANGED <<disk, maps, handle, open, path, cur, ret>>

(* Fault: a library whose plugin was rejected stays mapped.                *)
DlcloseWithApi(t) ==
  /\ pc[t] = "dlclose"
  /\ maps' = IF handle[cur[t]].api THEN [maps EXCEPT ![Lib(t)] = @ - 1] ELSE maps
  /\ Goto(t, "free")
  /\ UNCHANGED <<disk, running, handle, open, path, cur, ret>>

Dlclose(t) ==
  /\ pc[t] = "dlclose"
  /\ maps' = IF Lib(t) # None THEN [maps EXCEPT ![Lib(t)] = @ - 1] ELSE maps
  /\ Goto(t, "free")
  /\ UNCHANGED <<disk, running, handle, open, path, cur, ret>>

FreeHandle(t) ==
  /\ pc[t] = "free"
  /\ handle' = [handle EXCEPT ![cur[t]] = None]
  /\ cur' = [cur EXCEPT ![t] = None]
  /\ Goto(t, "idle")
  /\ UNCHANGED <<disk, maps, running, open, path, ret>>

(* A call in progress goes on.                                             *)
Continue(t) ==
  \/ AllocHandle(t) \/ Dlopen(t) \/ Resolve(t) \/ PluginInit(t) \/ Commit(t)
  \/ PluginShutdown(t) \/ Dlclose(t) \/ FreeHandle(t)

Next ==
  \E t \in Threads :
    \/ \E f \in Files : BeginLoad(t, f)
    \/ \E h \in Handles : BeginUnload(t, h)
    \/ Continue(t)

Spec == Init /\ [][Next]_vars

-----------------------------------------------------------------------------

(* A handle keeps its library mapped until its own dlclose has run.        *)
Maps(h, f) ==
  /\ h \in Allocated
  /\ handle[h].lib = f
  /\ \A t \in Threads : ~(cur[t] = h /\ pc[t] = "free")

(* A handle has had its init and not yet its own shutdown.                 *)
Runs(h, f) ==
  /\ Maps(h, f)
  /\ handle[h].api
  /\ \A t \in Threads : ~(cur[t] = h /\ pc[t] = "dlclose")

(* Each handle block is open at one client or inside one call, so that a   *)
(* load that failed has left nothing behind and nothing is freed twice.    *)
NoHandleLost ==
  /\ Allocated = open \union ({cur[t] : t \in Threads} \ {None})
  /\ \A t \in Threads : cur[t] \notin open
  /\ \A t, u \in Threads : cur[t] = cur[u] /\ cur[t] # None => t = u

(* dlopen and dlclose pair up, whatever way a load ends: each library is   *)
(* mapped once for every handle that still needs it.                       *)
MapsMatchHandles ==
  \A f \in Files : maps[f] = Cardinality({h \in Handles : Maps(h, f)})

(* plugin_init and plugin_shutdown pair up per handle, also when loads and *)
(* unloads of the same library overlap, and only where there are hooks.    *)
HooksMatchHandles ==
  \A f \in Files :
    running[f] = IF disk[f] = "hooked"
                 THEN Cardinality({h \in Handles : Runs(h, f)}) ELSE 0

(* The loader calls functions of a library to get its table, to initialise *)
(* it and to shut it down.                                                 *)
CallsInto(t) ==
  pc[t] \in {"resolve", "init"} \/ (pc[t] = "shutdown" /\ handle[cur[t]].api)

(* No code is unmapped under anyone who calls it: the table of every       *)
(* handle that load returned is set and stays mapped until the handle's    *)
(* own unload, and so does a library whose entry point or hooks the loader *)
(* is about to call, whatever other threads load, fail to load or unload   *)
(* meanwhile.  This says nothing of the plugin's own state, which another  *)
(* handle's unload may have shut down (see ShutdownBeforeUnload).          *)
CodeStaysMapped ==
  /\ \A h \in open : handle[h].api /\ maps[handle[h].lib] > 0
  /\ \A t \in Threads : CallsInto(t) => maps[Lib(t)] > 0

(* How far the handle of a call has been built, or taken down again.       *)
HandleStates ==
  /\ \A t \in Threads :
       /\ cur[t] = None <=> pc[t] \in {"idle", "alloc"}
       /\ pc[t] = "dlopen" => Lib(t) = None
       /\ pc[t] \in {"resolve", "init", "commit"} => Lib(t) \in Files
       /\ pc[t] \in {"dlopen", "resolve", "init"} => ~handle[cur[t]].api
       /\ pc[t] = "commit" => handle[cur[t]].api
  /\ \A h \in Allocated : handle[h].api => handle[h].lib \in Files
  /\ \A h \in open : handle[h].api

(* The inductive invariant behind the properties above.                    *)
LoaderInv ==
  /\ TypeOK
  /\ NoHandleLost
  /\ HandleStates
  /\ MapsMatchHandles
  /\ HooksMatchHandles

(* plugin.h: the shutdown hook is "called right before the plugin is       *)
(* unloaded".  No other handle of the library is in use when it is called. *)
ShutdownBeforeUnload ==
  \A t \in Threads :
    pc[t] = "shutdown" /\ handle[cur[t]].api /\ disk[Lib(t)] = "hooked" =>
      maps[Lib(t)] = 1

=============================================================================

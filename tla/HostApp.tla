------------------------------ MODULE HostApp ------------------------------
(***************************************************************************)
(* samples/host_app.c: one run of main, from loading the sample plugin to  *)
(* exit, with every call that can fail failing.  It composes the plugin's  *)
(* objects (SamplePlugin; the slots are main's interface variables) with   *)
(* the error and string objects that the plugin creates, and with the      *)
(* mapping of the plugin's library.  ncom is a static library linked into  *)
(* both sides, so the functions of an object made in the plugin live in    *)
(* the plugin's image.  A line that would call through a NULL pointer is   *)
(* not enabled, so it would show as a deadlock.                            *)
(***************************************************************************)
EXTENDS SamplePlugin, Sequences

INSTANCE ErrorMessage

(* main's interface variables.                                             *)
MainSlots ==
  {"u", "log", "log2", "clk", "clk2", "caps", "factory",
   "clock_from_factory_u", "clock_from_factory"}

ASSUME MainAssumption == Slots = MainSlots

VARIABLES
  pc,           \* the line of Main that is next
  failed,       \* NCOM_FAILED(st)
  lib,          \* the plugin's image: "none", "mapped" or "unmapped"
  err,          \* NULL or the side whose code the error object's vtable is in
  errStr,       \* the same for err_str
  msgStr,       \* the same for msg_str
  buf           \* main's ncom_char_buf_t, and whether it holds the message

vars == <<block, slot, pc, failed, lib, err, errStr, msgStr, buf>>

hostVars == <<failed, lib, err, errStr, msgStr, buf>>

-----------------------------------------------------------------------------
(* main, line by line: what it does and through which variables.           *)

Qi(from, s, iid) == [do |-> "qi", from |-> from, slot |-> s, iid |-> iid]

Try ==
  << [do |-> "load"],
     [do |-> "create", slot |-> "u", clsid |-> "component", iid |-> "IUnknown"],
     Qi("u", "log", "ILogger"),
     Qi("u", "log2", "ILogger2"),
     Qi("u", "clk", "IClock"),
     Qi("u", "clk2", "IClock2"),
     Qi("u", "caps", "ICapabilities"),
     [do |-> "method", slot |-> "log"],
     [do |-> "method", slot |-> "log2"],
     [do |-> "method", slot |-> "caps"],
     [do |-> "clock2_now", slot |-> "clk2"],
     [do |-> "message_string"],
     [do |-> "message_size"],
     [do |-> "message_copy"],
     [do |-> "create", slot |-> "factory", clsid |-> "factory",
      iid |-> "IComponentFactory"],
     [do |-> "factory_create", from |-> "factory", slot |-> "clock_from_factory_u",
      iid |-> "IClock"],
     Qi("clock_from_factory_u", "clock_from_factory", "IClock"),
     [do |-> "method", slot |-> "clock_from_factory"],
     [do |-> "method", slot |-> "log"] >>

(* Fault: one interface is forgotten in the cleanup section.               *)
ReleaseOrderForgetful ==
  << "clock_from_factory", "clock_from_factory_u", "caps", "clk2",
     "clk", "log2", "log", "u" >>

(* The order of cleanup.                                                   *)
ReleaseOrder ==
  << "clock_from_factory", "clock_from_factory_u", "factory", "caps", "clk2",
     "clk", "log2", "log", "u" >>

Cleanup ==
  [i \in 1 .. Len(ReleaseOrder) |-> [do |-> "release", slot |-> ReleaseOrder[i]]]
  \o << [do |-> "unload"], [do |-> "report"], [do |-> "release_msg"],
        [do |-> "release_str"], [do |-> "release_err"], [do |-> "done"] >>

Main == Try \o Cleanup

Line == Main[pc]

GoOn == pc' = pc + 1

GotoCleanup == pc' = Len(Try) + 1

LineOf(do) == CHOOSE i \in 1 .. Len(Main) : Main[i].do = do

-----------------------------------------------------------------------------

HostInit ==
  /\ PluginInit
  /\ pc = 1
  /\ failed = FALSE
  /\ lib = "none"
  /\ err = NULL
  /\ errStr = NULL
  /\ msgStr = NULL
  /\ buf = [ptr |-> FALSE, cap |-> 0, filled |-> FALSE]

(* ncom_plugin_load, whose error object (if any) is made by the host's own *)
(* copy of ncom.                                                           *)
Load ==
  /\ Line.do = "load"
  /\ \/ lib' = "mapped" /\ GoOn /\ UNCHANGED <<failed, err>>
     \/ failed' = TRUE /\ err' \in {NULL, "host"} /\ GotoCleanup /\ UNCHANGED lib
  /\ UNCHANGED <<block, slot, errStr, msgStr, buf>>

(* api->create_instance.                                                   *)
CreateInstance ==
  /\ Line.do = "create"
  /\ \/ /\ Create(Line.slot, Line.clsid, Line.iid)
        /\ GoOn
        /\ UNCHANGED failed
     \/ /\ CreateFails(Line.slot)
        /\ failed' = TRUE
        /\ GotoCleanup
  /\ UNCHANGED <<lib, err, errStr, msgStr, buf>>

(* demo_*_qi.                                                              *)
QueryLine ==
  /\ Line.do = "qi"
  /\ QueryInterface(Line.from, Line.slot, Line.iid)
  /\ failed' = (Query(slot[Line.from].at, Line.iid) = NULL)
  /\ IF failed' THEN GotoCleanup ELSE GoOn
  /\ UNCHANGED <<lib, err, errStr, msgStr, buf>>

(* Calls that leave no object behind; log returns nothing, and any other   *)
(* may fail, whatever plugin this is.                                      *)
MethodLine ==
  /\ Line.do = "method"
  /\ slot[Line.slot] # NULL
  /\ \/ GoOn /\ UNCHANGED failed
     \/ /\ Line.slot # "log"
        /\ failed' = TRUE
        /\ GotoCleanup
  /\ UNCHANGED <<block, slot, lib, err, errStr, msgStr, buf>>

(* clock2's now_unix_ms: on failure the plugin makes an error object, if   *)
(* it gets the memory, and main goes on to read its message.               *)
Clock2Now ==
  /\ Line.do = "clock2_now"
  /\ slot[Line.slot] # NULL
  /\ \/ pc' = LineOf("message_copy") + 1 /\ UNCHANGED <<failed, err>>
     \/ failed' = TRUE /\ err' \in {NULL, "plugin"} /\ GoOn
  /\ UNCHANGED <<block, slot, lib, errStr, msgStr, buf>>

(* get_message_string and c_str.                                           *)
MessageString ==
  /\ Line.do = "message_string"
  /\ errStr' \in IF err = NULL THEN {NULL} ELSE {NULL, err}
  /\ GoOn
  /\ UNCHANGED <<block, slot, failed, lib, err, msgStr, buf>>

(* strlen("Hardware clock acquisition failed internally")                  *)
MessageLength == 44

(* The sizing call of get_message_buf, and the buffer it asks for: calloc  *)
(* may fail; when it does not, buf.ptr is set and buf.cap stays as it was. *)
MessageSize ==
  /\ Line.do = "message_size"
  /\ \/ /\ err # NULL
        /\ GetMessageBuf(buf, MessageLength).st = "OK"
        /\ GetMessageBuf(buf, MessageLength).need \in 1 .. 1023
        /\ buf' = [buf EXCEPT !.ptr = TRUE]
        /\ GoOn
     \/ UNCHANGED buf /\ GotoCleanup
  /\ UNCHANGED <<block, slot, failed, lib, err, errStr, msgStr>>

(* The second call of get_message_buf, after which the buffer is printed   *)
(* and freed.                                                              *)
MessageCopy ==
  /\ Line.do = "message_copy"
  /\ err # NULL
  /\ buf.ptr
  /\ buf' = [buf EXCEPT !.ptr = FALSE,
              !.filled = GetMessageBuf(buf, MessageLength).written > 0]
  /\ GotoCleanup
  /\ UNCHANGED <<block, slot, failed, lib, err, errStr, msgStr>>

(* create_sample_component with an error object on failure.                *)
FactoryLine ==
  /\ Line.do = "factory_create"
  /\ \/ /\ FactoryCreate(Line.from, Line.slot, Line.iid)
        /\ GoOn
        /\ UNCHANGED <<failed, err>>
     \/ /\ CreateFails(Line.slot)
        /\ failed' = TRUE
        /\ err' \in {NULL, "plugin"}
        /\ GotoCleanup
  /\ UNCHANGED <<lib, errStr, msgStr, buf>>

ReleaseLine ==
  /\ Line.do = "release"
  /\ IF slot[Line.slot] = NULL THEN UNCHANGED <<block, slot>> ELSE Release(Line.slot)
  /\ GoOn
  /\ UNCHANGED hostVars

(* Fault: main returns right after unloading.                              *)
UnloadAndReturn ==
  /\ Line.do = "unload"
  /\ lib' = IF lib = "mapped" THEN "unmapped" ELSE lib
  /\ pc' = LineOf("done")
  /\ UNCHANGED <<block, slot, failed, err, errStr, msgStr, buf>>

(* ncom_plugin_unload, a no-op when nothing was loaded.                    *)
Unload ==
  /\ Line.do = "unload"
  /\ lib' = IF lib = "mapped" THEN "unmapped" ELSE lib
  /\ pc' = IF failed THEN pc + 1 ELSE LineOf("release_str")
  /\ UNCHANGED <<block, slot, failed, err, errStr, msgStr, buf>>

(* The error detail: get_message_string and c_str once more.               *)
Report ==
  /\ Line.do = "report"
  /\ msgStr' \in IF err = NULL THEN {NULL} ELSE {NULL, err}
  /\ GoOn
  /\ UNCHANGED <<block, slot, failed, lib, err, errStr, buf>>

ReleaseMsg ==
  /\ Line.do = "release_msg"
  /\ msgStr' = NULL
  /\ GoOn
  /\ UNCHANGED <<block, slot, failed, lib, err, errStr, buf>>

ReleaseStr ==
  /\ Line.do = "release_str"
  /\ errStr' = NULL
  /\ GoOn
  /\ UNCHANGED <<block, slot, failed, lib, err, msgStr, buf>>

ReleaseErr ==
  /\ Line.do = "release_err"
  /\ err' = NULL
  /\ GoOn
  /\ UNCHANGED <<block, slot, failed, lib, errStr, msgStr, buf>>

(* main has returned.                                                      *)
Exited ==
  /\ Line.do = "done"
  /\ UNCHANGED vars

HostNext ==
  \/ Load \/ CreateInstance \/ QueryLine \/ MethodLine \/ Clock2Now
  \/ MessageString \/ MessageSize \/ MessageCopy \/ FactoryLine
  \/ ReleaseLine \/ Unload \/ Report \/ ReleaseMsg \/ ReleaseStr \/ ReleaseErr
  \/ Exited

HostSpec == HostInit /\ [][HostNext]_vars

-----------------------------------------------------------------------------

(* Every call through an interface of the plugin's own objects happens     *)
(* while main holds that pointer and the plugin's code is mapped; and when *)
(* it is unmapped, all those objects are gone.                             *)
PluginObjectsMapped ==
  (\E s \in Slots : slot[s] # NULL) => lib = "mapped"

(* When main returns, by whatever path, it has given back every reference  *)
(* to every object and the plugin it loaded is unloaded.                   *)
NothingLeftAtExit ==
  Line.do = "done" =>
    /\ \A s \in Slots : slot[s] = NULL
    /\ \A b \in Blocks : block[b] = Free
    /\ err = NULL /\ errStr = NULL /\ msgStr = NULL
    /\ lib # "mapped"

(* doc/llm.md 5.3: release everything, then unload the plugin.  An error   *)
(* or string object whose functions are in the plugin does not outlive the *)
(* plugin's mapping.                                                       *)
ErrorObjectsMapped == "plugin" \in {err, errStr, msgStr} => lib = "mapped"

=============================================================================

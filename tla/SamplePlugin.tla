---------------------------- MODULE SamplePlugin ----------------------------
(***************************************************************************)
(* samples/sample_plugin.c: the component with five interfaces embedded in *)
(* one block, its factory, and how clients reach them through interface    *)
(* pointers.  A pointer is a block and an offset into it; each interface's *)
(* vtable functions find the block again by subtracting the offset of the  *)
(* member they name in NCOM_CONTAINER_OF.                                  *)
(***************************************************************************)
EXTENDS Integers, FiniteSets

CONSTANTS
  Blocks,       \* the blocks calloc may return: bounds the objects at a time
  Slots,        \* the pointer variables of the client
  NULL

VARIABLES
  block,        \* each block: what object is in it, and its ref_cnt
  slot          \* each client variable: NULL or the pointer and its interface

pluginVars == <<block, slot>>

Iids == {"IUnknown", "ILogger", "ILogger2", "IClock", "IClock2",
         "ICapabilities", "IComponentFactory"}

Clsids == {"component", "factory"}

(* sample_component_t: its embedded interfaces in order.                   *)
Layout == [logger |-> 0, logger2 |-> 1, clock |-> 2, clock2 |-> 3,
           capabilities |-> 4]

Views == DOMAIN Layout

(* Pointers count in units of one embedded interface.                      *)
Pointers == [block : Blocks, offset : 0 .. 4]

Interfaces == [at : Pointers, iid : Iids]

ASSUME SlotsAssumption == IsFiniteSet(Slots)

ASSUME NullAssumption == NULL \notin Pointers /\ NULL \notin Interfaces

PluginTypeOK ==
  /\ block \in [Blocks -> [kind : {"free", "component", "factory"},
                           rc : 0 .. Cardinality(Slots)]]
  /\ slot \in [Slots -> {NULL} \union Interfaces]

Free == [kind |-> "free", rc |-> 0]

(* An object with rc references: without any it has been freed.            *)
Object(kind, rc) == IF rc = 0 THEN Free ELSE [kind |-> kind, rc |-> rc]

(* Fault: component_create stores two vtables in each other's place.       *)
ViewAtSwapped(offset) ==
  CHOOSE v \in Views : Layout[v] = IF offset = 2 THEN 3
                                   ELSE IF offset = 3 THEN 2 ELSE offset

(* The view whose vtable component_create stored at an offset.             *)
ViewAt(offset) == CHOOSE v \in Views : Layout[v] = offset

(* Fault: the clock2 functions were copied from clock's.                   *)
MemberCopied(view) == IF view = "clock2" THEN "clock" ELSE view

(* The member that the qi, add_ref and release functions of a view's       *)
(* vtable pass to NCOM_CONTAINER_OF.                                       *)
Member(view) == view

(* impl, as those functions compute it; right when its offset is 0.        *)
Impl(p) ==
  IF block[p.block].kind = "factory"
  THEN p
  ELSE [p EXCEPT !.offset = @ - Layout[Member(ViewAt(p.offset))]]

(* sample_common_qi: which member answers a query.                         *)
ViewFor(iid) ==
  CASE iid \in {"IUnknown", "ILogger"} -> "logger"
    [] iid = "ILogger2"      -> "logger2"
    [] iid = "IClock"        -> "clock"
    [] iid = "IClock2"       -> "clock2"
    [] iid = "ICapabilities" -> "capabilities"
    [] OTHER                 -> "none"

(* *out after query_interface through a pointer to a component's view      *)
(* or to a factory; NULL for E_NO_INTERFACE.                               *)
ComponentQuery(p, iid) ==
  IF ViewFor(iid) = "none" THEN NULL
  ELSE [Impl(p) EXCEPT !.offset = @ + Layout[ViewFor(iid)]]

FactoryQuery(p, iid) ==
  IF iid \in {"IUnknown", "IComponentFactory"} THEN p ELSE NULL

(* Fault: IUnknown is answered with the interface that was asked.          *)
QueryAnswersSelf(p, iid) ==
  IF block[p.block].kind = "factory" THEN FactoryQuery(p, iid)
  ELSE IF iid = "IUnknown" THEN p ELSE ComponentQuery(p, iid)

Query(p, iid) ==
  IF block[p.block].kind = "factory"
  THEN FactoryQuery(p, iid) ELSE ComponentQuery(p, iid)

(* Fault: add_ref counts twice.                                            *)
CountedTwice(impl, d) ==
  IF impl.offset # 0 THEN block
  ELSE [block EXCEPT ![impl.block] = Object(@.kind, @.rc + (IF d = 1 THEN 2 ELSE d))]

(* sample_add_ref and sample_release on impl: at a wrong offset they hit   *)
(* other memory and leave the counter alone.                               *)
Counted(impl, d) ==
  IF impl.offset # 0 THEN block
  ELSE [block EXCEPT ![impl.block] = Object(@.kind, @.rc + d)]

-----------------------------------------------------------------------------

PluginInit ==
  /\ block = [b \in Blocks |-> Free]
  /\ slot = [s \in Slots |-> NULL]

(* The interface that the new object's first query gets the caller.        *)
FirstView(clsid, iid) ==
  IF clsid = "component" THEN ViewFor(iid)
  ELSE IF iid \in {"IUnknown", "IComponentFactory"} THEN "logger" ELSE "none"

(* What the first query makes of the constructor's count and of *out.      *)
QueriedCount(view) == IF view = "none" THEN 1 ELSE 2

QueriedSlot(s, b, view, iid) ==
  IF view = "none" THEN slot
  ELSE [slot EXCEPT ![s] = [at |-> [block |-> b, offset |-> Layout[view]], iid |-> iid]]

(* Fault: the constructor's reference is kept.                             *)
CreateUnreleased(s, clsid, iid) ==
  /\ slot[s] = NULL
  /\ \E b \in Blocks :
       LET view == FirstView(clsid, iid) IN
       /\ block[b] = Free
       /\ block' = [block EXCEPT ![b] = Object(clsid, QueriedCount(view))]
       /\ slot' = QueriedSlot(s, b, view, iid)

(* plugin_create_instance with sample_component_create or                  *)
(* sample_component_factory_create: the object is made with one reference, *)
(* queried for iid, and released once, whatever the query said.            *)
Create(s, clsid, iid) ==
  /\ slot[s] = NULL
  /\ \E b \in Blocks :
       LET view == FirstView(clsid, iid) IN
       /\ block[b] = Free
       /\ block' = [block EXCEPT ![b] = Object(clsid, QueriedCount(view) - 1)]
       /\ slot' = QueriedSlot(s, b, view, iid)

(* E_NOT_FOUND for an unknown class, or E_NO_MEM: *out stays NULL.         *)
CreateFails(s) ==
  /\ slot[s] = NULL
  /\ UNCHANGED pluginVars

(* create_sample_component on a factory: a component like any other; the   *)
(* factory takes no reference to it nor it to the factory.                 *)
FactoryCreate(f, s, iid) ==
  /\ slot[f] # NULL
  /\ slot[f].iid = "IComponentFactory"
  /\ Create(s, "component", iid)

QueryInterface(from, s, iid) ==
  /\ slot[from] # NULL
  /\ slot[s] = NULL
  /\ LET out == Query(slot[from].at, iid)
     IN  IF out = NULL
         THEN UNCHANGED pluginVars
         ELSE /\ slot' = [slot EXCEPT ![s] = [at |-> out, iid |-> iid]]
              /\ block' = Counted(Impl(slot[from].at), 1)

(* add_ref by a client that keeps a second copy of its pointer.            *)
AddRef(from, s) ==
  /\ slot[from] # NULL
  /\ slot[s] = NULL
  /\ slot' = [slot EXCEPT ![s] = slot[from]]
  /\ block' = Counted(Impl(slot[from].at), 1)

(* release, or a *_releasep helper: nothing for NULL, and the variable is  *)
(* NULL afterwards.                                                        *)
Release(s) ==
  /\ slot[s] # NULL
  /\ slot' = [slot EXCEPT ![s] = NULL]
  /\ block' = Counted(Impl(slot[s].at), -1)

PluginNext ==
  \E s \in Slots :
    \/ \E iid \in Iids :
         \/ \E clsid \in Clsids : Create(s, clsid, iid)
         \/ \E from \in Slots : FactoryCreate(from, s, iid) \/ QueryInterface(from, s, iid)
    \/ \E from \in Slots : AddRef(from, s)
    \/ CreateFails(s)
    \/ Release(s)

PluginSpec == PluginInit /\ [][PluginNext]_pluginVars

-----------------------------------------------------------------------------

PointersInto(b) == {s \in Slots : slot[s] # NULL /\ slot[s].at.block = b}

(* A block is an object exactly while the client holds pointers to it, and *)
(* its counter is their number, through whichever interfaces they came and *)
(* went: nothing dangles and nothing leaks.                                *)
CountIsPointers ==
  \A b \in Blocks :
    /\ block[b].rc = Cardinality(PointersInto(b))
    /\ block[b].kind = "free" <=> PointersInto(b) = {}

(* A pointer obtained for an interface points to that interface's vtable:  *)
(* a call through it finds the functions it expects.                       *)
PointersTyped ==
  \A s \in Slots :
    slot[s] # NULL =>
      LET p == slot[s].at
      IN  IF block[p.block].kind = "factory"
          THEN p.offset = 0 /\ slot[s].iid \in {"IUnknown", "IComponentFactory"}
          ELSE /\ p.offset \in 0 .. 4
               /\ ViewFor(slot[s].iid) = ViewAt(p.offset)

(* doc/llm.md 2.3, the COM identity rule: two pointers lead to the same    *)
(* IUnknown exactly if they lead to the same object.                       *)
IdentityRule ==
  \A s1, s2 \in Slots :
    slot[s1] # NULL /\ slot[s2] # NULL =>
      (slot[s1].at.block = slot[s2].at.block
         <=> Query(slot[s1].at, "IUnknown") = Query(slot[s2].at, "IUnknown"))

(* Whatever can be reached from one interface of an object can be reached  *)
(* from all of them, and back: query_interface never leads to a dead end.  *)
QueryUniform ==
  \A s1, s2 \in Slots :
    slot[s1] # NULL /\ slot[s2] # NULL /\ slot[s1].at.block = slot[s2].at.block =>
      \A iid \in Iids : Query(slot[s1].at, iid) = Query(slot[s2].at, iid)

=============================================================================

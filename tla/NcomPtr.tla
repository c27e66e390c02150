------------------------------ MODULE NcomPtr ------------------------------
(***************************************************************************)
(* include/ncom/ncom_ptr.hpp: the smart pointer ncom::ptr, in one thread.  *)
(* Every object has one ncom::ptr as a member (a list node, or a component *)
(* that holds another), so a release may destroy an object, its member,    *)
(* the object that one pointed to and so on, before the operation that     *)
(* called release goes on.  An operation is the list of its steps (todo);  *)
(* a release pushes the destruction that it causes in front of the rest.   *)
(***************************************************************************)
EXTENDS Naturals, Sequences, FiniteSets

CONSTANTS
  Objs,         \* the objects
  Locals,       \* the ptr variables of the client
  MaxRaw,       \* bound: references that C code may own at a time
  NULL

ASSUME PtrAssumption ==
  /\ NULL \notin Objs \union Locals /\ Objs \cap Locals = {} /\ MaxRaw \in Nat
  /\ IsFiniteSet(Objs) /\ IsFiniteSet(Locals)

VARIABLES
  live,         \* the objects whose memory is allocated
  rc,           \* their reference counts
  val,          \* ptr_ of every variable and (under its object) of every member
  scope,        \* the variables that are constructed and not destroyed
  raw,          \* the references owned by C code: results of create, add_ref, detach
  todo,         \* the steps that the current operation still has to do
  call,         \* the current operation and the values of val when it began
  ub            \* a step touched memory that is gone: what follows is undefined

vars == <<live, rc, val, scope, raw, todo, call, ub>>

Locs == Locals \union Objs

Storage == scope \union live

-----------------------------------------------------------------------------
(* What the client can name: the members of the objects it can reach from  *)
(* its variables and from the references that C code owns.                 *)

RawTotal == LET Owned(o) == {o} \X (1 .. raw[o]) IN Cardinality(UNION {Owned(o) : o \in Objs})

(* The objects that can be reached when the pointers are v, without going  *)
(* through the pointer skip: those in every set that has the objects at    *)
(* the roots and whatever the members of its objects point to.             *)
ReachableWithout(skip, v) ==
  LET Roots == {v[l] : l \in scope \ {skip}} \union {o \in Objs : raw[o] > 0}
      Closed(S) ==
        /\ Roots \subseteq S \union {NULL}
        /\ \A o \in S \ {skip} : v[o] \in S \union {NULL}
  IN {o \in Objs : \A S \in SUBSET Objs : Closed(S) => o \in S}

Reachable == ReachableWithout(NULL, val)

Nameable == scope \union Reachable

-----------------------------------------------------------------------------
(* The steps.                                                              *)

Step(do, at) == [do |-> do, at |-> at]
ReadFrom(at, from) == [do |-> "read", at |-> at, from |-> from]
Put(at, o) == [do |-> "set", at |-> at, obj |-> o]

Return == <<Step("return", NULL)>>

(* What the last release of o sets off: the destructor of its member, and  *)
(* the end of its memory.                                                  *)
Destruction(o) == <<Step("release", o), Step("free", o)>>

(* Fault: ptr_ keeps its value after the release.                          *)
InternalReleaseKeeps(l) ==
  IF rc[val[l]] = 1 THEN Destruction(val[l]) ELSE <<>>

(* internal_release: call release, then ptr_ = nullptr.                    *)
InternalRelease(l) ==
  (IF rc[val[l]] = 1 THEN Destruction(val[l]) ELSE <<>>) \o <<Step("null", l)>>

(* The bodies of the operations.                                           *)
CopyConstruct(l, q) == <<ReadFrom(l, q), Step("add_ref", l)>>

MoveConstruct(l, q) == <<ReadFrom(l, q), Step("null", q)>>

(* Fault: no test for self-assignment.                                     *)
CopyAssignUnchecked(l, q) ==
  <<Step("release", l), ReadFrom(l, q), Step("add_ref", l)>>

(* Fault: the count is left to the pointer that is overwritten.            *)
CopyAssignUncounted(l, q) ==
  IF l = q THEN <<>> ELSE <<Step("release", l), ReadFrom(l, q)>>

(* Fault: the new object is counted at both ends of the assignment.        *)
CopyAssignTwice(l, q) ==
  IF l = q THEN <<>>
  ELSE <<Step("release", l), Step("add_ref", q), ReadFrom(l, q), Step("add_ref", l)>>

CopyAssign(l, q) ==
  IF l = q THEN <<>>
  ELSE <<Step("release", l), ReadFrom(l, q), Step("add_ref", l)>>

MoveAssign(l, q) ==
  IF l = q THEN <<>>
  ELSE <<Step("release", l), ReadFrom(l, q), Step("null", q)>>

NullAssign(l) == <<Step("release", l)>>

Attach(l, o) == <<Step("release", l), Put(l, o)>>

As(q, out) == Attach(out, NULL) \o <<[do |-> "query", at |-> q, out |-> out]>>

-----------------------------------------------------------------------------
(* The operations: what the client calls when no operation is running.     *)

Idle == todo = <<>> /\ ~ub

Begin(name, l, q, steps) ==
  /\ todo' = steps \o Return
  /\ call' = [op |-> name, this |-> l, other |-> q, val |-> val]

NoCall == [op |-> "none", this |-> NULL, other |-> NULL, val |-> [l \in Locs |-> NULL]]

(* ptr() and ptr(nullptr_t).                                               *)
ConstructNull(l) ==
  /\ Idle /\ l \in Locals \ scope
  /\ scope' = scope \union {l}
  /\ UNCHANGED <<live, rc, val, raw, todo, call, ub>>

(* ptr(const ptr&) and ptr(ptr&&): a new variable.                         *)
Construct(l, q) ==
  /\ Idle /\ l \in Locals \ scope /\ q \in Nameable
  /\ scope' = scope \union {l}
  /\ \/ Begin("copy", l, q, CopyConstruct(l, q))
     \/ Begin("move", l, q, MoveConstruct(l, q))
  /\ UNCHANGED <<live, rc, val, raw, ub>>

(* ~ptr(): the end of a variable's scope.                                  *)
Destruct(l) ==
  /\ Idle /\ l \in scope
  /\ Begin("destruct", l, l, <<Step("release", l), Step("leave", l)>>)
  /\ UNCHANGED <<live, rc, val, scope, raw, ub>>

Assign(l, q) ==
  /\ Idle /\ {l, q} \subseteq Nameable
  /\ \/ Begin("copy", l, q, CopyAssign(l, q))
     \/ Begin("move", l, q, MoveAssign(l, q))
  /\ UNCHANGED <<live, rc, val, scope, raw, ub>>

(* operator=(nullptr_t), and put() for a call that returns nothing.        *)
Reset(l) ==
  /\ Idle /\ l \in Nameable
  /\ Begin("null", l, l, NullAssign(l))
  /\ UNCHANGED <<live, rc, val, scope, raw, ub>>

(* attach(raw), and put() for a call that returns raw: the reference is    *)
(* already counted and changes its owner.                                  *)
TakeOver(l, o) ==
  /\ Idle /\ l \in Nameable /\ raw[o] > 0
  /\ raw' = [raw EXCEPT ![o] = @ - 1]
  /\ Begin("attach", l, o, Attach(l, o))
  /\ UNCHANGED <<live, rc, val, scope, ub>>

(* detach(): the reference goes to C code.                                 *)
Detach(l) ==
  /\ Idle /\ l \in Nameable /\ val[l] # NULL /\ RawTotal < MaxRaw
  /\ raw' = [raw EXCEPT ![val[l]] = @ + 1]
  /\ val' = [val EXCEPT ![l] = NULL]
  /\ UNCHANGED <<live, rc, scope, todo, call, ub>>

QueryAs(q, out) ==
  /\ Idle /\ {q, out} \subseteq Nameable
  /\ Begin("as", out, q, As(q, out))
  /\ UNCHANGED <<live, rc, val, scope, raw, ub>>

(* C code: creates an object, counts a reference of its own, or releases.  *)
CCreate(o) ==
  /\ Idle /\ o \notin live /\ RawTotal < MaxRaw
  /\ live' = live \union {o}
  /\ rc' = [rc EXCEPT ![o] = 1]
  /\ raw' = [raw EXCEPT ![o] = 1]
  /\ val' = [val EXCEPT ![o] = NULL]
  /\ UNCHANGED <<scope, todo, call, ub>>

CAddRef(o) ==
  /\ Idle /\ o \in Reachable /\ RawTotal < MaxRaw
  /\ rc' = [rc EXCEPT ![o] = @ + 1]
  /\ raw' = [raw EXCEPT ![o] = @ + 1]
  /\ UNCHANGED <<live, val, scope, todo, call, ub>>

CRelease(o) ==
  /\ Idle /\ raw[o] > 0
  /\ raw' = [raw EXCEPT ![o] = @ - 1]
  /\ rc' = [rc EXCEPT ![o] = @ - 1]
  /\ Begin("c_release", NULL, NULL, IF rc[o] = 1 THEN Destruction(o) ELSE <<>>)
  /\ UNCHANGED <<live, val, scope, ub>>

-----------------------------------------------------------------------------
(* One step of the running operation.                                      *)

Now == Head(todo)

Then(steps) == todo' = steps \o Tail(todo)

Doing(do) == todo # <<>> /\ Now.do = do

(* The pointers that the step reads or writes, and whether it calls the    *)
(* object behind the first of them.                                        *)
Touched ==
  CASE Now.do = "read" -> {Now.at, Now.from}
    [] Now.do = "return" -> {}
    [] OTHER -> {Now.at}

Calls == Now.do \in {"release", "add_ref", "query"}

Undefined ==
  \/ ~(Touched \subseteq Storage)
  \/ Calls /\ val[Now.at] \notin live \union {NULL}

Crash ==
  /\ todo # <<>> /\ ~ub
  /\ Undefined
  /\ ub' = TRUE
  /\ UNCHANGED <<live, rc, val, scope, raw, todo, call>>

Sound(do) == Doing(do) /\ ~ub /\ ~Undefined

DoRelease ==
  /\ Sound("release")
  /\ IF val[Now.at] = NULL
     THEN Then(<<>>) /\ UNCHANGED rc
     ELSE Then(InternalRelease(Now.at)) /\ rc' = [rc EXCEPT ![val[Now.at]] = @ - 1]
  /\ UNCHANGED <<live, val, scope, raw, call, ub>>

DoAddRef ==
  /\ Sound("add_ref")
  /\ Then(<<>>)
  /\ rc' = IF val[Now.at] = NULL THEN rc ELSE [rc EXCEPT ![val[Now.at]] = @ + 1]
  /\ UNCHANGED <<live, val, scope, raw, call, ub>>

DoWrite ==
  /\ Sound("null") \/ Sound("read") \/ Sound("set")
  /\ Then(<<>>)
  /\ val' = [val EXCEPT ![Now.at] =
               CASE Now.do = "null" -> NULL
                 [] Now.do = "read" -> val[Now.from]
                 [] Now.do = "set" -> Now.obj]
  /\ UNCHANGED <<live, rc, scope, raw, call, ub>>

(* The call of query_interface in as(): on success the object has counted  *)
(* the reference that out then takes over.                                 *)
DoQuery ==
  /\ Sound("query")
  /\ \/ Then(<<>>) /\ UNCHANGED rc
     \/ /\ val[Now.at] # NULL
        /\ rc' = [rc EXCEPT ![val[Now.at]] = @ + 1]
        /\ Then(Attach(Now.out, val[Now.at]))
  /\ UNCHANGED <<live, val, scope, raw, call, ub>>

DoFree ==
  /\ Sound("free")
  /\ Then(<<>>)
  /\ live' = live \ {Now.at}
  /\ UNCHANGED <<rc, val, scope, raw, call, ub>>

DoLeave ==
  /\ Sound("leave")
  /\ Then(<<>>)
  /\ scope' = scope \ {Now.at}
  /\ UNCHANGED <<live, rc, val, raw, call, ub>>

DoReturn ==
  /\ Sound("return")
  /\ todo' = <<>>
  /\ call' = NoCall
  /\ UNCHANGED <<live, rc, val, scope, raw, ub>>

(* After undefined behaviour nothing is said.                              *)
Crashed == ub /\ UNCHANGED vars

-----------------------------------------------------------------------------

PtrInit ==
  /\ live = {}
  /\ rc = [o \in Objs |-> 0]
  /\ val = [l \in Locs |-> NULL]
  /\ scope = Locals
  /\ raw = [o \in Objs |-> 0]
  /\ todo = <<>>
  /\ call = NoCall
  /\ ub = FALSE

PtrNext ==
  \/ \E l \in Locs :
       \/ ConstructNull(l) \/ Destruct(l) \/ Reset(l) \/ Detach(l)
       \/ \E q \in Locs : Construct(l, q) \/ Assign(l, q) \/ QueryAs(q, l)
       \/ \E o \in Objs : TakeOver(l, o)
  \/ \E o \in Objs : CCreate(o) \/ CAddRef(o) \/ CRelease(o)
  \/ DoRelease \/ DoAddRef \/ DoWrite \/ DoQuery \/ DoFree \/ DoLeave \/ DoReturn
  \/ Crash \/ Crashed

PtrSpec == PtrInit /\ [][PtrNext]_vars

-----------------------------------------------------------------------------

Done == todo = Return /\ ~ub

PtrTypeOK ==
  /\ live \subseteq Objs
  /\ rc \in [Objs -> 0 .. Cardinality(Locs) + MaxRaw]
  /\ val \in [Locs -> Objs \union {NULL}]
  /\ scope \subseteq Locals
  /\ raw \in [Objs -> 0 .. MaxRaw]
  /\ ub \in BOOLEAN

(* When an operation returns, the count of every object is the number of   *)
(* pointers to it that exist plus the references that C code owns, and the *)
(* object is there exactly while that number is positive: no sequence of   *)
(* copies, moves, self-assignments, attaches, detaches and queries, through *)
(* variables or members, leaks a reference or gives one back twice.        *)
CountIsPointers ==
  Done =>
    \A o \in Objs :
      /\ o \in live =>
           rc[o] = Cardinality({l \in Storage : val[l] = o}) + raw[o]
      /\ (o \in live) = (rc[o] > 0)

(* An operation gives its target the value its source had when it was      *)
(* called and changes no other pointer that outlives it, whatever was      *)
(* destroyed on the way: a self-assignment keeps the pointer, a move       *)
(* empties its source, and as() leaves the pointer it queries alone unless *)
(* that is its own output, which ends empty.                               *)
Old(l) == call.val[l]

Result(l) ==
  LET this == call.this IN
  CASE call.op \in {"copy", "move"} /\ l = this -> {Old(call.other)}
    [] call.op = "move" /\ l = call.other /\ l # this -> {NULL}
    [] call.op \in {"null", "destruct"} /\ l = this -> {NULL}
    [] call.op = "attach" /\ l = this -> {call.other}
    [] call.op = "as" /\ l = this ->
         IF this = call.other THEN {NULL} ELSE {NULL, Old(call.other)}
    [] OTHER -> {Old(l)}

OperationResult == Done => \A l \in Storage : val[l] \in Result(l)

(* Memory is touched after it is gone in one case only: the pointer that   *)
(* an assignment (or as) reads was a member of an object that nothing but  *)
(* the pointer it overwrites kept reachable, as in head = head->next.      *)
(* Every other use, however the objects point to one another, is sound.    *)
OnlyInnerSourceDangles ==
  ub =>
    /\ call.op \in {"copy", "move", "as"}
    /\ call.other \in Objs
    /\ call.other \notin ReachableWithout(call.this, call.val)

=============================================================================

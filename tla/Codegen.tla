------------------------------ MODULE Codegen ------------------------------
(***************************************************************************)
(* What the two generators of nidlgen (tools/nidl/nidl_codegen_c.c and     *)
(* nidl_codegen_wit.c) make of a syntax tree: the order of declarations,   *)
(* the names of types and the shape of method signatures.  A type is its   *)
(* IDL name.  A generated name is a module and a name; the printing of it, *)
(* documentation comments and identifiers' spelling are left out.          *)
(*                                                                         *)
(* A tree is a record: module, and ifaces, structs and imports, the last   *)
(* three linked lists (the newest element first) as sequences.             *)
(***************************************************************************)
EXTENDS Naturals, Sequences, SequencesExt, FiniteSetsExt

CONSTANTS
  GuardMax,     \* 32, the cycle guard of iface_depth
  NULL

ASSUME CodegenAssumption == GuardMax \in Nat

-----------------------------------------------------------------------------
(* Linked lists, as sequences of whatever their elements are.              *)

IsList(s) == s \in Seq(Range(s))

(* The elements of a list that are in S, in the order of the list.         *)
Those(list, S) ==
  LET kept[i \in 0 .. Len(list)] ==
        IF i = 0 THEN <<>>
        ELSE IF list[i] \in S THEN Append(kept[i - 1], list[i])
        ELSE kept[i - 1]
  IN kept[Len(list)]

-----------------------------------------------------------------------------
(* The order of interfaces.                                                *)

(* find_interface: the first of that name, 0 if there is none.  What lost  *)
(* its name when memory ran out is never found.                            *)
FindInterface(ast, name) ==
  SelectInSeq(ast.ifaces, LAMBDA it : it.name # NULL /\ it.name = name)

(* A base that is an interface of the tree.                                *)
HasBase(ast, it) == it.base # NULL /\ FindInterface(ast, it.base) # 0

BaseOf(ast, it) == ast.ifaces[FindInterface(ast, it.base)]

(* iface_depth: the length of the chain of bases that the tree knows; left *)
(* is the number of calls that guard still allows.                         *)
IfaceDepth(ast, iface) ==
  LET depth[left \in 0 .. GuardMax + 1] ==
        [it \in Range(ast.ifaces) |->
           IF left = 0 \/ ~HasBase(ast, it) THEN 0
           ELSE 1 + depth[left - 1][BaseOf(ast, it)]]
  IN depth[GuardMax + 1][iface]

(* The array that emit_interfaces fills from its end: the file's own       *)
(* interfaces in the order of the source.                                  *)
LocalInterfaces(ast) == Reverse(Those(ast.ifaces, {it \in Range(ast.ifaces) : ~it.imported}))

(* Fault: the interfaces are left in the order of the source.              *)
SortUnmoved(ast, arr) == arr

(* sort_interfaces_by_base: insertion sort; the key goes after the last    *)
(* element of the sorted part that is not deeper.                          *)
SortInterfacesByBase(ast, arr) ==
  LET sorted[i \in 0 .. Len(arr)] ==
        IF i = 0 THEN <<>>
        ELSE LET key == arr[i]
                 keep == {j \in 1 .. i - 1 :
                            IfaceDepth(ast, sorted[i - 1][j]) <= IfaceDepth(ast, key)}
             IN InsertAt(sorted[i - 1], Max(keep \union {0}) + 1, key)
  IN sorted[Len(arr)]

(* What the interfaces are printed from; a nameless one is passed over.    *)
EmitOrder(ast) == SortInterfacesByBase(ast, LocalInterfaces(ast))

-----------------------------------------------------------------------------
(* Names.                                                                  *)

FrameworkInterfaces == {"i_unknown", "i_factory", "i_string", "i_error_info"}

(* Other names that map_prim gives the framework's interfaces.             *)
FrameworkAliases == {"ncom_iunknown", "ncom_ifactory", "ncom_istring", "ncom_ierror_info"}

Primitives == {"void", "octet", "status_t", "uuid", "clsid"}

FrameworkModule == "ncom"

(* source_module if the declaration was imported, else the file's own.     *)
OriginModule(ast, decl) ==
  IF decl.source # NULL THEN decl.source ELSE ast.module

FindStruct(ast, name) ==
  SelectInSeq(ast.structs, LAMBDA st : st.name # NULL /\ st.name = name)

(* map_type: primitives and framework types, then interfaces, structs, and *)
(* as the last resort the name as it is.                                   *)
MapType(ast, t) ==
  LET iface == FindInterface(ast, t)
      struct == FindStruct(ast, t)
  IN CASE t \in Primitives \union FrameworkInterfaces \union FrameworkAliases ->
            [module |-> FrameworkModule, name |-> t]
       [] OTHER ->
            [module |-> IF iface # 0 THEN OriginModule(ast, ast.ifaces[iface])
                        ELSE IF struct # 0 THEN OriginModule(ast, ast.structs[struct])
                        ELSE NULL,
             name |-> t]

(* vtbl_base_type: every vtable starts with another one.                   *)
VtblBaseType(ast, it) ==
  LET b == FindInterface(ast, it.base) IN
  CASE it.base = NULL -> [module |-> FrameworkModule, name |-> "i_unknown"]
    [] it.base \in FrameworkInterfaces \union FrameworkAliases ->
         [module |-> FrameworkModule, name |-> it.base]
    [] OTHER ->
         [module |-> IF b # 0 THEN OriginModule(ast, ast.ifaces[b]) ELSE ast.module,
          name |-> it.base]

-----------------------------------------------------------------------------
(* Signatures.                                                             *)

(* params_to_array: parameters in the order of the source.                 *)
Params(m) == Reverse(m.params)

IsInterface(ast, t) == FindInterface(ast, t) # 0 \/ t \in FrameworkInterfaces

(* The number of stars that emit_interfaces puts before a parameter.       *)
Stars(ast, p) ==
  IF IsInterface(ast, p.type) /\ p.dir = "out" THEN 2
  ELSE IF p.dir \in {"out", "inout"} THEN 1
  ELSE IF p.type \in {"uuid", "clsid"} \/ IsInterface(ast, p.type) THEN 1
  ELSE 0

(* A C function hands back what it can store through a parameter: a value  *)
(* needs one star, and an interface, which is a pointer itself, two.       *)
CReturnsThrough(ast, p) ==
  Stars(ast, p) > (IF IsInterface(ast, p.type) \/ p.type \in FrameworkAliases THEN 1 ELSE 0)
  /\ ~(p.dir = "in" /\ p.type \in {"uuid", "clsid"})        \* const

(* is_status: both names of one C type.                                    *)
Statuses == {"status_t", "ncom_status_t"}

(* The types of the results: first the return value, unless it is a status *)
(* or none, and then the parameters that results come back through.        *)
Results(m, ps) ==
  (IF m.ret \in {"void"} \union Statuses THEN <<>> ELSE <<m.ret>>)
  \o [i \in 1 .. Len(ps) |-> ps[i].type]

COutputs(ast, m) ==
  Results(m, Those(Params(m), {p \in Range(m.params) : CReturnsThrough(ast, p)}))

(* codegen_wit: in and inout parameters are the function's parameters, and *)
(* its result is made of the return value, unless that is a status, and    *)
(* the out and inout parameters: a tuple of several, one alone.            *)
WitInputs(m) == Those(Params(m), {p \in Range(m.params) : p.dir \in {"in", "inout"}})

(* Fault: the only result is searched among the out parameters.            *)
WitOutputsOnly(m) ==
  Results(m, Those(Params(m), {p \in Range(m.params) : p.dir = "out"}))

WitOutputs(m) ==
  Results(m, Those(Params(m), {p \in Range(m.params) : p.dir \in {"out", "inout"}}))

=============================================================================

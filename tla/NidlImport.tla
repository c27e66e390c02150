----------------------------- MODULE NidlImport -----------------------------
(***************************************************************************)
(* One run of nidlgen: tools/nidl/main.c around the imports of             *)
(* tools/nidl/nidl_parse.c and the generators.  Parsing a file is a frame  *)
(* on a stack of frames, since nidl_parse_internal calls itself for every  *)
(* import; what a file declares comes from the disk, its syntax being the  *)
(* subject of NidlParser.  Allocations from the arena may fail, and where  *)
(* the code does not look at the result the program ends or goes on with   *)
(* NULL.  A declaration's nodes and strings are one request: when it fails *)
(* any of them may be what could not be had.                               *)
(***************************************************************************)
EXTENDS Arena, Codegen

CONSTANTS
  Files, Root,  \* the files, and the one on the command line
  Disks,        \* the contents that the files may have
  DirChoices,   \* include directories: those of the environment, those of -I
  MaxDirs,      \* MAX_INCLUDE_DIRS
  MaxStack,     \* 32, the size of ctx.stack
  MaxFrames     \* bound: nested calls that the C stack has room for

(* Directions are those of parse_param.                                    *)
IsMethod(m) == IsList(m.params) /\ \A p \in Range(m.params) : p.dir \in {"in", "out", "inout"}

IsDeclaration(d) == IsList(d.methods) /\ \A m \in Range(d.methods) : IsMethod(m)

(* What the text of a file is to the parser.                               *)
IsFile(c) ==
  /\ IsList(c.imports) /\ \A imp \in Range(c.imports) : imp.to \in Files
  /\ IsList(c.ifaces) /\ \A d \in Range(c.ifaces) : IsDeclaration(d)
  /\ IsList(c.structs)

ASSUME NidlAssumption ==
  /\ Root \in Files
  /\ MaxDirs \in Nat /\ {MaxStack, MaxFrames} \subseteq Nat \ {0}
  /\ MaxStack < MaxFrames
  /\ \A d \in Disks : DOMAIN d = Files /\ \A f \in Files : IsFile(d[f])
  /\ \A c \in DirChoices : IsList(c.env) /\ IsList(c.cli)

VARIABLES
  disk,         \* for every file: home, state, module, imports, ifaces, structs
  dirs,         \* ctx.include_dirs
  phase,        \* where main is
  frames,       \* the calls of nidl_parse_internal, the innermost last
  stack,        \* ctx.stack: paths
  deepest,      \* how many frames there have been at once
  ast,          \* what the outermost call returned
  written,      \* the files that the generators wrote
  outcome       \* "running" or how the program ended

nidlVars == <<disk, dirs, phase, frames, stack, deepest, ast, written, outcome>>

allVars == <<arenaVars, nidlVars>>

-----------------------------------------------------------------------------
(* Paths.  A path is a string: the text of a directory, some detours like  *)
(* "../here/" and a file name.  Two spellings of one file are different    *)
(* paths.                                                                  *)

Path(f, text, detours) == [file |-> f, text |-> text, detours |-> detours]

(* The root is given by its bare name; what is imported from a file with   *)
(* such a path is looked for as it is written.                             *)
RootPath == Path(Root, "given", 0)

IsBare(src) == src.text = "given" /\ src.detours = 0

(* resolve_import_path: where an import is looked for, in this order: as   *)
(* it is if it is absolute, or in the directory of the importing file and  *)
(* then in every include directory.  A bare candidate is the text of the   *)
(* import itself, which is copied only when the file is there.             *)
Candidates(src, imp) ==
  CASE imp.spell = "absolute" ->
         <<[at |-> disk[imp.to].home, path |-> Path(imp.to, "/", 0), bare |-> TRUE]>>
    [] imp.spell = "detour" ->
         <<[at |-> disk[imp.to].home, path |-> Path(imp.to, src.text, src.detours + 1),
            bare |-> IsBare(src)]>>
    [] OTHER ->
         <<[at |-> disk[src.file].home, path |-> Path(imp.to, src.text, src.detours),
            bare |-> IsBare(src)]>>
         \o [i \in 1 .. Len(dirs) |->
               [at |-> dirs[i].dir, path |-> Path(imp.to, dirs[i].text, 0), bare |-> FALSE]]

Exists(c) == disk[c.path.file].home = c.at /\ disk[c.path.file].home # "nowhere"

-----------------------------------------------------------------------------
(* Frames.                                                                 *)

(* Sizes in bytes: a source text, an AST node, a declaration with all its  *)
(* nodes and strings, a string.                                            *)
SourceSize == 30
NodeSize == 24
DeclSize == 40
StringLen == 7

EmptyAst == [module |-> NULL, ifaces |-> <<>>, structs |-> <<>>, imports |-> <<>>]

Frame(path) ==
  [path |-> path, pc |-> "start", file |-> TRUE, ast |-> EmptyAst, base |-> base',
   imp |-> 1, try |-> 1, target |-> NULL, child |-> NULL, decl |-> 1]

top == frames[Len(frames)]

Contents == disk[top.path.file]

Import == Contents.imports[top.imp]

Parsing(pc) == phase = "parse" /\ outcome = "running" /\ top.pc = pc

TopIs(f) == frames' = [frames EXCEPT ![Len(frames)] = f]

GoTo(pc) == TopIs([top EXCEPT !.pc = pc])

(* Fault: nothing is taken off the stack.                                  *)
PoppedNever(s) == s

(* ctx->stack_depth--, whether or not this call pushed.                    *)
Popped(s) == IF s = <<>> THEN <<>> ELSE Front(s)

(* Fault: no test for room.                                                *)
PushedAlways(s, p) == Append(s, p)

Pushed(s, p) == IF Len(s) < MaxStack THEN Append(s, p) ELSE s

-----------------------------------------------------------------------------
(* main up to the call of nidl_parse.                                      *)

End(o) == outcome' = o

CollectDirs ==
  /\ phase = "dirs" /\ outcome = "running"
  /\ \E choice \in DirChoices :
       LET all == choice.env \o choice.cli IN
       IF Len(all) > MaxDirs
       THEN End("usage") /\ UNCHANGED <<dirs, phase>>
       ELSE dirs' = all /\ phase' = "read" /\ UNCHANGED outcome
  /\ UNCHANGED <<arenaVars, disk, frames, stack, deepest, ast, written>>

(* arena_create, read_all and the call of nidl_parse; any of them may fail *)
(* for lack of memory, and the file may be missing.                        *)
ReadRoot ==
  /\ phase = "read" /\ outcome = "running"
  /\ \/ /\ disk[Root].state # "unreadable"
        /\ Calloc(SourceSize + 1, 1)
        /\ phase' = "parse"
        /\ stack' = <<RootPath>>
        /\ frames' = <<Frame(RootPath)>>
        /\ deepest' = 1
        /\ UNCHANGED outcome
     \/ End("failed") /\ UNCHANGED <<arenaVars, phase, stack, frames, deepest>>
  /\ UNCHANGED <<disk, dirs, ast, written>>

-----------------------------------------------------------------------------
(* nidl_parse_internal and parse_import.                                   *)

(* The result of the allocation is used without a test.                    *)
CrashIfNull(n) == AllocNull(n) /\ End("crash") /\ UNCHANGED frames

Fail == GoTo("fail") /\ UNCHANGED outcome

(* The node of the file, which p.file may have to do without (file is      *)
(* FALSE) until something is stored in it, and the lexer, without which    *)
(* the first token crashes.                                                *)
StartFile ==
  /\ Parsing("start")
  /\ \/ Alloc(NodeSize) /\ GoTo("import") /\ UNCHANGED outcome
     \/ /\ AllocNull(NodeSize)
        /\ TopIs([top EXCEPT !.pc = "import", !.file = FALSE])
        /\ UNCHANGED outcome
     \/ End("crash") /\ UNCHANGED <<arenaVars, frames>>
  /\ UNCHANGED <<disk, dirs, phase, stack, deepest, ast, written>>

(* The loop over import statements: the path of the next one, or go on     *)
(* with the module.                                                        *)
NextImport ==
  /\ Parsing("import")
  /\ IF top.imp > Len(Contents.imports)
     THEN GoTo("module") /\ UNCHANGED <<arenaVars, outcome>>
     ELSE \/ /\ Strdup(StringLen)
             /\ TopIs([top EXCEPT !.pc = "resolve", !.try = 1])
             /\ UNCHANGED outcome
          \/ CrashIfNull(StringLen + 1)
  /\ UNCHANGED <<disk, dirs, phase, stack, deepest, ast, written>>

TryCandidate ==
  /\ Parsing("resolve")
  /\ LET places == Candidates(top.path, Import)
         place == places[top.try]
     IN IF top.try > Len(places)
        THEN Fail /\ UNCHANGED arenaVars
        ELSE \/ /\ IF place.bare /\ ~Exists(place)
                   THEN UNCHANGED arenaVars ELSE Alloc(2 * StringLen)
                /\ UNCHANGED outcome
                /\ TopIs(IF Exists(place)
                         THEN [top EXCEPT !.pc = "check", !.target = place.path]
                         ELSE [top EXCEPT !.try = @ + 1])
             \/ ~(place.bare /\ ~Exists(place)) /\ AllocNull(2 * StringLen) /\ Fail
  /\ UNCHANGED <<disk, dirs, phase, stack, deepest, ast, written>>

(* Fault: no cycle detection.                                              *)
CheckNothing ==
  /\ Parsing("check")
  /\ GoTo("read")
  /\ UNCHANGED <<arenaVars, disk, dirs, phase, stack, deepest, ast, written, outcome>>

(* Cycle detection: strcmp with every path on the stack.                   *)
CheckCycle ==
  /\ Parsing("check")
  /\ IF top.target \in Range(stack) THEN Fail ELSE GoTo("read") /\ UNCHANGED outcome
  /\ UNCHANGED <<arenaVars, disk, dirs, phase, stack, deepest, ast, written>>

(* read_file_src, the push and the recursive call.                         *)
EnterImport ==
  /\ Parsing("read")
  /\ \/ /\ disk[top.target.file].state # "unreadable"
        /\ Calloc(SourceSize + 1, 1)
        /\ stack' = Pushed(stack, top.target)
        /\ IF Len(frames) = MaxFrames
           THEN End("overflow") /\ UNCHANGED <<frames, deepest>>
           ELSE /\ frames' = Append([frames EXCEPT ![Len(frames)].pc = "wait"],
                                    Frame(top.target))
                /\ deepest' = Max({deepest, Len(frames) + 1})
                /\ UNCHANGED outcome
     \/ /\ CallocNull(SourceSize + 1, 1) \/ (disk[top.target.file].state = "unreadable"
                                             /\ UNCHANGED arenaVars)
        /\ Fail
        /\ UNCHANGED <<stack, deepest>>
  /\ UNCHANGED <<disk, dirs, phase, ast, written>>

(* The module's name; without memory for it the module has none.  A syntax *)
(* error may be before the name or behind it.                              *)
ParseModule ==
  /\ Parsing("module")
  /\ \/ Contents.state = "syntax_error" /\ Fail /\ UNCHANGED arenaVars
     \/ ~top.file /\ End("crash") /\ UNCHANGED <<arenaVars, frames>>
     \/ /\ top.file /\ Contents.state # "syntax_error"
        /\ \/ /\ Strdup(StringLen)
              /\ TopIs([top EXCEPT !.pc = "decl", !.ast.module = Contents.module])
           \/ StrdupNull(StringLen) /\ GoTo("decl")
        /\ UNCHANGED outcome
  /\ UNCHANGED <<disk, dirs, phase, stack, deepest, ast, written>>

(* parse_type_spec copies an identifier; these have texts of their own.    *)
BaseTypes == {"long", "long long", "short", "int", "char", "octet"}

(* The copies of tokens that an interface is made of and that nobody tests *)
(* for NULL: its name, its base, and of its k-th method the type it        *)
(* returns, <<k, 0>>, and that of its i-th parameter, <<k, i>>.  (Ids, and *)
(* the names of methods and parameters, are left out.)                     *)
Texts(d) ==
  LET types(k) ==
        LET m == d.methods[k] IN
        {<<k, i>> : i \in {j \in 0 .. Len(m.params) :
                           (IF j = 0 THEN m.ret ELSE m.params[j].type) \notin BaseTypes}}
  IN {<<"name">>} \union (IF d.base = NULL THEN {} ELSE {<<"base">>})
     \union UNION {types(k) : k \in 1 .. Len(d.methods)}

(* A declaration as the parser makes it when the copies in lost are NULL:  *)
(* parameters are prepended, too, and a type is what printf makes of it.   *)
(* What follows source the program does not keep: the file and the name    *)
(* that the declaration has there.                                         *)
Iface(d, f, lost) ==
  [name |-> IF <<"name">> \in lost THEN NULL ELSE d.name,
   base |-> IF <<"base">> \in lost THEN NULL ELSE d.base,
   methods |->
     [k \in 1 .. Len(d.methods) |->
        LET m == d.methods[k]
            spec(i, type) == IF <<k, i>> \in lost THEN "(null)" ELSE type
        IN [ret |-> spec(0, m.ret),
            params |-> Reverse([i \in 1 .. Len(m.params) |->
                                  [dir |-> m.params[i].dir,
                                   type |-> spec(i, m.params[i].type)]])]],
   imported |-> FALSE, source |-> NULL, from |-> f, text |-> d.name]

Struct(name, f, lost) ==
  [name |-> IF <<"name">> \in lost THEN NULL ELSE name,
   imported |-> FALSE, source |-> NULL, from |-> f, text |-> name]

(* parse_interface and parse_struct: a node, put before the others.  When  *)
(* memory runs out, copies may be lost while there is room for the node,   *)
(* a NULL node crashes, and a type that could not be copied leaves its     *)
(* name or alias to be parsed as the next member, which is an error.       *)
Declare ==
  /\ Parsing("decl")
  /\ top.decl <= Len(Contents.ifaces) + Len(Contents.structs)
  /\ LET n == Len(Contents.ifaces)
         isIface == top.decl <= n
         d == Contents.ifaces[top.decl]
     IN \/ \E lost \in SUBSET (IF isIface THEN Texts(d) ELSE {<<"name">>}) :
             /\ IF lost = {} THEN Alloc(DeclSize) ELSE MayFail(DeclSize) /\ Alloc(NodeSize)
             /\ UNCHANGED outcome
             /\ TopIs([top EXCEPT
                  !.decl = @ + 1,
                  !.ast.ifaces = IF isIface THEN <<Iface(d, top.path.file, lost)>> \o @ ELSE @,
                  !.ast.structs =
                    IF isIface THEN @
                    ELSE <<Struct(Contents.structs[top.decl - n], top.path.file, lost)>> \o @])
        \/ (isIface => d.methods # <<>>) /\ AllocNull(DeclSize) /\ Fail
        \/ CrashIfNull(DeclSize)
  /\ UNCHANGED <<disk, dirs, phase, stack, deepest, ast, written>>

(* The end of the file: the tree goes to the caller, which takes the path  *)
(* off the stack, or to main.                                              *)
CloseFile ==
  /\ Parsing("decl")
  /\ top.decl > Len(Contents.ifaces) + Len(Contents.structs)
  /\ IF Len(frames) = 1
     THEN /\ ast' = top.ast /\ phase' = "gen_c" /\ frames' = <<>>
          /\ UNCHANGED stack
     ELSE /\ frames' = [Front(frames) EXCEPT
                          ![Len(frames) - 1].pc = "merge", ![Len(frames) - 1].child = top.ast]
          /\ stack' = Popped(stack)
          /\ UNCHANGED <<ast, phase>>
  /\ UNCHANGED <<arenaVars, disk, dirs, deepest, written, outcome>>

(* The same for a call that returns NULL: its caller fails as well.        *)
ReturnNull ==
  /\ Parsing("fail")
  /\ IF Len(frames) = 1
     THEN End("failed") /\ UNCHANGED <<frames, stack>>
     ELSE /\ frames' = [Front(frames) EXCEPT ![Len(frames) - 1].pc = "fail"]
          /\ stack' = Popped(stack)
          /\ UNCHANGED outcome
  /\ UNCHANGED <<arenaVars, disk, dirs, phase, deepest, ast, written>>

(* What has no name is nobody's duplicate.                                 *)
Known(list, x) == x.name # NULL /\ \E e \in Range(list) : e.name = x.name

(* Fault: what is there already is marked as coming from this file, too.   *)
MergeRelabels(list, new, module) ==
  LET merged[i \in 0 .. Len(new)] ==
        IF i = 0 THEN list
        ELSE IF Known(merged[i - 1], new[i])
             THEN [j \in 1 .. Len(merged[i - 1]) |->
                     IF merged[i - 1][j].name = new[i].name
                     THEN [merged[i - 1][j] EXCEPT !.source = module] ELSE merged[i - 1][j]]
        ELSE <<[new[i] EXCEPT !.imported = TRUE, !.source = module]>> \o merged[i - 1]
  IN merged[Len(new)]

(* Fault: declarations that were imported before are not passed on.        *)
MergeOwn(list, new, module) ==
  LET merged[i \in 0 .. Len(new)] ==
        IF i = 0 THEN list
        ELSE IF new[i].imported \/ Known(merged[i - 1], new[i]) THEN merged[i - 1]
        ELSE <<[new[i] EXCEPT !.imported = TRUE, !.source = module]>> \o merged[i - 1]
  IN merged[Len(new)]

(* Merge what is not there by name, and say that it comes from the file    *)
(* just imported.                                                          *)
Merge(list, new, module) ==
  LET merged[i \in 0 .. Len(new)] ==
        IF i = 0 THEN list
        ELSE IF Known(merged[i - 1], new[i]) THEN merged[i - 1]
        ELSE <<[new[i] EXCEPT !.imported = TRUE, !.source = module]>> \o merged[i - 1]
  IN merged[Len(new)]

(* The rest of parse_import: merge, and record the import.                 *)
MergeImport ==
  /\ Parsing("merge")
  /\ \/ /\ top.file
        /\ Alloc(NodeSize)
        /\ UNCHANGED outcome
        /\ LET m == top.child.module IN
           TopIs([top EXCEPT
             !.pc = "import", !.imp = @ + 1, !.child = NULL, !.target = NULL,
             !.ast.ifaces = Merge(@, top.child.ifaces, m),
             !.ast.structs = Merge(@, top.child.structs, m),
             !.ast.imports = <<m>> \o @])
     \/ CrashIfNull(NodeSize)
     \/ ~top.file /\ End("crash") /\ UNCHANGED <<arenaVars, frames>>
  /\ UNCHANGED <<disk, dirs, phase, stack, deepest, ast, written>>

-----------------------------------------------------------------------------
(* The generators, in main's order.  What they print is in Codegen.        *)

(* codegen_c_headers.  Without memory for the file's name                  *)
(* emit_module_header returns -1, which its caller takes for success.      *)
WriteHeader ==
  /\ phase = "gen_c" /\ outcome = "running"
  /\ \/ Alloc(2 * StringLen) /\ phase' = "emit_c" /\ UNCHANGED outcome
     \/ AllocNull(2 * StringLen) /\ phase' = "gen_wit" /\ UNCHANGED outcome
     \/ End("failed") /\ UNCHANGED <<arenaVars, phase>>
  /\ UNCHANGED <<disk, dirs, frames, stack, deepest, ast, written>>

(* The arrays of declarations, all in one: an array that cannot be had is  *)
(* taken for empty (typedefs, structs, methods, parameters) or used        *)
(* without a test (fields, and interfaces, whose array is not the arena's).*)
EmitHeader ==
  /\ phase = "emit_c" /\ outcome = "running"
  /\ \/ /\ Alloc(NodeSize)
        /\ written' = written \union {"header"} /\ phase' = "gen_wit" /\ UNCHANGED outcome
     \/ /\ AllocNull(NodeSize)
        /\ \/ written' = written \union {"partial header"} /\ phase' = "gen_wit"
              /\ UNCHANGED outcome
           \/ End("crash") /\ UNCHANGED <<written, phase>>
     \/ /\ LocalInterfaces(ast) # <<>>
        /\ End("crash") /\ UNCHANGED <<arenaVars, written, phase>>
  /\ UNCHANGED <<disk, dirs, frames, stack, deepest, ast>>

(* codegen_wit: its arrays are used without a test.                        *)
WriteWit ==
  /\ phase = "gen_wit" /\ outcome = "running"
  /\ \/ Alloc(NodeSize) /\ written' = written \union {"wit"} /\ End("ok")
     \/ AllocNull(NodeSize) /\ End("crash") /\ UNCHANGED written
     \/ End("failed") /\ UNCHANGED <<arenaVars, written>>
  /\ UNCHANGED <<disk, dirs, phase, frames, stack, deepest, ast>>

Ended == outcome # "running" /\ UNCHANGED allVars

-----------------------------------------------------------------------------

NidlInit ==
  /\ ArenaInit
  /\ disk \in Disks
  /\ dirs = <<>>
  /\ phase = "dirs"
  /\ frames = <<>>
  /\ stack = <<>>
  /\ deepest = 0
  /\ ast = EmptyAst
  /\ written = {}
  /\ outcome = "running"

NidlNext ==
  \/ CollectDirs \/ ReadRoot
  \/ StartFile \/ NextImport \/ TryCandidate \/ CheckCycle \/ EnterImport
  \/ ParseModule \/ Declare \/ CloseFile \/ ReturnNull \/ MergeImport
  \/ WriteHeader \/ EmitHeader \/ WriteWit
  \/ Ended

NidlSpec == NidlInit /\ [][NidlNext]_allVars

-----------------------------------------------------------------------------

NidlTypeOK ==
  /\ ArenaTypeOK
  /\ DOMAIN disk = Files
  /\ Len(dirs) <= MaxDirs
  /\ phase \in {"dirs", "read", "parse", "gen_c", "emit_c", "gen_wit"}
  /\ Len(frames) <= deepest /\ deepest <= MaxFrames
  /\ Len(stack) <= MaxStack
  /\ written \subseteq {"header", "partial header", "wit"}
  /\ outcome \in {"running", "ok", "failed", "usage", "crash", "overflow"}

Paths == [i \in 1 .. Len(frames) |-> frames[i].path]

(* nidl_parse.h: ctx.stack is the "file paths currently being parsed".     *)
(* It is while no more files than it has room for have been nested, after  *)
(* every import, failed or not: so an import of a path that is being       *)
(* parsed is refused, and one that is not is never called circular.        *)
StackTracksFrames ==
  phase = "parse" /\ outcome = "running" /\ deepest <= MaxStack =>
    /\ stack = Paths
    /\ \A i, j \in 1 .. Len(frames) : Paths[i] = Paths[j] => i = j

(* Where the i-th import of the file at p is found: the first candidate    *)
(* that exists.                                                            *)
Found(p, i) ==
  LET places == Candidates(p, disk[p.file].imports[i])
      found == {k \in 1 .. Len(places) : Exists(places[k])}
  IN {places[k].path : k \in {k \in found : \A j \in 1 .. k - 1 : j \notin found}}

NextPaths(p) == UNION {Found(p, i) : i \in 1 .. Len(disk[p.file].imports)}

(* The paths that imports lead to from the root, as far as it matters.     *)
ReachablePaths ==
  LET step[n \in 0 .. MaxStack] ==
        IF n = 0 THEN {RootPath}
        ELSE step[n - 1] \union UNION {NextPaths(p) : p \in step[n - 1]}
  IN step[MaxStack]

(* Imports lead from the root to none but the paths in P.                  *)
ImportsStayIn(P) == RootPath \in P /\ \A p \in P : p.file \in Files /\ NextPaths(p) \subseteq P

(* Imports end, circular or not, when all the spellings of paths that they *)
(* lead to fit on ctx.stack; the C stack can overflow only when there are  *)
(* more: a cycle that makes its path longer every time ("../here/x.idl"),  *)
(* or more files nested than ctx.stack can hold.  (ReachablePaths is what  *)
(* MaxStack imports lead to: if more imports lead elsewhere, it has more   *)
(* paths than MaxStack.)                                                   *)
FewPathsEnd ==
  LET few == ImportsStayIn(ReachablePaths) /\ IsFiniteSet(ReachablePaths)
               /\ Cardinality(ReachablePaths) <= MaxStack
  IN few => outcome # "overflow"

(* The files that f imports, directly or not, and f: those in every set    *)
(* that has f and the files that its files import.                         *)
Closure(f) ==
  LET closed(S) == \A g \in S : {imp.to : imp \in Range(disk[g].imports)} \subseteq S
  IN {g \in Files : \A S \in SUBSET Files : f \in S /\ closed(S) => g \in S}

NamesIn(fs) == UNION {{d.name : d \in Range(disk[f].ifaces)} : f \in fs}

(* A tree that reaches the generators has a node for every interface of    *)
(* every file that is imported, at any depth and by any number of ways,    *)
(* and the file's own in the order of the source, with all their methods   *)
(* and parameters in place; imported ones of one name are there once.  If  *)
(* memory ran out on the way a name, a base or the text of a type may be   *)
(* missing, and nothing else: names are not exchanged, and no declaration  *)
(* is lost or there twice.                                                 *)
ImportClosure ==
  phase \in {"gen_c", "emit_c", "gen_wit"} =>
    LET local == LocalInterfaces(ast)
        own == disk[Root].ifaces
    IN /\ {it.text : it \in Range(ast.ifaces)} = NamesIn(Closure(Root))
       /\ \A it \in Range(ast.ifaces) : it.name \in {it.text, NULL}
       /\ \A i, j \in 1 .. Len(ast.ifaces) :
            ast.ifaces[i].imported /\ ast.ifaces[j].imported /\ ast.ifaces[i].name # NULL
              /\ ast.ifaces[i].name = ast.ifaces[j].name => i = j
       /\ Len(local) = Len(own)
       /\ \A i \in 1 .. Len(own) :
            \E lost \in SUBSET Texts(own[i]) : local[i] = Iface(own[i], Root, lost)

(* A vtable contains its base's vtable, so the base must come first: the   *)
(* header has the file's own interfaces, each as often as it was declared; *)
(* every one comes after the base that find_interface finds for it, if     *)
(* following the bases ends, and interfaces at the same depth keep the     *)
(* order of the source.                                                    *)
BasesFirst ==
  phase = "emit_c" =>
    LET local == LocalInterfaces(ast)
        order == EmitOrder(ast)
        n == Len(local)
    IN /\ Len(order) = n
       /\ \E place \in Bijection(1 .. n, 1 .. n) :
            /\ \A i \in 1 .. n : order[i] = local[place[i]]
            /\ \A i, j \in 1 .. n :
                 i < j /\ IfaceDepth(ast, order[i]) = IfaceDepth(ast, order[j])
                   => place[i] < place[j]
       /\ \A i, j \in 1 .. n :
            /\ IfaceDepth(ast, order[i]) <= GuardMax
            /\ HasBase(ast, order[i]) /\ BaseOf(ast, order[i]) = order[j]
            => j < i

(* The two generators describe the same function: what WIT returns is what *)
(* the C function can hand back, in the same order, and a parameter that   *)
(* is no input there is one that C can hand back through.  Two kinds of    *)
(* parameters are excluded because the C header has one star too few for   *)
(* them: interfaces that are inout, and out parameters of the framework's  *)
(* interfaces under their ncom_ names.                                     *)
SignaturesAgree ==
  phase = "gen_wit" =>
    \A it \in Range(ast.ifaces) :
      \A k \in 1 .. Len(it.methods) :
        LET m == it.methods[k]
            ps == Range(m.params)
        IN (\A p \in ps :
              /\ ~(p.dir = "inout" /\ IsInterface(ast, p.type))
              /\ ~(p.dir # "in" /\ p.type \in FrameworkAliases))
           => /\ COutputs(ast, m) = WitOutputs(m)
              /\ \A p \in ps \ Range(WitInputs(m)) : CReturnsThrough(ast, p)

(* nidl_parser.y calls the arena an "arena allocator for stable pointers". *)
(* The source text and the tree of a file that is being parsed are where   *)
(* they were when it was read.                                             *)
PointersStable ==
  \A i \in 1 .. Len(frames) : outcome = "running" => frames[i].base = base

FrameworkNames == Primitives \union FrameworkInterfaces \union FrameworkAliases

(* The k-th import is the first one that name arrives by, the file itself  *)
(* does not declare it, and memory sufficed for the name and its module's. *)
ComesFirstBy(k, name) ==
  LET imports == disk[Root].imports IN
  /\ name \notin NamesIn({Root} \union UNION {Closure(imports[j].to) : j \in 1 .. k - 1})
  /\ \A it \in Range(ast.ifaces) : it.text = name => it.name # NULL /\ it.source # NULL

(* The header of a file refers to an interface that is declared by a file  *)
(* imported directly by the name that the header of that file gives it, as *)
(* a type and as the base of a vtable, if no earlier import leads to the   *)
(* name: what arrives again by another way, directly or not, does not      *)
(* change it.  (SourceModuleIsOrigin is about the others.)                 *)
DirectImportsNamed ==
  phase = "emit_c" =>
    \A k \in 1 .. Len(disk[Root].imports) :
      LET f == disk[Root].imports[k].to IN
      \A name \in NamesIn({f}) \ FrameworkNames :
        ComesFirstBy(k, name) =>
          /\ MapType(ast, name) = [module |-> disk[f].module, name |-> name]
          /\ \A it \in Range(ast.ifaces) :
               it.base = name => VtblBaseType(ast, it) = [module |-> disk[f].module, name |-> name]

(* nidl_ast.h: source_module is the "module name where this interface was  *)
(* originally defined".  The header refers to an imported interface by the *)
(* name that the header of its own file gives it.                          *)
SourceModuleIsOrigin ==
  phase = "emit_c" =>
    \A it \in Range(ast.ifaces) :
      /\ it.name # NULL /\ it.imported /\ it.source # NULL
      /\ ast.ifaces[FindInterface(ast, it.name)] = it
      => MapType(ast, it.name).module = disk[it.from].module

=============================================================================

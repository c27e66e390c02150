# A verification project for nano_com

nano_com is a small component object model in C11: reference-counted objects
behind vtables, plugins that create them, a loader for the plugins, an
interface definition language with a compiler (`nidlgen`), and C++ wrappers.
The modules here model its parts in TLA+, TLC checks them on small instances,
and TLAPS proves most of their safety properties for every instance.

Check a run with `tlc -config <cfg> <module>` (the table under *Runs*), the
proofs of a part with `tlapm <module>.tla` for the modules named `*Proofs`.

## Inventory

| part | state it keeps | operations | what makes it correct |
|---|---|---|---|
| reference counting (`atomic.h`, used by every object) | a 32-bit atomic counter in each object | add_ref, release, query_interface, from any thread | the count is the number of references; the last release, and no other, frees; `free` races with nothing |
| core objects (`src/ncom/core_impl.c`) | a string or an error in two heap blocks | create, c_str, length, get_code, get_message_string, get_message_buf | no failure leaks a block; a message never overruns a buffer; a caller told a size can use it |
| plugin loader (`src/ncom/plugin_loader.c`) | a handle per load; the dynamic linker's count per library | load, unload | mappings and hooks pair up; no code is unmapped under a caller |
| plugin interface (`plugin.h`, `base.h`) | none | the vtable and API table contracts | followed by the parts that implement them |
| sample plugin (`samples/sample_plugin.c`) | components with five embedded interfaces, factories | create_instance, query_interface, add_ref, release, create_sample_component | pointer adjustment, one counter behind five interfaces, the COM identity rule |
| host (`samples/host_app.c`) | nine interface variables, error and string objects, a buffer, a handle | main | nothing used after it is given back or unmapped; nothing left at exit |
| C++ smart pointer (`ncom_ptr.hpp`) | an owned interface pointer | copy, move, attach, detach, put, as | one reference per pointer, under aliasing and inside objects too |
| C++ error and result (`ncom_error.hpp`, `ncom_result.hpp`) | a status beside a smart pointer | construct, copy | those of the smart pointer |
| nidl arena | one growing block | alloc, calloc, strdup | blocks aligned, disjoint and where they were |
| nidl lexer and parser, LALR grammar | the current token, an error flag | parse any text | accepts the language, ends on every text |
| nidl imports (in the parser) | syntax trees, the stack of paths being parsed | resolve, read, parse, merge | imports end; every declaration once, from where it is |
| nidl generators (C, WIT) | none | print headers | bases before heirs, names that exist, one signature in both |
| nidlgen, uuid_tool | none | command lines | - |

How they interact: a host calls the loader, the loader maps a library and calls
its entry point and hooks; the host creates objects through the plugin's table
and from then on calls objects through their vtables only. ncom is a static
library, so host and plugin each have their own copy of it: an error object that
a plugin creates carries the plugin's code. The compiler runs at build time and
shares nothing with the run-time parts but the vtable layout.

What is hard in this code: lifetime calls from several threads on weakly ordered
atomics; loads and unloads of one library that overlap; the failure of any one
of a sequence of allocations or calls; pointer adjustment that depends on which
interface a call came through; objects whose code can be unmapped; destructors
that run in the middle of a pointer assignment; files that import one another by
several paths; a parser that goes on after errors; memory that runs out, or
moves, under a tree of pointers. Nothing is
persisted and there are no messages, so there is no crash recovery or delivery
to model. `PROJECT.json` lists the hazards at their lines.

## Modules

| module | models | composes |
|---|---|---|
| `Lifetime` | abstract: what clients may rely on about an object's life | |
| `RefCount` | one object of `core_impl.c` shared by threads | implements `Lifetime` |
| `RefCountProofs` | theorems about `RefCount` | `RefCount`, `Lifetime` |
| `ErrorMessage` | `error_get_message_buf` as a function | |
| `CoreImpl` | creation, release and messages of strings and errors | `ErrorMessage` |
| `CoreImplProofs` | theorems about `CoreImpl` | `CoreImpl` |
| `PluginLoader` | load and unload | |
| `PluginLoaderProofs` | theorems about `PluginLoader` | `PluginLoader` |
| `SamplePlugin` | the plugin's classes and their clients | |
| `SamplePluginProofs` | theorems about `SamplePlugin` | `SamplePlugin` |
| `HostApp` | main | `SamplePlugin`, `ErrorMessage` |
| `HostAppProofs` | theorems about `HostApp` | `HostApp`, `SamplePluginProofs` |
| `NcomPtr` | the smart pointer and the objects it counts | |
| `NcomPtrProofs` | theorems about `NcomPtr` | `NcomPtr` |
| `Arena` | the compiler's memory | |
| `Codegen` | what both generators make of a tree, as functions | |
| `CodegenProofs` | theorems about `Codegen` | `Codegen` |
| `NidlImport` | one run of nidlgen: imports, memory, generators | `Arena`, `Codegen` |
| `NidlImportProofs` | theorems about `Arena` and `NidlImport` | `NidlImport`, `CodegenProofs` |
| `NidlParser` | the parser on any tokens, beside the grammar | |
| `MC*` | instances for TLC | the module of that name (`MCNidl`: `NidlImport`) |

Definitions marked `Fault:` are plausible bugs in the code below them. No
specification uses them; each replaces the definition it stands before when one
checks that the properties can tell the two apart.

### Lifetime and RefCount

`Lifetime` has a phase (unborn, alive, dying, dead) and the set of owned
references. A reference can only be acquired from a reference, and the object is
destroyed once, after the last reference is gone.

`RefCount` is one string object: two blocks (`obj`, `data`), the counter `rc`
modulo `Modulus`, and reference tokens with owners. A token stands for "who
obtains an interface owns a reference" (doc/llm.md 2.4): a thread calls the
object only while it owns a token and returns each token once. That is the
contract that clients keep; everything else is what the code does with it.
`Release` is the atomic decrement, after which the thread is committed to
`FreeData` and `FreeObj` or to nothing, and other threads run in between.
`HandOff` moves a token to another thread, which a pointer can only do through
some synchronisation of the client's.

Memory order. `knows[t]` is the set of threads all of whose accesses to the
object happen before thread t's next step. An access, and a relaxed increment,
makes the accessing thread unknown to all others again. An acquire-release
decrement joins what the counter carries (`rcKnows`) with what the thread
knows, and leaves the result in both. A relaxed read-modify-write leaves
`rcKnows` alone except for its own access, because it continues the release
sequence. So `FreeAfterAccesses` is about the C11 order and not about the order
TLC happens to interleave: with relaxed decrements it fails while every
interleaving property still holds. Accesses are classed by thread and not one by
one; an access makes all of the thread's earlier ones unknown as well, which
errs on the side of reporting a race.

The properties: `CountIsOwned`, `OwnedIsLive`, `OneDestroyer`,
`FreeAfterAccesses`, the liveness property `LastReleaseDestroys`, and `ImplementsLifetime`, the refinement. The mapping
`Phase` is "dying" from the decrement that reached 0 until the last free.

### CoreImpl and ErrorMessage

A creation is a sequence of steps (`AllocObject`, `AllocText`, `Commit` or
`CleanupCreate`), each allocation of which may fail. `ncom_create_string` and
`ncom_create_error_info` have the same control flow and differ in `kind`;
`GetMessageString` is a creation on behalf of an error object. Text is its
length: what the properties are about is sizes. `Ask`, `SizeCall`, `GrowBuffer`
and `CopyCall` are a client that follows the sizing protocol, possibly with the
buffer of an earlier message. One thread, since threads are `RefCount`'s
subject. Calls with NULL arguments return before they change anything and are
left out; a string too long for `size_t` cannot exist.

### PluginLoader

The files of the model have kinds that decide which branch of load they take.
`maps` is dlopen's count per library. `running` counts init calls less shutdown
calls of each image. A load is the steps alloc, dlopen, resolve, init, commit; a
failure goes to shutdown, dlclose, free, which are also the steps of an unload,
as in the code, where the failure path calls `ncom_plugin_unload`. Every thread
may call either at any time, except that a handle is unloaded by one caller once.
dlopen and dlclose are atomic, which the linker guarantees with its lock.

`CodeStaysMapped` is about code only: the table of an open handle, and the entry
point and hooks that a call is about to run, are mapped. The plugin's own state is
another matter. Hooks pair up per handle (`HooksMatchHandles`) while there is one
image, so `running` may be positive after a shutdown hook has run on the image
that another handle uses; that is the violation of `ShutdownBeforeUnload`.

### SamplePlugin

A pointer is a block and an offset in units of one embedded interface. `ViewAt`
says which vtable is at an offset, `Member` which member the functions of that
vtable subtract, and `Impl` the resulting address of the object. The code's
correctness is that the three agree for all five interfaces, and the model can
express that they do not: an add_ref on a wrong address leaves the counter
alone. Clients hold pointers in `Slots`. Creation makes the object with one
reference, runs the query and releases that reference in one step, since nobody
else can see the object before: `QueriedCount` is the count between the two, and
the release destroys the object where the query has failed.

### HostApp

`Main` is main's code as a sequence of lines, `pc` the next one. Each line that
can fail has its failing branch and goes to the cleanup section, the sequence of
releases in `ReleaseOrder`, the unload and the report. The objects behind the
interface variables are `SamplePlugin`'s; `err`, `errStr` and `msgStr` record
which side's copy of ncom an error or string object comes from, since that
decides whether its code is still mapped. Each method that returns a status
may fail (`MethodLine`), whatever this plugin's return. A line that would call
through a NULL
pointer is not enabled: TLC would report a deadlock. The model follows main in
that `buf.cap` is never set, so that the call that should copy the message is a
second sizing call and the message printed is empty.

### NcomPtr

Objects have one smart pointer as a member, as a list node or a component that
holds another has. `val` is `ptr_` of every variable and member, `raw` the
references that C code owns (what `create_instance` returned or `detach` gave
away). An operation is the list of its steps in `todo`: read, set, release, add a
reference. A release that takes the count to 0 puts the object's destructor, which
releases its member, and the end of its memory in front of the remaining steps.
So `a = b` where `b` is inside the object that `a` releases runs in the model as
it does in C++. A step on memory that is gone sets `ub`, and nothing is said of
what follows. `put()` and a call that fills it is a release and an `attach`.

`CountIsPointers` and `OperationResult` are about the moment an operation
returns. `OnlyInnerSourceDangles` says exactly when the wrapper is not safe:
an assignment (or `as`) whose source is a member of an object that only its
target keeps alive, as in `head = head->next` on a list. Copy-and-swap would read
the source before it releases; this code releases first.

### Arena and NidlImport

`Arena` is `nidl_arena.c` as far as sizes and places go: `Aligned` computes with
the 32-bit mask (`MaskModulus`), `GrownCaps` doubles, realloc may fail and, if
`MayMove`, moves the block (`base` changes). `BlocksDisjoint` is about requests
below the mask's range. A larger one is cut down: `read_all` (`main.c`) and
`read_file_src` ask for the size of a file, and with a file of 4 GiB the block is
shorter than the request. Nothing is claimed of such blocks.

`NidlImport` is one run of the compiler. `frames` is the C stack of
`nidl_parse_internal` calls and `stack` the array `ctx.stack`; that they agree is
a property (`StackTracksFrames`) and not a definition, since the pop does not
look whether there was a push. An allocation has a branch for NULL, which fails, is
taken for an absent value or crashes, as the code at that place does. The memory
of a call's node for its file and of its lexer is one step (`StartFile`): without
the lexer the first token crashes, without the node the first thing stored in it
does, so that a text that is wrong before that only fails. What a file contains
comes from `disk`. A declaration is one step and one request (`Declare`), of which
any set of the copies that nobody tests may be lost while there is memory for the
nodes: `Texts` are the name, the base and the texts of types. A type that could
not be copied at all leaves the parser at the wrong token, an error; a node that
could not be had crashes. Typedefs and coclasses, which imports do not merge,
uuids, and the names of methods and parameters are left out. A path is the text of a
directory with a number of detours, so that two spellings of one file differ, as
they do for `strcmp`. The file on the command line is given by its bare name
(`IsBare`), whose imports are copied only when they exist. The
generators run in main's order; the arrays they fill are one allocation each run.

`FewPathsEnd` is the exact statement of what cycle detection gives: if all the
spellings of paths that imports lead to fit on the stack of 32, parsing ends,
cycles or not; otherwise it may recurse until the C stack is gone (`MaxFrames`).
The paths are those of `ReachablePaths`, what `MaxStack` imports lead to; when
imports lead out of it (`ImportsStayIn` fails), it has more than `MaxStack` paths
and the property promises nothing. The C stack is taken to have room for more
calls than ctx.stack has entries (`MaxStack < MaxFrames`).

`ImportClosure` compares the tree that reaches the generators with the disk: the
names in it are those of `Closure(Root)`, the least set of files with the root
and whatever its files import; each imported interface is there once, however
many ways lead to it; and the file's own interfaces are in the order of the
source, with their methods and parameters. If memory runs out, names, bases and
types may be missing, and only they: each node carries beside what the program
keeps the file and the name of its declaration (`from`, `text`), and its own name
is that or NULL. A missing name or base is not noticed: the generators pass over an
interface without a name, and one that lost its base gets a vtable that begins with
IUnknown's. A nameless declaration is nobody's duplicate and is merged as often as
it arrives.

`DirectImportsNamed` and `SourceModuleIsOrigin` are about the module that a merge
marks a declaration with. Where the importing file names an interface that a
directly imported file declares, it must use the name which that file's header
gives it, as a type (`map_type`) and as the start of a vtable (`vtbl_base_type`):
this holds if that import is the first to bring the name (`ComesFirstBy`), whatever
other imports bring again later, from wherever. For what arrives through another
file it does not hold, which is the run nidl_origin.

### Codegen

Functions of the tree: the sort by inheritance depth with its cycle guard, the
names that `map_type` and `vtbl_base_type` give, the stars of a C parameter, and
WIT's inputs and results. A linked list is a sequence; a loop that keeps some of
its elements is `Those`, and a loop that the code runs to a result is a function
of how far it has come.

`BasesFirst` does not only ask for bases before heirs: the header's interfaces are the
file's own, each as often as it is declared (the sort moves and loses nothing),
interfaces of the same depth keep the order of the source, and an interface
comes after the base that `find_interface` finds for it whenever following the
bases ends within the guard. Nothing can be promised of an interface whose
bases go round in a cycle. `SignaturesAgree` compares the two generators. It
excludes two kinds of parameters for which the C generator prints one star too
few: an interface that is `inout`, and a framework interface by its `ncom_` name
that is not `in`.

### NidlParser

`pc` and `typeOf` are the place in the recursive descent, and beside them
`strict` and `loose` are the places that a reader of the grammar in
`nidl_parser.y` may be at after the same tokens, without and with the extensions
of the hand-written parser (imports, unknown attributes, the inside of a coclass,
what follows the module). The grammar nests only in lists, so both are finite
and the text needs no bound. `AcceptedIsGrammatical` is soundness against `loose`;
`RejectedIsUngrammatical` completeness against `strict`, but for one difference
between the two parsers: a method's return type may not start with `const`,
`unsigned`, `long` or another keyword in the hand-written one.

## Runs

| run | cfg (module) | instance | shows |
|---|---|---|---|
| refcount | `MCRefCount.cfg` (`MCRefCount`) | 3 threads, 3 references, modulus 4; 36292 states | all properties of `RefCount`, liveness and refinement |
| core_impl | `MCCoreImpl.cfg` (`MCCoreImpl`) | 3 objects, lengths 0 and 1, 2 references each; 44226 states | no leak, no overrun, the sizing protocol ends |
| plugin_loader | `MCPluginLoader.cfg` (`MCPluginLoader`) | 2 threads, 2 files of every kind, 3 handles; 57574 states up to symmetry | handles, mappings and hooks pair up, code stays mapped |
| plugin_loader_hooks | `PluginLoaderHooks.cfg` (`MCPluginLoader`) | 1 thread, 1 file, 2 handles | violation: shutdown of an image in use |
| sample_plugin | `MCSamplePlugin.cfg` (`MCSamplePlugin`) | 2 blocks, 3 pointers; 321 states up to symmetry | pointer adjustment, counting, identity |
| host_app | `MCHostApp.cfg` (`HostApp`) | main's nine variables, 3 blocks; 302 states | nothing used too late or left behind |
| host_app_error | `HostAppErrorObject.cfg` (`HostApp`) | same | violation: error object used after unload |
| ncom_ptr | `MCNcomPtr.cfg` (`MCNcomPtr`) | 3 objects, 2 variables, 1 raw reference; 110419 states up to symmetry | counts, results, and where memory dangles |
| nidlgen | `MCNidl.cfg` (`MCNidl`) | 4 files, 940 contents, memory of 256 to 2047 bytes; 224668 states | imports, memory and generators |
| nidl_parser | `MCNidlParser.cfg` (`NidlParser`) | all token sequences; 6709 states | the parser against the grammar, and that it ends |
| arena_move | `ArenaMove.cfg` (`MCNidl`) | as nidlgen, the block may move | violation: pointers into the old block |
| nidl_origin | `NidlOrigin.cfg` (`MCNidl`) | as nidlgen | violation: not the module of origin |

Why the bounds are enough. `RefCount`: a race needs two threads that release and
one whose access must have been published through a third; more references add
only more of the same decrements, and the proofs hold for any number. The modulus
is the least that `NoWrapAssumption` allows, so a count that is one too high
wraps. `CoreImpl`: two errors with messages that differ by one byte and a string
made of one of them; length 0 is the empty message. `PluginLoader`: one thread
can hold two handles of a library while the other is anywhere in a load or an
unload of it. `SamplePlugin`: three pointers, two of them into one object.
`HostApp` is main itself and has no bound. `NcomPtr`: three objects are a list
with a middle and a cycle of three, two variables the two operands of every
operation, one raw reference (`MaxRaw`) what a call passes. `NidlImport`: chains
of four files against a stack of `MaxStack` = 3 and `MaxFrames` = 5 calls, so that
chains and cycles get past the stack and cycles past the calls; a guard
`GuardMax` = 4 that cyclic bases exceed and other chains, of at most four, do not;
`InitialCap` = 256 and `SizeBits` = 11, a `SizeMax` of 2047, so that some runs grow the block and some
come to the end of it, and `MaskModulus` = 128, above every request that is made
here;
`MaxDirs` = 2 against choices of one to three. The contents
are all import graphs of a short list, with files missing, unreadable or wrong;
all bases of three interfaces and of one that is imported; all signatures of up
to two parameters, returning nothing, a status by either of its names, or a struct.
`NidlParser` has no bound. Bounds in guards are `Refs` (tokens),
`MaxRefs` (references to one object), `Objects`, `Handles`, `Blocks` and `Slots`.

Deadlock is checked except in `refcount`, where the behaviour ends once the
object has been freed. Programs that end (`HostApp`, `NidlImport`, `NidlParser`)
stutter explicitly in their last states, and only there.

Fairness. `RefCount` assumes weak fairness of a thread that is inside release:
the operating system schedules a runnable thread, and nothing in release waits.
`CoreImpl` assumes it of a call in progress. Nothing is assumed of clients: they
may keep references forever and need not call at all. `NidlParser` assumes weak
fairness of the parser, which waits for nothing, and strong fairness of reading
the end of the text: a text is finite and ends with a NUL, so a parser that goes
on taking tokens gets to it. After it the lexer returns the end for ever, which is
where the loops that skip have to stop. The other specifications
state no fairness and no liveness.

### What the violations show

Four places where the code does something other than what a comment or the
documentation says:

- the shutdown hook is "called right before the plugin is unloaded" (`plugin.h`),
  but it runs on every unload of a handle, also while another handle keeps the
  library loaded and uses it;
- the documented host workflow releases everything and then unloads; `host_app.c`
  unloads and then uses and releases the error object, whose functions are in
  the plugin;
- the "arena allocator for stable pointers" (`nidl_parser.y`) reallocates its one
  block, and with more than 64 KiB of text and trees the parser may hold pointers
  into freed memory;
- `source_module`, the "module name where this interface was originally defined"
  (`nidl_ast.h`), is the module of the last file on the way when an import is
  transitive, and the header then names a type that no header declares.

Four more were met that no run states: `out_err` "receives an AddRef'ed error info
object on failure" (`plugin_loader.h`), but not when the library opens and is then
rejected (`Resolve`); the mask of the arena, 32 bits wide, cuts requests of 4 GiB
or more down, see `Arena`; an imported struct, "skip codegen" (`nidl_ast.h`), is
defined again in every header that includes its own; and `host_app.c` never sets
the capacity of its buffer, see `HostApp`.

## Proofs

### Reference counting

`RefCountProofs` proves for any set of threads, any finite set of references and
any modulus larger than their number:

| theorem | states |
|---|---|
| `TypeCorrect` | `Spec => []TypeOK` |
| `CountCorrect` | `Spec => []CountIsOwned` |
| `NoUseAfterFree` | `Spec => []OwnedIsLive` |
| `FreedOnce` | `Spec => []OneDestroyer` |
| `NoRaceWithFree` | `Spec => []FreeAfterAccesses` |
| `RefinesLifetime` | `Spec => ImplementsLifetime` |

Assumptions: `NoThreadAssumption` (the mark for an unused token is no thread) and
`NoWrapAssumption` (the counter is wide enough).

The argument. None of the properties is inductive alone. `IInv` adds that a live
object has owners or a destroyer and never both, that a thread is inside release
only while the object is live, and `Published`: each thread's accesses are known
to the counter, or to someone who owns a reference or is destroying the object.
An owner that has just read the object is its own witness; when it gives up its
last reference its decrement publishes to the counter; when the counter reaches 0
there are no owners left, so all accesses are known to the counter and hence to
the destroyer, which has acquired them. This is where acquire *and* release are
both needed. The cardinality of the owned set is carried by two lemmas, for a
token taken and a token given back. The refinement follows from `IInv` step by
step.

### Plugin loader

`PluginLoaderProofs` proves for any threads and files and any finite set of
handle blocks:

| theorem | states |
|---|---|
| `LoaderTypeCorrect` | `Spec => []TypeOK` |
| `HandlesAccounted` | `Spec => []NoHandleLost` |
| `MapsCounted` | `Spec => []MapsMatchHandles` |
| `HooksCounted` | `Spec => []HooksMatchHandles` |
| `CodeMapped` | `Spec => []CodeStaysMapped` |

Assumptions: `NoneAssumption` (NULL is no path, no block and no contents of a
block) and `HandlesAssumption` (finitely many blocks; only their counting needs
it).

The argument. `LoaderInv` joins the properties with `HandleStates`, which says
how far each call has built its handle: the library is set from resolve on, the
api exactly from the init hook on, and neither is touched by other threads,
because a handle in a call is that call's alone (`CallHandle`). So dlclose
undoes a dlopen that happened and the shutdown hook an init that happened,
without load or unload remembering which step failed: the code tests the fields
of the handle and nothing else. Each counter is the size of a set of handles;
an action leaves that set alone, adds the call's handle or takes it out, which
are the lemmas `MapsSame`, `MapsGain`, `MapsLose` and those for the hooks. The
type's bounds on the counters follow from what they count (`CountsBounded`), so
the steps are proved from `Core`, which leaves them out. An open handle, and one
whose call is about to enter the library, is among those that its mapping is
counted for, so that count is positive. Of the hooks' count nothing like it is
claimed: what it counts says nothing about the one image.

### Core objects

`CoreImplProofs` proves for any objects, any lengths of messages and any bound on
the references to one object:

| theorem | states |
|---|---|
| `CoreTypeCorrect` | `Spec => []TypeOK` |
| `HeapCorrect` | `Spec => []HeapIsObjects` |
| `ReferencesCounted` | `Spec => []RefsCounted` |
| `CopiesFit` | `Spec => []CopyFits` |
| `ReportedSizeSuffices` | `Spec => []GrownBufferSuffices` |

Assumptions: `LengthsAssumption` (lengths are natural numbers, an object can be
referenced) and `NullAssumption` (NULL is nothing else).

The argument. `HeapIsObjects` speaks of the moments between calls; the inductive
invariant `CoreInv` says of every moment whose each block is: `HeapAccounted`, a
block belongs to a referenced object or to the creation in progress, as far as
that has come, and `CallOwnsBlock`, nobody has a reference to what is being
made. So both failures of calloc free what the creation owns and nothing else.
`AskKnowsNeed` carries the sizing protocol over its steps: what the client was
told stays what the message needs until the copying call, because the client
keeps its reference meanwhile and messages do not change. `GrownBufferSuffices`
then follows from what `get_message_buf` does with a buffer of that size.

### Sample plugin

`SamplePluginProofs` proves for any blocks and any finite set of pointer
variables:

| theorem | states |
|---|---|
| `PluginTypeCorrect` | `PluginSpec => []PluginTypeOK` |
| `ObjectsCounted` | `PluginSpec => []CountIsPointers` |
| `InterfacesTyped` | `PluginSpec => []PointersTyped` |
| `IdentityHolds` | `PluginSpec => []IdentityRule` |
| `QueriesUniform` | `PluginSpec => []QueryUniform` |

Assumptions: `SlotsAssumption` (finitely many pointer variables; the counters are
compared with their number) and `NullAssumption`.

The argument. The layout has five places, and lemmas work out for each that the
view found there, the member its functions subtract and the object's address
agree. So a call through a pointer that has the type it was got for
(`PointersTyped`) reaches the object's own counter, and `CountIsPointers` is
kept by one pointer more or less at a time. The two are inductive together
(`PluginInv`); identity and the uniformity of queries hold in every such state,
because a query depends on the object's address alone.

### Host

`HostAppProofs` proves for any blocks that the plugin's objects may be in:

| theorem | states |
|---|---|
| `ObjectsMapped` | `HostSpec => []PluginObjectsMapped` |
| `EverythingGivenBack` | `HostSpec => []NothingLeftAtExit` |

Assumption: `MainAssumption`, the pointer variables are main's, and those of
`SamplePlugin`. The invariant `HostInv` is what holds before each line of main,
and the plugin's own invariant `PluginInv`, whose lemmas are used here again for
what a line does to the objects: the library is mapped wherever main uses the
plugin, each line of cleanup has emptied its variable, the pointers are gone when
the library is. With no pointers left all counts are 0, so the objects are freed.
That main never calls through NULL is a deadlock check of the run and not proved.

### Smart pointer

`NcomPtrProofs` proves for any finite sets of objects and variables, whichever
way the objects point to one another:

| theorem | states |
|---|---|
| `PtrTypeCorrect` | `PtrSpec => []PtrTypeOK` |
| `PointersCounted` | `PtrSpec => []CountIsPointers` |
| `ResultsCorrect` | `PtrSpec => []OperationResult` |
| `OtherUsesSound` | `PtrSpec => []OnlyInnerSourceDangles` |

Assumption: `PtrAssumption` (NULL, objects and variables are different things,
the two sets are finite, `MaxRaw` is a natural number).

The argument. In the middle of an operation no count is the number of pointers:
a pointer has been released and not yet set to null, or set and not yet counted,
and destructors run in between. `PtrInv` says what the steps still to do owe:
`CountsAddUp` counts the pointers that are not `Uncounted` by a step in `todo`,
the references of C code, and the one the operation holds (`Owed`);
`LiveIsCounted` says that an object is there while it is counted or its
destruction is in `todo`. `StepsInOrder` describes `todo`: a chain of releases,
frees and nulls of any length, each the destruction that the one after it waits
for, and then the rest of the operation's body; it is what makes the first step
alone enough to know (`NextStepReady`). When the operation returns, `todo` is empty,
nothing is owed and `CountIsPointers` is `CountsAddUp`.

That an operation's own pointer survives the destructions it sets off is
`Anchored`: every set of objects that contains the pointer's object and all the
dying ones is referenced from outside, not only by the pointer that is
overwritten. A destruction that begins adds one object to the dying ones, and a set that lost its
last such reference by this would have been without one before. For the source
of an assignment the same holds if it can be reached without the pointer that is
overwritten, which is the exception in `OnlyInnerSourceDangles`. `ResultSoFar` carries
the values of the pointers from the call to the return. The bound of the counters
in `PtrTypeOK` needs two more facts: C code has at most `MaxRaw` references
(`RawBound`), and the reference an operation holds was C code's or is for a
pointer that is empty (`OwedBound`).

### Code generators

`CodegenProofs` proves for any tree, with lists of any length:

| theorem | states |
|---|---|
| `OrderOfBases` | what `BasesFirst` says, of the order that `EmitOrder` gives any tree |
| `SignaturesOf` | what `SignaturesAgree` says, of any method with the right stars (`RightStars`) |

Assumption: `CodegenAssumption` (the guard is a natural number).

The argument. What the loops compute is a function defined by recursion on how far
they have come. `Recursion` shows that there is such a function: those that
are right up to n form a set, and the least n that has none (`LeastOf`) has one
after all. Statements about every step of a loop are proved the same way, from
the least step at which they would fail (`UpTo`), so that they do not need an
induction over an operator. `DepthStable`: if following the bases
ends within the guard, one call less allowed gives the same depth, and therefore
a base is exactly one less deep than its heir (`BaseLessDeep`). `SortLoop` is the
invariant of the insertion sort, `Arranged`: the sorted part is a permutation of
the first interfaces, in ascending depth, and where depths are equal in
their former order. `InsertStep` keeps it, since the key goes directly after the last
element that is not deeper. For signatures, `ReturnsThrough` goes through the kinds of
parameters: C can hand back through exactly those that are out or inout, and so
both generators select the same parameters from the same list.

### Compiler

`NidlImportProofs` proves for any files with any contents, any include
directories and any sizes of the arena, the stack of paths and the C stack:

| theorem | states |
|---|---|
| `NidlTypeCorrect` | `NidlSpec => []NidlTypeOK` |
| `BlocksApart` | `NidlSpec => []BlocksDisjoint` |
| `CycleStackCorrect` | `NidlSpec => []StackTracksFrames` |
| `ImportsEnd` | `NidlSpec => []FewPathsEnd` |
| `ImportsComplete` | `NidlSpec => []ImportClosure` |
| `BasesComeFirst` | `NidlSpec => []BasesFirst` |
| `SignaturesMatch` | `NidlSpec => []SignaturesAgree` |
| `DirectNamesKept` | `NidlSpec => []DirectImportsNamed` |

Assumptions: `ArenaAssumption` (the mask's range is a multiple of 8 and within
`SizeMax`, as `~7u` is for 32 and 64 bits; that `SizeMax`, a power of two less
one, is a natural number is part of it since the prover does not know powers)
`NidlAssumption` (the file on the command line exists as a name, contents are
what a text can be to the parser: `IsFile`, lists of declarations whose parameters have one of
the three directions that parse_param gives; directories are lists;
`MaxStack < MaxFrames`), and that of `Codegen`.

The argument. `ArenaInv`: each block, taken as long as its rounded size, ends at
or before `len`, and blocks are apart in that sense; a new block begins at `len`.
For sizes within the mask's range the rounded size is not less than the size,
which is where `BlocksDisjoint` gets its restriction. `StackInv`: as long as no
more files were nested than there is room for, each call pushed its path, so the
pop that every return does takes that path off again, whether the call failed or
not; and a call is only made for a path that the cycle check did not find there.
`ImportsEnd` rests on `Inside(P)` for every set P of at most `MaxStack` paths that
imports do not lead out of: the search of `resolve_import_path`, which goes on to
the next candidate when one does not exist (`Searching`), finds a path in P; the
calls in progress have different paths in P, and the one about to be made has
another, so there are no more calls than P has paths (`OneMoreFits`). The
invariant behind it is `EndInv` (theorem `SearchInvariant`).

The trees. `Tree(t, g, k, own)` describes the tree of a call that has
merged the first k imports of file g and read `own` of its interfaces: first its
own declarations, the latest in front, each what the parser makes of it when some
set of copies is lost (`IsOwn`), and behind them a node for each name that those
imports lead to, one only of each that has a name. `Sourced` says where these
claim to come from: the module of the first import that the name arrives by,
provided that memory sufficed for that module's name and for the name of every
node that it might have been a duplicate of. `Whole` is the tree of a call
that is through. `CallsInv` says that each call is `Good`: as far in its file as
its tree says, and waiting for or merging the file that its import names, which is
what ties the return of the inner call to the outer one's place. `TreeInv` is
what main then has (theorem `TreeInvariant`). A merge skips names that are there already,
so `MergeFacts`, the invariant of its loop, gives the union of names, each imported
one once. An import that fails, for a cycle, a missing file or no memory for its
text, fails the whole call, so a tree that is returned has merged all the imports of
its file; and `ClosureStep` says that the files a file leads to are itself and what each of
its imports leads to, which is what the merges have put together. From a whole
tree the four properties follow, those of order and signatures by `CodegenProofs`;
for `DirectImportsNamed`, the node that `find_interface` finds is an imported one
whose name first arrives by the import in question, so `Sourced` gives its module.
TLC found `CallsInv` and `TreeInv` to hold on the instance of the run nidlgen
before they were proved.

### Only model-checked

- Liveness: `LastReleaseDestroys`, `CallsReturn` and `ParsingEnds` need fairness,
  which is out of the prover's reach. `ImportsEnd` bounds the depth of recursion
  and is a safety property.
- `AcceptedIsGrammatical` and `RejectedIsUngrammatical`: `NidlParser` has no
  parameters and finitely many states, so that the run is exhaustive already.
- What a run finds violated is of course not proved.

## Not modelled

The Windows variants (same control flow, stronger atomics). Argument checks that
return before any change of state. The contents of strings and messages, except
their lengths. The counter beyond its width: with 2^32 references it wraps, which
`NoWrapAssumption` excludes. The races of a plugin's own hooks when one library is
loaded by two threads: the loader promises no exclusion and the hooks here are
empty. `ncom::error` and
`ncom::result` are values around a smart pointer and add no state to it; a
finished model of them would be `NcomPtr`'s copy and move again. In the compiler:
how characters become tokens, the text that the generators print around names and
signatures (guards, includes, ids, traits, helpers, comments), uuid parsing, and the glue
around the generated LALR parser, which does not compile at this commit
(`nidl_parse_lemon.c` declares `ctx` twice). `uuid_tool` reads random bytes and prints them.
The tests are evidence of use and no part of the system.

## Plan

1. done: `Lifetime`, `RefCount`, `RefCountProofs`: the behaviour every other part
   rests on, checked and proved;
2. done: `CoreImpl`, `PluginLoader`, `SamplePlugin`, `HostApp`, and the proofs of
   `PluginLoader`;
3. done: `NcomPtr`, `Arena`, `NidlImport`, `Codegen`, `NidlParser`, checked;
4. done: proofs of the safety properties of `CoreImpl`, `SamplePlugin`, `HostApp`,
   `NcomPtr`, `Arena` and `NidlImport`, its trees and what is generated from them
   included;
5. next: an abstract specification of what an assignment of smart pointers
   promises, implemented by `NcomPtr`.

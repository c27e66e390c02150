-------------------------- MODULE NidlImportProofs --------------------------
(***************************************************************************)
(* What is proved of one run of nidlgen, for any files, any contents and   *)
(* any sizes of memory, paths and stacks: the arena's blocks are apart,    *)
(* the array of cycle detection holds the files being parsed, imports end, *)
(* the tree that comes out of them is complete, and the generated files    *)
(* agree with it and with each other.                                      *)
(***************************************************************************)
EXTENDS NidlImport, CodegenProofs

-----------------------------------------------------------------------------
(* The arena.  Blocks of any size are apart if a block is taken to be as   *)
(* long as its rounded size, which is what len advances by.                *)

End8(b) == b.at + Aligned(b.size)

ArenaInv ==
  /\ cap \in Nat /\ len \in Nat /\ base \in Nat
  /\ blocks \subseteq [at : Nat, size : Nat]
  /\ len <= cap /\ cap <= SizeMax /\ len % 8 = 0
  /\ \A b \in blocks : b.at % 8 = 0 /\ End8(b) <= len
  /\ \A b, c \in blocks : b # c => End8(b) <= c.at \/ End8(c) <= b.at

LEMMA Eights ==
  ASSUME NEW x \in Nat, NEW y \in Nat, NEW p \in Nat, x = 8 * p + y
  PROVE  (y - (x % 8)) % 8 = 0 /\ y >= x % 8
OBVIOUS

(* Rounding gives a multiple of 8, and one that is large enough wherever   *)
(* the mask has all the bits that it needs.                                *)
LEMMA AlignedSize ==
  ASSUME NEW n \in Nat
  PROVE  /\ Aligned(n) \in Nat /\ Aligned(n) % 8 = 0
         /\ n + 7 < MaskModulus => Aligned(n) >= n
<1> DEFINE x == n + 7
<1>1. PICK m : m \in Nat /\ MaskModulus = 8 * m
  <2>1. MaskModulus \in Nat /\ MaskModulus % 8 = 0
    BY ArenaAssumption
  <2>2. MaskModulus = 8 * (MaskModulus \div 8) /\ MaskModulus \div 8 \in Nat
    BY <2>1
  <2>3. QED
    BY <2>2
<1>2. PICK q : q \in Nat /\ x = MaskModulus * q + (x % MaskModulus)
  <2>1. MaskModulus \in Nat /\ MaskModulus > 0 /\ x \in Nat
    BY ArenaAssumption
  <2>2. x = MaskModulus * (x \div MaskModulus) + (x % MaskModulus) /\ x \div MaskModulus \in Nat
    BY <2>1
  <2>3. QED
    BY <2>2
<1>3. PICK p : p \in Nat /\ p = m * q
  BY <1>1, <1>2
<1>4. x = 8 * p + (x % MaskModulus) /\ x % MaskModulus \in Nat
  BY <1>1, <1>2, <1>3, ArenaAssumption
<1>5. /\ ((x % MaskModulus) - (x % 8)) % 8 = 0
      /\ (x % MaskModulus) - (x % 8) \in Nat
  BY <1>3, <1>4, Eights
<1>6. x < MaskModulus => x % MaskModulus = x
  BY ArenaAssumption
<1>7. x < MaskModulus => (x % MaskModulus) - (x % 8) >= n
  BY <1>6
<1>8. QED
  BY <1>5, <1>7 DEF Aligned

LEMMA ArenaInitInv ==
  ASSUME ArenaInit
  PROVE  ArenaInv
BY ArenaAssumption DEF ArenaInit, ArenaInv

LEMMA AllocStep ==
  ASSUME ArenaInv, NEW n \in Nat, Alloc(n)
  PROVE  ArenaInv'
<1>1. PICK a : a = Aligned(n)
  OBVIOUS
<1>2. a \in Nat /\ a % 8 = 0
  BY <1>1, AlignedSize
<1>3. len' = len + a /\ blocks' = blocks \union {[at |-> len, size |-> n]}
  BY <1>1 DEF Alloc
<1>4. cap' \in Nat /\ base' \in Nat /\ len' <= cap' /\ cap' <= SizeMax
  <2>1. CASE Room(n)
    BY <1>1, <1>3, <2>1 DEF Alloc, Room, ArenaInv
  <2>2. CASE ~Room(n)
    <3>1. cap' \in (len + a) .. SizeMax
      BY <1>1, <2>2 DEF Alloc, GrownCaps
    <3>2. base' \in {base, base + 1}
      BY <2>2 DEF Alloc
    <3>3. QED
      BY <1>2, <1>3, <3>1, <3>2, ArenaAssumption DEF ArenaInv
  <2>3. QED
    BY <2>1, <2>2
<1>5. len' \in Nat /\ len' % 8 = 0 /\ len <= len'
  BY <1>2, <1>3 DEF ArenaInv
<1>6. PICK new : new = [at |-> len, size |-> n]
  OBVIOUS
<1>7. /\ new \in [at : Nat, size : Nat] /\ new.at = len /\ End8(new) = len'
  BY <1>1, <1>3, <1>6 DEF End8, ArenaInv
<1>8. blocks' \subseteq [at : Nat, size : Nat]
  BY <1>3, <1>6, <1>7 DEF ArenaInv
<1>9. \A b \in blocks' : b.at % 8 = 0 /\ End8(b) <= len'
  <2>1. ASSUME NEW b \in blocks
        PROVE  b.at % 8 = 0 /\ End8(b) <= len'
    <3>1. End8(b) \in Nat
      <4>1. b.at \in Nat /\ b.size \in Nat
        BY DEF ArenaInv
      <4>2. QED
        BY <4>1, AlignedSize DEF End8
    <3>2. b.at % 8 = 0 /\ End8(b) <= len /\ len \in Nat
      BY DEF ArenaInv
    <3>3. QED
      BY <1>5, <3>1, <3>2
  <2>2. new.at % 8 = 0 /\ End8(new) <= len'
    BY <1>5, <1>7 DEF ArenaInv
  <2>3. QED
    BY <1>3, <1>6, <2>1, <2>2
<1>10. \A b, c \in blocks' : b # c => End8(b) <= c.at \/ End8(c) <= b.at
  BY <1>3, <1>6, <1>7 DEF ArenaInv
<1>11. QED
  BY <1>4, <1>5, <1>8, <1>9, <1>10 DEF ArenaInv, End8, Aligned

LEMMA ArenaStutter ==
  ASSUME ArenaInv, UNCHANGED arenaVars
  PROVE  ArenaInv'
BY DEF ArenaInv, arenaVars

(* No step of the compiler changes the arena but through its functions.    *)
LEMMA ArenaSteps ==
  ASSUME [NidlNext]_allVars
  PROVE  UNCHANGED arenaVars \/ \E n \in Nat : Alloc(n)
<1> USE DEF Calloc, CallocNull, Strdup, StrdupNull, AllocNull, SourceSize, NodeSize, StringLen
<1>1. CASE CollectDirs \/ CheckCycle \/ CloseFile \/ ReturnNull
  BY <1>1 DEF CollectDirs, CheckCycle, CloseFile, ReturnNull
<1>2. CASE ReadRoot
  BY <1>2 DEF ReadRoot
<1>3. CASE StartFile \/ MergeImport
  BY <1>3 DEF StartFile, MergeImport, CrashIfNull
<1>4. CASE NextImport \/ TryCandidate
  BY <1>4 DEF NextImport, TryCandidate, CrashIfNull
<1>5. CASE EnterImport \/ Declare
  <2>1. CASE EnterImport
    BY <2>1 DEF EnterImport
  <2>2. CASE Declare
    <3>1. \/ \E lost : IF lost = {} THEN Alloc(DeclSize) ELSE Alloc(NodeSize)
          \/ AllocNull(DeclSize)
      BY <2>2 DEF Declare, CrashIfNull
    <3>2. QED
      BY <3>1 DEF DeclSize
  <2>3. QED
    BY <1>5, <2>1, <2>2
<1>6. CASE ParseModule
  BY <1>6 DEF ParseModule
<1>7. CASE WriteHeader \/ EmitHeader \/ WriteWit
  <2>1. CASE WriteHeader
    BY <2>1 DEF WriteHeader
  <2>2. CASE EmitHeader
    BY <2>2 DEF EmitHeader
  <2>3. CASE WriteWit
    BY <2>3 DEF WriteWit
  <2>4. QED
    BY <1>7, <2>1, <2>2, <2>3
<1>8. CASE Ended \/ UNCHANGED allVars
  BY <1>8 DEF Ended, allVars
<1>9. QED
  BY <1>1, <1>2, <1>3, <1>4, <1>5, <1>6, <1>7, <1>8 DEF NidlNext

(* The inductive invariant of the arena: the rounded blocks tile the part  *)
(* of the buffer that is in use.                                           *)
THEOREM ArenaInvariant == NidlSpec => []ArenaInv
<1>1. NidlInit => ArenaInv
  BY ArenaInitInv DEF NidlInit
<1>2. ArenaInv /\ [NidlNext]_allVars => ArenaInv'
  BY ArenaSteps, AllocStep, ArenaStutter
<1>3. QED
  BY <1>1, <1>2, PTL DEF NidlSpec

(* Whatever the compiler asks for and however often the buffer grows, all  *)
(* blocks below the range of the 32-bit mask are aligned, inside the used  *)
(* part of the buffer, and share no byte.                                  *)
THEOREM BlocksApart == NidlSpec => []BlocksDisjoint
<1>1. ASSUME ArenaInv
      PROVE  BlocksDisjoint
  <2>1. \A b \in blocks : b.at \in Nat /\ b.size \in Nat
    BY <1>1 DEF ArenaInv
  <2>2. \A b \in blocks :
          /\ End8(b) \in Nat
          /\ b.size + 7 < MaskModulus => b.at + b.size <= End8(b)
    BY <2>1, AlignedSize DEF End8
  <2>3. ASSUME NEW b \in blocks, b.size + 7 < MaskModulus
        PROVE  b.at % 8 = 0 /\ b.at + b.size <= len
    BY <1>1, <2>1, <2>2, <2>3 DEF ArenaInv
  <2>4. ASSUME NEW b \in blocks, NEW c \in blocks \ {b},
               b.size + 7 < MaskModulus, c.size + 7 < MaskModulus
        PROVE  b.at + b.size <= c.at \/ c.at + c.size <= b.at
    <3>1. End8(b) <= c.at \/ End8(c) <= b.at
      BY <1>1, <2>4 DEF ArenaInv
    <3>2. QED
      BY <2>1, <2>2, <2>4, <3>1
  <2>5. len <= cap /\ cap <= SizeMax
    BY <1>1 DEF ArenaInv
  <2>6. QED
    BY <2>3, <2>4, <2>5 DEF BlocksDisjoint
<1>2. QED
  BY <1>1, ArenaInvariant, PTL

-----------------------------------------------------------------------------
(* The calls of the parser and the array of cycle detection.               *)

FrameFields ==
  {"path", "pc", "file", "ast", "base", "imp", "try", "target", "child", "decl"}

IsFrame(f) == DOMAIN f = FrameFields /\ f = [x \in FrameFields |-> f[x]]

FramesInv ==
  /\ IsList(frames) /\ \A i \in 1 .. Len(frames) : IsFrame(frames[i])
  /\ IsList(stack) /\ Len(stack) <= MaxStack
  /\ deepest \in Nat /\ Len(frames) <= deepest /\ deepest <= MaxFrames
  /\ phase = "parse" => frames # <<>>

(* While the stack has had room for every file, it holds the paths of all  *)
(* the calls, each once, and a call that is about to be made is for a      *)
(* path that is not there.                                                 *)
StackInv ==
  phase = "parse" /\ outcome = "running" /\ deepest <= MaxStack =>
    /\ Len(stack) = Len(frames)
    /\ \A i \in 1 .. Len(frames) : stack[i] = frames[i].path
    /\ \A i, j \in 1 .. Len(frames) : frames[i].path = frames[j].path => i = j
    /\ top.pc = "read" =>
         \A i \in 1 .. Len(frames) : frames[i].path # top.target

(* What a step makes of the frame that it works on.                        *)
LEMMA FrameKept ==
  ASSUME NEW f, IsFrame(f), NEW g, NEW pc, g = [f EXCEPT !.pc = pc]
  PROVE  IsFrame(g) /\ g.path = f.path /\ g.pc = pc /\ g.target = f.target
BY DEF IsFrame, FrameFields

LEMMA FrameMade ==
  ASSUME NEW p
  PROVE  IsFrame(Frame(p)) /\ Frame(p).path = p /\ Frame(p).pc = "start"
BY DEF Frame, IsFrame, FrameFields

LEMMA TopIsFrame ==
  ASSUME FramesInv, phase = "parse"
  PROVE  /\ Len(frames) \in Nat \ {0} /\ Len(frames) \in 1 .. Len(frames)
         /\ top = frames[Len(frames)] /\ IsFrame(top)
<1>1. IsList(frames) /\ frames # <<>>
  BY DEF FramesInv
<1>2. Len(frames) \in Nat \ {0}
  BY <1>1 DEF IsList
<1>3. QED
  BY <1>2 DEF FramesInv, top

(* What a step makes of the frames: another innermost one, or one more.    *)
LEMMA TopReplaced ==
  ASSUME FramesInv, phase = "parse", NEW f, TopIs(f)
  PROVE  /\ IsList(frames') /\ Len(frames') = Len(frames) /\ frames' # <<>> /\ top' = f
         /\ \A i \in 1 .. Len(frames) : frames'[i] = IF i = Len(frames) THEN f ELSE frames[i]
<1>1. /\ Len(frames) \in Nat \ {0} /\ Len(frames) \in 1 .. Len(frames)
      /\ top = frames[Len(frames)]
  BY TopIsFrame
<1>2. IsList(frames) /\ frames' = [frames EXCEPT ![Len(frames)] = f]
  BY DEF FramesInv, TopIs
<1>3. /\ IsList(frames') /\ Len(frames') = Len(frames)
      /\ \A i \in 1 .. Len(frames) : frames'[i] = IF i = Len(frames) THEN f ELSE frames[i]
  <2>1. PICK n : n = Len(frames)
    OBVIOUS
  <2>2. PICK t : t = frames'
    OBVIOUS
  <2>3. n \in 1 .. Len(frames) /\ t = [frames EXCEPT ![n] = f]
    BY <1>1, <1>2, <2>1, <2>2
  <2>4. /\ IsList(t) /\ Len(t) = Len(frames)
        /\ \A i \in 1 .. Len(frames) : t[i] = IF i = n THEN f ELSE frames[i]
    <3>1. frames \in Seq(Range(frames) \union {f}) /\ Len(frames) \in Nat
      BY <1>2 DEF IsList
    <3>2. /\ t \in Seq(Range(frames) \union {f}) /\ Len(t) = Len(frames)
          /\ \A i \in 1 .. Len(frames) : t[i] = IF i = n THEN f ELSE frames[i]
      BY <2>3, <3>1
    <3>3. QED
      BY <3>2, SeqOfRange DEF IsList
  <2>5. QED
    BY <2>1, <2>2, <2>4
<1>4. frames' # <<>> /\ top' = f
  BY <1>1, <1>3 DEF top
<1>5. QED
  BY <1>3, <1>4

LEMMA FramePushed ==
  ASSUME FramesInv, phase = "parse", NEW n, n = Len(frames),
         frames' = Append([frames EXCEPT ![Len(frames)].pc = "wait"], Frame(top.target))
  PROVE  /\ IsList(frames') /\ Len(frames') = n + 1 /\ top' = Frame(top.target)
         /\ frames'[n + 1] = Frame(top.target)
         /\ \A i \in 1 .. n :
              frames'[i] = IF i = n THEN [frames[n] EXCEPT !.pc = "wait"] ELSE frames[i]
<1>1. /\ n \in Nat \ {0} /\ n \in 1 .. n /\ IsList(frames)
  BY TopIsFrame DEF FramesInv
<1>2. PICK g : g = [frames[n] EXCEPT !.pc = "wait"]
  OBVIOUS
<1>3. PICK u : u = [frames EXCEPT ![n] = g]
  OBVIOUS
<1>4. /\ IsList(u) /\ Len(u) = n
      /\ \A i \in 1 .. n : u[i] = IF i = n THEN g ELSE frames[i]
  <2>1. frames \in Seq(Range(frames) \union {g}) /\ Len(frames) = n
    BY <1>1 DEF IsList
  <2>2. /\ u \in Seq(Range(frames) \union {g}) /\ Len(u) = n
        /\ \A i \in 1 .. n : u[i] = IF i = n THEN g ELSE frames[i]
    BY <1>1, <1>3, <2>1
  <2>3. QED
    BY <2>2, SeqOfRange DEF IsList
<1>5. PICK h : h = Frame(top.target)
  OBVIOUS
<1>6. PICK t : t = frames'
  OBVIOUS
<1>7. t = Append(u, h)
  BY <1>2, <1>3, <1>5, <1>6
<1>8. /\ IsList(t) /\ Len(t) = n + 1 /\ t[n + 1] = h
      /\ \A i \in 1 .. n : t[i] = u[i]
  <2>1. IsList(u)
    BY <1>4
  <2>2. u \in Seq(Range(u) \union {h})
    BY <2>1 DEF IsList
  <2>3. /\ t \in Seq(Range(u) \union {h}) /\ Len(t) = Len(u) + 1 /\ t[Len(u) + 1] = h
        /\ \A i \in 1 .. Len(u) : t[i] = u[i]
    BY <1>7, <2>2
  <2>4. QED
    BY <1>4, <2>3, SeqOfRange DEF IsList
<1>9. top' = h
  BY <1>1, <1>6, <1>8 DEF top
<1>10. QED
  BY <1>2, <1>4, <1>5, <1>6, <1>8, <1>9 DEF IsList

(* A step that only goes on in the innermost call.                         *)
LEMMA TopStep ==
  ASSUME FramesInv, StackInv, phase = "parse", outcome = "running",
         NEW f, IsFrame(f), f.path = top.path, TopIs(f),
         phase' = phase, stack' = stack, deepest' = deepest,
         f.pc = "read" /\ deepest <= MaxStack =>
           \A i \in 1 .. Len(frames) : frames[i].path # f.target
  PROVE  FramesInv' /\ StackInv'
<1>1. /\ Len(frames) \in Nat \ {0} /\ Len(frames) \in 1 .. Len(frames)
      /\ top = frames[Len(frames)]
  BY TopIsFrame
<1>2. /\ IsList(frames') /\ Len(frames') = Len(frames)
      /\ \A i \in 1 .. Len(frames) : frames'[i] = IF i = Len(frames) THEN f ELSE frames[i]
  BY TopReplaced
<1>3. frames' # <<>> /\ top' = f
  BY TopReplaced
<1>4. \A i \in 1 .. Len(frames) : frames'[i].path = frames[i].path /\ IsFrame(frames'[i])
  BY <1>1, <1>2 DEF FramesInv
<1>5. FramesInv'
  BY <1>2, <1>3, <1>4 DEF FramesInv, IsList, IsFrame
<1>6. StackInv'
  BY <1>2, <1>3, <1>4 DEF StackInv
<1>7. QED
  BY <1>5, <1>6

(* A step outside the parser, or one that ends the program.                *)
LEMMA QuietStep ==
  ASSUME FramesInv, frames' = frames, stack' = stack, deepest' = deepest,
         phase' # "parse" \/ (phase = "parse" /\ outcome' # "running")
  PROVE  FramesInv' /\ StackInv'
BY DEF FramesInv, StackInv, IsList, IsFrame

LEMMA FramesStutter ==
  ASSUME FramesInv, StackInv, UNCHANGED allVars
  PROVE  FramesInv' /\ StackInv'
BY DEF FramesInv, StackInv, IsList, IsFrame, top, allVars, nidlVars

LEMMA ReadRootStep ==
  ASSUME FramesInv, ReadRoot
  PROVE  FramesInv' /\ StackInv'
<1>1. CASE End("failed") /\ UNCHANGED <<arenaVars, phase, stack, frames, deepest>>
  BY <1>1, QuietStep DEF ReadRoot, End
<1>2. CASE /\ phase' = "parse" /\ stack' = <<RootPath>>
           /\ frames' = <<Frame(RootPath)>> /\ deepest' = 1
  <2>1. PICK f : f = Frame(RootPath)
    OBVIOUS
  <2>2. IsFrame(f) /\ f.path = RootPath /\ f.pc = "start"
    BY <2>1, FrameMade
  <2>3. /\ frames' = <<f>> /\ Len(frames') = 1 /\ frames'[1] = f /\ frames' \in Seq({f})
        /\ Len(stack') = 1 /\ stack'[1] = RootPath /\ stack' \in Seq({RootPath})
    BY <1>2, <2>1
  <2>4. IsList(frames') /\ IsList(stack') /\ top' = f /\ frames' # <<>>
    BY <2>3, SeqOfRange DEF IsList, top
  <2>5. FramesInv'
    BY <1>2, <2>2, <2>3, <2>4, NidlAssumption DEF FramesInv, IsList, IsFrame
  <2>6. StackInv'
    BY <1>2, <2>2, <2>3, <2>4 DEF StackInv
  <2>7. QED
    BY <2>5, <2>6
<1>3. QED
  BY <1>1, <1>2 DEF ReadRoot

(* The declarations that may come out of Declare, and how else it may end. *)
LEMMA DeclareCases ==
  ASSUME Declare, NEW d, d = Contents, NEW k, k = top.decl, NEW g, g = top.path.file
  PROVE  \/ /\ outcome' = outcome /\ k <= Len(d.ifaces)
            /\ \E lost \in SUBSET Texts(d.ifaces[k]) :
                 TopIs([top EXCEPT !.decl = @ + 1,
                                   !.ast.ifaces = <<Iface(d.ifaces[k], g, lost)>> \o @,
                                   !.ast.structs = @])
         \/ /\ outcome' = outcome /\ ~(k <= Len(d.ifaces))
            /\ \E lost :
                 TopIs([top EXCEPT
                   !.decl = @ + 1,
                   !.ast.ifaces = @,
                   !.ast.structs = <<Struct(d.structs[k - Len(d.ifaces)], g, lost)>> \o @])
         \/ Fail
         \/ outcome' = "crash" /\ frames' = frames
<1>1. CASE k <= Len(d.ifaces)
  BY <1>1 DEF Declare, CrashIfNull, End
<1>2. CASE ~(k <= Len(d.ifaces))
  BY <1>2 DEF Declare, CrashIfNull, End
<1>3. QED
  BY <1>1, <1>2

LEMMA CallSteps ==
  ASSUME FramesInv, StackInv,
         StartFile \/ NextImport \/ TryCandidate \/ CheckCycle \/ ParseModule \/ Declare
           \/ MergeImport
  PROVE  FramesInv' /\ StackInv'
<1>1. phase = "parse" /\ outcome = "running"
  BY DEF StartFile, NextImport, TryCandidate, CheckCycle, ParseModule, Declare, MergeImport, Parsing
<1>2. IsFrame(top) /\ phase' = phase /\ stack' = stack /\ deepest' = deepest
  BY <1>1, TopIsFrame
     DEF StartFile, NextImport, TryCandidate, CheckCycle, ParseModule, Declare, MergeImport
<1>3. ASSUME frames' = frames, outcome' # "running"
      PROVE  FramesInv' /\ StackInv'
  BY <1>1, <1>2, <1>3, QuietStep
<1>4. ASSUME NEW f, TopIs(f), IsFrame(f), f.path = top.path, f.pc # "read"
      PROVE  FramesInv' /\ StackInv'
  BY <1>1, <1>2, <1>4, TopStep
<1>5. ASSUME NEW pc, GoTo(pc), pc # "read"
      PROVE  FramesInv' /\ StackInv'
  <2>1. PICK f : f = [top EXCEPT !.pc = pc]
    OBVIOUS
  <2>2. IsFrame(f) /\ f.path = top.path /\ f.pc = pc
    BY <1>2, <2>1, FrameKept
  <2>3. QED
    BY <1>4, <1>5, <2>1, <2>2 DEF GoTo
<1>6. ASSUME NEW n, CrashIfNull(n)
      PROVE  FramesInv' /\ StackInv'
  BY <1>3, <1>6 DEF CrashIfNull, End
<1>7. ASSUME Fail
      PROVE  FramesInv' /\ StackInv'
  BY <1>5, <1>7 DEF Fail
<1>8. CASE StartFile
  <2>1. ASSUME NEW f, f = [top EXCEPT !.pc = "import", !.file = FALSE]
        PROVE  IsFrame(f) /\ f.path = top.path /\ f.pc # "read"
    BY <1>2, <2>1 DEF IsFrame, FrameFields
  <2>2. CASE TopIs([top EXCEPT !.pc = "import", !.file = FALSE])
    BY <1>4, <2>1, <2>2
  <2>3. QED
    BY <1>3, <1>5, <1>8, <2>2 DEF StartFile, End
<1>9. CASE NextImport
  <2>1. ASSUME NEW f, f = [top EXCEPT !.pc = "resolve", !.try = 1]
        PROVE  IsFrame(f) /\ f.path = top.path /\ f.pc # "read"
    BY <1>2, <2>1 DEF IsFrame, FrameFields
  <2>2. CASE TopIs([top EXCEPT !.pc = "resolve", !.try = 1])
    BY <1>4, <2>1, <2>2
  <2>3. QED
    BY <1>5, <1>6, <1>9, <2>2 DEF NextImport
<1>10. CASE TryCandidate
  <2>1. top.pc # "read"
    BY <1>10 DEF TryCandidate, Parsing
  <2>2. ASSUME NEW p, TopIs([top EXCEPT !.pc = "check", !.target = p])
        PROVE  FramesInv' /\ StackInv'
    <3>1. PICK f : f = [top EXCEPT !.pc = "check", !.target = p]
      OBVIOUS
    <3>2. IsFrame(f) /\ f.path = top.path /\ f.pc # "read"
      BY <1>2, <3>1 DEF IsFrame, FrameFields
    <3>3. QED
      BY <1>4, <2>2, <3>1, <3>2
  <2>3. ASSUME NEW n, TopIs([top EXCEPT !.try = n])
        PROVE  FramesInv' /\ StackInv'
    <3>1. PICK f : f = [top EXCEPT !.try = n]
      OBVIOUS
    <3>2. IsFrame(f) /\ f.path = top.path /\ f.pc # "read"
      BY <1>2, <2>1, <3>1 DEF IsFrame, FrameFields
    <3>3. QED
      BY <1>4, <2>3, <3>1, <3>2
  <2>4. PICK places : places = Candidates(top.path, Import)
    OBVIOUS
  <2>5. \/ Fail
        \/ TopIs([top EXCEPT !.pc = "check", !.target = places[top.try].path])
        \/ TopIs([top EXCEPT !.try = @ + 1])
    BY <1>10, <2>4 DEF TryCandidate
  <2>6. QED
    BY <1>7, <2>2, <2>3, <2>5
<1>11. CASE CheckCycle
  <2>1. CASE top.target \notin Range(stack) /\ GoTo("read")
    <3>1. PICK f : f = [top EXCEPT !.pc = "read"]
      OBVIOUS
    <3>2. /\ IsFrame(f) /\ f.path = top.path /\ f.target = top.target /\ TopIs(f)
      <4>1. IsFrame(f) /\ f.path = top.path /\ f.target = top.target
        BY <1>2, <3>1, FrameKept
      <4>2. QED
        BY <2>1, <3>1, <4>1 DEF GoTo
    <3>3. ASSUME deepest <= MaxStack, NEW i \in 1 .. Len(frames)
          PROVE  frames[i].path # f.target
      <4>1. stack[i] = frames[i].path /\ i \in 1 .. Len(stack)
        BY <1>1, <3>3 DEF StackInv
      <4>2. stack[i] \in Range(stack)
        BY <4>1 DEF FramesInv, IsList, Range
      <4>3. QED
        BY <2>1, <3>2, <4>1, <4>2
    <3>4. QED
      BY <1>1, <1>2, <3>2, <3>3, TopStep
  <2>2. QED
    BY <1>7, <1>11, <2>1 DEF CheckCycle
<1>12. CASE ParseModule
  <2>1. ASSUME NEW m, TopIs([top EXCEPT !.pc = "decl", !.ast.module = m])
        PROVE  FramesInv' /\ StackInv'
    <3>1. PICK f : f = [top EXCEPT !.pc = "decl", !.ast.module = m]
      OBVIOUS
    <3>2. IsFrame(f) /\ f.path = top.path /\ f.pc # "read"
      BY <1>2, <3>1 DEF IsFrame, FrameFields
    <3>3. QED
      BY <1>4, <2>1, <3>1, <3>2
  <2>2. \/ Fail \/ GoTo("decl") \/ (frames' = frames /\ outcome' # "running")
        \/ TopIs([top EXCEPT !.pc = "decl", !.ast.module = Contents.module])
    BY <1>12 DEF ParseModule, End
  <2>3. QED
    BY <1>3, <1>5, <1>7, <2>1, <2>2
<1>13. CASE Declare
  <2>1. top.pc # "read"
    BY <1>13 DEF Declare, Parsing
  <2>2. ASSUME NEW f, NEW d, NEW i, NEW s,
               f = [top EXCEPT !.decl = d, !.ast.ifaces = i, !.ast.structs = s]
        PROVE  IsFrame(f) /\ f.path = top.path /\ f.pc # "read"
    BY <1>2, <2>1, <2>2 DEF IsFrame, FrameFields
  <2>3. (\E f : TopIs(f) /\ IsFrame(f) /\ f.path = top.path /\ f.pc # "read")
        \/ Fail \/ (frames' = frames /\ outcome' # "running")
    BY <1>13, <2>2, DeclareCases
  <2>4. QED
    BY <1>3, <1>4, <1>7, <2>3
<1>14. CASE MergeImport
  <2>1. ASSUME NEW f, NEW n, NEW i, NEW s, NEW m,
               f = [top EXCEPT !.pc = "import", !.imp = n, !.child = NULL, !.target = NULL,
                               !.ast.ifaces = i, !.ast.structs = s, !.ast.imports = m]
        PROVE  IsFrame(f) /\ f.path = top.path /\ f.pc # "read"
    BY <1>2, <2>1 DEF IsFrame, FrameFields
  <2>2. (\E f : TopIs(f) /\ IsFrame(f) /\ f.path = top.path /\ f.pc # "read")
        \/ (frames' = frames /\ outcome' # "running")
    BY <1>14, <2>1 DEF MergeImport, CrashIfNull, End
  <2>3. QED
    BY <1>3, <1>4, <2>2
<1>15. QED
  BY <1>8, <1>9, <1>10, <1>11, <1>12, <1>13, <1>14

LEMMA LargerOf ==
  ASSUME NEW m \in Nat, NEW n \in Nat
  PROVE  Max({m, n}) \in {m, n} /\ Max({m, n}) >= m /\ Max({m, n}) >= n
<1>1. \E x \in {m, n} : \A y \in {m, n} : x >= y
  <2>1. CASE m >= n
    BY <2>1
  <2>2. CASE n >= m
    BY <2>2
  <2>3. QED
    BY <2>1, <2>2
<1>2. Max({m, n}) \in {m, n} /\ \A y \in {m, n} : Max({m, n}) >= y
  BY <1>1 DEF Max
<1>3. QED
  BY <1>2

LEMMA PushStays ==
  ASSUME FramesInv, NEW p, NEW t, t = Pushed(stack, p)
  PROVE  IsList(t) /\ Len(t) <= MaxStack
<1>1. IsList(stack) /\ Len(stack) <= MaxStack /\ Len(stack) \in Nat /\ MaxStack \in Nat
  BY NidlAssumption DEF FramesInv, IsList
<1>2. CASE Len(stack) < MaxStack
  <2>1. t = Append(stack, p)
    BY <1>2 DEF Pushed
  <2>2. IsList(t) /\ Len(t) = Len(stack) + 1
    BY <1>1, <2>1, SeqAppend
  <2>3. QED
    BY <1>1, <1>2, <2>2
<1>3. CASE ~(Len(stack) < MaxStack)
  BY <1>1, <1>3 DEF Pushed
<1>4. QED
  BY <1>2, <1>3

(* A call for an import: its path is on no other frame.                    *)
LEMMA PushStep ==
  ASSUME FramesInv, StackInv, phase = "parse", outcome = "running", top.pc = "read",
         Len(frames) # MaxFrames, phase' = phase, stack' = Pushed(stack, top.target),
         frames' = Append([frames EXCEPT ![Len(frames)].pc = "wait"], Frame(top.target)),
         deepest' = Max({deepest, Len(frames) + 1})
  PROVE  FramesInv' /\ StackInv'
<1>1. PICK n : n = Len(frames)
  OBVIOUS
<1>2. /\ n \in Nat \ {0} /\ n \in 1 .. n /\ top = frames[n] /\ IsList(frames)
      /\ n <= deepest /\ deepest <= MaxFrames /\ deepest \in Nat /\ MaxFrames \in Nat
      /\ IsList(stack) /\ \A i \in 1 .. n : IsFrame(frames[i])
  BY <1>1, TopIsFrame, NidlAssumption DEF FramesInv
<1>3. PICK g : g = [frames[n] EXCEPT !.pc = "wait"]
  OBVIOUS
<1>4. IsFrame(g) /\ g.path = frames[n].path
  BY <1>2, <1>3, FrameKept
<1>7. PICK p : p = top.target
  OBVIOUS
<1>8. PICK h : h = Frame(p)
  OBVIOUS
<1>9. IsFrame(h) /\ h.path = p /\ h.pc = "start"
  BY <1>8, FrameMade
<1>10. PICK t : t = frames'
  OBVIOUS
<1>12. /\ IsList(t) /\ Len(t) = n + 1 /\ t[n + 1] = h /\ top' = h
       /\ \A i \in 1 .. n : t[i] = IF i = n THEN g ELSE frames[i]
  <2>1. /\ IsList(frames') /\ Len(frames') = n + 1 /\ frames'[n + 1] = h /\ top' = h
        /\ \A i \in 1 .. n : frames'[i] = IF i = n THEN g ELSE frames[i]
    BY <1>1, <1>3, <1>7, <1>8, FramePushed
  <2>2. QED
    BY <1>10, <2>1 DEF IsList
<1>13. \A i \in 1 .. n : t[i].path = frames[i].path /\ IsFrame(t[i])
  BY <1>2, <1>4, <1>12
<1>14. top' = h
  BY <1>12
<1>15. /\ deepest' \in Nat /\ deepest' <= MaxFrames
       /\ n + 1 <= deepest' /\ deepest <= deepest'
  <2>1. PICK d : d = deepest'
    OBVIOUS
  <2>2. n + 1 \in Nat /\ n + 1 <= MaxFrames
    BY <1>1, <1>2
  <2>3. d = Max({deepest, n + 1})
    BY <1>1, <2>1
  <2>4. d \in {deepest, n + 1} /\ d >= deepest /\ d >= n + 1
    BY <1>2, <2>2, <2>3, LargerOf
  <2>5. QED
    BY <1>2, <2>1, <2>2, <2>4
<1>16. PICK s : s = stack'
  OBVIOUS
<1>17. IsList(s) /\ Len(s) <= MaxStack
  BY <1>7, <1>16, PushStays
<1>18. FramesInv'
  <2>1. \A i \in 1 .. n + 1 : IsFrame(t[i])
    BY <1>2, <1>9, <1>12, <1>13
  <2>2. t # <<>>
    BY <1>2, <1>12
  <2>3. QED
    BY <1>10, <1>12, <1>15, <1>16, <1>17, <2>1, <2>2 DEF FramesInv, IsList, IsFrame
<1>19. StackInv'
  <2>1. SUFFICES ASSUME deepest' <= MaxStack
                 PROVE  /\ Len(s) = n + 1
                        /\ \A i \in 1 .. n + 1 : s[i] = t[i].path
                        /\ \A i, j \in 1 .. n + 1 : t[i].path = t[j].path => i = j
    BY <1>9, <1>10, <1>12, <1>14, <1>16 DEF StackInv
  <2>2. deepest <= MaxStack /\ n < MaxStack
    BY <1>2, <1>15, <2>1, NidlAssumption
  <2>3. /\ Len(stack) = n /\ \A i \in 1 .. n : stack[i] = frames[i].path
        /\ \A i, j \in 1 .. n : frames[i].path = frames[j].path => i = j
        /\ \A i \in 1 .. n : frames[i].path # p
    BY <1>1, <1>7, <2>2 DEF StackInv
  <2>4. s = Append(stack, p)
    BY <1>7, <1>16, <2>2, <2>3 DEF Pushed
  <2>5. Len(s) = n + 1 /\ s[n + 1] = p /\ \A i \in 1 .. n : s[i] = stack[i]
    BY <1>2, <2>3, <2>4, SeqAppend
  <2>6. \A i \in 1 .. n + 1 : i = n + 1 \/ i \in 1 .. n
    BY <1>2
  <2>7. \A i \in 1 .. n + 1 : s[i] = t[i].path
    BY <1>9, <1>12, <1>13, <2>3, <2>5, <2>6
  <2>8. \A i, j \in 1 .. n + 1 : t[i].path = t[j].path => i = j
    BY <1>9, <1>12, <1>13, <2>3, <2>6
  <2>9. QED
    BY <2>5, <2>7, <2>8
<1>20. QED
  BY <1>18, <1>19

LEMMA EnterStep ==
  ASSUME FramesInv, StackInv, EnterImport
  PROVE  FramesInv' /\ StackInv'
<1>1. /\ phase = "parse" /\ outcome = "running" /\ top.pc = "read" /\ phase' = phase
  BY DEF EnterImport, Parsing
<1>2. CASE Fail /\ UNCHANGED <<stack, deepest>>
  <2>1. PICK f : f = [top EXCEPT !.pc = "fail"]
    OBVIOUS
  <2>2. IsFrame(top)
    BY <1>1, TopIsFrame
  <2>3. IsFrame(f) /\ f.path = top.path /\ f.pc # "read"
    BY <2>1, <2>2, FrameKept
  <2>4. TopIs(f)
    BY <1>2, <2>1 DEF Fail, GoTo
  <2>5. QED
    BY <1>1, <1>2, <2>3, <2>4, TopStep
<1>3. CASE stack' = Pushed(stack, top.target) /\ End("overflow") /\ UNCHANGED <<frames, deepest>>
  <2>1. IsList(stack') /\ Len(stack') <= MaxStack
    <3>1. PICK t : t = stack'
      OBVIOUS
    <3>2. IsList(t) /\ Len(t) <= MaxStack
      BY <1>3, <3>1, PushStays
    <3>3. QED
      BY <3>1, <3>2 DEF IsList
  <2>2. FramesInv'
    BY <1>1, <1>3, <2>1 DEF FramesInv, IsList, IsFrame
  <2>3. StackInv'
    BY <1>3 DEF StackInv, End
  <2>4. QED
    BY <2>2, <2>3
<1>4. CASE /\ stack' = Pushed(stack, top.target) /\ Len(frames) # MaxFrames
           /\ frames' = Append([frames EXCEPT ![Len(frames)].pc = "wait"], Frame(top.target))
           /\ deepest' = Max({deepest, Len(frames) + 1})
  BY <1>1, <1>4, PushStep
<1>5. QED
  BY <1>2, <1>3, <1>4 DEF EnterImport

(* The end of a call: its caller goes on, and the last path is taken off.  *)
GoesOn(n, g) == frames' = [Front(frames) EXCEPT ![n] = g]

LEMMA PopStep ==
  ASSUME FramesInv, StackInv, phase = "parse", outcome = "running", Len(frames) # 1,
         NEW n, n = Len(frames) - 1, NEW g, IsFrame(g), g.path = frames[n].path,
         g.pc # "read", GoesOn(n, g),
         phase' = phase, stack' = Popped(stack), deepest' = deepest
  PROVE  /\ FramesInv' /\ StackInv'
         /\ Len(frames') = n /\ top' = g /\ frames'[n] = g
         /\ \A i \in 1 .. n : i # n => frames'[i] = frames[i]
<1>1. /\ n \in Nat \ {0} /\ Len(frames) = n + 1 /\ IsList(frames) /\ frames # <<>>
      /\ IsList(stack) /\ Len(stack) \in Nat /\ Len(stack) <= MaxStack /\ MaxStack \in Nat
      /\ \A i \in 1 .. n + 1 : IsFrame(frames[i])
  BY TopIsFrame, NidlAssumption DEF FramesInv, IsList
<1>2. PICK u : u = Front(frames)
  OBVIOUS
<1>3. IsList(u) /\ Len(u) = n /\ \A i \in 1 .. n : u[i] = frames[i]
  BY <1>1, <1>2, SeqFront
<1>4. PICK t : t = frames'
  OBVIOUS
<1>5. /\ IsList(t) /\ Len(t) = n
      /\ \A i \in 1 .. n : t[i] = IF i = n THEN g ELSE u[i]
  <2>1. u \in Seq(Range(u) \union {g}) /\ n \in 1 .. Len(u)
    BY <1>1, <1>3 DEF IsList
  <2>2. t = [u EXCEPT ![n] = g]
    BY <1>2, <1>4 DEF GoesOn
  <2>3. /\ t \in Seq(Range(u) \union {g}) /\ Len(t) = Len(u)
        /\ \A i \in 1 .. Len(u) : t[i] = IF i = n THEN g ELSE u[i]
    BY <2>1, <2>2
  <2>4. QED
    BY <1>3, <2>3, SeqOfRange DEF IsList
<1>6. \A i \in 1 .. n : t[i].path = frames[i].path /\ IsFrame(t[i])
  <2>1. \A i \in 1 .. n : i \in 1 .. n + 1
    BY <1>1
  <2>2. \A i \in 1 .. n : IsFrame(frames[i])
    BY <1>1, <2>1
  <2>3. \A i \in 1 .. n : t[i] = IF i = n THEN g ELSE frames[i]
    BY <1>3, <1>5
  <2>4. QED
    BY <2>2, <2>3
<1>7. top' = g
  <2>1. n \in 1 .. n
    BY <1>1
  <2>2. t[n] = g /\ Len(t) = n
    BY <1>5, <2>1
  <2>3. QED
    BY <1>4, <2>2 DEF top
<1>8. PICK s : s = stack'
  OBVIOUS
<1>9. /\ IsList(s) /\ Len(s) <= MaxStack
      /\ stack # <<>> =>
           Len(s) = Len(stack) - 1 /\ \A i \in 1 .. Len(stack) - 1 : s[i] = stack[i]
  <2>1. CASE stack = <<>>
    BY <1>1, <1>8, <2>1 DEF Popped
  <2>2. CASE stack # <<>>
    <3>1. s = Front(stack)
      BY <1>8, <2>2 DEF Popped
    <3>2. /\ IsList(s) /\ Len(s) = Len(stack) - 1
          /\ \A i \in 1 .. Len(stack) - 1 : s[i] = stack[i]
      BY <1>1, <2>2, <3>1, SeqFront
    <3>3. QED
      BY <1>1, <3>2
  <2>3. QED
    BY <2>1, <2>2
<1>10. FramesInv'
  <2>1. t # <<>> /\ n <= deepest
    <3>1. Len(t) # 0
      BY <1>1, <1>5
    <3>2. n <= deepest
      BY <1>1 DEF FramesInv
    <3>3. QED
      BY <3>1, <3>2
  <2>2. QED
    BY <1>4, <1>5, <1>6, <1>8, <1>9, <2>1 DEF FramesInv, IsList, IsFrame
<1>11. StackInv'
  <2>1. SUFFICES ASSUME deepest <= MaxStack
                 PROVE  /\ Len(s) = n
                        /\ \A i \in 1 .. n : s[i] = t[i].path
                        /\ \A i, j \in 1 .. n : t[i].path = t[j].path => i = j
    <3>1. top'.pc # "read" /\ Len(t) = n
      BY <1>5, <1>7
    <3>2. QED
      BY <1>4, <1>8, <3>1 DEF StackInv
  <2>2. /\ Len(stack) = n + 1 /\ \A i \in 1 .. n + 1 : stack[i] = frames[i].path
        /\ \A i, j \in 1 .. n + 1 : frames[i].path = frames[j].path => i = j
    BY <1>1, <2>1 DEF StackInv
  <2>3. stack # <<>>
    BY <1>1, <2>2
  <2>4. \A i \in 1 .. n : i \in 1 .. n + 1
    BY <1>1
  <2>5. Len(s) = n /\ \A i \in 1 .. n : s[i] = stack[i]
    BY <1>1, <1>9, <2>2, <2>3
  <2>6. QED
    BY <1>6, <2>2, <2>4, <2>5
<1>12. frames'[n] = g /\ \A i \in 1 .. n : i # n => frames'[i] = frames[i]
  <2>1. t[n] = g /\ \A i \in 1 .. n : i # n => t[i] = frames[i]
    BY <1>1, <1>3, <1>5
  <2>2. QED
    BY <1>4, <2>1
<1>13. QED
  BY <1>4, <1>5, <1>7, <1>10, <1>11, <1>12

(* What is left when a call ends: its caller's frame, with a new pc.       *)
LEMMA CallerFrame ==
  ASSUME FramesInv, CloseFile \/ ReturnNull, Len(frames) # 1, NEW n, n = Len(frames) - 1
  PROVE  \E g : /\ IsFrame(g) /\ g.path = frames[n].path /\ g.imp = frames[n].imp
                /\ g.ast = frames[n].ast /\ g.decl = frames[n].decl
                /\ g.pc \in {"merge", "fail"} /\ GoesOn(n, g)
                /\ g.pc = "merge" => CloseFile /\ g.child = top.ast
<1>1. phase = "parse"
  BY DEF CloseFile, ReturnNull, Parsing
<1>2. /\ IsList(frames) /\ frames # <<>> /\ n \in Nat \ {0} /\ Len(frames) = n + 1
      /\ IsFrame(frames[n])
  BY <1>1, TopIsFrame DEF FramesInv
<1>3. PICK u : u = Front(frames)
  OBVIOUS
<1>4. IsList(u) /\ Len(u) = n /\ \A i \in 1 .. n : u[i] = frames[i]
  BY <1>2, <1>3, SeqFront
<1>5. u[n] = frames[n] /\ n \in DOMAIN u
  BY <1>2, <1>4 DEF IsList
<1>6. CASE CloseFile
  <2>1. PICK a : a = top.ast
    OBVIOUS
  <2>2. PICK g : g = [frames[n] EXCEPT !.pc = "merge", !.child = a]
    OBVIOUS
  <2>3. /\ IsFrame(g) /\ g.path = frames[n].path /\ g.imp = frames[n].imp
        /\ g.ast = frames[n].ast /\ g.decl = frames[n].decl
        /\ g.pc = "merge" /\ g.child = a
    BY <1>2, <2>2 DEF IsFrame, FrameFields
  <2>4. frames' = [Front(frames) EXCEPT ![n].pc = "merge", ![n].child = a]
    BY <1>6, <2>1 DEF CloseFile
  <2>5. frames' = [u EXCEPT ![n] = g]
    BY <1>3, <1>5, <2>2, <2>4
  <2>6. QED
    BY <1>3, <1>6, <2>1, <2>3, <2>5 DEF GoesOn
<1>7. CASE ReturnNull
  <2>1. PICK g : g = [frames[n] EXCEPT !.pc = "fail"]
    OBVIOUS
  <2>2. /\ IsFrame(g) /\ g.path = frames[n].path /\ g.imp = frames[n].imp
        /\ g.ast = frames[n].ast /\ g.decl = frames[n].decl
        /\ g.pc = "fail"
    BY <1>2, <2>1 DEF IsFrame, FrameFields
  <2>3. frames' = [Front(frames) EXCEPT ![n].pc = "fail"]
    BY <1>7 DEF ReturnNull
  <2>4. frames' = [u EXCEPT ![n] = g]
    BY <1>3, <1>5, <2>1, <2>3
  <2>5. QED
    BY <1>3, <2>2, <2>4 DEF GoesOn
<1>8. QED
  BY <1>6, <1>7

LEMMA ReturnSteps ==
  ASSUME FramesInv, StackInv, CloseFile \/ ReturnNull
  PROVE  FramesInv' /\ StackInv'
<1>1. phase = "parse" /\ outcome = "running" /\ deepest' = deepest
  BY DEF CloseFile, ReturnNull, Parsing
<1>2. CASE CloseFile /\ Len(frames) = 1
  <2>1. /\ phase' = "gen_c" /\ frames' = <<>> /\ stack' = stack
        /\ Len(frames') = 0
    BY <1>2 DEF CloseFile
  <2>2. frames' \in Seq({})
    BY <2>1
  <2>3. IsList(frames')
    BY <2>2, SeqOfRange DEF IsList
  <2>4. FramesInv'
    BY <1>1, <2>1, <2>3 DEF FramesInv, IsList
  <2>5. StackInv'
    BY <2>1 DEF StackInv
  <2>6. QED
    BY <2>4, <2>5
<1>3. CASE ReturnNull /\ Len(frames) = 1
  BY <1>1, <1>3, QuietStep DEF ReturnNull, End
<1>4. CASE Len(frames) # 1
  <2>1. PICK n : n = Len(frames) - 1
    OBVIOUS
  <2>2. PICK g : /\ IsFrame(g) /\ g.path = frames[n].path /\ g.pc \in {"merge", "fail"}
                 /\ GoesOn(n, g)
    BY <1>4, <2>1, CallerFrame
  <2>3. stack' = Popped(stack) /\ phase' = phase
    BY <1>4 DEF CloseFile, ReturnNull
  <2>4. QED
    BY <1>1, <1>4, <2>1, <2>2, <2>3, PopStep
<1>5. QED
  BY <1>2, <1>3, <1>4

LEMMA FramesInit ==
  ASSUME NidlInit
  PROVE  FramesInv /\ StackInv
<1>1. /\ frames = <<>> /\ stack = <<>> /\ deepest = 0 /\ phase = "dirs"
      /\ Len(frames) = 0 /\ Len(stack) = 0
  BY DEF NidlInit
<1>2. frames \in Seq({}) /\ stack \in Seq({})
  BY <1>1
<1>3. IsList(frames) /\ IsList(stack)
  BY <1>2, SeqOfRange DEF IsList
<1>4. QED
  BY <1>1, <1>3, NidlAssumption DEF FramesInv, StackInv

LEMMA FramesNext ==
  ASSUME FramesInv, StackInv, [NidlNext]_allVars
  PROVE  FramesInv' /\ StackInv'
<1>1. CASE CollectDirs
  BY <1>1, QuietStep DEF CollectDirs, End
<1>2. CASE StartFile \/ NextImport \/ TryCandidate \/ CheckCycle \/ ParseModule \/ Declare
             \/ MergeImport
  BY <1>2, CallSteps
<1>3. CASE WriteHeader
  BY <1>3, QuietStep DEF WriteHeader
<1>4. CASE EmitHeader
  BY <1>4, QuietStep DEF EmitHeader
<1>5. CASE WriteWit
  BY <1>5, QuietStep DEF WriteWit
<1>6. CASE Ended \/ UNCHANGED allVars
  BY <1>6, FramesStutter DEF Ended
<1>7. QED
  BY <1>1, <1>2, <1>3, <1>4, <1>5, <1>6, ReadRootStep, EnterStep, ReturnSteps
     DEF NidlNext

(* The inductive invariant of the nested calls and of ctx.stack.           *)
THEOREM FramesInvariant == NidlSpec => [](FramesInv /\ StackInv)
<1>1. NidlInit => FramesInv /\ StackInv
  BY FramesInit
<1>2. FramesInv /\ StackInv /\ [NidlNext]_allVars => (FramesInv /\ StackInv)'
  BY FramesNext
<1>3. QED
  BY <1>1, <1>2, PTL DEF NidlSpec

(* Cycle detection looks at the right paths: while no more files have been *)
(* nested than the array has room for, it holds the paths of the files     *)
(* being parsed, each once, after any imports, failed ones included.       *)
THEOREM CycleStackCorrect == NidlSpec => []StackTracksFrames
<1>1. ASSUME FramesInv, StackInv
      PROVE  StackTracksFrames
  <2>1. SUFFICES ASSUME phase = "parse", outcome = "running", deepest <= MaxStack
                 PROVE  /\ stack = Paths
                        /\ \A i, j \in 1 .. Len(frames) : Paths[i] = Paths[j] => i = j
    BY DEF StackTracksFrames
  <2>2. /\ Len(stack) = Len(frames)
        /\ \A i \in 1 .. Len(frames) : stack[i] = frames[i].path
        /\ \A i, j \in 1 .. Len(frames) : frames[i].path = frames[j].path => i = j
    BY <1>1, <2>1 DEF StackInv
  <2>3. stack = [i \in 1 .. Len(stack) |-> stack[i]]
    BY <1>1 DEF FramesInv, IsList
  <2>4. Paths = [i \in 1 .. Len(frames) |-> frames[i].path]
    BY DEF Paths
  <2>5. QED
    BY <2>2, <2>3, <2>4
<1>2. QED
  BY <1>1, FramesInvariant, PTL

-----------------------------------------------------------------------------
(* main: where it is, what it wrote and how it ends.                       *)

MainInv ==
  /\ DOMAIN disk = Files
  /\ Len(dirs) <= MaxDirs
  /\ phase \in {"dirs", "read", "parse", "gen_c", "emit_c", "gen_wit"}
  /\ written \subseteq {"header", "partial header", "wit"}
  /\ outcome \in {"running", "ok", "failed", "usage", "crash", "overflow"}

LEMMA CollectDirsStep ==
  ASSUME MainInv, CollectDirs
  PROVE  MainInv'
<1>1. PICK choice \in DirChoices :
        IF Len(choice.env \o choice.cli) > MaxDirs
        THEN End("usage") /\ UNCHANGED <<dirs, phase>>
        ELSE dirs' = choice.env \o choice.cli /\ phase' = "read" /\ UNCHANGED outcome
  BY DEF CollectDirs
<1>2. PICK all : all = choice.env \o choice.cli
  OBVIOUS
<1>3. Len(all) \in Nat /\ MaxDirs \in Nat
  <2>1. PICK e : e = choice.env
    OBVIOUS
  <2>2. PICK c : c = choice.cli
    OBVIOUS
  <2>3. e \in Seq(Range(e) \union Range(c)) /\ c \in Seq(Range(e) \union Range(c))
    BY <2>1, <2>2, NidlAssumption DEF IsList
  <2>4. e \o c \in Seq(Range(e) \union Range(c))
    BY <2>3
  <2>5. Len(e \o c) \in Nat
    BY <2>4
  <2>6. QED
    BY <1>2, <2>1, <2>2, <2>5, NidlAssumption
<1>4. disk' = disk /\ written' = written
  BY DEF CollectDirs
<1>5. CASE Len(all) > MaxDirs
  BY <1>1, <1>2, <1>4, <1>5 DEF MainInv, End
<1>6. CASE ~(Len(all) > MaxDirs)
  <2>1. dirs' = all /\ phase' = "read" /\ outcome' = outcome
    BY <1>1, <1>2, <1>6
  <2>2. Len(dirs') <= MaxDirs
    BY <1>3, <1>6, <2>1
  <2>3. QED
    BY <1>4, <2>1, <2>2 DEF MainInv
<1>7. QED
  BY <1>5, <1>6

LEMMA MainNext ==
  ASSUME MainInv, [NidlNext]_allVars
  PROVE  MainInv'
<1> USE DEF MainInv, End
<1>1. CASE StartFile \/ Declare \/ MergeImport \/ NextImport
  <2>1. disk' = disk /\ dirs' = dirs /\ phase' = phase /\ written' = written
    BY <1>1 DEF StartFile, Declare, MergeImport, NextImport
  <2>2. outcome' \in {outcome, "crash"}
    BY <1>1 DEF StartFile, Declare, MergeImport, NextImport, CrashIfNull, Fail
  <2>3. QED
    BY <2>1, <2>2
<1>2. CASE TryCandidate \/ CheckCycle \/ ParseModule
  <2>1. disk' = disk /\ dirs' = dirs /\ phase' = phase /\ written' = written
    BY <1>2 DEF TryCandidate, CheckCycle, ParseModule
  <2>2. outcome' \in {outcome, "crash"}
    <3>1. CASE TryCandidate
      BY <3>1 DEF TryCandidate, Fail
    <3>2. CASE CheckCycle \/ ParseModule
      BY <3>2 DEF CheckCycle, ParseModule, Fail
    <3>3. QED
      BY <1>2, <3>1, <3>2
  <2>3. QED
    BY <2>1, <2>2
<1>3. CASE EnterImport
  BY <1>3 DEF EnterImport, Fail
<1>4. CASE ReadRoot \/ CloseFile \/ ReturnNull
  BY <1>4 DEF ReadRoot, CloseFile, ReturnNull
<1>5. CASE WriteHeader \/ EmitHeader \/ WriteWit
  <2>1. CASE WriteHeader
    BY <2>1 DEF WriteHeader
  <2>2. CASE EmitHeader
    BY <2>2 DEF EmitHeader
  <2>3. CASE WriteWit
    BY <2>3 DEF WriteWit
  <2>4. QED
    BY <1>5, <2>1, <2>2, <2>3
<1>6. CASE Ended \/ UNCHANGED allVars
  BY <1>6 DEF Ended, allVars, nidlVars
<1>7. QED
  BY <1>1, <1>2, <1>3, <1>4, <1>5, <1>6, CollectDirsStep DEF NidlNext

(* Type correctness: main goes through its phases, the include directories *)
(* fit into their array, ctx.stack never has more than its 32 entries, and *)
(* the arena's fields are sizes.                                           *)
THEOREM NidlTypeCorrect == NidlSpec => []NidlTypeOK
<1>1. NidlInit => MainInv
  <2>1. SUFFICES ASSUME NidlInit
                 PROVE  MainInv
    OBVIOUS
  <2>2. DOMAIN disk = Files
    BY <2>1, NidlAssumption DEF NidlInit
  <2>3. Len(dirs) = 0
    BY <2>1 DEF NidlInit
  <2>4. QED
    BY <2>1, <2>2, <2>3, NidlAssumption DEF NidlInit, MainInv
<1>2. MainInv /\ [NidlNext]_allVars => MainInv'
  BY MainNext
<1>3. ArenaInv /\ FramesInv /\ MainInv => NidlTypeOK
  BY DEF ArenaInv, FramesInv, MainInv, NidlTypeOK, ArenaTypeOK
<1>4. QED
  BY <1>1, <1>2, <1>3, ArenaInvariant, FramesInvariant, PTL DEF NidlSpec

-----------------------------------------------------------------------------
(* Imports end.  The search for a file goes on from one candidate to the   *)
(* next, so it finds the first that exists; if imports stay in a set of no *)
(* more paths than ctx.stack has entries, cycle detection sees them all,   *)
(* and no more calls than that are ever nested.                            *)

DiskInv == disk \in Disks /\ IsList(dirs)

Searching(f) ==
  f.pc = "resolve" =>
    /\ ~(f.imp > Len(disk[f.path.file].imports)) /\ f.try \in Nat \ {0}
    /\ \A j \in 1 .. f.try - 1 :
         ~Exists(Candidates(f.path, disk[f.path.file].imports[f.imp])[j])

SearchInv ==
  phase = "parse" /\ outcome = "running" =>
    Searching(top) /\ \A i \in 1 .. Len(frames) : frames[i].imp \in Nat \ {0}

Confined(P) == ImportsStayIn(P) /\ IsFiniteSet(P) /\ Cardinality(P) <= MaxStack

Inside(P) ==
  Confined(P) =>
    /\ outcome # "overflow"
    /\ phase = "parse" /\ outcome = "running" =>
         /\ deepest <= MaxStack
         /\ \A i \in 1 .. Len(frames) : frames[i].path \in P
         /\ top.pc \in {"check", "read"} => top.target \in P

LEMMA CandidatesAreList ==
  ASSUME DiskInv, NEW p, NEW imp
  PROVE  Len(Candidates(p, imp)) \in Nat
<1>1. CASE imp.spell \in {"absolute", "detour"}
  BY <1>1 DEF Candidates
<1>2. CASE imp.spell \notin {"absolute", "detour"}
  <2>1. PICK here :
          here = <<[at |-> disk[p.file].home, path |-> Path(imp.to, p.text, p.detours),
                    bare |-> IsBare(p)]>>
    OBVIOUS
  <2>2. PICK more : more = [i \in 1 .. Len(dirs) |->
                              [at |-> dirs[i].dir, path |-> Path(imp.to, dirs[i].text, 0),
                               bare |-> FALSE]]
    OBVIOUS
  <2>3. Len(dirs) \in Nat
    BY DEF DiskInv, IsList
  <2>4. more \in Seq(Range(here) \union Range(more))
    <3>1. more \in [1 .. Len(dirs) -> Range(more)]
      BY <2>2 DEF Range
    <3>2. QED
      BY <2>3, <3>1
  <2>5. here \in Seq(Range(here) \union Range(more))
    BY <2>1 DEF Range
  <2>6. Len(here \o more) \in Nat
    BY <2>4, <2>5
  <2>7. Candidates(p, imp) = here \o more
    BY <1>2, <2>1, <2>2 DEF Candidates
  <2>8. QED
    BY <2>6, <2>7
<1>3. QED
  BY <1>1, <1>2

(* What the disk and the directories say is the same in the next state.    *)
LEMMA SameDisk ==
  ASSUME disk' = disk, dirs' = dirs
  PROVE  /\ \A p, imp : Candidates(p, imp)' = Candidates(p, imp)
         /\ \A c : Exists(c)' = Exists(c)
         /\ \A f : Searching(f)' = Searching(f)
         /\ \A P : Confined(P)' = Confined(P)
<1>1. \A p, imp : Candidates(p, imp)' = Candidates(p, imp)
  BY DEF Candidates
<1>2. \A c : Exists(c)' = Exists(c)
  BY DEF Exists
<1>3. \A f : Searching(f)' = Searching(f)
  BY <1>1, <1>2 DEF Searching
<1>4. \A p, i : Found(p, i)' = Found(p, i)
  BY <1>1, <1>2 DEF Found
<1>5. \A P : Confined(P)' = Confined(P)
  BY <1>4 DEF Confined, ImportsStayIn, NextPaths
<1>6. QED
  BY <1>1, <1>2, <1>3, <1>5

(* A step that only goes on in the innermost call.                         *)
LEMMA TopInside ==
  ASSUME FramesInv, SearchInv, NEW P, Inside(P), phase = "parse", outcome = "running",
         NEW f, TopIs(f), f.path = top.path, f.imp \in Nat \ {0}, Searching(f),
         Confined(P) => (f.pc \in {"check", "read"} => f.target \in P),
         UNCHANGED <<phase, disk, dirs, deepest, outcome>>
  PROVE  SearchInv' /\ Inside(P)'
<1>1. /\ Len(frames) \in Nat \ {0} /\ Len(frames) \in 1 .. Len(frames)
      /\ top = frames[Len(frames)]
  BY TopIsFrame
<1>2. /\ Len(frames') = Len(frames) /\ top' = f
      /\ \A i \in 1 .. Len(frames) : frames'[i] = IF i = Len(frames) THEN f ELSE frames[i]
  BY TopReplaced
<1>3. \A i \in 1 .. Len(frames) :
        frames'[i].path = frames[i].path /\ frames'[i].imp \in Nat \ {0}
  BY <1>1, <1>2 DEF SearchInv
<1>4. Searching(top)'
  <2>1. Searching(f)'
    BY SameDisk
  <2>2. QED
    BY <1>2, <2>1 DEF Searching
<1>5. SearchInv'
  BY <1>2, <1>3, <1>4 DEF SearchInv
<1>6. Confined(P)' = Confined(P)
  BY SameDisk
<1>7. Inside(P)'
  BY <1>2, <1>3, <1>6 DEF Inside
<1>8. QED
  BY <1>5, <1>7

(* A step that leaves the parser, or ends the program in another way.      *)
LEMMA QuietInside ==
  ASSUME NEW P, Inside(P), outcome # "overflow",
         \/ outcome' \in {"ok", "failed", "usage", "crash"}
         \/ outcome' = outcome /\ phase' # "parse"
  PROVE  SearchInv' /\ Inside(P)'
BY DEF SearchInv, Inside

LEMMA CallsInside ==
  ASSUME FramesInv, DiskInv, SearchInv, NEW P, Inside(P),
         StartFile \/ NextImport \/ TryCandidate \/ CheckCycle \/ ParseModule \/ Declare
           \/ MergeImport
  PROVE  SearchInv' /\ Inside(P)'
<1>1. /\ phase = "parse" /\ outcome = "running"
      /\ UNCHANGED <<phase, disk, dirs, deepest>>
  BY DEF StartFile, NextImport, TryCandidate, CheckCycle, ParseModule, Declare, MergeImport, Parsing
<1>2. /\ IsFrame(top) /\ top.imp \in Nat \ {0} /\ Searching(top)
      /\ Confined(P) => top.path \in P
  <2>1. Len(frames) \in 1 .. Len(frames) /\ top = frames[Len(frames)] /\ IsFrame(top)
    BY <1>1, TopIsFrame
  <2>2. QED
    BY <1>1, <2>1 DEF SearchInv, Inside
<1>3. ASSUME outcome' \in {"crash", "failed"}
      PROVE  SearchInv' /\ Inside(P)'
  BY <1>1, <1>3, QuietInside
<1>4. ASSUME NEW f, TopIs(f), f.path = top.path, f.imp \in Nat \ {0}, Searching(f),
             Confined(P) => (f.pc \in {"check", "read"} => f.target \in P),
             outcome' = outcome
      PROVE  SearchInv' /\ Inside(P)'
  BY <1>1, <1>4, TopInside
<1>5. ASSUME NEW f, TopIs(f), f.path = top.path, f.imp \in Nat \ {0},
             f.pc \notin {"resolve", "check", "read"}, outcome' = outcome
      PROVE  SearchInv' /\ Inside(P)'
  BY <1>4, <1>5 DEF Searching
<1>6. ASSUME NEW pc, GoTo(pc), outcome' = outcome, pc \notin {"resolve", "check", "read"}
      PROVE  SearchInv' /\ Inside(P)'
  <2>1. PICK f : f = [top EXCEPT !.pc = pc]
    OBVIOUS
  <2>2. f.path = top.path /\ f.pc = pc /\ f.imp = top.imp
    BY <1>2, <2>1 DEF IsFrame, FrameFields
  <2>3. TopIs(f)
    BY <1>6, <2>1 DEF GoTo
  <2>4. QED
    BY <1>2, <1>5, <1>6, <2>2, <2>3
<1>7. ASSUME NEW n, CrashIfNull(n)
      PROVE  SearchInv' /\ Inside(P)'
  BY <1>3, <1>7 DEF CrashIfNull, End
<1>8. ASSUME Fail
      PROVE  SearchInv' /\ Inside(P)'
  BY <1>6, <1>8 DEF Fail
<1>9. CASE StartFile
  <2>1. ASSUME NEW f, f = [top EXCEPT !.pc = "import", !.file = FALSE]
        PROVE  f.path = top.path /\ f.imp = top.imp /\ f.pc = "import"
    BY <1>2, <2>1 DEF IsFrame, FrameFields
  <2>2. CASE outcome' = outcome /\ TopIs([top EXCEPT !.pc = "import", !.file = FALSE])
    BY <1>2, <1>5, <2>1, <2>2
  <2>3. QED
    BY <1>3, <1>6, <1>9, <2>2 DEF StartFile, End
<1>10. CASE NextImport
  <2>1. CASE GoTo("module") /\ outcome' = outcome
    BY <1>6, <2>1
  <2>2. CASE /\ ~(top.imp > Len(Contents.imports)) /\ outcome' = outcome
             /\ TopIs([top EXCEPT !.pc = "resolve", !.try = 1])
    <3>1. PICK f : f = [top EXCEPT !.pc = "resolve", !.try = 1]
      OBVIOUS
    <3>2. f.path = top.path /\ f.imp = top.imp /\ f.try = 1 /\ f.pc = "resolve"
      BY <1>2, <3>1 DEF IsFrame, FrameFields
    <3>3. Searching(f)
      <4>1. 1 .. f.try - 1 = {}
        BY <3>2
      <4>2. QED
        BY <2>2, <3>2, <4>1 DEF Searching, Contents
    <3>4. QED
      BY <1>2, <1>4, <2>2, <3>1, <3>2, <3>3
  <2>3. QED
    BY <1>7, <1>10, <2>1, <2>2 DEF NextImport
<1>11. CASE TryCandidate
  <2>1. PICK places : places = Candidates(top.path, Import)
    OBVIOUS
  <2>2. PICK imports : imports = disk[top.path.file].imports
    OBVIOUS
  <2>3. /\ top.pc = "resolve" /\ ~(top.imp > Len(imports)) /\ top.try \in Nat \ {0}
        /\ \A j \in 1 .. top.try - 1 : ~Exists(places[j])
    <3>1. top.pc = "resolve"
      BY <1>11 DEF TryCandidate, Parsing
    <3>2. QED
      BY <1>2, <2>1, <2>2, <3>1 DEF Searching, Import, Contents
  <2>4. CASE /\ ~(top.try > Len(places)) /\ outcome' = outcome /\ Exists(places[top.try])
             /\ TopIs([top EXCEPT !.pc = "check", !.target = places[top.try].path])
    <3>1. PICK f : f = [top EXCEPT !.pc = "check", !.target = places[top.try].path]
      OBVIOUS
    <3>2. /\ f.path = top.path /\ f.imp = top.imp /\ f.pc = "check"
          /\ f.target = places[top.try].path
      BY <1>2, <3>1 DEF IsFrame, FrameFields
    <3>3. ASSUME Confined(P)
          PROVE  f.target \in P
      <4>1. /\ top.path \in P /\ top.path.file \in Files
            /\ NextPaths(top.path) \subseteq P
        BY <1>2, <3>3 DEF Confined, ImportsStayIn
      <4>2. Len(imports) \in Nat
        BY <2>2, <4>1, NidlAssumption DEF DiskInv
      <4>3. top.imp \in 1 .. Len(imports)
        BY <1>2, <2>3, <4>2
      <4>4. Len(places) \in Nat
        BY <2>1, CandidatesAreList
      <4>5. top.try \in 1 .. Len(places)
        BY <2>3, <2>4, <4>4
      <4>6. places = Candidates(top.path, disk[top.path.file].imports[top.imp])
        BY <2>1 DEF Import, Contents
      <4>7. places[top.try].path \in Found(top.path, top.imp)
        BY <2>3, <2>4, <4>5, <4>6 DEF Found
      <4>8. Found(top.path, top.imp) \subseteq NextPaths(top.path)
        BY <2>2, <4>3 DEF NextPaths
      <4>9. QED
        BY <3>2, <4>1, <4>7, <4>8
    <3>4. Searching(f)
      BY <3>2 DEF Searching
    <3>5. QED
      BY <1>2, <1>4, <2>4, <3>1, <3>2, <3>3, <3>4
  <2>5. CASE /\ outcome' = outcome /\ ~Exists(places[top.try])
             /\ TopIs([top EXCEPT !.try = @ + 1])
    <3>1. PICK f : f = [top EXCEPT !.try = @ + 1]
      OBVIOUS
    <3>2. /\ f.path = top.path /\ f.imp = top.imp /\ f.pc = "resolve"
          /\ f.try = top.try + 1
      BY <1>2, <2>3, <3>1 DEF IsFrame, FrameFields
    <3>3. f.try \in Nat \ {0} /\ \A j \in 1 .. f.try - 1 : ~Exists(places[j])
      BY <2>3, <2>5, <3>2
    <3>4. Searching(f)
      BY <2>1, <2>2, <2>3, <3>2, <3>3 DEF Searching, Import, Contents
    <3>5. QED
      BY <1>2, <1>4, <2>5, <3>1, <3>2, <3>4
  <2>6. QED
    BY <1>8, <1>11, <2>1, <2>4, <2>5 DEF TryCandidate
<1>12. CASE CheckCycle
  <2>1. CASE GoTo("read") /\ outcome' = outcome
    <3>1. PICK f : f = [top EXCEPT !.pc = "read"]
      OBVIOUS
    <3>2. /\ f.path = top.path /\ f.imp = top.imp /\ f.pc = "read"
          /\ f.target = top.target
      BY <1>2, <3>1 DEF IsFrame, FrameFields
    <3>3. top.pc = "check"
      BY <1>12 DEF CheckCycle, Parsing
    <3>4. Confined(P) => f.target \in P
      BY <1>1, <3>2, <3>3 DEF Inside
    <3>5. TopIs(f) /\ Searching(f)
      BY <2>1, <3>1, <3>2 DEF GoTo, Searching
    <3>6. QED
      BY <1>2, <1>4, <2>1, <3>2, <3>4, <3>5
  <2>2. QED
    BY <1>8, <1>12, <2>1 DEF CheckCycle
<1>13. CASE ParseModule
  <2>1. CASE /\ TopIs([top EXCEPT !.pc = "decl", !.ast.module = Contents.module])
             /\ outcome' = outcome
    <3>1. PICK m : m = Contents.module
      OBVIOUS
    <3>2. PICK f : f = [top EXCEPT !.pc = "decl", !.ast.module = m]
      OBVIOUS
    <3>3. f.path = top.path /\ f.imp = top.imp /\ f.pc = "decl"
      BY <1>2, <3>2 DEF IsFrame, FrameFields
    <3>4. QED
      BY <1>2, <1>5, <2>1, <3>1, <3>2, <3>3
  <2>2. QED
    BY <1>3, <1>6, <1>8, <1>13, <2>1 DEF ParseModule, End
<1>14. CASE Declare
  <2>1. top.pc = "decl"
    BY <1>14 DEF Declare, Parsing
  <2>2. ASSUME NEW f, NEW d, NEW i, NEW s,
               f = [top EXCEPT !.decl = d, !.ast.ifaces = i, !.ast.structs = s]
        PROVE  f.path = top.path /\ f.imp = top.imp /\ f.pc = "decl"
    BY <1>2, <2>1, <2>2 DEF IsFrame, FrameFields
  <2>3. \/ /\ outcome' = outcome
           /\ \E f : TopIs(f) /\ f.path = top.path /\ f.imp = top.imp /\ f.pc = "decl"
        \/ Fail \/ outcome' = "crash"
    BY <1>14, <2>2, DeclareCases
  <2>4. QED
    BY <1>2, <1>3, <1>5, <1>8, <2>3
<1>15. CASE MergeImport
  <2>1. ASSUME NEW f, NEW i, NEW s, NEW m,
               f = [top EXCEPT !.pc = "import", !.imp = @ + 1, !.child = NULL, !.target = NULL,
                               !.ast.ifaces = i, !.ast.structs = s, !.ast.imports = m]
        PROVE  f.path = top.path /\ f.imp \in Nat \ {0} /\ f.pc = "import"
    BY <1>2, <2>1 DEF IsFrame, FrameFields
  <2>2. \/ /\ outcome' = outcome
           /\ \E f : TopIs(f) /\ f.path = top.path /\ f.imp \in Nat \ {0} /\ f.pc = "import"
        \/ outcome' = "crash"
    BY <1>15, <2>1 DEF MergeImport, CrashIfNull, End
  <2>3. QED
    BY <1>3, <1>5, <2>2
<1>16. QED
  BY <1>9, <1>10, <1>11, <1>12, <1>13, <1>14, <1>15

(* The paths of the calls, and one more that is none of them, fit into a   *)
(* set that they are all in.                                               *)
LEMMA OneMoreFits ==
  ASSUME NEW P, IsFiniteSet(P), NEW n \in Nat, NEW q \in [1 .. n -> P], NEW x \in P,
         \A i \in 1 .. n : q[i] # x,
         \A i, j \in 1 .. n : q[i] = q[j] => i = j
  PROVE  n + 1 <= Cardinality(P)
<1>1. PICK f : f = [i \in 1 .. n + 1 |-> IF i = n + 1 THEN x ELSE q[i]]
  OBVIOUS
<1>2. \A i \in 1 .. n + 1 : i = n + 1 \/ i \in 1 .. n
  OBVIOUS
<1>3. f \in [1 .. n + 1 -> P]
  BY <1>1, <1>2
<1>4. \A i, j \in 1 .. n + 1 : f[i] = f[j] => i = j
  BY <1>1, <1>2
<1>5. f \in Injection(1 .. n + 1, P)
  BY <1>3, <1>4 DEF Injection, IsInjective
<1>6. Cardinality(1 .. n + 1) <= Cardinality(P)
  BY <1>5, FS_Injection
<1>7. Cardinality(1 .. n + 1) = n + 1
  BY FS_Interval
<1>8. QED
  BY <1>6, <1>7

LEMMA EnterInside ==
  ASSUME FramesInv, StackInv, SearchInv, NEW P, Inside(P), EnterImport
  PROVE  SearchInv' /\ Inside(P)'
<1>1. /\ phase = "parse" /\ outcome = "running" /\ top.pc = "read"
      /\ UNCHANGED <<phase, disk, dirs>>
  BY DEF EnterImport, Parsing
<1>2. PICK n : n = Len(frames)
  OBVIOUS
<1>3. /\ n \in Nat \ {0} /\ n \in 1 .. n /\ top = frames[n] /\ IsFrame(top)
      /\ n <= deepest /\ deepest \in Nat /\ MaxStack \in Nat /\ MaxFrames \in Nat
      /\ MaxStack < MaxFrames
  BY <1>1, <1>2, TopIsFrame, NidlAssumption DEF FramesInv
<1>4. Confined(P)' = Confined(P)
  BY <1>1, SameDisk
<1>5. Confined(P) => /\ deepest <= MaxStack /\ top.target \in P
                     /\ \A i \in 1 .. n : frames[i].path \in P
  BY <1>1, <1>2 DEF Inside
<1>6. CASE Fail /\ deepest' = deepest
  <2>1. PICK f : f = [top EXCEPT !.pc = "fail"]
    OBVIOUS
  <2>2. f.path = top.path /\ f.imp = top.imp /\ f.pc = "fail"
    BY <1>3, <2>1 DEF IsFrame, FrameFields
  <2>3. TopIs(f) /\ outcome' = outcome
    BY <1>6, <2>1 DEF Fail, GoTo
  <2>4. f.imp \in Nat \ {0} /\ Searching(f)
    BY <1>1, <1>2, <1>3, <2>2 DEF SearchInv, Searching
  <2>5. QED
    BY <1>1, <1>6, <2>2, <2>3, <2>4, TopInside
<1>7. CASE n = MaxFrames /\ End("overflow")
  <2>1. ~Confined(P)
    BY <1>3, <1>5, <1>7
  <2>2. QED
    BY <1>4, <1>7, <2>1 DEF SearchInv, Inside, End
<1>8. CASE /\ frames' = Append([frames EXCEPT ![Len(frames)].pc = "wait"], Frame(top.target))
           /\ deepest' = Max({deepest, n + 1}) /\ outcome' = outcome
  <2>1. PICK g : g = [frames[n] EXCEPT !.pc = "wait"]
    OBVIOUS
  <2>2. PICK h : h = Frame(top.target)
    OBVIOUS
  <2>3. /\ Len(frames') = n + 1 /\ top' = h /\ frames'[n + 1] = h
        /\ \A i \in 1 .. n : frames'[i] = IF i = n THEN g ELSE frames[i]
    BY <1>1, <1>2, <1>8, <2>1, <2>2, FramePushed
  <2>4. g.path = frames[n].path /\ g.imp = frames[n].imp
    BY <1>3, <2>1 DEF IsFrame, FrameFields
  <2>5. h.path = top.target /\ h.imp = 1 /\ h.pc = "start"
    BY <2>2 DEF Frame
  <2>6. \A i \in 1 .. n + 1 : i = n + 1 \/ i \in 1 .. n
    BY <1>3
  <2>7. SearchInv'
    <3>1. \A i \in 1 .. n + 1 : frames'[i].imp \in Nat \ {0}
      BY <1>1, <1>2, <2>3, <2>4, <2>5, <2>6 DEF SearchInv
    <3>2. top'.pc # "resolve"
      BY <2>3, <2>5
    <3>3. QED
      BY <2>3, <3>1, <3>2 DEF SearchInv, Searching
  <2>8. ASSUME Confined(P)
        PROVE  /\ deepest' <= MaxStack
               /\ \A i \in 1 .. n + 1 : frames'[i].path \in P
               /\ top'.pc \notin {"check", "read"}
    <3>1. /\ \A i, j \in 1 .. n : frames[i].path = frames[j].path => i = j
          /\ \A i \in 1 .. n : frames[i].path # top.target
      BY <1>1, <1>2, <1>5, <2>8 DEF StackInv
    <3>2. n + 1 <= Cardinality(P)
      <4>1. PICK q : q = [i \in 1 .. n |-> frames[i].path]
        OBVIOUS
      <4>2. PICK x : x = top.target
        OBVIOUS
      <4>3. IsFiniteSet(P) /\ x \in P /\ n \in Nat /\ q \in [1 .. n -> P]
        BY <1>3, <1>5, <2>8, <4>1, <4>2 DEF Confined
      <4>4. /\ \A i \in 1 .. n : q[i] # x
            /\ \A i, j \in 1 .. n : q[i] = q[j] => i = j
        BY <3>1, <4>1, <4>2
      <4>5. QED
        BY <4>3, <4>4, OneMoreFits
    <3>3. n + 1 <= MaxStack
      <4>1. Cardinality(P) \in Nat /\ Cardinality(P) <= MaxStack
        BY <2>8, FS_CardinalityType DEF Confined
      <4>2. QED
        BY <1>3, <3>2, <4>1
    <3>4. deepest' \in {deepest, n + 1}
      BY <1>3, <1>8, LargerOf
    <3>5. deepest' <= MaxStack
      BY <1>5, <2>8, <3>3, <3>4
    <3>6. QED
      BY <1>3, <1>5, <2>3, <2>4, <2>5, <2>6, <2>8, <3>5
  <2>9. Inside(P)'
    BY <1>1, <1>4, <1>8, <2>3, <2>8 DEF Inside
  <2>10. QED
    BY <2>7, <2>9
<1>9. QED
  BY <1>2, <1>6, <1>7, <1>8 DEF EnterImport

LEMMA ReturnInside ==
  ASSUME FramesInv, StackInv, SearchInv, NEW P, Inside(P), CloseFile \/ ReturnNull
  PROVE  SearchInv' /\ Inside(P)'
<1>1. phase = "parse" /\ outcome = "running" /\ UNCHANGED <<disk, dirs, deepest>>
  BY DEF CloseFile, ReturnNull, Parsing
<1>2. CASE Len(frames) = 1
  BY <1>1, <1>2, QuietInside DEF CloseFile, ReturnNull, End
<1>3. CASE Len(frames) # 1
  <2>1. PICK n : n = Len(frames) - 1
    OBVIOUS
  <2>2. PICK g : /\ IsFrame(g) /\ g.path = frames[n].path /\ g.imp = frames[n].imp
                 /\ g.pc \in {"merge", "fail"} /\ GoesOn(n, g)
    BY <1>3, <2>1, CallerFrame
  <2>3. stack' = Popped(stack) /\ phase' = phase /\ outcome' = outcome
    BY <1>3 DEF CloseFile, ReturnNull
  <2>4. /\ Len(frames') = n /\ top' = g /\ frames'[n] = g
        /\ \A i \in 1 .. n : i # n => frames'[i] = frames[i]
    <3>1. IsFrame(g) /\ g.path = frames[n].path /\ g.pc # "read"
      BY <2>2
    <3>2. deepest' = deepest /\ phase = "parse" /\ outcome = "running"
      BY <1>1
    <3>3. GoesOn(n, g) /\ stack' = Popped(stack) /\ phase' = phase
      BY <2>2, <2>3
    <3>4. QED
      BY <1>3, <2>1, <3>1, <3>2, <3>3, PopStep
  <2>5. n \in Nat \ {0} /\ \A i \in 1 .. n : i \in 1 .. Len(frames)
    BY <1>1, <1>3, <2>1, TopIsFrame
  <2>6. \A i \in 1 .. n : frames'[i].path = frames[i].path /\ frames'[i].imp = frames[i].imp
    BY <2>2, <2>4
  <2>7. SearchInv'
    BY <1>1, <2>2, <2>4, <2>5, <2>6 DEF SearchInv, Searching
  <2>8. Confined(P)' = Confined(P)
    BY <1>1, SameDisk
  <2>9. Inside(P)'
    BY <1>1, <2>2, <2>3, <2>4, <2>5, <2>6, <2>8 DEF Inside
  <2>10. QED
    BY <2>7, <2>9
<1>4. QED
  BY <1>2, <1>3

LEMMA ReadRootInside ==
  ASSUME NEW P, Inside(P), ReadRoot
  PROVE  SearchInv' /\ Inside(P)'
<1>1. phase = "read" /\ outcome = "running" /\ UNCHANGED <<disk, dirs>>
  BY DEF ReadRoot
<1>2. CASE End("failed")
  BY <1>1, <1>2, QuietInside DEF End
<1>3. CASE frames' = <<Frame(RootPath)>> /\ deepest' = 1 /\ outcome' = outcome
  <2>1. PICK f : f = Frame(RootPath)
    OBVIOUS
  <2>2. f.path = RootPath /\ f.imp = 1 /\ f.pc = "start"
    BY <2>1 DEF Frame
  <2>3. Len(frames') = 1 /\ top' = f /\ frames'[1] = f
    BY <1>3, <2>1 DEF top
  <2>4. \A i \in 1 .. 1 : i = 1
    OBVIOUS
  <2>5. SearchInv'
    BY <2>2, <2>3, <2>4 DEF SearchInv, Searching
  <2>6. Confined(P)' = Confined(P)
    BY <1>1, SameDisk
  <2>7. Confined(P) => RootPath \in P
    BY DEF Confined, ImportsStayIn
  <2>8. 1 <= MaxStack
    BY NidlAssumption
  <2>9. Inside(P)'
    BY <1>1, <1>3, <2>2, <2>3, <2>4, <2>6, <2>7, <2>8 DEF Inside
  <2>10. QED
    BY <2>5, <2>9
<1>4. QED
  BY <1>2, <1>3 DEF ReadRoot

(* The disk is what it was, and the directories are the list that main     *)
(* made of those of the environment and those of -I.                       *)
LEMMA DiskStep ==
  ASSUME DiskInv, [NidlNext]_allVars
  PROVE  DiskInv'
<1>1. CASE UNCHANGED <<disk, dirs>>
  BY <1>1 DEF DiskInv, IsList
<1>2. CASE CollectDirs
  <2>1. PICK choice \in DirChoices :
          dirs' = dirs \/ dirs' = choice.env \o choice.cli
    BY <1>2 DEF CollectDirs
  <2>2. PICK e, c : e = choice.env /\ c = choice.cli
    OBVIOUS
  <2>3. e \in Seq(Range(e) \union Range(c)) /\ c \in Seq(Range(e) \union Range(c))
    <3>1. e \in Seq(Range(e)) /\ c \in Seq(Range(c))
      BY <2>2, NidlAssumption DEF IsList
    <3>2. QED
      BY <3>1
  <2>4. IsList(e \o c)
    <3>1. e \o c \in Seq(Range(e) \union Range(c))
      BY <2>3
    <3>2. QED
      BY <3>1, SeqOfRange DEF IsList
  <2>5. disk' = disk
    BY <1>2 DEF CollectDirs
  <2>6. QED
    BY <2>1, <2>2, <2>4, <2>5 DEF DiskInv, IsList
<1>3. CASE UNCHANGED allVars
  BY <1>1, <1>3 DEF allVars, nidlVars
<1>4. CASE NidlNext /\ ~CollectDirs
  <2>1. CASE \/ StartFile \/ NextImport \/ TryCandidate \/ CheckCycle \/ ParseModule
             \/ Declare \/ MergeImport
    BY <1>1, <2>1 DEF StartFile, NextImport, TryCandidate, CheckCycle, ParseModule, Declare,
       MergeImport
  <2>2. CASE ReadRoot \/ EnterImport \/ CloseFile \/ ReturnNull
    BY <1>1, <2>2 DEF ReadRoot, EnterImport, CloseFile, ReturnNull
  <2>3. CASE WriteHeader \/ EmitHeader \/ WriteWit \/ Ended
    BY <1>1, <2>3 DEF WriteHeader, EmitHeader, WriteWit, Ended, allVars, nidlVars
  <2>4. QED
    BY <1>4, <2>1, <2>2, <2>3 DEF NidlNext
<1>5. QED
  BY <1>2, <1>3, <1>4

LEMMA InsideNext ==
  ASSUME FramesInv, StackInv, DiskInv, SearchInv, NEW P, Inside(P), [NidlNext]_allVars
  PROVE  SearchInv' /\ Inside(P)'
<1>1. CASE CollectDirs
  <2>1. /\ phase = "dirs" /\ outcome = "running"
        /\ \/ outcome' = "usage"
           \/ outcome' = outcome /\ phase' = "read"
    BY <1>1 DEF CollectDirs, End
  <2>2. QED
    BY <2>1, QuietInside
<1>2. CASE ReadRoot
  BY <1>2, ReadRootInside
<1>3. CASE StartFile \/ NextImport \/ TryCandidate \/ CheckCycle \/ ParseModule \/ Declare
             \/ MergeImport
  BY <1>3, CallsInside
<1>4. CASE EnterImport
  BY <1>4, EnterInside
<1>5. CASE CloseFile \/ ReturnNull
  BY <1>5, ReturnInside
<1>6. CASE WriteHeader \/ EmitHeader \/ WriteWit
  <2>1. outcome = "running"
    BY <1>6 DEF WriteHeader, EmitHeader, WriteWit
  <2>2. \/ outcome' \in {"ok", "failed", "crash"}
        \/ outcome' = outcome /\ phase' # "parse"
    BY <1>6 DEF WriteHeader, EmitHeader, WriteWit, End
  <2>3. QED
    BY <2>1, <2>2, QuietInside
<1>7. CASE Ended \/ UNCHANGED allVars
  <2>1. UNCHANGED <<disk, dirs, phase, frames, deepest, outcome>>
    BY <1>7 DEF Ended, allVars, nidlVars
  <2>2. top' = top /\ Searching(top)' = Searching(top)
    BY <2>1 DEF top, Searching, Exists, Candidates
  <2>3. Confined(P)' = Confined(P)
    BY <2>1, SameDisk
  <2>4. QED
    BY <2>1, <2>2, <2>3 DEF SearchInv, Inside
<1>8. QED
  BY <1>1, <1>2, <1>3, <1>4, <1>5, <1>6, <1>7 DEF NidlNext

EndInv == DiskInv /\ SearchInv /\ \A P : Inside(P)

(* The search for a file passes over none that exists, and whatever set of *)
(* paths the imports stay in, if it has no more paths than ctx.stack has   *)
(* entries, cycle detection sees every path that is being parsed, and the  *)
(* calls of nidl_parse_internal are on pairwise different paths of it.     *)
THEOREM SearchInvariant == NidlSpec => []EndInv
<1>1. NidlInit => EndInv
  <2>1. SUFFICES ASSUME NidlInit
                 PROVE  EndInv
    OBVIOUS
  <2>2. disk \in Disks /\ dirs = <<>> /\ phase = "dirs" /\ outcome = "running"
    BY <2>1 DEF NidlInit
  <2>3. IsList(dirs)
    <3>1. dirs \in Seq({})
      BY <2>2
    <3>2. QED
      BY <3>1, SeqOfRange DEF IsList
  <2>4. QED
    BY <2>2, <2>3 DEF EndInv, DiskInv, SearchInv, Inside
<1>2. EndInv /\ FramesInv /\ StackInv /\ [NidlNext]_allVars => EndInv'
  <2>1. SUFFICES ASSUME EndInv, FramesInv, StackInv, [NidlNext]_allVars
                 PROVE  DiskInv' /\ SearchInv' /\ \A P : Inside(P)'
    BY DEF EndInv
  <2>2. DiskInv'
    BY <2>1, DiskStep DEF EndInv
  <2>3. \A P : SearchInv' /\ Inside(P)'
    BY <2>1, InsideNext DEF EndInv
  <2>4. QED
    BY <2>2, <2>3
<1>3. QED
  BY <1>1, <1>2, FramesInvariant, PTL DEF NidlSpec

(* Imports end: if imports stay in a set of no more paths than ctx.stack   *)
(* has entries, there is room for all the calls that are ever nested.      *)
THEOREM ImportsEnd == NidlSpec => []FewPathsEnd
<1>1. EndInv => FewPathsEnd
  BY DEF EndInv, FewPathsEnd, Inside, Confined
<1>2. QED
  BY <1>1, SearchInvariant, PTL

-----------------------------------------------------------------------------
(* Trees.  What a call has read, and what it has merged, depends on its    *)
(* file and on how far it is in it: the interfaces declared so far, the    *)
(* latest first, before one copy of each that the imports so far lead to.  *)
(* What memory did not suffice for is only the copies of single tokens, so *)
(* a node's name, if it has one, is that of its declaration, and the rest  *)
(* is said of the declarations' names.  The generators get the tree of the *)
(* whole root file, and what they make of it is the subject of             *)
(* CodegenProofs.                                                          *)

(* Nodes of a tree: what the merge sets is there, and parameters have one  *)
(* of the directions.                                                      *)
IsNode(x) ==
  /\ {"name", "imported", "source", "text"} \subseteq DOMAIN x
  /\ x.name \in {x.text, NULL}

IsCallable(x) == "methods" \in DOMAIN x /\ \A k \in 1 .. Len(x.methods) : IsMethod(x.methods[k])

IsAst(t) == DOMAIN t = {"module", "ifaces", "structs", "imports"}

(* What the parser makes of declaration d of file g.                       *)
IsOwn(x, d, g) == \E lost \in SUBSET Texts(d) : x = Iface(d, g, lost)

(* The first own elements of the list are g's first declarations.          *)
OwnFirst(l, g, own) ==
  own \in 0 .. Len(l) /\ \A i \in 1 .. own : IsOwn(l[i], disk[g].ifaces[own + 1 - i], g)

(* The others are imported, are those that are called ns, and no two of    *)
(* them have the same name.                                                *)
OthersImported(l, own, ns) ==
  /\ \A i \in own + 1 .. Len(l) : l[i].imported /\ l[i].text \in ns
  /\ \A i, j \in own + 1 .. Len(l) :
       l[i].name # NULL /\ l[i].name = l[j].name => i = j
  /\ \A x \in ns : \E i \in own + 1 .. Len(l) : l[i].text = x

(* The names that the first k imports of g bring.                          *)
Imported(g, k) == NamesIn(UNION {Closure(disk[g].imports[j].to) : j \in 1 .. k})

(* The j-th import of g is the first one that x arrives by, and its module *)
(* is what x is said to come from.                                         *)
ArrivesBy(x, g, j) ==
  LET f == disk[g].imports[j].to IN
  x.source = disk[f].module /\ x.text \in NamesIn(Closure(f)) \ Imported(g, j - 1)

(* Memory has sufficed for every node that x may be a duplicate of.        *)
AllNamed(l, x) == \A y \in Range(l) : y.text = x.text => y.name # NULL

(* Where the first k imports of g are said to have brought a node from.    *)
Sourced(l, g, k) ==
  \A x \in Range(l) :
    x.imported /\ x.source # NULL /\ AllNamed(l, x) => \E j \in 1 .. k : ArrivesBy(x, g, j)

(* The tree of file g after k of its imports and own of its interfaces.    *)
Tree(t, g, k, own) ==
  /\ IsAst(t) /\ IsList(t.ifaces) /\ IsList(t.structs) /\ IsList(t.imports)
  /\ \A x \in Range(t.ifaces) : IsNode(x) /\ IsCallable(x)
  /\ \A x \in Range(t.structs) : IsNode(x)
  /\ OwnFirst(t.ifaces, g, own)
  /\ OthersImported(t.ifaces, own, Imported(g, k)) /\ Sourced(t.ifaces, g, k)
  /\ t.module \in {disk[g].module, NULL}

Whole(t, g) == Tree(t, g, Len(disk[g].imports), Len(disk[g].ifaces))

Declarations(g) == Len(disk[g].ifaces) + Len(disk[g].structs)

(* How many of the first d declarations are interfaces.                    *)
IfacesOf(g, d) == IF d <= Len(disk[g].ifaces) THEN d ELSE Len(disk[g].ifaces)

(* A call: it is as far in its file as its tree says, and it waits for and *)
(* merges the file that its import names.                                  *)
Good(f) ==
  LET g == f.path.file
      imports == disk[g].imports
  IN /\ g \in Files
     /\ f.imp \in 1 .. Len(imports) + 1 /\ f.decl \in 1 .. Declarations(g) + 1
     /\ f.pc \in {"resolve", "check", "read", "wait", "merge"} => f.imp <= Len(imports)
     /\ f.pc \in {"module", "decl"} => f.imp = Len(imports) + 1
     /\ f.pc \notin {"decl", "fail"} => f.decl = 1
     /\ f.pc \in {"check", "read", "wait"} => f.target.file = imports[f.imp].to
     /\ f.pc = "merge" => Whole(f.child, imports[f.imp].to)
     /\ Tree(f.ast, g, f.imp - 1, IfacesOf(g, f.decl - 1))

CallsInv ==
  phase = "parse" =>
    /\ \A f \in Range(frames) : Good(f)
    /\ frames[1].path = RootPath
    /\ \A i \in 1 .. Len(frames) - 1 :
         frames[i].pc = "wait" /\ frames[i + 1].path = frames[i].target

TreeInv == phase \in {"gen_c", "emit_c", "gen_wit"} => Whole(ast, Root)
-----------------------------------------------------------------------------
(* The merge.                                                              *)

Copy(x, m) == [x EXCEPT !.imported = TRUE, !.source = m]

IsMerging(f, list, new, m) ==
  /\ f[0] = list /\ f[Len(new)] = Merge(list, new, m)
  /\ \A i \in 1 .. Len(new) :
       f[i] = IF Known(f[i - 1], new[i]) THEN f[i - 1]
              ELSE <<Copy(new[i], m)>> \o f[i - 1]

LEMMA MergeLoop ==
  ASSUME NEW list, IsList(list), NEW new, IsList(new), NEW m
  PROVE  \E f : IsMerging(f, list, new, m)
<1> DEFINE Put(t, i) == IF Known(t, new[i]) THEN t ELSE <<Copy(new[i], m)>> \o t
<1>1. PICK n, U : n = Len(new) /\ U = Range(list) \union {Copy(new[i], m) : i \in 1 .. Len(new)}
  OBVIOUS
<1>2. PICK G : G = Seq(U)
  OBVIOUS
<1>3. n \in Nat /\ list \in G /\ \A i \in 1 .. n : Copy(new[i], m) \in U
  <2>1. n \in Nat
    BY <1>1, ListRange
  <2>2. list \in Seq(Range(list)) /\ Range(list) \subseteq U
    BY <1>1 DEF IsList
  <2>3. QED
    BY <1>1, <1>2, <2>1, <2>2
<1>4. PICK step : step = [i \in 1 .. n |-> [t \in G |-> Put(t, i)]]
  OBVIOUS
<1>5. ASSUME NEW i \in 1 .. n, NEW t \in G
      PROVE  Put(t, i) \in G
  <2>1. PICK x : x = Copy(new[i], m)
    OBVIOUS
  <2>2. x \in U /\ t \in Seq(U)
    BY <1>2, <1>3, <2>1
  <2>3. <<x>> \o t \in Seq(U)
    BY <2>2
  <2>4. QED
    BY <1>2, <2>1, <2>2, <2>3
<1> HIDE DEF Put
<1>6. step \in [1 .. n -> [G -> G]]
  BY <1>4, <1>5
<1>7. PICK f \in [0 .. n -> G] : IsLoop(f, n, list, step)
  BY <1>3, <1>6, Recursion
<1>8. \A i \in 1 .. n : f[i] = Put(f[i - 1], i)
  <2>1. \A i \in 1 .. n : f[i] = step[i][f[i - 1]] /\ f[i - 1] \in G
    BY <1>3, <1>7 DEF IsLoop
  <2>2. QED
    BY <1>4, <2>1
<1>9. PICK M : M = 0 .. n
  OBVIOUS
<1>10. f = [i \in M |-> IF i = 0 THEN list ELSE Put(f[i - 1], i)]
  <2>1. \A i \in M : i = 0 \/ i \in 1 .. n
    BY <1>3, <1>9
  <2>2. f[0] = list
    BY <1>7 DEF IsLoop
  <2>3. \A i \in M : f[i] = IF i = 0 THEN list ELSE Put(f[i - 1], i)
    BY <1>8, <2>1, <2>2
  <2>4. QED
    BY <1>7, <1>9, <2>3
<1>11. PICK e : /\ e = [i \in M |-> IF i = 0 THEN list ELSE Put(e[i - 1], i)]
                /\ Merge(list, new, m) = e[n]
  <2>1. PICK e : e = CHOOSE g : g = [i \in M |-> IF i = 0 THEN list ELSE Put(g[i - 1], i)]
    OBVIOUS
  <2>2. e = [i \in M |-> IF i = 0 THEN list ELSE Put(e[i - 1], i)]
    BY <1>10, <2>1, Zenon
  <2>3. Merge(list, new, m) = e[n]
    BY <1>1, <1>9, <2>1, Zenon DEF Merge, Put, Copy
  <2>4. QED
    BY <2>2, <2>3
<1>12. e = f
  <2>1. PICK T : T = {i \in Nat : i <= n => e[i] = f[i]}
    OBVIOUS
  <2>2. 0 \in T
    <3>1. 0 \in M
      BY <1>3, <1>9
    <3>2. e[0] = list /\ f[0] = list
      BY <1>10, <1>11, <3>1
    <3>3. QED
      BY <2>1, <3>2
  <2>3. ASSUME NEW i \in Nat, i < n, i \in T
        PROVE  i + 1 \in T
    <3>1. i + 1 \in M /\ (i + 1) - 1 = i /\ i + 1 # 0
      BY <1>3, <1>9, <2>3
    <3>2. e[i] = f[i]
      BY <1>3, <2>1, <2>3
    <3>3. e[i + 1] = Put(e[i], i + 1)
      BY <1>11, <3>1
    <3>4. f[i + 1] = Put(f[i], i + 1)
      BY <1>10, <3>1
    <3>5. QED
      BY <2>1, <3>2, <3>3, <3>4
  <2>4. 0 .. n \subseteq T
    BY <1>3, <2>2, <2>3, UpTo
  <2>5. \A i \in M : e[i] = f[i]
    BY <1>9, <2>1, <2>4
  <2>6. QED
    BY <1>10, <1>11, <2>5
<1>13. f[0] = list /\ f[n] = Merge(list, new, m)
  BY <1>7, <1>11, <1>12 DEF IsLoop
<1>14. QED
  BY <1>1, <1>8, <1>13 DEF IsMerging, Put

Once(l) == \A i, j \in 1 .. Len(l) : l[i].name # NULL /\ l[i].name = l[j].name => i = j

(* t is what the merge has made of list with the first i elements of new.  *)
Merged(t, list, new, m, i) ==
  /\ IsList(t) /\ Range(list) \subseteq Range(t)
  /\ \A x \in Range(t) :
       \/ x \in Range(list)
       \/ \E j \in 1 .. i : x = Copy(new[j], m) /\ ~Known(list, new[j])
  /\ \A j \in 1 .. i : Copy(new[j], m) \in Range(t) \/ Known(t, new[j])
  /\ Once(list) => Once(t)

(* One round of the merge.                                                 *)
LEMMA MergeRound ==
  ASSUME NEW list, NEW new, IsList(new), \A x \in Range(new) : IsNode(x), NEW m,
         NEW i \in Nat, i < Len(new), NEW t, Merged(t, list, new, m, i),
         NEW u, u = IF Known(t, new[i + 1]) THEN t ELSE <<Copy(new[i + 1], m)>> \o t
  PROVE  Merged(u, list, new, m, i + 1)
<1>1. Len(new) \in Nat /\ i + 1 \in 1 .. Len(new) /\ IsList(t)
  BY ListRange DEF Merged
<1>2. \A j \in 1 .. i + 1 : j = i + 1 \/ j \in 1 .. i
  OBVIOUS
<1>3. i + 1 \in 1 .. i + 1 /\ \A j \in 1 .. i : j \in 1 .. i + 1
  OBVIOUS
<1>4. CASE Known(t, new[i + 1])
  BY <1>2, <1>3, <1>4 DEF Merged
<1>5. CASE ~Known(t, new[i + 1])
  <2>1. PICK x : x = Copy(new[i + 1], m)
    OBVIOUS
  <2>2. x.name = new[i + 1].name
    <3>1. IsNode(new[i + 1])
      BY <1>1, ListRange
    <3>2. QED
      BY <2>1, <3>1 DEF Copy, IsNode
  <2>3. u = <<x>> \o t
    BY <1>5, <2>1
  <2>4. IsList(u) /\ u[1] = x /\ Range(u) = Range(t) \union {x}
    <3>1. IsList(u)
      BY <1>1, <2>3, ListPrepend
    <3>2. u[1] = x
      BY <1>1, <2>3, ListPrepend
    <3>3. Range(u) = Range(t) \union {x}
      BY <1>1, <2>3, RangePrepended
    <3>4. QED
      BY <3>1, <3>2, <3>3
  <2>5. \A k \in 1 .. Len(u) : k = 1 \/ (k - 1 \in 1 .. Len(t) /\ u[k] = t[k - 1])
    BY <1>1, <2>3, ListPrepend
  <2>6. \A k \in 1 .. Len(t) : x.name # NULL => t[k].name # x.name
    BY <1>1, <1>5, <2>2, ListRange DEF Known
  <2>7. ASSUME Once(t)
        PROVE  Once(u)
    <3>1. SUFFICES ASSUME NEW j \in 1 .. Len(u), NEW k \in 1 .. Len(u),
                          u[j].name # NULL, u[j].name = u[k].name
                   PROVE  j = k
      BY DEF Once
    <3>2. CASE j = 1 /\ k = 1
      BY <3>2
    <3>3. CASE j = 1 /\ k # 1
      BY <2>4, <2>5, <2>6, <3>1, <3>3
    <3>4. CASE j # 1 /\ k = 1
      BY <2>4, <2>5, <2>6, <3>1, <3>4
    <3>5. CASE j # 1 /\ k # 1
      <4>1. /\ j - 1 \in 1 .. Len(t) /\ k - 1 \in 1 .. Len(t)
            /\ t[j - 1].name # NULL /\ t[j - 1].name = t[k - 1].name
        BY <2>5, <3>1, <3>5
      <4>2. j - 1 = k - 1
        BY <2>7, <4>1 DEF Once
      <4>3. j \in Int /\ k \in Int
        OBVIOUS
      <4>4. QED
        BY <4>2, <4>3
    <3>6. QED
      BY <3>2, <3>3, <3>4, <3>5
  <2>8. Range(list) \subseteq Range(t) /\ \A y : Known(t, y) => Known(u, y)
    BY <2>4 DEF Merged, Known
  <2>9. ~Known(list, new[i + 1])
    BY <1>5, <2>8 DEF Known
  <2>10. \A y \in Range(u) :
           \/ y \in Range(list)
           \/ \E j \in 1 .. i + 1 : y = Copy(new[j], m) /\ ~Known(list, new[j])
    BY <1>3, <2>1, <2>4, <2>9 DEF Merged
  <2>11. \A j \in 1 .. i + 1 : Copy(new[j], m) \in Range(u) \/ Known(u, new[j])
    BY <1>2, <2>1, <2>4, <2>8 DEF Merged
  <2>12. QED
    BY <2>4, <2>7, <2>8, <2>10, <2>11 DEF Merged
<1>6. QED
  BY <1>4, <1>5

(* What the merge of an imported file's declarations makes of the list.    *)
LEMMA MergeFacts ==
  ASSUME NEW list, IsList(list), NEW new, IsList(new), \A x \in Range(new) : IsNode(x), NEW m
  PROVE  Merged(Merge(list, new, m), list, new, m, Len(new))
<1>1. PICK f : IsMerging(f, list, new, m)
  BY MergeLoop
<1>2. PICK n : n = Len(new)
  OBVIOUS
<1>3. n \in Nat
  BY <1>2, ListRange
<1>4. PICK T : T = {i \in Nat : i <= n => Merged(f[i], list, new, m, i)}
  OBVIOUS
<1>5. 0 \in T
  <2>1. f[0] = list
    BY <1>1 DEF IsMerging
  <2>2. Merged(list, list, new, m, 0)
    BY DEF Merged
  <2>3. QED
    BY <1>4, <2>1, <2>2
<1>6. ASSUME NEW i \in Nat, i < n, i \in T
      PROVE  i + 1 \in T
  <2>1. i + 1 \in 1 .. n /\ (i + 1) - 1 = i /\ Merged(f[i], list, new, m, i)
    BY <1>3, <1>4, <1>6
  <2>2. PICK t, u : t = f[i] /\ u = f[i + 1]
    OBVIOUS
  <2>3. u = IF Known(t, new[i + 1]) THEN t ELSE <<Copy(new[i + 1], m)>> \o t
    BY <1>1, <1>2, <2>1, <2>2 DEF IsMerging
  <2>4. Merged(t, list, new, m, i) /\ i < Len(new)
    BY <1>2, <1>6, <2>1, <2>2
  <2>5. Merged(u, list, new, m, i + 1)
    BY <2>3, <2>4, MergeRound
  <2>6. QED
    BY <1>4, <2>2, <2>5
<1>7. n \in T
  <2>1. 0 .. n \subseteq T
    BY <1>3, <1>5, <1>6, UpTo
  <2>2. QED
    BY <1>3, <2>1
<1>8. Merged(f[n], list, new, m, n)
  BY <1>3, <1>4, <1>7
<1>9. QED
  BY <1>1, <1>2, <1>8 DEF IsMerging

-----------------------------------------------------------------------------
(* The files that a file imports.                                          *)

(* A set of files that has those that its files import.                    *)
IsClosed(S) == \A g \in S : {imp.to : imp \in Range(disk[g].imports)} \subseteq S

LEMMA ClosureOf ==
  ASSUME NEW f
  PROVE  Closure(f) = {g \in Files : \A S \in SUBSET Files : f \in S /\ IsClosed(S) => g \in S}
BY DEF Closure, IsClosed

LEMMA ImportsAreFiles ==
  ASSUME disk \in Disks, NEW f \in Files
  PROVE  /\ IsFile(disk[f]) /\ IsList(disk[f].imports)
         /\ \A imp \in Range(disk[f].imports) : imp.to \in Files
<1>1. IsFile(disk[f])
  BY NidlAssumption
<1>2. QED
  BY <1>1 DEF IsFile

(* A file, and what each of its imports leads to.                          *)
LEMMA ClosureStep ==
  ASSUME disk \in Disks, NEW f \in Files
  PROVE  Closure(f) = {f} \union UNION {Closure(disk[f].imports[j].to) :
                                          j \in 1 .. Len(disk[f].imports)}
<1>1. PICK L, C : L = disk[f].imports /\ C = {f} \union UNION {Closure(L[j].to) : j \in 1 .. Len(L)}
  OBVIOUS
<1>2. /\ IsList(L) /\ \A imp \in Range(L) : imp.to \in Files
      /\ \A j \in 1 .. Len(L) : L[j] \in Range(L)
      /\ \A imp \in Range(L) : \E j \in 1 .. Len(L) : L[j] = imp
  <2>1. IsList(L) /\ \A imp \in Range(L) : imp.to \in Files
    BY <1>1, ImportsAreFiles
  <2>2. QED
    BY <2>1, ListRange
<1>3. ASSUME NEW g \in Closure(f)
      PROVE  g \in C
  <2>1. C \in SUBSET Files /\ f \in C
    BY <1>1, ClosureOf
  <2>2. IsClosed(C)
    <3>1. SUFFICES ASSUME NEW h \in C, NEW imp \in Range(disk[h].imports)
                   PROVE  imp.to \in C
      BY DEF IsClosed
    <3>2. CASE h = f
      <4>1. PICK j \in 1 .. Len(L) : L[j] = imp
        BY <1>1, <1>2, <3>2
      <4>2. imp.to \in Files
        BY <2>1, <3>1, ImportsAreFiles
      <4>3. imp.to \in Closure(imp.to)
        BY <4>2, ClosureOf
      <4>4. QED
        BY <1>1, <4>1, <4>3
    <3>3. CASE h # f
      <4>1. PICK j \in 1 .. Len(L) : h \in Closure(L[j].to)
        BY <1>1, <3>3
      <4>2. imp.to \in Files
        BY <2>1, <3>1, ImportsAreFiles
      <4>3. ASSUME NEW S \in SUBSET Files, L[j].to \in S, IsClosed(S)
            PROVE  imp.to \in S
        <5>1. h \in S
          BY <4>1, <4>3, ClosureOf
        <5>2. QED
          BY <4>3, <5>1 DEF IsClosed
      <4>4. imp.to \in Closure(L[j].to)
        BY <4>2, <4>3, ClosureOf
      <4>5. QED
        BY <1>1, <4>4
    <3>4. QED
      BY <3>2, <3>3
  <2>3. QED
    BY <1>3, <2>1, <2>2, ClosureOf
<1>4. ASSUME NEW g \in C
      PROVE  g \in Closure(f)
  <2>1. CASE g = f
    BY <2>1, ClosureOf
  <2>2. CASE g # f
    <3>1. PICK j \in 1 .. Len(L) : g \in Closure(L[j].to)
      BY <1>1, <2>2, <1>4
    <3>2. g \in Files
      BY <3>1, ClosureOf
    <3>3. ASSUME NEW S \in SUBSET Files, f \in S, IsClosed(S)
          PROVE  g \in S
      <4>1. L[j].to \in S
        BY <1>1, <1>2, <3>3 DEF IsClosed
      <4>2. QED
        BY <3>1, <3>3, <4>1, ClosureOf
    <3>4. QED
      BY <3>2, <3>3, ClosureOf
  <2>3. QED
    BY <2>1, <2>2
<1>5. QED
  BY <1>1, <1>3, <1>4

(* The names that one import more brings.                                  *)
LEMMA OneMoreImport ==
  ASSUME NEW g, NEW k \in Nat \ {0}
  PROVE  Imported(g, k) = Imported(g, k - 1) \union NamesIn(Closure(disk[g].imports[k].to))
<1>1. 1 .. k = (1 .. k - 1) \union {k}
  OBVIOUS
<1>2. PICK C : C = [j \in 1 .. k |-> Closure(disk[g].imports[j].to)]
  OBVIOUS
<1>3. /\ Imported(g, k) = NamesIn(UNION {C[j] : j \in 1 .. k})
      /\ Imported(g, k - 1) = NamesIn(UNION {C[j] : j \in 1 .. k - 1})
      /\ Closure(disk[g].imports[k].to) = C[k]
  BY <1>1, <1>2 DEF Imported
<1>4. UNION {C[j] : j \in 1 .. k} = (UNION {C[j] : j \in 1 .. k - 1}) \union C[k]
  BY <1>1
<1>5. QED
  BY <1>3, <1>4 DEF NamesIn

(* The names of a file's whole tree.                                       *)
LEMMA NamesOfAll ==
  ASSUME disk \in Disks, NEW g \in Files
  PROVE  NamesIn(Closure(g)) = {d.name : d \in Range(disk[g].ifaces)}
                               \union Imported(g, Len(disk[g].imports))
BY ClosureStep DEF NamesIn, Imported

-----------------------------------------------------------------------------
(* What the steps of the parser make of a tree.                            *)

LEMMA SameTrees ==
  ASSUME disk' = disk
  PROVE  /\ \A t, g, k, own : Tree(t, g, k, own)' = Tree(t, g, k, own)
         /\ \A t, g : Whole(t, g)' = Whole(t, g)
         /\ \A f : Good(f)' = Good(f)
<1>1. \A f : Closure(f)' = Closure(f)
  BY DEF Closure
<1>2. \A fs : NamesIn(fs)' = NamesIn(fs)
  BY DEF NamesIn
<1>3. \A g, k : Imported(g, k)' = Imported(g, k)
  BY <1>1, <1>2 DEF Imported
<1>4. \A l, g, own : OwnFirst(l, g, own)' = OwnFirst(l, g, own)
  BY DEF OwnFirst
<1>5. \A t, g, k, own : Tree(t, g, k, own)' = Tree(t, g, k, own)
  <2>1. \A x, g, j : ArrivesBy(x, g, j)' = ArrivesBy(x, g, j)
    BY <1>1, <1>2, <1>3 DEF ArrivesBy
  <2>2. \A l, g, k : Sourced(l, g, k)' = Sourced(l, g, k)
    BY <2>1 DEF Sourced
  <2>3. QED
    BY <1>3, <1>4, <2>2 DEF Tree
<1>6. \A g, d : Declarations(g)' = Declarations(g) /\ IfacesOf(g, d)' = IfacesOf(g, d)
  BY DEF Declarations, IfacesOf
<1>7. \A t, g : Whole(t, g)' = Whole(t, g)
  BY <1>5 DEF Whole
<1>8. \A f : Good(f)' = Good(f)
  BY <1>5, <1>6, <1>7 DEF Good
<1>9. QED
  BY <1>5, <1>7, <1>8

LEMMA EmptyTree ==
  ASSUME NEW g, NEW t, IsAst(t), t.ifaces = <<>>, t.structs = <<>>, t.imports = <<>>,
         t.module = NULL
  PROVE  Tree(t, g, 0, 0)
<1>1. PICK e : e = <<>>
  OBVIOUS
<1>2. e \in Seq({}) /\ Len(e) = 0 /\ Range(e) = {}
  BY <1>1 DEF Range
<1>3. IsList(e)
  BY <1>2 DEF IsList
<1>4. Imported(g, 0) = {}
  BY DEF Imported, NamesIn
<1>5. OwnFirst(e, g, 0) /\ OthersImported(e, 0, {})
  BY <1>2 DEF OwnFirst, OthersImported
<1>6. Sourced(e, g, 0) /\ \A x \in Range(e) : FALSE
  BY <1>2 DEF Sourced
<1>7. QED
  BY <1>1, <1>2, <1>3, <1>4, <1>5, <1>6 DEF Tree

(* Another declaration, before the others.                                 *)
LEMMA OwnDeclared ==
  ASSUME NEW g, NEW l, IsList(l), NEW own, NEW ns, OwnFirst(l, g, own), OthersImported(l, own, ns),
         NEW x, IsOwn(x, disk[g].ifaces[own + 1], g), NEW u, u = <<x>> \o l
  PROVE  OwnFirst(u, g, own + 1) /\ OthersImported(u, own + 1, ns)
<1>1. own \in Nat /\ own <= Len(l) /\ Len(l) \in Nat
  BY ListRange DEF OwnFirst
<1>2. IsList(u) /\ Len(u) = Len(l) + 1
  BY ListPrepend
<1>3. u[1] = x
  BY ListPrepend
<1>4. \A i \in 1 .. Len(l) : u[i + 1] = l[i]
  BY ListPrepend
<1>5. \A i \in 1 .. Len(u) : i = 1 \/ (i - 1 \in 1 .. Len(l) /\ u[i] = l[i - 1])
  BY ListPrepend
<1>6. OwnFirst(u, g, own + 1)
  <2>1. ASSUME NEW i \in 1 .. own + 1
        PROVE  IsOwn(u[i], disk[g].ifaces[own + 2 - i], g)
    <3>1. CASE i = 1
      <4>1. own + 2 - i = own + 1
        BY <1>1, <3>1
      <4>2. QED
        BY <1>3, <3>1, <4>1
    <3>2. CASE i # 1
      <4>1. i - 1 \in 1 .. own /\ i \in 1 .. Len(u) /\ own + 1 - (i - 1) = own + 2 - i
        BY <1>1, <1>2, <3>2
      <4>2. u[i] = l[i - 1]
        BY <1>5, <3>2, <4>1
      <4>3. IsOwn(l[i - 1], disk[g].ifaces[own + 1 - (i - 1)], g)
        BY <4>1 DEF OwnFirst
      <4>4. QED
        BY <4>1, <4>2, <4>3
    <3>3. QED
      BY <3>1, <3>2
  <2>2. own + 1 \in 0 .. Len(u) /\ own + 1 + 1 = own + 2
    BY <1>1, <1>2
  <2>3. QED
    BY <2>1, <2>2 DEF OwnFirst
<1>7. \A i \in own + 2 .. Len(u) : i - 1 \in own + 1 .. Len(l) /\ u[i] = l[i - 1] /\ i \in Int
  <2>1. TAKE i \in own + 2 .. Len(u)
  <2>2. i \in 1 .. Len(u) /\ i # 1 /\ i - 1 \in own + 1 .. Len(l)
    BY <1>1, <1>2
  <2>3. QED
    BY <1>5, <2>2
<1>8. \A i \in own + 1 .. Len(l) : i + 1 \in own + 2 .. Len(u) /\ u[i + 1] = l[i]
  <2>1. TAKE i \in own + 1 .. Len(l)
  <2>2. i \in 1 .. Len(l) /\ i + 1 \in own + 2 .. Len(u)
    BY <1>1, <1>2
  <2>3. QED
    BY <1>4, <2>2
<1>9. OthersImported(u, own + 1, ns)
  <2>1. \A i \in own + 2 .. Len(u) : u[i].imported /\ u[i].text \in ns
    <3>1. TAKE i \in own + 2 .. Len(u)
    <3>2. PICK k : k = i - 1
      OBVIOUS
    <3>3. k \in own + 1 .. Len(l) /\ u[i] = l[k]
      BY <1>7, <3>2
    <3>4. QED
      BY <3>3 DEF OthersImported
  <2>2. ASSUME NEW i \in own + 2 .. Len(u), NEW j \in own + 2 .. Len(u),
               u[i].name # NULL, u[i].name = u[j].name
        PROVE  i = j
    <3>1. /\ i - 1 \in own + 1 .. Len(l) /\ j - 1 \in own + 1 .. Len(l)
          /\ l[i - 1].name # NULL /\ l[i - 1].name = l[j - 1].name /\ i \in Int /\ j \in Int
      BY <1>7, <2>2
    <3>2. i - 1 = j - 1
      BY <3>1 DEF OthersImported
    <3>3. QED
      BY <3>1, <3>2
  <2>3. ASSUME NEW y \in ns
        PROVE  \E i \in own + 2 .. Len(u) : u[i].text = y
    <3>1. PICK i \in own + 1 .. Len(l) : l[i].text = y
      BY DEF OthersImported
    <3>2. QED
      BY <1>8, <3>1
  <2>4. PICK o, S : o = own + 1 /\ S = own + 2 .. Len(u)
    OBVIOUS
  <2>5. o + 1 = own + 2
    BY <1>1, <2>4
  <2>6. S = o + 1 .. Len(u)
    BY <2>4, <2>5
  <2>7. /\ \A i \in S : u[i].imported /\ u[i].text \in ns
        /\ \A i, j \in S : u[i].name # NULL /\ u[i].name = u[j].name => i = j
        /\ \A y \in ns : \E i \in S : u[i].text = y
    BY <2>1, <2>2, <2>3, <2>4
  <2>8. OthersImported(u, o, ns)
    BY <2>6, <2>7 DEF OthersImported
  <2>9. QED
    BY <2>4, <2>8
<1>10. QED
  BY <1>6, <1>9

(* A declaration of the file itself is a good node, and not imported.      *)
LEMMA IfaceMade ==
  ASSUME disk \in Disks, NEW g \in Files, NEW i \in 1 .. Len(disk[g].ifaces),
         NEW x, IsOwn(x, disk[g].ifaces[i], g)
  PROVE  IsNode(x) /\ IsCallable(x) /\ x.imported = FALSE /\ x.text = disk[g].ifaces[i].name
<1>1. PICK d : d = disk[g].ifaces[i]
  OBVIOUS
<1>2. IsList(disk[g].ifaces) /\ \A y \in Range(disk[g].ifaces) : IsDeclaration(y)
  BY ImportsAreFiles DEF IsFile
<1>3. IsDeclaration(d)
  BY <1>1, <1>2, ListRange
<1>4. IsList(d.methods) /\ \A m \in Range(d.methods) : IsMethod(m)
  BY <1>3 DEF IsDeclaration
<1>5. PICK lost : x = Iface(d, g, lost)
  BY <1>1 DEF IsOwn
<1> DEFINE Spec(k, j, type) == IF <<k, j>> \in lost THEN "(null)" ELSE type
           Made(k, ps) == [j \in 1 .. Len(ps) |-> [dir |-> ps[j].dir,
                                                  type |-> Spec(k, j, ps[j].type)]]
<1>6. PICK ms, n : /\ n = Len(d.methods)
                   /\ ms = [k \in 1 .. n |->
                              [ret |-> Spec(k, 0, d.methods[k].ret),
                               params |-> Reverse(Made(k, d.methods[k].params))]]
  OBVIOUS
<1>7. n \in Nat /\ \A k \in 1 .. n : IsMethod(d.methods[k])
  BY <1>4, <1>6, ListRange
<1>8. IsList(ms) /\ Len(ms) = n
  <2>1. DOMAIN ms = 1 .. n /\ ms = [k \in 1 .. n |-> ms[k]]
    BY <1>6
  <2>2. QED
    BY <1>7, <2>1, ListMade
<1>9. ASSUME NEW k \in 1 .. n
      PROVE  IsMethod(ms[k])
  <2>1. PICK ps : ps = d.methods[k].params
    OBVIOUS
  <2>2. IsList(ps) /\ \A p \in Range(ps) : p.dir \in {"in", "out", "inout"}
    BY <1>7, <2>1 DEF IsMethod
  <2>3. PICK rs : rs = Made(k, ps)
    OBVIOUS
  <2>4. IsList(rs) /\ Len(rs) = Len(ps)
    <3>1. Len(ps) \in Nat /\ DOMAIN rs = 1 .. Len(ps) /\ rs = [j \in 1 .. Len(ps) |-> rs[j]]
      BY <2>2, <2>3, ListRange
    <3>2. QED
      BY <3>1, ListMade
  <2>5. \A p \in Range(rs) : p.dir \in {"in", "out", "inout"}
    <3>1. \A j \in 1 .. Len(ps) : ps[j] \in Range(ps) /\ rs[j].dir = ps[j].dir
      BY <2>2, <2>3, ListRange
    <3>2. \A p \in Range(rs) : \E j \in 1 .. Len(ps) : rs[j] = p
      BY <2>4, ListRange
    <3>3. QED
      BY <2>2, <3>1, <3>2
  <2>6. PICK qs : qs = Reverse(rs)
    OBVIOUS
  <2>7. IsList(qs)
    BY <2>4, <2>6, ListReversed
  <2>8. Range(qs) = Range(rs)
    BY <2>4, <2>6, ListReversed
  <2>9. ms[k].params = qs
    BY <1>6, <2>1, <2>3, <2>6
  <2>10. QED
    BY <2>5, <2>7, <2>8, <2>9 DEF IsMethod
<1>10. /\ {"name", "imported", "source", "text", "methods"} \subseteq DOMAIN x
      /\ x.methods = ms /\ x.name \in {d.name, NULL} /\ x.text = d.name /\ x.imported = FALSE
  BY <1>5, <1>6 DEF Iface
<1>11. QED
  BY <1>1, <1>8, <1>9, <1>10 DEF IsNode, IsCallable

LEMMA DeclaredTree ==
  ASSUME disk \in Disks, NEW g \in Files, NEW k, NEW own \in Nat, own < Len(disk[g].ifaces),
         NEW t, Tree(t, g, k, own), NEW x, IsOwn(x, disk[g].ifaces[own + 1], g),
         NEW u, IsAst(u), u.structs = t.structs, u.imports = t.imports, u.module = t.module,
         u.ifaces = <<x>> \o t.ifaces
  PROVE  Tree(u, g, k, own + 1)
<1>1. PICK l, v : l = t.ifaces /\ v = u.ifaces
  OBVIOUS
<1>2. IsList(l) /\ v = <<x>> \o l
  BY <1>1 DEF Tree
<1>3. own + 1 \in 1 .. Len(disk[g].ifaces)
  <2>1. IsList(disk[g].ifaces)
    BY ImportsAreFiles DEF IsFile
  <2>2. Len(disk[g].ifaces) \in Nat
    BY <2>1, ListRange
  <2>3. QED
    BY <2>2
<1>4. IsNode(x) /\ IsCallable(x) /\ x.imported = FALSE
  BY <1>3, IfaceMade
<1>5. IsList(v)
  BY <1>2, ListPrepend
<1>6. Range(v) = Range(l) \union {x}
  BY <1>2, RangePrepended
<1>7. OwnFirst(v, g, own + 1) /\ OthersImported(v, own + 1, Imported(g, k))
  <2>1. OwnFirst(l, g, own) /\ OthersImported(l, own, Imported(g, k))
    BY <1>1 DEF Tree
  <2>2. PICK ns : ns = Imported(g, k)
    OBVIOUS
  <2>3. QED
    BY <1>1, <1>2, <2>1, <2>2, OwnDeclared
<1>8. Sourced(v, g, k)
  <2>1. Sourced(l, g, k)
    BY <1>1 DEF Tree
  <2>2. \A y : AllNamed(v, y) => AllNamed(l, y)
    BY <1>6 DEF AllNamed
  <2>3. QED
    BY <1>4, <1>6, <2>1, <2>2 DEF Sourced
<1>9. \A y \in Range(v) : IsNode(y) /\ IsCallable(y)
  BY <1>1, <1>4, <1>6 DEF Tree
<1>10. QED
  BY <1>1, <1>5, <1>7, <1>8, <1>9 DEF Tree

LEMMA StructTree ==
  ASSUME NEW g, NEW k, NEW own, NEW t, Tree(t, g, k, own), NEW name, NEW lost, NEW u,
         IsAst(u), u.ifaces = t.ifaces, u.imports = t.imports, u.module = t.module,
         u.structs = <<Struct(name, g, lost)>> \o t.structs
  PROVE  Tree(u, g, k, own)
<1>1. PICK l, x, v : l = t.structs /\ x = Struct(name, g, lost) /\ v = u.structs
  OBVIOUS
<1>2. IsList(l) /\ v = <<x>> \o l
  BY <1>1 DEF Tree
<1>3. IsNode(x)
  BY <1>1 DEF IsNode, Struct
<1>4. IsList(v)
  BY <1>2, ListPrepend
<1>5. Range(v) = Range(l) \union {x}
  BY <1>2, RangePrepended
<1>6. \A y \in Range(v) : IsNode(y)
  BY <1>1, <1>3, <1>5 DEF Tree
<1>7. QED
  BY <1>1, <1>4, <1>6 DEF Tree

(* The names of a whole tree are those that its file's imports lead to.    *)
LEMMA WholeNames ==
  ASSUME disk \in Disks, NEW g \in Files, NEW t, Whole(t, g)
  PROVE  {x.text : x \in Range(t.ifaces)} = NamesIn(Closure(g))
<1>1. PICK l, n, ns : /\ l = t.ifaces /\ n = Len(disk[g].ifaces)
                      /\ ns = Imported(g, Len(disk[g].imports))
  OBVIOUS
<1>2. IsList(l) /\ OwnFirst(l, g, n) /\ OthersImported(l, n, ns)
  BY <1>1 DEF Whole, Tree
<1>3. /\ n \in Nat /\ n <= Len(l) /\ Len(l) \in Nat
      /\ \A x : x \in Range(disk[g].ifaces) <=> \E i \in 1 .. n : disk[g].ifaces[i] = x
  <2>1. IsList(disk[g].ifaces)
    BY ImportsAreFiles DEF IsFile
  <2>2. n \in Nat
    BY <1>1, <2>1, ListRange
  <2>3. \A x : x \in Range(disk[g].ifaces) <=> \E i \in 1 .. n : disk[g].ifaces[i] = x
    BY <1>1, <2>1, ListRange
  <2>4. Len(l) \in Nat /\ n <= Len(l)
    BY <1>2, ListRange DEF OwnFirst
  <2>5. QED
    BY <2>2, <2>3, <2>4
<1>4. \A i \in 1 .. n : n + 1 - i \in 1 .. n /\ i \in 1 .. Len(l) /\ n + 1 - (n + 1 - i) = i
  BY <1>3
<1>5. \A i \in 1 .. n : l[i].text = disk[g].ifaces[n + 1 - i].name
  <2>1. TAKE i \in 1 .. n
  <2>2. PICK d : d = disk[g].ifaces[n + 1 - i]
    OBVIOUS
  <2>3. IsOwn(l[i], d, g)
    BY <1>2, <2>2 DEF OwnFirst
  <2>4. l[i].text = d.name
    BY <2>3 DEF IsOwn, Iface
  <2>5. QED
    BY <2>2, <2>4
<1>6. \A x : x \in Range(l) <=> \E i \in 1 .. Len(l) : l[i] = x
  BY <1>2, ListRange
<1>7. ASSUME NEW x \in Range(l)
      PROVE  x.text \in {d.name : d \in Range(disk[g].ifaces)} \union ns
  <2>1. PICK i \in 1 .. Len(l) : l[i] = x
    BY <1>6
  <2>2. CASE i <= n
    <3>1. i \in 1 .. n
      BY <1>3, <2>2
    <3>2. disk[g].ifaces[n + 1 - i] \in Range(disk[g].ifaces)
      BY <1>3, <1>4, <3>1
    <3>3. QED
      BY <1>5, <2>1, <3>1, <3>2
  <2>3. CASE ~(i <= n)
    <3>1. i \in n + 1 .. Len(l)
      BY <1>3, <2>3
    <3>2. QED
      BY <1>2, <2>1, <3>1 DEF OthersImported
  <2>4. QED
    BY <2>2, <2>3
<1>8. ASSUME NEW d \in Range(disk[g].ifaces)
      PROVE  \E x \in Range(l) : x.text = d.name
  <2>1. PICK i \in 1 .. n : disk[g].ifaces[i] = d
    BY <1>3
  <2>2. PICK j : j = n + 1 - i
    OBVIOUS
  <2>3. j \in 1 .. n /\ n + 1 - j = i /\ j \in 1 .. Len(l)
    BY <1>4, <2>2
  <2>4. l[j].text = d.name
    BY <1>5, <2>1, <2>3
  <2>5. QED
    BY <1>6, <2>3, <2>4
<1>9. ASSUME NEW y \in ns
      PROVE  \E x \in Range(l) : x.text = y
  <2>1. PICK i \in n + 1 .. Len(l) : l[i].text = y
    BY <1>2 DEF OthersImported
  <2>2. i \in 1 .. Len(l)
    BY <1>3
  <2>3. QED
    BY <1>6, <2>1, <2>2
<1>10. {x.text : x \in Range(l)} = {d.name : d \in Range(disk[g].ifaces)} \union ns
  BY <1>7, <1>8, <1>9
<1>11. QED
  BY <1>1, <1>10, NamesOfAll

(* A copy is imported from m, and otherwise the same.                      *)
IsCopy(y, x, m) ==
  /\ IsNode(y) /\ y.imported = TRUE /\ y.source = m /\ y.name = x.name /\ y.text = x.text
  /\ IsCallable(x) => IsCallable(y)

LEMMA CopyMade ==
  ASSUME NEW x, IsNode(x), NEW m, NEW y, y = Copy(x, m)
  PROVE  IsCopy(y, x, m)
<1>1. /\ DOMAIN y = DOMAIN x /\ y.imported = TRUE /\ y.source = m
      /\ y.name = x.name /\ y.text = x.text
  BY DEF IsNode, Copy
<1>2. "methods" \in DOMAIN x => y.methods = x.methods
  BY DEF Copy
<1>3. IsNode(y)
  BY <1>1 DEF IsNode
<1>4. IsCallable(x) => IsCallable(y)
  BY <1>1, <1>2 DEF IsCallable
<1>5. QED
  BY <1>1, <1>3, <1>4 DEF IsCopy

LEMMA MergedNodes ==
  ASSUME NEW list, IsList(list), \A x \in Range(list) : IsNode(x),
         NEW new, IsList(new), \A x \in Range(new) : IsNode(x), NEW m,
         NEW r, r = Merge(list, new, m)
  PROVE  /\ IsList(r) /\ Merged(r, list, new, m, Len(new))
         /\ \A x \in Range(r) : IsNode(x)
         /\ \A x \in Range(r) :
              \/ x \in Range(list)
              \/ \E y \in Range(new) : IsCopy(x, y, m) /\ ~Known(list, y)
         /\ \A y \in Range(new) :
              \/ \E x \in Range(r) : IsCopy(x, y, m)
              \/ Known(r, y)
<1>1. Merged(r, list, new, m, Len(new))
  BY MergeFacts
<1>2. /\ \A j \in 1 .. Len(new) : new[j] \in Range(new)
      /\ \A y \in Range(new) : \E j \in 1 .. Len(new) : new[j] = y
  BY ListRange
<1>3. \A x \in Range(r) :
        \/ x \in Range(list)
        \/ \E y \in Range(new) : x = Copy(y, m) /\ ~Known(list, y)
  BY <1>1, <1>2 DEF Merged
<1>4. \A y \in Range(new) : IsCopy(Copy(y, m), y, m)
  BY CopyMade
<1>5. \A x \in Range(r) :
        \/ x \in Range(list)
        \/ \E y \in Range(new) : IsCopy(x, y, m) /\ ~Known(list, y)
  BY <1>3, <1>4
<1>6. \A x \in Range(r) : IsNode(x)
  BY <1>5 DEF IsCopy
<1>7. \A y \in Range(new) : Copy(y, m) \in Range(r) \/ Known(r, y)
  BY <1>1, <1>2 DEF Merged
<1>8. \A y \in Range(new) : (\E x \in Range(r) : IsCopy(x, y, m)) \/ Known(r, y)
  BY <1>4, <1>7
<1>9. IsList(r)
  BY <1>1 DEF Merged
<1>10. QED
  BY <1>1, <1>5, <1>6, <1>8, <1>9

(* A merge with l leaves this in r: what l had, and new ones called ns.    *)
BroughtBy(r, l, m, ns) ==
  \A x \in Range(r) :
    \/ x \in Range(l)
    \/ /\ x.source = m /\ x.text \in ns
       /\ x.name # NULL => \A z \in Range(l) : z.name # x.name

AllPresent(l, ns) == \A z \in ns : \E x \in Range(l) : x.text = z

AllNodes(r) == \A x \in Range(r) : IsNode(x)

(* The interfaces of the file that is imported have been merged; where     *)
(* memory sufficed for the names of all that a new one might have been a   *)
(* duplicate of, nothing of its name was there before.                     *)
LEMMA MergedSources ==
  ASSUME disk \in Disks, NEW g \in Files, NEW k \in 1 .. Len(disk[g].imports),
         NEW l, NEW r, NEW m, m \in {disk[disk[g].imports[k].to].module, NULL},
         Range(l) \subseteq Range(r), AllNodes(r),
         Sourced(l, g, k - 1), AllPresent(l, Imported(g, k - 1)),
         BroughtBy(r, l, m, NamesIn(Closure(disk[g].imports[k].to)))
  PROVE  Sourced(r, g, k)
<1>1. SUFFICES ASSUME NEW x \in Range(r), x.imported, x.source # NULL, AllNamed(r, x)
               PROVE  \E j \in 1 .. k : ArrivesBy(x, g, j)
  BY DEF Sourced
<1>2. k \in Nat /\ \A j \in 1 .. k - 1 : j \in 1 .. k
  <2>1. Len(disk[g].imports) \in Nat
    BY ImportsAreFiles, ListRange
  <2>2. QED
    BY <2>1
<1>3. AllNamed(l, x)
  BY <1>1 DEF AllNamed
<1>4. CASE x \in Range(l)
  <2>1. \E j \in 1 .. k - 1 : ArrivesBy(x, g, j)
    BY <1>1, <1>3, <1>4 DEF Sourced
  <2>2. QED
    BY <1>2, <2>1
<1>5. CASE x \notin Range(l)
  <2>1. /\ x.source = disk[disk[g].imports[k].to].module
        /\ x.text \in NamesIn(Closure(disk[g].imports[k].to))
        /\ x.name # NULL => \A z \in Range(l) : z.name # x.name
    BY <1>1, <1>5 DEF BroughtBy
  <2>2. x.text \notin Imported(g, k - 1)
    <3>1. SUFFICES ASSUME NEW z \in Range(l), z.text = x.text
                   PROVE  FALSE
      BY DEF AllPresent
    <3>2. z.name # NULL /\ x.name # NULL
      BY <1>1, <3>1 DEF AllNamed
    <3>3. z.name = z.text /\ x.name = x.text
      BY <1>1, <3>1, <3>2 DEF AllNodes, IsNode
    <3>4. QED
      BY <2>1, <3>1, <3>2, <3>3
  <2>3. ArrivesBy(x, g, k)
    BY <2>1, <2>2 DEF ArrivesBy
  <2>4. k \in 1 .. k
    OBVIOUS
  <2>5. QED
    BY <2>3, <2>4
<1>6. QED
  BY <1>4, <1>5

LEMMA MergedTree ==
  ASSUME disk \in Disks, NEW g \in Files, NEW k \in 1 .. Len(disk[g].imports),
         NEW t, Tree(t, g, k - 1, 0), NEW c, Whole(c, disk[g].imports[k].to),
         NEW m, m = c.module,
         NEW u, IsAst(u), u.ifaces = Merge(t.ifaces, c.ifaces, m), u.module = t.module,
         u.structs = Merge(t.structs, c.structs, m), u.imports = <<m>> \o t.imports
  PROVE  Tree(u, g, k, 0)
<1>1. PICK h : h = disk[g].imports[k].to
  OBVIOUS
<1>2. h \in Files /\ Whole(c, h)
  BY <1>1, ImportsAreFiles, ListRange
<1>3. PICK l, n, r, ns :
        /\ l = t.ifaces /\ n = c.ifaces /\ r = Merge(l, n, m)
        /\ ns = NamesIn(Closure(h))
  OBVIOUS
<1>4. /\ IsList(l) /\ \A x \in Range(l) : IsNode(x) /\ IsCallable(x)
      /\ IsList(n) /\ \A x \in Range(n) : IsNode(x) /\ IsCallable(x)
      /\ OthersImported(l, 0, Imported(g, k - 1)) /\ Sourced(l, g, k - 1)
      /\ m \in {disk[h].module, NULL}
  BY <1>2, <1>3 DEF Tree, Whole
<1>5. IsList(u.imports)
  <2>1. PICK s : s = t.imports
    OBVIOUS
  <2>2. IsList(s)
    BY <2>1 DEF Tree
  <2>3. QED
    BY <2>1, <2>2, ListPrepend
<1>6. /\ IsList(r) /\ Range(l) \subseteq Range(r) /\ (Once(l) => Once(r))
      /\ \A x \in Range(r) : IsNode(x)
      /\ \A x \in Range(r) :
           x \in Range(l) \/ \E y \in Range(n) : IsCopy(x, y, m) /\ ~Known(l, y)
      /\ \A y \in Range(n) : (\E x \in Range(r) : IsCopy(x, y, m)) \/ Known(r, y)
  <2>1. (\A x \in Range(l) : IsNode(x)) /\ (\A x \in Range(n) : IsNode(x))
    BY <1>4
  <2>2. IsList(r) /\ Merged(r, l, n, m, Len(n))
    BY <1>3, <1>4, <2>1, MergedNodes
  <2>3. \A x \in Range(r) : IsNode(x)
    BY <1>3, <1>4, <2>1, MergedNodes
  <2>4. \A x \in Range(r) :
          x \in Range(l) \/ \E y \in Range(n) : IsCopy(x, y, m) /\ ~Known(l, y)
    BY <1>3, <1>4, <2>1, MergedNodes
  <2>5. \A y \in Range(n) : (\E x \in Range(r) : IsCopy(x, y, m)) \/ Known(r, y)
    BY <1>3, <1>4, <2>1, MergedNodes
  <2>6. QED
    BY <2>2, <2>3, <2>4, <2>5 DEF Merged
<1>7. /\ \A x \in Range(l) : \E i \in 1 .. Len(l) : l[i] = x
      /\ \A i \in 1 .. Len(l) : l[i] \in Range(l)
      /\ \A x \in Range(r) : \E i \in 1 .. Len(r) : r[i] = x
      /\ \A i \in 1 .. Len(r) : r[i] \in Range(r)
      /\ Len(l) \in Nat /\ Len(r) \in Nat
  BY <1>4, <1>6, ListRange
<1>8. {y.text : y \in Range(n)} = ns
  BY <1>2, <1>3, WholeNames
<1>9. Imported(g, k) = Imported(g, k - 1) \union ns
  BY <1>1, <1>3, OneMoreImport
<1>10. /\ \A x \in Range(l) : x.imported /\ x.text \in Imported(g, k - 1)
       /\ \A z \in Imported(g, k - 1) : \E x \in Range(l) : x.text = z
       /\ Once(l)
  <2>1. /\ \A i \in 1 .. Len(l) : l[i].imported /\ l[i].text \in Imported(g, k - 1)
        /\ \A z \in Imported(g, k - 1) : \E i \in 1 .. Len(l) : l[i].text = z
        /\ \A i, j \in 1 .. Len(l) : l[i].name # NULL /\ l[i].name = l[j].name => i = j
    <3>1. 0 + 1 = 1
      OBVIOUS
    <3>2. QED
      BY <1>4, <3>1 DEF OthersImported
  <2>2. QED
    BY <1>7, <2>1 DEF Once
<1>11. \A x \in Range(r) :
         \/ x \in Range(l)
         \/ /\ x.imported /\ x.source = m /\ x.text \in ns /\ IsCallable(x)
            /\ x.name # NULL => \A z \in Range(l) : z.name # x.name
  BY <1>4, <1>6, <1>8 DEF IsCopy, Known
<1>12. \A z \in Imported(g, k) : \E x \in Range(r) : x.text = z
  <2>1. SUFFICES ASSUME NEW z \in ns
                 PROVE  \E x \in Range(r) : x.text = z
    BY <1>6, <1>9, <1>10
  <2>2. PICK y \in Range(n) : y.text = z
    BY <1>8
  <2>3. CASE Known(r, y)
    <3>1. PICK x \in Range(r) : y.name # NULL /\ x.name = y.name
      BY <2>3 DEF Known
    <3>2. x.name = x.text /\ y.name = y.text
      BY <1>4, <1>6, <3>1 DEF IsNode
    <3>3. QED
      BY <2>2, <3>1, <3>2
  <2>4. CASE \E x \in Range(r) : IsCopy(x, y, m)
    BY <2>2, <2>4 DEF IsCopy
  <2>5. QED
    BY <1>6, <2>3, <2>4
<1>13. OthersImported(r, 0, Imported(g, k))
  <2>1. \A x \in Range(r) : x.imported /\ x.text \in Imported(g, k)
    BY <1>9, <1>10, <1>11
  <2>2. 0 + 1 = 1 /\ Once(r)
    BY <1>6, <1>10
  <2>3. /\ \A i \in 1 .. Len(r) : r[i].imported /\ r[i].text \in Imported(g, k)
        /\ \A z \in Imported(g, k) : \E i \in 1 .. Len(r) : r[i].text = z
        /\ \A i, j \in 1 .. Len(r) : r[i].name # NULL /\ r[i].name = r[j].name => i = j
    BY <1>7, <1>12, <2>1, <2>2 DEF Once
  <2>4. QED
    BY <2>2, <2>3 DEF OthersImported
<1>14. Sourced(r, g, k)
  <2>1. BroughtBy(r, l, m, NamesIn(Closure(disk[g].imports[k].to)))
    <3>1. BroughtBy(r, l, m, ns)
      BY <1>11 DEF BroughtBy
    <3>2. QED
      BY <1>1, <1>3, <3>1
  <2>2. m \in {disk[disk[g].imports[k].to].module, NULL}
    BY <1>1, <1>4
  <2>3. /\ Range(l) \subseteq Range(r) /\ AllNodes(r) /\ Sourced(l, g, k - 1)
        /\ AllPresent(l, Imported(g, k - 1))
    BY <1>4, <1>6, <1>10 DEF AllNodes, AllPresent
  <2>4. QED
    BY <2>1, <2>2, <2>3, MergedSources
<1>15. OwnFirst(r, g, 0)
  BY <1>7 DEF OwnFirst
<1>16. \A x \in Range(r) : IsNode(x) /\ IsCallable(x)
  BY <1>4, <1>6, <1>11
<1>17. IsList(u.structs) /\ \A x \in Range(u.structs) : IsNode(x)
  <2>1. PICK s, q, v : s = t.structs /\ q = c.structs /\ v = Merge(s, q, m)
    OBVIOUS
  <2>2. /\ IsList(s) /\ \A x \in Range(s) : IsNode(x)
        /\ IsList(q) /\ \A x \in Range(q) : IsNode(x)
    BY <1>2, <2>1 DEF Tree, Whole
  <2>3. IsList(v)
    BY <2>1, <2>2, MergedNodes
  <2>4. \A x \in Range(v) : IsNode(x)
    BY <2>1, <2>2, MergedNodes
  <2>5. QED
    BY <2>1, <2>3, <2>4
<1>18. r = u.ifaces
  BY <1>3
<1>19. u.module \in {disk[g].module, NULL}
  BY DEF Tree
<1>20. QED
  BY <1>5, <1>6, <1>13, <1>14, <1>15, <1>16, <1>17, <1>18, <1>19 DEF Tree

-----------------------------------------------------------------------------
(* What the steps of the parser make of the calls.                         *)

LEMMA CandidatesLead ==
  ASSUME DiskInv, NEW p, NEW imp, NEW k \in 1 .. Len(Candidates(p, imp))
  PROVE  Candidates(p, imp)[k].path.file = imp.to
<1>1. CASE imp.spell \in {"absolute", "detour"}
  <2>1. PICK c : Candidates(p, imp) = <<c>> /\ c.path.file = imp.to
    <3>1. CASE imp.spell = "absolute"
      BY <3>1 DEF Candidates, Path
    <3>2. CASE imp.spell = "detour"
      BY <3>2 DEF Candidates, Path
    <3>3. QED
      BY <1>1, <3>1, <3>2
  <2>2. k = 1
    BY <2>1
  <2>3. QED
    BY <2>1, <2>2
<1>2. CASE imp.spell \notin {"absolute", "detour"}
  <2>1. PICK c : /\ c = [at |-> disk[p.file].home, path |-> Path(imp.to, p.text, p.detours),
                        bare |-> IsBare(p)]
                 /\ c.path.file = imp.to
    <3>1. PICK c : c = [at |-> disk[p.file].home, path |-> Path(imp.to, p.text, p.detours),
                    bare |-> IsBare(p)]
      OBVIOUS
    <3>2. c.path.file = imp.to
      BY <3>1 DEF Path
    <3>3. QED
      BY <3>1, <3>2
  <2>2. PICK n, more : /\ n = Len(dirs)
                       /\ more = [i \in 1 .. n |->
                            [at |-> dirs[i].dir, path |-> Path(imp.to, dirs[i].text, 0),
                             bare |-> FALSE]]
    OBVIOUS
  <2>3. n \in Nat
    BY <2>2, ListRange DEF DiskInv
  <2>4. IsList(more) /\ Len(more) = n
    <3>1. DOMAIN more = 1 .. n /\ more = [i \in 1 .. n |-> more[i]]
      BY <2>2
    <3>2. QED
      BY <2>3, <3>1, ListMade
  <2>5. Candidates(p, imp) = <<c>> \o more
    BY <1>2, <2>1, <2>2 DEF Candidates
  <2>6. PICK all : all = <<c>> \o more
    OBVIOUS
  <2>7. all[1] = c
    BY <2>4, <2>6, ListPrepend
  <2>8. \A i \in 1 .. Len(all) : i = 1 \/ (i - 1 \in 1 .. Len(more) /\ all[i] = more[i - 1])
    BY <2>4, <2>6, ListPrepend
  <2>9. \A i \in 1 .. n : more[i].path.file = imp.to
    BY <2>2 DEF Path
  <2>10. QED
    BY <2>1, <2>4, <2>5, <2>6, <2>7, <2>8, <2>9
<1>3. QED
  BY <1>1, <1>2

LEMMA GoodCalls ==
  ASSUME FramesInv, CallsInv, phase = "parse"
  PROVE  /\ \A i \in 1 .. Len(frames) : Good(frames[i])
         /\ frames[1].path = RootPath
         /\ \A i \in 1 .. Len(frames) - 1 :
              frames[i].pc = "wait" /\ frames[i + 1].path = frames[i].target
<1>1. \A i \in 1 .. Len(frames) : frames[i] \in Range(frames)
  BY ListRange DEF FramesInv
<1>2. QED
  BY <1>1 DEF CallsInv

(* A step that only goes on in the innermost call.                         *)
LEMMA TopGood ==
  ASSUME FramesInv, CallsInv, phase = "parse", NEW f, TopIs(f), f.path = top.path, Good(f),
         phase' = phase, disk' = disk
  PROVE  CallsInv' /\ TreeInv'
<1>1. /\ Len(frames) \in Nat \ {0} /\ Len(frames) \in 1 .. Len(frames)
      /\ top = frames[Len(frames)]
  BY TopIsFrame
<1>2. /\ IsList(frames') /\ Len(frames') = Len(frames)
      /\ \A i \in 1 .. Len(frames) : frames'[i] = IF i = Len(frames) THEN f ELSE frames[i]
  BY TopReplaced
<1>3. \A x : Good(x)' = Good(x)
  BY SameTrees
<1>4. /\ \A i \in 1 .. Len(frames) : Good(frames[i])
      /\ frames[1].path = RootPath
      /\ \A i \in 1 .. Len(frames) - 1 :
           frames[i].pc = "wait" /\ frames[i + 1].path = frames[i].target
  BY GoodCalls
<1>5. \A x \in Range(frames') : Good(x)
  <2>1. PICK t : t = frames'
    OBVIOUS
  <2>2. IsList(t) /\ Len(t) = Len(frames)
    BY <1>2, <2>1
  <2>3. \A x \in Range(t) : \E i \in 1 .. Len(frames) : t[i] = x
    BY <2>2, ListRange
  <2>4. \A x \in Range(t) : Good(x)
    BY <1>2, <1>4, <2>1, <2>3
  <2>5. QED
    BY <2>1, <2>4
<1>6. \A i \in 1 .. Len(frames) : frames'[i].path = frames[i].path
  BY <1>1, <1>2
<1>7. \A i \in 1 .. Len(frames) - 1 :
        /\ i \in 1 .. Len(frames) /\ i + 1 \in 1 .. Len(frames) /\ frames'[i] = frames[i]
  BY <1>1, <1>2
<1>8. \A i \in 1 .. Len(frames) - 1 :
        frames'[i].pc = "wait" /\ frames'[i + 1].path = frames'[i].target
  BY <1>4, <1>6, <1>7
<1>9. frames'[1].path = RootPath
  BY <1>1, <1>4, <1>6
<1>10. CallsInv'
  BY <1>2, <1>3, <1>5, <1>8, <1>9 DEF CallsInv, RootPath, Range
<1>11. TreeInv'
  BY DEF TreeInv
<1>12. QED
  BY <1>10, <1>11

(* A step outside the parser, or one that ends the program.                *)
LEMMA QuietGood ==
  ASSUME CallsInv, TreeInv, disk' = disk, frames' = frames, ast' = ast,
         \/ phase' = phase
         \/ phase' \notin {"parse", "gen_c", "emit_c", "gen_wit"}
         \/ phase \in {"gen_c", "emit_c"} /\ phase' \in {"emit_c", "gen_wit"}
  PROVE  CallsInv' /\ TreeInv'
<1>1. /\ \A f : Good(f)' = Good(f)
      /\ \A t, g : Whole(t, g)' = Whole(t, g)
  BY SameTrees
<1>3. Whole(ast, Root)' = Whole(ast, Root)
  BY <1>1 DEF Whole
<1>4. CallsInv'
  BY <1>1 DEF CallsInv, RootPath, Range
<1>5. TreeInv'
  BY <1>3 DEF TreeInv
<1>6. QED
  BY <1>4, <1>5

(* Another call of the same file, or the same call further on.             *)
LEMMA GoodAgain ==
  ASSUME NEW f, Good(f), NEW h, h.path = f.path, h.ast = f.ast, h.imp = f.imp, h.decl = f.decl,
         NEW imports, imports = disk[f.path.file].imports,
         h.pc \in {"resolve", "check", "read", "wait", "merge"} => f.imp <= Len(imports),
         h.pc \in {"module", "decl"} => f.imp = Len(imports) + 1,
         h.pc \notin {"decl", "fail"} => f.decl = 1,
         h.pc \in {"check", "read", "wait"} => h.target.file = imports[f.imp].to,
         h.pc = "merge" => Whole(h.child, imports[f.imp].to)
  PROVE  Good(h)
BY DEF Good

(* A call is good when it starts.                                          *)
LEMMA StartGood ==
  ASSUME DiskInv, NEW p, p.file \in Files, NEW f, f = Frame(p)
  PROVE  Good(f) /\ f.path = p
<1>1. PICK g, t : g = p.file /\ t = EmptyAst
  OBVIOUS
<1>2. /\ f.path = p /\ f.ast = t /\ f.imp = 1 /\ f.decl = 1 /\ f.pc = "start"
  BY <1>1 DEF Frame
<1>3. /\ IsAst(t) /\ t.module = NULL
      /\ t.ifaces = <<>> /\ t.structs = <<>> /\ t.imports = <<>>
  BY <1>1 DEF IsAst, EmptyAst
<1>4. Tree(t, g, 0, 0)
  BY <1>3, EmptyTree
<1>5. /\ Len(disk[g].imports) \in Nat /\ Len(disk[g].ifaces) \in Nat
      /\ Len(disk[g].structs) \in Nat
  <2>1. IsList(disk[g].imports) /\ IsList(disk[g].ifaces) /\ IsList(disk[g].structs)
    BY <1>1, ImportsAreFiles DEF DiskInv, IsFile
  <2>2. QED
    BY <2>1, ListRange
<1>6. 1 \in 1 .. Declarations(g) + 1 /\ IfacesOf(g, 0) = 0
  <2>1. PICK i, s : i = Len(disk[g].ifaces) /\ s = Len(disk[g].structs)
    OBVIOUS
  <2>2. 0 <= i /\ 1 \in 1 .. (i + s) + 1
    <3>1. i \in Nat /\ s \in Nat
      BY <1>5, <2>1
    <3>2. QED
      BY <3>1
  <2>3. Declarations(g) = i + s /\ IfacesOf(g, 0) = IF 0 <= i THEN 0 ELSE i
    BY <2>1 DEF Declarations, IfacesOf
  <2>4. QED
    BY <2>2, <2>3
<1>7. f.imp - 1 = 0 /\ f.decl - 1 = 0
  BY <1>2
<1>8. QED
  BY <1>1, <1>2, <1>4, <1>5, <1>6, <1>7 DEF Good

(* A call of which the whole file has been read.                           *)
LEMMA GoodAtEnd ==
  ASSUME DiskInv, NEW f, Good(f), f.pc = "decl", NEW g, g = f.path.file,
         f.decl > Len(disk[g].ifaces) + Len(disk[g].structs)
  PROVE  Whole(f.ast, g)
<1>1. PICK i, s : i = Len(disk[g].ifaces) /\ s = Len(disk[g].structs)
  OBVIOUS
<1>2. i \in Nat /\ s \in Nat /\ Len(disk[g].imports) \in Nat
  <2>1. IsList(disk[g].imports) /\ IsList(disk[g].ifaces) /\ IsList(disk[g].structs)
    BY ImportsAreFiles DEF DiskInv, IsFile, Good
  <2>2. QED
    BY <1>1, <2>1, ListRange
<1>3. f.decl \in 1 .. i + s + 1 /\ f.imp = Len(disk[g].imports) + 1
  BY <1>1 DEF Good, Declarations
<1>4. f.decl - 1 = i + s /\ f.imp - 1 = Len(disk[g].imports)
  <2>1. PICK d : d = f.decl
    OBVIOUS
  <2>2. d > i + s /\ d \in 1 .. i + s + 1
    BY <1>1, <1>3, <2>1
  <2>3. d - 1 = i + s
    BY <1>2, <2>2
  <2>4. f.imp - 1 = Len(disk[g].imports)
    BY <1>2, <1>3
  <2>5. QED
    BY <2>1, <2>3, <2>4
<1>5. IfacesOf(g, i + s) = i
  <2>1. PICK d : d = i + s
    OBVIOUS
  <2>2. d <= i => d = i
    BY <1>2, <2>1
  <2>3. IfacesOf(g, d) = IF d <= i THEN d ELSE i
    BY <1>1 DEF IfacesOf
  <2>4. QED
    BY <2>1, <2>2, <2>3
<1>6. Tree(f.ast, g, f.imp - 1, IfacesOf(g, f.decl - 1))
  BY DEF Good
<1>7. QED
  BY <1>1, <1>4, <1>5, <1>6 DEF Whole

LEMMA EnterGood ==
  ASSUME DiskInv, FramesInv, CallsInv, TreeInv, EnterImport
  PROVE  CallsInv' /\ TreeInv'
<1>1. /\ phase = "parse" /\ top.pc = "read" /\ UNCHANGED <<phase, disk, ast>>
  BY DEF EnterImport, Parsing
<1>2. PICK n : n = Len(frames)
  OBVIOUS
<1>3. n \in Nat \ {0} /\ n \in 1 .. n /\ top = frames[n] /\ IsFrame(top)
  BY <1>1, <1>2, TopIsFrame
<1>4. /\ \A i \in 1 .. n : Good(frames[i])
      /\ frames[1].path = RootPath
      /\ \A i \in 1 .. n - 1 : frames[i].pc = "wait" /\ frames[i + 1].path = frames[i].target
  BY <1>1, <1>2, GoodCalls
<1>5. PICK imports : imports = disk[top.path.file].imports
  OBVIOUS
<1>6. /\ Good(top) /\ top.imp <= Len(imports) /\ top.decl = 1
      /\ top.target.file = imports[top.imp].to
  BY <1>1, <1>3, <1>4, <1>5 DEF Good
<1>7. top.target.file \in Files
  <2>1. top.path.file \in Files /\ top.imp \in 1 .. Len(imports) + 1
    BY <1>5, <1>6 DEF Good
  <2>2. IsList(imports) /\ \A imp \in Range(imports) : imp.to \in Files
    BY <1>5, <2>1, ImportsAreFiles DEF DiskInv
  <2>3. top.imp \in 1 .. Len(imports)
    <3>1. Len(imports) \in Nat
      BY <2>2, ListRange
    <3>2. QED
      BY <1>6, <2>1, <3>1
  <2>4. QED
    BY <1>6, <2>2, <2>3, ListRange
<1>8. CASE frames' = frames
  BY <1>1, <1>8, QuietGood
<1>9. CASE Fail
  <2>1. PICK f : f = [top EXCEPT !.pc = "fail"]
    OBVIOUS
  <2>2. /\ f.path = top.path /\ f.ast = top.ast /\ f.imp = top.imp /\ f.decl = top.decl
        /\ f.pc = "fail"
    BY <1>3, <2>1 DEF IsFrame, FrameFields
  <2>3. Good(f)
    BY <1>6, <2>2, GoodAgain
  <2>4. TopIs(f)
    BY <1>9, <2>1 DEF Fail, GoTo
  <2>5. QED
    BY <1>1, <2>2, <2>3, <2>4, TopGood
<1>10. CASE frames' = Append([frames EXCEPT ![Len(frames)].pc = "wait"], Frame(top.target))
  <2>1. PICK g : g = [frames[n] EXCEPT !.pc = "wait"]
    OBVIOUS
  <2>2. PICK h : h = Frame(top.target)
    OBVIOUS
  <2>3. /\ IsList(frames') /\ Len(frames') = n + 1 /\ frames'[n + 1] = h
        /\ \A i \in 1 .. n : frames'[i] = IF i = n THEN g ELSE frames[i]
    <3>1. IsList(frames') /\ Len(frames') = n + 1 /\ frames'[n + 1] = h
      BY <1>1, <1>2, <1>10, <2>2, FramePushed
    <3>2. \A i \in 1 .. n : frames'[i] = IF i = n THEN g ELSE frames[i]
      BY <1>1, <1>2, <1>10, <2>1, FramePushed
    <3>3. QED
      BY <3>1, <3>2
  <2>4. /\ g.path = top.path /\ g.ast = top.ast /\ g.imp = top.imp /\ g.decl = top.decl
        /\ g.pc = "wait" /\ g.target = top.target
    BY <1>3, <2>1 DEF IsFrame, FrameFields
  <2>5. Good(g)
    BY <1>5, <1>6, <2>4, GoodAgain
  <2>6. Good(h)
    BY <1>7, <2>2, StartGood
  <2>7. h.path = top.target
    BY <1>7, <2>2, StartGood
  <2>8. \A i \in 1 .. n + 1 : i = n + 1 \/ i \in 1 .. n
    BY <1>3
  <2>9. PICK t : t = frames'
    OBVIOUS
  <2>10. \A i \in 1 .. n + 1 : Good(t[i])
    BY <1>4, <2>3, <2>5, <2>6, <2>8, <2>9
  <2>11. \A x \in Range(t) : Good(x)
    <3>1. IsList(t) /\ Len(t) = n + 1
      BY <2>3, <2>9
    <3>2. \A x \in Range(t) : \E i \in 1 .. n + 1 : t[i] = x
      BY <3>1, ListRange
    <3>3. QED
      BY <2>10, <3>2
  <2>12. \A i \in 1 .. n : t[i].pc = "wait" /\ t[i + 1].path = t[i].target
    <3>1. TAKE i \in 1 .. n
    <3>2. CASE i = n
      BY <1>3, <2>3, <2>4, <2>7, <2>9, <3>2
    <3>3. CASE i # n
      <4>1. i \in 1 .. n - 1 /\ i + 1 \in 1 .. n /\ i \in 1 .. n
        BY <1>3, <3>3
      <4>2. t[i] = frames[i]
        BY <2>3, <2>9, <3>3
      <4>3. t[i + 1].path = frames[i + 1].path
        BY <1>3, <2>3, <2>4, <2>9, <4>1
      <4>4. QED
        BY <1>4, <4>1, <4>2, <4>3
    <3>4. QED
      BY <3>2, <3>3
  <2>13. t[1].path = RootPath
    BY <1>3, <1>4, <2>3, <2>4, <2>9
  <2>14. /\ \A x \in Range(t) : Good(x)'
         /\ \A i \in 1 .. Len(t) - 1 : t[i].pc = "wait" /\ t[i + 1].path = t[i].target
    <3>1. \A x : Good(x)' = Good(x)
      BY <1>1, SameTrees
    <3>2. Len(t) - 1 = n
      BY <1>3, <2>3, <2>9
    <3>3. QED
      BY <2>11, <2>12, <3>1, <3>2
  <2>15. CallsInv'
    BY <2>9, <2>13, <2>14 DEF CallsInv, RootPath, Range
  <2>16. TreeInv'
    BY <1>1 DEF TreeInv
  <2>17. QED
    BY <2>15, <2>16
<1>11. QED
  BY <1>8, <1>9, <1>10 DEF EnterImport

LEMMA ReadRootGood ==
  ASSUME DiskInv, CallsInv, TreeInv, ReadRoot
  PROVE  CallsInv' /\ TreeInv'
<1>1. phase = "read" /\ UNCHANGED <<disk, ast>>
  BY DEF ReadRoot
<1>2. CASE frames' = frames /\ phase' = phase
  BY <1>1, <1>2, QuietGood
<1>3. CASE frames' = <<Frame(RootPath)>> /\ phase' = "parse"
  <2>1. PICK f : f = Frame(RootPath)
    OBVIOUS
  <2>2. RootPath.file \in Files
    BY NidlAssumption DEF RootPath, Path
  <2>3. Good(f)
    BY <2>1, <2>2, StartGood
  <2>4. f.path = RootPath
    BY <2>1, <2>2, StartGood
  <2>5. PICK t : t = frames'
    OBVIOUS
  <2>6. t = <<f>> /\ Len(t) = 1 /\ t[1] = f /\ Range(t) = {f}
    BY <1>3, <2>1, <2>5 DEF Range
  <2>7. Good(f)'
    BY <1>1, <2>3, SameTrees
  <2>8. /\ \A x \in Range(t) : Good(x)'
        /\ \A i \in 1 .. Len(t) - 1 : t[i].pc = "wait" /\ t[i + 1].path = t[i].target
        /\ t[1].path = RootPath
    BY <2>4, <2>6, <2>7
  <2>9. CallsInv'
    BY <2>5, <2>8 DEF CallsInv, RootPath, Range
  <2>10. TreeInv'
    BY <1>3 DEF TreeInv
  <2>11. QED
    BY <2>9, <2>10
<1>4. QED
  BY <1>2, <1>3 DEF ReadRoot

LEMMA ReturnGood ==
  ASSUME DiskInv, FramesInv, StackInv, CallsInv, TreeInv, CloseFile \/ ReturnNull
  PROVE  CallsInv' /\ TreeInv'
<1>1. phase = "parse" /\ outcome = "running" /\ UNCHANGED <<disk, deepest>>
  BY DEF CloseFile, ReturnNull, Parsing
<1>2. PICK n : n = Len(frames) - 1
  OBVIOUS
<1>3. /\ n \in Nat /\ Len(frames) = n + 1 /\ n + 1 \in 1 .. n + 1 /\ top = frames[n + 1]
      /\ IsFrame(top)
  BY <1>1, <1>2, TopIsFrame
<1>4. /\ \A i \in 1 .. n + 1 : Good(frames[i])
      /\ frames[1].path = RootPath
      /\ \A i \in 1 .. n : frames[i].pc = "wait" /\ frames[i + 1].path = frames[i].target
  <2>1. Len(frames) - 1 = n
    BY <1>2
  <2>2. QED
    BY <1>1, <1>3, <2>1, GoodCalls
<1>5. CloseFile => Whole(top.ast, top.path.file)
  <2>1. SUFFICES ASSUME CloseFile
                 PROVE  Whole(top.ast, top.path.file)
    OBVIOUS
  <2>2. PICK f, g : f = top /\ g = f.path.file
    OBVIOUS
  <2>3. f.pc = "decl" /\ f.decl > Len(disk[g].ifaces) + Len(disk[g].structs)
    BY <2>1, <2>2 DEF CloseFile, Parsing, Contents
  <2>4. Good(f)
    BY <1>3, <1>4, <2>2
  <2>5. Whole(f.ast, g)
    BY <2>2, <2>3, <2>4, GoodAtEnd
  <2>6. QED
    BY <2>2, <2>5
<1>6. CASE ReturnNull /\ Len(frames) = 1
  <2>1. frames' = frames /\ ast' = ast /\ phase' = phase
    BY <1>6 DEF ReturnNull
  <2>2. QED
    BY <1>1, <2>1, QuietGood
<1>7. CASE CloseFile /\ Len(frames) = 1
  <2>1. PICK a : a = ast'
    OBVIOUS
  <2>2. a = top.ast /\ phase' = "gen_c"
    BY <1>7, <2>1 DEF CloseFile
  <2>3. top.path.file = Root
    <3>1. n = 0
      BY <1>2, <1>7
    <3>2. n + 1 = 1
      BY <3>1
    <3>3. top = frames[1]
      BY <1>3, <3>2
    <3>4. QED
      BY <1>4, <3>3 DEF RootPath, Path
  <2>4. Whole(a, Root)
    BY <1>5, <1>7, <2>2, <2>3
  <2>5. Whole(a, Root)'
    BY <1>1, <2>4, SameTrees
  <2>6. TreeInv'
    BY <2>1, <2>5 DEF TreeInv, Whole, Tree
  <2>7. CallsInv'
    BY <2>2 DEF CallsInv
  <2>8. QED
    BY <2>6, <2>7
<1>8. CASE Len(frames) # 1
  <2>1. PICK g : /\ IsFrame(g) /\ g.path = frames[n].path /\ g.imp = frames[n].imp
                 /\ g.ast = frames[n].ast /\ g.decl = frames[n].decl
                 /\ g.pc \in {"merge", "fail"} /\ GoesOn(n, g)
                 /\ g.pc = "merge" => CloseFile /\ g.child = top.ast
    BY <1>2, <1>8, CallerFrame
  <2>2. stack' = Popped(stack) /\ phase' = phase /\ ast' = ast
    BY <1>8 DEF CloseFile, ReturnNull
  <2>3. /\ IsList(frames') /\ Len(frames') = n /\ frames'[n] = g
        /\ \A i \in 1 .. n : i # n => frames'[i] = frames[i]
    <3>1. g.pc # "read"
      BY <2>1
    <3>2. /\ Len(frames') = n /\ frames'[n] = g
          /\ \A i \in 1 .. n : i # n => frames'[i] = frames[i]
      BY <1>1, <1>2, <1>8, <2>1, <2>2, <3>1, PopStep
    <3>3. FramesInv'
      BY <1>1, <1>2, <1>8, <2>1, <2>2, <3>1, PopStep
    <3>4. IsList(frames')
      BY <3>3 DEF FramesInv, IsList
    <3>5. QED
      BY <3>2, <3>4
  <2>4. n \in Nat \ {0} /\ n \in 1 .. n /\ n \in 1 .. n + 1
    BY <1>2, <1>3, <1>8
  <2>5. PICK f, imports : f = frames[n] /\ imports = disk[f.path.file].imports
    OBVIOUS
  <2>6. Good(f) /\ f.pc = "wait" /\ top.path = f.target
    BY <1>3, <1>4, <2>4, <2>5
  <2>7. f.decl = 1 /\ f.imp <= Len(imports) /\ f.target.file = imports[f.imp].to
    BY <2>5, <2>6 DEF Good
  <2>8. Good(g)
    <3>1. g.pc = "merge" => Whole(g.child, imports[f.imp].to)
      BY <1>5, <2>1, <2>6, <2>7
    <3>2. g.pc \notin {"check", "read", "wait", "module", "decl"}
      BY <2>1
    <3>3. g.path = f.path /\ g.imp = f.imp /\ g.ast = f.ast /\ g.decl = f.decl
      BY <2>1, <2>5
    <3>4. QED
      BY <2>5, <2>6, <2>7, <3>1, <3>2, <3>3, GoodAgain
  <2>9. PICK t : t = frames'
    OBVIOUS
  <2>10. \A i \in 1 .. n : Good(t[i]) /\ t[i].path = frames[i].path
    <3>1. TAKE i \in 1 .. n
    <3>2. i \in 1 .. n + 1
      BY <1>3
    <3>3. CASE i = n
      BY <2>1, <2>3, <2>8, <2>9, <3>3
    <3>4. CASE i # n
      BY <1>4, <2>3, <2>9, <3>2, <3>4
    <3>5. QED
      BY <3>3, <3>4
  <2>11. \A x \in Range(t) : Good(x)
    <3>1. IsList(t) /\ Len(t) = n
      BY <2>3, <2>9
    <3>2. \A x \in Range(t) : \E i \in 1 .. n : t[i] = x
      BY <3>1, ListRange
    <3>3. QED
      BY <2>10, <3>2
  <2>12. \A i \in 1 .. n - 1 : t[i].pc = "wait" /\ t[i + 1].path = t[i].target
    <3>1. TAKE i \in 1 .. n - 1
    <3>2. i \in 1 .. n /\ i + 1 \in 1 .. n /\ i # n
      BY <1>3
    <3>3. t[i] = frames[i] /\ t[i + 1].path = frames[i + 1].path
      BY <2>3, <2>9, <2>10, <3>2
    <3>4. QED
      BY <1>4, <3>2, <3>3
  <2>13. t[1].path = RootPath
    <3>1. 1 \in 1 .. n
      BY <2>4
    <3>2. QED
      BY <1>4, <2>10, <3>1
  <2>14. /\ \A x \in Range(t) : Good(x)'
         /\ \A i \in 1 .. Len(t) - 1 : t[i].pc = "wait" /\ t[i + 1].path = t[i].target
    <3>1. \A x : Good(x)' = Good(x)
      BY <1>1, SameTrees
    <3>2. Len(t) - 1 = n - 1
      BY <2>3, <2>9
    <3>3. QED
      BY <2>11, <2>12, <3>1, <3>2
  <2>15. CallsInv'
    BY <2>9, <2>13, <2>14 DEF CallsInv, RootPath, Range
  <2>16. TreeInv'
    BY <1>1, <2>2 DEF TreeInv
  <2>17. QED
    BY <2>15, <2>16
<1>9. QED
  BY <1>6, <1>7, <1>8

LEMMA CallsGood ==
  ASSUME DiskInv, SearchInv, FramesInv, CallsInv, TreeInv,
         StartFile \/ NextImport \/ TryCandidate \/ CheckCycle \/ ParseModule \/ Declare
           \/ MergeImport
  PROVE  CallsInv' /\ TreeInv'
<1>1. /\ phase = "parse" /\ outcome = "running" /\ UNCHANGED <<phase, disk, ast>>
  BY DEF StartFile, NextImport, TryCandidate, CheckCycle, ParseModule, Declare, MergeImport, Parsing
<1>2. PICK g, d, imports, n :
        /\ g = top.path.file /\ d = disk[g] /\ imports = d.imports /\ n = Len(imports)
  OBVIOUS
<1>3. IsFrame(top) /\ Good(top) /\ Contents = d
  <2>1. Len(frames) \in 1 .. Len(frames) /\ top = frames[Len(frames)] /\ IsFrame(top)
    BY <1>1, TopIsFrame
  <2>2. \A i \in 1 .. Len(frames) : Good(frames[i])
    BY <1>1, GoodCalls
  <2>3. QED
    BY <1>2, <2>1, <2>2 DEF Contents
<1>4. /\ g \in Files /\ top.imp \in 1 .. n + 1 /\ top.decl \in 1 .. Declarations(g) + 1
      /\ top.pc \in {"resolve", "check", "read", "wait", "merge"} => top.imp <= n
      /\ top.pc \in {"module", "decl"} => top.imp = n + 1
      /\ top.pc \notin {"decl", "fail"} => top.decl = 1
      /\ top.pc \in {"check", "read", "wait"} => top.target.file = imports[top.imp].to
      /\ top.pc = "merge" => Whole(top.child, imports[top.imp].to)
      /\ Tree(top.ast, g, top.imp - 1, IfacesOf(g, top.decl - 1))
  BY <1>2, <1>3 DEF Good
<1>5. /\ disk \in Disks /\ n \in Nat /\ Len(d.ifaces) \in Nat /\ Len(d.structs) \in Nat
  <2>1. IsFile(d)
    BY <1>2, <1>4, ImportsAreFiles DEF DiskInv
  <2>2. IsList(imports) /\ IsList(d.ifaces) /\ IsList(d.structs)
    BY <1>2, <2>1 DEF IsFile
  <2>3. QED
    BY <1>2, <2>2, ListRange DEF DiskInv
<1>6. ASSUME frames' = frames
      PROVE  CallsInv' /\ TreeInv'
  BY <1>1, <1>6, QuietGood
<1>7. ASSUME NEW f, TopIs(f), f.path = top.path, Good(f)
      PROVE  CallsInv' /\ TreeInv'
  BY <1>1, <1>7, TopGood
<1>8. ASSUME NEW f, TopIs(f), f.path = top.path, f.ast = top.ast, f.imp = top.imp,
             f.decl = top.decl, f.pc \notin {"wait", "merge"},
             f.pc \notin {"decl", "fail"} => top.decl = 1,
             f.pc \in {"resolve", "check", "read"} => top.imp <= n,
             f.pc \in {"module", "decl"} => top.imp = n + 1,
             f.pc \in {"check", "read"} => f.target.file = imports[top.imp].to
      PROVE  CallsInv' /\ TreeInv'
  <2>1. imports = disk[top.path.file].imports
    BY <1>2
  <2>2. Good(f)
    BY <1>2, <1>3, <1>8, <2>1, GoodAgain
  <2>3. QED
    BY <1>7, <1>8, <2>2
<1>9. ASSUME NEW pc, GoTo(pc), pc \in {"import", "module", "read", "decl", "fail"},
             pc # "fail" => top.decl = 1,
             pc = "read" => top.imp <= n /\ top.target.file = imports[top.imp].to,
             pc \in {"module", "decl"} => top.imp = n + 1
      PROVE  CallsInv' /\ TreeInv'
  <2>1. PICK f : f = [top EXCEPT !.pc = pc]
    OBVIOUS
  <2>2. /\ f.path = top.path /\ f.ast = top.ast /\ f.imp = top.imp /\ f.decl = top.decl
        /\ f.pc = pc /\ f.target = top.target
    BY <1>3, <2>1 DEF IsFrame, FrameFields
  <2>3. TopIs(f)
    BY <1>9, <2>1 DEF GoTo
  <2>4. QED
    BY <1>8, <1>9, <2>2, <2>3
<1>10. CASE StartFile
  <2>1. top.pc = "start"
    BY <1>10 DEF StartFile, Parsing
  <2>2. CASE GoTo("import")
    BY <1>4, <1>9, <2>1, <2>2
  <2>3. CASE TopIs([top EXCEPT !.pc = "import", !.file = FALSE])
    <3>1. PICK f : f = [top EXCEPT !.pc = "import", !.file = FALSE]
      OBVIOUS
    <3>2. /\ f.path = top.path /\ f.ast = top.ast /\ f.imp = top.imp /\ f.decl = top.decl
          /\ f.pc = "import"
      BY <1>3, <3>1 DEF IsFrame, FrameFields
    <3>3. TopIs(f)
      BY <2>3, <3>1
    <3>4. QED
      BY <1>4, <1>8, <2>1, <3>2, <3>3
  <2>4. QED
    BY <1>6, <1>10, <2>2, <2>3 DEF StartFile
<1>11. CASE NextImport
  <2>1. top.pc = "import" /\ top.decl = 1
    BY <1>4, <1>11 DEF NextImport, Parsing
  <2>2. CASE top.imp > n /\ GoTo("module")
    <3>1. top.imp = n + 1
      BY <1>4, <1>5, <2>2
    <3>2. QED
      BY <1>9, <2>1, <2>2, <3>1
  <2>3. CASE ~(top.imp > n) /\ TopIs([top EXCEPT !.pc = "resolve", !.try = 1])
    <3>1. PICK f : f = [top EXCEPT !.pc = "resolve", !.try = 1]
      OBVIOUS
    <3>2. /\ f.path = top.path /\ f.ast = top.ast /\ f.imp = top.imp /\ f.decl = top.decl
          /\ f.pc = "resolve"
      BY <1>3, <3>1 DEF IsFrame, FrameFields
    <3>3. top.imp <= n
      BY <1>4, <1>5, <2>3
    <3>4. TopIs(f)
      BY <2>3, <3>1
    <3>5. QED
      BY <1>8, <2>1, <3>2, <3>3, <3>4
  <2>4. QED
    BY <1>2, <1>3, <1>6, <1>11, <2>2, <2>3 DEF NextImport, CrashIfNull
<1>12. CASE TryCandidate
  <2>1. top.pc = "resolve" /\ top.decl = 1 /\ top.imp <= n
    BY <1>4, <1>12 DEF TryCandidate, Parsing
  <2>2. CASE Fail
    BY <1>9, <2>1, <2>2 DEF Fail
  <2>3. PICK places : places = Candidates(top.path, Import)
    OBVIOUS
  <2>4. Import = imports[top.imp]
    BY <1>2, <1>3 DEF Import
  <2>5. CASE /\ ~(top.try > Len(places))
             /\ TopIs([top EXCEPT !.pc = "check", !.target = places[top.try].path])
    <3>1. PICK p : p = places[top.try].path
      OBVIOUS
    <3>2. PICK f : f = [top EXCEPT !.pc = "check", !.target = p]
      OBVIOUS
    <3>3. /\ f.path = top.path /\ f.ast = top.ast /\ f.imp = top.imp /\ f.decl = top.decl
          /\ f.pc = "check" /\ f.target = p
      BY <1>3, <3>2 DEF IsFrame, FrameFields
    <3>4. top.try \in Nat \ {0}
      BY <1>1, <2>1 DEF SearchInv, Searching
    <3>5. top.try \in 1 .. Len(places)
      <4>1. Len(places) \in Nat
        BY <2>3, CandidatesAreList
      <4>2. QED
        BY <2>5, <3>4, <4>1
    <3>6. p.file = imports[top.imp].to
      BY <2>3, <2>4, <3>1, <3>5, CandidatesLead
    <3>7. TopIs(f)
      BY <2>5, <3>1, <3>2
    <3>8. QED
      BY <1>8, <2>1, <3>3, <3>6, <3>7
  <2>6. CASE TopIs([top EXCEPT !.try = @ + 1])
    <3>1. PICK f : f = [top EXCEPT !.try = @ + 1]
      OBVIOUS
    <3>2. /\ f.path = top.path /\ f.ast = top.ast /\ f.imp = top.imp /\ f.decl = top.decl
          /\ f.pc = "resolve"
      BY <1>3, <2>1, <3>1 DEF IsFrame, FrameFields
    <3>3. TopIs(f)
      BY <2>6, <3>1
    <3>4. QED
      BY <1>8, <2>1, <3>2, <3>3
  <2>7. QED
    BY <1>12, <2>2, <2>3, <2>5, <2>6 DEF TryCandidate
<1>13. CASE CheckCycle
  <2>1. /\ top.pc = "check" /\ top.decl = 1 /\ top.imp <= n
        /\ top.target.file = imports[top.imp].to
    BY <1>4, <1>13 DEF CheckCycle, Parsing
  <2>2. QED
    BY <1>9, <1>13, <2>1 DEF CheckCycle, Fail
<1>14. CASE ParseModule
  <2>1. top.pc = "module" /\ top.decl = 1 /\ top.imp = n + 1
    BY <1>4, <1>14 DEF ParseModule, Parsing
  <2>2. CASE TopIs([top EXCEPT !.pc = "decl", !.ast.module = Contents.module])
    <3>1. PICK a : a = [top.ast EXCEPT !.module = Contents.module]
      OBVIOUS
    <3>2. PICK f : f = [top EXCEPT !.pc = "decl", !.ast = a]
      OBVIOUS
    <3>3. /\ f.path = top.path /\ f.ast = a /\ f.imp = top.imp /\ f.decl = top.decl
          /\ f.pc = "decl"
      BY <1>3, <3>2 DEF IsFrame, FrameFields
    <3>4. TopIs(f)
      BY <2>2, <3>1, <3>2
    <3>5. /\ IsAst(a) /\ a.ifaces = top.ast.ifaces /\ a.structs = top.ast.structs
          /\ a.imports = top.ast.imports /\ a.module = disk[g].module
      BY <1>2, <1>3, <1>4, <3>1 DEF Tree, IsAst
    <3>6. Tree(a, g, top.imp - 1, IfacesOf(g, top.decl - 1))
      BY <1>4, <3>5 DEF Tree
    <3>7. Good(f)
      BY <1>2, <1>4, <2>1, <3>3, <3>6 DEF Good
    <3>8. QED
      BY <1>7, <3>3, <3>4, <3>7
  <2>3. CASE GoTo("decl")
    BY <1>9, <2>1, <2>3
  <2>4. CASE Fail
    BY <1>9, <2>4 DEF Fail
  <2>5. QED
    BY <1>6, <1>14, <2>2, <2>3, <2>4 DEF ParseModule
<1>15. CASE Declare
  <2>1. PICK ni, ns, k : ni = Len(d.ifaces) /\ ns = Len(d.structs) /\ k = top.decl
    OBVIOUS
  <2>2. /\ top.pc = "decl" /\ top.imp = n + 1 /\ k <= ni + ns /\ k \in Nat \ {0}
        /\ ni \in Nat /\ ns \in Nat
    <3>1. top.pc = "decl" /\ top.decl <= Len(d.ifaces) + Len(d.structs)
      BY <1>3, <1>15 DEF Declare, Parsing
    <3>2. k \in 1 .. (ni + ns) + 1
      BY <1>2, <1>4, <2>1 DEF Declarations
    <3>3. ni \in Nat /\ ns \in Nat
      BY <1>5, <2>1
    <3>4. k \in Nat \ {0}
      BY <3>2, <3>3
    <3>5. QED
      BY <1>4, <2>1, <3>1, <3>3, <3>4
  <2>3. ASSUME NEW x, NEW y, NEW lost, k <= ni => IsOwn(x, d.ifaces[k], g),
               y = Struct(d.structs[k - ni], g, lost),
               TopIs([top EXCEPT !.decl = @ + 1,
                                 !.ast.ifaces = IF k <= ni THEN <<x>> \o @ ELSE @,
                                 !.ast.structs = IF k <= ni THEN @ ELSE <<y>> \o @])
        PROVE  CallsInv' /\ TreeInv'
    <3>1. PICK i : i = IF k <= ni THEN <<x>> \o top.ast.ifaces ELSE top.ast.ifaces
      OBVIOUS
    <3>2. PICK s : s = IF k <= ni THEN top.ast.structs ELSE <<y>> \o top.ast.structs
      OBVIOUS
    <3>3. IsAst(top.ast)
      BY <1>4 DEF Tree
    <3>4. PICK a : a = [top.ast EXCEPT !.ifaces = i, !.structs = s]
      OBVIOUS
    <3>5. /\ IsAst(a) /\ a.ifaces = i /\ a.structs = s /\ a.imports = top.ast.imports
          /\ a.module = top.ast.module
      BY <3>3, <3>4 DEF IsAst
    <3>6. PICK f : f = [top EXCEPT !.decl = k + 1, !.ast = a]
      OBVIOUS
    <3>7. /\ f.path = top.path /\ f.ast = a /\ f.imp = top.imp /\ f.decl = k + 1
          /\ f.pc = "decl"
      BY <1>3, <2>2, <3>6 DEF IsFrame, FrameFields
    <3>8. TopIs(f)
      BY <1>3, <2>1, <2>3, <3>1, <3>2, <3>3, <3>4, <3>6 DEF IsFrame, FrameFields, IsAst
    <3>9. Tree(a, g, n, IfacesOf(g, k))
      <4>1. Tree(top.ast, g, n, IfacesOf(g, k - 1))
        BY <1>4, <1>5, <2>1, <2>2
      <4>2. CASE k <= ni
        <5>1. IfacesOf(g, k - 1) = k - 1 /\ IfacesOf(g, k) = k
          BY <1>2, <2>1, <2>2, <4>2 DEF IfacesOf
        <5>2. PICK own : own = k - 1
          OBVIOUS
        <5>3. own \in Nat /\ own < ni /\ own + 1 = k
          BY <2>2, <4>2, <5>2
        <5>4. /\ a.structs = top.ast.structs /\ a.imports = top.ast.imports
              /\ a.module = top.ast.module /\ a.ifaces = <<x>> \o top.ast.ifaces
              /\ IsOwn(x, disk[g].ifaces[own + 1], g)
          BY <1>2, <2>3, <3>1, <3>2, <3>5, <4>2, <5>3
        <5>5. Tree(top.ast, g, n, own) /\ own < Len(disk[g].ifaces)
          BY <1>2, <2>1, <4>1, <5>1, <5>2, <5>3
        <5>6. Tree(a, g, n, own + 1)
          BY <1>4, <1>5, <3>5, <5>3, <5>4, <5>5, DeclaredTree
        <5>7. QED
          BY <5>1, <5>3, <5>6
      <4>3. CASE ~(k <= ni)
        <5>1. IfacesOf(g, k - 1) = ni /\ IfacesOf(g, k) = ni
          <6>1. k - 1 <= ni => k - 1 = ni
            BY <2>2, <4>3
          <6>2. QED
            BY <1>2, <2>1, <4>3, <6>1 DEF IfacesOf
        <5>2. PICK name : name = d.structs[k - ni]
          OBVIOUS
        <5>3. /\ a.ifaces = top.ast.ifaces /\ a.imports = top.ast.imports
              /\ a.module = top.ast.module
              /\ a.structs = <<Struct(name, g, lost)>> \o top.ast.structs
          BY <2>3, <3>1, <3>2, <3>5, <4>3, <5>2
        <5>4. Tree(top.ast, g, n, ni)
          BY <4>1, <5>1
        <5>5. QED
          BY <3>5, <5>1, <5>3, <5>4, StructTree
      <4>4. QED
        BY <4>2, <4>3
    <3>10. k + 1 \in 1 .. Declarations(g) + 1
      <4>1. Declarations(g) = ni + ns
        BY <1>2, <2>1 DEF Declarations
      <4>2. QED
        BY <2>2, <4>1
    <3>11. (k + 1) - 1 = k /\ (n + 1) - 1 = n
      BY <1>5, <2>2
    <3>12. Good(f)
      BY <1>2, <1>4, <2>2, <3>7, <3>9, <3>10, <3>11 DEF Good
    <3>13. QED
      BY <1>7, <3>7, <3>8, <3>12
  <2>4. CASE k <= ni /\ \E lost \in SUBSET Texts(d.ifaces[k]) :
               TopIs([top EXCEPT !.decl = @ + 1,
                                 !.ast.ifaces = <<Iface(d.ifaces[k], g, lost)>> \o @,
                                 !.ast.structs = @])
    <3>1. PICK lost \in SUBSET Texts(d.ifaces[k]) :
            TopIs([top EXCEPT !.decl = @ + 1,
                              !.ast.ifaces = <<Iface(d.ifaces[k], g, lost)>> \o @,
                              !.ast.structs = @])
      BY <2>4
    <3>2. PICK x, y : /\ x = Iface(d.ifaces[k], g, lost)
                      /\ y = Struct(d.structs[k - ni], g, lost)
      OBVIOUS
    <3>3. IsOwn(x, d.ifaces[k], g)
      BY <3>2 DEF IsOwn
    <3>4. TopIs([top EXCEPT !.decl = @ + 1,
                            !.ast.ifaces = IF k <= ni THEN <<x>> \o @ ELSE @,
                            !.ast.structs = IF k <= ni THEN @ ELSE <<y>> \o @])
      BY <2>4, <3>1, <3>2
    <3>5. QED
      BY <2>3, <3>2, <3>3, <3>4
  <2>5. CASE ~(k <= ni) /\ \E lost :
               TopIs([top EXCEPT !.decl = @ + 1,
                                 !.ast.ifaces = @,
                                 !.ast.structs = <<Struct(d.structs[k - ni], g, lost)>> \o @])
    <3>1. PICK lost :
            TopIs([top EXCEPT !.decl = @ + 1,
                              !.ast.ifaces = @,
                              !.ast.structs = <<Struct(d.structs[k - ni], g, lost)>> \o @])
      BY <2>5
    <3>2. PICK x, y : x = NULL /\ y = Struct(d.structs[k - ni], g, lost)
      OBVIOUS
    <3>3. TopIs([top EXCEPT !.decl = @ + 1,
                            !.ast.ifaces = IF k <= ni THEN <<x>> \o @ ELSE @,
                            !.ast.structs = IF k <= ni THEN @ ELSE <<y>> \o @])
      BY <2>5, <3>1, <3>2
    <3>4. QED
      BY <2>3, <2>5, <3>2, <3>3
  <2>6. CASE Fail
    BY <1>9, <2>6 DEF Fail
  <2>7. QED
    BY <1>2, <1>3, <1>6, <1>15, <2>1, <2>4, <2>5, <2>6, DeclareCases
<1>16. CASE MergeImport
  <2>1. top.pc = "merge" /\ top.imp <= n /\ top.decl = 1
    BY <1>4, <1>16 DEF MergeImport, Parsing
  <2>2. PICK c, m, k : c = top.child /\ m = top.child.module /\ k = top.imp
    OBVIOUS
  <2>3. k \in 1 .. n /\ (k + 1) - 1 = k /\ Whole(c, imports[k].to)
    BY <1>4, <1>5, <2>1, <2>2
  <2>4. CASE TopIs([top EXCEPT
             !.pc = "import", !.imp = @ + 1, !.child = NULL, !.target = NULL,
             !.ast.ifaces = Merge(@, top.child.ifaces, m),
             !.ast.structs = Merge(@, top.child.structs, m),
             !.ast.imports = <<m>> \o @])
    <3>1. PICK i, s, l : /\ i = Merge(top.ast.ifaces, c.ifaces, m)
                         /\ s = Merge(top.ast.structs, c.structs, m)
                         /\ l = <<m>> \o top.ast.imports
      OBVIOUS
    <3>2. IsAst(top.ast)
      BY <1>4 DEF Tree
    <3>3. PICK a : a = [top.ast EXCEPT !.ifaces = i, !.structs = s, !.imports = l]
      OBVIOUS
    <3>4. /\ IsAst(a) /\ a.ifaces = i /\ a.structs = s /\ a.imports = l
          /\ a.module = top.ast.module
      BY <3>2, <3>3 DEF IsAst
    <3>5. PICK f : f = [top EXCEPT !.pc = "import", !.imp = k + 1, !.child = NULL,
                                   !.target = NULL, !.ast = a]
      OBVIOUS
    <3>6. /\ f.path = top.path /\ f.ast = a /\ f.imp = k + 1 /\ f.decl = top.decl
          /\ f.pc = "import"
      BY <1>3, <3>5 DEF IsFrame, FrameFields
    <3>7. TopIs(f)
      <4>1. PICK t, b : t = top /\ b = t.ast
        OBVIOUS
      <4>2. "ast" \in DOMAIN t /\ DOMAIN b = {"module", "ifaces", "structs", "imports"}
        BY <1>3, <3>2, <4>1 DEF IsFrame, FrameFields, IsAst
      <4>3. PICK h : h = [t EXCEPT
               !.pc = "import", !.imp = @ + 1, !.child = NULL, !.target = NULL,
               !.ast.ifaces = Merge(@, c.ifaces, m),
               !.ast.structs = Merge(@, c.structs, m),
               !.ast.imports = <<m>> \o @]
        OBVIOUS
      <4>4. TopIs(h)
        BY <2>2, <2>4, <4>1, <4>3
      <4>5. h = f
        BY <2>2, <3>1, <3>3, <3>5, <4>1, <4>2, <4>3
      <4>6. QED
        BY <4>4, <4>5
    <3>8. IfacesOf(g, 0) = 0 /\ top.decl - 1 = 0
      BY <1>2, <1>5, <2>1 DEF IfacesOf
    <3>9. Tree(top.ast, g, k - 1, 0)
      BY <1>4, <2>2, <3>8
    <3>10. Tree(a, g, k, 0)
      <4>1. /\ a.ifaces = Merge(top.ast.ifaces, c.ifaces, m)
            /\ a.structs = Merge(top.ast.structs, c.structs, m)
            /\ a.imports = <<m>> \o top.ast.imports
        BY <3>1, <3>4
      <4>2. k \in 1 .. Len(disk[g].imports) /\ Whole(c, disk[g].imports[k].to)
        BY <1>2, <2>3
      <4>3. QED
        BY <1>4, <1>5, <2>2, <3>4, <3>9, <4>1, <4>2, MergedTree
    <3>11. k + 1 \in 1 .. n + 1 /\ k + 1 \in Int
      BY <1>5, <2>3
    <3>12. Good(f)
      BY <1>2, <1>4, <2>1, <2>3, <3>6, <3>8, <3>10, <3>11 DEF Good
    <3>13. QED
      BY <1>7, <3>6, <3>7, <3>12
  <2>5. QED
    BY <1>6, <1>16, <2>2, <2>4 DEF MergeImport, CrashIfNull
<1>17. QED
  BY <1>10, <1>11, <1>12, <1>13, <1>14, <1>15, <1>16

LEMMA TreeNext ==
  ASSUME DiskInv, SearchInv, FramesInv, StackInv, CallsInv, TreeInv, [NidlNext]_allVars
  PROVE  CallsInv' /\ TreeInv'
<1>1. CASE CollectDirs
  <2>1. /\ frames' = frames /\ ast' = ast /\ disk' = disk
        /\ phase' = phase \/ phase' = "read"
    BY <1>1 DEF CollectDirs
  <2>2. QED
    BY <2>1, QuietGood
<1>2. CASE StartFile \/ NextImport \/ TryCandidate \/ CheckCycle \/ ParseModule \/ Declare
             \/ MergeImport
  BY <1>2, CallsGood
<1>3. CASE WriteHeader
  BY <1>3, QuietGood DEF WriteHeader
<1>4. CASE EmitHeader
  BY <1>4, QuietGood DEF EmitHeader
<1>5. CASE WriteWit
  BY <1>5, QuietGood DEF WriteWit
<1>6. CASE Ended \/ UNCHANGED allVars
  BY <1>6, QuietGood DEF Ended, allVars, nidlVars
<1>7. QED
  BY <1>1, <1>2, <1>3, <1>4, <1>5, <1>6, ReadRootGood, EnterGood, ReturnGood DEF NidlNext

(* The inductive invariant of the trees: every call has the declarations   *)
(* that it has read so far, and one copy of each that its imports so far   *)
(* lead to, each marked with the module that the first such import gave it *)
(* (unless memory ran out for a name); what is lost of a declaration is    *)
(* copies of tokens only, and a call that has ended has left the whole     *)
(* tree of its file.                                                       *)
THEOREM TreeInvariant == NidlSpec => [](DiskInv /\ CallsInv /\ TreeInv)
<1> DEFINE Trees == CallsInv /\ TreeInv
<1>1. NidlInit => Trees
  BY DEF NidlInit, CallsInv, TreeInv
<1>2. Trees /\ EndInv /\ FramesInv /\ StackInv /\ [NidlNext]_allVars => Trees'
  BY TreeNext DEF EndInv
<1>3. EndInv => DiskInv
  BY DEF EndInv
<1>4. QED
  BY <1>1, <1>2, <1>3, FramesInvariant, SearchInvariant, PTL DEF NidlSpec

LEMMA WholeIsList ==
  ASSUME NEW t, NEW g, Whole(t, g)
  PROVE  /\ IsList(t.ifaces) /\ IsList(t.structs) /\ IsList(t.imports)
         /\ \A x \in Range(t.ifaces) : IsNode(x) /\ IsCallable(x)
BY DEF Whole, Tree

(* The file's own declarations come first, those of a file are not         *)
(* imported, and the others are.                                           *)
LEMMA OwnOfWhole ==
  ASSUME disk \in Disks, NEW g \in Files, NEW t, Whole(t, g),
         NEW l, l = t.ifaces, NEW n, n = Len(disk[g].ifaces)
  PROVE  /\ n \in Nat /\ n <= Len(l) /\ Len(l) \in Nat
         /\ \A i \in 1 .. n : IsOwn(l[i], disk[g].ifaces[n + 1 - i], g)
         /\ \A i \in 1 .. Len(l) : l[i].imported <=> i > n
<1>1. IsList(disk[g].ifaces) /\ IsList(l) /\ OwnFirst(l, g, n)
      /\ OthersImported(l, n, Imported(g, Len(disk[g].imports)))
  BY ImportsAreFiles DEF IsFile, Whole, Tree
<1>2. n \in Nat /\ Len(l) \in Nat
  BY <1>1, ListRange
<1>3. n <= Len(l) /\ \A i \in 1 .. n : IsOwn(l[i], disk[g].ifaces[n + 1 - i], g)
  BY <1>1, <1>2 DEF OwnFirst
<1>4. ASSUME NEW i \in 1 .. Len(l)
      PROVE  l[i].imported <=> i > n
  <2>1. CASE i > n
    <3>1. i \in n + 1 .. Len(l)
      BY <1>2, <2>1
    <3>2. QED
      BY <1>1, <2>1, <3>1 DEF OthersImported
  <2>2. CASE ~(i > n)
    <3>1. i \in 1 .. n
      BY <1>2, <2>2
    <3>2. PICK d : d = disk[g].ifaces[n + 1 - i]
      OBVIOUS
    <3>3. IsOwn(l[i], d, g)
      BY <1>3, <3>1, <3>2
    <3>4. l[i].imported = FALSE
      BY <3>3 DEF IsOwn, Iface
    <3>5. QED
      BY <2>2, <3>4
  <2>3. QED
    BY <2>1, <2>2
<1>5. QED
  BY <1>2, <1>3, <1>4

LEMMA LocalsOfWhole ==
  ASSUME disk \in Disks, NEW g \in Files, NEW t, Whole(t, g)
  PROVE  /\ Len(LocalInterfaces(t)) = Len(disk[g].ifaces)
         /\ \A i \in 1 .. Len(disk[g].ifaces) : IsOwn(LocalInterfaces(t)[i], disk[g].ifaces[i], g)
<1>1. PICK l, n, S : /\ l = t.ifaces /\ n = Len(disk[g].ifaces)
                     /\ S = {it \in Range(l) : ~it.imported}
  OBVIOUS
<1>2. IsList(l)
  BY <1>1, WholeIsList
<1>3. n \in Nat /\ n <= Len(l) /\ Len(l) \in Nat
  BY <1>1, OwnOfWhole
<1>4. \A i \in 1 .. n : IsOwn(l[i], disk[g].ifaces[n + 1 - i], g)
  BY <1>1, OwnOfWhole
<1>5. \A i \in 1 .. Len(l) : l[i] \in S <=> i <= n
  <2>1. \A i \in 1 .. Len(l) : l[i].imported <=> i > n
    BY <1>1, OwnOfWhole
  <2>2. \A i \in 1 .. Len(l) : l[i] \in Range(l)
    BY <1>2, ListRange
  <2>3. QED
    BY <1>1, <1>3, <2>1, <2>2
<1>6. PICK own, r : own = Those(l, S) /\ r = Reverse(own)
  OBVIOUS
<1>7. n \in 0 .. Len(l)
  BY <1>3
<1>8. IsList(own) /\ Len(own) = n
  BY <1>2, <1>5, <1>6, <1>7, ThosePrefix
<1>9. \A i \in 1 .. n : own[i] = l[i]
  BY <1>2, <1>5, <1>6, <1>7, ThosePrefix
<1>10. IsList(r) /\ Len(r) = n
  BY <1>6, <1>8, ListReversed
<1>11. \A i \in 1 .. n : n + 1 - i \in 1 .. n /\ r[i] = own[n + 1 - i]
  BY <1>6, <1>8, ListReversed
<1>12. \A i \in 1 .. n : IsOwn(r[i], disk[g].ifaces[i], g)
  <2>1. TAKE i \in 1 .. n
  <2>2. PICK j : j = n + 1 - i
    OBVIOUS
  <2>3. j \in 1 .. n /\ r[i] = own[j] /\ n + 1 - j = i
    BY <1>3, <1>11, <2>2
  <2>4. QED
    BY <1>4, <1>9, <2>3
<1>13. LocalInterfaces(t) = r
  BY <1>1, <1>6 DEF LocalInterfaces
<1>14. QED
  BY <1>1, <1>10, <1>12, <1>13

LEMMA ImportedOnce ==
  ASSUME disk \in Disks, NEW g \in Files, NEW t, Whole(t, g),
         NEW i \in 1 .. Len(t.ifaces), NEW j \in 1 .. Len(t.ifaces),
         t.ifaces[i].imported, t.ifaces[j].imported, t.ifaces[i].name # NULL,
         t.ifaces[i].name = t.ifaces[j].name
  PROVE  i = j
<1>1. PICK l, n, ns : /\ l = t.ifaces /\ n = Len(disk[g].ifaces)
                      /\ ns = Imported(g, Len(disk[g].imports))
  OBVIOUS
<1>2. OthersImported(l, n, ns)
  BY <1>1 DEF Whole, Tree
<1>3. n \in Nat /\ Len(l) \in Nat
  BY <1>1, OwnOfWhole
<1>4. i > n /\ j > n
  BY <1>1, OwnOfWhole
<1>5. i \in n + 1 .. Len(l) /\ j \in n + 1 .. Len(l)
  BY <1>1, <1>3, <1>4
<1>6. QED
  BY <1>1, <1>2, <1>5 DEF OthersImported

(* A tree that reaches the generators is complete: it has every interface  *)
(* of every file that imports lead to, at any depth, imported ones that    *)
(* have a name once each, and those of the file itself in the order of the *)
(* source; lost are at most copies of tokens.                              *)
THEOREM ImportsComplete == NidlSpec => []ImportClosure
<1>1. DiskInv /\ TreeInv => ImportClosure
  <2>1. SUFFICES ASSUME DiskInv, TreeInv, phase \in {"gen_c", "emit_c", "gen_wit"}
                 PROVE  ImportClosure
    BY DEF ImportClosure
  <2>2. PICK t : t = ast
    OBVIOUS
  <2>3. disk \in Disks /\ Root \in Files /\ Whole(t, Root)
    BY <2>1, <2>2, NidlAssumption DEF DiskInv, TreeInv
  <2>4. {it.text : it \in Range(t.ifaces)} = NamesIn(Closure(Root))
    BY <2>3, WholeNames
  <2>5. \A it \in Range(t.ifaces) : it.name \in {it.text, NULL}
    BY <2>3, WholeIsList DEF IsNode
  <2>6. \A i, j \in 1 .. Len(t.ifaces) :
          t.ifaces[i].imported /\ t.ifaces[j].imported /\ t.ifaces[i].name # NULL
            /\ t.ifaces[i].name = t.ifaces[j].name => i = j
    BY <2>3, ImportedOnce
  <2>7. PICK local, own : local = LocalInterfaces(t) /\ own = disk[Root].ifaces
    OBVIOUS
  <2>8. Len(local) = Len(own) /\ \A i \in 1 .. Len(own) : IsOwn(local[i], own[i], Root)
    BY <2>3, <2>7, LocalsOfWhole
  <2>9. QED
    BY <2>2, <2>4, <2>5, <2>6, <2>7, <2>8 DEF ImportClosure, IsOwn
<1>2. QED
  BY <1>1, TreeInvariant, PTL

(* The header's interfaces are the file's own, in an order where every one *)
(* whose bases end comes after its base, and that keeps the order of the   *)
(* source among interfaces of the same depth.                              *)
THEOREM BasesComeFirst == NidlSpec => []BasesFirst
<1>1. TreeInv => BasesFirst
  <2>1. SUFFICES ASSUME TreeInv, phase = "emit_c"
                 PROVE  BasesFirst
    BY DEF BasesFirst
  <2>2. PICK t, local, order, n : /\ t = ast /\ local = LocalInterfaces(t)
                                  /\ order = EmitOrder(t) /\ n = Len(local)
    OBVIOUS
  <2>3. IsList(t.ifaces)
    BY <2>1, <2>2, WholeIsList DEF TreeInv
  <2>4. Len(order) = n
    BY <2>2, <2>3, OrderOfBases
  <2>5. \E place \in Bijection(1 .. n, 1 .. n) :
          /\ \A i \in 1 .. n : order[i] = local[place[i]]
          /\ \A i, j \in 1 .. n :
               i < j /\ IfaceDepth(t, order[i]) = IfaceDepth(t, order[j])
                 => place[i] < place[j]
    BY <2>2, <2>3, OrderOfBases
  <2>6. \A i, j \in 1 .. n :
          /\ IfaceDepth(t, order[i]) <= GuardMax
          /\ HasBase(t, order[i]) /\ BaseOf(t, order[i]) = order[j]
          => j < i
    BY <2>2, <2>3, OrderOfBases
  <2>7. QED
    BY <2>2, <2>4, <2>5, <2>6 DEF BasesFirst
<1>2. QED
  BY <1>1, TreeInvariant, PTL

(* The header and the WIT file describe the same functions, but for        *)
(* parameters that the C header has one star too few for.                  *)
THEOREM SignaturesMatch == NidlSpec => []SignaturesAgree
<1>1. TreeInv => SignaturesAgree
  <2>1. SUFFICES ASSUME TreeInv, phase = "gen_wit"
                 PROVE  SignaturesAgree
    BY DEF SignaturesAgree
  <2>2. PICK t : t = ast
    OBVIOUS
  <2>3. \A it \in Range(t.ifaces) : IsCallable(it)
    BY <2>1, <2>2, WholeIsList DEF TreeInv
  <2>4. ASSUME NEW m, IsMethod(m),
               \A p \in Range(m.params) :
                 /\ ~(p.dir = "inout" /\ IsInterface(t, p.type))
                 /\ ~(p.dir # "in" /\ p.type \in FrameworkAliases)
        PROVE  /\ COutputs(t, m) = WitOutputs(m)
               /\ \A p \in Range(m.params) \ Range(WitInputs(m)) : CReturnsThrough(t, p)
    <3>1. /\ IsList(m.params)
          /\ \A p \in Range(m.params) : p.dir \in {"in", "out", "inout"} /\ RightStars(t, p)
      BY <2>4 DEF IsMethod, RightStars
    <3>2. COutputs(t, m) = WitOutputs(m)
      BY <3>1, SignaturesOf
    <3>3. \A p \in Range(m.params) \ Range(WitInputs(m)) : CReturnsThrough(t, p)
      BY <3>1, SignaturesOf
    <3>4. QED
      BY <3>2, <3>3
  <2>5. QED
    BY <2>2, <2>3, <2>4 DEF SignaturesAgree, IsCallable
<1>2. QED
  BY <1>1, TreeInvariant, PTL

(* A name that the k-th import is the first to bring, and that its file    *)
(* declares: the node that is found for it comes from that file's module.  *)
LEMMA DirectName ==
  ASSUME disk \in Disks, NEW g \in Files, NEW t, Whole(t, g),
         NEW k \in 1 .. Len(disk[g].imports), NEW f, f = disk[g].imports[k].to,
         NEW name \in NamesIn({f}), name \notin NamesIn({g}), name \notin Imported(g, k - 1),
         \A it \in Range(t.ifaces) : it.text = name => it.name # NULL /\ it.source # NULL
  PROVE  /\ name # NULL /\ FindInterface(t, name) # 0
         /\ OriginModule(t, t.ifaces[FindInterface(t, name)]) = disk[f].module
<1>1. PICK l, i, n, N : /\ l = t.ifaces /\ i = FindInterface(t, name)
                        /\ n = Len(disk[g].ifaces) /\ N = Len(disk[g].imports)
  OBVIOUS
<1>2. /\ IsList(l) /\ \A x \in Range(l) : IsNode(x)
      /\ Sourced(l, g, N)
      /\ \A x \in Range(l) : x.text = name => x.name # NULL /\ x.source # NULL
  BY <1>1 DEF Whole, Tree
<1>3. N \in Nat /\ k \in Nat \ {0} /\ k <= N
  <2>1. IsList(disk[g].imports)
    BY ImportsAreFiles
  <2>2. QED
    BY <1>1, <2>1, ListRange
<1>4. f \in Files /\ name \in NamesIn(Closure(f))
  <2>1. f \in Files
    BY ImportsAreFiles, ListRange
  <2>2. f \in Closure(f)
    BY <2>1, ClosureOf
  <2>3. QED
    BY <2>1, <2>2 DEF NamesIn
<1>5. name \in NamesIn(Closure(g))
  <2>1. Closure(f) \subseteq Closure(g)
    BY ClosureStep
  <2>2. QED
    BY <1>4, <2>1 DEF NamesIn
<1>6. PICK y \in Range(l) : y.text = name
  <2>1. {x.text : x \in Range(t.ifaces)} = NamesIn(Closure(g))
    BY WholeNames
  <2>2. QED
    BY <1>1, <1>5, <2>1
<1>7. name # NULL /\ y.name = name
  BY <1>2, <1>6 DEF IsNode
<1>8. IsFirst(l, name, i)
  BY <1>1, <1>2, FirstFound
<1>9. i \in 1 .. Len(l) /\ l[i].name = name
  <2>1. \E j \in 1 .. Len(l) : l[j] = y
    BY <1>2, ListRange
  <2>2. QED
    BY <1>7, <1>8, <2>1 DEF IsFirst
<1>10. PICK x \in Range(l) : x = l[i]
  BY <1>2, <1>9, ListRange
<1>11. x.text = name
  BY <1>2, <1>7, <1>9, <1>10 DEF IsNode
<1>12. x.imported
  <2>1. SUFFICES ASSUME ~x.imported
                 PROVE  FALSE
    OBVIOUS
  <2>2. \A j \in 1 .. Len(l) : l[j].imported <=> j > n
    BY <1>1, OwnOfWhole
  <2>3. n \in Nat /\ i \in 1 .. n
    <3>1. n \in Nat
      BY <1>1, OwnOfWhole
    <3>2. QED
      BY <1>9, <1>10, <2>1, <2>2, <3>1
  <2>4. PICK d : d = disk[g].ifaces[n + 1 - i]
    OBVIOUS
  <2>5. IsOwn(x, d, g)
    BY <1>1, <1>10, <2>3, <2>4, OwnOfWhole
  <2>6. d.name = name
    BY <1>11, <2>5 DEF IsOwn, Iface
  <2>7. d \in Range(disk[g].ifaces)
    <3>1. IsList(disk[g].ifaces) /\ n + 1 - i \in 1 .. n
      BY <2>3, ImportsAreFiles DEF IsFile
    <3>2. QED
      BY <1>1, <2>4, <3>1, ListRange
  <2>8. QED
    BY <2>6, <2>7 DEF NamesIn
<1>13. AllNamed(l, x) /\ x.source # NULL
  BY <1>2, <1>10, <1>11 DEF AllNamed
<1>14. PICK j \in 1 .. N : ArrivesBy(x, g, j)
  BY <1>2, <1>10, <1>12, <1>13 DEF Sourced
<1>15. /\ x.source = disk[disk[g].imports[j].to].module
       /\ name \in NamesIn(Closure(disk[g].imports[j].to)) /\ name \notin Imported(g, j - 1)
  BY <1>11, <1>14 DEF ArrivesBy
<1>16. j = k
  <2>1. CASE j < k
    <3>1. j \in 1 .. k - 1
      BY <1>3, <2>1
    <3>2. name \in Imported(g, k - 1)
      BY <1>15, <3>1 DEF Imported, NamesIn
    <3>3. QED
      BY <3>2
  <2>2. CASE k < j
    <3>1. k \in 1 .. j - 1
      BY <1>3, <2>2
    <3>2. name \in Imported(g, j - 1)
      BY <1>4, <3>1 DEF Imported, NamesIn
    <3>3. QED
      BY <1>15, <3>2
  <2>3. QED
    BY <1>3, <2>1, <2>2
<1>17. OriginModule(t, l[i]) = disk[f].module
  BY <1>10, <1>13, <1>15, <1>16 DEF OriginModule
<1>18. i # 0
  BY <1>9
<1>19. QED
  BY <1>1, <1>7, <1>17, <1>18

(* An interface that a file imported directly declares keeps the name that *)
(* its own header gives it, if it arrives by that import first.            *)
THEOREM DirectNamesKept == NidlSpec => []DirectImportsNamed
<1>1. DiskInv /\ TreeInv => DirectImportsNamed
  <2>1. SUFFICES ASSUME DiskInv, TreeInv, phase = "emit_c",
                        NEW k \in 1 .. Len(disk[Root].imports), NEW f,
                        f = disk[Root].imports[k].to,
                        NEW name \in NamesIn({f}) \ FrameworkNames, ComesFirstBy(k, name)
                 PROVE  /\ MapType(ast, name) = [module |-> disk[f].module, name |-> name]
                        /\ \A it \in Range(ast.ifaces) :
                             it.base = name =>
                               VtblBaseType(ast, it) = [module |-> disk[f].module, name |-> name]
    BY DEF DirectImportsNamed
  <2>2. PICK t : t = ast
    OBVIOUS
  <2>3. disk \in Disks /\ Root \in Files /\ Whole(t, Root)
    BY <2>1, <2>2, NidlAssumption DEF DiskInv, TreeInv
  <2>4. /\ name \notin NamesIn({Root}) /\ name \notin Imported(Root, k - 1)
        /\ \A it \in Range(t.ifaces) : it.text = name => it.name # NULL /\ it.source # NULL
    BY <2>1, <2>2 DEF ComesFirstBy, Imported, NamesIn
  <2>5. PICK i, m : i = FindInterface(t, name) /\ m = disk[f].module
    OBVIOUS
  <2>6. name # NULL /\ i # 0 /\ OriginModule(t, t.ifaces[i]) = m
    BY <2>1, <2>3, <2>4, <2>5, DirectName
  <2>7. name \notin Primitives /\ name \notin FrameworkInterfaces /\ name \notin FrameworkAliases
    BY DEF FrameworkNames
  <2>8. MapType(t, name) = [module |-> m, name |-> name]
    BY <2>5, <2>6, <2>7 DEF MapType
  <2>9. ASSUME NEW it, it.base = name
        PROVE  VtblBaseType(t, it) = [module |-> m, name |-> name]
    BY <2>5, <2>6, <2>7, <2>9 DEF VtblBaseType
  <2>10. QED
    BY <2>2, <2>5, <2>8, <2>9
<1>2. QED
  BY <1>1, TreeInvariant, PTL

=============================================================================

------------------------------- MODULE Arena -------------------------------
(***************************************************************************)
(* tools/nidl/nidl_arena.c: one block of memory that allocations are cut   *)
(* from and that is grown with realloc.  realloc may move the block, and   *)
(* may fail.  Every action is one call; what it returns is the block that  *)
(* it adds (or NULL, in the actions named ...Null).                        *)
(***************************************************************************)
EXTENDS Naturals

CONSTANTS
  InitialCap,   \* 64 * 1024
  SizeBits,     \* 64, the width of size_t
  MaskModulus,  \* 2^32: ~7u is an unsigned int, widened to size_t with zeros
  MayMove       \* whether realloc may return another address

SizeMax == 2^SizeBits - 1

ASSUME ArenaAssumption ==
  /\ InitialCap \in Nat \ {0} /\ SizeBits \in Nat /\ SizeMax \in Nat
  /\ MaskModulus \in Nat
  /\ MaskModulus % 8 = 0 /\ 8 < MaskModulus /\ MaskModulus <= SizeMax
  /\ InitialCap <= SizeMax
  /\ MayMove \in BOOLEAN

VARIABLES
  cap, len,     \* a->cap and a->len
  base,         \* how often a->buf has changed
  blocks        \* what was handed out: offset and size asked for

arenaVars == <<cap, len, base, blocks>>

ArenaInit ==
  /\ cap = InitialCap
  /\ len = 0
  /\ base = 0
  /\ blocks = {}

(* Fault: the size is rounded down.                                        *)
AlignedDown(n) == n - (n % 8)

(* (n + 7u) & ~7u                                                          *)
Aligned(n) == ((n + 7) % MaskModulus) - ((n + 7) % 8)

(* The capacity that arena_grow asks for: the old one, doubled until it    *)
(* suffices, so that it is less than twice what is needed.  The set is     *)
(* empty when that would be more than SIZE_MAX, and arena_grow gives up.   *)
GrownCaps(need) ==
  {c \in {cap * 2^k : k \in 0 .. SizeBits} \cap (need .. SizeMax) : c < 2 * need}

Representable(n) == n # 0 /\ n <= SizeMax - 7 /\ Aligned(n) <= SizeMax - len

Room(n) == len + Aligned(n) <= cap

(* arena_alloc returns memory.                                             *)
Alloc(n) ==
  /\ Representable(n)
  /\ IF Room(n)
     THEN UNCHANGED <<cap, base>>
     ELSE /\ cap' \in GrownCaps(len + Aligned(n))
          /\ base' \in {base} \union (IF MayMove THEN {base + 1} ELSE {})
  /\ blocks' = blocks \union {[at |-> len, size |-> n]}
  /\ len' = len + Aligned(n)

(* The size is out of range, or realloc is asked for more.                 *)
MayFail(n) == ~Representable(n) \/ ~Room(n)

(* arena_alloc returns NULL.                                               *)
AllocNull(n) == MayFail(n) /\ UNCHANGED arenaVars

(* arena_calloc and arena_strdup.                                          *)
Calloc(count, size) == count * size <= SizeMax /\ Alloc(count * size)

CallocNull(count, size) ==
  IF count * size <= SizeMax THEN AllocNull(count * size) ELSE UNCHANGED arenaVars

Strdup(n) == n <= SizeMax - 1 /\ Alloc(n + 1)

StrdupNull(n) == IF n <= SizeMax - 1 THEN AllocNull(n + 1) ELSE UNCHANGED arenaVars

-----------------------------------------------------------------------------

ArenaTypeOK ==
  /\ cap \in Nat /\ len \in Nat /\ base \in Nat
  /\ blocks \subseteq [at : Nat, size : Nat]

(* Blocks smaller than the mask's range are aligned, lie inside the used   *)
(* part of the buffer and do not overlap, through any growth.              *)
BlocksDisjoint ==
  /\ len <= cap /\ cap <= SizeMax
  /\ \A b \in blocks :
       b.size + 7 < MaskModulus =>
         /\ b.at % 8 = 0
         /\ b.at + b.size <= len
         /\ \A c \in blocks \ {b} :
              c.size + 7 < MaskModulus =>
                b.at + b.size <= c.at \/ c.at + c.size <= b.at

=============================================================================

--------------------------- MODULE CoreImplProofs ---------------------------
(***************************************************************************)
(* The safety properties of CoreImpl, proved for any objects, any lengths  *)
(* of messages and any bound on the references.                            *)
(***************************************************************************)
EXTENDS CoreImpl, TLAPS

(* A creation has its object block from the first calloc on and its text   *)
(* block from the second; nobody has a reference to what is being made.    *)
CallOwnsBlock ==
  call # NULL =>
    /\ call.step = "obj" => call.on = NULL
    /\ call.step \in {"text", "commit"} => call.on # NULL
    /\ call.on # NULL => refs[call.on] = 0

(* Every block belongs to an object with a reference to it or to the       *)
(* creation in progress.                                                   *)
HeapAccounted ==
  \A o \in Objects :
    /\ <<o, "obj">> \in heap <=> refs[o] > 0 \/ (call # NULL /\ call.on = o)
    /\ <<o, "text">> \in heap <=>
         refs[o] > 0 \/ (call # NULL /\ call.on = o /\ call.step = "commit")

(* The error that is asked for its message is there and keeps its message; *)
(* what the client was told, and then the buffer, is what the message      *)
(* needs.                                                                  *)
AskKnowsNeed ==
  ask # NULL =>
    /\ call = NULL
    /\ refs[ask.from] > 0
    /\ object[ask.from].kind = "error"
    /\ ask.step = "grow" => ask.need = Need(object[ask.from].len)
    /\ ask.step = "copy" => buf.cap = Need(object[ask.from].len)

CoreInv ==
  /\ TypeOK
  /\ CallOwnsBlock
  /\ HeapAccounted
  /\ RefsCounted
  /\ AskKnowsNeed
  /\ CopyFits

-----------------------------------------------------------------------------
(* Lemmas about blocks, records and the answer of get_message_buf.         *)

LEMMA BlocksOfSet ==
  ASSUME NEW S
  PROVE  UNION {BlocksOf(o) : o \in S} = S \X {"obj", "text"}
BY DEF BlocksOf

(* An object's two blocks are different ones and no other object's.        *)
LEMMA BlocksApart ==
  \A o, p : /\ <<o, "obj">> \in BlocksOf(p) <=> o = p
            /\ <<o, "text">> \in BlocksOf(p) <=> o = p
            /\ BlocksOf(p) \subseteq {p} \X {"obj", "text"}
BY DEF BlocksOf

(* Lengths and needs are natural numbers, and no message needs nothing.     *)
LEMMA NeedsAreNat ==
  /\ \A n \in Lengths : n \in Nat /\ Need(n) \in Nat \ {0} /\ Need(n) \in Needs
  /\ \A c \in Needs : c \in Nat
<1>1. \A n \in Lengths : n \in Nat /\ Need(n) \in Nat \ {0}
  BY LengthsAssumption DEF Need
<1>2. QED
  BY <1>1 DEF Needs

(* Counting a reference leaves an initialised object of the same kind.     *)
LEMMA ContentsFields ==
  /\ \A k \in Kinds, n \in Lengths : [kind |-> k, len |-> n, rc |-> 1] \in Contents
  /\ \A x \in Contents, c \in 0 .. MaxRefs :
       /\ [x EXCEPT !.rc = c] \in Contents
       /\ [x EXCEPT !.rc = c].rc = c
       /\ [x EXCEPT !.rc = c].kind = x.kind
       /\ [x EXCEPT !.rc = c].len = x.len
  /\ NULL \notin Contents
<1>1. \A k \in Kinds, n \in Lengths : [kind |-> k, len |-> n, rc |-> 1] \in Contents
  BY LengthsAssumption DEF Contents
<1>2. \A x \in Contents, c \in 0 .. MaxRefs :
       /\ [x EXCEPT !.rc = c] \in Contents
       /\ [x EXCEPT !.rc = c].rc = c
       /\ [x EXCEPT !.rc = c].kind = x.kind
       /\ [x EXCEPT !.rc = c].len = x.len
  BY DEF Contents
<1>3. QED
  BY <1>1, <1>2, NullAssumption

(* What the steps of a creation set.                                       *)
LEMMA CreationFields ==
  /\ \A k \in Kinds, n \in Lengths :
       [kind |-> k, len |-> n, on |-> NULL, step |-> "obj"] \in Creations
  /\ \A x \in Creations, st \in {"text", "commit", "cleanup"} :
       /\ [x EXCEPT !.step = st] \in Creations
       /\ [x EXCEPT !.step = st] # NULL
       /\ [x EXCEPT !.step = st].step = st
       /\ [x EXCEPT !.step = st].on = x.on
BY NullAssumption DEF Creations

(* What the steps of an attempt to get a message set.                      *)
LEMMA AttemptFields ==
  /\ \A e \in Objects : [from |-> e, step |-> "size", need |-> 0] \in Attempts
  /\ \A x \in Attempts :
       /\ [x EXCEPT !.step = "copy"] \in Attempts
       /\ [x EXCEPT !.step = "copy"].from = x.from
       /\ [x EXCEPT !.step = "copy"].step = "copy"
BY DEF Attempts, Needs

(* get_message_buf reports what the message needs; it copies if and only   *)
(* if a buffer that is not empty has that much room, and says so.          *)
LEMMA MessageBuf ==
  ASSUME NEW cap \in Needs, NEW n \in Lengths
  PROVE  LET out == GetMessageBuf([cap |-> cap, ptr |-> TRUE], n)
         IN  /\ out.need = n + 1
             /\ out.written > 0 <=> cap >= n + 1
             /\ out.st = "OK" <=> cap = 0 \/ cap >= n + 1
<1> DEFINE b == [cap |-> cap, ptr |-> TRUE]
<1>1. b # NULL
  <2>1. b \in [cap : Needs, ptr : {TRUE}]
    OBVIOUS
  <2>2. QED
    BY <2>1, NullAssumption
<1>2. cap \in Nat /\ n \in Nat
  BY NeedsAreNat
<1>3. QED
  BY <1>1, <1>2 DEF GetMessageBuf, IsSizing, Need

(* The types of the variables but for the heap.                            *)
LEMMA CoreTypes ==
  ASSUME CoreInv
  PROVE  /\ object \in [Objects -> {NULL} \union Contents]
         /\ refs \in [Objects -> Nat]
         /\ \A o \in Objects : refs[o] <= MaxRefs /\ (refs[o] = 0 <=> ~(refs[o] > 0))
         /\ call \in {NULL} \union Creations
         /\ ask \in {NULL} \union Attempts
         /\ buf \in [cap : Needs, holds : Lengths \union {NULL}]
<1>1. refs \in [Objects -> 0 .. MaxRefs] /\ MaxRefs \in Nat
  BY LengthsAssumption DEF CoreInv, TypeOK
<1>2. /\ refs \in [Objects -> Nat]
      /\ \A o \in Objects : refs[o] <= MaxRefs /\ (refs[o] = 0 <=> ~(refs[o] > 0))
  BY <1>1
<1>3. QED
  BY <1>2 DEF CoreInv, TypeOK

-----------------------------------------------------------------------------
(* Every action keeps the invariant.                                       *)

LEMMA InitCore == Init => CoreInv
BY LengthsAssumption, NullAssumption
   DEF Init, CoreInv, TypeOK, CallOwnsBlock, HeapAccounted, RefsCounted,
       AskKnowsNeed, CopyFits, Needs

(* Nothing but call begins a creation.                                     *)
LEMMA BeginCreateStep ==
  ASSUME CoreInv, Quiet, NEW k \in Kinds, NEW n \in Lengths, BeginCreate(k, n)
  PROVE  CoreInv'
<1>1. TypeOK'
  BY CreationFields DEF CoreInv, TypeOK, BeginCreate
<1>2. CallOwnsBlock'
  BY DEF CoreInv, CallOwnsBlock, BeginCreate
<1>3. HeapAccounted'
  BY NullAssumption DEF CoreInv, HeapAccounted, BeginCreate, Quiet
<1>4. RefsCounted' /\ AskKnowsNeed' /\ CopyFits'
  BY DEF CoreInv, RefsCounted, AskKnowsNeed, CopyFits, BeginCreate, Quiet
<1>5. QED
  BY <1>1, <1>2, <1>3, <1>4 DEF CoreInv

LEMMA CreateStep ==
  ASSUME CoreInv, NEW n \in Lengths, CreateString(n) \/ CreateErrorInfo(n)
  PROVE  CoreInv'
BY BeginCreateStep DEF CreateString, CreateErrorInfo, Kinds

(* An error with a reference to it has a message of some length.           *)
LEMMA HeldContents ==
  ASSUME CoreInv, NEW o \in Objects, refs[o] > 0
  PROVE  object[o] \in Contents /\ object[o].rc = refs[o] /\ object[o].len \in Lengths
BY DEF CoreInv, TypeOK, RefsCounted, Contents

LEMMA GetMessageStringStep ==
  ASSUME CoreInv, NEW e \in Objects, GetMessageString(e)
  PROVE  CoreInv'
BY BeginCreateStep, HeldContents DEF GetMessageString, Kinds

LEMMA AllocObjectStep ==
  ASSUME CoreInv, AllocObject
  PROVE  CoreInv'
<1>1. call \in Creations /\ call # NULL /\ call.step = "obj" /\ call.on = NULL
  BY DEF CoreInv, TypeOK, CallOwnsBlock, AllocObject
<1>2. UNCHANGED <<object, refs, buf, ask>>
  BY DEF AllocObject
<1>3. RefsCounted' /\ CopyFits' /\ ask = NULL
  BY <1>1, <1>2 DEF CoreInv, RefsCounted, CopyFits, AskKnowsNeed
<1>4. AskKnowsNeed'
  BY <1>2, <1>3 DEF AskKnowsNeed
<1>5. CASE \E o \in Objects :
             /\ BlocksOf(o) \intersect heap = {}
             /\ heap' = heap \union {<<o, "obj">>}
             /\ call' = [call EXCEPT !.on = o, !.step = "text"]
  <2>1. PICK o \in Objects :
           /\ BlocksOf(o) \intersect heap = {}
           /\ heap' = heap \union {<<o, "obj">>}
           /\ call' = [call EXCEPT !.on = o, !.step = "text"]
    BY <1>5
  <2>2. call' \in Creations /\ call'.on = o /\ call'.step = "text" /\ call' # NULL
    BY <1>1, <2>1, NullAssumption DEF Creations
  <2>3. refs[o] = 0
    <3>1. <<o, "obj">> \notin heap
      BY <2>1, BlocksApart
    <3>2. QED
      BY <3>1, CoreTypes DEF CoreInv, HeapAccounted
  <2>4. TypeOK'
    BY <1>2, <2>1, <2>2, BlocksOfSet DEF CoreInv, TypeOK
  <2>5. CallOwnsBlock'
    BY <1>2, <2>2, <2>3, NullAssumption DEF CallOwnsBlock
  <2>6. HeapAccounted'
    BY <1>1, <1>2, <2>1, <2>2, NullAssumption DEF CoreInv, HeapAccounted
  <2>7. QED
    BY <1>3, <1>4, <2>4, <2>5, <2>6 DEF CoreInv
<1>6. CASE call' = [call EXCEPT !.step = "cleanup"] /\ heap' = heap
  <2>1. call' \in Creations /\ call'.on = NULL /\ call'.step = "cleanup" /\ call' # NULL
    BY <1>1, <1>6, CreationFields
  <2>2. TypeOK'
    BY <1>2, <1>6, <2>1 DEF CoreInv, TypeOK
  <2>3. CallOwnsBlock'
    BY <2>1 DEF CallOwnsBlock
  <2>4. HeapAccounted'
    BY <1>1, <1>2, <1>6, <2>1 DEF CoreInv, HeapAccounted
  <2>5. QED
    BY <1>3, <1>4, <2>2, <2>3, <2>4 DEF CoreInv
<1>7. QED
  BY <1>5, <1>6 DEF AllocObject

LEMMA AllocTextStep ==
  ASSUME CoreInv, AllocText
  PROVE  CoreInv'
<1>1. /\ call \in Creations /\ call # NULL /\ call.step = "text"
      /\ call.on \in Objects /\ refs[call.on] = 0
  BY DEF CoreInv, TypeOK, CallOwnsBlock, AllocText, Creations
<1>2. UNCHANGED <<object, refs, buf, ask>>
  BY DEF AllocText
<1>3. RefsCounted' /\ CopyFits' /\ ask = NULL
  BY <1>1, <1>2 DEF CoreInv, RefsCounted, CopyFits, AskKnowsNeed
<1>4. AskKnowsNeed'
  BY <1>2, <1>3 DEF AskKnowsNeed
<1>5. ASSUME NEW st \in {"commit", "cleanup"}, call' = [call EXCEPT !.step = st],
             heap' = IF st = "commit" THEN heap \union {<<call.on, "text">>} ELSE heap
      PROVE  CoreInv'
  <2>1. call' \in Creations /\ call'.on = call.on /\ call'.step = st /\ call' # NULL
    BY <1>1, <1>5, NullAssumption DEF Creations
  <2>2. TypeOK'
    BY <1>1, <1>2, <1>5, <2>1, BlocksOfSet DEF CoreInv, TypeOK
  <2>3. CallOwnsBlock'
    BY <1>1, <1>2, <2>1, NullAssumption DEF CallOwnsBlock
  <2>4. HeapAccounted'
    BY <1>1, <1>2, <1>5, <2>1 DEF CoreInv, HeapAccounted
  <2>5. QED
    BY <1>3, <1>4, <2>2, <2>3, <2>4 DEF CoreInv
<1>6. QED
  BY <1>5 DEF AllocText

LEMMA CommitStep ==
  ASSUME CoreInv, Commit
  PROVE  CoreInv'
<1> DEFINE o == call.on
           x == [kind |-> call.kind, len |-> call.len, rc |-> 1]
<1>1. /\ call \in Creations /\ call # NULL /\ call.step = "commit"
      /\ o \in Objects /\ refs[o] = 0 /\ x \in Contents
  BY LengthsAssumption, ContentsFields
     DEF CoreInv, TypeOK, CallOwnsBlock, Commit, Creations
<1>2. /\ object' = [object EXCEPT ![o] = x]
      /\ refs' = [refs EXCEPT ![o] = 1]
      /\ call' = NULL
      /\ UNCHANGED <<heap, buf, ask>>
  BY DEF Commit
<1>3. TypeOK'
  BY <1>1, <1>2, LengthsAssumption DEF CoreInv, TypeOK
<1>4. CallOwnsBlock'
  BY <1>2 DEF CallOwnsBlock
<1>5. HeapAccounted'
  <2> SUFFICES ASSUME NEW p \in Objects
               PROVE  /\ <<p, "obj">> \in heap <=> refs'[p] > 0
                      /\ <<p, "text">> \in heap <=> refs'[p] > 0
    BY <1>2 DEF HeapAccounted
  <2>1. /\ <<p, "obj">> \in heap <=> refs[p] > 0 \/ o = p
        /\ <<p, "text">> \in heap <=> refs[p] > 0 \/ o = p
    BY <1>1 DEF CoreInv, HeapAccounted
  <2>2. refs'[p] = IF o = p THEN 1 ELSE refs[p]
    BY <1>1, <1>2, CoreTypes
  <2>3. QED
    BY <2>1, <2>2
<1>6. RefsCounted'
  BY <1>1, <1>2, ContentsFields DEF CoreInv, TypeOK, RefsCounted
<1>7. ask = NULL
  BY <1>1 DEF CoreInv, AskKnowsNeed
<1>8. AskKnowsNeed' /\ CopyFits'
  BY <1>2, <1>7 DEF CoreInv, AskKnowsNeed, CopyFits
<1>9. QED
  BY <1>3, <1>4, <1>5, <1>6, <1>8 DEF CoreInv

LEMMA CleanupCreateStep ==
  ASSUME CoreInv, CleanupCreate
  PROVE  CoreInv'
<1>1. /\ call \in Creations /\ call # NULL /\ call.step = "cleanup"
      /\ call.on # NULL => refs[call.on] = 0
  BY DEF CoreInv, TypeOK, CallOwnsBlock, CleanupCreate
<1>2. /\ heap' = heap \ BlocksOf(call.on)
      /\ call' = NULL
      /\ UNCHANGED <<object, refs, buf, ask>>
  BY DEF CleanupCreate
<1>3. TypeOK'
  BY <1>2 DEF CoreInv, TypeOK
<1>4. HeapAccounted'
  <2> SUFFICES ASSUME NEW o \in Objects
               PROVE  /\ <<o, "obj">> \in heap' <=> refs[o] > 0
                      /\ <<o, "text">> \in heap' <=> refs[o] > 0
    BY <1>2 DEF HeapAccounted
  <2>1. CASE o = call.on
    BY <1>1, <1>2, <2>1, BlocksApart, NullAssumption DEF CoreInv, TypeOK
  <2>2. CASE o # call.on
    BY <1>1, <1>2, <2>2, BlocksApart DEF CoreInv, HeapAccounted
  <2>3. QED
    BY <2>1, <2>2
<1>5. CallOwnsBlock' /\ AskKnowsNeed' /\ RefsCounted' /\ CopyFits'
  BY <1>2 DEF CoreInv, CallOwnsBlock, AskKnowsNeed, RefsCounted, CopyFits
<1>6. QED
  BY <1>3, <1>4, <1>5 DEF CoreInv

LEMMA AddRefStep ==
  ASSUME CoreInv, NEW o \in Objects, AddRef(o)
  PROVE  CoreInv'
<1> DEFINE c == refs[o] + 1
<1>1. /\ refs[o] > 0 /\ c \in 1 .. MaxRefs
      /\ object[o] \in Contents /\ object[o].rc = refs[o]
  BY HeldContents, LengthsAssumption DEF CoreInv, TypeOK, AddRef
<1>2. /\ object' = [object EXCEPT ![o] = [@ EXCEPT !.rc = c]]
      /\ refs' = [refs EXCEPT ![o] = c]
      /\ call = NULL /\ ask = NULL
      /\ UNCHANGED <<heap, call, buf, ask>>
  BY <1>1 DEF AddRef, Quiet
<1>3. [object[o] EXCEPT !.rc = c] \in Contents /\ [object[o] EXCEPT !.rc = c].rc = c
  BY <1>1, ContentsFields
<1>4. TypeOK'
  BY <1>1, <1>2, <1>3 DEF CoreInv, TypeOK
<1>5. RefsCounted'
  BY <1>1, <1>2, <1>3, ContentsFields DEF CoreInv, TypeOK, RefsCounted
<1>6. HeapAccounted'
  <2> SUFFICES ASSUME NEW p \in Objects
               PROVE  refs'[p] > 0 <=> refs[p] > 0
    BY <1>2 DEF CoreInv, HeapAccounted
  <2>1. refs'[p] = IF o = p THEN c ELSE refs[p]
    BY <1>1, <1>2, CoreTypes
  <2>2. QED
    BY <1>1, <2>1
<1>7. CallOwnsBlock' /\ AskKnowsNeed' /\ CopyFits'
  BY <1>2 DEF CoreInv, CallOwnsBlock, AskKnowsNeed, CopyFits
<1>8. QED
  BY <1>4, <1>5, <1>6, <1>7 DEF CoreInv

LEMMA ReleaseStep ==
  ASSUME CoreInv, NEW o \in Objects, Release(o)
  PROVE  CoreInv'
<1> DEFINE c == refs[o] - 1
<1>1. /\ refs[o] > 0 /\ c \in 0 .. MaxRefs
      /\ object[o] \in Contents /\ object[o].rc = refs[o]
  BY HeldContents, LengthsAssumption DEF CoreInv, TypeOK, Release
<1>2. /\ refs' = [refs EXCEPT ![o] = c]
      /\ call = NULL /\ ask = NULL
      /\ UNCHANGED <<call, buf, ask>>
  BY <1>1 DEF Release, Quiet
<1>3. CallOwnsBlock' /\ AskKnowsNeed' /\ CopyFits'
  BY <1>2 DEF CoreInv, CallOwnsBlock, AskKnowsNeed, CopyFits
<1>4. CASE refs[o] = 1
  <2>1. /\ heap' = heap \ BlocksOf(o)
        /\ object' = [object EXCEPT ![o] = NULL]
        /\ c = 0
    BY <1>1, <1>4 DEF Release
  <2>2. TypeOK'
    BY <1>1, <1>2, <2>1 DEF CoreInv, TypeOK
  <2>3. RefsCounted'
    BY <1>1, <1>2, <2>1, ContentsFields DEF CoreInv, TypeOK, RefsCounted
  <2>4. HeapAccounted'
    <3> SUFFICES ASSUME NEW p \in Objects
                 PROVE  /\ <<p, "obj">> \in heap' <=> refs'[p] > 0
                        /\ <<p, "text">> \in heap' <=> refs'[p] > 0
      BY <1>2 DEF HeapAccounted
    <3>1. /\ <<p, "obj">> \in heap <=> refs[p] > 0
          /\ <<p, "text">> \in heap <=> refs[p] > 0
      BY <1>2 DEF CoreInv, HeapAccounted
    <3>2. refs'[p] = IF o = p THEN 0 ELSE refs[p]
      BY <1>1, <1>2, <2>1, CoreTypes
    <3>3. /\ <<p, "obj">> \in BlocksOf(o) <=> p = o
          /\ <<p, "text">> \in BlocksOf(o) <=> p = o
      BY BlocksApart
    <3>4. QED
      BY <2>1, <3>1, <3>2, <3>3
  <2>5. QED
    BY <1>3, <2>2, <2>3, <2>4 DEF CoreInv
<1>5. CASE refs[o] # 1
  <2>1. /\ heap' = heap
        /\ object' = [object EXCEPT ![o] = [@ EXCEPT !.rc = c]]
        /\ c > 0
    BY <1>1, <1>5, CoreTypes DEF Release
  <2>2. [object[o] EXCEPT !.rc = c] \in Contents /\ [object[o] EXCEPT !.rc = c].rc = c
    BY <1>1, ContentsFields
  <2>3. TypeOK'
    BY <1>1, <1>2, <2>1, <2>2 DEF CoreInv, TypeOK
  <2>4. RefsCounted'
    BY <1>1, <1>2, <2>1, <2>2, ContentsFields DEF CoreInv, TypeOK, RefsCounted
  <2>5. HeapAccounted'
    BY <1>1, <1>2, <2>1, CoreTypes DEF CoreInv, HeapAccounted
  <2>6. QED
    BY <1>3, <2>3, <2>4, <2>5 DEF CoreInv
<1>6. QED
  BY <1>4, <1>5

-----------------------------------------------------------------------------
(* Getting a message: these steps leave memory and references alone.       *)

LEMMA MemorySame ==
  ASSUME CoreInv, UNCHANGED <<heap, object, refs, call>>
  PROVE  CallOwnsBlock' /\ HeapAccounted' /\ RefsCounted'
BY DEF CoreInv, CallOwnsBlock, HeapAccounted, RefsCounted

(* What the call of an attempt in progress answers.                        *)
LEMMA OutcomeOfAsk ==
  ASSUME CoreInv, ask # NULL
  PROVE  /\ ask \in Attempts /\ ask.from \in Objects /\ call = NULL
         /\ refs[ask.from] > 0 /\ object[ask.from].kind = "error"
         /\ object[ask.from].len \in Lengths
         /\ Need(object[ask.from].len) \in Needs
         /\ Outcome.need = Need(object[ask.from].len)
         /\ Outcome.written > 0 <=> Need(object[ask.from].len) <= buf.cap
         /\ Outcome.st = "OK" <=> buf.cap = 0 \/ Need(object[ask.from].len) <= buf.cap
<1>1. /\ ask \in Attempts /\ ask.from \in Objects /\ call = NULL
      /\ refs[ask.from] > 0 /\ object[ask.from].kind = "error"
  BY DEF CoreInv, TypeOK, AskKnowsNeed, Attempts
<1>2. object[ask.from].len \in Lengths
  BY <1>1, HeldContents
<1>3. buf.cap \in Needs
  BY DEF CoreInv, TypeOK
<1>4. Need(object[ask.from].len) \in Needs
  BY <1>2 DEF Needs
<1>5. buf.cap \in Nat /\ object[ask.from].len \in Nat
  BY <1>2, <1>3, NeedsAreNat
<1>6. QED
  BY <1>1, <1>2, <1>3, <1>4, <1>5, MessageBuf DEF Outcome, Need

LEMMA AskStep ==
  ASSUME CoreInv, NEW e \in Objects, Ask(e)
  PROVE  CoreInv'
<1>1. ask' \in Attempts /\ ask'.from = e /\ ask'.step = "size"
  BY AttemptFields DEF Ask
<1>2. CallOwnsBlock' /\ HeapAccounted' /\ RefsCounted'
  BY MemorySame DEF Ask
<1>3. TypeOK' /\ CopyFits' /\ AskKnowsNeed'
  BY <1>1 DEF CoreInv, TypeOK, CopyFits, AskKnowsNeed, Ask, Quiet
<1>4. QED
  BY <1>2, <1>3 DEF CoreInv

(* A call that copies leaves a message that fits; one that does not copy   *)
(* leaves the need of the message.                                         *)
LEMMA CopyOrGrow ==
  ASSUME CoreInv, ask # NULL, UNCHANGED <<heap, object, refs, call>>,
         NEW ends \in BOOLEAN,
         buf' = IF Outcome.written > 0
                THEN [buf EXCEPT !.holds = object[ask.from].len] ELSE buf,
         ask' = IF ends THEN NULL
                ELSE [ask EXCEPT !.step = "grow", !.need = Outcome.need]
  PROVE  CoreInv'
<1> DEFINE n == object[ask.from].len
<1>1. CallOwnsBlock' /\ HeapAccounted' /\ RefsCounted'
  BY MemorySame
<1>2. /\ ask \in Attempts /\ ask.from \in Objects /\ call = NULL
      /\ refs[ask.from] > 0 /\ object[ask.from].kind = "error"
      /\ n \in Lengths /\ Need(n) \in Needs
      /\ Outcome.need = Need(n) /\ (Outcome.written > 0 <=> Need(n) <= buf.cap)
  BY OutcomeOfAsk
<1>3. /\ buf \in [cap : Needs, holds : Lengths \union {NULL}]
      /\ CopyFits
  BY DEF CoreInv, TypeOK
<1>4. buf' \in [cap : Needs, holds : Lengths \union {NULL}] /\ CopyFits'
  BY <1>2, <1>3 DEF CopyFits
<1>5. ask' # NULL =>
        /\ ask' \in Attempts /\ ask'.from = ask.from /\ ask'.step = "grow"
        /\ ask'.need = Need(n)
  <2>1. CASE ends
    BY <2>1
  <2>2. CASE ~ends
    BY <2>2, <1>2 DEF Attempts
  <2>3. QED
    BY <2>1, <2>2
<1>6. TypeOK'
  BY <1>4, <1>5 DEF CoreInv, TypeOK
<1>7. AskKnowsNeed'
  BY <1>2, <1>5 DEF AskKnowsNeed
<1>8. QED
  BY <1>1, <1>4, <1>6, <1>7 DEF CoreInv

LEMMA SizeOrCopyStep ==
  ASSUME CoreInv, SizeCall \/ CopyCall
  PROVE  CoreInv'
BY CopyOrGrow DEF SizeCall, CopyCall

LEMMA GrowBufferStep ==
  ASSUME CoreInv, GrowBuffer
  PROVE  CoreInv'
<1>1. CallOwnsBlock' /\ HeapAccounted' /\ RefsCounted'
  BY MemorySame DEF GrowBuffer
<1>2. /\ ask \in Attempts /\ ask # NULL /\ call = NULL
      /\ refs[ask.from] > 0 /\ object[ask.from].kind = "error"
      /\ ask.need = Need(object[ask.from].len) /\ ask.need \in Needs
  BY OutcomeOfAsk DEF CoreInv, AskKnowsNeed, GrowBuffer, Attempts
<1>3. ask' \in Attempts /\ ask'.from = ask.from /\ ask'.step = "copy"
  BY <1>2, AttemptFields DEF GrowBuffer
<1>4. TypeOK' /\ CopyFits' /\ AskKnowsNeed'
  BY <1>2, <1>3 DEF CoreInv, TypeOK, CopyFits, AskKnowsNeed, GrowBuffer
<1>5. QED
  BY <1>1, <1>4 DEF CoreInv

LEMMA CoreInvariance == Spec => []CoreInv
<1>1. CoreInv /\ [Next]_vars => CoreInv'
  <2> SUFFICES ASSUME CoreInv, [Next]_vars
               PROVE  CoreInv'
    OBVIOUS
  <2>1. CASE Next
    BY <2>1, CreateStep, GetMessageStringStep, AddRefStep, ReleaseStep, AskStep,
       AllocObjectStep, AllocTextStep, CommitStep, CleanupCreateStep,
       SizeOrCopyStep, GrowBufferStep
       DEF Next, InCall
  <2>2. CASE UNCHANGED vars
    BY <2>2 DEF vars, CoreInv, TypeOK, CallOwnsBlock, HeapAccounted, RefsCounted,
                AskKnowsNeed, CopyFits
  <2>3. QED
    BY <2>1, <2>2
<1>2. QED
  BY <1>1, InitCore, PTL DEF Spec

-----------------------------------------------------------------------------

(* Blocks, objects, references, calls and buffers keep their types, and an *)
(* object's counter stays within the bound on its references.              *)
THEOREM CoreTypeCorrect == Spec => []TypeOK
  BY CoreInvariance, PTL DEF CoreInv

(* No failure of either calloc and no order of releases leaks a block of a *)
(* string or an error or frees one that is in use.                         *)
THEOREM HeapCorrect == Spec => []HeapIsObjects
<1>1. CoreInv => HeapIsObjects
  <2> SUFFICES ASSUME CoreInv, call = NULL
               PROVE  heap = UNION {BlocksOf(o) : o \in {p \in Objects : refs[p] > 0}}
    BY DEF HeapIsObjects
  <2> DEFINE Held == {p \in Objects : refs[p] > 0}
  <2>1. heap \subseteq Objects \X {"obj", "text"}
    BY BlocksOfSet DEF CoreInv, TypeOK
  <2>2. \A o \in Objects : /\ <<o, "obj">> \in heap <=> o \in Held
                           /\ <<o, "text">> \in heap <=> o \in Held
    BY DEF CoreInv, HeapAccounted
  <2>3. heap = Held \X {"obj", "text"}
    <3>1. ASSUME NEW o \in Objects, NEW k \in {"obj", "text"}
          PROVE  <<o, k>> \in heap <=> o \in Held
      BY <2>2
    <3>2. ASSUME NEW x
          PROVE  x \in heap <=> x \in Held \X {"obj", "text"}
      <4>1. CASE x \in Objects \X {"obj", "text"}
        <5>1. PICK o \in Objects, k \in {"obj", "text"} : x = <<o, k>>
          BY <4>1
        <5>2. QED
          BY <5>1, <3>1
      <4>2. CASE x \notin Objects \X {"obj", "text"}
        BY <4>2, <2>1
      <4>3. QED
        BY <4>1, <4>2
    <3>3. QED
      BY <3>2
  <2>4. QED
    BY <2>3, BlocksOfSet
<1>2. QED
  BY <1>1, CoreInvariance, PTL

(* Every reference of the client leads to an initialised object whose      *)
(* counter is the number of its references.                                *)
THEOREM ReferencesCounted == Spec => []RefsCounted
  BY CoreInvariance, PTL DEF CoreInv

(* get_message_buf copies a message only into a buffer with room for it    *)
(* and its NUL.                                                            *)
THEOREM CopiesFit == Spec => []CopyFits
  BY CoreInvariance, PTL DEF CoreInv

(* A buffer of the size that get_message_buf reported gets the message.    *)
THEOREM ReportedSizeSuffices == Spec => []GrownBufferSuffices
<1>1. CoreInv => GrownBufferSuffices
  <2> SUFFICES ASSUME CoreInv, ask # NULL, ask.step = "copy"
               PROVE  Outcome.st = "OK" /\ Outcome.written > 0
    BY DEF GrownBufferSuffices
  <2>1. buf.cap = Need(object[ask.from].len)
    BY DEF CoreInv, AskKnowsNeed
  <2>2. Need(object[ask.from].len) \in Nat
    BY OutcomeOfAsk, NeedsAreNat
  <2>3. QED
    BY <2>1, <2>2, OutcomeOfAsk
<1>2. QED
  BY <1>1, CoreInvariance, PTL

=============================================================================

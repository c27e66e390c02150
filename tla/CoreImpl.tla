------------------------------ MODULE CoreImpl ------------------------------
(***************************************************************************)
(* The string and error-info objects of src/ncom/core_impl.c in the hands  *)
(* of one client thread: their creation out of two allocations, either of  *)
(* which may fail; the string that an error object makes of its message;   *)
(* and the protocol by which a caller gets the message into its own buffer.*)
(* Concurrent use of one object is RefCount's subject.                     *)
(***************************************************************************)
EXTENDS ErrorMessage, FiniteSets

CONSTANTS
  Objects,      \* the objects that may exist at a time
  Lengths,      \* the lengths of messages and strings
  MaxRefs       \* bounds the references the client takes to one object

ASSUME LengthsAssumption == Lengths \subseteq Nat /\ MaxRefs \in Nat \ {0}

VARIABLES
  heap,         \* the allocated blocks: an object's own and its text's
  object,       \* what the object block holds once it is initialised
  refs,         \* the references the client owns to each object
  call,         \* the creation in progress, or NULL
  buf,          \* the client's buffer: its size and the message in it
  ask           \* the client's attempt to get a message into it, or NULL

vars == <<heap, object, refs, call, buf, ask>>

Kinds == {"string", "error"}

BlocksOf(o) == {<<o, "obj">>, <<o, "text">>}

(* What an initialised object holds, and a creation and an attempt to get  *)
(* a message in progress; needs are what get_message_buf may report.       *)
Contents == [kind : Kinds, len : Lengths, rc : 0 .. MaxRefs]

Creations == [kind : Kinds, len : Lengths, on : Objects \union {NULL},
              step : {"obj", "text", "commit", "cleanup"}]

Needs == {0} \union {Need(n) : n \in Lengths}

Attempts == [from : Objects, step : {"size", "grow", "copy"}, need : Needs]

ASSUME NullAssumption ==
  /\ NULL \notin Objects /\ NULL \notin Lengths
  /\ NULL \notin Contents /\ NULL \notin Creations /\ NULL \notin Attempts
  /\ NULL \notin [cap : Needs, ptr : {TRUE}]

TypeOK ==
  /\ heap \subseteq UNION {BlocksOf(o) : o \in Objects}
  /\ object \in [Objects -> {NULL} \union Contents]
  /\ refs \in [Objects -> 0 .. MaxRefs]
  /\ call \in {NULL} \union Creations
  /\ buf \in [cap : Needs, holds : Lengths \union {NULL}]
  /\ ask \in {NULL} \union Attempts

Quiet == call = NULL /\ ask = NULL

-----------------------------------------------------------------------------

Init ==
  /\ heap = {}
  /\ object = [o \in Objects |-> NULL]
  /\ refs = [o \in Objects |-> 0]
  /\ call = NULL
  /\ buf = [cap |-> 0, holds |-> NULL]
  /\ ask = NULL

(* Entry of ncom_create_string and ncom_create_error_info.                 *)
BeginCreate(kind, n) ==
  /\ call' = [kind |-> kind, len |-> n, on |-> NULL, step |-> "obj"]
  /\ UNCHANGED <<heap, object, refs, buf, ask>>

CreateString(n) == Quiet /\ BeginCreate("string", n)

CreateErrorInfo(n) == Quiet /\ BeginCreate("error", n)

(* error_get_message_string: a new string with the error's message.        *)
GetMessageString(e) ==
  /\ Quiet
  /\ refs[e] > 0
  /\ object[e].kind = "error"
  /\ BeginCreate("string", object[e].len)

(* The first calloc.                                                       *)
AllocObject ==
  /\ call # NULL /\ call.step = "obj"
  /\ \/ \E o \in Objects :
          /\ BlocksOf(o) \intersect heap = {}
          /\ heap' = heap \union {<<o, "obj">>}
          /\ call' = [call EXCEPT !.on = o, !.step = "text"]
     \/ /\ call' = [call EXCEPT !.step = "cleanup"]
        /\ UNCHANGED heap
  /\ UNCHANGED <<object, refs, buf, ask>>

(* The second calloc.                                                      *)
AllocText ==
  /\ call # NULL /\ call.step = "text"
  /\ \/ /\ heap' = heap \union {<<call.on, "text">>}
        /\ call' = [call EXCEPT !.step = "commit"]
     \/ /\ call' = [call EXCEPT !.step = "cleanup"]
        /\ UNCHANGED heap
  /\ UNCHANGED <<object, refs, buf, ask>>

(* Fault: the counter stays as calloc left it.                             *)
CommitUncounted ==
  /\ call # NULL /\ call.step = "commit"
  /\ object' = [object EXCEPT ![call.on] =
                  [kind |-> call.kind, len |-> call.len, rc |-> 0]]
  /\ refs' = [refs EXCEPT ![call.on] = 1]
  /\ call' = NULL
  /\ UNCHANGED <<heap, buf, ask>>

(* The object is initialised and becomes the caller's.                     *)
Commit ==
  /\ call # NULL /\ call.step = "commit"
  /\ object' = [object EXCEPT ![call.on] =
                  [kind |-> call.kind, len |-> call.len, rc |-> 1]]
  /\ refs' = [refs EXCEPT ![call.on] = 1]
  /\ call' = NULL
  /\ UNCHANGED <<heap, buf, ask>>

(* Fault: the cleanup section forgets the object block.                    *)
CleanupTextOnly ==
  /\ call # NULL /\ call.step = "cleanup"
  /\ heap' = heap \ {<<call.on, "text">>}
  /\ call' = NULL
  /\ UNCHANGED <<object, refs, buf, ask>>

(* The cleanup section after a failure: whatever was allocated is freed.   *)
CleanupCreate ==
  /\ call # NULL /\ call.step = "cleanup"
  /\ heap' = heap \ BlocksOf(call.on)
  /\ call' = NULL
  /\ UNCHANGED <<object, refs, buf, ask>>

(* add_ref, and query_interface for an interface the object has.           *)
AddRef(o) ==
  /\ Quiet
  /\ refs[o] \in 1 .. MaxRefs - 1
  /\ object' = [object EXCEPT ![o].rc = @ + 1]
  /\ refs' = [refs EXCEPT ![o] = @ + 1]
  /\ UNCHANGED <<heap, call, buf, ask>>

(* string_release and error_release: at 0 the text and the object go.      *)
Release(o) ==
  /\ Quiet
  /\ refs[o] > 0
  /\ refs' = [refs EXCEPT ![o] = @ - 1]
  /\ IF object[o].rc = 1
     THEN /\ heap' = heap \ BlocksOf(o)
          /\ object' = [object EXCEPT ![o] = NULL]
     ELSE /\ object' = [object EXCEPT ![o].rc = @ - 1]
          /\ UNCHANGED heap
  /\ UNCHANGED <<call, buf, ask>>

-----------------------------------------------------------------------------
(* Getting a message into the caller's buffer: the call may find the       *)
(* buffer of an earlier message, which may be too small or already fit.    *)

Outcome == GetMessageBuf([cap |-> buf.cap, ptr |-> TRUE], object[ask.from].len)

Ask(e) ==
  /\ Quiet
  /\ refs[e] > 0
  /\ object[e].kind = "error"
  /\ ask' = [from |-> e, step |-> "size", need |-> 0]
  /\ UNCHANGED <<heap, object, refs, call, buf>>

(* The first call either sizes (no buffer yet), copies or asks for more.   *)
SizeCall ==
  /\ ask # NULL /\ ask.step = "size"
  /\ buf' = IF Outcome.written > 0
            THEN [buf EXCEPT !.holds = object[ask.from].len] ELSE buf
  /\ ask' = IF Outcome.written > 0 THEN NULL
            ELSE [ask EXCEPT !.step = "grow", !.need = Outcome.need]
  /\ UNCHANGED <<heap, object, refs, call>>

(* The client makes room for what was reported.                            *)
GrowBuffer ==
  /\ ask # NULL /\ ask.step = "grow"
  /\ buf' = [cap |-> ask.need, holds |-> NULL]
  /\ ask' = [ask EXCEPT !.step = "copy"]
  /\ UNCHANGED <<heap, object, refs, call>>

CopyCall ==
  /\ ask # NULL /\ ask.step = "copy"
  /\ buf' = IF Outcome.written > 0
            THEN [buf EXCEPT !.holds = object[ask.from].len] ELSE buf
  /\ ask' = IF Outcome.st = "OK" THEN NULL
            ELSE [ask EXCEPT !.step = "grow", !.need = Outcome.need]
  /\ UNCHANGED <<heap, object, refs, call>>

-----------------------------------------------------------------------------

InCall ==
  \/ AllocObject \/ AllocText \/ Commit \/ CleanupCreate
  \/ SizeCall \/ GrowBuffer \/ CopyCall

Next ==
  \/ \E n \in Lengths : CreateString(n) \/ CreateErrorInfo(n)
  \/ \E o \in Objects : GetMessageString(o) \/ AddRef(o) \/ Release(o) \/ Ask(o)
  \/ InCall

(* The client goes on with the call it is in.                              *)
Spec == Init /\ [][Next]_vars /\ WF_vars(InCall)

(* Between calls memory holds exactly the two blocks of every object the   *)
(* client has a reference to: no failure of either allocation and no order *)
(* of releases leaks a block or frees one that is still in use.            *)
HeapIsObjects ==
  call = NULL => heap = UNION {BlocksOf(o) : o \in {p \in Objects : refs[p] > 0}}

(* A client's reference leads to an initialised object that counts it; the *)
(* string made of an error's message lives independently of the error.     *)
RefsCounted ==
  \A o \in Objects :
    /\ refs[o] > 0 => object[o] # NULL /\ object[o].rc = refs[o]
    /\ refs[o] = 0 => object[o] = NULL

(* get_message_buf never writes past the buffer, and a call that writes    *)
(* leaves the whole message with its NUL in it.                            *)
CopyFits == buf.holds # NULL => Need(buf.holds) <= buf.cap

(* A caller that grows its buffer to the size it was told gets the message *)
(* of that error and does not have to ask again.                           *)
GrownBufferSuffices ==
  ask # NULL /\ ask.step = "copy" => Outcome.st = "OK" /\ Outcome.written > 0

(* Every creation returns and every attempt to get a message ends.         *)
CallsReturn == ~Quiet ~> Quiet

=============================================================================

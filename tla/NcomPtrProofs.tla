---------------------------- MODULE NcomPtrProofs ----------------------------
(***************************************************************************)
(* The safety properties of NcomPtr, proved for any finite sets of objects *)
(* and variables: however the objects point to one another and however     *)
(* long the destructions that an operation sets off.                       *)
(***************************************************************************)
EXTENDS NcomPtr, FiniteSetTheorems, TLAPS

Values == Objs \union {NULL}

Steps ==
  UNION {[do : {"release", "null", "add_ref", "leave"}, at : Locs],
         [do : {"free"}, at : Objs],
         [do : {"return"}, at : {NULL}],
         [do : {"read"}, at : Locs, from : Locs],
         [do : {"set"}, at : Locs, obj : Values],
         [do : {"query"}, at : Locs, out : Locs]}

CallNames == {"none", "copy", "move", "destruct", "null", "attach", "as", "c_release"}

PtrShape ==
  /\ live \subseteq Objs
  /\ rc \in [Objs -> Int]
  /\ val \in [Locs -> Values]
  /\ scope \subseteq Locals
  /\ raw \in [Objs -> Nat]
  /\ todo \in Seq(Steps)
  /\ call \in [op : CallNames, this : Locs \union {NULL}, other : Locs \union {NULL},
               val : [Locs -> Values]]
  /\ call.this = NULL <=> call.op \in {"none", "c_release"}
  /\ ub \in BOOLEAN

-----------------------------------------------------------------------------
(* What the steps that are still to do say about the state.                *)

(* The i-th step ends the time in which a pointer is not counted: its      *)
(* reference was given up by a release or a move, or is not yet added.     *)
Uncounts(i) ==
  /\ todo[i].do \in {"null", "add_ref"}
  /\ i > 1 => todo[i - 1].do # "read"

Uncounted == {l \in Locs : \E i \in 1 .. Len(todo) : Uncounts(i) /\ todo[i].at = l}

(* The objects whose destruction has begun.                                *)
Dying == {o \in Objs : \E i \in 1 .. Len(todo) : todo[i].do = "free" /\ todo[i].at = o}

(* The operation holds a counted reference that no pointer has yet.        *)
Owed(o) == \E i \in 1 .. Len(todo) : todo[i].do = "set" /\ todo[i].obj = o

Counted(o) == {l \in Storage \ Uncounted : val[l] = o}

(* At every step the count of an object is the number of its pointers that *)
(* are counted, plus the references of C code and of the operation.        *)
CountsAddUp ==
  \A o \in Objs :
    rc[o] = Cardinality(Counted(o)) + raw[o] + (IF Owed(o) THEN 1 ELSE 0)

LiveIsCounted ==
  \A o \in Objs :
    /\ o \in live <=> rc[o] > 0 \/ o \in Dying
    /\ o \in Dying => rc[o] = 0

GoneIsNull == \A l \in Locs \ Storage : val[l] = NULL

-----------------------------------------------------------------------------
(* The order of the steps: a chain of destructions, each a release, a free *)
(* and the null of the pointer that was released, and then the rest of the *)
(* operation's body.                                                       *)

(* The first step of the body after the old value of this is released.     *)
Rest(t) ==
  \/ t.do = "return" /\ call.op = "null"
  \/ t.do = "read" /\ call.op \in {"copy", "move"}
  \/ t.do = "set" /\ call.op \in {"attach", "as"}
  \/ t.do = "leave" /\ call.op = "destruct"

Follows(s, t) ==
  /\ s.do = "release" => \/ t.do = "free" /\ t.at = s.at
                         \/ s.at = call.this /\ Rest(t)
  /\ s.do = "free" => \/ t.do = "null"
                      \/ t.do = "return" /\ call.op = "c_release"
  /\ s.do = "null" => \/ t.do = "free" /\ t.at = s.at
                      \/ s.at = call.this /\ Rest(t)
                      \/ /\ s.at = call.other /\ s.at # call.this
                         /\ t.do = "return" /\ call.op = "move"
  /\ s.do = "read" => \/ t.do = "add_ref" /\ call.op = "copy"
                      \/ t.do = "null" /\ t.at = s.from /\ call.op = "move"
  /\ s.do \in {"add_ref", "leave", "query"} => t.do = "return"
  /\ s.do = "set" => \/ t.do = "return"
                     \/ t.do = "query" /\ s.obj = NULL

(* The steps of the operation's body are about its own pointers.           *)
OfCall(s) ==
  /\ s.do \in {"read", "add_ref", "set", "leave"} => s.at = call.this
  /\ s.do = "read" => /\ s.from = call.other /\ s.from # s.at
                      /\ call.op \in {"copy", "move"}
  /\ s.do = "add_ref" => call.op = "copy"
  /\ s.do = "leave" => call.op = "destruct"
  /\ s.do = "query" => s.at = call.other /\ s.out = call.this /\ call.op = "as"
  /\ s.do = "set" =>
       \/ call.op = "attach" /\ s.obj = call.other
       \/ call.op = "as" /\ s.obj = NULL
       \/ call.op = "as" /\ s.obj = Old(call.other) /\ call.this # call.other

StepsInOrder ==
  todo # <<>> =>
    /\ \A i \in 1 .. Len(todo) :
         /\ todo[i].do = "return" <=> i = Len(todo)
         /\ todo[i].do = "release" => i = 1
         /\ todo[i].do = "read" => i + 2 = Len(todo)
         /\ OfCall(todo[i])
    /\ \A i \in 1 .. Len(todo) - 1 : Follows(todo[i], todo[i + 1])
    /\ \A i \in 2 .. Len(todo) - 1 :
         todo[i].do = "null" /\ todo[i - 1].do # "read" =>
           \/ todo[i].at = call.this
           \/ todo[i + 1].do = "free" /\ todo[i + 1].at = todo[i].at
    /\ \A i, j \in 1 .. Len(todo) :
         todo[i].do = "free" /\ todo[j].do = "free" /\ todo[i].at = todo[j].at => i = j

(* The step that is next finds the pointer that it works on.               *)
NextStepReady ==
  todo # <<>> =>
    /\ todo[1].do \in {"read", "set", "free", "leave"} => val[todo[1].at] = NULL
    /\ todo[1].do = "query" => val[todo[1].out] = NULL
    /\ todo[1].do = "null" => todo[1].at \in Storage
    /\ todo[1].do = "add_ref" => val[todo[1].at] \in live \union {NULL}

(* The pointer x keeps existing whatever dies: no set of objects that has  *)
(* x in it, and all that are dying, lacks a reference from without other   *)
(* than the one the operation overwrites.                                  *)
Anchored(x) ==
  \A S \in SUBSET Objs :
    x \in S /\ Dying \subseteq S =>
      \E o \in S : \/ raw[o] > 0
                    \/ Owed(o)
                    \/ \E l \in Storage \ (S \union {call.this}) : val[l] = o

Releasing ==
  \E i \in 1 .. Len(todo) : todo[i].do \in {"release", "free", "query"}

ThisStays ==
  todo # <<>> /\ todo[1].do # "return" =>
    /\ call.this \in Storage \union {NULL}
    /\ call.this \notin Dying
    /\ Releasing => Anchored(call.this)

(* The pointer that an assignment or as() reads stays, too, if it is a     *)
(* variable or could be reached without the pointer that is overwritten.   *)
SourceNeeded == \E i \in 1 .. Len(todo) : todo[i].do \in {"read", "query"}

SourceStays ==
  SourceNeeded =>
    /\ call.other \in scope \union Objs
    /\ call.other \in ReachableWithout(call.this, call.val) => Anchored(call.other)

(* What an operation has done so far.                                      *)
Returning == todo[1].do = "return"

ReadAhead == \E i \in 1 .. Len(todo) : todo[i].do = "read"

ResultSoFar ==
  todo # <<>> =>
    /\ \A l \in (Storage \ Dying) \ {call.this} :
         val[l] = IF call.op = "move" /\ l = call.other /\ Returning THEN NULL ELSE Old(l)
    /\ call.op \in {"copy", "move"} /\ ~ReadAhead => val[call.this] = Old(call.other)
    /\ call.op \in {"null", "destruct"} /\ Returning => val[call.this] = NULL
    /\ call.op = "attach" /\ Returning => val[call.this] = call.other
    /\ call.op = "as" /\ Returning =>
         \/ val[call.this] = NULL
         \/ val[call.this] = Old(call.other) /\ call.this # call.other

PtrInv ==
  /\ PtrShape
  /\ CountsAddUp
  /\ LiveIsCounted
  /\ GoneIsNull
  /\ StepsInOrder
  /\ NextStepReady
  /\ ThisStays
  /\ SourceStays
  /\ ResultSoFar
  /\ OnlyInnerSourceDangles

-----------------------------------------------------------------------------
(* Lists of steps.                                                         *)

LEMMA Concat ==
  ASSUME NEW S, NEW s \in Seq(S), NEW t \in Seq(S)
  PROVE  /\ s \o t \in Seq(S)
         /\ Len(s \o t) = Len(s) + Len(t)
         /\ \A i \in 1 .. Len(s) + Len(t) :
              (s \o t)[i] = IF i <= Len(s) THEN s[i] ELSE t[i - Len(s)]
OBVIOUS

(* The steps that replace the one that is done.                            *)
LEMMA ThenSteps ==
  ASSUME todo \in Seq(Steps), todo # <<>>, NEW steps \in Seq(Steps),
         Then(steps)
  PROVE  /\ todo' \in Seq(Steps)
         /\ Len(todo) >= 1
         /\ Len(todo') = Len(steps) + Len(todo) - 1
         /\ \A i \in 1 .. Len(todo') :
              todo'[i] = IF i <= Len(steps) THEN steps[i] ELSE todo[i - Len(steps) + 1]
<1>1. /\ Tail(todo) \in Seq(Steps) /\ Len(todo) >= 1
      /\ Len(Tail(todo)) = Len(todo) - 1
      /\ \A i \in 1 .. Len(todo) - 1 : Tail(todo)[i] = todo[i + 1]
  OBVIOUS
<1>2. /\ todo' \in Seq(Steps)
      /\ Len(todo') = Len(steps) + Len(Tail(todo))
      /\ \A i \in 1 .. Len(steps) + Len(Tail(todo)) :
           todo'[i] = IF i <= Len(steps) THEN steps[i] ELSE Tail(todo)[i - Len(steps)]
  BY <1>1, Concat DEF Then
<1>3. ASSUME NEW i \in 1 .. Len(todo')
      PROVE  todo'[i] = IF i <= Len(steps) THEN steps[i] ELSE todo[i - Len(steps) + 1]
  <2>1. CASE i <= Len(steps)
    BY <1>1, <1>2, <1>3, <2>1
  <2>2. CASE ~(i <= Len(steps))
    <3>1. i - Len(steps) \in 1 .. Len(todo) - 1
      BY <1>1, <1>2, <1>3, <2>2
    <3>2. QED
      BY <1>1, <1>2, <2>2, <3>1
  <2>3. QED
    BY <2>1, <2>2
<1>4. QED
  BY <1>1, <1>2, <1>3

LEMMA ThenNothing ==
  ASSUME todo \in Seq(Steps), todo # <<>>, Then(<<>>)
  PROVE  /\ todo' \in Seq(Steps)
         /\ Len(todo) >= 1
         /\ Len(todo') = Len(todo) - 1
         /\ \A i \in 1 .. Len(todo) - 1 : todo'[i] = todo[i + 1]
<1>1. <<>> \in Seq(Steps) /\ Len(<<>>) = 0
  OBVIOUS
<1>2. /\ todo' \in Seq(Steps)
      /\ Len(todo) >= 1
      /\ Len(todo') = Len(<<>>) + Len(todo) - 1
      /\ \A i \in 1 .. Len(todo') :
           todo'[i] = IF i <= Len(<<>>) THEN <<>>[i] ELSE todo[i - Len(<<>>) + 1]
  BY <1>1, ThenSteps
<1>3. Len(todo) \in Nat /\ Len(todo') = Len(todo) - 1
  BY <1>1, <1>2
<1>4. ASSUME NEW i \in 1 .. Len(todo) - 1
      PROVE  todo'[i] = todo[i + 1]
  <2>1. i \in 1 .. Len(todo') /\ ~(i <= Len(<<>>)) /\ i - Len(<<>>) + 1 = i + 1
    BY <1>1, <1>3, <1>4
  <2>2. QED
    BY <1>2, <2>1
<1>5. QED
  BY <1>2, <1>3, <1>4

(* A step has its kind and what belongs to it.                             *)
LEMMA StepKinds ==
  \A s \in Steps :
    /\ s.do \in {"release", "null", "add_ref", "leave", "free", "return", "read", "set", "query"}
    /\ s.do \in {"release", "null", "add_ref", "leave", "read", "set", "query"} => s.at \in Locs
    /\ s.do = "free" => s.at \in Objs /\ s.at \in Locs
    /\ s.do = "return" => s.at = NULL
    /\ s.do = "read" => s.from \in Locs
    /\ s.do = "set" => s.obj \in Values
    /\ s.do = "query" => s.out \in Locs
BY DEF Steps, Locs

LEMMA StepsMade ==
  /\ \A l \in Locs : /\ Step("release", l) \in Steps /\ Step("null", l) \in Steps
                     /\ Step("add_ref", l) \in Steps /\ Step("leave", l) \in Steps
                     /\ \A q \in Locs : ReadFrom(l, q) \in Steps
                                     /\ [do |-> "query", at |-> l, out |-> q] \in Steps
                     /\ \A o \in Values : Put(l, o) \in Steps
  /\ \A o \in Objs : Step("release", o) \in Steps /\ Step("free", o) \in Steps
  /\ Step("return", NULL) \in Steps
  /\ Return \in Seq(Steps) /\ Len(Return) = 1 /\ Return[1] = Step("return", NULL)
BY DEF Steps, Step, ReadFrom, Put, Locs, Return

LEMMA TodoIsList ==
  ASSUME PtrShape, todo # <<>>
  PROVE  /\ todo \in Seq(Steps)
         /\ Len(todo) \in Nat /\ Len(todo) >= 1
         /\ \A i \in 1 .. Len(todo) : todo[i] \in Steps
         /\ Now = todo[1]
BY DEF PtrShape, Now

(* What can follow the first step of the rest of a body.                   *)
LEMMA RestIsShort ==
  ASSUME PtrShape, StepsInOrder, NEW i \in 1 .. Len(todo),
         todo[i].do \in {"read", "add_ref", "set", "query", "leave", "return"},
         NEW j \in 1 .. Len(todo), j > i
  PROVE  /\ todo[j].do \in {"null", "add_ref", "query", "return"}
         /\ todo[j].do = "null" => j = i + 1 /\ todo[i].do = "read"
         /\ todo[j].do = "add_ref" => j = i + 1 /\ todo[i].do = "read"
         /\ todo[j].do = "query" => j = i + 1 /\ todo[i].do = "set"
<1>1. /\ todo \in Seq(Steps) /\ Len(todo) \in Nat /\ todo # <<>>
      /\ \A k \in 1 .. Len(todo) :
           /\ todo[k].do = "return" <=> k = Len(todo)
           /\ todo[k].do = "read" => k + 2 = Len(todo)
      /\ \A k \in 1 .. Len(todo) - 1 : Follows(todo[k], todo[k + 1])
  <2>1. todo # <<>>
    BY DEF PtrShape
  <2>2. QED
    BY <2>1, TodoIsList DEF StepsInOrder
<1>2. i \in 1 .. Len(todo) - 1 /\ todo[i].do # "return" /\ Follows(todo[i], todo[i + 1])
  BY <1>1
<1>3. CASE todo[i].do \in {"add_ref", "query", "leave"}
  <2>1. todo[i + 1].do = "return"
    BY <1>2, <1>3 DEF Follows
  <2>2. i + 1 = Len(todo)
    BY <1>1, <1>2, <2>1
  <2>3. QED
    BY <1>1, <2>1, <2>2
<1>4. CASE todo[i].do = "read"
  <2>1. i + 2 = Len(todo) /\ todo[i + 2].do = "return"
    BY <1>1, <1>4
  <2>2. todo[i + 1].do \in {"add_ref", "null"}
    BY <1>2, <1>4 DEF Follows
  <2>3. j = i + 1 \/ j = i + 2
    BY <1>1, <2>1
  <2>4. QED
    BY <1>4, <2>1, <2>2, <2>3
<1>5. CASE todo[i].do = "set"
  <2>1. todo[i + 1].do = "return" \/ todo[i + 1].do = "query"
    BY <1>2, <1>5 DEF Follows
  <2>2. CASE todo[i + 1].do = "return"
    <3>1. i + 1 = Len(todo)
      BY <1>1, <1>2, <2>2
    <3>2. QED
      BY <1>1, <2>2, <3>1
  <2>3. CASE todo[i + 1].do = "query"
    <3>1. i + 1 \in 1 .. Len(todo) - 1
      BY <1>1, <1>2, <2>3
    <3>2. todo[i + 2].do = "return"
      <4>1. Follows(todo[i + 1], todo[i + 1 + 1])
        BY <1>1, <3>1
      <4>2. QED
        BY <2>3, <4>1 DEF Follows
    <3>3. i + 2 = Len(todo)
      BY <1>1, <3>1, <3>2
    <3>4. j = i + 1 \/ j = i + 2
      BY <1>1, <3>3
    <3>5. QED
      BY <1>5, <2>3, <3>2, <3>4
  <2>4. QED
    BY <2>1, <2>2, <2>3
<1>6. QED
  BY <1>2, <1>3, <1>4, <1>5

(* In the rest of a body nothing is dying, and what is not counted or owed *)
(* is what its first step is about.                                        *)
LEMMA RestSets ==
  ASSUME PtrShape, StepsInOrder, todo # <<>>,
         Now.do \in {"read", "add_ref", "set", "query", "leave", "return"}
  PROVE  /\ Dying = {}
         /\ Uncounted = IF Now.do = "add_ref" THEN {Now.at} ELSE {}
         /\ \A o \in Objs : Owed(o) <=> Now.do = "set" /\ Now.obj = o
         /\ ~\E i \in 1 .. Len(todo) : todo[i].do \in {"release", "free"}
<1>1. /\ Len(todo) \in Nat /\ Len(todo) >= 1 /\ Now = todo[1] /\ todo[1] \in Steps
      /\ 1 \in 1 .. Len(todo)
  BY TodoIsList
<1>2. ASSUME NEW j \in 1 .. Len(todo), j > 1
      PROVE  /\ todo[j].do \in {"null", "add_ref", "query", "return"}
             /\ todo[j].do \in {"null", "add_ref"} => j = 1 + 1 /\ todo[1].do = "read"
  BY <1>1, <1>2, RestIsShort
<1>3. \A j \in 1 .. Len(todo) :
        todo[j].do \in {"null", "add_ref", "query", "return", "read", "set", "leave"}
  BY <1>1, <1>2
<1>4. Dying = {} /\ ~\E i \in 1 .. Len(todo) : todo[i].do \in {"release", "free"}
  BY <1>3 DEF Dying
<1>5. ASSUME NEW j \in 1 .. Len(todo), Uncounts(j)
      PROVE  j = 1 /\ todo[1].do = "add_ref"
  <2>1. CASE j = 1
    BY <1>1, <1>5, <2>1 DEF Uncounts
  <2>2. CASE j > 1
    <3>1. j = 2 /\ todo[1].do = "read"
      BY <1>2, <1>5, <2>2 DEF Uncounts
    <3>2. QED
      BY <1>5, <3>1 DEF Uncounts
  <2>3. QED
    BY <2>1, <2>2
<1>6. Uncounted = IF Now.do = "add_ref" THEN {Now.at} ELSE {}
  <2>1. CASE Now.do = "add_ref"
    <3>1. Now.at \in Locs /\ Uncounts(1)
      BY <1>1, <2>1, StepKinds DEF Uncounts
    <3>2. QED
      BY <1>1, <1>5, <2>1, <3>1 DEF Uncounted
  <2>2. CASE Now.do # "add_ref"
    BY <1>1, <1>5, <2>2 DEF Uncounted
  <2>3. QED
    BY <2>1, <2>2
<1>7. \A o \in Objs : Owed(o) <=> Now.do = "set" /\ Now.obj = o
  <2>1. \A j \in 1 .. Len(todo) : todo[j].do = "set" => j = 1
    BY <1>1, <1>2
  <2>2. QED
    BY <1>1, <2>1 DEF Owed
<1>8. QED
  BY <1>4, <1>6, <1>7

(* A step that is done, and nothing put in its place.                      *)
LEMMA PopSets ==
  ASSUME PtrShape, StepsInOrder, todo # <<>>, Then(<<>>)
  PROVE  /\ Dying' = IF Now.do = "free" THEN Dying \ {Now.at} ELSE Dying
         /\ \A o \in Objs : Owed(o)' <=> Owed(o) /\ Now.do # "set"
         /\ Now.do # "read" =>
              \A l \in Locs : l # Now.at => (l \in Uncounted' <=> l \in Uncounted)
         /\ Now.do \notin {"read", "null", "add_ref"} => Uncounted' = Uncounted
<1>1. /\ Len(todo) \in Nat /\ Len(todo) >= 1 /\ Now = todo[1] /\ todo[1] \in Steps
      /\ 1 \in 1 .. Len(todo) /\ todo \in Seq(Steps)
  BY TodoIsList
<1>2. /\ Len(todo') = Len(todo) - 1
      /\ \A i \in 1 .. Len(todo) - 1 : todo'[i] = todo[i + 1]
  BY <1>1, ThenNothing
<1>3. /\ \A i \in 1 .. Len(todo') : i + 1 \in 1 .. Len(todo) /\ todo'[i] = todo[i + 1]
      /\ \A j \in 1 .. Len(todo) : j # 1 => j - 1 \in 1 .. Len(todo') /\ todo'[j - 1] = todo[j]
  BY <1>1, <1>2
<1>4. Dying' = IF Now.do = "free" THEN Dying \ {Now.at} ELSE Dying
  <2>1. \A i, j \in 1 .. Len(todo) :
          todo[i].do = "free" /\ todo[j].do = "free" /\ todo[i].at = todo[j].at => i = j
    BY DEF StepsInOrder
  <2>2. ASSUME NEW o \in Objs, o \in Dying'
        PROVE  o \in Dying /\ ~(Now.do = "free" /\ o = Now.at)
    <3>1. PICK i \in 1 .. Len(todo') : todo'[i].do = "free" /\ todo'[i].at = o
      BY <2>2 DEF Dying
    <3>2. /\ i + 1 \in 1 .. Len(todo) /\ i + 1 # 1
          /\ todo[i + 1].do = "free" /\ todo[i + 1].at = o
      BY <1>1, <1>2, <1>3, <3>1
    <3>3. QED
      BY <1>1, <2>1, <3>2 DEF Dying
  <2>3. ASSUME NEW o \in Dying, ~(Now.do = "free" /\ o = Now.at)
        PROVE  o \in Dying'
    <3>1. PICK j \in 1 .. Len(todo) : todo[j].do = "free" /\ todo[j].at = o
      BY <2>3 DEF Dying
    <3>2. j # 1
      BY <1>1, <2>3, <3>1
    <3>3. PICK i : i = j - 1
      OBVIOUS
    <3>4. i \in 1 .. Len(todo') /\ todo'[i] = todo[j]
      BY <1>3, <3>2, <3>3
    <3>5. QED
      BY <2>3, <3>1, <3>4 DEF Dying
  <2>4. Dying \subseteq Objs /\ Dying' \subseteq Objs
    BY DEF Dying
  <2>5. QED
    BY <2>2, <2>3, <2>4
<1>5. ASSUME NEW o \in Objs
      PROVE  Owed(o)' <=> Owed(o) /\ Now.do # "set"
  <2>1. ASSUME Owed(o)'
        PROVE  Owed(o) /\ Now.do # "set"
    <3>1. PICK i \in 1 .. Len(todo') : todo'[i].do = "set" /\ todo'[i].obj = o
      BY <2>1 DEF Owed
    <3>2. i + 1 \in 1 .. Len(todo) /\ todo[i + 1].do = "set" /\ todo[i + 1].obj = o /\ i + 1 > 1
      BY <1>1, <1>2, <1>3, <3>1
    <3>3. Now.do # "set"
      BY <1>1, <3>2, RestIsShort
    <3>4. QED
      BY <3>2, <3>3 DEF Owed
  <2>2. ASSUME Owed(o), Now.do # "set"
        PROVE  Owed(o)'
    BY <1>1, <1>3, <2>2 DEF Owed
  <2>3. QED
    BY <2>1, <2>2
<1>6. ASSUME Now.do # "read"
      PROVE  \A i \in 1 .. Len(todo') : Uncounts(i)' <=> Uncounts(i + 1)
  <2>1. SUFFICES ASSUME NEW i \in 1 .. Len(todo')
                 PROVE  Uncounts(i)' <=> Uncounts(i + 1)
    OBVIOUS
  <2>2. i \in Nat /\ todo'[i] = todo[i + 1] /\ i + 1 > 1 /\ (i + 1) - 1 = i
    BY <1>1, <1>2, <1>3
  <2>3. (i > 1 => todo'[i - 1].do # "read") <=> todo[i].do # "read"
    <3>1. CASE i = 1
      BY <1>1, <1>6, <3>1
    <3>2. CASE i > 1
      <4>1. i - 1 \in 1 .. Len(todo') /\ (i - 1) + 1 = i
        BY <1>1, <1>2, <3>2
      <4>2. QED
        BY <1>3, <3>2, <4>1
    <3>3. QED
      BY <2>2, <3>1, <3>2
  <2>4. QED
    BY <2>2, <2>3 DEF Uncounts
<1>7. ASSUME Now.do # "read", NEW l \in Locs
      PROVE  /\ l \in Uncounted' => l \in Uncounted
             /\ l \in Uncounted => \/ l \in Uncounted'
                                   \/ Now.do \in {"null", "add_ref"} /\ l = Now.at
  <2>1. ASSUME l \in Uncounted' PROVE l \in Uncounted
    <3>1. PICK i \in 1 .. Len(todo') : Uncounts(i)' /\ todo'[i].at = l
      BY <2>1 DEF Uncounted
    <3>2. i + 1 \in 1 .. Len(todo) /\ Uncounts(i + 1) /\ todo[i + 1].at = l
      BY <1>3, <1>6, <1>7, <3>1
    <3>3. QED
      BY <3>2 DEF Uncounted
  <2>2. ASSUME l \in Uncounted
        PROVE  l \in Uncounted' \/ (Now.do \in {"null", "add_ref"} /\ l = Now.at)
    <3>1. PICK j \in 1 .. Len(todo) : Uncounts(j) /\ todo[j].at = l
      BY <2>2 DEF Uncounted
    <3>2. CASE j = 1
      BY <1>1, <3>1, <3>2 DEF Uncounts
    <3>3. CASE j # 1
      <4>1. j - 1 \in 1 .. Len(todo') /\ todo'[j - 1] = todo[j] /\ (j - 1) + 1 = j
        BY <1>1, <1>3, <3>3
      <4>2. Uncounts(j - 1)' /\ todo'[j - 1].at = l
        BY <1>6, <1>7, <3>1, <4>1
      <4>3. QED
        BY <4>1, <4>2 DEF Uncounted
    <3>4. QED
      BY <3>2, <3>3
  <2>3. QED
    BY <2>1, <2>2
<1>8. Uncounted \subseteq Locs /\ Uncounted' \subseteq Locs
  BY DEF Uncounted
<1>9. QED
  BY <1>4, <1>5, <1>7, <1>8

(* What a release that is called puts in its place: k is the number of     *)
(* steps of the destruction that it sets off.                              *)
LEMMA ReleaseSteps ==
  ASSUME PtrShape, StepsInOrder, todo # <<>>, Now.do = "release",
         val[Now.at] # NULL, Then(InternalRelease(Now.at))
  PROVE  /\ val[Now.at] \in Objs /\ Now.at \in Locs
         /\ todo' \in Seq(Steps)
         /\ \E k \in {0, 2} :
              /\ k = 2 <=> rc[val[Now.at]] = 1
              /\ Len(todo') = Len(todo) + k
              /\ todo'[1 + k] = Step("null", Now.at)
              /\ k = 2 => /\ todo'[1] = Step("release", val[Now.at])
                          /\ todo'[2] = Step("free", val[Now.at])
              /\ \A i \in 2 .. Len(todo) : todo'[i + k] = todo[i]
<1>1. /\ Len(todo) \in Nat /\ Len(todo) >= 1 /\ Now = todo[1] /\ todo[1] \in Steps
      /\ 1 \in 1 .. Len(todo) /\ todo \in Seq(Steps)
  BY TodoIsList
<1>2. Now.at \in Locs /\ val[Now.at] \in Objs
  <2>1. Now.at \in Locs
    BY <1>1, StepKinds
  <2>2. QED
    BY <2>1 DEF PtrShape, Values
<1>3. CASE rc[val[Now.at]] = 1
  <2> DEFINE o == val[Now.at]
             first == <<Step("release", o), Step("free", o)>>
             last == <<Step("null", Now.at)>>
             steps == InternalRelease(Now.at)
  <2>1. steps = first \o last
    BY <1>3 DEF InternalRelease, Destruction
  <2>2. /\ steps \in Seq(Steps) /\ Len(steps) = 3
        /\ steps[1] = Step("release", o) /\ steps[2] = Step("free", o)
        /\ steps[3] = Step("null", Now.at)
    <3>1. /\ first \in Seq(Steps) /\ Len(first) = 2
          /\ first[1] = Step("release", o) /\ first[2] = Step("free", o)
          /\ last \in Seq(Steps) /\ Len(last) = 1 /\ last[1] = Step("null", Now.at)
      BY <1>2, StepsMade
    <3> HIDE DEF first, last
    <3>2. /\ first \o last \in Seq(Steps)
          /\ Len(first \o last) = Len(first) + Len(last)
          /\ \A i \in 1 .. Len(first) + Len(last) :
               (first \o last)[i] = IF i <= Len(first) THEN first[i]
                                   ELSE last[i - Len(first)]
      BY <3>1, Concat
    <3>3. QED
      BY <2>1, <3>1, <3>2
  <2>3. Then(steps)
    OBVIOUS
  <2> HIDE DEF steps
  <2>4. /\ todo' \in Seq(Steps)
        /\ Len(todo') = Len(steps) + Len(todo) - 1
        /\ \A i \in 1 .. Len(todo') :
             todo'[i] = IF i <= Len(steps) THEN steps[i] ELSE todo[i - Len(steps) + 1]
    BY <1>1, <2>2, <2>3, ThenSteps
  <2>5. /\ Len(todo') = Len(todo) + 2
        /\ todo'[1] = steps[1] /\ todo'[2] = steps[2] /\ todo'[3] = steps[3]
    BY <1>1, <2>2, <2>4
  <2>6. ASSUME NEW i \in 2 .. Len(todo) PROVE todo'[i + 2] = todo[i]
    <3>1. i + 2 \in 1 .. Len(todo') /\ ~(i + 2 <= Len(steps)) /\ (i + 2) - Len(steps) + 1 = i
      BY <1>1, <2>2, <2>5
    <3>2. QED
      BY <2>4, <3>1
  <2>7. QED
    BY <1>2, <1>3, <2>2, <2>4, <2>5, <2>6
<1>4. CASE rc[val[Now.at]] # 1
  <2> DEFINE steps == <<Step("null", Now.at)>>
  <2>1. InternalRelease(Now.at) = steps
    <3>1. InternalRelease(Now.at) = <<>> \o steps
      BY <1>4 DEF InternalRelease
    <3>2. steps \in Seq(Steps)
      BY <1>2, StepsMade
    <3>3. QED
      BY <3>1, <3>2
  <2>2. steps \in Seq(Steps) /\ Len(steps) = 1 /\ steps[1] = Step("null", Now.at)
    BY <1>2, StepsMade
  <2>3. Then(steps)
    BY <2>1
  <2> HIDE DEF steps
  <2>4. /\ todo' \in Seq(Steps)
        /\ Len(todo') = Len(steps) + Len(todo) - 1
        /\ \A i \in 1 .. Len(todo') :
             todo'[i] = IF i <= Len(steps) THEN steps[i] ELSE todo[i - Len(steps) + 1]
    BY <1>1, <2>2, <2>3, ThenSteps
  <2>5. Len(todo') = Len(todo) + 0 /\ todo'[1 + 0] = steps[1]
    BY <1>1, <2>2, <2>4
  <2>6. ASSUME NEW i \in 2 .. Len(todo) PROVE todo'[i + 0] = todo[i]
    <3>1. i + 0 \in 1 .. Len(todo') /\ ~(i + 0 <= Len(steps)) /\ (i + 0) - Len(steps) + 1 = i
      BY <1>1, <2>2, <2>5
    <3>2. QED
      BY <2>4, <3>1
  <2>7. QED
    BY <1>2, <1>4, <2>2, <2>4, <2>5, <2>6
<1>5. QED
  BY <1>3, <1>4

(* A release makes its pointer uncounted, and the object dies if it was    *)
(* the last reference.                                                     *)
LEMMA ReleaseSets ==
  ASSUME PtrShape, StepsInOrder, todo # <<>>, Now.do = "release",
         val[Now.at] # NULL, Then(InternalRelease(Now.at))
  PROVE  /\ Dying' = Dying \union (IF rc[val[Now.at]] = 1 THEN {val[Now.at]} ELSE {})
         /\ \A o \in Objs : Owed(o)' <=> Owed(o)
         /\ Uncounted' = Uncounted \union {Now.at}
<1>1. /\ Len(todo) \in Nat /\ Len(todo) >= 1 /\ Now = todo[1]
      /\ 1 \in 1 .. Len(todo)
  BY TodoIsList
<1>2. PICK k \in {0, 2} :
        /\ k = 2 <=> rc[val[Now.at]] = 1
        /\ Len(todo') = Len(todo) + k
        /\ todo'[1 + k] = Step("null", Now.at)
        /\ k = 2 => /\ todo'[1] = Step("release", val[Now.at])
                    /\ todo'[2] = Step("free", val[Now.at])
        /\ \A i \in 2 .. Len(todo) : todo'[i + k] = todo[i]
  BY ReleaseSteps
<1>3. val[Now.at] \in Objs /\ Now.at \in Locs
  BY ReleaseSteps
<1>4. \A i \in 1 .. Len(todo') :
        \/ i \in 1 .. k
        \/ i = 1 + k
        \/ i - k \in 2 .. Len(todo) /\ todo'[i] = todo[i - k]
  <2>1. SUFFICES ASSUME NEW i \in 1 .. Len(todo'), i > 1 + k
                 PROVE  i - k \in 2 .. Len(todo) /\ todo'[i] = todo[i - k]
    BY <1>1, <1>2
  <2>2. i - k \in 2 .. Len(todo) /\ (i - k) + k = i
    BY <1>1, <1>2, <2>1
  <2>3. QED
    BY <1>2, <2>2
<1>5. \A j \in 2 .. Len(todo) : j + k \in 1 .. Len(todo') /\ todo'[j + k] = todo[j]
  BY <1>1, <1>2
<1>6. /\ 1 + k \in 1 .. Len(todo')
      /\ todo'[1 + k].do = "null" /\ todo'[1 + k].at = Now.at
      /\ k = 2 => /\ 1 \in 1 .. Len(todo') /\ 2 \in 1 .. Len(todo')
                  /\ todo'[1].do = "release"
                  /\ todo'[2].do = "free" /\ todo'[2].at = val[Now.at]
  BY <1>1, <1>2 DEF Step
<1>7. Dying' = Dying \union (IF rc[val[Now.at]] = 1 THEN {val[Now.at]} ELSE {})
  <2>1. ASSUME NEW o \in Objs, o \in Dying'
        PROVE  o \in Dying \/ (rc[val[Now.at]] = 1 /\ o = val[Now.at])
    <3>1. PICK i \in 1 .. Len(todo') : todo'[i].do = "free" /\ todo'[i].at = o
      BY <2>1 DEF Dying
    <3>2. CASE i \in 1 .. k
      <4>1. k = 2 /\ (i = 1 \/ i = 2)
        BY <3>2
      <4>2. QED
        BY <1>2, <1>6, <3>1, <4>1
    <3>3. CASE i - k \in 2 .. Len(todo) /\ todo'[i] = todo[i - k]
      <4>1. i - k \in 1 .. Len(todo) /\ todo[i - k].do = "free" /\ todo[i - k].at = o
        BY <1>1, <3>1, <3>3
      <4>2. QED
        BY <4>1 DEF Dying
    <3>4. QED
      BY <1>4, <1>6, <3>1, <3>2, <3>3
  <2>2. ASSUME NEW o \in Dying PROVE o \in Dying'
    <3>1. PICK j \in 1 .. Len(todo) : todo[j].do = "free" /\ todo[j].at = o
      BY <2>2 DEF Dying
    <3>2. j \in 2 .. Len(todo)
      BY <1>1, <3>1
    <3>3. QED
      BY <1>5, <2>2, <3>1, <3>2 DEF Dying
  <2>3. rc[val[Now.at]] = 1 => val[Now.at] \in Dying'
    BY <1>2, <1>3, <1>6 DEF Dying
  <2>4. Dying \subseteq Objs /\ Dying' \subseteq Objs
    BY DEF Dying
  <2>5. QED
    BY <2>1, <2>2, <2>3, <2>4
<1>8. ASSUME NEW o \in Objs PROVE Owed(o)' <=> Owed(o)
  <2>1. ASSUME Owed(o)' PROVE Owed(o)
    <3>1. PICK i \in 1 .. Len(todo') : todo'[i].do = "set" /\ todo'[i].obj = o
      BY <2>1 DEF Owed
    <3>2. ~(i \in 1 .. k) /\ i # 1 + k
      <4>1. i \in 1 .. k => k = 2 /\ (i = 1 \/ i = 2)
        BY <1>2
      <4>2. QED
        BY <1>6, <3>1, <4>1
    <3>3. i - k \in 1 .. Len(todo) /\ todo'[i] = todo[i - k]
      BY <1>1, <1>4, <3>1, <3>2
    <3>4. QED
      BY <3>1, <3>3 DEF Owed
  <2>2. ASSUME Owed(o) PROVE Owed(o)'
    <3>1. PICK j \in 1 .. Len(todo) : todo[j].do = "set" /\ todo[j].obj = o
      BY <2>2 DEF Owed
    <3>2. j \in 2 .. Len(todo)
      BY <1>1, <3>1
    <3>3. QED
      BY <1>5, <3>1, <3>2 DEF Owed
  <2>3. QED
    BY <2>1, <2>2
<1>9. \A j \in 2 .. Len(todo) : Uncounts(j + k)' <=> Uncounts(j)
  <2>1. SUFFICES ASSUME NEW j \in 2 .. Len(todo)
                 PROVE  Uncounts(j + k)' <=> Uncounts(j)
    OBVIOUS
  <2>2. todo'[(j + k) - 1].do = "read" <=> todo[j - 1].do = "read"
    <3>1. CASE j = 2
      <4>1. (j + k) - 1 = 1 + k /\ j - 1 = 1
        BY <1>2, <3>1
      <4>2. QED
        BY <1>1, <1>6, <4>1
    <3>2. CASE j > 2
      <4>1. j - 1 \in 2 .. Len(todo) /\ (j - 1) + k = (j + k) - 1
        BY <1>1, <1>2, <3>2
      <4>2. todo'[(j - 1) + k] = todo[j - 1]
        BY <1>5, <4>1
      <4>3. QED
        BY <4>1, <4>2
    <3>3. QED
      BY <3>1, <3>2
  <2>3. todo'[j + k] = todo[j] /\ j > 1 /\ j + k > 1
    BY <1>1, <1>2
  <2>4. QED
    BY <2>2, <2>3 DEF Uncounts
<1>10. Uncounted' = Uncounted \union {Now.at}
  <2>1. ASSUME NEW l \in Uncounted' PROVE l \in Uncounted \/ l = Now.at
    <3>1. PICK i \in 1 .. Len(todo') : Uncounts(i)' /\ todo'[i].at = l
      BY <2>1 DEF Uncounted
    <3>2. CASE i \in 1 .. k
      <4>1. k = 2 /\ (i = 1 \/ i = 2)
        BY <3>2
      <4>2. QED
        BY <1>6, <3>1, <4>1 DEF Uncounts
    <3>3. CASE i = 1 + k
      BY <1>6, <3>1, <3>3
    <3>4. CASE i - k \in 2 .. Len(todo) /\ todo'[i] = todo[i - k]
      <4>1. (i - k) + k = i /\ i - k \in 1 .. Len(todo)
        BY <1>1, <1>2, <3>4
      <4>2. Uncounts(i - k) /\ todo[i - k].at = l
        BY <1>9, <3>1, <3>4, <4>1
      <4>3. QED
        BY <2>1, <4>1, <4>2 DEF Uncounted
    <3>5. QED
      BY <1>4, <3>2, <3>3, <3>4
  <2>2. ASSUME NEW l \in Uncounted PROVE l \in Uncounted'
    <3>1. PICK j \in 1 .. Len(todo) : Uncounts(j) /\ todo[j].at = l
      BY <2>2 DEF Uncounted
    <3>2. j \in 2 .. Len(todo)
      BY <1>1, <3>1 DEF Uncounts
    <3>3. Uncounts(j + k)' /\ j + k \in 1 .. Len(todo') /\ todo'[j + k].at = l
      BY <1>5, <1>9, <3>1, <3>2
    <3>4. QED
      BY <2>2, <3>3 DEF Uncounted
  <2>3. Now.at \in Uncounted'
    <3>1. Uncounts(1 + k)'
      <4>1. k = 0 => ~(1 + k > 1)
        OBVIOUS
      <4>2. k = 2 => (1 + k) - 1 = 2
        OBVIOUS
      <4>3. QED
        BY <1>2, <1>6, <4>1, <4>2 DEF Uncounts
    <3>2. QED
      BY <1>3, <1>6, <3>1 DEF Uncounted
  <2>4. QED
    BY <2>1, <2>2, <2>3
<1>11. QED
  BY <1>7, <1>8, <1>10

(* The order of the steps survives a step that is done ...                 *)
LEMMA PopOrder ==
  ASSUME PtrShape, StepsInOrder, todo # <<>>, Then(<<>>), call' = call
  PROVE  /\ StepsInOrder'
         /\ Now.do = "return" <=> todo' = <<>>
         /\ todo' # <<>> => /\ Follows(Now, todo'[1])
                            /\ OfCall(todo'[1]) /\ todo'[1] \in Steps
                            /\ todo'[1].do # "return" => 2 \in 2 .. Len(todo)
                            /\ todo'[1] = todo[2] /\ 2 \in 1 .. Len(todo)
         /\ todo' # <<>> /\ todo'[1].do = "null" /\ Now.do # "read" =>
              todo'[1].at = call.this \/ todo'[1].at \in Dying'
<1>1. /\ Len(todo) \in Nat /\ Len(todo) >= 1 /\ Now = todo[1] /\ todo[1] \in Steps
      /\ 1 \in 1 .. Len(todo) /\ todo \in Seq(Steps)
      /\ \A i \in 1 .. Len(todo) : todo[i] \in Steps
  BY TodoIsList
<1>2. /\ Len(todo') = Len(todo) - 1 /\ todo' \in Seq(Steps)
      /\ \A i \in 1 .. Len(todo) - 1 : todo'[i] = todo[i + 1]
  BY <1>1, ThenNothing
<1>3. /\ \A i \in 1 .. Len(todo) :
           /\ todo[i].do = "return" <=> i = Len(todo)
           /\ todo[i].do = "release" => i = 1
           /\ todo[i].do = "read" => i + 2 = Len(todo)
           /\ OfCall(todo[i])
      /\ \A i \in 1 .. Len(todo) - 1 : Follows(todo[i], todo[i + 1])
      /\ \A i \in 2 .. Len(todo) - 1 :
           todo[i].do = "null" /\ todo[i - 1].do # "read" =>
             \/ todo[i].at = call.this
             \/ todo[i + 1].do = "free" /\ todo[i + 1].at = todo[i].at
      /\ \A i, j \in 1 .. Len(todo) :
           todo[i].do = "free" /\ todo[j].do = "free" /\ todo[i].at = todo[j].at => i = j
  BY DEF StepsInOrder
<1>4. \A i \in 1 .. Len(todo') : i + 1 \in 1 .. Len(todo) /\ todo'[i] = todo[i + 1]
  BY <1>1, <1>2
<1>5. ASSUME NEW i \in 1 .. Len(todo')
      PROVE  /\ todo'[i].do = "return" <=> i = Len(todo')
             /\ todo'[i].do = "release" => i = 1
             /\ todo'[i].do = "read" => i + 2 = Len(todo')
             /\ OfCall(todo'[i])
  <2>1. i \in Nat /\ i >= 1 /\ Len(todo') \in Nat
    BY <1>1, <1>2
  <2>2. i + 1 \in 1 .. Len(todo) /\ todo'[i] = todo[i + 1]
    BY <1>4
  <2>3. /\ todo'[i].do = "return" <=> i + 1 = Len(todo)
        /\ todo'[i].do = "release" => i + 1 = 1
        /\ todo'[i].do = "read" => (i + 1) + 2 = Len(todo)
        /\ OfCall(todo'[i])
    BY <1>3, <2>2
  <2>4. QED
    BY <1>1, <1>2, <2>1, <2>3
<1>6. ASSUME NEW i \in 1 .. Len(todo') - 1
      PROVE  Follows(todo'[i], todo'[i + 1])
  <2>1. /\ i + 1 \in 1 .. Len(todo) - 1 /\ i \in 1 .. Len(todo') /\ i + 1 \in 1 .. Len(todo')
    BY <1>1, <1>2
  <2>2. Follows(todo[i + 1], todo[(i + 1) + 1])
    BY <1>3, <2>1
  <2>3. QED
    BY <1>4, <2>1, <2>2
<1>7. ASSUME NEW i \in 2 .. Len(todo') - 1, todo'[i].do = "null", todo'[i - 1].do # "read"
      PROVE  \/ todo'[i].at = call.this
             \/ todo'[i + 1].do = "free" /\ todo'[i + 1].at = todo'[i].at
  <2>1. /\ i + 1 \in 2 .. Len(todo) - 1 /\ i \in 1 .. Len(todo')
        /\ i + 1 \in 1 .. Len(todo') /\ i - 1 \in 1 .. Len(todo')
        /\ (i + 1) - 1 = (i - 1) + 1
    BY <1>1, <1>2
  <2>2. /\ todo'[i] = todo[i + 1] /\ todo'[i + 1] = todo[(i + 1) + 1]
        /\ todo'[i - 1] = todo[(i + 1) - 1]
    BY <1>4, <2>1
  <2>3. QED
    BY <1>3, <1>7, <2>1, <2>2
<1>8. ASSUME NEW i \in 1 .. Len(todo'), NEW j \in 1 .. Len(todo'),
             todo'[i].do = "free", todo'[j].do = "free", todo'[i].at = todo'[j].at
      PROVE  i = j
  <2>1. i + 1 = j + 1
    BY <1>3, <1>4, <1>8
  <2>2. QED
    BY <1>1, <1>2, <2>1
<1>9. StepsInOrder'
  <2>1. /\ \A s : OfCall(s)' <=> OfCall(s)
        /\ \A s, t : Follows(s, t)' <=> Follows(s, t)
    BY DEF OfCall, Old, Follows, Rest
  <2>2. QED
    BY <1>5, <1>6, <1>7, <1>8, <2>1 DEF StepsInOrder, OfCall, Old, Follows, Rest
<1>10. Now.do = "return" <=> todo' = <<>>
  <2>1. todo' = <<>> <=> Len(todo') = 0
    BY <1>2
  <2>2. Now.do = "return" <=> 1 = Len(todo)
    BY <1>1, <1>3
  <2>3. QED
    BY <1>1, <1>2, <2>1, <2>2
<1>11. ASSUME todo' # <<>>
       PROVE  /\ Follows(Now, todo'[1])
              /\ OfCall(todo'[1]) /\ todo'[1] \in Steps
              /\ todo'[1].do # "return" => 2 \in 2 .. Len(todo)
              /\ todo'[1] = todo[2] /\ 2 \in 1 .. Len(todo)
              /\ todo'[1].do = "null" /\ Now.do # "read" =>
                   todo'[1].at = call.this \/ todo'[1].at \in Dying'
  <2>1. Len(todo') # 0
    BY <1>2, <1>11
  <2>2. /\ 1 \in 1 .. Len(todo') /\ 1 \in 1 .. Len(todo) - 1 /\ 2 \in 1 .. Len(todo)
        /\ 2 \in 2 .. Len(todo) /\ 1 + 1 = 2
    BY <1>1, <1>2, <2>1
  <2>3. todo'[1] = todo[2] /\ Follows(Now, todo'[1])
    <3>1. todo'[1] = todo[1 + 1] /\ Follows(todo[1], todo[1 + 1])
      BY <1>3, <1>4, <2>2
    <3>2. QED
      BY <1>1, <3>1
  <2>4. ASSUME todo'[1].do = "null", Now.do # "read"
        PROVE  todo'[1].at = call.this \/ todo'[1].at \in Dying'
    <3>1. 2 # Len(todo)
      BY <1>3, <2>2, <2>3, <2>4
    <3>2. 2 \in 2 .. Len(todo) - 1 /\ 2 - 1 = 1 /\ 2 + 1 = 3 /\ 3 \in 1 .. Len(todo)
      <4>1. PICK n : n = Len(todo)
        OBVIOUS
      <4>2. n \in Nat /\ 2 <= n /\ 2 # n
        BY <1>1, <2>2, <3>1, <4>1
      <4>3. QED
        BY <4>1, <4>2
    <3>3. \/ todo[2].at = call.this
          \/ todo[2 + 1].do = "free" /\ todo[2 + 1].at = todo[2].at
      <4>1. todo[2 - 1] = Now
        BY <1>1, <3>2
      <4>2. QED
        BY <1>3, <2>3, <2>4, <3>2, <4>1
    <3>4. ASSUME todo[3].do = "free", todo[3].at = todo[2].at
          PROVE  todo[2].at \in Dying'
      <4>1. todo[3].at \in Objs
        BY <1>1, <3>2, <3>4, StepKinds
      <4>2. 2 \in 1 .. Len(todo') /\ todo'[2] = todo[3]
        BY <1>1, <1>2, <1>4, <3>2
      <4>3. QED
        BY <3>4, <4>1, <4>2 DEF Dying
    <3>5. QED
      BY <2>3, <3>2, <3>3, <3>4
  <2>5. QED
    BY <1>1, <1>3, <2>2, <2>3, <2>4
<1>12. QED
  BY <1>9, <1>10, <1>11

(* ... and a destruction that is put in front.                             *)
LEMMA ReleaseOrder ==
  ASSUME PtrShape, StepsInOrder, todo # <<>>, Now.do = "release",
         val[Now.at] # NULL, Then(InternalRelease(Now.at)), call' = call,
         rc[val[Now.at]] = 1 => val[Now.at] \notin Dying
  PROVE  /\ StepsInOrder'
         /\ todo' # <<>> /\ todo'[1].do \in {"release", "null"}
         /\ todo'[1].do = "null" => todo'[1].at = Now.at
<1>1. /\ Len(todo) \in Nat /\ Len(todo) >= 1 /\ Now = todo[1] /\ todo[1] \in Steps
      /\ 1 \in 1 .. Len(todo) /\ todo \in Seq(Steps)
      /\ \A i \in 1 .. Len(todo) : todo[i] \in Steps
  BY TodoIsList
<1>2. PICK k \in {0, 2} :
        /\ k = 2 <=> rc[val[Now.at]] = 1
        /\ Len(todo') = Len(todo) + k
        /\ todo'[1 + k] = Step("null", Now.at)
        /\ k = 2 => /\ todo'[1] = Step("release", val[Now.at])
                    /\ todo'[2] = Step("free", val[Now.at])
        /\ \A i \in 2 .. Len(todo) : todo'[i + k] = todo[i]
  BY ReleaseSteps
<1>3. /\ \A i \in 1 .. Len(todo) :
           /\ todo[i].do = "return" <=> i = Len(todo)
           /\ todo[i].do = "release" => i = 1
           /\ todo[i].do = "read" => i + 2 = Len(todo)
           /\ OfCall(todo[i])
      /\ \A i \in 1 .. Len(todo) - 1 : Follows(todo[i], todo[i + 1])
      /\ \A i \in 2 .. Len(todo) - 1 :
           todo[i].do = "null" /\ todo[i - 1].do # "read" =>
             \/ todo[i].at = call.this
             \/ todo[i + 1].do = "free" /\ todo[i + 1].at = todo[i].at
      /\ \A i, j \in 1 .. Len(todo) :
           todo[i].do = "free" /\ todo[j].do = "free" /\ todo[i].at = todo[j].at => i = j
  BY DEF StepsInOrder
<1>4. \A i \in 1 .. Len(todo') :
        \/ k = 2 /\ i = 1
        \/ k = 2 /\ i = 2
        \/ i = 1 + k
        \/ i - k \in 2 .. Len(todo) /\ todo'[i] = todo[i - k]
  <2>1. SUFFICES ASSUME NEW i \in 1 .. Len(todo'), i > 1 + k
                 PROVE  i - k \in 2 .. Len(todo) /\ todo'[i] = todo[i - k]
    BY <1>1, <1>2
  <2>2. i - k \in 2 .. Len(todo) /\ (i - k) + k = i
    BY <1>1, <1>2, <2>1
  <2>3. QED
    BY <1>2, <2>2
<1>5. /\ 1 + k \in 1 .. Len(todo')
      /\ todo'[1 + k].do = "null" /\ todo'[1 + k].at = Now.at
      /\ k = 2 => /\ todo'[1].do = "release" /\ todo'[1].at = val[Now.at]
                  /\ todo'[2].do = "free" /\ todo'[2].at = val[Now.at]
  BY <1>1, <1>2 DEF Step
<1>6. Len(todo) >= 2
  BY <1>1, <1>3
<1>7. ASSUME NEW i \in 1 .. Len(todo')
      PROVE  /\ todo'[i].do = "return" <=> i = Len(todo')
             /\ todo'[i].do = "release" => i = 1
             /\ todo'[i].do = "read" => i + 2 = Len(todo')
             /\ OfCall(todo'[i])
  <2>1. CASE i = 1 + k \/ (k = 2 /\ (i = 1 \/ i = 2))
    <3>1. i # Len(todo')
      BY <1>1, <1>2, <1>6, <2>1
    <3>2. todo'[i].do \in {"null", "release", "free"}
      BY <1>5, <2>1
    <3>3. todo'[i].do = "release" => i = 1
      BY <1>5, <2>1
    <3>4. QED
      BY <3>1, <3>2, <3>3 DEF OfCall
  <2>2. CASE i - k \in 2 .. Len(todo) /\ todo'[i] = todo[i - k]
    <3>1. i - k \in 1 .. Len(todo) /\ i - k # 1 /\ i \in Nat
      BY <1>1, <2>2
    <3>2. /\ todo'[i].do = "return" <=> i - k = Len(todo)
          /\ todo'[i].do # "release"
          /\ todo'[i].do = "read" => (i - k) + 2 = Len(todo)
          /\ OfCall(todo'[i])
      BY <1>3, <2>2, <3>1
    <3>3. QED
      BY <1>1, <1>2, <3>1, <3>2
  <2>3. QED
    BY <1>4, <2>1, <2>2
<1>8. todo'[2 + k] = todo[2] /\ Follows(Now, todo'[2 + k])
  <2>1. 2 \in 2 .. Len(todo) /\ 1 \in 1 .. Len(todo) - 1 /\ 1 + 1 = 2
    BY <1>1, <1>6
  <2>2. Follows(todo[1], todo[1 + 1])
    BY <1>3, <2>1
  <2>3. QED
    BY <1>1, <1>2, <2>1, <2>2
<1>9. ASSUME NEW i \in 1 .. Len(todo') - 1
      PROVE  Follows(todo'[i], todo'[i + 1])
  <2>1. i \in 1 .. Len(todo') /\ i \in Nat
    BY <1>1, <1>2
  <2>2. CASE k = 2 /\ i = 1
    BY <1>5, <2>2 DEF Follows
  <2>3. CASE k = 2 /\ i = 2
    <3>1. i + 1 = 1 + k
      BY <2>3
    <3>2. QED
      BY <1>5, <2>3, <3>1 DEF Follows
  <2>4. CASE i = 1 + k
    <3>1. i + 1 = 2 + k
      BY <1>2, <2>4
    <3>2. Follows(Now, todo'[i + 1]) /\ todo'[i].do = "null" /\ todo'[i].at = Now.at
      BY <1>5, <1>8, <2>4, <3>1
    <3>3. QED
      BY <3>2 DEF Follows
  <2>5. CASE i - k \in 2 .. Len(todo) /\ todo'[i] = todo[i - k]
    <3>1. /\ i - k \in 1 .. Len(todo) - 1 /\ (i - k) + 1 \in 2 .. Len(todo)
          /\ ((i - k) + 1) + k = i + 1
      BY <1>1, <1>2, <2>5
    <3>2. Follows(todo[i - k], todo[(i - k) + 1])
      BY <1>3, <3>1
    <3>3. todo'[i + 1] = todo[(i - k) + 1]
      BY <1>2, <3>1
    <3>4. QED
      BY <2>5, <3>2, <3>3
  <2>6. QED
    BY <1>4, <2>1, <2>2, <2>3, <2>4, <2>5
<1>10. ASSUME NEW i \in 2 .. Len(todo') - 1, todo'[i].do = "null", todo'[i - 1].do # "read"
       PROVE  \/ todo'[i].at = call.this
              \/ todo'[i + 1].do = "free" /\ todo'[i + 1].at = todo'[i].at
  <2>1. i \in 1 .. Len(todo') /\ i \in Nat
    BY <1>1, <1>2
  <2>2. CASE k = 2 /\ i = 2
    BY <1>5, <1>10, <2>2
  <2>3. CASE i = 1 + k
    <3>1. i + 1 = 2 + k
      BY <1>2, <2>3
    <3>2. Follows(Now, todo'[i + 1]) /\ todo'[i].at = Now.at
      BY <1>5, <1>8, <2>3, <3>1
    <3>3. QED
      BY <3>2 DEF Follows
  <2>4. CASE i - k \in 2 .. Len(todo) /\ todo'[i] = todo[i - k]
    <3>1. /\ i - k \in 2 .. Len(todo) - 1 /\ (i - k) + 1 \in 2 .. Len(todo)
          /\ ((i - k) + 1) + k = i + 1
      BY <1>1, <1>2, <2>4
    <3>2. todo'[i + 1] = todo[(i - k) + 1]
      BY <1>2, <3>1
    <3>3. todo[(i - k) - 1].do # "read"
      <4>1. CASE i - k = 2
        BY <1>1, <4>1
      <4>2. CASE i - k > 2
        <5>1. (i - k) - 1 \in 2 .. Len(todo) /\ ((i - k) - 1) + k = i - 1
          BY <1>1, <1>2, <2>4, <4>2
        <5>2. QED
          BY <1>2, <1>10, <5>1
      <4>3. QED
        BY <1>1, <2>4, <4>1, <4>2
    <3>4. QED
      BY <1>3, <1>10, <2>4, <3>1, <3>2, <3>3
  <2>5. QED
    BY <1>4, <2>1, <2>2, <2>3, <2>4
<1>11. ASSUME NEW i \in 1 .. Len(todo'), NEW j \in 1 .. Len(todo'),
              todo'[i].do = "free", todo'[j].do = "free", todo'[i].at = todo'[j].at
       PROVE  i = j
  <2>1. ASSUME NEW n \in 1 .. Len(todo'), todo'[n].do = "free"
        PROVE  \/ k = 2 /\ n = 2 /\ todo'[n].at = val[Now.at]
               \/ n - k \in 2 .. Len(todo) /\ todo'[n] = todo[n - k] /\ todo'[n].at \in Dying
    <3>1. CASE n - k \in 2 .. Len(todo) /\ todo'[n] = todo[n - k]
      <4>1. n - k \in 1 .. Len(todo)
        BY <1>1, <3>1
      <4>2. todo'[n].at \in Objs
        BY <1>1, <2>1, <3>1, <4>1, StepKinds
      <4>3. QED
        BY <2>1, <3>1, <4>1, <4>2 DEF Dying
    <3>2. CASE n = 1 + k \/ (k = 2 /\ n = 1)
      BY <1>5, <2>1, <3>2
    <3>3. CASE k = 2 /\ n = 2
      BY <1>5, <3>3
    <3>4. QED
      BY <1>4, <3>1, <3>2, <3>3
  <2>2. CASE k = 2 /\ (i = 2 \/ j = 2)
    <3>1. val[Now.at] \notin Dying
      BY <1>2, <2>2
    <3>2. i = 2 /\ j = 2
      <4>1. 2 - k \notin 2 .. Len(todo)
        BY <1>1, <2>2
      <4>2. QED
        BY <1>11, <2>1, <2>2, <3>1, <4>1
    <3>3. QED
      BY <3>2
  <2>3. CASE ~(k = 2 /\ (i = 2 \/ j = 2))
    <3>1. /\ i - k \in 1 .. Len(todo) /\ todo'[i] = todo[i - k]
          /\ j - k \in 1 .. Len(todo) /\ todo'[j] = todo[j - k]
      BY <1>1, <1>11, <2>1, <2>3
    <3>2. i - k = j - k
      BY <1>3, <1>11, <3>1
    <3>3. QED
      BY <1>1, <1>2, <3>2
  <2>4. QED
    BY <2>2, <2>3
<1>12. StepsInOrder'
  <2>1. /\ \A s : OfCall(s)' <=> OfCall(s)
        /\ \A s, t : Follows(s, t)' <=> Follows(s, t)
    BY DEF OfCall, Old, Follows, Rest
  <2>2. QED
    BY <1>7, <1>9, <1>10, <1>11, <2>1 DEF StepsInOrder, OfCall, Old, Follows, Rest
<1>13. todo' # <<>>
  <2>1. todo' \in Seq(Steps)
    BY ReleaseSteps
  <2>2. QED
    BY <1>1, <1>2, <2>1
<1>14. /\ todo'[1].do \in {"release", "null"}
       /\ todo'[1].do = "null" => todo'[1].at = Now.at
  <2>1. CASE k = 0
    <3>1. 1 + k = 1
      BY <2>1
    <3>2. QED
      BY <1>5, <3>1
  <2>2. CASE k = 2
    BY <1>5, <2>2
  <2>3. QED
    BY <2>1, <2>2
<1>15. QED
  BY <1>12, <1>13, <1>14

-----------------------------------------------------------------------------
(* What the invariant says of a state.                                     *)

LEMMA LocSets ==
  /\ \A S \in SUBSET Locs : IsFiniteSet(S) /\ Cardinality(S) \in Nat
  /\ \A S \in SUBSET Locs, l \in Locs :
       /\ l \notin S => Cardinality(S \union {l}) = Cardinality(S) + 1
       /\ l \in S => Cardinality(S \ {l}) = Cardinality(S) - 1
       /\ l \in S => Cardinality(S) > 0
<1>1. IsFiniteSet(Locs)
  BY PtrAssumption, FS_Union DEF Locs
<1>2. ASSUME NEW S \in SUBSET Locs
      PROVE  IsFiniteSet(S) /\ Cardinality(S) \in Nat
  BY <1>1, FS_Subset, FS_CardinalityType
<1>3. ASSUME NEW S \in SUBSET Locs, NEW l \in Locs
      PROVE  /\ l \notin S => Cardinality(S \union {l}) = Cardinality(S) + 1
             /\ l \in S => Cardinality(S \ {l}) = Cardinality(S) - 1
             /\ l \in S => Cardinality(S) > 0
  <2>1. IsFiniteSet(S) /\ Cardinality(S) \in Nat
    BY <1>2
  <2>2. l \notin S => Cardinality(S \union {l}) = Cardinality(S) + 1
    BY <2>1, FS_AddElement
  <2>3. l \in S => Cardinality(S \ {l}) = Cardinality(S) - 1
    BY <2>1, FS_RemoveElement
  <2>4. l \in S => Cardinality(S) > 0
    <3>1. IsFiniteSet(S) => (Cardinality(S) = 0 <=> S = {})
      BY FS_EmptySet
    <3>2. QED
      BY <2>1, <3>1
  <2>5. QED
    BY <2>2, <2>3, <2>4
<1>4. QED
  BY <1>2, <1>3

LEMMA Places ==
  ASSUME PtrShape
  PROVE  /\ Storage \subseteq Locs
         /\ NULL \notin Locs
         /\ Dying \subseteq Objs
         /\ \A o : Counted(o) \subseteq Locs
BY PtrAssumption DEF PtrShape, Storage, Locs, Dying, Counted

(* A count is positive exactly if something is counted in it.              *)
LEMMA CountIsPositive ==
  ASSUME PtrShape, CountsAddUp, NEW o \in Objs
  PROVE  /\ rc[o] >= 0
         /\ rc[o] = 0 => Counted(o) = {} /\ raw[o] = 0 /\ ~Owed(o)
         /\ Counted(o) # {} => rc[o] > 0
         /\ raw[o] > 0 \/ Owed(o) => rc[o] > 0
         /\ \A l \in Counted(o) :
              raw[o] > 0 \/ Owed(o) \/ Counted(o) # {l} => rc[o] >= 2
<1>1. Counted(o) \in SUBSET Locs
  BY Places
<1>2. /\ Cardinality(Counted(o)) \in Nat
      /\ \A l \in Locs : l \in Counted(o) => Cardinality(Counted(o)) > 0
  BY <1>1, LocSets
<1>3. rc[o] = Cardinality(Counted(o)) + raw[o] + (IF Owed(o) THEN 1 ELSE 0)
  BY DEF CountsAddUp
<1>4. raw[o] \in Nat
  BY DEF PtrShape
<1>5. \A l \in Counted(o) : l \in Locs
  BY <1>1
<1>6. ASSUME NEW l \in Counted(o), raw[o] > 0 \/ Owed(o) \/ Counted(o) # {l}
      PROVE  rc[o] >= 2
  <2>1. CASE raw[o] > 0 \/ Owed(o)
    BY <1>2, <1>3, <1>4, <1>5, <2>1
  <2>2. CASE Counted(o) # {l}
    <3>1. PICK m \in Counted(o) : m # l
      BY <2>2
    <3>2. /\ Counted(o) \ {l} \in SUBSET Locs /\ m \in Counted(o) \ {l} /\ m \in Locs
      BY <1>1, <3>1
    <3>3. /\ Cardinality(Counted(o) \ {l}) = Cardinality(Counted(o)) - 1
          /\ Cardinality(Counted(o) \ {l}) > 0
          /\ Cardinality(Counted(o) \ {l}) \in Nat
      BY <1>1, <1>5, <3>2, LocSets
    <3>4. QED
      BY <1>2, <1>3, <1>4, <3>3
  <2>3. QED
    BY <1>6, <2>1, <2>2
<1>7. QED
  BY <1>2, <1>3, <1>4, <1>5, <1>6

(* What a counted pointer points to is there.                              *)
LEMMA CountedIsLive ==
  ASSUME PtrShape, CountsAddUp, LiveIsCounted, NEW l \in Storage, l \notin Uncounted
  PROVE  val[l] \in live \union {NULL}
<1>1. l \in Locs /\ val[l] \in Values
  BY Places DEF PtrShape
<1>2. ASSUME val[l] \in Objs PROVE val[l] \in live
  <2>1. l \in Counted(val[l])
    BY DEF Counted
  <2>2. rc[val[l]] > 0
    BY <1>2, <2>1, CountIsPositive
  <2>3. QED
    BY <1>2, <2>2 DEF LiveIsCounted
<1>3. QED
  BY <1>1, <1>2 DEF Values

(* While something may still be released, the pointers that are not        *)
(* counted are the one that the operation overwrites and members of what   *)
(* is dying.                                                               *)
LEMMA UncountedDies ==
  ASSUME PtrShape, StepsInOrder, Releasing
  PROVE  Uncounted \subseteq Dying \union {call.this}
<1>1. todo # <<>>
  BY DEF Releasing, PtrShape
<1>2. /\ Len(todo) \in Nat /\ Len(todo) >= 1
      /\ \A i \in 1 .. Len(todo) : todo[i] \in Steps
  BY <1>1, TodoIsList
<1>3. /\ \A i \in 1 .. Len(todo) :
           /\ todo[i].do = "return" <=> i = Len(todo)
           /\ OfCall(todo[i])
      /\ \A i \in 1 .. Len(todo) - 1 : Follows(todo[i], todo[i + 1])
      /\ \A i \in 2 .. Len(todo) - 1 :
           todo[i].do = "null" /\ todo[i - 1].do # "read" =>
             \/ todo[i].at = call.this
             \/ todo[i + 1].do = "free" /\ todo[i + 1].at = todo[i].at
  BY <1>1 DEF StepsInOrder
<1>4. SUFFICES ASSUME NEW i \in 1 .. Len(todo), Uncounts(i)
               PROVE  todo[i].at \in Dying \/ todo[i].at = call.this
  BY DEF Uncounted
<1>5. CASE todo[i].do = "add_ref"
  BY <1>3, <1>5 DEF OfCall
<1>6. CASE todo[i].do = "null"
  <2>1. i \in 1 .. Len(todo) - 1 /\ i + 1 \in 1 .. Len(todo)
    BY <1>2, <1>3, <1>6
  <2>2. ASSUME todo[i + 1].do = "free", todo[i + 1].at = todo[i].at
        PROVE  todo[i].at \in Dying
    <3>1. todo[i + 1].at \in Objs
      BY <1>2, <2>1, <2>2, StepKinds
    <3>2. QED
      BY <2>1, <2>2, <3>1 DEF Dying
  <2>3. CASE i = 1
    <3>1. Follows(todo[i], todo[i + 1])
      BY <1>3, <2>1
    <3>2. todo[i + 1].do # "return"
      <4>1. PICK j \in 1 .. Len(todo) : todo[j].do \in {"release", "free", "query"}
        BY DEF Releasing
      <4>2. j # Len(todo) /\ j # 1
        BY <1>3, <1>6, <2>3, <4>1
      <4>3. i + 1 # Len(todo)
        BY <1>2, <2>3, <4>2
      <4>4. QED
        BY <1>3, <2>1, <4>3
    <3>3. QED
      BY <1>6, <2>2, <3>1, <3>2 DEF Follows
  <2>4. CASE i > 1
    <3>1. i \in 2 .. Len(todo) - 1
      BY <1>2, <2>1, <2>4
    <3>2. QED
      BY <1>3, <1>4, <1>6, <2>2, <2>4, <3>1 DEF Uncounts
  <2>5. QED
    BY <2>3, <2>4
<1>7. QED
  BY <1>4, <1>5, <1>6 DEF Uncounts

(* A pointer that is about to be released is counted, and it is the one    *)
(* that the operation overwrites or a member of what is dying.             *)
LEMMA ReleasedIsCounted ==
  ASSUME PtrShape, StepsInOrder, ThisStays, todo # <<>>, Now.do = "release"
  PROVE  /\ Now.at \notin Uncounted
         /\ Now.at \in Dying \/ Now.at = call.this
         /\ Releasing /\ call.this \notin Dying
<1>1. /\ Len(todo) \in Nat /\ Len(todo) >= 1 /\ Now = todo[1] /\ 1 \in 1 .. Len(todo)
      /\ \A i \in 1 .. Len(todo) : todo[i] \in Steps
  BY TodoIsList
<1>2. /\ \A i \in 1 .. Len(todo) :
           /\ todo[i].do = "return" <=> i = Len(todo)
           /\ OfCall(todo[i])
      /\ \A i \in 1 .. Len(todo) - 1 : Follows(todo[i], todo[i + 1])
      /\ \A i \in 2 .. Len(todo) - 1 :
           todo[i].do = "null" /\ todo[i - 1].do # "read" =>
             \/ todo[i].at = call.this
             \/ todo[i + 1].do = "free" /\ todo[i + 1].at = todo[i].at
      /\ \A i, j \in 1 .. Len(todo) :
           todo[i].do = "free" /\ todo[j].do = "free" /\ todo[i].at = todo[j].at => i = j
  BY DEF StepsInOrder
<1>3. Releasing /\ call.this \notin Dying
  BY <1>1 DEF Releasing, ThisStays
<1>4. 1 \in 1 .. Len(todo) - 1 /\ 1 + 1 = 2 /\ 2 \in 1 .. Len(todo)
  BY <1>1, <1>2
<1>5. \/ todo[2].do = "free" /\ todo[2].at = Now.at
      \/ Now.at = call.this /\ Rest(todo[2])
  <2>1. Follows(todo[1], todo[1 + 1])
    BY <1>2, <1>4
  <2>2. QED
    BY <1>1, <1>4, <2>1 DEF Follows
<1>6. todo[2].do = "free" /\ todo[2].at = Now.at => Now.at \in Dying
  <2>1. todo[2].do = "free" => todo[2].at \in Objs
    BY <1>1, <1>4, StepKinds
  <2>2. QED
    BY <1>4, <2>1 DEF Dying
<1>7. ASSUME Now.at \in Uncounted PROVE FALSE
  <2>1. PICK j \in 1 .. Len(todo) : Uncounts(j) /\ todo[j].at = Now.at
    BY <1>7 DEF Uncounted
  <2>2. /\ j > 1 /\ todo[j - 1].do # "read" /\ todo[j].do \in {"null", "add_ref"}
    BY <1>1, <2>1 DEF Uncounts
  <2>3. j - 1 \in 1 .. Len(todo) - 1 /\ (j - 1) + 1 = j
    BY <1>1, <2>2
  <2>4. todo[j].do = "null"
    <3>1. Follows(todo[j - 1], todo[j])
      BY <1>2, <2>3
    <3>2. todo[j - 1].do \in {"release", "null", "add_ref", "leave", "free", "return",
                              "read", "set", "query"}
      <4>1. j - 1 \in 1 .. Len(todo)
        BY <1>1, <2>3
      <4>2. QED
        BY <1>1, <4>1, StepKinds
    <3>3. todo[j - 1].do # "return"
      BY <1>1, <1>2, <2>3
    <3>4. todo[j].do # "add_ref"
      BY <2>2, <3>1, <3>2, <3>3 DEF Follows, Rest
    <3>5. QED
      BY <2>2, <3>4
  <2>5. j \in 2 .. Len(todo) - 1 /\ j + 1 \in 1 .. Len(todo)
    BY <1>1, <1>2, <2>2, <2>4
  <2>6. \/ Now.at = call.this
        \/ todo[j + 1].do = "free" /\ todo[j + 1].at = Now.at
    BY <1>2, <2>1, <2>2, <2>4, <2>5
  <2>7. CASE todo[2].do = "free" /\ todo[2].at = Now.at
    <3>1. todo[j + 1].do = "free" /\ todo[j + 1].at = todo[2].at
      BY <1>3, <1>6, <2>6, <2>7
    <3>2. j + 1 = 2
      BY <1>2, <1>4, <2>5, <2>7, <3>1
    <3>3. QED
      BY <1>1, <2>2, <3>2
  <2>8. CASE Rest(todo[2])
    <3>1. todo[2].do \in {"return", "read", "set", "leave"}
      BY <2>8 DEF Rest
    <3>2. j # 2
      BY <2>4, <3>1
    <3>3. j > 2
      BY <1>1, <2>2, <3>2
    <3>4. j = 2 + 1 /\ todo[2].do = "read"
      BY <1>4, <2>4, <3>1, <3>3, RestIsShort
    <3>5. j - 1 = 2
      BY <3>4
    <3>6. QED
      BY <2>2, <3>4, <3>5
  <2>9. QED
    BY <1>5, <2>7, <2>8
<1>8. QED
  BY <1>3, <1>5, <1>6, <1>7

-----------------------------------------------------------------------------
(* What keeps a pointer in place.                                          *)

LEMMA AnchoredKept ==
  ASSUME NEW x, Anchored(x), PtrShape, call' = call, raw' = raw, Storage' = Storage,
         Dying \subseteq Dying',
         \A o \in Objs : Owed(o) => Owed(o)',
         \A l \in Storage : l \notin Dying /\ l # call.this => val'[l] = val[l]
  PROVE  Anchored(x)'
<1>1. SUFFICES ASSUME NEW S \in SUBSET Objs, x \in S, Dying' \subseteq S
               PROVE  \E o \in S : \/ raw'[o] > 0
                                    \/ Owed(o)'
                                    \/ \E l \in Storage' \ (S \union {call'.this}) : val'[l] = o
  BY DEF Anchored
<1>2. PICK o \in S : \/ raw[o] > 0
                      \/ Owed(o)
                      \/ \E l \in Storage \ (S \union {call.this}) : val[l] = o
  BY <1>1 DEF Anchored
<1>3. CASE raw[o] > 0
  BY <1>3
<1>4. CASE Owed(o)
  BY <1>4
<1>5. CASE \E l \in Storage \ (S \union {call.this}) : val[l] = o
  <2>1. PICK l \in Storage \ (S \union {call.this}) : val[l] = o
    BY <1>5
  <2>2. l \notin Dying /\ l # call.this
    BY <1>1, <2>1
  <2>3. QED
    BY <2>1, <2>2
<1>6. QED
  BY <1>2, <1>3, <1>4, <1>5

LEMMA StaysKept ==
  ASSUME PtrShape, ThisStays, SourceStays, todo # <<>>, Now.do # "return",
         call' = call, raw' = raw, scope' = scope,
         Releasing' => Releasing, SourceNeeded' => SourceNeeded,
         call.this \notin Dying',
         call.this \in Storage => call.this \in Storage',
         \A x : (Releasing' \/ SourceNeeded') /\ Anchored(x) => Anchored(x)'
  PROVE  ThisStays' /\ SourceStays'
<1>1. /\ call.this \in Storage \union {NULL}
      /\ Releasing => Anchored(call.this)
  BY DEF ThisStays, Now, PtrShape
<1>2. ThisStays'
  <2>1. Releasing' => Anchored(call.this)'
    <3>1. \A x : Releasing' /\ Anchored(x) => Anchored(x)'
      OBVIOUS
    <3>2. ASSUME Releasing' PROVE Anchored(call.this)'
      <4>1. PICK x : x = call.this
        OBVIOUS
      <4>2. Anchored(x)
        BY <1>1, <3>2, <4>1 DEF Anchored
      <4>3. Anchored(x)'
        BY <3>1, <3>2, <4>2
      <4>4. QED
        BY <4>1, <4>3 DEF Anchored
    <3>3. QED
      BY <3>2
  <2>2. QED
    BY <1>1, <2>1 DEF ThisStays
<1>3. SourceStays'
  <2>1. SUFFICES ASSUME SourceNeeded'
                 PROVE  /\ call.other \in scope \union Objs
                        /\ (call.other \in ReachableWithout(call.this, call.val))' =>
                             Anchored(call.other)'
    BY DEF SourceStays
  <2>2. (call.other \in ReachableWithout(call.this, call.val))' =>
          call.other \in ReachableWithout(call.this, call.val)
    BY DEF ReachableWithout
  <2>3. /\ call.other \in scope \union Objs
        /\ call.other \in ReachableWithout(call.this, call.val) => Anchored(call.other)
    BY <2>1 DEF SourceStays
  <2>4. ASSUME Anchored(call.other) PROVE Anchored(call.other)'
    <3>1. PICK x : x = call.other
      OBVIOUS
    <3>2. Anchored(x)
      BY <2>4, <3>1 DEF Anchored
    <3>3. Anchored(x)'
      BY <2>1, <3>2
    <3>4. QED
      BY <3>1, <3>3 DEF Anchored
  <2>5. QED
    BY <2>2, <2>3, <2>4
<1>4. QED
  BY <1>2, <1>3

LEMMA PopKinds ==
  ASSUME PtrShape, todo # <<>>, Then(<<>>)
  PROVE  \A d : /\ (\E i \in 1 .. Len(todo') : todo'[i].do = d)
                     => \E i \in 1 .. Len(todo) : todo[i].do = d
                /\ (\E i \in 1 .. Len(todo) : todo[i].do = d) /\ Now.do # d
                     => \E i \in 1 .. Len(todo') : todo'[i].do = d
<1>1. /\ Len(todo) \in Nat /\ Len(todo) >= 1 /\ Now = todo[1] /\ todo \in Seq(Steps)
  BY TodoIsList
<1>2. /\ Len(todo') = Len(todo) - 1
      /\ \A i \in 1 .. Len(todo) - 1 : todo'[i] = todo[i + 1]
  BY <1>1, ThenNothing
<1>3. /\ \A i \in 1 .. Len(todo') : i + 1 \in 1 .. Len(todo) /\ todo'[i] = todo[i + 1]
      /\ \A j \in 1 .. Len(todo) : j # 1 => j - 1 \in 1 .. Len(todo') /\ todo'[j - 1] = todo[j]
  BY <1>1, <1>2
<1>4. TAKE d
<1>5. ASSUME NEW i \in 1 .. Len(todo'), todo'[i].do = d
      PROVE  \E j \in 1 .. Len(todo) : todo[j].do = d
  BY <1>3, <1>5
<1>6. ASSUME NEW j \in 1 .. Len(todo), todo[j].do = d, Now.do # d
      PROVE  \E i \in 1 .. Len(todo') : todo'[i].do = d
  BY <1>1, <1>3, <1>6
<1>7. QED
  BY <1>5, <1>6

LEMMA ReleaseKinds ==
  ASSUME PtrShape, StepsInOrder, todo # <<>>, Now.do = "release",
         val[Now.at] # NULL, Then(InternalRelease(Now.at))
  PROVE  \A d : d \notin {"release", "free", "null"} =>
                  ((\E i \in 1 .. Len(todo') : todo'[i].do = d)
                     <=> \E i \in 1 .. Len(todo) : todo[i].do = d)
<1>1. /\ Len(todo) \in Nat /\ Len(todo) >= 1 /\ Now = todo[1]
  BY TodoIsList
<1>2. PICK k \in {0, 2} :
        /\ k = 2 <=> rc[val[Now.at]] = 1
        /\ Len(todo') = Len(todo) + k
        /\ todo'[1 + k] = Step("null", Now.at)
        /\ k = 2 => /\ todo'[1] = Step("release", val[Now.at])
                    /\ todo'[2] = Step("free", val[Now.at])
        /\ \A i \in 2 .. Len(todo) : todo'[i + k] = todo[i]
  BY ReleaseSteps
<1>3. TAKE d
<1>4. HAVE d \notin {"release", "free", "null"}
<1>5. ASSUME NEW i \in 1 .. Len(todo'), todo'[i].do = d
      PROVE  \E j \in 1 .. Len(todo) : todo[j].do = d
  <2>1. i > 1 + k
    <3>1. i # 1 + k
      BY <1>2, <1>4, <1>5 DEF Step
    <3>2. k = 2 => i # 1 /\ i # 2
      BY <1>2, <1>4, <1>5 DEF Step
    <3>3. QED
      BY <1>1, <1>2, <3>1, <3>2
  <2>2. i - k \in 2 .. Len(todo) /\ (i - k) + k = i /\ i - k \in 1 .. Len(todo)
    BY <1>1, <1>2, <2>1
  <2>3. QED
    BY <1>2, <1>5, <2>2
<1>6. ASSUME NEW j \in 1 .. Len(todo), todo[j].do = d
      PROVE  \E i \in 1 .. Len(todo') : todo'[i].do = d
  <2>1. j \in 2 .. Len(todo) /\ j + k \in 1 .. Len(todo')
    BY <1>1, <1>2, <1>4, <1>6
  <2>2. QED
    BY <1>2, <1>6, <2>1
<1>7. QED
  BY <1>5, <1>6

-----------------------------------------------------------------------------
(* The steps of an operation preserve the invariant.                       *)

LEMMA SoundStep ==
  ASSUME PtrShape, NEW do, Sound(do)
  PROVE  /\ todo # <<>> /\ Now.do = do /\ ~ub /\ Now = todo[1] /\ Now \in Steps
         /\ todo[1].do = do
         /\ do \notin {"read", "return"} => Now.at \in Storage
         /\ do = "read" => Now.at \in Storage /\ Now.from \in Storage
         /\ do \in {"release", "add_ref", "query"} => val[Now.at] \in live \union {NULL}
<1>1. todo # <<>> /\ Now.do = do /\ ~ub /\ ~Undefined
  BY DEF Sound, Doing
<1>2. Now = todo[1] /\ Now \in Steps
  BY <1>1, TodoIsList
<1>3. Touched \subseteq Storage /\ (Calls => val[Now.at] \in live \union {NULL})
  BY <1>1 DEF Undefined
<1>4. do = "read" => Touched = {Now.at, Now.from}
  BY <1>1 DEF Touched
<1>5. do \notin {"read", "return"} => Touched = {Now.at}
  BY <1>1 DEF Touched
<1>6. QED
  BY <1>1, <1>2, <1>3, <1>4, <1>5 DEF Calls

(* A release that finds nothing to release.                                *)
LEMMA EmptyRelease ==
  ASSUME PtrInv, DoRelease, val[Now.at] = NULL
  PROVE  PtrInv'
<1> USE DEF PtrInv
<1>1. /\ todo # <<>> /\ Now.do = "release" /\ ~ub /\ Now = todo[1] /\ Now \in Steps
      /\ todo[1].do = "release"
  BY SoundStep DEF DoRelease
<1>2. /\ Then(<<>>)
      /\ live' = live /\ rc' = rc /\ val' = val /\ scope' = scope /\ raw' = raw
      /\ call' = call /\ ub' = ub
  BY DEF DoRelease
<1>3. Now.at \in Locs /\ NULL \notin Objs
  BY <1>1, StepKinds, PtrAssumption
<1>4. /\ Dying' = Dying /\ Uncounted' = Uncounted
      /\ \A o \in Objs : Owed(o)' <=> Owed(o)
      /\ Storage' = Storage
  BY <1>1, <1>2, PopSets DEF Storage
<1>5. PtrShape'
  <2>1. todo' \in Seq(Steps)
    BY <1>1, <1>2, ThenNothing DEF PtrShape
  <2>2. QED
    BY <1>2, <2>1 DEF PtrShape
<1>6. CountsAddUp'
  <2>1. \A o : Counted(o)' = Counted(o)
    BY <1>2, <1>4 DEF Counted
  <2>2. QED
    BY <1>2, <1>4, <2>1 DEF CountsAddUp
<1>7. LiveIsCounted' /\ GoneIsNull'
  BY <1>2, <1>4 DEF LiveIsCounted, GoneIsNull
<1>8. /\ StepsInOrder'
      /\ todo' # <<>> => /\ Follows(Now, todo'[1])
                         /\ OfCall(todo'[1]) /\ todo'[1] \in Steps
  BY <1>1, <1>2, PopOrder
<1>9. todo' # <<>> => \/ todo'[1].do = "free" /\ todo'[1].at = Now.at
                      \/ Now.at = call.this /\ Rest(todo'[1])
  BY <1>1, <1>8 DEF Follows
<1>10. NextStepReady'
  BY <1>2, <1>8, <1>9 DEF NextStepReady, Rest, OfCall
<1>11. ThisStays' /\ SourceStays'
  <2>1. Releasing /\ call.this \notin Dying
    BY <1>1, ReleasedIsCounted
  <2>2. SourceNeeded' => SourceNeeded
    BY <1>1, <1>2, PopKinds DEF SourceNeeded
  <2>3. \A x : Anchored(x) => Anchored(x)'
    BY <1>2, <1>4, AnchoredKept
  <2>4. QED
    BY <1>1, <1>2, <1>4, <2>1, <2>2, <2>3, StaysKept
<1>12. ResultSoFar'
  <2>1. ReadAhead' <=> ReadAhead
    <3>1. Now.do # "read"
      BY <1>1
    <3>2. QED
      BY <1>1, <1>2, <3>1, PopKinds DEF ReadAhead
  <2>2. todo' # <<>> /\ Returning' => call.op = "null" /\ val[call.this] = NULL
    BY <1>9 DEF Returning, Rest
  <2>3. ~Returning
    BY <1>1 DEF Returning
  <2>4. QED
    BY <1>1, <1>2, <1>4, <2>1, <2>2, <2>3 DEF ResultSoFar, Old
<1>13. OnlyInnerSourceDangles'
  BY <1>1, <1>2 DEF OnlyInnerSourceDangles
<1>14. QED
  BY <1>5, <1>6, <1>7, <1>8, <1>10, <1>11, <1>12, <1>13

(* A release of an object, and the destruction that it sets off if nothing *)
(* else refers to it: never that of the pointer being overwritten.         *)
LEMMA CalledRelease ==
  ASSUME PtrInv, DoRelease, val[Now.at] # NULL
  PROVE  PtrInv'
<1> USE DEF PtrInv
<1>1. /\ todo # <<>> /\ Now.do = "release" /\ ~ub /\ Now = todo[1] /\ Now \in Steps
      /\ todo[1].do = "release" /\ Now.at \in Storage
  BY SoundStep DEF DoRelease
<1>2. /\ Then(InternalRelease(Now.at))
      /\ rc' = [rc EXCEPT ![val[Now.at]] = @ - 1]
      /\ live' = live /\ val' = val /\ scope' = scope /\ raw' = raw
      /\ call' = call /\ ub' = ub
  BY DEF DoRelease
<1>3. PICK o : o = val[Now.at]
  OBVIOUS
<1>4. PICK m : m = Now.at
  OBVIOUS
<1>5. o \in Objs /\ m \in Locs /\ m \in Storage /\ val[m] = o
  BY <1>1, <1>2, <1>3, <1>4, ReleaseSteps
<1>6. /\ m \notin Uncounted /\ (m \in Dying \/ m = call.this)
      /\ Releasing /\ call.this \notin Dying
  BY <1>1, <1>4, ReleasedIsCounted
<1>7. m \in Counted(o)
  BY <1>5, <1>6 DEF Counted
<1>8. rc \in [Objs -> Int] /\ rc[o] > 0
  BY <1>5, <1>7, CountIsPositive DEF PtrShape
<1>9. o \notin Dying
  BY <1>5, <1>8 DEF LiveIsCounted
<1>10. /\ Dying' = Dying \union (IF rc[o] = 1 THEN {o} ELSE {})
       /\ \A p \in Objs : Owed(p)' <=> Owed(p)
       /\ Uncounted' = Uncounted \union {m}
       /\ Storage' = Storage
  BY <1>1, <1>2, <1>3, <1>4, ReleaseSets DEF Storage
<1>11. rc' \in [Objs -> Int] /\ rc'[o] = rc[o] - 1 /\ \A p \in Objs \ {o} : rc'[p] = rc[p]
  BY <1>2, <1>3, <1>5, <1>8
<1>12. PtrShape'
  <2>1. todo' \in Seq(Steps)
    BY <1>1, <1>2, ReleaseSteps
  <2>2. QED
    BY <1>2, <1>11, <2>1 DEF PtrShape
<1>13. CountsAddUp'
  <2>1. Counted(o)' = Counted(o) \ {m}
    BY <1>2, <1>10 DEF Counted
  <2>2. \A p \in Objs \ {o} : Counted(p)' = Counted(p)
    BY <1>2, <1>5, <1>10 DEF Counted
  <2>3. Counted(o) \in SUBSET Locs
    BY Places
  <2>4. /\ Cardinality(Counted(o) \ {m}) = Cardinality(Counted(o)) - 1
        /\ Cardinality(Counted(o)) \in Nat
    BY <1>5, <1>7, <2>3, LocSets
  <2>5. raw[o] \in Nat
    BY <1>5 DEF PtrShape
  <2>6. rc'[o] = Cardinality(Counted(o)') + raw'[o] + (IF Owed(o)' THEN 1 ELSE 0)
    <3>1. rc[o] = Cardinality(Counted(o)) + raw[o] + (IF Owed(o) THEN 1 ELSE 0)
      BY <1>5 DEF CountsAddUp
    <3>2. Owed(o)' <=> Owed(o)
      BY <1>5, <1>10
    <3>3. QED
      BY <1>2, <1>11, <2>1, <2>4, <2>5, <3>1, <3>2
  <2>7. \A p \in Objs \ {o} :
          rc'[p] = Cardinality(Counted(p)') + raw'[p] + (IF Owed(p)' THEN 1 ELSE 0)
    BY <1>2, <1>10, <1>11, <2>2 DEF CountsAddUp
  <2>8. QED
    BY <2>6, <2>7 DEF CountsAddUp
<1>14. LiveIsCounted'
  <2>1. /\ o \in live' <=> rc'[o] > 0 \/ o \in Dying'
        /\ o \in Dying' => rc'[o] = 0
    <3>1. o \in live
      BY <1>5, <1>8 DEF LiveIsCounted
    <3>2. QED
      BY <1>2, <1>5, <1>8, <1>9, <1>10, <1>11, <3>1
  <2>2. ASSUME NEW p \in Objs \ {o}
        PROVE  /\ p \in live' <=> rc'[p] > 0 \/ p \in Dying'
               /\ p \in Dying' => rc'[p] = 0
    BY <1>2, <1>10, <1>11, <2>2 DEF LiveIsCounted
  <2>3. QED
    BY <2>1, <2>2 DEF LiveIsCounted
<1>15. GoneIsNull'
  BY <1>2, <1>10 DEF GoneIsNull
<1>16. /\ StepsInOrder'
       /\ todo' # <<>> /\ todo'[1].do \in {"release", "null"}
       /\ todo'[1].do = "null" => todo'[1].at = m
  BY <1>1, <1>2, <1>3, <1>4, <1>9, ReleaseOrder
<1>17. NextStepReady'
  BY <1>5, <1>10, <1>16 DEF NextStepReady
<1>18. rc[o] = 1 => o # call.this
  <2>1. SUFFICES ASSUME rc[o] = 1, o = call.this
                 PROVE  FALSE
    OBVIOUS
  <2> DEFINE S == Dying \union {o}
  <2>2. S \in SUBSET Objs /\ o \in S /\ Dying \subseteq S
    BY <1>5, Places
  <2>3. PICK p \in S : \/ raw[p] > 0
                       \/ Owed(p)
                       \/ \E l \in Storage \ (S \union {call.this}) : val[l] = p
    <3>1. Anchored(o)
      BY <1>1, <1>6, <2>1 DEF ThisStays, Anchored
    <3>2. QED
      BY <2>2, <3>1 DEF Anchored
  <2>4. p \in Objs
    BY <2>2
  <2>5. ASSUME NEW l \in Storage \ (S \union {call.this}), val[l] = p
        PROVE  l \in Counted(p)
    <3>1. l \notin Uncounted
      BY <1>6, <2>5, UncountedDies
    <3>2. QED
      BY <2>5, <3>1 DEF Counted
  <2>6. CASE p = o
    <3>1. raw[o] > 0 \/ Owed(o) \/ Counted(o) # {m}
      <4>1. ASSUME NEW l \in Storage \ (S \union {call.this}), val[l] = p
            PROVE  Counted(o) # {m}
        BY <1>6, <2>5, <2>6, <4>1
      <4>2. QED
        BY <2>3, <2>6, <4>1
    <3>2. rc[o] >= 2
      BY <1>5, <1>7, <3>1, CountIsPositive
    <3>3. QED
      BY <2>1, <3>2
  <2>7. CASE p \in Dying
    <3>1. rc[p] = 0
      BY <2>4, <2>7 DEF LiveIsCounted
    <3>2. raw[p] = 0 /\ ~Owed(p) /\ Counted(p) = {}
      BY <2>4, <3>1, CountIsPositive
    <3>3. ~\E l \in Storage \ (S \union {call.this}) : val[l] = p
      BY <2>5, <3>2
    <3>4. QED
      BY <2>3, <3>2, <3>3
  <2>8. QED
    BY <2>6, <2>7
<1>19. ThisStays' /\ SourceStays'
  <2>1. SourceNeeded' => SourceNeeded
    <3>1. /\ "read" \notin {"release", "free", "null"}
          /\ "query" \notin {"release", "free", "null"}
      OBVIOUS
    <3>2. QED
      BY <1>1, <1>2, <3>1, ReleaseKinds DEF SourceNeeded
  <2>2. \A x : Anchored(x) => Anchored(x)'
    BY <1>2, <1>10, AnchoredKept
  <2>3. call.this \notin Dying'
    BY <1>6, <1>10, <1>18
  <2>4. QED
    BY <1>1, <1>2, <1>6, <1>10, <2>1, <2>2, <2>3, StaysKept
<1>20. ResultSoFar'
  <2>1. ReadAhead' <=> ReadAhead
    <3>1. "read" \notin {"release", "free", "null"}
      OBVIOUS
    <3>2. QED
      BY <1>1, <1>2, <3>1, ReleaseKinds DEF ReadAhead
  <2>2. ~Returning /\ ~Returning'
    BY <1>1, <1>16 DEF Returning
  <2>3. Dying \subseteq Dying'
    BY <1>10
  <2>4. QED
    BY <1>1, <1>2, <1>10, <2>1, <2>2, <2>3 DEF ResultSoFar, Old
<1>21. OnlyInnerSourceDangles'
  BY <1>1, <1>2 DEF OnlyInnerSourceDangles
<1>22. QED
  BY <1>12, <1>13, <1>14, <1>15, <1>16, <1>17, <1>19, <1>20, <1>21

LEMMA NullStep ==
  ASSUME PtrInv, DoWrite, Now.do = "null"
  PROVE  PtrInv'
<1> USE DEF PtrInv
<1>1. /\ todo # <<>> /\ ~ub /\ Now = todo[1] /\ Now \in Steps
      /\ todo[1].do = "null" /\ Now.at \in Storage
  <2>1. Sound("null")
    BY DEF DoWrite, Sound, Doing
  <2>2. QED
    BY <2>1, SoundStep
<1>2. /\ Then(<<>>) /\ val' = [val EXCEPT ![Now.at] = NULL]
      /\ live' = live /\ rc' = rc /\ scope' = scope /\ raw' = raw
      /\ call' = call /\ ub' = ub
  BY DEF DoWrite
<1>3. PICK k : k = Now.at
  OBVIOUS
<1>4. k \in Locs /\ k \in Storage
  BY <1>1, <1>3, Places
<1>5. /\ val' \in [Locs -> Values] /\ val'[k] = NULL
      /\ \A l \in Locs \ {k} : val'[l] = val[l]
      /\ NULL \notin Objs
  BY <1>2, <1>3, <1>4, PtrAssumption DEF PtrShape, Values
<1>6. /\ Dying' = Dying
      /\ \A o \in Objs : Owed(o)' <=> Owed(o)
      /\ \A l \in Locs : l # k => (l \in Uncounted' <=> l \in Uncounted)
      /\ Storage' = Storage
  BY <1>1, <1>2, <1>3, PopSets DEF Storage
<1>7. PtrShape'
  <2>1. todo' \in Seq(Steps)
    BY <1>1, <1>2, ThenNothing DEF PtrShape
  <2>2. QED
    BY <1>2, <1>5, <2>1 DEF PtrShape
<1>8. k \in Uncounted
  <2>1. 1 \in 1 .. Len(todo)
    BY <1>1, TodoIsList
  <2>2. QED
    BY <1>1, <1>3, <1>4, <2>1 DEF Uncounted, Uncounts
<1>9. CountsAddUp'
  <2>1. ASSUME NEW o \in Objs PROVE Counted(o)' = Counted(o)
    <3>1. k \notin Counted(o)' /\ k \notin Counted(o)
      BY <1>5, <1>8, <2>1 DEF Counted
    <3>2. ASSUME NEW l, l # k PROVE l \in Counted(o)' <=> l \in Counted(o)
      <4>1. l \in Storage => l \in Locs
        BY Places
      <4>2. QED
        BY <1>5, <1>6, <3>2, <4>1 DEF Counted
    <3>3. QED
      BY <3>1, <3>2
  <2>2. QED
    BY <1>2, <1>6, <2>1 DEF CountsAddUp
<1>10. LiveIsCounted' /\ GoneIsNull'
  BY <1>2, <1>4, <1>5, <1>6 DEF LiveIsCounted, GoneIsNull
<1>11. /\ StepsInOrder'
       /\ todo' # <<>> /\ Follows(Now, todo'[1])
       /\ OfCall(todo'[1]) /\ todo'[1] \in Steps
  BY <1>1, <1>2, PopOrder
<1>12. todo'[1].do = "free" => k \in Dying /\ todo'[1].at = k
  <2>1. ASSUME todo'[1].do = "free" PROVE k \in Dying /\ todo'[1].at = k
    <3>1. todo'[1].at = k
      BY <1>1, <1>3, <1>11, <2>1 DEF Follows, Rest
    <3>2. todo'[1].at \in Objs /\ todo'[1] = todo[2] /\ 2 \in 1 .. Len(todo)
      BY <1>1, <1>2, <1>11, <2>1, PopOrder, StepKinds
    <3>3. QED
      BY <2>1, <3>1, <3>2 DEF Dying
  <2>2. QED
    BY <2>1
<1>13. \/ todo'[1].do = "free" /\ todo'[1].at = k /\ k \in Dying
       \/ k = call.this /\ Rest(todo'[1])
       \/ k = call.other /\ k # call.this /\ todo'[1].do = "return" /\ call.op = "move"
  BY <1>1, <1>3, <1>11, <1>12 DEF Follows
<1>14. NextStepReady'
  BY <1>5, <1>11, <1>13 DEF NextStepReady, Rest, OfCall
<1>15. ThisStays' /\ SourceStays'
  <2>1. (Releasing' => Releasing) /\ (SourceNeeded' => SourceNeeded)
    BY <1>1, <1>2, PopKinds DEF SourceNeeded, Releasing
  <2>2. ASSUME Releasing' \/ SourceNeeded'
        PROVE  k \in Dying \/ k = call.this
    <3>1. todo'[1].do # "return"
      <4>1. \E i \in 1 .. Len(todo') : todo'[i].do # "return"
        BY <2>2 DEF Releasing, SourceNeeded
      <4>2. \A i \in 1 .. Len(todo') : todo'[i].do = "return" <=> i = Len(todo')
        BY <1>11 DEF StepsInOrder
      <4>3. Len(todo') \in Nat
        BY <1>7 DEF PtrShape
      <4>4. QED
        BY <4>1, <4>2, <4>3
    <3>2. QED
      BY <1>13, <3>1
  <2>3. \A x : (Releasing' \/ SourceNeeded') /\ Anchored(x) => Anchored(x)'
    <3>1. ASSUME Releasing' \/ SourceNeeded', NEW x, Anchored(x)
          PROVE  Anchored(x)'
      <4>1. \A l \in Storage : l \notin Dying /\ l # call.this => val'[l] = val[l]
        BY <1>5, <2>2, <3>1, Places
      <4>2. QED
        BY <1>2, <1>6, <3>1, <4>1, AnchoredKept
    <3>2. QED
      BY <3>1
  <2>4. call.this \notin Dying
    BY <1>1 DEF ThisStays
  <2>5. QED
    BY <1>1, <1>2, <1>6, <2>1, <2>3, <2>4, StaysKept
<1>16. ResultSoFar'
  <2>1. ReadAhead' <=> ReadAhead
    <3>1. Now.do # "read"
      BY <1>1
    <3>2. QED
      BY <1>1, <1>2, <3>1, PopKinds DEF ReadAhead
  <2>2. ~Returning /\ Storage \subseteq Locs
    BY <1>1, Places DEF Returning
  <2>3. CASE k \in Dying /\ ~Returning'
    <3>1. k # call.this
      BY <1>1, <2>3 DEF ThisStays
    <3>2. call.this \in Locs => val'[call.this] = val[call.this]
      BY <1>5, <3>1
    <3>3. call.op \in {"copy", "move"} => call.this \in Locs
      BY DEF PtrShape
    <3>4. \A l \in (Storage' \ Dying') \ {call.this} :
            val'[l] = IF call.op = "move" /\ l = call.other /\ Returning' THEN NULL ELSE Old(l)
      BY <1>1, <1>5, <1>6, <2>2, <2>3 DEF ResultSoFar
    <3>5. QED
      BY <1>1, <1>2, <2>1, <2>3, <3>2, <3>3, <3>4 DEF ResultSoFar, Old
  <2>4. CASE k = call.this /\ Rest(todo'[1])
    <3>1. Returning' => call.op = "null"
      BY <2>4 DEF Returning, Rest
    <3>2. call.op \in {"copy", "move"} => ReadAhead'
      <4>1. 1 \in 1 .. Len(todo')
        BY <1>7, <1>11 DEF PtrShape
      <4>2. todo'[1].do # "free" /\ (call.op \in {"copy", "move"} => todo'[1].do = "read")
        BY <2>4 DEF Rest
      <4>3. QED
        BY <4>1, <4>2 DEF ReadAhead
    <3>3. \A l \in (Storage' \ Dying') \ {call.this} :
            val'[l] = IF call.op = "move" /\ l = call.other /\ Returning' THEN NULL ELSE Old(l)
      BY <1>1, <1>5, <1>6, <2>2, <2>4, <3>1 DEF ResultSoFar
    <3>4. QED
      BY <1>2, <1>5, <2>4, <3>1, <3>2, <3>3 DEF ResultSoFar, Old
  <2>5. CASE /\ k = call.other /\ k # call.this
             /\ todo'[1].do = "return" /\ call.op = "move"
    <3>1. val[call.this] = Old(call.other)
      <4>1. ~ReadAhead
        <5>1. \A i \in 1 .. Len(todo') : todo'[i].do = "return" <=> i = Len(todo')
          BY <1>11 DEF StepsInOrder
        <5>2. Len(todo') \in Nat /\ 1 \in 1 .. Len(todo')
          BY <1>7, <1>11 DEF PtrShape
        <5>3. \A i \in 1 .. Len(todo') : todo'[i].do = "return"
          BY <2>5, <5>1, <5>2
        <5>4. QED
          BY <2>1, <5>3 DEF ReadAhead
      <4>2. QED
        BY <1>1, <2>5, <4>1 DEF ResultSoFar
    <3>2. call.this \in Locs => val'[call.this] = val[call.this]
      BY <1>5, <2>5
    <3>3. call.this \in Locs
      BY <2>5 DEF PtrShape
    <3>4. \A l \in (Storage' \ Dying') \ {call.this} :
            val'[l] = IF call.op = "move" /\ l = call.other /\ Returning' THEN NULL ELSE Old(l)
      BY <1>1, <1>5, <1>6, <2>2, <2>5 DEF ResultSoFar, Returning
    <3>5. QED
      BY <1>2, <2>5, <3>1, <3>2, <3>3, <3>4 DEF ResultSoFar, Old
  <2>6. QED
    BY <1>13, <2>3, <2>4, <2>5 DEF Returning
<1>17. OnlyInnerSourceDangles'
  BY <1>1, <1>2 DEF OnlyInnerSourceDangles
<1>18. QED
  BY <1>7, <1>9, <1>10, <1>11, <1>14, <1>15, <1>16, <1>17

(* When only the return is left, nothing is open.                          *)
LEMMA OnlyReturnLeft ==
  ASSUME todo' \in Seq(Steps), StepsInOrder', todo' # <<>>, todo'[1].do = "return"
  PROVE  /\ Len(todo') = 1
         /\ Uncounted' = {} /\ Dying' = {} /\ \A o : ~Owed(o)'
         /\ ~ReadAhead'
         /\ NextStepReady' /\ ThisStays' /\ SourceStays'
<1>1. Len(todo') \in Nat /\ Len(todo') >= 1
  OBVIOUS
<1>2. \A i \in 1 .. Len(todo') : todo'[i].do = "return" <=> i = Len(todo')
  BY DEF StepsInOrder
<1>3. Len(todo') = 1 /\ \A i \in 1 .. Len(todo') : todo'[i].do = "return"
  BY <1>1, <1>2
<1>4. Uncounted' = {} /\ Dying' = {} /\ \A o : ~Owed(o)'
  BY <1>3 DEF Uncounted, Uncounts, Dying, Owed
<1>5. ~ReadAhead' /\ ~SourceNeeded'
  BY <1>3 DEF ReadAhead, SourceNeeded
<1>6. NextStepReady' /\ ThisStays' /\ SourceStays'
  BY <1>5 DEF NextStepReady, ThisStays, SourceStays
<1>7. QED
  BY <1>3, <1>4, <1>5, <1>6

LEMMA AddRefStep ==
  ASSUME PtrInv, DoAddRef
  PROVE  PtrInv'
<1> USE DEF PtrInv
<1>1. /\ todo # <<>> /\ Now.do = "add_ref" /\ ~ub /\ Now = todo[1] /\ Now \in Steps
      /\ todo[1].do = "add_ref" /\ Now.at \in Storage
      /\ val[Now.at] \in live \union {NULL}
  BY SoundStep DEF DoAddRef
<1>2. /\ Then(<<>>)
      /\ rc' = IF val[Now.at] = NULL THEN rc ELSE [rc EXCEPT ![val[Now.at]] = @ + 1]
      /\ live' = live /\ val' = val /\ scope' = scope /\ raw' = raw
      /\ call' = call /\ ub' = ub
  BY DEF DoAddRef
<1>3. Now.at \in Locs /\ Now.at = call.this /\ call.op = "copy" /\ 1 \in 1 .. Len(todo)
  BY <1>1, TodoIsList, StepKinds DEF StepsInOrder, OfCall
<1>4. /\ Dying = {} /\ Uncounted = {call.this} /\ \A o \in Objs : ~Owed(o)
  BY <1>1, <1>3, RestSets
<1>5. /\ StepsInOrder' /\ todo' # <<>> /\ todo'[1].do = "return" /\ todo' \in Seq(Steps)
  <2>1. StepsInOrder' /\ todo' # <<>> /\ Follows(Now, todo'[1])
    BY <1>1, <1>2, PopOrder
  <2>2. todo' \in Seq(Steps)
    BY <1>1, <1>2, ThenNothing DEF PtrShape
  <2>3. QED
    BY <1>1, <2>1, <2>2 DEF Follows
<1>6. /\ Uncounted' = {} /\ Dying' = {} /\ \A o : ~Owed(o)'
      /\ ~ReadAhead'
      /\ NextStepReady' /\ ThisStays' /\ SourceStays'
  BY <1>5, OnlyReturnLeft
<1>7. /\ Storage' = Storage /\ rc \in [Objs -> Int] /\ NULL \notin Objs
      /\ val[Now.at] \in Objs \union {NULL}
  BY <1>2, <1>3, PtrAssumption DEF Storage, PtrShape, Values
<1>8. /\ rc' \in [Objs -> Int]
      /\ \A o \in Objs : rc'[o] = IF val[call.this] = o THEN rc[o] + 1 ELSE rc[o]
  BY <1>2, <1>3, <1>7
<1>9. PtrShape'
  BY <1>2, <1>5, <1>8 DEF PtrShape
<1>10. CountsAddUp'
  <2>1. SUFFICES ASSUME NEW o \in Objs
                 PROVE  rc'[o] = Cardinality(Counted(o)') + raw'[o]
                                   + (IF Owed(o)' THEN 1 ELSE 0)
    BY DEF CountsAddUp
  <2>2. rc[o] = Cardinality(Counted(o)) + raw[o] + 0
    BY <1>4 DEF CountsAddUp
  <2>3. /\ call.this \notin Counted(o) /\ Counted(o) \in SUBSET Locs
        /\ Counted(o)' = IF val[call.this] = o THEN Counted(o) \union {call.this}
                                             ELSE Counted(o)
    BY <1>1, <1>2, <1>3, <1>4, <1>6, <1>7, Places DEF Counted
  <2>4. /\ Cardinality(Counted(o)) \in Nat
        /\ Cardinality(Counted(o) \union {call.this}) = Cardinality(Counted(o)) + 1
    BY <1>3, <2>3, LocSets
  <2>5. raw[o] \in Nat
    BY DEF PtrShape
  <2>6. QED
    BY <1>2, <1>6, <1>8, <2>2, <2>3, <2>4, <2>5
<1>11. LiveIsCounted'
  <2>1. SUFFICES ASSUME NEW o \in Objs
                 PROVE  o \in live <=> rc'[o] > 0
    BY <1>2, <1>6 DEF LiveIsCounted
  <2>2. o \in live <=> rc[o] > 0
    BY <1>4 DEF LiveIsCounted
  <2>3. rc[o] >= 0 /\ rc[o] \in Int
    BY <1>7, CountIsPositive
  <2>4. QED
    BY <1>1, <1>3, <1>7, <1>8, <2>2, <2>3
<1>12. GoneIsNull'
  BY <1>2, <1>7 DEF GoneIsNull
<1>13. ResultSoFar'
  <2>1. ~ReadAhead
    BY <1>1, <1>2, <1>6, PopKinds DEF ReadAhead
  <2>2. ~Returning
    BY <1>1 DEF Returning
  <2>3. QED
    BY <1>1, <1>2, <1>3, <1>4, <1>6, <1>7, <2>1, <2>2 DEF ResultSoFar, Old
<1>14. OnlyInnerSourceDangles'
  BY <1>1, <1>2 DEF OnlyInnerSourceDangles
<1>15. QED
  BY <1>5, <1>6, <1>9, <1>10, <1>11, <1>12, <1>13, <1>14

(* The pointer takes the value of its source; a move turns the reference   *)
(* of the source into its own.                                             *)
LEMMA ReadStep ==
  ASSUME PtrInv, DoWrite, Now.do = "read"
  PROVE  PtrInv'
<1> USE DEF PtrInv
<1>1. /\ todo # <<>> /\ ~ub /\ Now = todo[1] /\ Now \in Steps
      /\ todo[1].do = "read" /\ Now.at \in Storage /\ Now.from \in Storage
  <2>1. Sound("read")
    BY DEF DoWrite, Sound, Doing
  <2>2. QED
    BY <2>1, SoundStep
<1>2. /\ Then(<<>>) /\ val' = [val EXCEPT ![Now.at] = val[Now.from]]
      /\ live' = live /\ rc' = rc /\ scope' = scope /\ raw' = raw
      /\ call' = call /\ ub' = ub
  BY DEF DoWrite
<1>3. PICK l : l = call.this
  OBVIOUS
<1>4. PICK q : q = call.other
  OBVIOUS
<1>5. /\ Now.at = l /\ Now.from = q /\ l # q /\ call.op \in {"copy", "move"}
      /\ l \in Locs /\ q \in Locs /\ Len(todo) = 3
  <2>1. 1 \in 1 .. Len(todo) /\ Len(todo) \in Nat
    BY <1>1, TodoIsList
  <2>2. OfCall(todo[1]) /\ 1 + 2 = Len(todo)
    BY <1>1, <2>1 DEF StepsInOrder
  <2>3. QED
    BY <1>1, <1>3, <1>4, <2>2, StepKinds DEF OfCall
<1>6. /\ Dying = {} /\ Uncounted = {} /\ \A o \in Objs : ~Owed(o)
  BY <1>1, RestSets
<1>7. /\ Dying' = {} /\ (\A o \in Objs : ~Owed(o)') /\ Storage' = Storage
  BY <1>1, <1>2, <1>6, PopSets DEF Storage
<1>8. /\ StepsInOrder' /\ todo' # <<>> /\ OfCall(todo'[1])
      /\ \/ todo'[1].do = "add_ref" /\ call.op = "copy"
         \/ todo'[1].do = "null" /\ todo'[1].at = q /\ call.op = "move"
  <2>1. StepsInOrder' /\ todo' # <<>> /\ Follows(Now, todo'[1]) /\ OfCall(todo'[1])
    BY <1>1, <1>2, PopOrder
  <2>2. QED
    BY <1>1, <1>5, <2>1 DEF Follows
<1>9. todo' \in Seq(Steps) /\ Len(todo') = 2
  <2>1. todo' \in Seq(Steps) /\ Len(todo') = Len(todo) - 1
    BY <1>1, <1>2, ThenNothing DEF PtrShape
  <2>2. QED
    BY <1>5, <2>1
<1>10. todo'[2].do = "return"
  BY <1>8, <1>9 DEF StepsInOrder
<1>11. \A i \in 1 .. Len(todo') : i = 1 \/ i = 2
  BY <1>9
<1>12. Uncounted' = {todo'[1].at}
  <2>1. todo'[1] \in Steps /\ 1 \in 1 .. Len(todo')
    BY <1>9
  <2>2. todo'[1].at \in Locs
    BY <1>8, <2>1, StepKinds
  <2>3. \A i \in 1 .. Len(todo') : Uncounts(i)' <=> i = 1
    BY <1>8, <1>10, <1>11 DEF Uncounts
  <2>4. QED
    BY <2>1, <2>2, <2>3 DEF Uncounted
<1>13. /\ todo'[1].at = IF call.op = "copy" THEN l ELSE q
       /\ ~Releasing' /\ ~SourceNeeded' /\ ~ReadAhead' /\ ~Returning'
  BY <1>3, <1>5, <1>8, <1>10, <1>11
  DEF OfCall, Releasing, SourceNeeded, ReadAhead, Returning
<1>14. /\ val' \in [Locs -> Values] /\ val'[l] = val[q]
       /\ \A x \in Locs \ {l} : val'[x] = val[x]
       /\ NULL \notin Objs /\ val[l] = NULL
  <2>1. val[l] = NULL
    BY <1>1, <1>5 DEF NextStepReady
  <2>2. QED
    BY <1>2, <1>5, <2>1, PtrAssumption DEF PtrShape
<1>15. PtrShape'
  BY <1>2, <1>9, <1>14 DEF PtrShape
<1>16. CountsAddUp'
  <2>1. SUFFICES ASSUME NEW o \in Objs
                 PROVE  Cardinality(Counted(o)') = Cardinality(Counted(o))
    BY <1>2, <1>6, <1>7 DEF CountsAddUp
  <2>2. /\ Counted(o) \in SUBSET Locs /\ l \notin Counted(o)
        /\ Counted(o) \ {q} \in SUBSET Locs
    BY <1>14, Places DEF Counted
  <2>3. Storage \subseteq Locs
    BY Places
  <2>4. CASE call.op = "copy" \/ val[q] # o
    <3>1. Counted(o)' = Counted(o)
      BY <1>5, <1>6, <1>7, <1>12, <1>13, <1>14, <2>3, <2>4 DEF Counted
    <3>2. QED
      BY <3>1
  <2>5. CASE call.op = "move" /\ val[q] = o
    <3>1. /\ Counted(o)' = (Counted(o) \ {q}) \union {l}
          /\ q \in Counted(o)
      BY <1>1, <1>5, <1>6, <1>7, <1>12, <1>13, <1>14, <2>3, <2>5 DEF Counted
    <3>2. /\ Cardinality(Counted(o)) \in Nat
          /\ Cardinality(Counted(o) \ {q}) = Cardinality(Counted(o)) - 1
      BY <1>5, <2>2, <3>1, LocSets
    <3>3. Cardinality((Counted(o) \ {q}) \union {l}) = Cardinality(Counted(o) \ {q}) + 1
      BY <1>5, <2>2, LocSets
    <3>4. QED
      BY <3>1, <3>2, <3>3
  <2>6. QED
    BY <1>5, <2>4, <2>5
<1>17. LiveIsCounted' /\ GoneIsNull'
  BY <1>1, <1>2, <1>5, <1>6, <1>7, <1>14 DEF LiveIsCounted, GoneIsNull
<1>18. NextStepReady'
  <2>1. val[q] \in live \union {NULL}
    BY <1>1, <1>5, <1>6, CountedIsLive
  <2>2. QED
    BY <1>1, <1>2, <1>5, <1>7, <1>8, <1>13, <1>14, <2>1 DEF NextStepReady
<1>19. ThisStays' /\ SourceStays'
  BY <1>1, <1>2, <1>3, <1>5, <1>7, <1>13 DEF ThisStays, SourceStays
<1>20. ResultSoFar'
  <2>1. ~Returning /\ Storage \subseteq Locs
    BY <1>1, Places DEF Returning
  <2>2. val[q] = Old(q)
    BY <1>1, <1>3, <1>5, <1>6, <2>1 DEF ResultSoFar
  <2>3. \A x \in (Storage' \ Dying') \ {l} : val'[x] = Old(x)
    BY <1>1, <1>3, <1>6, <1>7, <1>14, <2>1 DEF ResultSoFar
  <2>4. QED
    BY <1>2, <1>3, <1>4, <1>5, <1>13, <1>14, <2>2, <2>3 DEF ResultSoFar, Old
<1>21. OnlyInnerSourceDangles'
  BY <1>1, <1>2 DEF OnlyInnerSourceDangles
<1>22. QED
  BY <1>8, <1>15, <1>16, <1>17, <1>18, <1>19, <1>20, <1>21

LEMMA SetStep ==
  ASSUME PtrInv, DoWrite, Now.do = "set"
  PROVE  PtrInv'
<1> USE DEF PtrInv
<1>1. /\ todo # <<>> /\ ~ub /\ Now = todo[1] /\ Now \in Steps
      /\ todo[1].do = "set" /\ Now.at \in Storage
  <2>1. Sound("set")
    BY DEF DoWrite, Sound, Doing
  <2>2. QED
    BY <2>1, SoundStep
<1>2. /\ Then(<<>>) /\ val' = [val EXCEPT ![Now.at] = Now.obj]
      /\ live' = live /\ rc' = rc /\ scope' = scope /\ raw' = raw
      /\ call' = call /\ ub' = ub
  BY DEF DoWrite
<1>3. PICK l : l = call.this
  OBVIOUS
<1>4. PICK p : p = Now.obj
  OBVIOUS
<1>5. /\ Now.at = l /\ l \in Locs /\ p \in Values /\ OfCall(Now)
  <2>1. 1 \in 1 .. Len(todo)
    BY <1>1, TodoIsList
  <2>2. OfCall(Now)
    BY <1>1, <2>1 DEF StepsInOrder
  <2>3. QED
    BY <1>1, <1>3, <1>4, <2>2, StepKinds DEF OfCall
<1>6. /\ Dying = {} /\ Uncounted = {} /\ \A o \in Objs : Owed(o) <=> p = o
  BY <1>1, <1>4, RestSets
<1>7. /\ Dying' = {} /\ Uncounted' = {} /\ (\A o \in Objs : ~Owed(o)')
      /\ Storage' = Storage
  BY <1>1, <1>2, <1>6, PopSets DEF Storage
<1>8. /\ StepsInOrder' /\ todo' # <<>> /\ OfCall(todo'[1]) /\ todo' \in Seq(Steps)
      /\ todo'[1].do = "return" \/ (todo'[1].do = "query" /\ p = NULL)
  <2>1. StepsInOrder' /\ todo' # <<>> /\ Follows(Now, todo'[1]) /\ OfCall(todo'[1])
    BY <1>1, <1>2, PopOrder
  <2>2. todo' \in Seq(Steps)
    BY <1>1, <1>2, ThenNothing DEF PtrShape
  <2>3. QED
    BY <1>1, <1>4, <2>1, <2>2 DEF Follows
<1>9. /\ val' \in [Locs -> Values] /\ val'[l] = p
      /\ \A x \in Locs \ {l} : val'[x] = val[x]
      /\ NULL \notin Objs /\ val[l] = NULL
  <2>1. val[l] = NULL
    BY <1>1, <1>5 DEF NextStepReady
  <2>2. QED
    BY <1>2, <1>4, <1>5, <2>1, PtrAssumption DEF PtrShape
<1>10. PtrShape'
  BY <1>2, <1>8, <1>9 DEF PtrShape
<1>11. CountsAddUp'
  <2>1. SUFFICES ASSUME NEW o \in Objs
                 PROVE  Cardinality(Counted(o)')
                          = Cardinality(Counted(o)) + (IF p = o THEN 1 ELSE 0)
    <3>1. \A o \in Objs : Cardinality(Counted(o)) \in Nat /\ raw[o] \in Nat
      BY Places, LocSets DEF PtrShape
    <3>2. QED
      BY <1>2, <1>6, <1>7, <2>1, <3>1 DEF CountsAddUp
  <2>2. Counted(o) \in SUBSET Locs /\ l \notin Counted(o) /\ Storage \subseteq Locs
    BY <1>9, Places DEF Counted
  <2>3. CASE p # o
    <3>1. Counted(o)' = Counted(o)
      BY <1>6, <1>7, <1>9, <2>2, <2>3 DEF Counted
    <3>2. Cardinality(Counted(o)) \in Nat
      BY <2>2, LocSets
    <3>3. QED
      BY <2>3, <3>1, <3>2
  <2>4. CASE p = o
    <3>1. Counted(o)' = Counted(o) \union {l}
      BY <1>1, <1>5, <1>6, <1>7, <1>9, <2>2, <2>4 DEF Counted
    <3>2. QED
      BY <1>5, <2>2, <2>4, <3>1, LocSets
  <2>5. QED
    BY <2>3, <2>4
<1>12. LiveIsCounted' /\ GoneIsNull'
  BY <1>1, <1>2, <1>5, <1>6, <1>7, <1>9 DEF LiveIsCounted, GoneIsNull
<1>13. ASSUME todo'[1].do = "return"
       PROVE  NextStepReady' /\ ThisStays' /\ SourceStays'
  BY <1>8, <1>13, OnlyReturnLeft
<1>14. ASSUME todo'[1].do = "query", p = NULL
       PROVE  NextStepReady' /\ ThisStays' /\ SourceStays'
  <2>1. NextStepReady'
    BY <1>2, <1>3, <1>8, <1>9, <1>14 DEF NextStepReady, OfCall
  <2>2. (Releasing' => Releasing) /\ (SourceNeeded' => SourceNeeded)
    BY <1>1, <1>2, PopKinds DEF SourceNeeded, Releasing
  <2>3. val' = val
    BY <1>2, <1>4, <1>5, <1>9, <1>14 DEF PtrShape
  <2>4. \A x : Anchored(x) => Anchored(x)'
    <3>1. \A o \in Objs : ~Owed(o)
      BY <1>6, <1>9, <1>14
    <3>2. QED
      BY <1>2, <1>6, <1>7, <2>3, <3>1, AnchoredKept
  <2>5. QED
    BY <1>1, <1>2, <1>7, <2>1, <2>2, <2>4, StaysKept
<1>15. ResultSoFar'
  <2>1. /\ \/ call.op = "attach" /\ p = call.other
           \/ call.op = "as" /\ p = NULL
           \/ call.op = "as" /\ p = Old(call.other) /\ call.this # call.other
    BY <1>1, <1>4, <1>5 DEF OfCall
  <2>2. \A x \in (Storage' \ Dying') \ {l} : val'[x] = Old(x)
    <3>1. Storage \subseteq Locs
      BY Places
    <3>2. QED
      BY <1>1, <1>3, <1>6, <1>7, <1>9, <2>1, <3>1 DEF ResultSoFar
  <2>3. QED
    BY <1>2, <1>3, <1>9, <2>1, <2>2 DEF ResultSoFar, Old
<1>16. OnlyInnerSourceDangles'
  BY <1>1, <1>2 DEF OnlyInnerSourceDangles
<1>17. QED
  BY <1>8, <1>10, <1>11, <1>12, <1>13, <1>14, <1>15, <1>16

LEMMA LeaveStep ==
  ASSUME PtrInv, DoLeave
  PROVE  PtrInv'
<1> USE DEF PtrInv
<1>1. /\ todo # <<>> /\ Now.do = "leave" /\ ~ub /\ Now = todo[1] /\ Now \in Steps
      /\ todo[1].do = "leave" /\ Now.at \in Storage
  BY SoundStep DEF DoLeave
<1>2. /\ Then(<<>>) /\ scope' = scope \ {Now.at}
      /\ live' = live /\ rc' = rc /\ val' = val /\ raw' = raw
      /\ call' = call /\ ub' = ub
  BY DEF DoLeave
<1>3. /\ Now.at = call.this /\ call.op = "destruct" /\ val[Now.at] = NULL
      /\ Now.at \in Locs /\ NULL \notin Objs
  <2>1. 1 \in 1 .. Len(todo)
    BY <1>1, TodoIsList
  <2>2. OfCall(Now)
    BY <1>1, <2>1 DEF StepsInOrder
  <2>3. QED
    BY <1>1, <2>2, StepKinds, PtrAssumption DEF OfCall, NextStepReady
<1>4. Dying = {} /\ Uncounted = {} /\ \A o \in Objs : ~Owed(o)
  BY <1>1, RestSets
<1>5. /\ StepsInOrder' /\ todo' # <<>> /\ todo'[1].do = "return" /\ todo' \in Seq(Steps)
  <2>1. StepsInOrder' /\ todo' # <<>> /\ Follows(Now, todo'[1])
    BY <1>1, <1>2, PopOrder
  <2>2. todo' \in Seq(Steps)
    BY <1>1, <1>2, ThenNothing DEF PtrShape
  <2>3. QED
    BY <1>1, <2>1, <2>2 DEF Follows
<1>6. /\ Uncounted' = {} /\ Dying' = {} /\ \A o : ~Owed(o)'
      /\ NextStepReady' /\ ThisStays' /\ SourceStays'
  BY <1>5, OnlyReturnLeft
<1>7. /\ Storage' \subseteq Storage /\ Storage \subseteq Storage' \union {Now.at}
  BY <1>2 DEF Storage
<1>8. PtrShape'
  BY <1>2, <1>5 DEF PtrShape
<1>9. CountsAddUp'
  <2>1. \A o \in Objs : Counted(o)' = Counted(o)
    BY <1>2, <1>3, <1>4, <1>6, <1>7 DEF Counted
  <2>2. QED
    BY <1>2, <1>4, <1>6, <2>1 DEF CountsAddUp
<1>10. LiveIsCounted' /\ GoneIsNull'
  BY <1>2, <1>3, <1>4, <1>6, <1>7 DEF LiveIsCounted, GoneIsNull
<1>11. ResultSoFar'
  BY <1>1, <1>2, <1>3, <1>4, <1>6, <1>7 DEF ResultSoFar, Old
<1>12. OnlyInnerSourceDangles'
  BY <1>1, <1>2 DEF OnlyInnerSourceDangles
<1>13. QED
  BY <1>5, <1>6, <1>8, <1>9, <1>10, <1>11, <1>12

LEMMA ReturnStep ==
  ASSUME PtrInv, DoReturn
  PROVE  PtrInv'
<1> USE DEF PtrInv
<1>1. /\ todo # <<>> /\ Now.do = "return" /\ ~ub
  BY SoundStep DEF DoReturn
<1>2. /\ todo' = <<>> /\ call' = NoCall
      /\ live' = live /\ rc' = rc /\ val' = val /\ scope' = scope /\ raw' = raw /\ ub' = ub
  BY DEF DoReturn
<1>3. Dying = {} /\ Uncounted = {} /\ \A o \in Objs : ~Owed(o)
  BY <1>1, RestSets
<1>4. todo' \in Seq(Steps) /\ Len(todo') = 0
  BY <1>2
<1>5. /\ Dying' = {} /\ Uncounted' = {} /\ (\A o \in Objs : ~Owed(o)')
      /\ ~SourceNeeded' /\ Storage' = Storage
  BY <1>2, <1>4 DEF Dying, Uncounted, Owed, SourceNeeded, Storage
<1>6. PtrShape'
  <2>1. call' \in [op : CallNames, this : Locs \union {NULL}, other : Locs \union {NULL},
                   val : [Locs -> Values]]
    BY <1>2 DEF NoCall, CallNames, Values
  <2>2. call'.this = NULL /\ call'.op = "none"
    BY <1>2 DEF NoCall
  <2>3. QED
    BY <1>2, <1>4, <2>1, <2>2 DEF PtrShape
<1>7. CountsAddUp'
  <2>1. \A o : Counted(o)' = Counted(o)
    BY <1>2, <1>3, <1>5 DEF Counted
  <2>2. QED
    BY <1>2, <1>3, <1>5, <2>1 DEF CountsAddUp
<1>8. LiveIsCounted' /\ GoneIsNull'
  BY <1>2, <1>3, <1>5 DEF LiveIsCounted, GoneIsNull
<1>9. StepsInOrder' /\ NextStepReady' /\ ThisStays' /\ SourceStays' /\ ResultSoFar'
  BY <1>2, <1>5 DEF StepsInOrder, NextStepReady, ThisStays, SourceStays, ResultSoFar
<1>10. OnlyInnerSourceDangles'
  BY <1>1, <1>2 DEF OnlyInnerSourceDangles
<1>11. QED
  BY <1>6, <1>7, <1>8, <1>9, <1>10

(* The memory of an object goes: its member is empty and nothing that is   *)
(* still to be used was kept in place by it.                               *)
LEMMA FreeStep ==
  ASSUME PtrInv, DoFree
  PROVE  PtrInv'
<1> USE DEF PtrInv
<1>1. /\ todo # <<>> /\ Now.do = "free" /\ ~ub /\ Now = todo[1] /\ Now \in Steps
      /\ todo[1].do = "free" /\ Now.at \in Storage
  BY SoundStep DEF DoFree
<1>2. /\ Then(<<>>) /\ live' = live \ {Now.at}
      /\ scope' = scope /\ rc' = rc /\ val' = val /\ raw' = raw
      /\ call' = call /\ ub' = ub
  BY DEF DoFree
<1>3. PICK o : o = Now.at
  OBVIOUS
<1>4. /\ o \in Objs /\ o \in Locs /\ val[o] = NULL /\ NULL \notin Objs /\ o \notin scope
  BY <1>1, <1>3, StepKinds, PtrAssumption DEF NextStepReady, PtrShape
<1>5. o \in Dying /\ rc[o] = 0 /\ Releasing /\ call.this \notin Dying
  <2>1. 1 \in 1 .. Len(todo)
    BY <1>1, TodoIsList
  <2>2. o \in Dying
    BY <1>1, <1>3, <1>4, <2>1 DEF Dying
  <2>3. QED
    BY <1>1, <1>4, <2>1, <2>2 DEF LiveIsCounted, Releasing, ThisStays
<1>6. /\ Dying' = Dying \ {o} /\ Uncounted' = Uncounted
      /\ \A p \in Objs : Owed(p)' <=> Owed(p)
      /\ Storage' = Storage \ {o}
  <2>1. Storage' = Storage \ {o}
    BY <1>2, <1>3, <1>4 DEF Storage
  <2>2. QED
    BY <1>1, <1>2, <1>3, <2>1, PopSets
<1>7. /\ StepsInOrder' /\ todo' # <<>> /\ todo' \in Seq(Steps)
      /\ \/ todo'[1].do = "null" /\ (todo'[1].at = call.this \/ todo'[1].at \in Dying')
         \/ todo'[1].do = "return" /\ call.op = "c_release"
  <2>1. /\ StepsInOrder' /\ todo' # <<>> /\ Follows(Now, todo'[1])
        /\ todo'[1].do = "null" => todo'[1].at = call.this \/ todo'[1].at \in Dying'
    BY <1>1, <1>2, PopOrder
  <2>2. todo' \in Seq(Steps)
    BY <1>1, <1>2, ThenNothing DEF PtrShape
  <2>3. QED
    BY <1>1, <2>1, <2>2 DEF Follows
<1>8. PtrShape'
  BY <1>2, <1>7 DEF PtrShape
<1>9. CountsAddUp'
  <2>1. \A p \in Objs : Counted(p)' = Counted(p)
    BY <1>2, <1>4, <1>6 DEF Counted
  <2>2. QED
    BY <1>2, <1>6, <2>1 DEF CountsAddUp
<1>10. LiveIsCounted'
  BY <1>2, <1>3, <1>5, <1>6 DEF LiveIsCounted
<1>11. GoneIsNull'
  BY <1>2, <1>4, <1>6 DEF GoneIsNull
<1>12. call.this \in Storage \union {NULL} /\ call.this # o
  BY <1>1, <1>5 DEF ThisStays
<1>13. NextStepReady'
  <2>1. ASSUME todo'[1].do = "null" PROVE todo'[1].at \in Storage'
    <3>1. CASE todo'[1].at \in Dying'
      BY <1>6, <3>1 DEF LiveIsCounted, Storage, Dying
    <3>2. CASE todo'[1].at = call.this
      <4>1. todo'[1] \in Steps
        BY <1>7
      <4>2. call.this \in Locs
        BY <2>1, <3>2, <4>1, StepKinds
      <4>3. QED
        BY <1>6, <1>12, <3>2, <4>2, Places
    <3>3. QED
      BY <1>7, <2>1, <3>1, <3>2
  <2>2. QED
    BY <1>7, <2>1 DEF NextStepReady
<1>14. \A x : Anchored(x) => Anchored(x)'
  <2>1. SUFFICES ASSUME NEW x, Anchored(x),
                        NEW S \in SUBSET Objs, x \in S, Dying' \subseteq S
                 PROVE  \E p \in S : \/ raw'[p] > 0
                                      \/ Owed(p)'
                                      \/ \E l \in Storage' \ (S \union {call'.this}) :
                                           val'[l] = p
    BY DEF Anchored
  <2> DEFINE T == S \union {o}
  <2>2. T \in SUBSET Objs /\ x \in T /\ Dying \subseteq T
    BY <1>4, <1>6, <2>1
  <2>3. PICK p \in T : \/ raw[p] > 0
                       \/ Owed(p)
                       \/ \E l \in Storage \ (T \union {call.this}) : val[l] = p
    BY <2>1, <2>2 DEF Anchored
  <2>4. p # o
    <3>1. raw[o] = 0 /\ ~Owed(o) /\ Counted(o) = {}
      BY <1>4, <1>5, CountIsPositive
    <3>2. ASSUME NEW l \in Storage \ (T \union {call.this}) PROVE val[l] # o
      <4>1. l \notin Uncounted
        BY <1>5, <2>2, <3>2, UncountedDies
      <4>2. QED
        BY <3>1, <3>2, <4>1 DEF Counted
    <3>3. QED
      BY <2>3, <3>1, <3>2
  <2>5. p \in S /\ p \in Objs
    BY <2>2, <2>4
  <2>6. CASE raw[p] > 0
    BY <1>2, <2>5, <2>6
  <2>7. CASE Owed(p)
    BY <1>6, <2>5, <2>7
  <2>8. CASE \E l \in Storage \ (T \union {call.this}) : val[l] = p
    BY <1>2, <1>6, <2>5, <2>8
  <2>9. QED
    BY <2>3, <2>6, <2>7, <2>8
<1>15. ThisStays' /\ SourceStays'
  <2>1. (Releasing' => Releasing) /\ (SourceNeeded' => SourceNeeded)
    BY <1>1, <1>2, PopKinds DEF SourceNeeded, Releasing
  <2>2. call.this \notin Dying' /\ (call.this \in Storage => call.this \in Storage')
    BY <1>5, <1>6, <1>12
  <2>3. QED
    BY <1>1, <1>2, <1>14, <2>1, <2>2, StaysKept
<1>16. ResultSoFar'
  <2>1. ReadAhead' <=> ReadAhead
    <3>1. Now.do # "read"
      BY <1>1
    <3>2. QED
      BY <1>1, <1>2, <3>1, PopKinds DEF ReadAhead
  <2>2. ~Returning /\ (Returning' => call.op = "c_release")
    BY <1>1, <1>7 DEF Returning
  <2>3. Storage' \ Dying' = Storage \ Dying
    BY <1>5, <1>6
  <2>4. QED
    BY <1>1, <1>2, <2>1, <2>2, <2>3 DEF ResultSoFar, Old
<1>17. OnlyInnerSourceDangles'
  BY <1>1, <1>2 DEF OnlyInnerSourceDangles
<1>18. QED
  BY <1>7, <1>8, <1>9, <1>10, <1>11, <1>13, <1>15, <1>16, <1>17

(* query_interface: what it returns is counted before out takes it over.   *)
LEMMA QueryStep ==
  ASSUME PtrInv, DoQuery
  PROVE  PtrInv'
<1> USE DEF PtrInv
<1>1. /\ todo # <<>> /\ Now.do = "query" /\ ~ub /\ Now = todo[1] /\ Now \in Steps
      /\ todo[1].do = "query" /\ Now.at \in Storage
      /\ val[Now.at] \in live \union {NULL}
  BY SoundStep DEF DoQuery
<1>2. /\ live' = live /\ val' = val /\ scope' = scope /\ raw' = raw
      /\ call' = call /\ ub' = ub
  BY DEF DoQuery
<1>3. PICK l : l = call.this
  OBVIOUS
<1>4. PICK q : q = call.other
  OBVIOUS
<1>5. /\ Now.at = q /\ Now.out = l /\ call.op = "as" /\ val[l] = NULL
      /\ l \in Locs /\ q \in Locs /\ NULL \notin Objs /\ NULL \notin Locs
      /\ 1 \in 1 .. Len(todo) /\ Len(todo) \in Nat
  <2>1. 1 \in 1 .. Len(todo) /\ Len(todo) \in Nat
    BY <1>1, TodoIsList
  <2>2. OfCall(Now)
    BY <1>1, <2>1 DEF StepsInOrder
  <2>3. QED
    BY <1>1, <1>3, <1>4, <2>1, <2>2, StepKinds, PtrAssumption, Places
    DEF OfCall, NextStepReady
<1>6. Dying = {} /\ Uncounted = {} /\ \A o \in Objs : ~Owed(o)
  BY <1>1, RestSets
<1>7. Storage' = Storage
  BY <1>2 DEF Storage
<1>8. Len(todo) = 2
  <2>1. Len(todo) \in Nat /\ Len(todo) >= 1 /\ 1 # Len(todo)
    <3>1. Len(todo) \in Nat /\ Len(todo) >= 1
      BY <1>5
    <3>2. QED
      BY <1>1, <1>5, <3>1 DEF StepsInOrder
  <2>2. 1 \in 1 .. Len(todo) - 1 /\ 1 + 1 = 2 /\ 2 \in 1 .. Len(todo)
    <3>1. \A n \in Nat : n >= 1 /\ 1 # n => 1 \in 1 .. n - 1 /\ 1 + 1 = 2 /\ 2 \in 1 .. n
      OBVIOUS
    <3>2. QED
      BY <2>1, <3>1
  <2>3. Follows(todo[1], todo[1 + 1])
    BY <1>1, <2>2 DEF StepsInOrder
  <2>4. todo[2].do = "return"
    BY <1>1, <2>2, <2>3 DEF Follows
  <2>5. QED
    BY <1>1, <2>2, <2>4 DEF StepsInOrder
<1>9. GoneIsNull'
  BY <1>2, <1>7 DEF GoneIsNull
<1>10. OnlyInnerSourceDangles'
  BY <1>1, <1>2 DEF OnlyInnerSourceDangles
<1>11. ASSUME Then(<<>>), rc' = rc PROVE PtrInv'
  <2>1. /\ StepsInOrder' /\ todo' # <<>> /\ todo'[1].do = "return" /\ todo' \in Seq(Steps)
    <3>1. StepsInOrder' /\ todo' # <<>> /\ Follows(Now, todo'[1])
      BY <1>1, <1>2, <1>11, PopOrder
    <3>2. todo' \in Seq(Steps)
      BY <1>1, <1>11, ThenNothing DEF PtrShape
    <3>3. QED
      BY <1>1, <3>1, <3>2 DEF Follows
  <2>2. /\ Uncounted' = {} /\ Dying' = {} /\ \A o : ~Owed(o)'
        /\ NextStepReady' /\ ThisStays' /\ SourceStays'
    BY <2>1, OnlyReturnLeft
  <2>3. PtrShape'
    BY <1>2, <1>11, <2>1 DEF PtrShape
  <2>4. CountsAddUp'
    <3>1. \A o : Counted(o)' = Counted(o)
      BY <1>2, <1>6, <1>7, <2>2 DEF Counted
    <3>2. QED
      BY <1>2, <1>6, <1>11, <2>2, <3>1 DEF CountsAddUp
  <2>5. LiveIsCounted'
    BY <1>2, <1>6, <1>11, <2>2 DEF LiveIsCounted
  <2>6. ResultSoFar'
    BY <1>1, <1>2, <1>3, <1>5, <1>6, <1>7, <2>2 DEF ResultSoFar, Old
  <2>7. QED
    BY <1>9, <1>10, <2>1, <2>2, <2>3, <2>4, <2>5, <2>6
<1>12. ASSUME val[q] # NULL,
              rc' = [rc EXCEPT ![val[q]] = @ + 1],
              Then(Attach(l, val[q]))
       PROVE  PtrInv'
  <2>1. PICK o : o = val[q]
    OBVIOUS
  <2>2. o \in Objs /\ o \in live /\ l # q
    BY <1>1, <1>5, <1>12, <2>1 DEF PtrShape
  <2>3. /\ Attach(l, o) \in Seq(Steps) /\ Len(Attach(l, o)) = 2
        /\ Attach(l, o)[1] = Step("release", l) /\ Attach(l, o)[2] = Put(l, o)
    BY <1>5, <2>2, StepsMade DEF Attach, Values
  <2>4. Then(Attach(l, o)) /\ todo \in Seq(Steps)
    BY <1>12, <2>1 DEF PtrShape
  <2>5. /\ todo' \in Seq(Steps) /\ Len(todo') = Len(Attach(l, o)) + Len(todo) - 1
        /\ \A i \in 1 .. Len(todo') :
             todo'[i] = IF i <= Len(Attach(l, o)) THEN Attach(l, o)[i]
                        ELSE todo[i - Len(Attach(l, o)) + 1]
    BY <1>1, <2>3, <2>4, ThenSteps
  <2>6. /\ todo' \in Seq(Steps) /\ Len(todo') = 3
        /\ todo'[1] = Step("release", l) /\ todo'[2] = Put(l, o) /\ todo'[3] = todo[2]
    BY <1>8, <2>3, <2>5
  <2>7. /\ todo' # <<>>
        /\ todo'[1].do = "release" /\ todo'[1].at = l
        /\ todo'[2].do = "set" /\ todo'[2].at = l /\ todo'[2].obj = o
        /\ todo'[3].do = "return"
    <3>1. todo[2].do = "return"
      <4>1. 2 \in 1 .. Len(todo)
        BY <1>8
      <4>2. QED
        BY <1>1, <1>8, <4>1 DEF StepsInOrder
    <3>2. todo' # <<>>
      <4>1. Len(todo') # 0
        BY <2>6
      <4>2. QED
        BY <4>1
    <3>3. /\ Step("release", l).do = "release" /\ Step("release", l).at = l
          /\ Put(l, o).do = "set" /\ Put(l, o).at = l /\ Put(l, o).obj = o
      BY DEF Step, Put
    <3>4. QED
      BY <2>6, <3>1, <3>2, <3>3
  <2>8. \A i \in 1 .. Len(todo') : i = 1 \/ i = 2 \/ i = 3
    BY <2>6
  <2>9. /\ Dying' = {} /\ Uncounted' = {} /\ \A p \in Objs : Owed(p)' <=> p = o
    <3>1. 2 \in 1 .. Len(todo')
      BY <2>6
    <3>2. QED
      BY <2>7, <2>8, <3>1 DEF Dying, Uncounted, Uncounts, Owed
  <2>10. ~SourceNeeded' /\ ~ReadAhead' /\ ~Returning'
    BY <2>7, <2>8 DEF SourceNeeded, ReadAhead, Returning
  <2>11. /\ rc' \in [Objs -> Int]
         /\ \A p \in Objs : rc'[p] = IF p = o THEN rc[p] + 1 ELSE rc[p]
    BY <1>12, <2>1, <2>2 DEF PtrShape
  <2>12. PtrShape'
    BY <1>2, <2>6, <2>11 DEF PtrShape
  <2>13. CountsAddUp'
    <3>1. \A p \in Objs : /\ Counted(p)' = Counted(p)
                          /\ Cardinality(Counted(p)) \in Nat /\ raw[p] \in Nat
      BY <1>2, <1>6, <1>7, <2>9, Places, LocSets DEF Counted, PtrShape
    <3>2. QED
      BY <1>2, <1>6, <2>9, <2>11, <3>1 DEF CountsAddUp
  <2>14. LiveIsCounted'
    <3>1. rc[o] > 0 /\ rc[o] \in Int
      BY <1>6, <2>2 DEF LiveIsCounted, PtrShape
    <3>2. QED
      BY <1>2, <1>6, <2>2, <2>9, <2>11, <3>1 DEF LiveIsCounted
  <2>15. val[q] = Old(q)
    <3>1. ~Returning
      BY <1>1 DEF Returning
    <3>2. QED
      BY <1>1, <1>3, <1>5, <1>6, <2>2, <3>1 DEF ResultSoFar
  <2>16. StepsInOrder'
    <3>1. \A i \in 1 .. Len(todo') :
            /\ todo'[i].do = "return" <=> i = Len(todo')
            /\ todo'[i].do = "release" => i = 1
            /\ todo'[i].do # "read" /\ todo'[i].do # "null" /\ todo'[i].do # "free"
      BY <2>6, <2>7, <2>8
    <3>2. \A i \in 1 .. Len(todo') : OfCall(todo'[i])
      <4>1. OfCall(todo'[1]) /\ OfCall(todo'[3])
        BY <2>7 DEF OfCall
      <4>2. OfCall(todo'[2])
        BY <1>3, <1>4, <1>5, <2>1, <2>2, <2>7, <2>15 DEF OfCall, Old
      <4>3. QED
        BY <2>8, <4>1, <4>2
    <3>3. \A i \in 1 .. Len(todo') - 1 : Follows(todo'[i], todo'[i + 1])
      <4>1. \A i \in 1 .. Len(todo') - 1 : i = 1 \/ i = 2
        BY <2>6
      <4>2. 1 + 1 = 2 /\ 2 + 1 = 3
        OBVIOUS
      <4>3. Follows(todo'[1], todo'[2]) /\ Follows(todo'[2], todo'[3])
        BY <1>3, <1>5, <2>7 DEF Follows, Rest
      <4>4. QED
        BY <4>1, <4>2, <4>3
    <3>4. \A i \in 2 .. Len(todo') - 1 : i \in 1 .. Len(todo')
      BY <2>6
    <3>5. /\ \A s : OfCall(s)' <=> OfCall(s)
          /\ \A s, t : Follows(s, t)' <=> Follows(s, t)
      BY <1>2 DEF OfCall, Old, Follows, Rest
    <3>6. QED
      BY <3>1, <3>2, <3>3, <3>4, <3>5 DEF StepsInOrder, OfCall, Old, Follows, Rest
  <2>17. NextStepReady'
    BY <2>7 DEF NextStepReady
  <2>18. ThisStays' /\ SourceStays'
    <3>1. Releasing
      BY <1>1, <1>5 DEF Releasing
    <3>2. \A x : Anchored(x) => Anchored(x)'
      <4>1. \A p \in Objs : Owed(p) => Owed(p)'
        BY <1>6
      <4>2. QED
        BY <1>2, <1>6, <1>7, <2>9, <4>1, AnchoredKept
    <3>3. QED
      BY <1>1, <1>2, <1>7, <2>9, <2>10, <3>1, <3>2, StaysKept
  <2>19. ResultSoFar'
    <3>1. ~Returning
      BY <1>1 DEF Returning
    <3>2. QED
      BY <1>1, <1>2, <1>5, <1>6, <1>7, <2>9, <2>10, <3>1 DEF ResultSoFar, Old
  <2>20. QED
    BY <1>9, <1>10, <2>12, <2>13, <2>14, <2>16, <2>17, <2>18, <2>19
<1>13. QED
  BY <1>5, <1>11, <1>12 DEF DoQuery

(* The only step that touches what is gone reads a source that could not   *)
(* be reached without the pointer that is overwritten.                     *)
LEMMA CrashStep ==
  ASSUME PtrInv, Crash
  PROVE  PtrInv'
<1> USE DEF PtrInv
<1>1. /\ todo # <<>> /\ ~ub /\ Undefined /\ Now = todo[1] /\ Now \in Steps
      /\ 1 \in 1 .. Len(todo) /\ OfCall(Now)
  BY TodoIsList DEF Crash, StepsInOrder
<1>2. /\ live' = live /\ rc' = rc /\ val' = val /\ scope' = scope /\ raw' = raw
      /\ call' = call /\ todo' = todo /\ ub' = TRUE
  BY DEF Crash
<1>3. PtrShape'
  BY <1>2 DEF PtrShape
<1>4. /\ Dying' = Dying /\ Uncounted' = Uncounted /\ Storage' = Storage
      /\ \A o \in Objs : Owed(o)' <=> Owed(o)
  BY <1>2 DEF Dying, Uncounted, Uncounts, Storage, Owed
<1>5. CountsAddUp' /\ LiveIsCounted' /\ GoneIsNull'
  BY <1>2, <1>4 DEF CountsAddUp, Counted, LiveIsCounted, GoneIsNull
<1>6. StepsInOrder' /\ NextStepReady'
  BY <1>2, <1>4 DEF StepsInOrder, OfCall, Old, Follows, Rest, NextStepReady
<1>7. ResultSoFar'
  BY <1>2, <1>4 DEF ResultSoFar, Old, Returning, ReadAhead
<1>8. Now.do # "return"
  BY <1>1 DEF Undefined, Touched, Calls
<1>9. ThisStays' /\ SourceStays'
  <2>1. (Releasing' => Releasing) /\ (SourceNeeded' => SourceNeeded)
    BY <1>2 DEF Releasing, SourceNeeded
  <2>2. \A x : Anchored(x) => Anchored(x)'
    BY <1>2, <1>4, AnchoredKept
  <2>3. call.this \notin Dying
    BY <1>1, <1>8 DEF ThisStays
  <2>4. QED
    BY <1>1, <1>2, <1>4, <1>8, <2>1, <2>2, <2>3, StaysKept
<1>10. call.this \in Storage \union {NULL}
  BY <1>1, <1>8 DEF ThisStays
<1>11. Now.do \in {"read", "query"}
  <2>1. SUFFICES ASSUME Now.do \notin {"read", "query"} PROVE FALSE
    OBVIOUS
  <2>2. Now.at \in Locs /\ NULL \notin Locs
    BY <1>1, <1>8, <2>1, StepKinds, Places
  <2>3. CASE Now.do = "release"
    <3>1. Now.at \notin Uncounted /\ (Now.at \in Dying \/ Now.at = call.this)
      BY <1>1, <2>3, ReleasedIsCounted
    <3>2. Now.at \in Storage
      BY <1>10, <2>2, <3>1, Places DEF LiveIsCounted, Storage
    <3>3. val[Now.at] \in live \union {NULL}
      BY <3>1, <3>2, CountedIsLive
    <3>4. QED
      BY <1>1, <2>3, <3>2, <3>3 DEF Undefined, Touched
  <2>4. CASE Now.do = "free"
    <3>1. Now.at \in Objs
      BY <1>1, <2>4, StepKinds
    <3>2. Now.at \in Dying
      BY <1>1, <2>4, <3>1 DEF Dying
    <3>3. Now.at \in Storage
      BY <3>1, <3>2 DEF LiveIsCounted, Storage
    <3>4. QED
      BY <1>1, <2>4, <3>3 DEF Undefined, Touched, Calls
  <2>5. CASE Now.do = "null"
    BY <1>1, <2>5 DEF Undefined, Touched, Calls, NextStepReady
  <2>6. CASE Now.do \in {"add_ref", "set", "leave"}
    <3>1. Now.at = call.this
      BY <1>1, <2>6 DEF OfCall
    <3>2. Now.at \in Storage
      BY <1>10, <2>2, <3>1
    <3>3. Now.do = "add_ref" => val[Now.at] \in live \union {NULL}
      BY <1>1 DEF NextStepReady
    <3>4. QED
      BY <1>1, <2>6, <3>2, <3>3 DEF Undefined, Touched, Calls
  <2>7. QED
    BY <1>1, <1>8, <2>1, <2>3, <2>4, <2>5, <2>6, StepKinds
<1>12. PICK q : q = call.other
  OBVIOUS
<1>13. q \notin Storage
  <2>1. Dying = {} /\ Uncounted = {}
    BY <1>1, <1>11, RestSets
  <2>2. CASE Now.do = "query"
    <3>1. Now.at = q
      BY <1>1, <1>12, <2>2 DEF OfCall
    <3>2. q \in Storage => val[q] \in live \union {NULL}
      BY <2>1, CountedIsLive
    <3>3. QED
      BY <1>1, <2>2, <3>1, <3>2 DEF Undefined, Touched
  <2>3. CASE Now.do = "read"
    <3>1. Now.at = call.this /\ Now.from = q /\ Now.at \in Locs /\ NULL \notin Locs
      BY <1>1, <1>12, <2>3, StepKinds, Places DEF OfCall
    <3>2. Now.at \in Storage
      BY <1>10, <3>1
    <3>3. QED
      BY <1>1, <2>3, <3>1, <3>2 DEF Undefined, Touched, Calls
  <2>4. QED
    BY <1>11, <2>2, <2>3
<1>14. call.op \in {"copy", "move", "as"}
  BY <1>1, <1>11 DEF OfCall
<1>15. SourceNeeded
  BY <1>1, <1>11 DEF SourceNeeded
<1>16. q \in Objs
  BY <1>12, <1>13, <1>15 DEF SourceStays, Storage
<1>17. ~Anchored(q)
  <2>1. SUFFICES ASSUME Anchored(q) PROVE FALSE
    OBVIOUS
  <2>2. Dying = {} /\ Uncounted = {}
    BY <1>1, <1>11, RestSets
  <2>3. {q} \in SUBSET Objs /\ q \in {q} /\ Dying \subseteq {q}
    BY <1>16, <2>2
  <2>4. PICK o \in {q} : \/ raw[o] > 0
                         \/ Owed(o)
                         \/ \E l \in Storage \ ({q} \union {call.this}) : val[l] = o
    <3>1. PICK S : S = {q}
      OBVIOUS
    <3>2. \E o \in S : \/ raw[o] > 0
                       \/ Owed(o)
                       \/ \E l \in Storage \ (S \union {call.this}) : val[l] = o
      BY <2>1, <2>3, <3>1 DEF Anchored
    <3>3. QED
      BY <3>1, <3>2
  <2>5. raw[q] > 0 \/ Owed(q) \/ Counted(q) # {}
    <3>1. o = q
      OBVIOUS
    <3>2. CASE \E l \in Storage \ ({q} \union {call.this}) : val[l] = o
      BY <2>2, <3>1, <3>2 DEF Counted
    <3>3. QED
      BY <2>4, <3>1, <3>2
  <2>6. rc[q] > 0
    BY <1>16, <2>5, CountIsPositive
  <2>7. QED
    BY <1>13, <1>16, <2>6 DEF LiveIsCounted, Storage
<1>18. OnlyInnerSourceDangles'
  <2>1. call.other \notin ReachableWithout(call.this, call.val)
    BY <1>12, <1>15, <1>17 DEF SourceStays
  <2>2. (call.other \notin ReachableWithout(call.this, call.val))'
    BY <1>2, <2>1 DEF ReachableWithout
  <2>3. QED
    BY <1>2, <1>12, <1>14, <1>16, <2>2 DEF OnlyInnerSourceDangles
<1>19. QED
  BY <1>3, <1>5, <1>6, <1>7, <1>9, <1>18

-----------------------------------------------------------------------------
(* The beginning of an operation.                                          *)

LEMMA IdleSets ==
  ASSUME todo = <<>>
  PROVE  Dying = {} /\ Uncounted = {} /\ \A o : ~Owed(o)
<1>1. Len(todo) = 0
  OBVIOUS
<1>2. QED
  BY <1>1 DEF Dying, Uncounted, Owed

(* What the client can name exists ...                                     *)
LEMMA ReachableIsLive ==
  ASSUME PtrInv, todo = <<>>
  PROVE  /\ Reachable \subseteq live
         /\ Nameable \subseteq Storage /\ Nameable \subseteq Locs
<1> USE DEF PtrInv
<1>1. Uncounted = {} /\ NULL \notin Locs /\ live \in SUBSET Objs
  BY IdleSets, Places DEF PtrShape
<1>2. ASSUME NEW x \in Storage PROVE val[x] \in live \union {NULL}
  BY <1>1, CountedIsLive
<1>3. ASSUME NEW o \in Objs, raw[o] > 0 PROVE o \in live
  <2>1. rc[o] > 0
    BY <1>3, CountIsPositive
  <2>2. QED
    BY <2>1 DEF LiveIsCounted
<1>4. {val[x] : x \in scope \ {NULL}} \union {o \in Objs : raw[o] > 0} \subseteq live \union {NULL}
  BY <1>2, <1>3 DEF Storage
<1>5. \A o \in live \ {NULL} : val[o] \in live \union {NULL}
  BY <1>2 DEF Storage
<1>6. Reachable \subseteq live
  BY <1>1, <1>4, <1>5 DEF Reachable, ReachableWithout
<1>7. QED
  BY <1>6, Places DEF Nameable, Storage

(* ... and is kept by a chain of references that begins at a variable or   *)
(* in C code: a set of objects that has one of them in it is pointed to    *)
(* from outside.                                                           *)
LEMMA Supported ==
  ASSUME PtrShape, GoneIsNull, NEW skip, NEW x, x \in ReachableWithout(skip, val),
         NEW S \in SUBSET Objs, x \in S
  PROVE  \E o \in S : \/ raw[o] > 0
                      \/ \E l \in Storage \ (S \union {skip}) : val[l] = o
<1>1. SUFFICES ASSUME ~\E o \in S : \/ raw[o] > 0
                                    \/ \E l \in Storage \ (S \union {skip}) : val[l] = o
               PROVE  FALSE
  OBVIOUS
<1>2. PICK T : T = Objs \ S
  OBVIOUS
<1>3. \A l \in Storage \ (S \union {skip}) : val[l] \in T \union {NULL}
  <2>1. Storage \subseteq Locs
    BY Places
  <2>2. \A l \in Locs : val[l] \in Objs \union {NULL}
    BY DEF PtrShape, Values
  <2>3. QED
    BY <1>1, <1>2, <2>1, <2>2
<1>4. \A l \in scope \ {skip} : val[l] \in T \union {NULL}
  <2>1. scope \cap S = {} /\ scope \subseteq Storage
    BY PtrAssumption DEF PtrShape, Storage
  <2>2. QED
    BY <1>3, <2>1
<1>5. \A o \in T \ {skip} : val[o] \in T \union {NULL}
  <2>1. SUFFICES ASSUME NEW o \in T \ {skip} PROVE val[o] \in T \union {NULL}
    OBVIOUS
  <2>2. CASE o \in Storage
    BY <1>2, <1>3, <2>2
  <2>3. CASE o \notin Storage
    BY <1>2, <2>3 DEF GoneIsNull, Locs
  <2>4. QED
    BY <2>2, <2>3
<1>6. {o \in Objs : raw[o] > 0} \subseteq T
  BY <1>1, <1>2
<1>7. {val[l] : l \in scope \ {skip}} \union {o \in Objs : raw[o] > 0} \subseteq T \union {NULL}
  BY <1>4, <1>6
<1>8. T \in SUBSET Objs
  BY <1>2
<1>9. x \in T
  BY <1>5, <1>7, <1>8 DEF ReachableWithout
<1>10. QED
  BY <1>2, <1>9

LEMMA BeginInv ==
  ASSUME PtrInv, Idle,
         NEW name \in CallNames \ {"none", "c_release"}, NEW l \in Locs, NEW q \in Locs,
         NEW steps \in Seq(Steps), Begin(name, l, q, steps),
         live' = live, rc' = rc, val' = val, ub' = ub,
         \/ scope' = scope /\ l \in Nameable
         \/ scope' = scope \union {l} /\ l \in Locals \ scope,
         \/ /\ raw' = raw /\ \A o \in Objs : ~Owed(o)'
         \/ /\ q \in Objs /\ raw[q] > 0 /\ raw' = [raw EXCEPT ![q] = @ - 1]
            /\ \A o \in Objs : Owed(o)' <=> o = q
            /\ ~SourceNeeded',
         StepsInOrder', Uncounted' = {}, Dying' = {},
         SourceNeeded' => q \in Nameable,
         todo'[1].do \in {"release", "read", "return"},
         todo'[1].do = "read" => l \in Locals \ scope /\ todo'[1].at = l,
         ~ReadAhead' => name \notin {"copy", "move"} \/ l = q,
         todo'[1].do = "return" => name \in {"copy", "move"} /\ l = q
  PROVE  PtrInv'
<1> USE DEF PtrInv
<1>1. todo = <<>> /\ ~ub
  BY DEF Idle
<1>2. Dying = {} /\ Uncounted = {} /\ \A o \in Objs : ~Owed(o)
  BY <1>1, IdleSets
<1>3. /\ todo' = steps \o Return
      /\ call' = [op |-> name, this |-> l, other |-> q, val |-> val]
  BY DEF Begin
<1>4. todo' \in Seq(Steps)
  BY <1>3, StepsMade, Concat
<1>5. /\ call'.op = name /\ call'.this = l /\ call'.other = q /\ call'.val = val
  BY <1>3
<1>6. Nameable \subseteq Storage
  BY <1>1, ReachableIsLive
<1>7. /\ Storage \subseteq Storage' /\ Storage' \subseteq Storage \union {l}
      /\ l \in Storage' /\ NULL \notin Locs
      /\ l \in Locals \ scope => val[l] = NULL
      /\ l \notin Storage => val[l] = NULL
  <2>1. Storage \subseteq Storage' /\ Storage' \subseteq Storage \union {l} /\ l \in Storage'
    BY <1>6 DEF Storage
  <2>2. l \in Locals \ scope => l \notin Storage
    BY PtrAssumption DEF Storage, PtrShape
  <2>3. QED
    BY <2>1, <2>2, Places DEF GoneIsNull
<1>8. /\ raw' \in [Objs -> Nat]
      /\ \A o \in Objs : /\ raw'[o] + (IF Owed(o)' THEN 1 ELSE 0) = raw[o]
                         /\ raw[o] > 0 => raw'[o] > 0 \/ Owed(o)'
  BY <1>2 DEF PtrShape
<1>9. PtrShape'
  <2>1. call' \in [op : CallNames, this : Locs \union {NULL}, other : Locs \union {NULL},
                   val : [Locs -> Values]]
    BY <1>3 DEF PtrShape
  <2>2. scope' \subseteq Locals
    BY DEF PtrShape
  <2>3. call'.this # NULL /\ call'.op \notin {"none", "c_release"}
    BY <1>5, <1>7
  <2>4. QED
    BY <1>4, <1>8, <2>1, <2>2, <2>3 DEF PtrShape
<1>10. CountsAddUp'
  <2>1. \A o \in Objs : Counted(o)' = Counted(o)
    BY <1>2, <1>7, PtrAssumption DEF Counted
  <2>2. \A o \in Objs : Cardinality(Counted(o)) \in Nat /\ raw[o] \in Nat /\ raw'[o] \in Nat
    BY <1>8, Places, LocSets DEF PtrShape
  <2>3. QED
    BY <1>2, <1>8, <2>1, <2>2 DEF CountsAddUp
<1>11. LiveIsCounted' /\ GoneIsNull'
  BY <1>2, <1>7 DEF LiveIsCounted, GoneIsNull
<1>12. NextStepReady'
  BY <1>7 DEF NextStepReady
<1>13. ASSUME NEW x \in Objs, NEW skip,
              x \in ReachableWithout(skip, val), skip = l \/ x = l
       PROVE  Anchored(x)'
  <2>1. SUFFICES ASSUME NEW S \in SUBSET Objs, x \in S
                 PROVE  \E o \in S : \/ raw'[o] > 0
                                      \/ Owed(o)'
                                      \/ \E k \in Storage' \ (S \union {call'.this}) :
                                           val'[k] = o
    BY DEF Anchored
  <2>2. PICK o \in S : \/ raw[o] > 0
                        \/ \E k \in Storage \ (S \union {skip}) : val[k] = o
    BY <1>13, <2>1, Supported
  <2>3. CASE raw[o] > 0
    BY <1>8, <2>3
  <2>4. CASE \E k \in Storage \ (S \union {skip}) : val[k] = o
    <3>1. PICK k \in Storage \ (S \union {skip}) : val[k] = o
      BY <2>4
    <3>2. k \in Storage' \ (S \union {call'.this}) /\ val'[k] = o
      BY <1>5, <1>7, <1>13, <2>1, <3>1
    <3>3. QED
      BY <3>2
  <2>5. QED
    BY <2>2, <2>3, <2>4
<1>14. ThisStays'
  <2>1. ASSUME l \in Objs PROVE Anchored(l)'
    <3>1. l \in Reachable
      BY <2>1, PtrAssumption DEF Nameable, PtrShape
    <3>2. QED
      BY <1>13, <2>1, <3>1 DEF Reachable
  <2>2. ASSUME l \notin Objs PROVE Anchored(l)'
    BY <2>2 DEF Anchored
  <2>3. Anchored(call.this)'
    <3>1. Anchored(l)'
      BY <2>1, <2>2
    <3>2. QED
      BY <1>5, <3>1 DEF Anchored
  <2>4. QED
    BY <1>5, <1>7, <2>3 DEF ThisStays
<1>15. SourceStays'
  <2>1. SUFFICES ASSUME SourceNeeded'
                 PROVE  /\ q \in scope' \union Objs
                        /\ (call.other \in ReachableWithout(call.this, call.val))' =>
                             Anchored(call.other)'
    BY <1>5 DEF SourceStays
  <2>2. q \in scope \union Objs /\ raw' = raw
    BY <2>1 DEF Nameable, Reachable, ReachableWithout
  <2>3. ASSUME (call.other \in ReachableWithout(call.this, call.val))'
        PROVE  Anchored(call.other)'
    <3>1. scope' \ {l} = scope \ {l}
      OBVIOUS
    <3>2. q \in ReachableWithout(l, val)
      BY <1>5, <2>2, <2>3, <3>1 DEF ReachableWithout
    <3>3. q \in Objs
      BY <3>2 DEF ReachableWithout
    <3>4. Anchored(q)'
      BY <1>13, <3>2, <3>3
    <3>5. QED
      BY <1>5, <3>4 DEF Anchored
  <2>4. QED
    BY <2>2, <2>3
<1>16. ResultSoFar'
  <2>1. \A x \in Locs : call'.val[x] = val[x]
    BY <1>5
  <2>2. Storage' \subseteq Locs
    BY <1>7, Places
  <2>3. Returning' => name \in {"copy", "move"} /\ l = q
    BY DEF Returning
  <2>4. QED
    BY <1>5, <2>1, <2>2, <2>3 DEF ResultSoFar, Old
<1>17. OnlyInnerSourceDangles'
  BY <1>1 DEF OnlyInnerSourceDangles
<1>18. QED
  BY <1>9, <1>10, <1>11, <1>12, <1>14, <1>15, <1>16, <1>17

LEMMA PlainBody ==
  ASSUME NEW t \in Seq(Steps), todo' = t, t # <<>>,
         \A i \in 1 .. Len(t) :
           /\ t[i].do = "return" <=> i = Len(t)
           /\ t[i].do = "release" => i = 1
           /\ t[i].do = "read" => i + 2 = Len(t)
           /\ t[i].do # "free"
           /\ t[i].do \in {"null", "add_ref"} => i > 1 /\ t[i - 1].do = "read"
           /\ OfCall(t[i])',
         \A i \in 1 .. Len(t) - 1 : Follows(t[i], t[i + 1])'
  PROVE  StepsInOrder' /\ Uncounted' = {} /\ Dying' = {}
<1>1. Uncounted' = {} /\ Dying' = {}
  BY DEF Uncounted, Uncounts, Dying
<1>2. \A i \in 2 .. Len(t) - 1 : i \in 1 .. Len(t)
  OBVIOUS
<1>3. /\ \A i \in 1 .. Len(t) : t[i].do # "free"
      /\ \A i \in 2 .. Len(t) - 1 : t[i].do = "null" => t[i - 1].do = "read"
  BY <1>2
<1>4. StepsInOrder'
  BY <1>3 DEF StepsInOrder
<1>5. QED
  BY <1>1, <1>4

LEMMA BodyThenReturn ==
  ASSUME NEW steps \in Seq(Steps)
  PROVE  /\ steps \o Return \in Seq(Steps) /\ steps \o Return # <<>>
         /\ Len(steps \o Return) = Len(steps) + 1
         /\ \A i \in 1 .. Len(steps) : (steps \o Return)[i] = steps[i]
         /\ (steps \o Return)[Len(steps) + 1].do = "return"
<1>1. Return \in Seq(Steps) /\ Len(Return) = 1 /\ Return[1].do = "return"
  BY StepsMade DEF Step
<1>2. /\ steps \o Return \in Seq(Steps)
      /\ Len(steps \o Return) = Len(steps) + Len(Return)
      /\ \A i \in 1 .. Len(steps) + Len(Return) :
           (steps \o Return)[i] = IF i <= Len(steps) THEN steps[i] ELSE Return[i - Len(steps)]
  BY <1>1, Concat
<1>3. Len(steps) \in Nat
  OBVIOUS
<1>4. Len(steps \o Return) = Len(steps) + 1
  BY <1>1, <1>2
<1>5. \A i \in 1 .. Len(steps) : (steps \o Return)[i] = steps[i]
  BY <1>1, <1>2, <1>3
<1>6. (steps \o Return)[Len(steps) + 1] = Return[1]
  <2>1. /\ Len(steps) + 1 \in 1 .. Len(steps) + Len(Return)
        /\ ~(Len(steps) + 1 <= Len(steps)) /\ (Len(steps) + 1) - Len(steps) = 1
    BY <1>1, <1>3
  <2>2. QED
    BY <1>2, <2>1
<1>7. steps \o Return # <<>>
  BY <1>2, <1>3, <1>4
<1>8. QED
  BY <1>1, <1>2, <1>4, <1>5, <1>6, <1>7

LEMMA ShortBodies ==
  ASSUME NEW a \in Steps, NEW b \in Steps, NEW c \in Steps
  PROVE  /\ <<>> \in Seq(Steps) /\ <<a>> \in Seq(Steps)
         /\ <<a, b>> \in Seq(Steps) /\ <<a, b, c>> \in Seq(Steps)
         /\ Len(<<>> \o Return) = 1 /\ (<<>> \o Return)[1].do = "return"
         /\ Len(<<a>> \o Return) = 2
         /\ (<<a>> \o Return)[1] = a /\ (<<a>> \o Return)[2].do = "return"
         /\ Len(<<a, b>> \o Return) = 3
         /\ (<<a, b>> \o Return)[1] = a /\ (<<a, b>> \o Return)[2] = b
         /\ (<<a, b>> \o Return)[3].do = "return"
         /\ Len(<<a, b, c>> \o Return) = 4
         /\ (<<a, b, c>> \o Return)[1] = a /\ (<<a, b, c>> \o Return)[2] = b
         /\ (<<a, b, c>> \o Return)[3] = c /\ (<<a, b, c>> \o Return)[4].do = "return"
<1>1. PICK s0, s1, s2, s3 : s0 = <<>> /\ s1 = <<a>> /\ s2 = <<a, b>> /\ s3 = <<a, b, c>>
  OBVIOUS
<1>2. s0 \in Seq(Steps) /\ s1 \in Seq(Steps) /\ s2 \in Seq(Steps) /\ s3 \in Seq(Steps)
  BY <1>1
<1>3. /\ Len(s0) = 0
      /\ Len(s1) = 1 /\ s1[1] = a
      /\ Len(s2) = 2 /\ s2[1] = a /\ s2[2] = b
      /\ Len(s3) = 3 /\ s3[1] = a /\ s3[2] = b /\ s3[3] = c
  BY <1>1
<1>4. Len(s0 \o Return) = 1 /\ (s0 \o Return)[1].do = "return"
  <2>1. /\ Len(s0 \o Return) = Len(s0) + 1
        /\ \A i \in 1 .. Len(s0) : (s0 \o Return)[i] = s0[i]
        /\ (s0 \o Return)[Len(s0) + 1].do = "return"
    BY <1>2, BodyThenReturn
  <2>2. Len(s0) + 1 = 1
    BY <1>3
  <2>3. QED
    BY <1>3, <2>1, <2>2
<1>5. Len(s1 \o Return) = 2 /\ (s1 \o Return)[1] = a /\ (s1 \o Return)[2].do = "return"
  <2>1. /\ Len(s1 \o Return) = Len(s1) + 1
        /\ \A i \in 1 .. Len(s1) : (s1 \o Return)[i] = s1[i]
        /\ (s1 \o Return)[Len(s1) + 1].do = "return"
    BY <1>2, BodyThenReturn
  <2>2. 1 \in 1 .. Len(s1) /\ Len(s1) + 1 = 2
    BY <1>3
  <2>3. QED
    BY <1>3, <2>1, <2>2
<1>6. /\ Len(s2 \o Return) = 3 /\ (s2 \o Return)[1] = a /\ (s2 \o Return)[2] = b
      /\ (s2 \o Return)[3].do = "return"
  <2>1. /\ Len(s2 \o Return) = Len(s2) + 1
        /\ \A i \in 1 .. Len(s2) : (s2 \o Return)[i] = s2[i]
        /\ (s2 \o Return)[Len(s2) + 1].do = "return"
    BY <1>2, BodyThenReturn
  <2>2. 1 \in 1 .. Len(s2) /\ 2 \in 1 .. Len(s2) /\ Len(s2) + 1 = 3
    BY <1>3
  <2>3. QED
    BY <1>3, <2>1, <2>2
<1>7. /\ Len(s3 \o Return) = 4 /\ (s3 \o Return)[1] = a /\ (s3 \o Return)[2] = b
      /\ (s3 \o Return)[3] = c /\ (s3 \o Return)[4].do = "return"
  <2>1. /\ Len(s3 \o Return) = Len(s3) + 1
        /\ \A i \in 1 .. Len(s3) : (s3 \o Return)[i] = s3[i]
        /\ (s3 \o Return)[Len(s3) + 1].do = "return"
    BY <1>2, BodyThenReturn
  <2>2. 1 \in 1 .. Len(s3) /\ 2 \in 1 .. Len(s3) /\ 3 \in 1 .. Len(s3) /\ Len(s3) + 1 = 4
    BY <1>3
  <2>3. QED
    BY <1>3, <2>1, <2>2
<1>8. QED
  BY <1>1, <1>2, <1>4, <1>5, <1>6, <1>7

(* ptr(const ptr&) and ptr(ptr&&).                                         *)
LEMMA ConstructStep ==
  ASSUME PtrInv, NEW l \in Locs, NEW q \in Locs, Construct(l, q)
  PROVE  PtrInv'
<1>1. /\ Idle /\ l \in Locals \ scope /\ q \in Nameable
      /\ scope' = scope \union {l}
      /\ live' = live /\ rc' = rc /\ val' = val /\ raw' = raw /\ ub' = ub
  BY DEF Construct
<1>2. l # q
  BY <1>1, PtrAssumption DEF Nameable, Reachable, ReachableWithout
<1>3. ASSUME NEW name \in {"copy", "move"}, NEW last \in Steps,
             last.do = IF name = "copy" THEN "add_ref" ELSE "null",
             last.at = IF name = "copy" THEN l ELSE q,
             Begin(name, l, q, <<ReadFrom(l, q), last>>)
      PROVE  PtrInv'
  <2> DEFINE steps == <<ReadFrom(l, q), last>>
  <2>1. ReadFrom(l, q) \in Steps /\ last \in Steps
    BY <1>3, StepsMade
  <2>2. Begin(name, l, q, steps)
    BY <1>3
  <2>3. PICK t : t = steps \o Return
    OBVIOUS
  <2>4. todo' = t /\ call' = [op |-> name, this |-> l, other |-> q, val |-> val]
    BY <2>2, <2>3 DEF Begin
  <2>5. /\ t \in Seq(Steps) /\ t # <<>> /\ Len(t) = 3 /\ steps \in Seq(Steps)
        /\ t[1] = ReadFrom(l, q) /\ t[2] = last /\ t[3].do = "return"
    <3>1. steps \in Seq(Steps)
      BY <2>1, ShortBodies
    <3>2. t \in Seq(Steps) /\ t # <<>>
      BY <2>3, <3>1, BodyThenReturn
    <3>3. /\ Len(t) = 3
          /\ t[1] = ReadFrom(l, q) /\ t[2] = last /\ t[3].do = "return"
      BY <2>1, <2>3, ShortBodies
    <3>4. QED
      BY <3>1, <3>2, <3>3
  <2> HIDE DEF steps
  <2>6. /\ t[1].do = "read" /\ t[1].at = l /\ t[1].from = q
        /\ \A i \in 1 .. Len(t) : i = 1 \/ i = 2 \/ i = 3
        /\ \A i \in 1 .. Len(t) - 1 : i = 1 \/ i = 2
        /\ 1 \in 1 .. Len(t)
    BY <2>5 DEF ReadFrom
  <2>7. /\ OfCall(t[1])' /\ OfCall(t[2])' /\ OfCall(t[3])'
    BY <1>2, <1>3, <2>4, <2>5, <2>6 DEF OfCall
  <2>8. Follows(t[1], t[2])' /\ Follows(t[2], t[3])'
    BY <1>2, <1>3, <2>4, <2>5, <2>6 DEF Follows
  <2>9. StepsInOrder' /\ Uncounted' = {} /\ Dying' = {}
    <3>1. \A i \in 1 .. Len(t) :
            /\ t[i].do = "return" <=> i = Len(t)
            /\ t[i].do = "release" => i = 1
            /\ t[i].do = "read" => i + 2 = Len(t)
            /\ t[i].do # "free"
            /\ t[i].do \in {"null", "add_ref"} => i > 1 /\ t[i - 1].do = "read"
            /\ OfCall(t[i])'
      BY <1>3, <2>5, <2>6, <2>7
    <3>2. \A i \in 1 .. Len(t) - 1 : Follows(t[i], t[i + 1])'
      BY <2>6, <2>8
    <3>3. QED
      BY <2>4, <2>5, <3>1, <3>2, PlainBody
  <2>10. ReadAhead' /\ \A o \in Objs : ~Owed(o)'
    BY <1>3, <2>4, <2>5, <2>6 DEF ReadAhead, Owed
  <2>11. QED
    BY <1>1, <1>3, <2>2, <2>4, <2>5, <2>6, <2>9, <2>10, BeginInv DEF CallNames
<1>4. CASE Begin("copy", l, q, CopyConstruct(l, q))
  <2>1. /\ Step("add_ref", l) \in Steps
        /\ Step("add_ref", l).do = "add_ref" /\ Step("add_ref", l).at = l
    BY StepsMade DEF Step
  <2>2. QED
    BY <1>3, <1>4, <2>1 DEF CopyConstruct
<1>5. CASE Begin("move", l, q, MoveConstruct(l, q))
  <2>1. /\ Step("null", q) \in Steps
        /\ Step("null", q).do = "null" /\ Step("null", q).at = q
    BY StepsMade DEF Step
  <2>2. QED
    BY <1>3, <1>5, <2>1 DEF MoveConstruct
<1>6. QED
  BY <1>4, <1>5 DEF Construct

(* operator= of a pointer with itself, and with another.                   *)
LEMMA AssignStep ==
  ASSUME PtrInv, NEW l \in Locs, NEW q \in Locs, Assign(l, q)
  PROVE  PtrInv'
<1>1. /\ Idle /\ l \in Nameable /\ q \in Nameable
      /\ scope' = scope
      /\ live' = live /\ rc' = rc /\ val' = val /\ raw' = raw /\ ub' = ub
  BY DEF Assign
<1>2. ASSUME l = q, NEW name \in {"copy", "move"}, Begin(name, l, q, <<>>)
      PROVE  PtrInv'
  <2> DEFINE steps == <<>>
  <2>1. steps \in Seq(Steps) /\ Begin(name, l, q, steps)
    BY <1>2
  <2>2. PICK t : t = steps \o Return
    OBVIOUS
  <2>3. todo' = t /\ call' = [op |-> name, this |-> l, other |-> q, val |-> val]
    BY <2>1, <2>2 DEF Begin
  <2>4. t \in Seq(Steps) /\ t # <<>> /\ Len(t) = 1 /\ t[1].do = "return"
    <3>1. t \in Seq(Steps) /\ t # <<>>
      BY <2>1, <2>2, BodyThenReturn
    <3>2. Step("return", NULL) \in Steps
      BY StepsMade
    <3>3. Len(t) = 1 /\ t[1].do = "return"
      BY <2>2, <3>2, ShortBodies
    <3>4. QED
      BY <3>1, <3>3
  <2> HIDE DEF steps
  <2>5. \A i \in 1 .. Len(t) : i = 1
    BY <2>4
  <2>6. OfCall(t[1])'
    BY <2>4 DEF OfCall
  <2>7. StepsInOrder' /\ Uncounted' = {} /\ Dying' = {}
    <3>1. \A i \in 1 .. Len(t) :
            /\ t[i].do = "return" <=> i = Len(t)
            /\ t[i].do = "release" => i = 1
            /\ t[i].do = "read" => i + 2 = Len(t)
            /\ t[i].do # "free"
            /\ t[i].do \in {"null", "add_ref"} => i > 1 /\ t[i - 1].do = "read"
            /\ OfCall(t[i])'
      BY <2>4, <2>5, <2>6
    <3>2. \A i \in 1 .. Len(t) - 1 : Follows(t[i], t[i + 1])'
      BY <2>4
    <3>3. QED
      BY <2>3, <2>4, <3>1, <3>2, PlainBody
  <2>8. ~SourceNeeded' /\ \A o \in Objs : ~Owed(o)'
    BY <2>3, <2>4, <2>5 DEF SourceNeeded, Owed
  <2>9. QED
    BY <1>1, <1>2, <2>1, <2>3, <2>4, <2>7, <2>8, BeginInv DEF CallNames
<1>3. ASSUME l # q, NEW name \in {"copy", "move"}, NEW last \in Steps,
             last.do = IF name = "copy" THEN "add_ref" ELSE "null",
             last.at = IF name = "copy" THEN l ELSE q,
             Begin(name, l, q, <<Step("release", l), ReadFrom(l, q), last>>)
      PROVE  PtrInv'
  <2> DEFINE steps == <<Step("release", l), ReadFrom(l, q), last>>
  <2>1. Step("release", l) \in Steps /\ ReadFrom(l, q) \in Steps /\ last \in Steps
    BY <1>3, StepsMade
  <2>2. Begin(name, l, q, steps)
    BY <1>3
  <2>3. PICK t : t = steps \o Return
    OBVIOUS
  <2>4. todo' = t /\ call' = [op |-> name, this |-> l, other |-> q, val |-> val]
    BY <2>2, <2>3 DEF Begin
  <2>5. /\ t \in Seq(Steps) /\ t # <<>> /\ Len(t) = 4 /\ steps \in Seq(Steps)
        /\ t[1] = Step("release", l) /\ t[2] = ReadFrom(l, q) /\ t[3] = last
        /\ t[4].do = "return"
    <3>1. steps \in Seq(Steps)
      BY <2>1, ShortBodies
    <3>2. t \in Seq(Steps) /\ t # <<>>
      BY <2>3, <3>1, BodyThenReturn
    <3>3. /\ Len(t) = 4
          /\ t[1] = Step("release", l) /\ t[2] = ReadFrom(l, q) /\ t[3] = last
          /\ t[4].do = "return"
      BY <2>1, <2>3, ShortBodies
    <3>4. QED
      BY <3>1, <3>2, <3>3
  <2> HIDE DEF steps
  <2>6. /\ t[1].do = "release" /\ t[1].at = l
        /\ t[2].do = "read" /\ t[2].at = l /\ t[2].from = q
    BY <2>5 DEF ReadFrom, Step
  <2>7. /\ \A i \in 1 .. Len(t) : i = 1 \/ i = 2 \/ i = 3 \/ i = 4
        /\ \A i \in 1 .. Len(t) - 1 : i = 1 \/ i = 2 \/ i = 3
        /\ 2 \in 1 .. Len(t)
    BY <2>5
  <2>8. /\ OfCall(t[1])' /\ OfCall(t[2])' /\ OfCall(t[3])' /\ OfCall(t[4])'
    BY <1>3, <2>4, <2>5, <2>6 DEF OfCall
  <2>9. Follows(t[1], t[2])' /\ Follows(t[2], t[3])' /\ Follows(t[3], t[4])'
    BY <1>3, <2>4, <2>5, <2>6 DEF Follows, Rest
  <2>10. StepsInOrder' /\ Uncounted' = {} /\ Dying' = {}
    <3>1. \A i \in 1 .. Len(t) :
            /\ t[i].do = "return" <=> i = Len(t)
            /\ t[i].do = "release" => i = 1
            /\ t[i].do = "read" => i + 2 = Len(t)
            /\ t[i].do # "free"
            /\ t[i].do \in {"null", "add_ref"} => i > 1 /\ t[i - 1].do = "read"
            /\ OfCall(t[i])'
      BY <1>3, <2>5, <2>6, <2>7, <2>8
    <3>2. \A i \in 1 .. Len(t) - 1 : Follows(t[i], t[i + 1])'
      BY <2>7, <2>9
    <3>3. QED
      BY <2>4, <2>5, <3>1, <3>2, PlainBody
  <2>11. ReadAhead' /\ \A o \in Objs : ~Owed(o)'
    BY <1>3, <2>4, <2>5, <2>6, <2>7 DEF ReadAhead, Owed
  <2>12. QED
    BY <1>1, <1>3, <2>2, <2>4, <2>5, <2>6, <2>10, <2>11, BeginInv DEF CallNames
<1>4. CASE l = q
  BY <1>2, <1>4 DEF Assign, CopyAssign, MoveAssign
<1>5. CASE l # q
  <2>1. CASE Begin("copy", l, q, CopyAssign(l, q))
    <3>1. /\ Step("add_ref", l) \in Steps
          /\ Step("add_ref", l).do = "add_ref" /\ Step("add_ref", l).at = l
      BY StepsMade DEF Step
    <3>2. QED
      BY <1>3, <1>5, <2>1, <3>1 DEF CopyAssign
  <2>2. CASE Begin("move", l, q, MoveAssign(l, q))
    <3>1. /\ Step("null", q) \in Steps
          /\ Step("null", q).do = "null" /\ Step("null", q).at = q
      BY StepsMade DEF Step
    <3>2. QED
      BY <1>3, <1>5, <2>2, <3>1 DEF MoveAssign
  <2>3. QED
    BY <2>1, <2>2 DEF Assign
<1>6. QED
  BY <1>4, <1>5

(* ~ptr().                                                                 *)
LEMMA DestructStep ==
  ASSUME PtrInv, NEW l \in Locs, Destruct(l)
  PROVE  PtrInv'
<1>1. /\ Idle /\ l \in Nameable /\ raw' = raw
      /\ scope' = scope /\ live' = live /\ rc' = rc /\ val' = val /\ ub' = ub
      /\ Begin("destruct", l, l, <<Step("release", l), Step("leave", l)>>)
  BY DEF Destruct, Nameable
<1> DEFINE steps == <<Step("release", l), Step("leave", l)>>
<1>2. Step("release", l) \in Steps /\ Step("leave", l) \in Steps
  BY StepsMade
<1>3. PICK t : t = steps \o Return
  OBVIOUS
<1>4. todo' = t /\ call' = [op |-> "destruct", this |-> l, other |-> l, val |-> val]
  BY <1>1, <1>3 DEF Begin
<1>5. /\ t \in Seq(Steps) /\ t # <<>> /\ Len(t) = 3 /\ steps \in Seq(Steps)
      /\ t[1] = Step("release", l) /\ t[2] = Step("leave", l)
      /\ t[3].do = "return"
  <2>1. steps \in Seq(Steps)
    BY <1>2, ShortBodies
  <2>2. t \in Seq(Steps) /\ t # <<>>
    BY <1>3, <2>1, BodyThenReturn
  <2>3. /\ Len(t) = 3
        /\ t[1] = Step("release", l) /\ t[2] = Step("leave", l)
        /\ t[3].do = "return"
    BY <1>2, <1>3, ShortBodies
  <2>4. QED
    BY <2>1, <2>2, <2>3
<1> HIDE DEF steps
<1>6. /\ t[1].do = "release" /\ t[1].at = l
      /\ t[2].do = "leave" /\ t[2].at = l
  BY <1>5 DEF Step, Put
<1>7. /\ \A i \in 1 .. Len(t) : i = 1 \/ i = 2 \/ i = 3
      /\ \A i \in 1 .. Len(t) - 1 : i = 1 \/ i = 2
      /\ 1 \in 1 .. Len(t) /\ 2 \in 1 .. Len(t)
  BY <1>5
<1>8. OfCall(t[1])' /\ OfCall(t[2])' /\ OfCall(t[3])'
  BY <1>1, <1>4, <1>5, <1>6 DEF OfCall, Old
<1>9. Follows(t[1], t[2])' /\ Follows(t[2], t[3])'
  BY <1>4, <1>5, <1>6 DEF Follows, Rest
<1>10. StepsInOrder' /\ Uncounted' = {} /\ Dying' = {}
  <2>1. \A i \in 1 .. Len(t) :
          /\ t[i].do = "return" <=> i = Len(t)
          /\ t[i].do = "release" => i = 1
          /\ t[i].do = "read" => i + 2 = Len(t)
          /\ t[i].do # "free"
          /\ t[i].do \in {"null", "add_ref"} => i > 1 /\ t[i - 1].do = "read"
          /\ OfCall(t[i])'
    BY <1>5, <1>6, <1>7, <1>8
  <2>2. \A i \in 1 .. Len(t) - 1 : Follows(t[i], t[i + 1])'
    BY <1>7, <1>9
  <2>3. QED
    BY <1>4, <1>5, <2>1, <2>2, PlainBody
<1>11. ~SourceNeeded' /\ \A o \in Objs : ~Owed(o)'
  BY <1>1, <1>4, <1>5, <1>6, <1>7, PtrAssumption DEF SourceNeeded, Owed
<1>12. todo'[1].do = "release" /\ steps \in Seq(Steps)
  BY <1>4, <1>5, <1>6
<1>13. Begin("destruct", l, l, steps) /\ "destruct" \in CallNames \ {"none", "c_release"}
  BY <1>1 DEF steps, CallNames
<1>14. QED
  BY <1>1, <1>10, <1>11, <1>12, <1>13, BeginInv DEF Locs

(* operator=(nullptr_t).                                                   *)
LEMMA ResetStep ==
  ASSUME PtrInv, NEW l \in Locs, Reset(l)
  PROVE  PtrInv'
<1>1. /\ Idle /\ l \in Nameable /\ raw' = raw
      /\ scope' = scope /\ live' = live /\ rc' = rc /\ val' = val /\ ub' = ub
      /\ Begin("null", l, l, <<Step("release", l)>>)
  BY DEF Reset, NullAssign
<1> DEFINE steps == <<Step("release", l)>>
<1>2. Step("release", l) \in Steps
  BY StepsMade
<1>3. PICK t : t = steps \o Return
  OBVIOUS
<1>4. todo' = t /\ call' = [op |-> "null", this |-> l, other |-> l, val |-> val]
  BY <1>1, <1>3 DEF Begin
<1>5. /\ t \in Seq(Steps) /\ t # <<>> /\ Len(t) = 2 /\ steps \in Seq(Steps)
      /\ t[1] = Step("release", l)
      /\ t[2].do = "return"
  <2>1. steps \in Seq(Steps)
    BY <1>2, ShortBodies
  <2>2. t \in Seq(Steps) /\ t # <<>>
    BY <1>3, <2>1, BodyThenReturn
  <2>3. /\ Len(t) = 2
        /\ t[1] = Step("release", l)
        /\ t[2].do = "return"
    BY <1>2, <1>3, ShortBodies
  <2>4. QED
    BY <2>1, <2>2, <2>3
<1> HIDE DEF steps
<1>6. t[1].do = "release" /\ t[1].at = l
  BY <1>5 DEF Step, Put
<1>7. /\ \A i \in 1 .. Len(t) : i = 1 \/ i = 2
      /\ \A i \in 1 .. Len(t) - 1 : i = 1
      /\ 1 \in 1 .. Len(t)
  BY <1>5
<1>8. OfCall(t[1])' /\ OfCall(t[2])'
  BY <1>1, <1>4, <1>5, <1>6 DEF OfCall, Old
<1>9. Follows(t[1], t[2])'
  BY <1>4, <1>5, <1>6 DEF Follows, Rest
<1>10. StepsInOrder' /\ Uncounted' = {} /\ Dying' = {}
  <2>1. \A i \in 1 .. Len(t) :
          /\ t[i].do = "return" <=> i = Len(t)
          /\ t[i].do = "release" => i = 1
          /\ t[i].do = "read" => i + 2 = Len(t)
          /\ t[i].do # "free"
          /\ t[i].do \in {"null", "add_ref"} => i > 1 /\ t[i - 1].do = "read"
          /\ OfCall(t[i])'
    BY <1>5, <1>6, <1>7, <1>8
  <2>2. \A i \in 1 .. Len(t) - 1 : Follows(t[i], t[i + 1])'
    BY <1>7, <1>9
  <2>3. QED
    BY <1>4, <1>5, <2>1, <2>2, PlainBody
<1>11. ~SourceNeeded' /\ \A o \in Objs : ~Owed(o)'
  BY <1>1, <1>4, <1>5, <1>6, <1>7, PtrAssumption DEF SourceNeeded, Owed
<1>12. todo'[1].do = "release" /\ steps \in Seq(Steps)
  BY <1>4, <1>5, <1>6
<1>13. Begin("null", l, l, steps) /\ "null" \in CallNames \ {"none", "c_release"}
  BY <1>1 DEF steps, CallNames
<1>14. QED
  BY <1>1, <1>10, <1>11, <1>12, <1>13, BeginInv DEF Locs

(* attach(): the operation owes the pointer the reference that C code gave. *)
LEMMA TakeOverStep ==
  ASSUME PtrInv, NEW l \in Locs, NEW o \in Objs, TakeOver(l, o)
  PROVE  PtrInv'
<1>1. /\ Idle /\ l \in Nameable /\ raw[o] > 0 /\ raw' = [raw EXCEPT ![o] = @ - 1]
      /\ scope' = scope /\ live' = live /\ rc' = rc /\ val' = val /\ ub' = ub
      /\ Begin("attach", l, o, <<Step("release", l), Put(l, o)>>)
  BY DEF TakeOver, Attach
<1> DEFINE steps == <<Step("release", l), Put(l, o)>>
<1>2. Step("release", l) \in Steps /\ Put(l, o) \in Steps
  BY StepsMade DEF Values
<1>3. PICK t : t = steps \o Return
  OBVIOUS
<1>4. todo' = t /\ call' = [op |-> "attach", this |-> l, other |-> o, val |-> val]
  BY <1>1, <1>3 DEF Begin
<1>5. /\ t \in Seq(Steps) /\ t # <<>> /\ Len(t) = 3 /\ steps \in Seq(Steps)
      /\ t[1] = Step("release", l) /\ t[2] = Put(l, o)
      /\ t[3].do = "return"
  <2>1. steps \in Seq(Steps)
    BY <1>2, ShortBodies
  <2>2. t \in Seq(Steps) /\ t # <<>>
    BY <1>3, <2>1, BodyThenReturn
  <2>3. /\ Len(t) = 3
        /\ t[1] = Step("release", l) /\ t[2] = Put(l, o)
        /\ t[3].do = "return"
    BY <1>2, <1>3, ShortBodies
  <2>4. QED
    BY <2>1, <2>2, <2>3
<1> HIDE DEF steps
<1>6. /\ t[1].do = "release" /\ t[1].at = l
      /\ t[2].do = "set" /\ t[2].at = l /\ t[2].obj = o
  BY <1>5 DEF Step, Put
<1>7. /\ \A i \in 1 .. Len(t) : i = 1 \/ i = 2 \/ i = 3
      /\ \A i \in 1 .. Len(t) - 1 : i = 1 \/ i = 2
      /\ 1 \in 1 .. Len(t) /\ 2 \in 1 .. Len(t)
  BY <1>5
<1>8. OfCall(t[1])' /\ OfCall(t[2])' /\ OfCall(t[3])'
  BY <1>1, <1>4, <1>5, <1>6 DEF OfCall, Old
<1>9. Follows(t[1], t[2])' /\ Follows(t[2], t[3])'
  BY <1>4, <1>5, <1>6 DEF Follows, Rest
<1>10. StepsInOrder' /\ Uncounted' = {} /\ Dying' = {}
  <2>1. \A i \in 1 .. Len(t) :
          /\ t[i].do = "return" <=> i = Len(t)
          /\ t[i].do = "release" => i = 1
          /\ t[i].do = "read" => i + 2 = Len(t)
          /\ t[i].do # "free"
          /\ t[i].do \in {"null", "add_ref"} => i > 1 /\ t[i - 1].do = "read"
          /\ OfCall(t[i])'
    BY <1>5, <1>6, <1>7, <1>8
  <2>2. \A i \in 1 .. Len(t) - 1 : Follows(t[i], t[i + 1])'
    BY <1>7, <1>9
  <2>3. QED
    BY <1>4, <1>5, <2>1, <2>2, PlainBody
<1>11. ~SourceNeeded' /\ \A p \in Objs : Owed(p)' <=> p = o
  BY <1>1, <1>4, <1>5, <1>6, <1>7, PtrAssumption DEF SourceNeeded, Owed
<1>12. todo'[1].do = "release" /\ steps \in Seq(Steps)
  BY <1>4, <1>5, <1>6
<1>13. Begin("attach", l, o, steps) /\ "attach" \in CallNames \ {"none", "c_release"}
  BY <1>1 DEF steps, CallNames
<1>14. QED
  BY <1>1, <1>10, <1>11, <1>12, <1>13, BeginInv DEF Locs

(* as(): the output is emptied, then the query.                            *)
LEMMA QueryAsStep ==
  ASSUME PtrInv, NEW l \in Locs, NEW q \in Locs, QueryAs(q, l)
  PROVE  PtrInv'
<1>1. /\ Idle /\ l \in Nameable /\ q \in Nameable /\ raw' = raw
      /\ scope' = scope /\ live' = live /\ rc' = rc /\ val' = val /\ ub' = ub
      /\ Begin("as", l, q, As(q, l))
  BY DEF QueryAs
<1> DEFINE first == <<Step("release", l), Put(l, NULL)>>
           last == <<[do |-> "query", at |-> q, out |-> l]>>
           steps == As(q, l)
<1>2. /\ Step("release", l) \in Steps /\ Put(l, NULL) \in Steps
      /\ [do |-> "query", at |-> q, out |-> l] \in Steps
  BY StepsMade DEF Values
<1>3. PICK t : t = steps \o Return
  OBVIOUS
<1>4. todo' = t /\ call' = [op |-> "as", this |-> l, other |-> q, val |-> val]
  BY <1>1, <1>3 DEF Begin
<1>5. /\ t \in Seq(Steps) /\ t # <<>> /\ Len(t) = 4 /\ steps \in Seq(Steps)
      /\ t[1] = Step("release", l) /\ t[2] = Put(l, NULL) /\ t[3] = [do |-> "query", at |-> q, out |-> l]
      /\ t[4].do = "return"
  <2>1. steps = first \o last
    BY DEF As, Attach
  <2>2. /\ first \in Seq(Steps) /\ Len(first) = 2
        /\ first[1] = Step("release", l) /\ first[2] = Put(l, NULL)
        /\ last \in Seq(Steps) /\ Len(last) = 1
        /\ last[1] = [do |-> "query", at |-> q, out |-> l]
    BY <1>2
  <2> HIDE DEF first, last
  <2>3. /\ steps \in Seq(Steps) /\ Len(steps) = Len(first) + Len(last)
        /\ \A i \in 1 .. Len(first) + Len(last) :
             steps[i] = IF i <= Len(first) THEN first[i] ELSE last[i - Len(first)]
    BY <2>1, <2>2, Concat
  <2>4. /\ steps \in Seq(Steps) /\ Len(steps) = 3
        /\ steps[1] = Step("release", l) /\ steps[2] = Put(l, NULL)
        /\ steps[3] = [do |-> "query", at |-> q, out |-> l]
    BY <2>2, <2>3
  <2> HIDE DEF steps
  <2>5. /\ t \in Seq(Steps) /\ t # <<>> /\ Len(t) = Len(steps) + 1
        /\ \A i \in 1 .. Len(steps) : t[i] = steps[i]
        /\ t[Len(steps) + 1].do = "return"
    BY <1>3, <2>4, BodyThenReturn
  <2>6. /\ 1 \in 1 .. Len(steps) /\ 2 \in 1 .. Len(steps) /\ 3 \in 1 .. Len(steps)
        /\ Len(steps) + 1 = 4
    BY <2>4
  <2>7. QED
    BY <2>4, <2>5, <2>6
<1> HIDE DEF steps
<1>6. /\ t[1].do = "release" /\ t[1].at = l
      /\ t[2].do = "set" /\ t[2].at = l /\ t[2].obj = NULL
      /\ t[3].do = "query" /\ t[3].at = q /\ t[3].out = l
  BY <1>5 DEF Step, Put
<1>7. /\ \A i \in 1 .. Len(t) : i = 1 \/ i = 2 \/ i = 3 \/ i = 4
      /\ \A i \in 1 .. Len(t) - 1 : i = 1 \/ i = 2 \/ i = 3
      /\ 1 \in 1 .. Len(t) /\ 2 \in 1 .. Len(t) /\ 3 \in 1 .. Len(t)
  BY <1>5
<1>8. OfCall(t[1])' /\ OfCall(t[2])' /\ OfCall(t[3])' /\ OfCall(t[4])'
  BY <1>1, <1>4, <1>5, <1>6 DEF OfCall, Old
<1>9. Follows(t[1], t[2])' /\ Follows(t[2], t[3])' /\ Follows(t[3], t[4])'
  BY <1>4, <1>5, <1>6 DEF Follows, Rest
<1>10. StepsInOrder' /\ Uncounted' = {} /\ Dying' = {}
  <2>1. \A i \in 1 .. Len(t) :
          /\ t[i].do = "return" <=> i = Len(t)
          /\ t[i].do = "release" => i = 1
          /\ t[i].do = "read" => i + 2 = Len(t)
          /\ t[i].do # "free"
          /\ t[i].do \in {"null", "add_ref"} => i > 1 /\ t[i - 1].do = "read"
          /\ OfCall(t[i])'
    BY <1>5, <1>6, <1>7, <1>8
  <2>2. \A i \in 1 .. Len(t) - 1 : Follows(t[i], t[i + 1])'
    BY <1>7, <1>9
  <2>3. QED
    BY <1>4, <1>5, <2>1, <2>2, PlainBody
<1>11. \A o \in Objs : ~Owed(o)'
  BY <1>1, <1>4, <1>5, <1>6, <1>7, PtrAssumption DEF SourceNeeded, Owed
<1>12. todo'[1].do = "release" /\ steps \in Seq(Steps)
  BY <1>4, <1>5, <1>6
<1>13. Begin("as", l, q, steps) /\ "as" \in CallNames \ {"none", "c_release"}
  BY <1>1 DEF steps, CallNames
<1>14. QED
  BY <1>1, <1>10, <1>11, <1>12, <1>13, BeginInv DEF Locs

-----------------------------------------------------------------------------
(* What happens between the operations.                                    *)

(* A change between operations has to keep the counts, no more.            *)
LEMMA IdleInv ==
  ASSUME PtrInv, todo = <<>>, todo' = todo, call' = call, ub' = ub, ub = FALSE,
         live' \subseteq Objs, rc' \in [Objs -> Int], val' \in [Locs -> Values],
         scope' \subseteq Locals, raw' \in [Objs -> Nat],
         \A o \in Objs :
           /\ rc'[o] = Cardinality({l \in Storage' : val'[l] = o}) + raw'[o]
           /\ o \in live' <=> rc'[o] > 0,
         \A l \in Locs \ Storage' : val'[l] = NULL
  PROVE  PtrInv'
<1>1. Len(todo') = 0 /\ todo' = <<>>
  OBVIOUS
<1>2. Dying' = {} /\ Uncounted' = {} /\ \A o : ~Owed(o)'
  BY <1>1 DEF Dying, Uncounted, Owed
<1>3. PtrShape'
  BY <1>1 DEF PtrInv, PtrShape
<1>4. CountsAddUp' /\ LiveIsCounted'
  <2>1. \A o : Counted(o)' = {l \in Storage' : val'[l] = o}
    BY <1>2 DEF Counted
  <2>2. \A o \in Objs : raw'[o] \in Nat /\ Counted(o)' \in SUBSET Locs
    <3>1. Storage' \subseteq Locs
      BY DEF Storage, Locs
    <3>2. QED
      BY <2>1, <3>1
  <2>3. \A o \in Objs : Cardinality(Counted(o)') \in Nat
    BY <2>2, LocSets
  <2>4. CountsAddUp'
    BY <1>2, <2>1, <2>2, <2>3 DEF CountsAddUp
  <2>5. LiveIsCounted'
    BY <1>2 DEF LiveIsCounted
  <2>6. QED
    BY <2>4, <2>5
<1>5. GoneIsNull'
  BY DEF GoneIsNull
<1>6. StepsInOrder' /\ NextStepReady' /\ ThisStays' /\ SourceStays' /\ ResultSoFar'
  BY <1>1 DEF StepsInOrder, NextStepReady, ThisStays, SourceStays, SourceNeeded, ResultSoFar
<1>7. OnlyInnerSourceDangles'
  BY DEF OnlyInnerSourceDangles
<1>8. QED
  BY <1>3, <1>4, <1>5, <1>6, <1>7 DEF PtrInv

(* Between operations every pointer is counted.                            *)
LEMMA IdleCounts ==
  ASSUME PtrInv, Idle
  PROVE  /\ todo = <<>> /\ ub = FALSE
         /\ live \subseteq Objs /\ rc \in [Objs -> Int] /\ val \in [Locs -> Values]
         /\ scope \subseteq Locals /\ raw \in [Objs -> Nat]
         /\ NULL \notin Objs /\ NULL \notin Locs /\ Storage \subseteq Locs
         /\ \A o \in Objs :
              /\ rc[o] = Cardinality({l \in Storage : val[l] = o}) + raw[o]
              /\ Cardinality({l \in Storage : val[l] = o}) \in Nat
              /\ o \in live <=> rc[o] > 0
         /\ \A l \in Locs \ Storage : val[l] = NULL
<1>1. todo = <<>> /\ ub = FALSE
  BY DEF Idle, PtrInv, PtrShape
<1>2. Dying = {} /\ Uncounted = {} /\ \A o : ~Owed(o)
  BY <1>1, IdleSets
<1>3. \A o : Counted(o) = {l \in Storage : val[l] = o}
  BY <1>2 DEF Counted
<1>4. PtrShape /\ Storage \subseteq Locs /\ NULL \notin Locs /\ NULL \notin Objs
  BY Places, PtrAssumption DEF PtrInv
<1>5. ASSUME NEW o \in Objs
      PROVE  /\ rc[o] = Cardinality({l \in Storage : val[l] = o}) + raw[o]
             /\ Cardinality({l \in Storage : val[l] = o}) \in Nat
             /\ o \in live <=> rc[o] > 0
  <2>1. Cardinality(Counted(o)) \in Nat /\ raw[o] \in Nat
    BY <1>4, Places, LocSets DEF PtrShape
  <2>2. rc[o] = Cardinality(Counted(o)) + raw[o]
    BY <1>2, <2>1 DEF PtrInv, CountsAddUp
  <2>3. o \in live <=> rc[o] > 0
    BY <1>2 DEF PtrInv, LiveIsCounted
  <2>4. QED
    BY <1>3, <2>1, <2>2, <2>3
<1>6. QED
  BY <1>1, <1>4, <1>5 DEF PtrInv, PtrShape, GoneIsNull

LEMMA ConstructNullStep ==
  ASSUME PtrInv, NEW l \in Locs, ConstructNull(l)
  PROVE  PtrInv'
<1>1. /\ Idle /\ l \in Locals \ scope /\ scope' = scope \union {l}
      /\ live' = live /\ rc' = rc /\ val' = val /\ raw' = raw
      /\ todo' = todo /\ call' = call /\ ub' = ub
  BY DEF ConstructNull
<1>2. l \notin Storage /\ val[l] = NULL /\ Storage' = Storage \union {l}
  <2>1. l \notin Storage
    BY <1>1, IdleCounts, PtrAssumption DEF Storage
  <2>2. QED
    BY <1>1, <2>1, IdleCounts DEF Storage
<1>3. \A o \in Objs : {k \in Storage' : val'[k] = o} = {k \in Storage : val[k] = o}
  BY <1>1, <1>2, PtrAssumption
<1>4. QED
  BY <1>1, <1>2, <1>3, IdleCounts, IdleInv

LEMMA DetachStep ==
  ASSUME PtrInv, NEW l \in Locs, Detach(l)
  PROVE  PtrInv'
<1>1. /\ Idle /\ l \in Nameable /\ val[l] # NULL
      /\ raw' = [raw EXCEPT ![val[l]] = @ + 1] /\ val' = [val EXCEPT ![l] = NULL]
      /\ scope' = scope /\ live' = live /\ rc' = rc
      /\ todo' = todo /\ call' = call /\ ub' = ub
  BY DEF Detach
<1>2. PICK p : p = val[l]
  OBVIOUS
<1>3. /\ p \in Objs /\ l \in Storage /\ Storage' = Storage
  BY <1>1, <1>2, IdleCounts, ReachableIsLive DEF Storage, Values
<1>4. /\ raw' \in [Objs -> Nat] /\ val' \in [Locs -> Values]
      /\ \A o \in Objs : raw'[o] = IF o = p THEN raw[o] + 1 ELSE raw[o]
      /\ \A k \in Locs : val'[k] = IF k = l THEN NULL ELSE val[k]
  BY <1>1, <1>2, <1>3, IdleCounts DEF Values
<1>5. ASSUME NEW o \in Objs
      PROVE  /\ rc'[o] = Cardinality({k \in Storage' : val'[k] = o}) + raw'[o]
             /\ o \in live' <=> rc'[o] > 0
  <2>1. PICK A : A = {k \in Storage : val[k] = o}
    OBVIOUS
  <2>2. A \in SUBSET Locs /\ (l \in A <=> o = p)
    BY <1>1, <1>2, <1>3, <2>1, IdleCounts
  <2>3. {k \in Storage' : val'[k] = o} = A \ {l}
    BY <1>1, <1>3, <1>4, <2>1, IdleCounts
  <2>4. Cardinality(A) \in Nat /\ (l \in A => Cardinality(A \ {l}) = Cardinality(A) - 1)
    BY <2>2, LocSets
  <2>5. rc[o] = Cardinality(A) + raw[o] /\ raw[o] \in Nat
    BY <1>1, <2>1, IdleCounts
  <2>6. l \notin A => A \ {l} = A
    OBVIOUS
  <2>7. rc'[o] = Cardinality(A \ {l}) + raw'[o]
    <3>1. rc'[o] = rc[o]
      BY <1>1
    <3>2. CASE o = p
      <4>1. raw'[o] = raw[o] + 1 /\ Cardinality(A \ {l}) = Cardinality(A) - 1
        BY <1>4, <2>2, <2>4, <3>2
      <4>2. QED
        BY <2>4, <2>5, <3>1, <4>1
    <3>3. CASE o # p
      <4>1. raw'[o] = raw[o] /\ A \ {l} = A
        BY <1>4, <2>2, <2>6, <3>3
      <4>2. QED
        BY <2>5, <3>1, <4>1
    <3>4. QED
      BY <3>2, <3>3
  <2>8. QED
    BY <1>1, <2>3, <2>7, IdleCounts
<1>6. \A k \in Locs \ Storage' : val'[k] = NULL
  BY <1>1, <1>3, <1>4, IdleCounts
<1>7. QED
  BY <1>1, <1>4, <1>5, <1>6, IdleCounts, IdleInv

LEMMA CCreateStep ==
  ASSUME PtrInv, NEW p \in Objs, CCreate(p)
  PROVE  PtrInv'
<1>1. /\ Idle /\ p \notin live /\ live' = live \union {p}
      /\ rc' = [rc EXCEPT ![p] = 1] /\ raw' = [raw EXCEPT ![p] = 1]
      /\ val' = [val EXCEPT ![p] = NULL] /\ scope' = scope
      /\ todo' = todo /\ call' = call /\ ub' = ub
  BY DEF CCreate
<1>2. p \in Locs /\ Storage' = Storage \union {p} /\ p \notin Storage
  BY <1>1, IdleCounts, PtrAssumption DEF Storage, Locs
<1>3. /\ raw' \in [Objs -> Nat] /\ val' \in [Locs -> Values] /\ rc' \in [Objs -> Int]
      /\ \A o \in Objs : raw'[o] = IF o = p THEN 1 ELSE raw[o]
      /\ \A o \in Objs : rc'[o] = IF o = p THEN 1 ELSE rc[o]
      /\ \A k \in Locs : val'[k] = IF k = p THEN NULL ELSE val[k]
  BY <1>1, <1>2, IdleCounts DEF Values
<1>4. ASSUME NEW o \in Objs
      PROVE  /\ rc'[o] = Cardinality({k \in Storage' : val'[k] = o}) + raw'[o]
             /\ o \in live' <=> rc'[o] > 0
  <2>1. PICK A : A = {k \in Storage : val[k] = o}
    OBVIOUS
  <2>2. {k \in Storage' : val'[k] = o} = A
    BY <1>1, <1>2, <1>3, <2>1, IdleCounts
  <2>3. /\ rc[o] = Cardinality(A) + raw[o] /\ raw[o] \in Nat /\ Cardinality(A) \in Nat
        /\ o \in live <=> rc[o] > 0
    BY <1>1, <2>1, IdleCounts
  <2>4. o = p => Cardinality(A) = 0
    BY <1>1, <2>3
  <2>5. rc'[o] = Cardinality(A) + raw'[o]
    BY <1>3, <2>3, <2>4
  <2>6. o \in live' <=> rc'[o] > 0
    BY <1>1, <1>3, <2>3
  <2>7. QED
    BY <2>2, <2>5, <2>6
<1>5. \A k \in Locs \ Storage' : val'[k] = NULL
  BY <1>1, <1>2, <1>3, IdleCounts
<1>6. live' \subseteq Objs /\ scope' \subseteq Locals
  BY <1>1, IdleCounts
<1>7. QED
  BY <1>1, <1>3, <1>4, <1>5, <1>6, IdleCounts, IdleInv

LEMMA CAddRefStep ==
  ASSUME PtrInv, NEW p \in Objs, CAddRef(p)
  PROVE  PtrInv'
<1>1. /\ Idle /\ p \in Reachable /\ live' = live
      /\ rc' = [rc EXCEPT ![p] = @ + 1] /\ raw' = [raw EXCEPT ![p] = @ + 1]
      /\ val' = val /\ scope' = scope
      /\ todo' = todo /\ call' = call /\ ub' = ub
  BY DEF CAddRef
<1>2. p \in live /\ Storage' = Storage
  BY <1>1, IdleCounts, ReachableIsLive DEF Storage
<1>3. /\ raw' \in [Objs -> Nat] /\ rc' \in [Objs -> Int]
      /\ \A o \in Objs : raw'[o] = IF o = p THEN raw[o] + 1 ELSE raw[o]
      /\ \A o \in Objs : rc'[o] = IF o = p THEN rc[o] + 1 ELSE rc[o]
  BY <1>1, IdleCounts
<1>4. ASSUME NEW o \in Objs
      PROVE  /\ rc'[o] = Cardinality({k \in Storage' : val'[k] = o}) + raw'[o]
             /\ o \in live' <=> rc'[o] > 0
  <2>1. PICK A : A = {k \in Storage : val[k] = o}
    OBVIOUS
  <2>2. {k \in Storage' : val'[k] = o} = A
    BY <1>1, <1>2, <2>1
  <2>3. /\ rc[o] = Cardinality(A) + raw[o] /\ raw[o] \in Nat /\ Cardinality(A) \in Nat
        /\ o \in live <=> rc[o] > 0
    BY <1>1, <2>1, IdleCounts
  <2>4. rc'[o] = Cardinality(A) + raw'[o]
    BY <1>3, <2>3
  <2>5. o \in live' <=> rc'[o] > 0
    BY <1>1, <1>2, <1>3, <2>3
  <2>6. QED
    BY <2>2, <2>4, <2>5
<1>5. \A k \in Locs \ Storage' : val'[k] = NULL
  BY <1>1, <1>2, IdleCounts
<1>6. QED
  BY <1>1, <1>3, <1>4, <1>5, IdleCounts, IdleInv

(* C code gives a reference back: the last one sets off a destruction.     *)
LEMMA CReleaseStep ==
  ASSUME PtrInv, NEW p \in Objs, CRelease(p)
  PROVE  PtrInv'
<1>1. /\ Idle /\ raw[p] > 0 /\ live' = live
      /\ raw' = [raw EXCEPT ![p] = @ - 1] /\ rc' = [rc EXCEPT ![p] = @ - 1]
      /\ Begin("c_release", NULL, NULL, IF rc[p] = 1 THEN Destruction(p) ELSE <<>>)
      /\ val' = val /\ scope' = scope /\ ub' = ub
  BY DEF CRelease
<1>2. PICK t : t = todo'
  OBVIOUS
<1>3. /\ call' = [op |-> "c_release", this |-> NULL, other |-> NULL, val |-> val]
      /\ t = (IF rc[p] = 1 THEN Destruction(p) ELSE <<>>) \o Return
  BY <1>1, <1>2 DEF Begin
<1>4. Storage' = Storage /\ p \in Locs
  BY <1>1 DEF Storage, Locs
<1>5. rc[p] >= 1 /\ p \in live
  <2>1. /\ rc[p] = Cardinality({l \in Storage : val[l] = p}) + raw[p]
        /\ Cardinality({l \in Storage : val[l] = p}) \in Nat
        /\ raw[p] \in Nat /\ (p \in live <=> rc[p] > 0)
    BY <1>1, IdleCounts
  <2>2. QED
    BY <1>1, <2>1
<1>6. /\ t \in Seq(Steps) /\ t # <<>>
      /\ \/ /\ rc[p] = 1 /\ Len(t) = 3
            /\ t[1].do = "release" /\ t[1].at = p
            /\ t[2].do = "free" /\ t[2].at = p /\ t[3].do = "return"
         \/ rc[p] # 1 /\ Len(t) = 1 /\ t[1].do = "return"
  <2>1. /\ Step("release", p) \in Steps /\ Step("free", p) \in Steps
        /\ Step("release", p).do = "release" /\ Step("release", p).at = p
        /\ Step("free", p).do = "free" /\ Step("free", p).at = p
    BY StepsMade DEF Step
  <2>2. <<Step("release", p), Step("free", p)>> \in Seq(Steps) /\ <<>> \in Seq(Steps)
    BY <2>1, ShortBodies
  <2>3. CASE rc[p] = 1
    <3>1. t = <<Step("release", p), Step("free", p)>> \o Return
      BY <1>3, <2>3 DEF Destruction
    <3>2. t \in Seq(Steps) /\ t # <<>>
      BY <2>2, <3>1, BodyThenReturn
    <3>3. /\ Len(t) = 3 /\ t[1] = Step("release", p) /\ t[2] = Step("free", p)
          /\ t[3].do = "return"
      BY <2>1, <3>1, ShortBodies
    <3>4. QED
      BY <2>1, <2>3, <3>2, <3>3
  <2>4. CASE rc[p] # 1
    <3>1. t = <<>> \o Return
      BY <1>3, <2>4
    <3>2. t \in Seq(Steps) /\ t # <<>>
      BY <2>2, <3>1, BodyThenReturn
    <3>3. Len(t) = 1 /\ t[1].do = "return"
      BY <2>1, <3>1, ShortBodies
    <3>4. QED
      BY <2>4, <3>2, <3>3
  <2>5. QED
    BY <2>3, <2>4
<1>7. \A i \in 1 .. Len(t) : i = 1 \/ (rc[p] = 1 /\ (i = 2 \/ i = 3))
  <2>1. CASE rc[p] = 1
    <3>1. Len(t) = 3
      BY <1>6, <2>1
    <3>2. QED
      BY <2>1, <3>1
  <2>2. CASE rc[p] # 1
    <3>1. Len(t) = 1
      BY <1>6, <2>2
    <3>2. QED
      BY <3>1
  <2>3. QED
    BY <2>1, <2>2
<1>8. /\ Dying' = IF rc[p] = 1 THEN {p} ELSE {}
      /\ Uncounted' = {} /\ (\A o : ~Owed(o)') /\ ~SourceNeeded'
  <2>1. \A i \in 1 .. Len(t) : t[i].do \in {"release", "free", "return"}
    BY <1>6, <1>7
  <2>2. Uncounted' = {} /\ (\A o : ~Owed(o)') /\ ~SourceNeeded'
    BY <1>2, <2>1 DEF Uncounted, Uncounts, Owed, SourceNeeded
  <2>3. Dying' = IF rc[p] = 1 THEN {p} ELSE {}
    <3>1. rc[p] = 1 => 2 \in 1 .. Len(t)
      <4>1. rc[p] = 1 => Len(t) = 3
        BY <1>6
      <4>2. QED
        BY <4>1
    <3>2. QED
      BY <1>2, <1>6, <1>7, <3>1 DEF Dying
  <2>4. QED
    BY <2>2, <2>3
<1>9. /\ raw' \in [Objs -> Nat] /\ rc' \in [Objs -> Int]
      /\ \A o \in Objs : raw'[o] = IF o = p THEN raw[o] - 1 ELSE raw[o]
      /\ \A o \in Objs : rc'[o] = IF o = p THEN rc[o] - 1 ELSE rc[o]
  BY <1>1, IdleCounts
<1>10. PtrShape'
  <2>1. call' \in [op : CallNames, this : Locs \union {NULL}, other : Locs \union {NULL},
                   val : [Locs -> Values]]
    BY <1>1, <1>3, IdleCounts DEF CallNames
  <2>2. call'.this = NULL /\ call'.op = "c_release"
    BY <1>3
  <2>3. QED
    BY <1>1, <1>2, <1>6, <1>9, <2>1, <2>2, IdleCounts DEF PtrShape
<1>11. CountsAddUp'
  <2>1. ASSUME NEW o \in Objs
        PROVE  rc'[o] = Cardinality(Counted(o)') + raw'[o] + (IF Owed(o)' THEN 1 ELSE 0)
    <3>1. Counted(o)' = {l \in Storage : val[l] = o}
      BY <1>1, <1>4, <1>8 DEF Counted
    <3>2. rc[o] = Cardinality({l \in Storage : val[l] = o}) + raw[o] /\ raw[o] \in Nat
      BY <1>1, IdleCounts
    <3>3. Cardinality({l \in Storage : val[l] = o}) \in Nat
      BY <1>1, IdleCounts
    <3>4. QED
      BY <1>8, <1>9, <3>1, <3>2, <3>3
  <2>2. QED
    BY <2>1 DEF CountsAddUp
<1>12. LiveIsCounted'
  <2>1. ASSUME NEW o \in Objs
        PROVE  /\ o \in live' <=> rc'[o] > 0 \/ o \in Dying'
               /\ o \in Dying' => rc'[o] = 0
    <3>1. o \in live <=> rc[o] > 0
      BY <1>1, IdleCounts
    <3>2. rc[o] \in Int
      BY <1>1, IdleCounts
    <3>3. QED
      BY <1>1, <1>5, <1>8, <1>9, <3>1, <3>2
  <2>2. QED
    BY <2>1 DEF LiveIsCounted
<1>13. GoneIsNull'
  BY <1>1, <1>4, IdleCounts DEF GoneIsNull
<1>14. StepsInOrder'
  <2>1. \A i \in 1 .. Len(t) :
          /\ t[i].do = "return" <=> i = Len(t)
          /\ t[i].do = "release" => i = 1
          /\ t[i].do # "read" /\ t[i].do # "null"
    BY <1>6, <1>7
  <2>2. \A i \in 1 .. Len(t) : OfCall(t[i])'
    <3>1. OfCall(t[1])' /\ (rc[p] = 1 => OfCall(t[2])' /\ OfCall(t[3])')
      BY <1>6 DEF OfCall
    <3>2. QED
      BY <1>7, <3>1
  <2>3. \A i \in 1 .. Len(t) - 1 : Follows(t[i], t[i + 1])'
    <3>1. \A i \in 1 .. Len(t) - 1 : rc[p] = 1 /\ (i = 1 \/ i = 2)
      <4>1. CASE rc[p] = 1
        <5>1. Len(t) = 3
          BY <1>6, <4>1
        <5>2. QED
          BY <4>1, <5>1
      <4>2. CASE rc[p] # 1
        <5>1. Len(t) = 1
          BY <1>6, <4>2
        <5>2. QED
          BY <5>1
      <4>3. QED
        BY <4>1, <4>2
    <3>2. rc[p] = 1 => Follows(t[1], t[1 + 1])' /\ Follows(t[2], t[2 + 1])'
      BY <1>3, <1>6 DEF Follows
    <3>3. QED
      BY <3>1, <3>2
  <2>4. \A i, j \in 1 .. Len(t) : t[i].do = "free" /\ t[j].do = "free" => i = j
    BY <1>6, <1>7
  <2>5. \A i \in 2 .. Len(t) - 1 : i \in 1 .. Len(t)
    BY <1>6
  <2>6. QED
    BY <1>2, <2>1, <2>2, <2>3, <2>4, <2>5 DEF StepsInOrder
<1>15. NextStepReady'
  BY <1>2, <1>6 DEF NextStepReady
<1>16. ThisStays'
  <2>1. call'.this = NULL /\ NULL \notin Objs
    BY <1>3, PtrAssumption
  <2>2. QED
    BY <1>8, <2>1 DEF ThisStays, Anchored
<1>17. SourceStays'
  BY <1>8 DEF SourceStays
<1>18. ResultSoFar'
  <2>1. /\ call'.op = "c_release" /\ \A l \in Locs : call'.val[l] = val[l]
    BY <1>3
  <2>2. Storage' \subseteq Locs
    BY <1>1, <1>4, IdleCounts
  <2>3. QED
    BY <1>1, <2>1, <2>2 DEF ResultSoFar, Old
<1>19. OnlyInnerSourceDangles'
  BY <1>1, IdleCounts DEF OnlyInnerSourceDangles
<1>20. QED
  BY <1>10, <1>11, <1>12, <1>13, <1>14, <1>15, <1>16, <1>17, <1>18, <1>19 DEF PtrInv

-----------------------------------------------------------------------------
(* The invariant.                                                          *)

LEMMA InitInv ==
  ASSUME PtrInit
  PROVE  PtrInv
<1>1. /\ live = {} /\ rc = [o \in Objs |-> 0] /\ val = [l \in Locs |-> NULL]
      /\ scope = Locals /\ raw = [o \in Objs |-> 0]
      /\ todo = <<>> /\ call = NoCall /\ ub = FALSE /\ Len(todo) = 0
  BY DEF PtrInit
<1>2. Dying = {} /\ Uncounted = {} /\ \A o : ~Owed(o)
  BY <1>1, IdleSets
<1>3. NULL \notin Objs
  BY PtrAssumption
<1>4. PtrShape
  <2>1. call \in [op : CallNames, this : Locs \union {NULL}, other : Locs \union {NULL},
                  val : [Locs -> Values]]
    BY <1>1 DEF NoCall, CallNames, Values
  <2>2. call.this = NULL /\ call.op = "none"
    BY <1>1 DEF NoCall
  <2>3. val \in [Locs -> Values] /\ rc \in [Objs -> Int] /\ raw \in [Objs -> Nat]
    BY <1>1 DEF Values
  <2>4. todo \in Seq(Steps) /\ live \subseteq Objs /\ scope \subseteq Locals
    BY <1>1
  <2>5. ub \in BOOLEAN
    BY <1>1
  <2>6. call.this = NULL <=> call.op \in {"none", "c_release"}
    BY <2>2
  <2>7. QED
    BY <2>1, <2>3, <2>4, <2>5, <2>6 DEF PtrShape
<1>5. CountsAddUp
  <2>1. ASSUME NEW o \in Objs
        PROVE  Counted(o) = {} /\ rc[o] = 0 /\ raw[o] = 0
    <3>1. \A l \in Storage : val[l] = NULL
      BY <1>1 DEF Storage, Locs
    <3>2. QED
      BY <1>1, <1>2, <1>3, <3>1 DEF Counted
  <2>2. Cardinality({}) = 0
    BY FS_EmptySet
  <2>3. QED
    BY <1>2, <2>1, <2>2 DEF CountsAddUp
<1>6. LiveIsCounted
  BY <1>1, <1>2 DEF LiveIsCounted
<1>7. GoneIsNull
  BY <1>1 DEF GoneIsNull
<1>8. StepsInOrder /\ NextStepReady /\ ThisStays /\ SourceStays /\ ResultSoFar
  BY <1>1 DEF StepsInOrder, NextStepReady, ThisStays, SourceStays, SourceNeeded, ResultSoFar
<1>9. OnlyInnerSourceDangles
  BY <1>1 DEF OnlyInnerSourceDangles
<1>10. QED
  BY <1>4, <1>5, <1>6, <1>7, <1>8, <1>9 DEF PtrInv

LEMMA WriteStep ==
  ASSUME PtrInv, DoWrite
  PROVE  PtrInv'
<1>1. Now.do = "null" \/ Now.do = "read" \/ Now.do = "set"
  BY DEF DoWrite, Sound, Doing
<1>2. QED
  BY <1>1, NullStep, ReadStep, SetStep

(* What the invariant says is about the variables only.                    *)
LEMMA StutterStep ==
  ASSUME PtrInv, UNCHANGED vars
  PROVE  PtrInv'
<1>1. /\ live' = live /\ rc' = rc /\ val' = val /\ scope' = scope /\ raw' = raw
      /\ todo' = todo /\ call' = call /\ ub' = ub
  BY DEF vars
<1>2. /\ Dying' = Dying /\ Uncounted' = Uncounted /\ Storage' = Storage
      /\ \A o : Owed(o)' <=> Owed(o)
  BY <1>1 DEF Dying, Uncounted, Uncounts, Storage, Owed
<1>3. PtrShape'
  BY <1>1 DEF PtrInv, PtrShape
<1>4. CountsAddUp'
  <2>1. \A o : Counted(o)' = Counted(o)
    BY <1>1, <1>2 DEF Counted
  <2>2. QED
    BY <1>1, <1>2, <2>1 DEF PtrInv, CountsAddUp
<1>5. LiveIsCounted' /\ GoneIsNull'
  BY <1>1, <1>2 DEF PtrInv, LiveIsCounted, GoneIsNull
<1>6. StepsInOrder' /\ NextStepReady'
  <2>1. StepsInOrder'
    BY <1>1 DEF PtrInv, StepsInOrder, Follows, Rest, OfCall, Old
  <2>2. NextStepReady'
    BY <1>1, <1>2 DEF PtrInv, NextStepReady
  <2>3. QED
    BY <2>1, <2>2
<1>7. \A x : Anchored(x)' <=> Anchored(x)
  BY <1>1, <1>2 DEF Anchored
<1>8. ThisStays'
  BY <1>1, <1>2, <1>7 DEF PtrInv, ThisStays, Releasing
<1>9. ReachableWithout(call.this, call.val)' = ReachableWithout(call.this, call.val)
  BY <1>1 DEF ReachableWithout
<1>10. SourceStays'
  BY <1>1, <1>2, <1>7, <1>9 DEF PtrInv, SourceStays, SourceNeeded
<1>11. ResultSoFar'
  BY <1>1, <1>2 DEF PtrInv, ResultSoFar, Returning, ReadAhead, Old
<1>12. OnlyInnerSourceDangles'
  BY <1>1, <1>9 DEF PtrInv, OnlyInnerSourceDangles
<1>13. QED
  BY <1>3, <1>4, <1>5, <1>6, <1>8, <1>10, <1>11, <1>12 DEF PtrInv

LEMMA NextInv ==
  ASSUME PtrInv, [PtrNext]_vars
  PROVE  PtrInv'
<1>1. ASSUME NEW l \in Locs,
             \/ ConstructNull(l) \/ Destruct(l) \/ Reset(l) \/ Detach(l)
             \/ \E q \in Locs : Construct(l, q) \/ Assign(l, q) \/ QueryAs(q, l)
             \/ \E o \in Objs : TakeOver(l, o)
      PROVE  PtrInv'
  BY <1>1, ConstructNullStep, DestructStep, ResetStep, DetachStep, ConstructStep, AssignStep,
     QueryAsStep, TakeOverStep
<1>2. ASSUME NEW o \in Objs, CCreate(o) \/ CAddRef(o) \/ CRelease(o)
      PROVE  PtrInv'
  BY <1>2, CCreateStep, CAddRefStep, CReleaseStep
<1>3. CASE DoRelease
  BY <1>3, EmptyRelease, CalledRelease
<1>4. CASE DoAddRef \/ DoWrite \/ DoQuery
  BY <1>4, AddRefStep, WriteStep, QueryStep
<1>5. CASE DoFree \/ DoLeave \/ DoReturn
  BY <1>5, FreeStep, LeaveStep, ReturnStep
<1>6. CASE Crash
  BY <1>6, CrashStep
<1>7. CASE Crashed \/ UNCHANGED vars
  BY <1>7, StutterStep DEF Crashed
<1>8. QED
  BY <1>1, <1>2, <1>3, <1>4, <1>5, <1>6, <1>7 DEF PtrNext

(* The bookkeeping of every operation, at every step of it and inside the  *)
(* destructions it sets off: each counted reference has exactly one owner, *)
(* each object is there while it is counted or its destruction is running, *)
(* and the pointers that the rest of the operation uses are there.         *)
THEOREM PtrInvariant == PtrSpec => []PtrInv
<1>1. PtrInit => PtrInv
  BY InitInv
<1>2. PtrInv /\ [PtrNext]_vars => PtrInv'
  BY NextInv
<1>3. QED
  BY <1>1, <1>2, PTL DEF PtrSpec

-----------------------------------------------------------------------------
(* The properties.                                                         *)

(* Nothing is left to do but to return.                                    *)
LEMMA DoneSets ==
  ASSUME PtrInv, Done
  PROVE  /\ Len(todo) = 1 /\ todo[1].do = "return" /\ todo # <<>>
         /\ Dying = {} /\ Uncounted = {} /\ \A o \in Objs : ~Owed(o)
<1>1. todo = <<Step("return", NULL)>>
  BY DEF Done, Return
<1>2. Len(todo) = 1 /\ todo[1] = Step("return", NULL) /\ todo # <<>>
  BY <1>1
<1>3. todo[1].do = "return"
  BY <1>2 DEF Step
<1>4. \A i \in 1 .. Len(todo) : todo[i].do = "return"
  BY <1>2, <1>3
<1>5. QED
  BY <1>2, <1>3, <1>4 DEF Dying, Uncounted, Uncounts, Owed

(* No leak and no double release: whatever the client called, and whatever *)
(* objects were destroyed on the way, when the operation returns the count *)
(* of every object is the number of its pointers and of the references of  *)
(* C code, and the object is there exactly while that number is positive.  *)
THEOREM PointersCounted == PtrSpec => []CountIsPointers
<1>1. ASSUME PtrInv
      PROVE  CountIsPointers
  <2>1. SUFFICES ASSUME Done, NEW o \in Objs
                 PROVE  /\ o \in live =>
                             rc[o] = Cardinality({l \in Storage : val[l] = o}) + raw[o]
                        /\ (o \in live) = (rc[o] > 0)
    BY DEF CountIsPointers
  <2>2. Dying = {} /\ Uncounted = {} /\ ~Owed(o)
    BY <1>1, <2>1, DoneSets
  <2>3. Counted(o) = {l \in Storage : val[l] = o}
    BY <2>2 DEF Counted
  <2>4. PtrShape
    BY <1>1 DEF PtrInv
  <2>5. Cardinality(Counted(o)) \in Nat /\ raw[o] \in Nat
    BY <2>4, Places, LocSets DEF PtrShape
  <2>6. rc[o] = Cardinality(Counted(o)) + raw[o]
    BY <1>1, <2>2, <2>5 DEF PtrInv, CountsAddUp
  <2>7. o \in live <=> rc[o] > 0
    BY <1>1, <2>2 DEF PtrInv, LiveIsCounted
  <2>8. QED
    BY <2>3, <2>6, <2>7
<1>2. QED
  BY <1>1, PtrInvariant, PTL

(* Every operation gives its pointer the value that its source had when it *)
(* was called, and changes no other pointer that outlives it.              *)
THEOREM ResultsCorrect == PtrSpec => []OperationResult
<1>1. ASSUME PtrInv
      PROVE  OperationResult
  <2>1. SUFFICES ASSUME Done, NEW l \in Storage
                 PROVE  val[l] \in Result(l)
    BY DEF OperationResult
  <2>2. todo # <<>> /\ Dying = {} /\ Returning /\ ~ReadAhead
    <3>1. Len(todo) = 1 /\ todo[1].do = "return" /\ todo # <<>> /\ Dying = {}
      BY <1>1, <2>1, DoneSets
    <3>2. \A i \in 1 .. Len(todo) : i = 1
      BY <3>1
    <3>3. QED
      BY <3>1, <3>2 DEF Returning, ReadAhead
  <2>3. /\ l # call.this =>
             val[l] = IF call.op = "move" /\ l = call.other THEN NULL ELSE Old(l)
        /\ call.op \in {"copy", "move"} => val[call.this] = Old(call.other)
        /\ call.op \in {"null", "destruct"} => val[call.this] = NULL
        /\ call.op = "attach" => val[call.this] = call.other
        /\ call.op = "as" =>
             \/ val[call.this] = NULL
             \/ val[call.this] = Old(call.other) /\ call.this # call.other
    BY <1>1, <2>1, <2>2 DEF PtrInv, ResultSoFar
  <2>4. CASE l # call.this
    BY <2>3, <2>4 DEF Result
  <2>5. CASE l = call.this
    <3>1. /\ call.op \in CallNames
          /\ call.this = NULL <=> call.op \in {"none", "c_release"}
          /\ NULL \notin Storage
      BY <1>1, Places, PtrAssumption DEF PtrInv, PtrShape
    <3>2. call.op \in {"copy", "move", "null", "destruct", "attach", "as"}
      BY <2>1, <2>5, <3>1 DEF CallNames
    <3>3. CASE call.op \in {"copy", "move"}
      <4>1. Result(l) = {Old(call.other)}
        BY <2>5, <3>3 DEF Result
      <4>2. QED
        BY <2>3, <2>5, <3>3, <4>1
    <3>4. CASE call.op \in {"null", "destruct"}
      BY <2>3, <2>5, <3>4 DEF Result
    <3>5. CASE call.op = "attach"
      BY <2>3, <2>5, <3>5 DEF Result
    <3>6. CASE call.op = "as"
      <4>1. Result(l) = IF call.this = call.other THEN {NULL} ELSE {NULL, Old(call.other)}
        BY <2>5, <3>6 DEF Result
      <4>2. QED
        BY <2>3, <2>5, <3>6, <4>1
    <3>7. QED
      BY <3>2, <3>3, <3>4, <3>5, <3>6
  <2>6. QED
    BY <2>4, <2>5
<1>2. QED
  BY <1>1, PtrInvariant, PTL

(* Memory is touched after it is gone in one case only: the pointer an     *)
(* assignment or as() reads was a member of an object that nothing but the *)
(* pointer it overwrites kept reachable, as in head = head->next.          *)
THEOREM OtherUsesSound == PtrSpec => []OnlyInnerSourceDangles
<1>1. PtrInv => OnlyInnerSourceDangles
  BY DEF PtrInv
<1>2. QED
  BY <1>1, PtrInvariant, PTL

-----------------------------------------------------------------------------
(* Types: how far the counts go.  C code owns at most MaxRaw references,   *)
(* and one that the operation holds is either one of those, which C code   *)
(* has just given up, or is for a pointer that is empty.                   *)

RawRefs == UNION {{o} \X (1 .. raw[o]) : o \in Objs}

RawBound ==
  /\ IsFiniteSet(RawRefs)
  /\ Cardinality(RawRefs) <= MaxRaw

OwedBound ==
  \A o \in Objs :
    Owed(o) => \/ Cardinality(RawRefs) < MaxRaw
               \/ call.this \in Locs /\ val[call.this] = NULL

LEMMA RawTotalIsRefs ==
  RawTotal = Cardinality(RawRefs)
BY DEF RawTotal, RawRefs

(* One reference more, or one less.                                        *)
LEMMA RawGained ==
  ASSUME PtrShape, RawBound, NEW o \in Objs, Cardinality(RawRefs) < MaxRaw,
         raw' = [raw EXCEPT ![o] = raw[o] + 1]
  PROVE  RawBound'
<1>1. raw[o] \in Nat /\ raw'[o] = raw[o] + 1 /\ \A p \in Objs \ {o} : raw'[p] = raw[p]
  BY DEF PtrShape
<1>2. PICK n : n = raw[o] + 1
  OBVIOUS
<1>3. 1 .. n = (1 .. raw[o]) \union {n} /\ raw'[o] = n
  BY <1>1, <1>2
<1>4. RawRefs' = RawRefs \union {<<o, n>>}
  BY <1>1, <1>3 DEF RawRefs
<1>5. /\ IsFiniteSet(RawRefs')
      /\ \/ Cardinality(RawRefs') = Cardinality(RawRefs)
         \/ Cardinality(RawRefs') = Cardinality(RawRefs) + 1
  BY <1>4, FS_AddElement DEF RawBound
<1>6. Cardinality(RawRefs) \in Nat
  BY FS_CardinalityType DEF RawBound
<1>7. QED
  BY <1>5, <1>6, PtrAssumption DEF RawBound

LEMMA RawLost ==
  ASSUME PtrShape, RawBound, NEW o \in Objs, raw[o] > 0,
         raw' = [raw EXCEPT ![o] = raw[o] - 1]
  PROVE  RawBound' /\ Cardinality(RawRefs') < MaxRaw
<1>1. /\ raw[o] \in Nat /\ raw'[o] = raw[o] - 1
      /\ \A p \in Objs : p # o => raw'[p] = raw[p]
  BY DEF PtrShape
<1>2. PICK n : n = raw[o]
  OBVIOUS
<1>3. 1 .. raw'[o] = (1 .. n) \ {n} /\ n \in 1 .. n
  BY <1>1, <1>2
<1>4. <<o, n>> \in RawRefs
  BY <1>2, <1>3 DEF RawRefs
<1>5. RawRefs' = RawRefs \ {<<o, n>>}
  BY <1>1, <1>2, <1>3 DEF RawRefs
<1>6. IsFiniteSet(RawRefs') /\ Cardinality(RawRefs') = Cardinality(RawRefs) - 1
  BY <1>4, <1>5, FS_RemoveElement DEF RawBound
<1>7. Cardinality(RawRefs) \in Nat
  BY FS_CardinalityType DEF RawBound
<1>8. QED
  BY <1>6, <1>7, PtrAssumption DEF RawBound

LEMMA RawKept ==
  ASSUME RawBound, raw' = raw
  PROVE  RawBound' /\ RawRefs' = RawRefs
BY DEF RawBound, RawRefs

(* What the operation holds once a step is done.                           *)
LEMMA OwedKept ==
  ASSUME OwedBound, raw' = raw, call' = call,
         \A o \in Objs : Owed(o)' => Owed(o),
         val' = val \/ \E l \in Locs : val' = [val EXCEPT ![l] = NULL],
         val \in [Locs -> Values]
  PROVE  OwedBound'
<1>1. RawRefs' = RawRefs
  BY DEF RawRefs
<1>2. \A l \in Locs : val[l] = NULL => val'[l] = NULL
  OBVIOUS
<1>3. QED
  BY <1>1, <1>2 DEF OwedBound

LEMMA OwedNothing ==
  ASSUME todo' = <<>> \/ (todo = <<>> /\ todo' = todo)
  PROVE  OwedBound'
<1>1. Len(todo') = 0
  OBVIOUS
<1>2. QED
  BY <1>1 DEF OwedBound, Owed

(* A body that sets no pointer to an object owes nothing.                  *)
LEMMA BodyOwesNothing ==
  ASSUME NEW steps \in Seq(Steps), todo' = steps \o Return,
         \A i \in 1 .. Len(steps) : steps[i].do = "set" => steps[i].obj \notin Objs
  PROVE  OwedBound'
<1>1. PICK t : t = todo'
  OBVIOUS
<1>2. /\ Len(t) = Len(steps) + 1 /\ Len(steps) \in Nat
      /\ \A i \in 1 .. Len(steps) : t[i] = steps[i]
      /\ t[Len(steps) + 1].do = "return"
  BY <1>1, BodyThenReturn
<1>3. ASSUME NEW i \in 1 .. Len(t), t[i].do = "set"
      PROVE  t[i].obj \notin Objs
  BY <1>2, <1>3
<1>4. \A o \in Objs : ~Owed(o)'
  BY <1>1, <1>3 DEF Owed
<1>5. QED
  BY <1>4 DEF OwedBound

LEMMA ShortBodiesOweNothing ==
  ASSUME NEW a \in Steps, NEW b \in Steps, NEW c \in Steps,
         \A s \in {a, b, c} : s.do = "set" => s.obj \notin Objs,
         NEW steps \in {<<>>, <<a>>, <<a, b>>, <<a, b, c>>},
         todo' = steps \o Return
  PROVE  OwedBound'
<1>1. steps \in Seq(Steps)
  <2>1. /\ <<>> \in Seq(Steps) /\ <<a>> \in Seq(Steps)
        /\ <<a, b>> \in Seq(Steps) /\ <<a, b, c>> \in Seq(Steps)
    BY ShortBodies
  <2>2. steps = <<>> \/ steps = <<a>> \/ steps = <<a, b>> \/ steps = <<a, b, c>>
    OBVIOUS
  <2>3. QED
    BY <2>1, <2>2, Zenon
<1>2. \A i \in 1 .. Len(steps) : steps[i] \in {a, b, c}
  <2>1. CASE steps = <<>>
    BY <2>1
  <2>2. CASE steps = <<a>>
    BY <2>2
  <2>3. CASE steps = <<a, b>>
    BY <2>3
  <2>4. CASE steps = <<a, b, c>>
    BY <2>4
  <2>5. QED
    BY <2>1, <2>2, <2>3, <2>4
<1>3. QED
  BY <1>1, <1>2, BodyOwesNothing

(* The start of an operation other than attach.                            *)
LEMMA BeginBound ==
  ASSUME NEW l \in Locs, NEW q \in Locs,
         \/ Construct(l, q) \/ Assign(l, q) \/ QueryAs(q, l) \/ Destruct(l) \/ Reset(l)
  PROVE  raw' = raw /\ OwedBound'
<1>1. raw' = raw
  BY DEF Construct, Assign, QueryAs, Destruct, Reset
<1>2. PICK rd, ad, rl, nl, lv :
        /\ rd = ReadFrom(l, q) /\ ad = Step("add_ref", l) /\ rl = Step("release", l)
        /\ nl = Step("null", q) /\ lv = Step("leave", l)
  OBVIOUS
<1>3. /\ {rd, ad, rl, nl, lv} \subseteq Steps
      /\ \A s \in {rd, ad, rl, nl, lv} : s.do # "set"
  <2>1. {rd, ad, rl, nl, lv} \subseteq Steps
    BY <1>2, StepsMade
  <2>2. QED
    BY <1>2, <2>1 DEF ReadFrom, Step
<1>4. ASSUME \/ todo' = <<>> \o Return \/ todo' = <<rd, ad>> \o Return
             \/ todo' = <<rd, nl>> \o Return \/ todo' = <<rl, lv>> \o Return
             \/ todo' = <<rl>> \o Return
             \/ todo' = <<rl, rd, ad>> \o Return \/ todo' = <<rl, rd, nl>> \o Return
      PROVE  OwedBound'
  <2>1. CASE todo' = <<>> \o Return
    <3>1. <<>> \in Seq(Steps)
      BY <1>3, ShortBodies
    <3>2. \A i \in 1 .. Len(<<>>) : <<>>[i].do = "set" => <<>>[i].obj \notin Objs
      OBVIOUS
    <3>3. QED
      BY <2>1, <3>1, <3>2, BodyOwesNothing
  <2>2. CASE todo' = <<rd, ad>> \o Return
    BY <1>3, <2>2, ShortBodiesOweNothing
  <2>3. CASE todo' = <<rd, nl>> \o Return
    BY <1>3, <2>3, ShortBodiesOweNothing
  <2>4. CASE todo' = <<rl, lv>> \o Return
    BY <1>3, <2>4, ShortBodiesOweNothing
  <2>5. CASE todo' = <<rl, rd, nl>> \o Return
    BY <1>3, <2>5, ShortBodiesOweNothing
  <2>6. CASE todo' = <<rl>> \o Return
    BY <1>3, <2>6, ShortBodiesOweNothing
  <2>7. CASE todo' = <<rl, rd, ad>> \o Return
    BY <1>3, <2>7, ShortBodiesOweNothing
  <2>8. QED
    BY <1>4, <2>1, <2>2, <2>3, <2>4, <2>5, <2>6, <2>7
<1>5. CASE Construct(l, q)
  <2>1. todo' = <<rd, ad>> \o Return \/ todo' = <<rd, nl>> \o Return
    BY <1>2, <1>5 DEF Construct, Begin, CopyConstruct, MoveConstruct
  <2>2. QED
    BY <1>1, <1>4, <2>1
<1>6. CASE Assign(l, q)
  <2>1. \/ todo' = <<>> \o Return
        \/ todo' = <<rl, rd, ad>> \o Return \/ todo' = <<rl, rd, nl>> \o Return
    BY <1>2, <1>6 DEF Assign, Begin, CopyAssign, MoveAssign
  <2>2. QED
    BY <1>1, <1>4, <2>1
<1>7. CASE Destruct(l)
  <2>1. todo' = <<rl, lv>> \o Return
    BY <1>2, <1>7 DEF Destruct, Begin
  <2>2. QED
    BY <1>1, <1>4, <2>1
<1>8. CASE Reset(l)
  <2>1. todo' = <<rl>> \o Return
    BY <1>2, <1>8 DEF Reset, Begin, NullAssign
  <2>2. QED
    BY <1>1, <1>4, <2>1
<1>9. CASE QueryAs(q, l)
  <2>1. PICK pt, qy : pt = Put(l, NULL) /\ qy = [do |-> "query", at |-> q, out |-> l]
    OBVIOUS
  <2>2. /\ pt \in Steps /\ qy \in Steps
        /\ pt.obj = NULL /\ qy.do = "query" /\ NULL \notin Objs
    <3>1. pt \in Steps /\ qy \in Steps
      BY <2>1, StepsMade DEF Values
    <3>2. QED
      BY <2>1, <3>1, PtrAssumption DEF Put
  <2>3. As(q, l) = <<rl, pt>> \o <<qy>>
    BY <1>2, <2>1 DEF As, Attach
  <2>4. PICK first, last : first = <<rl, pt>> /\ last = <<qy>>
    OBVIOUS
  <2>5. /\ first \in Seq(Steps) /\ Len(first) = 2 /\ first[1] = rl /\ first[2] = pt
        /\ last \in Seq(Steps) /\ Len(last) = 1 /\ last[1] = qy
    BY <1>3, <2>2, <2>4
  <2>6. PICK t : t = first \o last
    OBVIOUS
  <2>7. /\ t \in Seq(Steps) /\ Len(t) = Len(first) + Len(last)
        /\ \A i \in 1 .. Len(first) + Len(last) :
             t[i] = IF i <= Len(first) THEN first[i] ELSE last[i - Len(first)]
    BY <2>5, <2>6, Concat
  <2>8. t \in Seq(Steps) /\ Len(t) = 3 /\ t[1] = rl /\ t[2] = pt /\ t[3] = qy
    BY <2>5, <2>7
  <2>9. \A i \in 1 .. Len(t) : t[i].do = "set" => t[i].obj \notin Objs
    <3>1. \A i \in 1 .. Len(t) : i = 1 \/ i = 2 \/ i = 3
      BY <2>8
    <3>2. QED
      BY <1>3, <2>2, <2>8, <3>1
  <2>10. todo' = t \o Return
    BY <1>9, <2>3, <2>4, <2>6 DEF QueryAs, Begin
  <2>11. QED
    BY <1>1, <2>8, <2>9, <2>10, BodyOwesNothing
<1>10. QED
  BY <1>1, <1>5, <1>6, <1>7, <1>8, <1>9

LEMMA QueryBound ==
  ASSUME PtrInv, OwedBound, DoQuery
  PROVE  raw' = raw /\ OwedBound'
<1> USE DEF PtrInv
<1>1. /\ todo # <<>> /\ Now.do = "query" /\ Now = todo[1] /\ Now \in Steps
      /\ todo[1].do = "query"
  BY SoundStep DEF DoQuery
<1>2. raw' = raw /\ call' = call /\ val' = val
  BY DEF DoQuery
<1>3. CASE Then(<<>>)
  <2>1. \A o \in Objs : Owed(o)' => Owed(o)
    BY <1>1, <1>3, PopSets
  <2>2. QED
    BY <1>2, <2>1, OwedKept DEF PtrShape
<1>4. CASE ~Then(<<>>)
  <2>1. 1 \in 1 .. Len(todo)
    BY <1>1, TodoIsList
  <2>2. OfCall(Now) /\ val[Now.out] = NULL
    BY <1>1, <2>1 DEF StepsInOrder, NextStepReady
  <2>3. call'.this \in Locs /\ val'[call'.this] = NULL
    BY <1>1, <1>2, <2>2, StepKinds DEF OfCall
  <2>4. QED
    BY <1>2, <2>3 DEF OwedBound
<1>5. QED
  BY <1>2, <1>3, <1>4

LEMMA StepBound ==
  ASSUME PtrInv, OwedBound,
         DoRelease \/ DoAddRef \/ DoWrite \/ DoFree \/ DoLeave
  PROVE  raw' = raw /\ OwedBound'
<1> USE DEF PtrInv
<1>1. /\ raw' = raw /\ call' = call /\ val \in [Locs -> Values]
      /\ todo # <<>> /\ Now = todo[1] /\ Now \in Steps
  <2>1. todo # <<>>
    BY DEF DoRelease, DoAddRef, DoWrite, DoFree, DoLeave, Sound, Doing
  <2>2. Now = todo[1] /\ Now \in Steps
    <3>1. 1 \in 1 .. Len(todo) /\ Now = todo[1]
      BY <2>1, TodoIsList
    <3>2. QED
      BY <2>1, <3>1, TodoIsList
  <2>3. QED
    BY <2>1, <2>2 DEF DoRelease, DoAddRef, DoWrite, DoFree, DoLeave, PtrShape
<1>2. Then(<<>>) => \A o \in Objs : Owed(o)' => Owed(o) /\ Now.do # "set"
  BY <1>1, PopSets
<1>3. CASE DoRelease
  <2>1. val' = val /\ Now.do = "release"
    BY <1>3 DEF DoRelease, Sound, Doing
  <2>2. CASE val[Now.at] = NULL
    <3>1. Then(<<>>)
      BY <1>3, <2>2 DEF DoRelease
    <3>2. QED
      BY <1>1, <1>2, <2>1, <3>1, OwedKept
  <2>3. CASE val[Now.at] # NULL
    <3>1. Then(InternalRelease(Now.at))
      BY <1>3, <2>3 DEF DoRelease
    <3>2. \A o \in Objs : Owed(o)' => Owed(o)
      BY <1>1, <2>1, <2>3, <3>1, ReleaseSets
    <3>3. QED
      BY <1>1, <2>1, <3>2, OwedKept
  <2>4. QED
    BY <2>2, <2>3
<1>4. CASE DoAddRef \/ DoFree \/ DoLeave
  <2>1. Then(<<>>) /\ val' = val
    BY <1>4 DEF DoAddRef, DoFree, DoLeave
  <2>2. QED
    BY <1>1, <1>2, <2>1, OwedKept
<1>5. CASE DoWrite
  <2>1. Then(<<>>) /\ Now.do \in {"null", "read", "set"}
    BY <1>5 DEF DoWrite, Sound, Doing
  <2>2. CASE Now.do = "null"
    <3>1. val' = [val EXCEPT ![Now.at] = NULL] /\ Now.at \in Locs
      BY <1>1, <1>5, <2>2, StepKinds DEF DoWrite
    <3>2. QED
      BY <1>1, <1>2, <2>1, <3>1, OwedKept
  <2>3. CASE Now.do \in {"read", "set"}
    <3>1. \A o \in Objs : ~Owed(o)'
      BY <1>1, <1>2, <2>1, <2>3, RestSets
    <3>2. QED
      BY <1>1, <3>1 DEF OwedBound
  <2>4. QED
    BY <2>1, <2>2, <2>3
<1>6. QED
  BY <1>1, <1>3, <1>4, <1>5

(* What C code does, and the two operations that take and give references. *)
LEMMA CBound ==
  ASSUME PtrInv, RawBound, NEW o \in Objs,
         \/ CCreate(o) \/ CAddRef(o) \/ CRelease(o)
         \/ \E l \in Locs : TakeOver(l, o) \/ (Detach(l) /\ val[l] = o)
  PROVE  RawBound' /\ OwedBound'
<1> USE DEF PtrInv
<1>1. ASSUME RawTotal < MaxRaw, raw' = [raw EXCEPT ![o] = raw[o] + 1],
             Idle, todo' = todo
      PROVE  RawBound' /\ OwedBound'
  BY <1>1, RawTotalIsRefs, RawGained, OwedNothing DEF Idle
<1>2. CASE CCreate(o)
  <2>1. Idle /\ o \notin live
    BY <1>2 DEF CCreate
  <2>2. raw[o] = 0
    <3>1. /\ rc[o] = Cardinality({k \in Storage : val[k] = o}) + raw[o] /\ raw[o] \in Nat
          /\ Cardinality({k \in Storage : val[k] = o}) \in Nat
          /\ o \in live <=> rc[o] > 0
      BY <2>1, IdleCounts
    <3>2. QED
      BY <2>1, <3>1
  <2>3. /\ raw' = [raw EXCEPT ![o] = raw[o] + 1] /\ todo' = todo
        /\ RawTotal < MaxRaw
    BY <1>2, <2>2 DEF CCreate
  <2>4. QED
    BY <1>1, <2>1, <2>3
<1>3. CASE CAddRef(o)
  BY <1>1, <1>3 DEF CAddRef
<1>4. CASE \E l \in Locs : Detach(l) /\ val[l] = o
  BY <1>1, <1>4 DEF Detach
<1>5. CASE \E l \in Locs : TakeOver(l, o)
  <2>1. raw[o] > 0 /\ raw' = [raw EXCEPT ![o] = raw[o] - 1]
    BY <1>5 DEF TakeOver
  <2>2. QED
    BY <2>1, RawLost DEF OwedBound
<1>6. CASE CRelease(o)
  <2>1. raw[o] > 0 /\ raw' = [raw EXCEPT ![o] = raw[o] - 1]
    BY <1>6 DEF CRelease
  <2>2. QED
    BY <2>1, RawLost DEF OwedBound
<1>7. QED
  BY <1>2, <1>3, <1>4, <1>5, <1>6

LEMMA BoundNext ==
  ASSUME PtrInv, RawBound, OwedBound, [PtrNext]_vars
  PROVE  RawBound' /\ OwedBound'
<1>1. ASSUME raw' = raw, OwedBound'
      PROVE  RawBound' /\ OwedBound'
  BY <1>1, RawKept
<1>2. ASSUME NEW l \in Locs, NEW q \in Locs,
             \/ Construct(l, q) \/ Assign(l, q) \/ QueryAs(q, l) \/ Destruct(l) \/ Reset(l)
      PROVE  RawBound' /\ OwedBound'
  BY <1>1, <1>2, BeginBound
<1>3. ASSUME NEW o \in Objs, \/ CCreate(o) \/ CAddRef(o) \/ CRelease(o)
                             \/ \E l \in Locs : TakeOver(l, o)
      PROVE  RawBound' /\ OwedBound'
  BY <1>3, CBound
<1>4. ASSUME NEW l \in Locs, Detach(l)
      PROVE  RawBound' /\ OwedBound'
  <2>1. val[l] \in Objs
    BY <1>4 DEF Detach, PtrInv, PtrShape, Values
  <2>2. QED
    BY <1>4, <2>1, CBound
<1>5. ASSUME NEW l \in Locs, ConstructNull(l)
      PROVE  RawBound' /\ OwedBound'
  BY <1>1, <1>5, OwedNothing DEF ConstructNull, Idle
<1>6. CASE DoRelease \/ DoAddRef \/ DoWrite \/ DoFree \/ DoLeave
  BY <1>1, <1>6, StepBound
<1>7. CASE DoQuery
  BY <1>1, <1>7, QueryBound
<1>8. CASE DoReturn
  BY <1>1, <1>8, OwedNothing DEF DoReturn
<1>9. CASE Crash \/ Crashed \/ UNCHANGED vars
  <2>1. /\ raw' = raw /\ call' = call /\ val' = val /\ todo' = todo
    BY <1>9 DEF Crash, Crashed, vars
  <2>2. \A o \in Objs : Owed(o)' => Owed(o)
    BY <2>1 DEF Owed
  <2>3. QED
    BY <1>1, <2>1, <2>2, OwedKept DEF PtrInv, PtrShape
<1>10. QED
  BY <1>2, <1>3, <1>4, <1>5, <1>6, <1>7, <1>8, <1>9 DEF PtrNext

LEMMA BoundInit ==
  ASSUME PtrInit
  PROVE  RawBound /\ OwedBound
<1>1. \A o \in Objs : raw[o] = 0 /\ 1 .. raw[o] = {}
  BY DEF PtrInit
<1>2. RawRefs = {}
  BY <1>1 DEF RawRefs
<1>3. RawBound
  BY <1>2, FS_EmptySet, PtrAssumption DEF RawBound
<1>4. Len(todo) = 0
  BY DEF PtrInit
<1>5. QED
  BY <1>3, <1>4 DEF OwedBound, Owed

(* No object has more references of C code than there are.                 *)
LEMMA RawIsBounded ==
  ASSUME PtrShape, RawBound, NEW o \in Objs
  PROVE  raw[o] \in Nat /\ raw[o] <= Cardinality(RawRefs)
<1>1. PICK n : n = raw[o]
  OBVIOUS
<1>2. n \in Nat
  BY <1>1 DEF PtrShape
<1>3. IsFiniteSet(1 .. n) /\ Cardinality(1 .. n) = n
  BY <1>2, FS_Interval
<1>4. IsFiniteSet({o}) /\ Cardinality({o}) = 1
  BY FS_Singleton
<1>5. Cardinality({o} \X (1 .. n)) = Cardinality({o}) * Cardinality(1 .. n)
  BY <1>3, <1>4, FS_Product
<1>6. {o} \X (1 .. n) \subseteq RawRefs
  BY <1>1 DEF RawRefs
<1>7. Cardinality({o} \X (1 .. n)) <= Cardinality(RawRefs)
  BY <1>6, FS_Subset DEF RawBound
<1>8. QED
  BY <1>1, <1>2, <1>3, <1>4, <1>5, <1>7

(* Type correctness: however the operations go, no count is ever negative  *)
(* or larger than all pointers and all references of C code together.      *)
THEOREM PtrTypeCorrect == PtrSpec => []PtrTypeOK
<1>1. ASSUME PtrInv, RawBound, OwedBound
      PROVE  PtrTypeOK
  <2>1. PtrShape
    BY <1>1 DEF PtrInv
  <2>2. PICK r, n : r = Cardinality(RawRefs) /\ n = Cardinality(Locs)
    OBVIOUS
  <2>3. r \in Nat /\ n \in Nat /\ MaxRaw \in Nat /\ r <= MaxRaw
    BY <1>1, <2>2, FS_CardinalityType, LocSets, PtrAssumption DEF RawBound
  <2>4. \A o \in Objs : raw[o] \in Nat /\ raw[o] <= r
    BY <1>1, <2>1, <2>2, RawIsBounded
  <2>5. ASSUME NEW o \in Objs
        PROVE  rc[o] \in 0 .. n + MaxRaw
    <3>1. PICK c : c = Cardinality(Counted(o))
      OBVIOUS
    <3>2. Counted(o) \subseteq Locs /\ c \in Nat /\ c <= n
      <4>1. Counted(o) \subseteq Locs
        BY <2>1, Places
      <4>2. IsFiniteSet(Locs)
        BY LocSets
      <4>3. QED
        BY <2>2, <3>1, <4>1, <4>2, LocSets, FS_Subset
    <3>3. rc[o] = c + raw[o] + (IF Owed(o) THEN 1 ELSE 0)
      BY <1>1, <3>1 DEF PtrInv, CountsAddUp
    <3>4. CASE ~Owed(o)
      BY <2>3, <2>4, <3>2, <3>3, <3>4
    <3>5. CASE Owed(o) /\ r < MaxRaw
      BY <2>3, <2>4, <3>2, <3>3, <3>5
    <3>6. CASE Owed(o) /\ call.this \in Locs /\ val[call.this] = NULL
      <4>1. call.this \notin Counted(o)
        BY <3>6, PtrAssumption DEF Counted
      <4>2. PICK A : A = Counted(o) \union {call.this}
        OBVIOUS
      <4>3. A \subseteq Locs /\ Cardinality(A) = c + 1
        BY <3>1, <3>2, <3>6, <4>1, <4>2, LocSets
      <4>4. c + 1 <= n
        <5>1. IsFiniteSet(Locs)
          BY LocSets
        <5>2. QED
          BY <2>2, <4>3, <5>1, FS_Subset
      <4>5. QED
        BY <2>3, <2>4, <3>2, <3>3, <3>6, <4>4
    <3>7. QED
      BY <1>1, <2>2, <3>4, <3>5, <3>6 DEF OwedBound
  <2>6. rc \in [Objs -> 0 .. n + MaxRaw]
    BY <2>1, <2>5 DEF PtrShape
  <2>7. raw \in [Objs -> 0 .. MaxRaw]
    BY <2>1, <2>3, <2>4 DEF PtrShape
  <2>8. QED
    BY <2>1, <2>2, <2>6, <2>7 DEF PtrTypeOK, PtrShape, Values
<1>2. PtrInit => RawBound /\ OwedBound
  BY BoundInit
<1>3. PtrInv /\ RawBound /\ OwedBound /\ [PtrNext]_vars => (RawBound /\ OwedBound)'
  BY BoundNext
<1>4. QED
  BY <1>1, <1>2, <1>3, PtrInvariant, PTL DEF PtrSpec

=============================================================================

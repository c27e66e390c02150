------------------------- MODULE SamplePluginProofs -------------------------
(***************************************************************************)
(* The safety properties of SamplePlugin, proved for any blocks and any    *)
(* finite set of pointer variables.                                        *)
(***************************************************************************)
EXTENDS SamplePlugin, FiniteSetTheorems, TLAPS

(* An object in a block, and PluginTypeOK without the bound of the counter,*)
(* which follows from what it counts.                                      *)
Contents == [kind : {"free", "component", "factory"}, rc : Int]

PluginShape ==
  /\ block \in [Blocks -> Contents]
  /\ slot \in [Slots -> {NULL} \union Interfaces]

PluginInv == PluginShape /\ CountIsPointers /\ PointersTyped

-----------------------------------------------------------------------------
(* The layout of a component: views and offsets determine each other.      *)

LEMMA LayoutValues ==
  /\ Views = {"logger", "logger2", "clock", "clock2", "capabilities"}
  /\ Layout["logger"] = 0 /\ Layout["logger2"] = 1 /\ Layout["clock"] = 2
  /\ Layout["clock2"] = 3 /\ Layout["capabilities"] = 4
BY DEF Views, Layout

(* The vtable at a view's offset is the view's.                            *)
LEMMA ViewAtLayout ==
  \A v \in Views : Layout[v] \in 0 .. 4 /\ ViewAt(Layout[v]) = v
<1> SUFFICES ASSUME NEW v \in Views
             PROVE  Layout[v] \in 0 .. 4 /\ ViewAt(Layout[v]) = v
  OBVIOUS
<1>1. Layout[v] \in 0 .. 4
  BY LayoutValues
<1>2. \A w \in Views : Layout[w] = Layout[v] => w = v
  BY LayoutValues
<1>3. QED
  BY <1>1, <1>2 DEF ViewAt

(* Subtracting the offset of the view that is at an offset leaves nothing. *)
LEMMA LayoutViewAt ==
  \A i \in 0 .. 4 : ViewAt(i) \in Views /\ Layout[ViewAt(i)] = i
<1> SUFFICES ASSUME NEW i \in 0 .. 4
             PROVE  ViewAt(i) \in Views /\ Layout[ViewAt(i)] = i
  OBVIOUS
<1>1. \E v \in Views : Layout[v] = i
  BY LayoutValues
<1>2. QED
  BY <1>1 DEF ViewAt

(* A query is answered with a view of the component or not at all.         *)
LEMMA ViewForIid ==
  /\ \A iid : ViewFor(iid) \in Views \union {"none"}
  /\ "none" \notin Views
  /\ ViewFor("IUnknown") = "logger"
BY LayoutValues DEF ViewFor

-----------------------------------------------------------------------------
(* Sets of pointer variables.                                              *)

LEMMA SlotSets ==
  ASSUME NEW S \in SUBSET Slots
  PROVE  /\ IsFiniteSet(S)
         /\ Cardinality(S) \in 0 .. Cardinality(Slots)
         /\ \A s \in Slots \ S : Cardinality(S \union {s}) = Cardinality(S) + 1
         /\ \A s \in S : Cardinality(S \ {s}) = Cardinality(S) - 1
         /\ Cardinality(S) = 0 <=> S = {}
<1>1. IsFiniteSet(S) /\ Cardinality(S) <= Cardinality(Slots)
  BY SlotsAssumption, FS_Subset
<1>2. Cardinality(S) \in Nat /\ Cardinality(Slots) \in Nat
  BY <1>1, SlotsAssumption, FS_CardinalityType
<1>3. /\ \A s \in Slots \ S : Cardinality(S \union {s}) = Cardinality(S) + 1
      /\ \A s \in S : Cardinality(S \ {s}) = Cardinality(S) - 1
  BY <1>1, FS_AddElement, FS_RemoveElement
<1>4. Cardinality(S) = 0 <=> S = {}
  BY <1>1, FS_EmptySet
<1>5. QED
  BY <1>1, <1>2, <1>3, <1>4

(* A pointer that is held leads to the beginning of an object.             *)
LEMMA HeldPointer ==
  ASSUME PluginInv, NEW s \in Slots, slot[s] # NULL
  PROVE  LET p == slot[s].at
         IN  /\ slot[s] \in Interfaces /\ p \in Pointers /\ p.block \in Blocks
             /\ s \in PointersInto(p.block)
             /\ block[p.block] \in Contents /\ block[p.block].kind # "free"
             /\ block[p.block].rc \in Nat \ {0}
             /\ Impl(p) = [block |-> p.block, offset |-> 0]
<1> DEFINE p == slot[s].at
<1>1. slot[s] \in Interfaces /\ p \in Pointers /\ p.block \in Blocks
  BY DEF PluginInv, PluginShape, Interfaces, Pointers
<1>2. s \in PointersInto(p.block)
  BY DEF PointersInto
<1>3. /\ block[p.block] \in Contents /\ block[p.block].kind # "free"
      /\ block[p.block].rc = Cardinality(PointersInto(p.block))
  BY <1>1, <1>2 DEF PluginInv, PluginShape, CountIsPointers
<1>4. block[p.block].rc \in Nat \ {0}
  <2>1. PointersInto(p.block) \in SUBSET Slots
    BY DEF PointersInto
  <2>2. QED
    BY <1>2, <1>3, <2>1, SlotSets
<1>5. Impl(p) = [block |-> p.block, offset |-> 0]
  <2>1. CASE block[p.block].kind = "factory"
    BY <1>1, <2>1 DEF PluginInv, PointersTyped, Impl, Pointers
  <2>2. CASE block[p.block].kind # "factory"
    <3>1. p.offset \in 0 .. 4 /\ Layout[ViewAt(p.offset)] = p.offset
      BY <2>2, LayoutViewAt DEF PluginInv, PointersTyped
    <3>2. p.offset - Layout[ViewAt(p.offset)] = 0
      BY <3>1
    <3>3. Impl(p) = [p EXCEPT !.offset = 0]
      BY <2>2, <3>2 DEF Impl, Member
    <3>4. QED
      BY <1>1, <3>3 DEF Pointers
  <2>3. QED
    BY <2>1, <2>2
<1>6. QED
  BY <1>1, <1>2, <1>3, <1>4, <1>5

(* What add_ref and release do to the counter of an object.                *)
LEMMA CountedAt ==
  ASSUME NEW b, block[b] \in Contents, NEW d \in Int
  PROVE  Counted([block |-> b, offset |-> 0], d) =
           [block EXCEPT ![b] =
              IF block[b].rc + d = 0 THEN Free
              ELSE [block[b] EXCEPT !.rc = block[b].rc + d]]
<1>1. Object(block[b].kind, block[b].rc + d) =
        IF block[b].rc + d = 0 THEN Free ELSE [block[b] EXCEPT !.rc = block[b].rc + d]
  BY DEF Object, Contents
<1>2. QED
  BY <1>1 DEF Counted

(* What query_interface through a held pointer gives: the same pointer of  *)
(* the object whichever interface is asked.                                *)
LEMMA QueryOfHeld ==
  ASSUME PluginInv, NEW s \in Slots, slot[s] # NULL, NEW iid
  PROVE  LET b == slot[s].at.block
         IN  Query(slot[s].at, iid) =
               IF block[b].kind = "factory"
               THEN IF iid \in {"IUnknown", "IComponentFactory"}
                    THEN [block |-> b, offset |-> 0] ELSE NULL
               ELSE IF ViewFor(iid) = "none" THEN NULL
                    ELSE [block |-> b, offset |-> Layout[ViewFor(iid)]]
<1> DEFINE p == slot[s].at
<1>1. p \in Pointers /\ Impl(p) = [block |-> p.block, offset |-> 0]
  BY HeldPointer
<1>2. CASE block[p.block].kind = "factory"
  BY <1>1, <1>2 DEF Query, FactoryQuery, Impl
<1>3. CASE block[p.block].kind # "factory"
  <2>1. ViewFor(iid) # "none" => Layout[ViewFor(iid)] \in 0 .. 4
    BY ViewForIid, ViewAtLayout
  <2>2. ViewFor(iid) # "none" =>
          [Impl(p) EXCEPT !.offset = @ + Layout[ViewFor(iid)]]
            = [block |-> p.block, offset |-> Layout[ViewFor(iid)]]
    BY <1>1, <2>1
  <2>3. QED
    BY <1>3, <2>2 DEF Query, ComponentQuery
<1>4. QED
  BY <1>2, <1>3

-----------------------------------------------------------------------------
(* The number of pointers when a variable gets one and when it loses one.  *)

LEMMA PointerGained ==
  ASSUME PluginShape, NEW s \in Slots, slot[s] = NULL, NEW x \in Interfaces,
         slot' = [slot EXCEPT ![s] = x]
  PROVE  \A b \in Blocks :
           /\ PointersInto(b)' = IF x.at.block = b THEN PointersInto(b) \union {s}
                                 ELSE PointersInto(b)
           /\ Cardinality(PointersInto(b))' =
                Cardinality(PointersInto(b)) + (IF x.at.block = b THEN 1 ELSE 0)
           /\ Cardinality(PointersInto(b)) \in Nat
<1> SUFFICES ASSUME NEW b \in Blocks
             PROVE  /\ PointersInto(b)' = IF x.at.block = b THEN PointersInto(b) \union {s}
                                          ELSE PointersInto(b)
                    /\ Cardinality(PointersInto(b)') =
                         Cardinality(PointersInto(b)) + (IF x.at.block = b THEN 1 ELSE 0)
                    /\ Cardinality(PointersInto(b)) \in Nat
  OBVIOUS
<1>1. PointersInto(b) \in SUBSET Slots /\ s \notin PointersInto(b)
  BY DEF PointersInto
<1>2. PointersInto(b)' = IF x.at.block = b THEN PointersInto(b) \union {s}
                         ELSE PointersInto(b)
  BY NullAssumption DEF PluginShape, PointersInto
<1>3. QED
  BY <1>1, <1>2, SlotSets

LEMMA PointerLost ==
  ASSUME PluginShape, NEW s \in Slots, slot[s] # NULL,
         slot' = [slot EXCEPT ![s] = NULL]
  PROVE  \A b \in Blocks :
           /\ PointersInto(b)' = IF slot[s].at.block = b THEN PointersInto(b) \ {s}
                                 ELSE PointersInto(b)
           /\ Cardinality(PointersInto(b))' =
                Cardinality(PointersInto(b)) - (IF slot[s].at.block = b THEN 1 ELSE 0)
           /\ Cardinality(PointersInto(b)) \in Nat
           /\ Cardinality(PointersInto(b))' = 0 <=> PointersInto(b)' = {}
<1> SUFFICES ASSUME NEW b \in Blocks
             PROVE  /\ PointersInto(b)' = IF slot[s].at.block = b THEN PointersInto(b) \ {s}
                                          ELSE PointersInto(b)
                    /\ Cardinality(PointersInto(b)') =
                         Cardinality(PointersInto(b)) - (IF slot[s].at.block = b THEN 1 ELSE 0)
                    /\ Cardinality(PointersInto(b)) \in Nat
                    /\ Cardinality(PointersInto(b)') = 0 <=> PointersInto(b)' = {}
  OBVIOUS
<1>1. /\ PointersInto(b) \in SUBSET Slots
      /\ slot[s].at.block = b => s \in PointersInto(b)
  BY DEF PointersInto
<1>2. PointersInto(b)' = IF slot[s].at.block = b THEN PointersInto(b) \ {s}
                         ELSE PointersInto(b)
  BY DEF PluginShape, PointersInto
<1>3. PointersInto(b)' \in SUBSET Slots
  BY <1>1, <1>2
<1>4. QED
  BY <1>1, <1>2, <1>3, SlotSets

-----------------------------------------------------------------------------
(* Every action keeps the invariant.                                       *)

LEMMA InitPlugin == PluginInit => PluginInv
<1> SUFFICES ASSUME PluginInit
             PROVE  PluginInv
  OBVIOUS
<1>1. PluginShape /\ PointersTyped
  BY DEF PluginInit, PluginShape, PointersTyped, Free, Contents
<1>2. \A b \in Blocks : PointersInto(b) = {}
  BY DEF PluginInit, PointersInto
<1>3. CountIsPointers
  BY <1>2, FS_EmptySet DEF PluginInit, CountIsPointers, Free
<1>4. QED
  BY <1>1, <1>3 DEF PluginInv

LEMMA PluginSame ==
  ASSUME PluginInv, UNCHANGED pluginVars
  PROVE  PluginInv'
<1>1. block' = block /\ slot' = slot
  BY DEF pluginVars
<1>2. PluginShape' /\ PointersTyped'
  BY <1>1 DEF PluginInv, PluginShape, PointersTyped
<1>3. \A b : PointersInto(b)' = PointersInto(b)
  BY <1>1 DEF PointersInto
<1>4. CountIsPointers'
  BY <1>1, <1>3 DEF PluginInv, CountIsPointers
<1>5. QED
  BY <1>2, <1>4 DEF PluginInv

(* The pointer x is of the type it was asked for.                          *)
Typed(x, kind) ==
  IF kind = "factory"
  THEN x.at.offset = 0 /\ x.iid \in {"IUnknown", "IComponentFactory"}
  ELSE x.at.offset \in 0 .. 4 /\ ViewFor(x.iid) = ViewAt(x.at.offset)

(* A new object with its one pointer.                                      *)
LEMMA CreateStep ==
  ASSUME PluginInv, NEW s \in Slots, NEW clsid \in Clsids, NEW iid \in Iids,
         Create(s, clsid, iid)
  PROVE  PluginInv'
<1>1. CASE FirstView(clsid, iid) = "none"
  <2> DEFINE left == QueriedCount(FirstView(clsid, iid)) - 1
  <2>1. PICK b \in Blocks :
           /\ block[b] = Free
           /\ block' = [block EXCEPT ![b] = Object(clsid, left)]
           /\ slot' = QueriedSlot(s, b, FirstView(clsid, iid), iid)
    BY DEF Create
  <2>2. Object(clsid, left) = Free /\ slot' = slot
    BY <1>1, <2>1 DEF Object, QueriedCount, QueriedSlot
  <2>3. block' = block
    BY <2>1, <2>2 DEF PluginInv, PluginShape
  <2>4. QED
    BY <2>2, <2>3, PluginSame DEF pluginVars
<1>2. CASE FirstView(clsid, iid) # "none"
  <2> DEFINE i == Layout[FirstView(clsid, iid)]
             x(b) == [at |-> [block |-> b, offset |-> i], iid |-> iid]
             left == QueriedCount(FirstView(clsid, iid)) - 1
  <2>0. Object(clsid, left) = [kind |-> clsid, rc |-> 1]
    BY <1>2 DEF Object, QueriedCount
  <2>a. PICK b \in Blocks :
           /\ block[b] = Free
           /\ block' = [block EXCEPT ![b] = Object(clsid, left)]
           /\ slot' = QueriedSlot(s, b, FirstView(clsid, iid), iid)
    BY DEF Create
  <2>1. /\ block[b] = Free
        /\ block' = [block EXCEPT ![b] = [kind |-> clsid, rc |-> 1]]
        /\ slot' = [slot EXCEPT ![s] = x(b)]
    BY <1>2, <2>0, <2>a DEF QueriedSlot
  <2>2. FirstView(clsid, iid) \in Views
    BY <1>2, ViewForIid, LayoutValues DEF FirstView
  <2>3. i \in 0 .. 4 /\ ViewAt(i) = FirstView(clsid, iid)
    BY <2>2, ViewAtLayout
  <2>4. /\ x(b) \in Interfaces /\ x(b) # NULL
        /\ x(b).at.block = b /\ x(b).at.offset = i /\ x(b).iid = iid
    BY <2>3, NullAssumption DEF Interfaces, Pointers
  <2>5. Typed(x(b), clsid)
    <3>1. CASE clsid = "component"
      BY <2>3, <2>4, <3>1 DEF Typed, FirstView
    <3>2. CASE clsid = "factory"
      <4>1. FirstView(clsid, iid) = "logger" /\ iid \in {"IUnknown", "IComponentFactory"}
        BY <1>2, <3>2 DEF FirstView
      <4>2. QED
        BY <2>4, <3>2, <4>1, LayoutValues DEF Typed
    <3>3. QED
      BY <3>1, <3>2 DEF Clsids
  <2>6. slot[s] = NULL /\ PointersInto(b) = {} /\ Cardinality(PointersInto(b)) = 0
    BY <2>1, FS_EmptySet DEF Create, PluginInv, CountIsPointers, Free
  <2>7. PluginShape'
    BY <2>1, <2>4 DEF PluginInv, PluginShape, Contents, Clsids
  <2>8. CountIsPointers'
    <3> SUFFICES ASSUME NEW c \in Blocks
                 PROVE  /\ block'[c].rc = Cardinality(PointersInto(c))'
                        /\ block'[c].kind = "free" <=> PointersInto(c)' = {}
      BY DEF CountIsPointers
    <3>1. /\ PointersInto(c)' = IF b = c THEN PointersInto(c) \union {s} ELSE PointersInto(c)
          /\ Cardinality(PointersInto(c))' =
               Cardinality(PointersInto(c)) + (IF b = c THEN 1 ELSE 0)
          /\ Cardinality(PointersInto(c)) \in Nat
      BY <2>1, <2>4, <2>6, PointerGained DEF PluginInv
    <3>2. block'[c] = IF b = c THEN [kind |-> clsid, rc |-> 1] ELSE block[c]
      BY <2>1 DEF PluginInv, PluginShape
    <3>3. CASE c = b
      <4>1. Cardinality(PointersInto(c)) = 0
        BY <2>6, <3>3
      <4>2. Cardinality(PointersInto(c))' = 1
        BY <3>1, <3>3, <4>1
      <4>3. s \in PointersInto(c)'
        BY <3>1, <3>3
      <4>4. block'[c].rc = 1 /\ block'[c].kind # "free"
        BY <3>2, <3>3 DEF Clsids
      <4>5. QED
        BY <4>2, <4>3, <4>4
    <3>4. CASE c # b
      <4>1. /\ block[c].rc = Cardinality(PointersInto(c))
            /\ block[c].kind = "free" <=> PointersInto(c) = {}
        BY DEF PluginInv, CountIsPointers
      <4>2. QED
        BY <3>1, <3>2, <3>4, <4>1
    <3>5. QED
      BY <3>3, <3>4
  <2>9. PointersTyped'
    <3> SUFFICES ASSUME NEW r \in Slots, slot'[r] # NULL
                 PROVE  Typed(slot'[r], block'[slot'[r].at.block].kind)
      BY DEF PointersTyped, Typed
    <3>1. CASE r = s
      BY <2>1, <2>4, <2>5, <3>1 DEF PluginInv, PluginShape
    <3>2. CASE r # s
      <4>1. slot'[r] = slot[r] /\ slot[r].at.block # b
        BY <2>1, <2>6, <3>2 DEF PluginInv, PluginShape, PointersInto
      <4>2. block'[slot[r].at.block] = block[slot[r].at.block]
        BY <2>1, <4>1, HeldPointer DEF PluginInv, PluginShape
      <4>3. QED
        BY <4>1, <4>2 DEF PluginInv, PointersTyped, Typed
    <3>3. QED
      BY <3>1, <3>2
  <2>10. QED
    BY <2>7, <2>8, <2>9 DEF PluginInv
<1>3. QED
  BY <1>1, <1>2

(* One more pointer to an object that is counted.                          *)
LEMMA ShareStep ==
  ASSUME PluginInv, NEW from \in Slots, slot[from] # NULL,
         NEW s \in Slots, slot[s] = NULL, NEW x \in Interfaces,
         x.at.block = slot[from].at.block, Typed(x, block[x.at.block].kind),
         slot' = [slot EXCEPT ![s] = x],
         block' = Counted(Impl(slot[from].at), 1)
  PROVE  PluginInv'
<1> DEFINE b == x.at.block
<1>1. /\ b \in Blocks /\ from \in PointersInto(b)
      /\ block[b] \in Contents /\ block[b].kind # "free" /\ block[b].rc \in Nat \ {0}
      /\ Impl(slot[from].at) = [block |-> b, offset |-> 0]
  BY HeldPointer
<1>2. block' = [block EXCEPT ![b] = [block[b] EXCEPT !.rc = block[b].rc + 1]]
  <2>1. block[b].rc + 1 # 0
    BY <1>1
  <2>2. block' = Counted([block |-> b, offset |-> 0], 1)
    BY <1>1
  <2>3. 1 \in Int
    OBVIOUS
  <2>4. Counted([block |-> b, offset |-> 0], 1) =
          [block EXCEPT ![b] =
             IF block[b].rc + 1 = 0 THEN Free
             ELSE [block[b] EXCEPT !.rc = block[b].rc + 1]]
    BY <1>1, <2>3, CountedAt
  <2>5. QED
    BY <2>1, <2>2, <2>4
<1>3. \A c \in Blocks : block'[c] = IF b = c THEN [block[b] EXCEPT !.rc = block[b].rc + 1]
                                     ELSE block[c]
  BY <1>2 DEF PluginInv, PluginShape
<1>4. \A c \in Blocks : /\ block'[c].kind = block[c].kind
                        /\ block'[c].rc = block[c].rc + (IF b = c THEN 1 ELSE 0)
  BY <1>1, <1>3 DEF PluginInv, PluginShape, Contents
<1>5. PluginShape'
  BY <1>1, <1>2 DEF PluginInv, PluginShape, Contents
<1>6. CountIsPointers'
  <2> SUFFICES ASSUME NEW c \in Blocks
               PROVE  /\ block'[c].rc = Cardinality(PointersInto(c))'
                      /\ block'[c].kind = "free" <=> PointersInto(c)' = {}
    BY DEF CountIsPointers
  <2>1. /\ PointersInto(c)' = IF b = c THEN PointersInto(c) \union {s} ELSE PointersInto(c)
        /\ Cardinality(PointersInto(c))' =
             Cardinality(PointersInto(c)) + (IF b = c THEN 1 ELSE 0)
    BY PointerGained DEF PluginInv
  <2>2. block[c].rc = Cardinality(PointersInto(c))
        /\ (block[c].kind = "free" <=> PointersInto(c) = {})
    BY DEF PluginInv, CountIsPointers
  <2>3. QED
    BY <1>1, <1>4, <2>1, <2>2
<1>7. PointersTyped'
  <2> SUFFICES ASSUME NEW r \in Slots, slot'[r] # NULL
               PROVE  Typed(slot'[r], block'[slot'[r].at.block].kind)
    BY DEF PointersTyped, Typed
  <2>1. CASE r = s
    BY <1>1, <1>4, <2>1 DEF PluginInv, PluginShape
  <2>2. CASE r # s
    <3>1. slot'[r] = slot[r] /\ slot[r].at.block \in Blocks
      BY <2>2, HeldPointer DEF PluginInv, PluginShape
    <3>2. QED
      BY <1>4, <3>1 DEF PluginInv, PointersTyped, Typed
  <2>3. QED
    BY <2>1, <2>2
<1>8. QED
  BY <1>5, <1>6, <1>7 DEF PluginInv

LEMMA QueryInterfaceStep ==
  ASSUME PluginInv, NEW from \in Slots, NEW s \in Slots, NEW iid \in Iids,
         QueryInterface(from, s, iid)
  PROVE  PluginInv'
<1> DEFINE p == slot[from].at
           out == Query(p, iid)
           x == [at |-> out, iid |-> iid]
<1>1. slot[from] # NULL /\ slot[s] = NULL
  BY DEF QueryInterface
<1>2. CASE out = NULL
  BY <1>2, PluginSame DEF QueryInterface
<1>3. CASE out # NULL
  <2>1. slot' = [slot EXCEPT ![s] = x] /\ block' = Counted(Impl(p), 1)
    BY <1>3 DEF QueryInterface
  <2>2. p \in Pointers /\ p.block \in Blocks
    BY <1>1, HeldPointer
  <2>3. x \in Interfaces /\ x.at.block = p.block /\ Typed(x, block[x.at.block].kind)
    <3>1. CASE block[p.block].kind = "factory"
      <4>1. /\ iid \in {"IUnknown", "IComponentFactory"}
            /\ out = [block |-> p.block, offset |-> 0]
        BY <1>1, <1>3, <3>1, QueryOfHeld
      <4>2. QED
        BY <2>2, <3>1, <4>1 DEF Interfaces, Pointers, Typed
    <3>2. CASE block[p.block].kind # "factory"
      <4>1. /\ ViewFor(iid) # "none"
            /\ out = [block |-> p.block, offset |-> Layout[ViewFor(iid)]]
        BY <1>1, <1>3, <3>2, QueryOfHeld
      <4>2. /\ Layout[ViewFor(iid)] \in 0 .. 4
            /\ ViewAt(Layout[ViewFor(iid)]) = ViewFor(iid)
        BY <4>1, ViewForIid, ViewAtLayout
      <4>3. QED
        BY <2>2, <3>2, <4>1, <4>2 DEF Interfaces, Pointers, Typed
    <3>3. QED
      BY <3>1, <3>2
  <2>4. QED
    BY <1>1, <2>1, <2>3, ShareStep
<1>4. QED
  BY <1>2, <1>3

LEMMA AddRefStep ==
  ASSUME PluginInv, NEW from \in Slots, NEW s \in Slots, AddRef(from, s)
  PROVE  PluginInv'
<1>1. /\ slot[from] # NULL /\ slot[s] = NULL
      /\ slot' = [slot EXCEPT ![s] = slot[from]]
      /\ block' = Counted(Impl(slot[from].at), 1)
  BY DEF AddRef
<1>2. slot[from] \in Interfaces
  BY <1>1, HeldPointer
<1>3. Typed(slot[from], block[slot[from].at.block].kind)
  BY <1>1 DEF PluginInv, PointersTyped, Typed
<1>4. QED
  BY <1>1, <1>2, <1>3, ShareStep

LEMMA ReleaseStep ==
  ASSUME PluginInv, NEW s \in Slots, Release(s)
  PROVE  PluginInv'
<1> DEFINE b == slot[s].at.block
           rc == block[b].rc - 1
           x == IF rc = 0 THEN Free ELSE [block[b] EXCEPT !.rc = rc]
<1>1. /\ slot[s] # NULL
      /\ slot' = [slot EXCEPT ![s] = NULL]
      /\ block' = Counted(Impl(slot[s].at), -1)
  BY DEF Release
<1>2. /\ b \in Blocks /\ s \in PointersInto(b)
      /\ block[b] \in Contents /\ block[b].kind # "free" /\ block[b].rc \in Nat \ {0}
      /\ Impl(slot[s].at) = [block |-> b, offset |-> 0]
  BY <1>1, HeldPointer
<1>3. block' = [block EXCEPT ![b] = x]
  <2>1. rc = block[b].rc + (-1)
    BY <1>2
  <2>2. QED
    BY <1>1, <1>2, <2>1, CountedAt
<1>4. /\ x \in Contents /\ x.rc = rc /\ rc \in Nat
      /\ x.kind = IF rc = 0 THEN "free" ELSE block[b].kind
  BY <1>2 DEF Contents, Free
<1>5. \A c \in Blocks : block'[c] = IF b = c THEN x ELSE block[c]
  BY <1>3 DEF PluginInv, PluginShape
<1>6. PluginShape'
  BY <1>1, <1>3, <1>4 DEF PluginInv, PluginShape
<1>7. \A c \in Blocks :
        /\ PointersInto(c)' = IF b = c THEN PointersInto(c) \ {s} ELSE PointersInto(c)
        /\ Cardinality(PointersInto(c))' =
             Cardinality(PointersInto(c)) - (IF b = c THEN 1 ELSE 0)
        /\ Cardinality(PointersInto(c)) \in Nat
        /\ Cardinality(PointersInto(c))' = 0 <=> PointersInto(c)' = {}
  BY <1>1, PointerLost DEF PluginInv
<1>8. CountIsPointers'
  <2> SUFFICES ASSUME NEW c \in Blocks
               PROVE  /\ block'[c].rc = Cardinality(PointersInto(c))'
                      /\ block'[c].kind = "free" <=> PointersInto(c)' = {}
    BY DEF CountIsPointers
  <2>1. block[c].rc = Cardinality(PointersInto(c))
        /\ (block[c].kind = "free" <=> PointersInto(c) = {})
    BY DEF PluginInv, CountIsPointers
  <2>2. CASE c = b
    BY <1>2, <1>4, <1>5, <1>7, <2>1, <2>2
  <2>3. CASE c # b
    BY <1>5, <1>7, <2>1, <2>3
  <2>4. QED
    BY <2>2, <2>3
<1>9. PointersTyped'
  <2> SUFFICES ASSUME NEW r \in Slots, slot'[r] # NULL
               PROVE  Typed(slot'[r], block'[slot'[r].at.block].kind)
    BY DEF PointersTyped, Typed
  <2>1. r # s /\ slot'[r] = slot[r]
    BY <1>1 DEF PluginInv, PluginShape
  <2>2. PICK c \in Blocks :
           /\ c = slot[r].at.block /\ r \in PointersInto(c) /\ block[c].kind # "free"
           /\ Typed(slot[r], block[c].kind)
    BY <2>1, HeldPointer DEF PluginInv, PointersTyped, Typed
  <2>3. r \in PointersInto(c)'
    BY <1>7, <2>1, <2>2
  <2>4. block'[c].kind # "free"
    BY <1>8, <2>2, <2>3 DEF CountIsPointers
  <2>5. block'[c].kind = block[c].kind
    BY <1>4, <1>5, <2>2, <2>4
  <2>6. QED
    BY <2>1, <2>2, <2>5
<1>10. QED
  BY <1>6, <1>8, <1>9 DEF PluginInv

LEMMA PluginInvariance == PluginSpec => []PluginInv
<1>1. PluginInv /\ [PluginNext]_pluginVars => PluginInv'
  <2> SUFFICES ASSUME PluginInv, [PluginNext]_pluginVars
               PROVE  PluginInv'
    OBVIOUS
  <2>1. CASE PluginNext
    BY <2>1, CreateStep, QueryInterfaceStep, AddRefStep, ReleaseStep, PluginSame
       DEF PluginNext, FactoryCreate, CreateFails, Clsids
  <2>2. CASE UNCHANGED pluginVars
    BY <2>2, PluginSame
  <2>3. QED
    BY <2>1, <2>2
<1>2. QED
  BY <1>1, InitPlugin, PTL DEF PluginSpec

-----------------------------------------------------------------------------

(* Blocks and interface pointers keep their types; no counter exceeds the  *)
(* number of the client's pointers.                                        *)
THEOREM PluginTypeCorrect == PluginSpec => []PluginTypeOK
<1>1. PluginInv => PluginTypeOK
  <2> SUFFICES ASSUME PluginInv
               PROVE  PluginTypeOK
    OBVIOUS
  <2>1. \A b \in Blocks : block[b].rc \in 0 .. Cardinality(Slots)
    <3>1. \A b \in Blocks : PointersInto(b) \in SUBSET Slots
      BY DEF PointersInto
    <3>2. QED
      BY <3>1, SlotSets DEF PluginInv, CountIsPointers
  <2>2. QED
    BY <2>1 DEF PluginInv, PluginShape, PluginTypeOK, Contents
<1>2. QED
  BY <1>1, PluginInvariance, PTL

(* sample_add_ref and sample_release, through whichever of the five        *)
(* interfaces, count the pointers of the client: a component or a factory  *)
(* is freed with its last pointer and not before.                          *)
THEOREM ObjectsCounted == PluginSpec => []CountIsPointers
  BY PluginInvariance, PTL DEF PluginInv

(* A pointer got for an interface leads to the vtable of that interface.   *)
THEOREM InterfacesTyped == PluginSpec => []PointersTyped
  BY PluginInvariance, PTL DEF PluginInv

(* Two pointers answer a query for IUnknown alike exactly when they lead   *)
(* to the same object.                                                     *)
THEOREM IdentityHolds == PluginSpec => []IdentityRule
<1>1. PluginInv => IdentityRule
  <2> SUFFICES ASSUME PluginInv, NEW s1 \in Slots, NEW s2 \in Slots,
                      slot[s1] # NULL, slot[s2] # NULL
               PROVE  slot[s1].at.block = slot[s2].at.block
                        <=> Query(slot[s1].at, "IUnknown") = Query(slot[s2].at, "IUnknown")
    BY DEF IdentityRule
  <2>1. ViewFor("IUnknown") # "none" /\ Layout[ViewFor("IUnknown")] = 0
    BY ViewForIid, LayoutValues
  <2>2. \A s \in {s1, s2} :
          Query(slot[s].at, "IUnknown") = [block |-> slot[s].at.block, offset |-> 0]
    BY <2>1, QueryOfHeld
  <2>3. QED
    BY <2>2
<1>2. QED
  BY <1>1, PluginInvariance, PTL

(* All interfaces of one object answer every query alike.                  *)
THEOREM QueriesUniform == PluginSpec => []QueryUniform
<1>1. PluginInv => QueryUniform
  <2> SUFFICES ASSUME PluginInv, NEW s1 \in Slots, NEW s2 \in Slots,
                      slot[s1] # NULL, slot[s2] # NULL,
                      slot[s1].at.block = slot[s2].at.block, NEW iid \in Iids
               PROVE  Query(slot[s1].at, iid) = Query(slot[s2].at, iid)
    BY DEF QueryUniform
  <2>1. QED
    BY QueryOfHeld
<1>2. QED
  BY <1>1, PluginInvariance, PTL

=============================================================================

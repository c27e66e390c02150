--------------------------- MODULE HostAppProofs ---------------------------
(***************************************************************************)
(* The safety properties of HostApp, proved for any blocks that the plugin *)
(* may get: main's lines are the code's, so they are fixed.                *)
(***************************************************************************)
EXTENDS HostApp, SamplePluginProofs

(* The lines that use the plugin; from line 20 on are the 9 releases of    *)
(* cleanup, then unload (29), report, the releases of the objects of the   *)
(* error report, and the end (34).                                         *)
Uses == {"create", "qi", "method", "clock2_now", "message_string", "message_size",
         "message_copy", "factory_create"}

(* What holds before each line of main: the library is mapped in the lines *)
(* that use the plugin; each line of cleanup leaves what it gives back     *)
(* given back.                                                             *)
HostInv ==
  /\ PluginInv
  /\ pc \in 1 .. 34
  /\ lib \in {"none", "mapped", "unmapped"}
  /\ pc = 1 => lib = "none"
  /\ pc \in 2 .. 19 => lib = "mapped"
  /\ pc > 29 => lib # "mapped"
  /\ lib # "mapped" => \A s \in Slots : slot[s] = NULL
  /\ \A i \in 1 .. 9 : pc > 19 + i => slot[ReleaseOrder[i]] = NULL
  /\ pc # 31 => msgStr = NULL
  /\ pc > 32 => errStr = NULL
  /\ pc > 33 => err = NULL

-----------------------------------------------------------------------------
(* Which line is what.                                                     *)

LEMMA TryLines ==
  /\ Len(Try) = 19 /\ \E S : Try \in Seq(S)
  /\ Try[1].do = "load"
  /\ \A i \in 2 .. 19 : Try[i].do \in Uses
  /\ \A i \in 2 .. 19 :
       /\ Try[i].do \in {"create", "qi", "factory_create"} =>
            Try[i].slot \in MainSlots /\ Try[i].iid \in Iids
       /\ Try[i].do = "create" => Try[i].clsid \in Clsids
       /\ Try[i].do \in {"qi", "factory_create"} => Try[i].from \in MainSlots
  /\ Try[14].do = "message_copy"
  /\ \A i \in 1 .. 19 : i # 14 => Try[i].do # "message_copy"
<1>1. Len(Try) = 19
  BY DEF Try
<1>2. Try[1].do = "load" /\ Try[14].do = "message_copy"
  BY DEF Try
<1>3. \A i \in 2 .. 19 : Try[i].do \in Uses
  BY DEF Try, Qi, Uses
<1>4. \A i \in 1 .. 19 : i # 14 => Try[i].do # "message_copy"
  BY DEF Try, Qi, Uses
<1>5. Try \in Seq({Try[i] : i \in 1 .. 19})
  BY <1>1 DEF Try
<1>6. \A i \in 2 .. 19 :
       /\ Try[i].do \in {"create", "qi", "factory_create"} =>
            Try[i].slot \in MainSlots /\ Try[i].iid \in Iids
       /\ Try[i].do = "create" => Try[i].clsid \in Clsids
       /\ Try[i].do \in {"qi", "factory_create"} => Try[i].from \in MainSlots
  BY DEF Try, Qi, MainSlots, Iids, Clsids
<1>7. QED
  BY <1>1, <1>2, <1>3, <1>4, <1>5, <1>6

(* Every interface variable of main has its release.                       *)
LEMMA ReleaseLines ==
  /\ ReleaseOrder \in Seq(MainSlots) /\ Len(ReleaseOrder) = 9
  /\ \A i \in 1 .. 9 : ReleaseOrder[i] \in MainSlots
  /\ \A s \in MainSlots : \E i \in 1 .. 9 : ReleaseOrder[i] = s
<1>1. ReleaseOrder \in Seq(MainSlots) /\ Len(ReleaseOrder) = 9
  BY DEF ReleaseOrder, MainSlots
<1>2. \A s \in MainSlots : \E i \in 1 .. 9 : ReleaseOrder[i] = s
  <2>1. /\ ReleaseOrder[1] = "clock_from_factory"
        /\ ReleaseOrder[2] = "clock_from_factory_u"
        /\ ReleaseOrder[3] = "factory"
        /\ ReleaseOrder[4] = "caps"
        /\ ReleaseOrder[5] = "clk2"
        /\ ReleaseOrder[6] = "clk"
        /\ ReleaseOrder[7] = "log2"
        /\ ReleaseOrder[8] = "log"
        /\ ReleaseOrder[9] = "u"
    BY DEF ReleaseOrder
  <2>2. QED
    BY <2>1 DEF MainSlots
<1>3. \A i \in 1 .. 9 : ReleaseOrder[i] \in MainSlots
  BY DEF ReleaseOrder, MainSlots
<1>4. QED
  BY <1>1, <1>2, <1>3

(* The elements of two lists one after the other.                          *)
LEMMA Concat ==
  ASSUME NEW S, NEW T, NEW s \in Seq(S), NEW t \in Seq(T)
  PROVE  /\ s \o t \in Seq(S \union T)
         /\ Len(s \o t) = Len(s) + Len(t)
         /\ \A i \in 1 .. Len(s) + Len(t) :
              (s \o t)[i] = IF i <= Len(s) THEN s[i] ELSE t[i - Len(s)]
<1>1. s \in Seq(S \union T) /\ t \in Seq(S \union T)
  OBVIOUS
<1>2. QED
  BY <1>1

LEMMA CleanupLines ==
  /\ Len(Cleanup) = 15 /\ \E S : Cleanup \in Seq(S)
  /\ \A i \in 1 .. 9 : Cleanup[i].do = "release" /\ Cleanup[i].slot = ReleaseOrder[i]
  /\ Cleanup[10].do = "unload" /\ Cleanup[11].do = "report"
  /\ Cleanup[12].do = "release_msg" /\ Cleanup[13].do = "release_str"
  /\ Cleanup[14].do = "release_err" /\ Cleanup[15].do = "done"
<1> DEFINE s == [i \in 1 .. Len(ReleaseOrder) |-> [do |-> "release", slot |-> ReleaseOrder[i]]]
           t == << [do |-> "unload"], [do |-> "report"], [do |-> "release_msg"],
                   [do |-> "release_str"], [do |-> "release_err"], [do |-> "done"] >>
           S == {s[i] : i \in 1 .. 9}
           T == {t[i] : i \in 1 .. 6}
<1>1. /\ Len(s) = 9
      /\ \A i \in 1 .. 9 : s[i].do = "release" /\ s[i].slot = ReleaseOrder[i]
  BY ReleaseLines
<1>2. s \in Seq(S)
  BY ReleaseLines
<1>3. /\ Len(t) = 6
      /\ t[1].do = "unload" /\ t[2].do = "report" /\ t[3].do = "release_msg"
      /\ t[4].do = "release_str" /\ t[5].do = "release_err" /\ t[6].do = "done"
  OBVIOUS
<1>4. t \in Seq(T)
  OBVIOUS
<1>5. Cleanup = s \o t
  BY DEF Cleanup
<1> HIDE DEF s, t, S, T
<1>6. /\ Cleanup \in Seq(S \union T)
      /\ Len(Cleanup) = 15
      /\ \A i \in 1 .. 15 : Cleanup[i] = IF i <= 9 THEN s[i] ELSE t[i - 9]
  <2>1. /\ Cleanup \in Seq(S \union T)
        /\ Len(Cleanup) = Len(s) + Len(t)
        /\ \A i \in 1 .. Len(s) + Len(t) :
             Cleanup[i] = IF i <= Len(s) THEN s[i] ELSE t[i - Len(s)]
    BY <1>2, <1>4, <1>5, Concat
  <2>2. Len(s) = 9 /\ Len(t) = 6
    BY <1>1, <1>3
  <2>3. QED
    BY <2>1, <2>2
<1>7. /\ Cleanup[10] = t[1] /\ Cleanup[11] = t[2] /\ Cleanup[12] = t[3]
      /\ Cleanup[13] = t[4] /\ Cleanup[14] = t[5] /\ Cleanup[15] = t[6]
  BY <1>6
<1>8. QED
  BY <1>1, <1>3, <1>6, <1>7

(* The lines of main.                                                      *)
LEMMA MainLines ==
  /\ Len(Main) = 34
  /\ Main[1].do = "load"
  /\ \A i \in 2 .. 19 : Main[i].do \in Uses
  /\ \A i \in 2 .. 19 :
       /\ Main[i].do \in {"create", "qi", "factory_create"} =>
            Main[i].slot \in MainSlots /\ Main[i].iid \in Iids
       /\ Main[i].do = "create" => Main[i].clsid \in Clsids
       /\ Main[i].do \in {"qi", "factory_create"} => Main[i].from \in MainSlots
  /\ \A i \in 1 .. 34 : Main[i].do = "message_copy" <=> i = 14
  /\ \A i \in 20 .. 28 : Main[i].do = "release" /\ Main[i].slot = ReleaseOrder[i - 19]
  /\ Main[29].do = "unload" /\ Main[30].do = "report"
  /\ Main[31].do = "release_msg" /\ Main[32].do = "release_str"
  /\ Main[33].do = "release_err" /\ Main[34].do = "done"
<1>1. /\ Len(Main) = 34
      /\ \A i \in 1 .. 34 : Main[i] = IF i <= 19 THEN Try[i] ELSE Cleanup[i - 19]
  <2>1. PICK S : Try \in Seq(S)
    BY TryLines
  <2>2. PICK T : Cleanup \in Seq(T)
    BY CleanupLines
  <2>3. /\ Len(Main) = Len(Try) + Len(Cleanup)
        /\ \A i \in 1 .. Len(Try) + Len(Cleanup) :
             Main[i] = IF i <= Len(Try) THEN Try[i] ELSE Cleanup[i - Len(Try)]
    BY <2>1, <2>2, Concat DEF Main
  <2>4. QED
    BY <2>3, TryLines, CleanupLines
<1>2. /\ Main[1] = Try[1] /\ Main[14] = Try[14]
      /\ \A i \in 2 .. 19 : Main[i] = Try[i]
      /\ \A i \in 20 .. 28 : Main[i] = Cleanup[i - 19]
  BY <1>1
<1>3. /\ Main[29] = Cleanup[10] /\ Main[30] = Cleanup[11] /\ Main[31] = Cleanup[12]
      /\ Main[32] = Cleanup[13] /\ Main[33] = Cleanup[14] /\ Main[34] = Cleanup[15]
  BY <1>1
<1>4. \A i \in 20 .. 28 : Main[i].do = "release" /\ Main[i].slot = ReleaseOrder[i - 19]
  <2> SUFFICES ASSUME NEW i \in 20 .. 28
               PROVE  Main[i].do = "release" /\ Main[i].slot = ReleaseOrder[i - 19]
    OBVIOUS
  <2>1. i - 19 \in 1 .. 9 /\ Main[i] = Cleanup[i - 19]
    BY <1>2
  <2>2. QED
    BY <2>1, CleanupLines
<1>5. \A i \in 1 .. 34 : Main[i].do = "message_copy" <=> i = 14
  <2> SUFFICES ASSUME NEW i \in 1 .. 34
               PROVE  Main[i].do = "message_copy" <=> i = 14
    OBVIOUS
  <2>1. CASE i \in 1 .. 19
    <3>1. Main[i] = Try[i]
      BY <1>1, <2>1
    <3>2. QED
      BY <2>1, <3>1, TryLines
  <2>2. CASE i \in 20 .. 28
    <3>1. Main[i].do = "release" /\ i # 14
      BY <1>4, <2>2
    <3>2. QED
      BY <3>1
  <2>3. CASE i \in 29 .. 34
    <3>1. Main[i].do \in {"unload", "report", "release_msg", "release_str", "release_err",
                          "done"}
      <4>1. i = 29 \/ i = 30 \/ i = 31 \/ i = 32 \/ i = 33 \/ i = 34
        BY <2>3
      <4>2. Main[29].do = "unload" /\ Main[30].do = "report"
        BY <1>3, CleanupLines
      <4>3. /\ Main[31].do = "release_msg" /\ Main[32].do = "release_str"
            /\ Main[33].do = "release_err" /\ Main[34].do = "done"
        BY <1>3, CleanupLines
      <4>4. QED
        BY <4>1, <4>2, <4>3
    <3>2. QED
      BY <2>3, <3>1
  <2>4. QED
    BY <2>1, <2>2, <2>3
<1>6. \A i \in 2 .. 19 :
       /\ Main[i].do \in {"create", "qi", "factory_create"} =>
            Main[i].slot \in MainSlots /\ Main[i].iid \in Iids
       /\ Main[i].do = "create" => Main[i].clsid \in Clsids
       /\ Main[i].do \in {"qi", "factory_create"} => Main[i].from \in MainSlots
  <2> SUFFICES ASSUME NEW i \in 2 .. 19
               PROVE  /\ Main[i].do \in {"create", "qi", "factory_create"} =>
                            Main[i].slot \in MainSlots /\ Main[i].iid \in Iids
                      /\ Main[i].do = "create" => Main[i].clsid \in Clsids
                      /\ Main[i].do \in {"qi", "factory_create"} => Main[i].from \in MainSlots
    OBVIOUS
  <2>1. Main[i] = Try[i]
    BY <1>2
  <2>2. QED
    BY <2>1, TryLines
<1>7. QED
  <2>1. /\ Main[29].do = "unload" /\ Main[30].do = "report"
        /\ Main[31].do = "release_msg" /\ Main[32].do = "release_str"
        /\ Main[33].do = "release_err" /\ Main[34].do = "done"
    BY <1>3, CleanupLines
  <2>2. Main[1].do = "load" /\ \A i \in 2 .. 19 : Main[i].do \in Uses
    BY <1>2, TryLines
  <2>3. QED
    BY <1>1, <1>4, <1>5, <1>6, <2>1, <2>2

(* Which lines an action can be at.                                        *)
LEMMA LineIs ==
  ASSUME pc \in 1 .. 34
  PROVE  /\ Line.do = "load" <=> pc = 1
         /\ Line.do \in Uses <=> pc \in 2 .. 19
         /\ Line.do = "release" <=> pc \in 20 .. 28
         /\ Line.do = "release" => Line.slot = ReleaseOrder[pc - 19]
         /\ Line.do = "unload" <=> pc = 29
         /\ Line.do = "report" <=> pc = 30
         /\ Line.do = "release_msg" <=> pc = 31
         /\ Line.do = "release_str" <=> pc = 32
         /\ Line.do = "release_err" <=> pc = 33
         /\ Line.do = "done" <=> pc = 34
<1>1. pc = 1 \/ pc \in 2 .. 19 \/ pc \in 20 .. 28 \/ pc \in 29 .. 34
  OBVIOUS
<1>2. CASE pc = 1
  BY <1>2, MainLines DEF Line, Uses
<1>3. CASE pc \in 2 .. 19
  BY <1>3, MainLines DEF Line, Uses
<1>4. CASE pc \in 20 .. 28
  BY <1>4, MainLines DEF Line, Uses
<1>5. CASE pc \in 29 .. 34
  BY <1>5, MainLines DEF Line, Uses
<1>6. QED
  BY <1>1, <1>2, <1>3, <1>4, <1>5

LEMMA LinesOf ==
  LineOf("message_copy") = 14 /\ LineOf("release_str") = 32
<1>1. LineOf("message_copy") = 14
  BY MainLines DEF LineOf
<1>2. \A i \in 1 .. 34 : Main[i].do = "release_str" <=> i = 32
  <2> SUFFICES ASSUME NEW i \in 1 .. 34
               PROVE  Main[i].do = "release_str" <=> i = 32
    OBVIOUS
  <2>1. CASE i = 1 \/ i \in 2 .. 19
    BY <2>1, MainLines DEF Uses
  <2>2. CASE i \in 20 .. 28
    BY <2>2, MainLines
  <2>3. CASE i \in 29 .. 34
    BY <2>3, MainLines
  <2>4. QED
    BY <2>1, <2>2, <2>3
<1>3. LineOf("release_str") = 32
  BY <1>2, MainLines DEF LineOf
<1>4. QED
  BY <1>1, <1>3

(* What the lines work on.                                                 *)
LEMMA LineFields ==
  ASSUME pc \in 2 .. 19
  PROVE  /\ Line.do \in {"create", "qi", "factory_create"} =>
              Line.slot \in Slots /\ Line.iid \in Iids
         /\ Line.do = "create" => Line.clsid \in Clsids
         /\ Line.do \in {"qi", "factory_create"} => Line.from \in Slots
BY MainLines, MainAssumption DEF Line

-----------------------------------------------------------------------------
(* Every line keeps the invariant.                                         *)

LEMMA InitHost == HostInit => HostInv
BY InitPlugin DEF HostInit, PluginInit, HostInv

LEMMA LoadStep ==
  ASSUME HostInv, Load
  PROVE  HostInv'
<1>1. pc = 1 /\ lib = "none"
  BY LineIs DEF HostInv, Load
<1>2. PluginInv'
  BY PluginSame DEF HostInv, Load, pluginVars
<1>3. \/ pc' = 2 /\ lib' = "mapped"
      \/ pc' = 20 /\ lib' = lib
  BY <1>1, TryLines DEF Load, GoOn, GotoCleanup
<1>4. UNCHANGED <<slot, msgStr>> /\ msgStr = NULL /\ \A s \in Slots : slot[s] = NULL
  BY <1>1 DEF HostInv, Load
<1>5. QED
  BY <1>1, <1>2, <1>3, <1>4 DEF HostInv

(* A line that uses the plugin goes on to the next one or to cleanup.      *)
LEMMA UseStep ==
  ASSUME HostInv, Line.do \in Uses, PluginInv', UNCHANGED <<lib, msgStr>>,
         \/ GoOn
         \/ GotoCleanup
         \/ pc' = LineOf("message_copy") + 1
  PROVE  HostInv'
<1>1. pc \in 2 .. 19
  BY LineIs DEF HostInv
<1>2. pc' \in 3 .. 20
  <2>1. Len(Try) = 19
    BY TryLines
  <2>2. pc' = pc + 1 \/ pc' = 20 \/ pc' = 15
    BY <2>1, LinesOf DEF GoOn, GotoCleanup
  <2>3. QED
    BY <1>1, <2>2
<1>3. QED
  BY <1>1, <1>2 DEF HostInv

LEMMA CreateInstanceStep ==
  ASSUME HostInv, CreateInstance
  PROVE  HostInv'
<1>1. Line.do = "create" /\ Line.do \in Uses
  BY DEF CreateInstance, Uses
<1>2. Line.slot \in Slots /\ Line.clsid \in Clsids /\ Line.iid \in Iids
  BY <1>1, LineIs, LineFields DEF HostInv
<1>3. PluginInv'
  BY <1>2, CreateStep, PluginSame DEF HostInv, CreateInstance, CreateFails
<1>4. QED
  BY <1>1, <1>3, UseStep DEF CreateInstance

LEMMA QueryLineStep ==
  ASSUME HostInv, QueryLine
  PROVE  HostInv'
<1>1. Line.do = "qi" /\ Line.do \in Uses
  BY DEF QueryLine, Uses
<1>2. Line.slot \in Slots /\ Line.from \in Slots /\ Line.iid \in Iids
  BY <1>1, LineIs, LineFields DEF HostInv
<1>3. PluginInv'
  BY <1>2, QueryInterfaceStep DEF HostInv, QueryLine
<1>4. QED
  BY <1>1, <1>3, UseStep DEF QueryLine

LEMMA FactoryLineStep ==
  ASSUME HostInv, FactoryLine
  PROVE  HostInv'
<1>1. Line.do = "factory_create" /\ Line.do \in Uses
  BY DEF FactoryLine, Uses
<1>2. Line.slot \in Slots /\ Line.from \in Slots /\ Line.iid \in Iids
  BY <1>1, LineIs, LineFields DEF HostInv
<1>3. PluginInv'
  BY <1>2, CreateStep, PluginSame
     DEF HostInv, FactoryLine, FactoryCreate, CreateFails, Clsids
<1>4. QED
  BY <1>1, <1>3, UseStep DEF FactoryLine

(* The calls that leave the plugin's objects as they are.                  *)
LEMMA OtherUseStep ==
  ASSUME HostInv,
         MethodLine \/ Clock2Now \/ MessageString \/ MessageSize \/ MessageCopy
  PROVE  HostInv'
<1>1. Line.do \in Uses /\ UNCHANGED <<block, slot, lib, msgStr>>
  BY DEF MethodLine, Clock2Now, MessageString, MessageSize, MessageCopy, Uses
<1>2. GoOn \/ GotoCleanup \/ pc' = LineOf("message_copy") + 1
  BY DEF MethodLine, Clock2Now, MessageString, MessageSize, MessageCopy
<1>3. PluginInv'
  BY <1>1, PluginSame DEF HostInv, pluginVars
<1>4. QED
  BY <1>1, <1>2, <1>3, UseStep

LEMMA ReleaseLineStep ==
  ASSUME HostInv, ReleaseLine
  PROVE  HostInv'
<1>1. pc \in 20 .. 28 /\ pc' = pc + 1 /\ UNCHANGED hostVars
  BY LineIs DEF HostInv, ReleaseLine, GoOn
<1>2. PICK i \in 1 .. 9 : pc = 19 + i /\ Line.slot = ReleaseOrder[i]
  <2>1. Line.slot = ReleaseOrder[pc - 19]
    BY LineIs DEF HostInv, ReleaseLine
  <2>2. pc - 19 \in 1 .. 9 /\ pc = 19 + (pc - 19)
    BY <1>1
  <2>3. QED
    BY <2>1, <2>2
<1>3. Line.slot \in Slots
  BY <1>2, ReleaseLines, MainAssumption
<1>4. PluginInv'
  BY <1>3, ReleaseStep, PluginSame DEF HostInv, ReleaseLine, pluginVars
<1>5. slot'[Line.slot] = NULL /\ \A s \in Slots : slot[s] = NULL => slot'[s] = NULL
  BY <1>3 DEF HostInv, PluginInv, PluginShape, ReleaseLine, Release
<1>6. \A j \in 1 .. 9 : pc' > 19 + j => slot'[ReleaseOrder[j]] = NULL
  <2> SUFFICES ASSUME NEW j \in 1 .. 9, pc' > 19 + j
               PROVE  slot'[ReleaseOrder[j]] = NULL
    OBVIOUS
  <2>1. CASE j = i
    BY <1>2, <1>5, <2>1
  <2>2. CASE j # i
    <3>1. pc > 19 + j
      BY <1>1, <1>2, <2>2
    <3>2. ReleaseOrder[j] \in Slots
      BY ReleaseLines, MainAssumption
    <3>3. QED
      BY <1>5, <3>1, <3>2 DEF HostInv
  <2>3. QED
    BY <2>1, <2>2
<1>7. QED
  BY <1>1, <1>4, <1>5, <1>6 DEF HostInv, hostVars

(* After the releases every interface variable is NULL.                    *)
LEMMA AllReleased ==
  ASSUME HostInv, pc > 28
  PROVE  \A s \in Slots : slot[s] = NULL
<1> SUFFICES ASSUME NEW s \in Slots
             PROVE  slot[s] = NULL
  OBVIOUS
<1>1. PICK i \in 1 .. 9 : ReleaseOrder[i] = s
  BY ReleaseLines, MainAssumption
<1>2. pc > 19 + i
  BY DEF HostInv
<1>3. QED
  BY <1>1, <1>2 DEF HostInv

(* From unload on nothing happens to the plugin's objects.                 *)
LEMMA UnloadStep ==
  ASSUME HostInv, Unload
  PROVE  HostInv'
<1>1. pc = 29
  BY LineIs DEF HostInv, Unload
<1>2. PluginInv'
  BY PluginSame DEF HostInv, Unload, pluginVars
<1>3. \A s \in Slots : slot[s] = NULL
  BY <1>1, AllReleased
<1>4. lib' \in {"none", "unmapped"} /\ pc' \in {30, 32}
  BY <1>1, LinesOf DEF HostInv, Unload
<1>5. \A i \in 1 .. 9 : slot[ReleaseOrder[i]] = NULL
  BY <1>3, ReleaseLines, MainAssumption
<1>6. QED
  BY <1>1, <1>2, <1>3, <1>4, <1>5 DEF HostInv, Unload

LEMMA ReportStep ==
  ASSUME HostInv, Report \/ ReleaseMsg \/ ReleaseStr \/ ReleaseErr
  PROVE  HostInv'
<1>1. pc \in 30 .. 33 /\ pc' = pc + 1 /\ UNCHANGED <<block, slot, lib>>
  BY LineIs DEF HostInv, Report, ReleaseMsg, ReleaseStr, ReleaseErr, GoOn
<1>2. PluginInv'
  BY <1>1, PluginSame DEF HostInv, pluginVars
<1>3. \A s \in Slots : slot[s] = NULL
  BY <1>1, AllReleased
<1>4. \A i \in 1 .. 9 : slot[ReleaseOrder[i]] = NULL
  BY <1>3, ReleaseLines, MainAssumption
<1>5. /\ pc' # 31 => msgStr' = NULL
      /\ pc' > 32 => errStr' = NULL
      /\ pc' > 33 => err' = NULL
  BY <1>1, LineIs DEF HostInv, Report, ReleaseMsg, ReleaseStr, ReleaseErr
<1>6. QED
  BY <1>1, <1>2, <1>3, <1>4, <1>5 DEF HostInv

LEMMA HostInvariance == HostSpec => []HostInv
<1>1. HostInv /\ [HostNext]_vars => HostInv'
  <2> SUFFICES ASSUME HostInv, [HostNext]_vars
               PROVE  HostInv'
    OBVIOUS
  <2>1. CASE UNCHANGED vars
    <3>1. PluginInv'
      BY <2>1, PluginSame DEF HostInv, vars, pluginVars
    <3>2. QED
      BY <2>1, <3>1 DEF HostInv, vars
  <2>2. CASE HostNext
    BY <2>1, <2>2, LoadStep, CreateInstanceStep, QueryLineStep, OtherUseStep,
       FactoryLineStep, ReleaseLineStep, UnloadStep, ReportStep
       DEF HostNext, Exited
  <2>3. QED
    BY <2>1, <2>2
<1>2. QED
  BY <1>1, InitHost, PTL DEF HostSpec

-----------------------------------------------------------------------------

(* Whatever fails in main, it holds pointers to the plugin's objects only  *)
(* while the plugin is mapped.                                             *)
THEOREM ObjectsMapped == HostSpec => []PluginObjectsMapped
<1>1. HostInv => PluginObjectsMapped
  BY DEF HostInv, PluginObjectsMapped
<1>2. QED
  BY <1>1, HostInvariance, PTL

(* By whatever path main reaches its end, the components and the factory   *)
(* are freed, the error and string objects released and the plugin         *)
(* unloaded.                                                               *)
THEOREM EverythingGivenBack == HostSpec => []NothingLeftAtExit
<1>1. HostInv => NothingLeftAtExit
  <2> SUFFICES ASSUME HostInv, Line.do = "done"
               PROVE  /\ \A s \in Slots : slot[s] = NULL
                      /\ \A b \in Blocks : block[b] = Free
                      /\ err = NULL /\ errStr = NULL /\ msgStr = NULL
                      /\ lib # "mapped"
    BY DEF NothingLeftAtExit
  <2>1. pc = 34
    BY LineIs DEF HostInv
  <2>2. \A s \in Slots : slot[s] = NULL
    BY <2>1, AllReleased
  <2>3. \A b \in Blocks : block[b] = Free
    <3> SUFFICES ASSUME NEW b \in Blocks
                 PROVE  block[b] = Free
      OBVIOUS
    <3>1. PointersInto(b) = {}
      BY <2>2 DEF PointersInto
    <3>2. block[b].rc = 0 /\ block[b].kind = "free" /\ block[b] \in Contents
      BY <3>1, FS_EmptySet DEF HostInv, PluginInv, PluginShape, CountIsPointers
    <3>3. QED
      BY <3>2 DEF Contents, Free
  <2>4. QED
    BY <2>1, <2>2, <2>3 DEF HostInv
<1>2. QED
  BY <1>1, HostInvariance, PTL

=============================================================================

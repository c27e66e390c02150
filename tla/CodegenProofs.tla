--------------------------- MODULE CodegenProofs ---------------------------
(***************************************************************************)
(* What is proved of the generators' operators, for any syntax tree: the   *)
(* order of the interfaces in the header, and the agreement of signatures. *)
(* The lemmas on lists that the proofs about imports need are here, too.   *)
(*                                                                         *)
(* Induction is by the least counterexample, and a function defined by     *)
(* recursion exists because sets of numbers have least elements (LeastOf,  *)
(* from the library's theorems on well-founded relations): both are        *)
(* statements about sets and functions, as the provers need them.          *)
(***************************************************************************)
EXTENDS Codegen, SequenceTheorems, FiniteSetTheorems, WellFoundedInduction, TLAPS

-----------------------------------------------------------------------------
(* Induction and recursion on natural numbers.                             *)

LEMMA LeastOf ==
  ASSUME NEW S \in SUBSET Nat, S # {}
  PROVE  \E n \in S : \A m \in S : n <= m
<1>1. PICK R : R = OpToRel(<, Nat)
  OBVIOUS
<1>2. IsWellFoundedOn(R, Nat)
  BY <1>1, NatLessThanWellFounded
<1>3. PICK n \in S : \A m \in S : <<m, n>> \notin R
  BY <1>2, WFMin
<1>4. \A m \in S : m \in Nat /\ n \in Nat /\ ~(m < n)
  BY <1>1, <1>3 DEF OpToRel
<1>5. QED
  BY <1>4

(* Induction up to N: T is the set of numbers that have the property.      *)
LEMMA UpTo ==
  ASSUME NEW N \in Nat, NEW T, 0 \in T,
         \A n \in Nat : n < N /\ n \in T => n + 1 \in T
  PROVE  0 .. N \subseteq T
<1>1. PICK S : S = {n \in 0 .. N : n \notin T}
  OBVIOUS
<1>2. SUFFICES ASSUME S # {} PROVE FALSE
  BY <1>1
<1>3. PICK n \in S : \A m \in S : n <= m
  BY <1>1, <1>2, LeastOf
<1>4. n \in Nat /\ n <= N /\ n # 0 /\ n \notin T
  BY <1>1, <1>3
<1>5. n - 1 \in Nat /\ n - 1 < N /\ n - 1 < n
  BY <1>4
<1>6. n - 1 \in T
  BY <1>1, <1>3, <1>5
<1>7. QED
  BY <1>4, <1>5, <1>6

(* The values that a loop goes through: step[i] makes the i-th from the    *)
(* one before.                                                             *)
IsLoop(f, N, a, step) == f[0] = a /\ \A i \in 1 .. N : f[i] = step[i][f[i - 1]]

(* A function defined by recursion on 0 .. N exists.                       *)
LEMMA Recursion ==
  ASSUME NEW N \in Nat, NEW G, NEW a \in G, NEW step \in [1 .. N -> [G -> G]]
  PROVE  \E f \in [0 .. N -> G] : IsLoop(f, N, a, step)
<1> DEFINE Ok(n, f) == f \in [0 .. n -> G] /\ IsLoop(f, n, a, step)
<1> USE DEF IsLoop
<1>1. PICK T : T = {n \in Nat : n <= N => \E f : Ok(n, f)}
  OBVIOUS
<1>2. 0 \in T
  <2>1. PICK f : f = [i \in 0 .. 0 |-> a]
    OBVIOUS
  <2>2. Ok(0, f)
    BY <2>1
  <2>3. QED
    BY <1>1, <2>2
<1>3. ASSUME NEW n \in Nat, n < N, n \in T
      PROVE  n + 1 \in T
  <2>1. PICK f : Ok(n, f)
    BY <1>1, <1>3
  <2>2. PICK g : g = [i \in 0 .. n + 1 |-> IF i = n + 1 THEN step[n + 1][f[n]] ELSE f[i]]
    OBVIOUS
  <2>3. step[n + 1] \in [G -> G] /\ f[n] \in G
    BY <1>3, <2>1
  <2>4. \A i \in 0 .. n + 1 : i = n + 1 \/ i \in 0 .. n
    BY <1>3
  <2>5. g \in [0 .. n + 1 -> G] /\ g[0] = a
    BY <1>3, <2>1, <2>2, <2>3, <2>4
  <2>6. ASSUME NEW i \in 1 .. n + 1
        PROVE  g[i] = step[i][g[i - 1]]
    <3>1. CASE i = n + 1
      BY <1>3, <2>2, <3>1
    <3>2. CASE i # n + 1
      <4>1. /\ i \in 1 .. n /\ i \in 0 .. n /\ i \in 0 .. n + 1
            /\ i - 1 \in 0 .. n /\ i - 1 # n + 1 /\ i - 1 \in 0 .. n + 1
        BY <1>3, <3>2
      <4>2. g[i] = f[i] /\ g[i - 1] = f[i - 1]
        BY <2>2, <3>2, <4>1
      <4>3. QED
        BY <2>1, <4>1, <4>2
    <3>3. QED
      BY <3>1, <3>2
  <2>7. Ok(n + 1, g)
    BY <2>5, <2>6
  <2> HIDE DEF Ok
  <2>8. QED
    BY <1>1, <1>3, <2>7
<1>4. 0 .. N \subseteq T
  <2> HIDE DEF Ok
  <2>1. QED
    BY <1>2, <1>3, UpTo
<1>5. N \in T
  BY <1>4
<1>6. PICK f : Ok(N, f)
  BY <1>1, <1>5
<1>7. QED
  BY <1>6

-----------------------------------------------------------------------------
(* Lists.                                                                  *)

LEMMA SeqAppend ==
  ASSUME NEW s, IsList(s), NEW x, NEW t, t = Append(s, x)
  PROVE  /\ IsList(t) /\ Len(t) = Len(s) + 1 /\ Len(s) \in Nat
         /\ \A i \in 1 .. Len(s) : t[i] = s[i]
         /\ t[Len(s) + 1] = x
<1>1. s \in Seq(Range(s) \union {x})
  BY DEF IsList
<1>2. t \in Seq(Range(s) \union {x})
  BY <1>1
<1>3. IsList(t)
  BY <1>2, SeqOfRange DEF IsList
<1>4. QED
  BY <1>1, <1>3

LEMMA SeqFront ==
  ASSUME NEW s, IsList(s), s # <<>>
  PROVE  /\ IsList(Front(s)) /\ Len(Front(s)) = Len(s) - 1 /\ Len(s) \in Nat \ {0}
         /\ \A i \in 1 .. Len(s) - 1 : Front(s)[i] = s[i]
<1>1. s \in Seq(Range(s)) /\ Len(s) \in Nat \ {0}
  BY DEF IsList
<1>2. /\ Front(s) \in Seq(Range(s)) /\ Len(Front(s)) = Len(s) - 1
      /\ \A i \in 1 .. Len(s) - 1 : Front(s)[i] = s[i]
  <2> DEFINE n == Len(s) - 1
  <2>1. n \in Nat /\ \A i \in 1 .. n : s[i] \in Range(s)
    BY <1>1
  <2>2. Front(s) = SubSeq(s, 1, n)
    BY DEF Front
  <2> HIDE DEF n
  <2>3. /\ SubSeq(s, 1, n) \in Seq(Range(s))
        /\ Len(SubSeq(s, 1, n)) = IF 1 <= n THEN n - 1 + 1 ELSE 0
        /\ \A i \in 1 .. n - 1 + 1 : SubSeq(s, 1, n)[i] = s[1 + i - 1]
    BY <2>1, SubSeqProperties
  <2>4. /\ Len(Front(s)) = n /\ Front(s) \in Seq(Range(s))
        /\ \A i \in 1 .. n : Front(s)[i] = s[i]
    BY <2>1, <2>2, <2>3
  <2>5. QED
    BY <2>4 DEF n
<1>3. QED
  BY <1>1, <1>2, SeqOfRange DEF IsList

(* Elements of a list, by their places.                                    *)
LEMMA ListRange ==
  ASSUME NEW s, IsList(s)
  PROVE  /\ Len(s) \in Nat /\ DOMAIN s = 1 .. Len(s)
         /\ \A x : x \in Range(s) <=> \E i \in 1 .. Len(s) : s[i] = x
BY DEF IsList, Range

LEMMA ListMade ==
  ASSUME NEW n \in Nat, NEW s, DOMAIN s = 1 .. n, s = [i \in 1 .. n |-> s[i]]
  PROVE  IsList(s) /\ Len(s) = n
<1>1. s \in [1 .. n -> Range(s)]
  BY DEF Range
<1>2. QED
  BY <1>1 DEF IsList

(* A list with another one before it.                                      *)
LEMMA ListPrepend ==
  ASSUME NEW s, IsList(s), NEW x, NEW t, t = <<x>> \o s
  PROVE  /\ IsList(t) /\ Len(t) = Len(s) + 1 /\ Len(s) \in Nat
         /\ t[1] = x /\ \A i \in 1 .. Len(s) : t[i + 1] = s[i]
         /\ \A i \in 1 .. Len(t) : i = 1 \/ (i - 1 \in 1 .. Len(s) /\ t[i] = s[i - 1])
         /\ Range(t) = Range(s) \union {x}
<1>1. s \in Seq(Range(s) \union {x}) /\ <<x>> \in Seq(Range(s) \union {x}) /\ Len(s) \in Nat
  BY DEF IsList
<1>2. t \in Seq(Range(s) \union {x}) /\ Len(t) = 1 + Len(s)
  BY <1>1
<1>3. IsList(t)
  BY <1>2, SeqOfRange DEF IsList
<1>4. t[1] = x /\ \A i \in 1 .. Len(s) : t[i + 1] = s[i]
  BY <1>1
<1>5. ASSUME NEW i \in 1 .. Len(t), i # 1
      PROVE  i - 1 \in 1 .. Len(s) /\ t[i] = s[i - 1]
  <2>1. i - 1 \in 1 .. Len(s) /\ (i - 1) + 1 = i
    BY <1>1, <1>2, <1>5
  <2>2. QED
    BY <1>4, <2>1
<1>6. Range(t) = Range(s) \union {x}
  <2>1. ASSUME NEW y \in Range(t)
        PROVE  y \in Range(s) \union {x}
    <3>1. PICK i \in 1 .. Len(t) : t[i] = y
      BY <1>3, <2>1, ListRange
    <3>2. CASE i = 1
      BY <1>4, <3>1, <3>2
    <3>3. CASE i # 1
      <4>1. i - 1 \in 1 .. Len(s) /\ y = s[i - 1]
        BY <1>5, <3>1, <3>3
      <4>2. QED
        BY <4>1, ListRange
    <3>4. QED
      BY <3>2, <3>3
  <2>2. ASSUME NEW y \in Range(s)
        PROVE  y \in Range(t)
    <3>1. PICK i \in 1 .. Len(s) : s[i] = y
      BY <2>2, ListRange
    <3>2. i + 1 \in 1 .. Len(t) /\ t[i + 1] = y
      BY <1>1, <1>2, <1>4, <3>1
    <3>3. QED
      BY <1>3, <3>2, ListRange
  <2>3. x \in Range(t)
    <3>1. 1 \in 1 .. Len(t)
      BY <1>1, <1>2
    <3>2. QED
      BY <1>3, <1>4, <3>1, ListRange
  <2>4. QED
    BY <2>1, <2>2, <2>3
<1>7. QED
  BY <1>1, <1>2, <1>3, <1>4, <1>5, <1>6

LEMMA RangePrepended ==
  ASSUME NEW s, IsList(s), NEW x
  PROVE  Range(<<x>> \o s) = Range(s) \union {x}
<1>1. PICK t : t = <<x>> \o s
  OBVIOUS
<1>2. Range(t) = Range(s) \union {x}
  BY <1>1, ListPrepend
<1>3. QED
  BY <1>1, <1>2

LEMMA ListAppended ==
  ASSUME NEW s, IsList(s), NEW x, NEW t, t = Append(s, x)
  PROVE  IsList(t) /\ Range(t) = Range(s) \union {x}
<1>1. /\ IsList(t) /\ Len(t) = Len(s) + 1 /\ Len(s) \in Nat /\ t[Len(s) + 1] = x
      /\ \A i \in 1 .. Len(s) : t[i] = s[i]
  <2>1. IsList(t) /\ Len(t) = Len(s) + 1 /\ Len(s) \in Nat
    BY SeqAppend
  <2>2. t[Len(s) + 1] = x
    BY SeqAppend
  <2>3. \A i \in 1 .. Len(s) : t[i] = s[i]
    BY SeqAppend
  <2>4. QED
    BY <2>1, <2>2, <2>3
<1>2. \A i \in 1 .. Len(t) : i = Len(s) + 1 \/ i \in 1 .. Len(s)
  BY <1>1
<1>3. Len(s) + 1 \in 1 .. Len(t) /\ \A i \in 1 .. Len(s) : i \in 1 .. Len(t)
  BY <1>1
<1>4. ASSUME NEW y \in Range(t)
      PROVE  y \in Range(s) \union {x}
  <2>1. PICK i \in 1 .. Len(t) : t[i] = y
    BY <1>1, <1>4, ListRange
  <2>2. QED
    BY <1>1, <1>2, <2>1, ListRange
<1>5. ASSUME NEW y \in Range(s)
      PROVE  y \in Range(t)
  <2>1. PICK i \in 1 .. Len(s) : s[i] = y
    BY <1>5, ListRange
  <2>2. QED
    BY <1>1, <1>3, <2>1, ListRange
<1>6. x \in Range(t)
  BY <1>1, <1>3, ListRange
<1>7. QED
  BY <1>1, <1>4, <1>5, <1>6

LEMMA ListReversed ==
  ASSUME NEW s, IsList(s), NEW t, t = Reverse(s)
  PROVE  /\ IsList(t) /\ Len(t) = Len(s) /\ Len(s) \in Nat /\ Range(t) = Range(s)
         /\ \A i \in 1 .. Len(s) : Len(s) + 1 - i \in 1 .. Len(s) /\ t[i] = s[Len(s) + 1 - i]
<1>1. PICK n : n = Len(s)
  OBVIOUS
<1>2. n \in Nat
  BY <1>1 DEF IsList
<1>3. t = [i \in 1 .. n |-> s[(n - i) + 1]]
  BY <1>1 DEF Reverse
<1>4. \A i \in 1 .. n : n + 1 - i \in 1 .. n /\ (n - i) + 1 = n + 1 - i
  BY <1>2
<1>5. \A i \in 1 .. n : t[i] = s[n + 1 - i]
  BY <1>3, <1>4
<1>6. IsList(t) /\ Len(t) = n
  BY <1>2, <1>3, ListMade
<1>7. ASSUME NEW x \in Range(t)
      PROVE  x \in Range(s)
  <2>1. PICK i \in 1 .. n : t[i] = x
    BY <1>6, <1>7, ListRange
  <2>2. QED
    BY <1>1, <1>4, <1>5, <2>1, ListRange
<1>8. ASSUME NEW x \in Range(s)
      PROVE  x \in Range(t)
  <2>1. PICK i \in 1 .. n : s[i] = x
    BY <1>1, <1>8, ListRange
  <2>2. n + 1 - i \in 1 .. n /\ n + 1 - (n + 1 - i) = i
    BY <1>2, <2>1
  <2>3. t[n + 1 - i] = x
    BY <1>5, <2>1, <2>2
  <2>4. QED
    BY <1>6, <2>2, <2>3, ListRange
<1>9. QED
  BY <1>1, <1>2, <1>4, <1>5, <1>6, <1>7, <1>8

(* The loop of Those.                                                      *)
KeptSoFar(f, s, S) ==
  /\ f[0] = <<>> /\ f[Len(s)] = Those(s, S)
  /\ \A i \in 1 .. Len(s) :
       f[i] = IF s[i] \in S THEN Append(f[i - 1], s[i]) ELSE f[i - 1]

LEMMA ThoseLoop ==
  ASSUME NEW s, IsList(s), NEW S
  PROVE  \E f : KeptSoFar(f, s, S)
<1>1. PICK n : n = Len(s)
  OBVIOUS
<1>2. n \in Nat /\ \A i \in 1 .. n : s[i] \in Range(s)
  BY <1>1 DEF IsList
<1>3. PICK G : G = Seq(Range(s))
  OBVIOUS
<1>4. PICK step : step = [i \in 1 .. n |-> [t \in G |-> IF s[i] \in S THEN Append(t, s[i]) ELSE t]]
  OBVIOUS
<1>5. step \in [1 .. n -> [G -> G]] /\ <<>> \in G
  BY <1>2, <1>3, <1>4
<1>6. PICK f \in [0 .. n -> G] : f[0] = <<>> /\ \A i \in 1 .. n : f[i] = step[i][f[i - 1]]
  <2>1. PICK a : a = <<>>
    OBVIOUS
  <2>2. a \in G
    BY <1>5, <2>1
  <2>3. \E f \in [0 .. n -> G] : f[0] = a /\ \A i \in 1 .. n : f[i] = step[i][f[i - 1]]
    <3>1. step \in [1 .. n -> [G -> G]] /\ n \in Nat
      BY <1>2, <1>5
    <3>2. \E f \in [0 .. n -> G] : IsLoop(f, n, a, step)
      BY <2>2, <3>1, Recursion
    <3>3. QED
      BY <3>2 DEF IsLoop
  <2>4. QED
    BY <2>1, <2>3
<1>7. \A i \in 1 .. n : f[i - 1] \in G
  BY <1>2, <1>6
<1>8. \A i \in 1 .. n : f[i] = IF s[i] \in S THEN Append(f[i - 1], s[i]) ELSE f[i - 1]
  BY <1>4, <1>6, <1>7
<1>9. f = [i \in 0 .. n |-> IF i = 0 THEN <<>>
                           ELSE IF s[i] \in S THEN Append(f[i - 1], s[i]) ELSE f[i - 1]]
  <2>1. \A i \in 0 .. n : i = 0 \/ i \in 1 .. n
    BY <1>2
  <2>2. QED
    BY <1>6, <1>8, <2>1
<1>10. PICK g : /\ g = [i \in 0 .. n |-> IF i = 0 THEN <<>>
                           ELSE IF s[i] \in S THEN Append(g[i - 1], s[i]) ELSE g[i - 1]]
                /\ Those(s, S) = g[n]
  BY <1>1, <1>9 DEF Those
<1>11. g = f
  <2>1. PICK T : T = {i \in Nat : i <= n => g[i] = f[i]}
    OBVIOUS
  <2>2. 0 \in T
    BY <1>2, <1>6, <1>10, <2>1
  <2>3. ASSUME NEW i \in Nat, i < n, i \in T
        PROVE  i + 1 \in T
    <3>1. i + 1 \in 1 .. n /\ i + 1 \in 0 .. n /\ (i + 1) - 1 = i /\ i + 1 # 0
      BY <1>2, <2>3
    <3>2. g[i] = f[i]
      BY <2>1, <2>3, <1>2
    <3>3. g[i + 1] = IF s[i + 1] \in S THEN Append(g[i], s[i + 1]) ELSE g[i]
      BY <1>10, <3>1
    <3>4. f[i + 1] = IF s[i + 1] \in S THEN Append(f[i], s[i + 1]) ELSE f[i]
      BY <1>8, <3>1
    <3>5. QED
      BY <2>1, <3>2, <3>3, <3>4
  <2>4. 0 .. n \subseteq T
    BY <1>2, <2>2, <2>3, UpTo
  <2>5. \A i \in 0 .. n : g[i] = f[i]
    BY <2>1, <2>4
  <2>6. QED
    BY <1>9, <1>10, <2>5
<1>12. QED
  BY <1>1, <1>6, <1>8, <1>10, <1>11 DEF KeptSoFar

(* Those keeps exactly the elements that are in the set.                   *)
LEMMA ThoseRange ==
  ASSUME NEW s, IsList(s), NEW S
  PROVE  IsList(Those(s, S)) /\ Range(Those(s, S)) = Range(s) \cap S
<1>1. PICK f : KeptSoFar(f, s, S)
  BY ThoseLoop
<1>2. PICK n : n = Len(s)
  OBVIOUS
<1>3. n \in Nat
  BY <1>2, ListRange
<1>4. PICK T : T = {i \in Nat : i <= n => /\ IsList(f[i])
                                         /\ Range(f[i]) = {s[j] : j \in 1 .. i} \cap S}
  OBVIOUS
<1>5. 0 \in T
  <2>1. f[0] = <<>> /\ f[0] \in Seq({}) /\ Range(f[0]) = {}
    BY <1>1 DEF Range, KeptSoFar
  <2>2. IsList(f[0])
    BY <2>1 DEF IsList
  <2>3. QED
    BY <1>4, <2>1, <2>2
<1>6. ASSUME NEW i \in Nat, i < n, i \in T
      PROVE  i + 1 \in T
  <2>1. i + 1 \in 1 .. Len(s) /\ (i + 1) - 1 = i
    BY <1>2, <1>3, <1>6
  <2>2. f[i + 1] = IF s[i + 1] \in S THEN Append(f[i], s[i + 1]) ELSE f[i]
    BY <1>1, <2>1 DEF KeptSoFar
  <2>3. IsList(f[i]) /\ Range(f[i]) = {s[j] : j \in 1 .. i} \cap S
    BY <1>3, <1>4, <1>6
  <2>4. {s[j] : j \in 1 .. i + 1} = {s[j] : j \in 1 .. i} \union {s[i + 1]}
    <3>1. 1 .. i + 1 = (1 .. i) \union {i + 1}
      BY <1>6
    <3>2. QED
      BY <3>1
  <2>5. CASE s[i + 1] \in S
    <3>1. PICK t, x : t = f[i + 1] /\ x = s[i + 1]
      OBVIOUS
    <3>2. t = Append(f[i], x)
      BY <2>2, <2>5, <3>1
    <3>3. /\ IsList(t) /\ Range(t) = Range(f[i]) \union {x}
      BY <2>3, <3>2, ListAppended
    <3>4. QED
      BY <1>4, <2>3, <2>4, <2>5, <3>1, <3>3
  <2>6. CASE s[i + 1] \notin S
    BY <1>4, <2>2, <2>3, <2>4, <2>6
  <2>7. QED
    BY <2>5, <2>6
<1>7. n \in T
  <2>1. 0 .. n \subseteq T
    BY <1>3, <1>5, <1>6, UpTo
  <2>2. QED
    BY <1>3, <2>1
<1>8. Range(s) = {s[j] : j \in 1 .. n}
  BY <1>2 DEF IsList, Range
<1>9. QED
  BY <1>1, <1>2, <1>3, <1>4, <1>7, <1>8 DEF KeptSoFar

(* Where the set has the first k elements and no others, those are kept.   *)
LEMMA ThosePrefix ==
  ASSUME NEW s, IsList(s), NEW S, NEW k \in 0 .. Len(s),
         \A i \in 1 .. Len(s) : s[i] \in S <=> i <= k
  PROVE  /\ IsList(Those(s, S)) /\ Len(Those(s, S)) = k
         /\ \A i \in 1 .. k : Those(s, S)[i] = s[i]
<1>1. PICK f : KeptSoFar(f, s, S)
  BY ThoseLoop
<1>2. PICK n : n = Len(s)
  OBVIOUS
<1>3. n \in Nat /\ k \in Nat /\ k <= n
  BY <1>2, ListRange
<1> DEFINE Kept(u, i) == /\ IsList(u) /\ (i <= k => Len(u) = i) /\ (i > k => Len(u) = k)
                         /\ \A j \in 1 .. Len(u) : u[j] = s[j]
<1> HIDE DEF Kept
<1>4. PICK T : T = {i \in Nat : i <= n => Kept(f[i], i)}
  OBVIOUS
<1>5. 0 \in T
  <2>1. PICK t : t = f[0]
    OBVIOUS
  <2>2. t = <<>> /\ t \in Seq({}) /\ Range(t) = {} /\ Len(t) = 0
    BY <1>1, <2>1 DEF Range, KeptSoFar
  <2>3. IsList(t)
    BY <2>2 DEF IsList
  <2>4. QED
    <3>1. Kept(t, 0)
      BY <1>3, <2>2, <2>3 DEF Kept
    <3>2. QED
      BY <1>4, <2>1, <3>1
<1>6. ASSUME NEW i \in Nat, i < n, i \in T
      PROVE  i + 1 \in T
  <2>1. i + 1 \in 1 .. Len(s) /\ (i + 1) - 1 = i
    BY <1>2, <1>3, <1>6
  <2>2. f[i + 1] = IF s[i + 1] \in S THEN Append(f[i], s[i + 1]) ELSE f[i]
    BY <1>1, <2>1 DEF KeptSoFar
  <2>3. Kept(f[i], i)
    BY <1>3, <1>4, <1>6
  <2>4. s[i + 1] \in S <=> i + 1 <= k
    BY <2>1
  <2>5. CASE i + 1 <= k
    <3>1. PICK t, x, u : t = f[i + 1] /\ x = s[i + 1] /\ u = f[i]
      OBVIOUS
    <3>2. t = Append(u, x) /\ IsList(u) /\ Len(u) = i /\ \A j \in 1 .. i : u[j] = s[j]
      BY <1>3, <2>2, <2>3, <2>4, <2>5, <3>1 DEF Kept
    <3>3. /\ IsList(t) /\ Len(t) = i + 1 /\ t[i + 1] = x
          /\ \A j \in 1 .. i : t[j] = u[j]
      <4>1. IsList(t) /\ Len(t) = Len(u) + 1
        BY <3>2, SeqAppend
      <4>2. t[Len(u) + 1] = x
        BY <3>2, SeqAppend
      <4>3. \A j \in 1 .. Len(u) : t[j] = u[j]
        BY <3>2, SeqAppend
      <4>4. QED
        BY <3>2, <4>1, <4>2, <4>3
    <3>4. \A j \in 1 .. i + 1 : t[j] = s[j]
      <4>1. \A j \in 1 .. i + 1 : j = i + 1 \/ j \in 1 .. i
        OBVIOUS
      <4>2. QED
        BY <3>1, <3>2, <3>3, <4>1
    <3>5. Kept(t, i + 1)
      BY <1>3, <2>5, <3>3, <3>4 DEF Kept
    <3>6. QED
      BY <1>4, <3>1, <3>5
  <2>6. CASE ~(i + 1 <= k)
    <3>1. f[i + 1] = f[i]
      BY <2>2, <2>4, <2>6
    <3>2. Kept(f[i], i + 1)
      BY <1>3, <2>3, <2>6 DEF Kept
    <3>3. QED
      BY <1>4, <3>1, <3>2
  <2>7. QED
    BY <2>5, <2>6
<1>7. n \in T
  <2>1. 0 .. n \subseteq T
    BY <1>3, <1>5, <1>6, UpTo
  <2>2. QED
    BY <1>3, <2>1
<1>8. IsList(f[n]) /\ Len(f[n]) = k /\ \A j \in 1 .. Len(f[n]) : f[n][j] = s[j]
  BY <1>3, <1>4, <1>7 DEF Kept
<1>9. QED
  BY <1>1, <1>2, <1>8 DEF KeptSoFar

LEMMA LeastIndex ==
  ASSUME NEW I \in SUBSET Nat, I # {}
  PROVE  Min(I) \in I /\ \A i \in I : Min(I) <= i
<1>1. \E x \in I : \A y \in I : x <= y
  BY LeastOf
<1>2. QED
  BY <1>1 DEF Min

LEMMA GreatestIndex ==
  ASSUME NEW n \in Nat, NEW I \in SUBSET (0 .. n), I # {}
  PROVE  Max(I) \in I /\ \A i \in I : Max(I) >= i
<1>1. PICK J : J = {j \in 0 .. n : n - j \in I}
  OBVIOUS
<1>2. J \in SUBSET Nat /\ J # {}
  <2>1. PICK x \in I : TRUE
    OBVIOUS
  <2>2. n - x \in 0 .. n /\ n - (n - x) = x
    BY <2>1
  <2>3. QED
    BY <1>1, <2>1, <2>2
<1>3. PICK j \in J : \A k \in J : j <= k
  BY <1>2, LeastOf
<1>4. ASSUME NEW y \in I
      PROVE  n - j >= y
  <2>1. n - y \in 0 .. n /\ n - (n - y) = y
    OBVIOUS
  <2>2. n - y \in J
    BY <1>1, <2>1
  <2>3. j <= n - y /\ j \in Nat
    BY <1>2, <1>3, <2>2
  <2>4. QED
    BY <2>3
<1>5. \E x \in I : \A y \in I : x >= y
  BY <1>1, <1>3, <1>4
<1>6. QED
  BY <1>5 DEF Max

-----------------------------------------------------------------------------
(* Looking up a name.                                                      *)

IsFirst(list, name, k) ==
  \/ k = 0 /\ (name = NULL \/ \A i \in 1 .. Len(list) : list[i].name # name)
  \/ /\ name # NULL /\ k \in 1 .. Len(list) /\ list[k].name = name
     /\ \A i \in 1 .. k - 1 : list[i].name # name

LEMMA FirstFound ==
  ASSUME NEW ast, NEW name
  PROVE  /\ IsList(ast.ifaces) => IsFirst(ast.ifaces, name, FindInterface(ast, name))
         /\ IsList(ast.structs) => IsFirst(ast.structs, name, FindStruct(ast, name))
<1>1. ASSUME NEW list, IsList(list), NEW I, NEW k,
             I = {i \in 1 .. Len(list) : list[i].name # NULL /\ list[i].name = name},
             k = IF I # {} THEN Min(I) ELSE 0
      PROVE  IsFirst(list, name, k)
  <2>1. CASE I = {}
    BY <1>1, <2>1 DEF IsFirst
  <2>2. CASE I # {}
    <3>1. I \in SUBSET Nat /\ Len(list) \in Nat
      BY <1>1, ListRange
    <3>2. k \in I /\ \A i \in I : k <= i
      BY <1>1, <2>2, <3>1, LeastIndex
    <3>3. \A i \in 1 .. k - 1 : i \in 1 .. Len(list) /\ ~(k <= i)
      BY <1>1, <3>1, <3>2
    <3>4. QED
      BY <1>1, <3>1, <3>2, <3>3 DEF IsFirst
  <2>3. QED
    BY <2>1, <2>2
<1>2. ASSUME IsList(ast.ifaces)
      PROVE  IsFirst(ast.ifaces, name, FindInterface(ast, name))
  <2>1. PICK list, I :
          /\ list = ast.ifaces
          /\ I = {i \in 1 .. Len(list) : list[i].name # NULL /\ list[i].name = name}
    OBVIOUS
  <2>2. FindInterface(ast, name) = IF I # {} THEN Min(I) ELSE 0
    BY <2>1 DEF FindInterface, SelectInSeq
  <2>3. QED
    BY <1>1, <1>2, <2>1, <2>2
<1>3. ASSUME IsList(ast.structs)
      PROVE  IsFirst(ast.structs, name, FindStruct(ast, name))
  <2>1. PICK list, I :
          /\ list = ast.structs
          /\ I = {i \in 1 .. Len(list) : list[i].name # NULL /\ list[i].name = name}
    OBVIOUS
  <2>2. FindStruct(ast, name) = IF I # {} THEN Min(I) ELSE 0
    BY <2>1 DEF FindStruct, SelectInSeq
  <2>3. QED
    BY <1>1, <1>3, <2>1, <2>2
<1>4. QED
  BY <1>2, <1>3

LEMMA BaseInTree ==
  ASSUME NEW ast, IsList(ast.ifaces), NEW it, HasBase(ast, it)
  PROVE  BaseOf(ast, it) \in Range(ast.ifaces)
<1>1. PICK k : k = FindInterface(ast, it.base)
  OBVIOUS
<1>2. IsFirst(ast.ifaces, it.base, k) /\ k # 0
  BY <1>1, FirstFound DEF HasBase
<1>3. k \in 1 .. Len(ast.ifaces)
  BY <1>2 DEF IsFirst
<1>4. QED
  BY <1>1, <1>3, ListRange DEF BaseOf

-----------------------------------------------------------------------------
(* The depth of an interface.                                              *)

(* The calls of iface_depth, by the number of calls that guard allows.     *)
IsDepth(ast, d) ==
  /\ d \in [0 .. GuardMax + 1 -> [Range(ast.ifaces) -> Nat]]
  /\ \A it \in Range(ast.ifaces) :
       /\ d[0][it] = 0
       /\ \A n \in 1 .. GuardMax + 1 :
            d[n][it] = IF HasBase(ast, it) THEN 1 + d[n - 1][BaseOf(ast, it)] ELSE 0
       /\ IfaceDepth(ast, it) = d[GuardMax + 1][it]

LEMMA DepthLoop ==
  ASSUME NEW ast, IsList(ast.ifaces)
  PROVE  \E d : IsDepth(ast, d)
<1>1. PICK R, N : R = Range(ast.ifaces) /\ N = GuardMax + 1
  OBVIOUS
<1>2. N \in Nat
  BY <1>1, CodegenAssumption
<1>3. \A it \in R : HasBase(ast, it) => BaseOf(ast, it) \in R
  BY <1>1, BaseInTree
<1>4. PICK G : G = [R -> Nat]
  OBVIOUS
<1>5. PICK next : next = [t \in G |-> [it \in R |-> IF HasBase(ast, it) THEN 1 + t[BaseOf(ast, it)]
                                                  ELSE 0]]
  OBVIOUS
<1>6. next \in [G -> G]
  BY <1>3, <1>4, <1>5
<1>7. PICK step, a : step = [i \in 1 .. N |-> next] /\ a = [it \in R |-> 0]
  OBVIOUS
<1>8. step \in [1 .. N -> [G -> G]] /\ a \in G
  BY <1>4, <1>6, <1>7
<1>9. PICK d \in [0 .. N -> G] : IsLoop(d, N, a, step)
  BY <1>2, <1>8, Recursion
<1>10. /\ d[0] = a
       /\ \A n \in 1 .. N : d[n] = next[d[n - 1]] /\ d[n - 1] \in G
  BY <1>2, <1>7, <1>9 DEF IsLoop
<1>11. \A n \in 1 .. N :
         d[n] = [it \in R |-> IF HasBase(ast, it) THEN 1 + d[n - 1][BaseOf(ast, it)] ELSE 0]
  BY <1>5, <1>10
<1>12. d = [n \in 0 .. N |-> [it \in R |-> IF n = 0 \/ ~HasBase(ast, it) THEN 0
                                         ELSE 1 + d[n - 1][BaseOf(ast, it)]]]
  <2>1. \A n \in 0 .. N : n = 0 \/ n \in 1 .. N
    BY <1>2
  <2>2. d[0] = [it \in R |-> IF 0 = 0 \/ ~HasBase(ast, it) THEN 0
                             ELSE 1 + d[0 - 1][BaseOf(ast, it)]]
    BY <1>7, <1>10
  <2>3. \A n \in 1 .. N : d[n] = [it \in R |-> IF n = 0 \/ ~HasBase(ast, it) THEN 0
                                         ELSE 1 + d[n - 1][BaseOf(ast, it)]]
    <3>1. TAKE n \in 1 .. N
    <3>2. n # 0
      BY <1>2
    <3>3. d[n] = [it \in R |-> IF HasBase(ast, it) THEN 1 + d[n - 1][BaseOf(ast, it)] ELSE 0]
      BY <1>11
    <3>4. QED
      BY <3>2, <3>3
  <2>4. \A n \in 0 .. N : d[n] = [it \in R |-> IF n = 0 \/ ~HasBase(ast, it) THEN 0
                                         ELSE 1 + d[n - 1][BaseOf(ast, it)]]
    BY <2>1, <2>2, <2>3
  <2>5. QED
    BY <2>4
<1>13. PICK e : /\ e = [n \in 0 .. N |-> [it \in R |-> IF n = 0 \/ ~HasBase(ast, it) THEN 0
                                         ELSE 1 + e[n - 1][BaseOf(ast, it)]]]
                /\ \A it \in R : IfaceDepth(ast, it) = e[N][it]
  <2>1. PICK M : M = 0 .. N
    OBVIOUS
  <2>2. PICK e : e = CHOOSE g : g = [n \in M |-> [it \in R |-> IF n = 0 \/ ~HasBase(ast, it) THEN 0
                                         ELSE 1 + g[n - 1][BaseOf(ast, it)]]]
    OBVIOUS
  <2>3. e = [n \in M |-> [it \in R |-> IF n = 0 \/ ~HasBase(ast, it) THEN 0
                                         ELSE 1 + e[n - 1][BaseOf(ast, it)]]]
    BY <1>12, <2>1, <2>2, Zenon
  <2>4. ASSUME NEW it \in R
        PROVE  IfaceDepth(ast, it) = e[N][it]
    BY <1>1, <2>1, <2>2, Zenon DEF IfaceDepth
  <2>5. QED
    BY <2>1, <2>3, <2>4
<1>14. e = d
  <2>1. PICK T : T = {i \in Nat : i <= N => e[i] = d[i]}
    OBVIOUS
  <2>2. 0 \in T
    <3>1. e[0] = [it \in R |-> 0] /\ d[0] = [it \in R |-> 0]
      BY <1>2, <1>7, <1>10, <1>13
    <3>2. QED
      BY <2>1, <3>1
  <2>3. ASSUME NEW i \in Nat, i < N, i \in T
        PROVE  i + 1 \in T
    <3>1. i + 1 \in 1 .. N /\ i + 1 \in 0 .. N /\ (i + 1) - 1 = i /\ i + 1 # 0
      BY <1>2, <2>3
    <3>2. e[i] = d[i]
      BY <1>2, <2>1, <2>3
    <3>3. e[i + 1] = [it \in R |-> IF ~HasBase(ast, it) THEN 0 ELSE 1 + e[i][BaseOf(ast, it)]]
      BY <1>13, <3>1
    <3>4. d[i + 1] = [it \in R |-> IF ~HasBase(ast, it) THEN 0 ELSE 1 + d[i][BaseOf(ast, it)]]
      BY <1>12, <3>1
    <3>5. QED
      BY <2>1, <3>2, <3>3, <3>4
  <2>4. 0 .. N \subseteq T
    BY <1>2, <2>2, <2>3, UpTo
  <2>5. \A i \in 0 .. N : e[i] = d[i]
    BY <2>1, <2>4
  <2>6. QED
    BY <1>12, <1>13, <2>5
<1>15. \A it \in R : d[0][it] = 0 /\ IfaceDepth(ast, it) = d[N][it]
  <2>1. \A it \in R : d[0][it] = 0
    BY <1>7, <1>10
  <2>2. \A it \in R : IfaceDepth(ast, it) = d[N][it]
    BY <1>13, <1>14
  <2>3. QED
    BY <2>1, <2>2
<1>16. \A it \in R : \A n \in 1 .. N :
         d[n][it] = IF HasBase(ast, it) THEN 1 + d[n - 1][BaseOf(ast, it)] ELSE 0
  BY <1>11
<1>17. d \in [0 .. N -> [R -> Nat]]
  BY <1>4, <1>9
<1>18. QED
  BY <1>1, <1>15, <1>16, <1>17 DEF IsDepth

(* With one call more, a depth that was not cut off stays the same.        *)
LEMMA DepthStable ==
  ASSUME NEW ast, IsList(ast.ifaces), NEW d, IsDepth(ast, d),
         NEW n \in 0 .. GuardMax, NEW it \in Range(ast.ifaces), d[n][it] < n
  PROVE  d[n + 1][it] = d[n][it]
<1>1. PICK R : R = Range(ast.ifaces)
  OBVIOUS
<1>2. GuardMax \in Nat
  BY CodegenAssumption
<1>3. PICK T : T = {i \in Nat : i <= GuardMax =>
                      \A x \in R : d[i][x] < i => d[i + 1][x] = d[i][x]}
  OBVIOUS
<1>4. 0 \in T
  <2>1. \A x \in R : d[0][x] = 0
    BY <1>1 DEF IsDepth
  <2>2. QED
    BY <1>3, <2>1
<1>5. ASSUME NEW i \in Nat, i < GuardMax, i \in T
      PROVE  i + 1 \in T
  <2>1. SUFFICES ASSUME NEW x \in R, d[i + 1][x] < i + 1
                 PROVE  d[i + 2][x] = d[i + 1][x]
    BY <1>3
  <2>2. i + 1 \in 1 .. GuardMax + 1 /\ i + 2 \in 1 .. GuardMax + 1 /\ i \in 0 .. GuardMax + 1
    BY <1>2, <1>5
  <2>3. /\ d[i + 1][x] = IF HasBase(ast, x) THEN 1 + d[i][BaseOf(ast, x)] ELSE 0
        /\ d[i + 2][x] = IF HasBase(ast, x) THEN 1 + d[i + 1][BaseOf(ast, x)] ELSE 0
    <3>1. (i + 1) - 1 = i /\ (i + 2) - 1 = i + 1
      BY <1>5
    <3>2. QED
      BY <1>1, <2>2, <3>1 DEF IsDepth
  <2>4. CASE HasBase(ast, x)
    <3>1. PICK b : b = BaseOf(ast, x)
      OBVIOUS
    <3>2. b \in R
      BY <1>1, <2>4, <3>1, BaseInTree
    <3>3. d[i][b] \in Nat
      BY <1>1, <2>2, <3>2 DEF IsDepth
    <3>4. d[i][b] < i
      BY <2>1, <2>3, <2>4, <3>1, <3>3
    <3>5. d[i + 1][b] = d[i][b]
      BY <1>2, <1>3, <1>5, <3>2, <3>4
    <3>6. QED
      BY <2>3, <2>4, <3>1, <3>5
  <2>5. CASE ~HasBase(ast, x)
    BY <2>3, <2>5
  <2>6. QED
    BY <2>4, <2>5
<1>6. n \in T
  <2>1. 0 .. GuardMax \subseteq T
    BY <1>2, <1>4, <1>5, UpTo
  <2>2. QED
    BY <2>1
<1>7. QED
  BY <1>1, <1>2, <1>3, <1>6

(* Where following the bases ends, a base is less deep than what has it.   *)
LEMMA BaseLessDeep ==
  ASSUME NEW ast, IsList(ast.ifaces), NEW it \in Range(ast.ifaces)
  PROVE  /\ IfaceDepth(ast, it) \in Nat
         /\ IfaceDepth(ast, it) <= GuardMax /\ HasBase(ast, it)
              => IfaceDepth(ast, BaseOf(ast, it)) < IfaceDepth(ast, it)
<1>1. PICK d : IsDepth(ast, d)
  BY DepthLoop
<1>2. GuardMax \in Nat
  BY CodegenAssumption
<1>3. \A x \in Range(ast.ifaces) :
        IfaceDepth(ast, x) = d[GuardMax + 1][x] /\ IfaceDepth(ast, x) \in Nat
  <2>1. GuardMax + 1 \in 0 .. GuardMax + 1
    BY <1>2
  <2>2. QED
    BY <1>1, <2>1 DEF IsDepth
<1>4. ASSUME IfaceDepth(ast, it) <= GuardMax, HasBase(ast, it)
      PROVE  IfaceDepth(ast, BaseOf(ast, it)) < IfaceDepth(ast, it)
  <2>1. PICK b : b = BaseOf(ast, it)
    OBVIOUS
  <2>2. b \in Range(ast.ifaces)
    BY <1>4, <2>1, BaseInTree
  <2>3. /\ GuardMax + 1 \in 1 .. GuardMax + 1 /\ (GuardMax + 1) - 1 = GuardMax
        /\ GuardMax \in 0 .. GuardMax /\ GuardMax \in 0 .. GuardMax + 1
    BY <1>2
  <2>4. d[GuardMax + 1][it] = 1 + d[GuardMax][b]
    BY <1>1, <1>4, <2>1, <2>3 DEF IsDepth
  <2>5. d[GuardMax][b] \in Nat
    BY <1>1, <2>2, <2>3 DEF IsDepth
  <2>6. d[GuardMax][b] < GuardMax
    BY <1>2, <1>3, <1>4, <2>4, <2>5
  <2>7. d[GuardMax + 1][b] = d[GuardMax][b]
    BY <1>1, <2>2, <2>3, <2>6, DepthStable
  <2>8. QED
    BY <1>3, <2>1, <2>2, <2>4, <2>5, <2>7
<1>5. QED
  BY <1>3, <1>4

-----------------------------------------------------------------------------
(* Sorting.                                                                *)

(* u is t with x put in after the first m elements.                        *)
IsInserted(u, t, m, x, G) ==
  /\ u \in Seq(G) /\ Len(u) = Len(t) + 1
  /\ \A j \in 1 .. Len(t) + 1 :
       u[j] = IF j <= m THEN t[j] ELSE IF j = m + 1 THEN x ELSE t[j - 1]

LEMMA Inserted ==
  ASSUME NEW G, NEW t, t \in Seq(G), NEW m, m \in 0 .. Len(t), NEW x, x \in G
  PROVE  IsInserted(InsertAt(t, m + 1, x), t, m, x, G)
<1> DEFINE u == InsertAt(t, m + 1, x)
<1>1. PICK n : n = Len(t)
  OBVIOUS
<1>2. n \in Nat /\ m \in Nat /\ m <= n /\ \A j \in 1 .. n : t[j] \in G
  BY <1>1
<1>3. PICK a, b : a = SubSeq(t, 1, m) /\ b = SubSeq(t, m + 1, n)
  OBVIOUS
<1>4. a \in Seq(G) /\ Len(a) = m /\ \A j \in 1 .. m : a[j] = t[j]
  <2>1. \A j \in 1 .. m : t[j] \in G
    BY <1>2
  <2>2. /\ SubSeq(t, 1, m) \in Seq(G)
        /\ Len(SubSeq(t, 1, m)) = IF 1 <= m THEN m - 1 + 1 ELSE 0
        /\ \A j \in 1 .. m - 1 + 1 : SubSeq(t, 1, m)[j] = t[1 + j - 1]
    BY <1>2, <2>1, SubSeqProperties
  <2>3. QED
    BY <1>2, <1>3, <2>2
<1>5. b \in Seq(G) /\ Len(b) = n - m /\ \A j \in 1 .. n - m : b[j] = t[m + j]
  <2>1. \A j \in m + 1 .. n : t[j] \in G
    BY <1>2
  <2>2. /\ SubSeq(t, m + 1, n) \in Seq(G)
        /\ Len(SubSeq(t, m + 1, n)) = IF m + 1 <= n THEN n - (m + 1) + 1 ELSE 0
        /\ \A j \in 1 .. n - (m + 1) + 1 : SubSeq(t, m + 1, n)[j] = t[(m + 1) + j - 1]
    BY <1>2, <2>1, SubSeqProperties
  <2>3. QED
    BY <1>2, <1>3, <2>2
<1>6. PICK c : c = a \o <<x>>
  OBVIOUS
<1>7. c \in Seq(G) /\ Len(c) = m + 1 /\ c[m + 1] = x /\ \A j \in 1 .. m : c[j] = a[j]
  BY <1>2, <1>4, <1>6
<1>8. u = c \o b
  <2>1. (m + 1) - 1 = m
    BY <1>2
  <2>2. QED
    BY <1>1, <1>3, <1>6, <2>1 DEF InsertAt
<1> HIDE DEF u
<1>9. /\ u \in Seq(G) /\ Len(u) = (m + 1) + (n - m)
      /\ \A j \in 1 .. (m + 1) + (n - m) : u[j] = IF j <= m + 1 THEN c[j] ELSE b[j - (m + 1)]
  <2>1. /\ c \o b \in Seq(G) /\ Len(c \o b) = Len(c) + Len(b)
        /\ \A j \in 1 .. Len(c) + Len(b) : (c \o b)[j] = IF j <= Len(c) THEN c[j] ELSE b[j - Len(c)]
    BY <1>5, <1>7, ConcatProperties
  <2>2. QED
    BY <1>5, <1>7, <1>8, <2>1
<1>10. (m + 1) + (n - m) = n + 1
  BY <1>2
<1>11. ASSUME NEW j \in 1 .. n + 1
       PROVE  u[j] = IF j <= m THEN t[j] ELSE IF j = m + 1 THEN x ELSE t[j - 1]
  <2>1. CASE j <= m
    BY <1>2, <1>4, <1>7, <1>9, <1>10, <2>1
  <2>2. CASE j = m + 1
    BY <1>2, <1>7, <1>9, <1>10, <2>2
  <2>3. CASE j > m + 1
    <3>1. j - (m + 1) \in 1 .. n - m /\ m + (j - (m + 1)) = j - 1
      BY <1>2, <2>3
    <3>2. b[j - (m + 1)] = t[j - 1]
      BY <1>5, <3>1
    <3>3. QED
      BY <1>2, <1>9, <1>10, <2>3, <3>2
  <2>4. QED
    BY <1>2, <2>1, <2>2, <2>3
<1>12. IsInserted(u, t, m, x, G)
  BY <1>1, <1>9, <1>10, <1>11 DEF IsInserted
<1>13. QED
  BY <1>12 DEF u

(* The first i elements of arr, sorted: t has them, p is where in arr they *)
(* were, deeper ones come later, and of two as deep the first comes first. *)
Arranged(ast, arr, t, p, i) ==
  /\ IsList(t) /\ Len(t) = i /\ p \in [1 .. i -> 1 .. i]
  /\ \A j \in 1 .. i : t[j] = arr[p[j]]
  /\ \A k \in 1 .. i : \E j \in 1 .. i : p[j] = k
  /\ \A j, k \in 1 .. i :
       j < k => \/ IfaceDepth(ast, t[j]) < IfaceDepth(ast, t[k])
                \/ IfaceDepth(ast, t[j]) = IfaceDepth(ast, t[k]) /\ p[j] < p[k]

(* The place of the key: after the last element that is not deeper.        *)
Place(ast, t, i, key) ==
  Max({j \in 1 .. i : IfaceDepth(ast, t[j]) <= IfaceDepth(ast, key)} \union {0})

LEMMA PlaceBetween ==
  ASSUME NEW ast, NEW i \in Nat, NEW t, NEW key, NEW m, m = Place(ast, t, i, key)
  PROVE  /\ m \in 0 .. i
         /\ m # 0 => IfaceDepth(ast, t[m]) <= IfaceDepth(ast, key)
         /\ \A j \in 1 .. i : j > m => ~(IfaceDepth(ast, t[j]) <= IfaceDepth(ast, key))
<1>1. PICK K : K = {j \in 1 .. i : IfaceDepth(ast, t[j]) <= IfaceDepth(ast, key)} \union {0}
  OBVIOUS
<1>2. K \in SUBSET (0 .. i) /\ K # {} /\ m = Max(K)
  BY <1>1 DEF Place
<1>3. m \in K /\ \A j \in K : m >= j
  BY <1>2, GreatestIndex
<1>4. QED
  BY <1>1, <1>2, <1>3

LEMMA InsertStep ==
  ASSUME NEW ast, NEW arr, IsList(arr),
         \A x \in Range(arr) : IfaceDepth(ast, x) \in Nat,
         NEW i \in Nat, i < Len(arr), NEW t, NEW p, Arranged(ast, arr, t, p, i),
         NEW u, u = InsertAt(t, Place(ast, t, i, arr[i + 1]) + 1, arr[i + 1])
  PROVE  \E q : Arranged(ast, arr, u, q, i + 1)
<1>1. PICK key, m : key = arr[i + 1] /\ m = Place(ast, t, i, key)
  OBVIOUS
<1>2. Len(arr) \in Nat /\ \A j \in 1 .. i + 1 : j \in 1 .. Len(arr) /\ arr[j] \in Range(arr)
  BY ListRange
<1>3. /\ m \in 0 .. i
      /\ m # 0 => IfaceDepth(ast, t[m]) <= IfaceDepth(ast, key)
      /\ \A j \in 1 .. i : j > m => ~(IfaceDepth(ast, t[j]) <= IfaceDepth(ast, key))
  BY <1>1, PlaceBetween
<1>4. PICK G : G = Range(t) \union {key}
  OBVIOUS
<1>5. t \in Seq(G) /\ Len(t) = i /\ key \in G
  BY <1>4 DEF Arranged, IsList
<1>6. /\ u \in Seq(G) /\ Len(u) = i + 1
      /\ \A j \in 1 .. i + 1 : u[j] = IF j <= m THEN t[j] ELSE IF j = m + 1 THEN key ELSE t[j - 1]
  <2>1. m \in 0 .. Len(t) /\ u = InsertAt(t, m + 1, key)
    BY <1>1, <1>3, <1>5
  <2>2. IsInserted(u, t, m, key, G)
    BY <1>5, <2>1, Inserted
  <2>3. QED
    BY <1>5, <2>2 DEF IsInserted
<1>7. PICK q : q = [j \in 1 .. i + 1 |-> IF j <= m THEN p[j] ELSE IF j = m + 1 THEN i + 1
                                       ELSE p[j - 1]]
  OBVIOUS
<1>8. \A j \in 1 .. i + 1 :
        /\ j <= m => j \in 1 .. i
        /\ j > m + 1 => j - 1 \in 1 .. i /\ j - 1 > m
  BY <1>3
<1>9. \A j \in 1 .. i : p[j] \in 1 .. i /\ t[j] = arr[p[j]]
  BY DEF Arranged
<1>10. q \in [1 .. i + 1 -> 1 .. i + 1]
  <2>1. ASSUME NEW j \in 1 .. i + 1
        PROVE  q[j] \in 1 .. i + 1
    <3>1. CASE j <= m
      BY <1>7, <1>8, <1>9, <3>1
    <3>2. CASE j = m + 1
      BY <1>3, <1>7, <3>2
    <3>3. CASE j > m + 1
      <4>1. j - 1 \in 1 .. i /\ ~(j <= m) /\ j # m + 1
        BY <1>3, <3>3
      <4>2. q[j] = p[j - 1] /\ p[j - 1] \in 1 .. i
        BY <1>7, <1>9, <4>1
      <4>3. QED
        BY <4>2
    <3>4. QED
      BY <1>3, <3>1, <3>2, <3>3
  <2>2. QED
    BY <1>7, <2>1
<1>11. \A j \in 1 .. i + 1 : u[j] = arr[q[j]]
  <2>1. TAKE j \in 1 .. i + 1
  <2>2. CASE j <= m
    BY <1>6, <1>7, <1>8, <1>9, <2>2
  <2>3. CASE j = m + 1
    BY <1>1, <1>3, <1>6, <1>7, <2>3
  <2>4. CASE j > m + 1
    <3>1. j - 1 \in 1 .. i /\ ~(j <= m) /\ j # m + 1
      BY <1>3, <2>4
    <3>2. q[j] = p[j - 1] /\ u[j] = t[j - 1]
      BY <1>6, <1>7, <3>1
    <3>3. QED
      BY <1>9, <3>1, <3>2
  <2>5. QED
    BY <1>3, <2>2, <2>3, <2>4
<1>12. ASSUME NEW k \in 1 .. i + 1
       PROVE  \E j \in 1 .. i + 1 : q[j] = k
  <2>1. CASE k = i + 1
    <3>1. m + 1 \in 1 .. i + 1 /\ ~(m + 1 <= m)
      BY <1>3
    <3>2. q[m + 1] = k
      BY <1>7, <2>1, <3>1
    <3>3. QED
      BY <3>1, <3>2
  <2>2. CASE k # i + 1
    <3>1. PICK j \in 1 .. i : p[j] = k
      BY <2>2 DEF Arranged
    <3>2. CASE j <= m
      <4>1. j \in 1 .. i + 1 /\ q[j] = k
        BY <1>7, <3>1, <3>2
      <4>2. QED
        BY <4>1
    <3>3. CASE j > m
      <4>1. j + 1 \in 1 .. i + 1 /\ ~(j + 1 <= m) /\ j + 1 # m + 1 /\ (j + 1) - 1 = j
        BY <1>3, <3>3
      <4>2. q[j + 1] = k
        BY <1>7, <3>1, <4>1
      <4>3. QED
        BY <4>1, <4>2
    <3>4. QED
      BY <1>3, <3>2, <3>3
  <2>3. QED
    BY <2>1, <2>2
<1>13. \A j \in 1 .. i : IfaceDepth(ast, t[j]) \in Nat
  BY <1>2, <1>9
<1>14. IfaceDepth(ast, key) \in Nat
  BY <1>1, <1>2
<1>15. \A j, k \in 1 .. i :
         j < k => \/ IfaceDepth(ast, t[j]) < IfaceDepth(ast, t[k])
                  \/ IfaceDepth(ast, t[j]) = IfaceDepth(ast, t[k]) /\ p[j] < p[k]
  BY DEF Arranged
<1>16. \A j \in 1 .. i : j <= m => IfaceDepth(ast, t[j]) <= IfaceDepth(ast, key)
  <2>1. TAKE j \in 1 .. i
  <2>2. HAVE j <= m
  <2>3. CASE j = m
    BY <1>3, <2>3
  <2>4. CASE j < m
    <3>1. m \in 1 .. i /\ m # 0
      BY <1>3, <2>4
    <3>2. IfaceDepth(ast, t[j]) <= IfaceDepth(ast, t[m])
      BY <1>13, <1>15, <2>4, <3>1
    <3>3. QED
      BY <1>3, <1>13, <1>14, <3>1, <3>2
  <2>5. QED
    BY <1>3, <2>2, <2>3, <2>4
<1>17. \A j \in 1 .. i : j > m => IfaceDepth(ast, key) < IfaceDepth(ast, t[j])
  BY <1>3, <1>13, <1>14
<1>18. ASSUME NEW j \in 1 .. i + 1, NEW k \in 1 .. i + 1, j < k
       PROVE  \/ IfaceDepth(ast, u[j]) < IfaceDepth(ast, u[k])
              \/ IfaceDepth(ast, u[j]) = IfaceDepth(ast, u[k]) /\ q[j] < q[k]
  <2>1. CASE k <= m
    <3>1. j \in 1 .. i /\ k \in 1 .. i /\ j <= m
      BY <1>3, <1>18, <2>1
    <3>2. u[j] = t[j] /\ u[k] = t[k] /\ q[j] = p[j] /\ q[k] = p[k]
      BY <1>6, <1>7, <2>1, <3>1
    <3>3. QED
      BY <1>15, <1>18, <3>1, <3>2
  <2>2. CASE k = m + 1
    <3>1. j \in 1 .. i /\ j <= m /\ ~(k <= m)
      BY <1>3, <1>18, <2>2
    <3>2. u[j] = t[j] /\ u[k] = key /\ q[j] = p[j] /\ q[k] = i + 1
      BY <1>6, <1>7, <2>2, <3>1
    <3>3. IfaceDepth(ast, t[j]) <= IfaceDepth(ast, key) /\ p[j] < i + 1
      BY <1>9, <1>16, <3>1
    <3>4. QED
      BY <1>13, <1>14, <3>1, <3>2, <3>3
  <2>3. CASE k > m + 1
    <3>1. k - 1 \in 1 .. i /\ k - 1 > m /\ ~(k <= m) /\ k # m + 1
      BY <1>3, <2>3
    <3>2. u[k] = t[k - 1] /\ q[k] = p[k - 1]
      BY <1>6, <1>7, <3>1
    <3>3. CASE j <= m
      <4>1. j \in 1 .. i /\ j < k - 1
        BY <1>3, <3>1, <3>3
      <4>2. u[j] = t[j] /\ q[j] = p[j]
        BY <1>6, <1>7, <3>3
      <4>3. QED
        BY <1>15, <3>1, <3>2, <4>1, <4>2
    <3>4. CASE j = m + 1
      <4>1. u[j] = key
        BY <1>3, <1>6, <3>4
      <4>2. QED
        BY <1>17, <3>1, <3>2, <4>1
    <3>5. CASE j > m + 1
      <4>1. j - 1 \in 1 .. i /\ j - 1 < k - 1 /\ ~(j <= m) /\ j # m + 1
        BY <1>3, <1>18, <3>5
      <4>2. u[j] = t[j - 1] /\ q[j] = p[j - 1]
        BY <1>6, <1>7, <4>1
      <4>3. QED
        BY <1>15, <3>1, <3>2, <4>1, <4>2
    <3>6. QED
      BY <1>3, <3>3, <3>4, <3>5
  <2>4. QED
    BY <1>3, <2>1, <2>2, <2>3
<1>19. IsList(u)
  BY <1>6, SeqOfRange DEF IsList
<1>20. Arranged(ast, arr, u, q, i + 1)
  BY <1>6, <1>10, <1>11, <1>12, <1>18, <1>19 DEF Arranged
<1>21. QED
  BY <1>20

(* The loop of the sort.                                                   *)
IsSorting(ast, arr, f) ==
  /\ f[0] = <<>> /\ f[Len(arr)] = SortInterfacesByBase(ast, arr)
  /\ \A i \in 1 .. Len(arr) :
       f[i] = InsertAt(f[i - 1], Place(ast, f[i - 1], i - 1, arr[i]) + 1, arr[i])

LEMMA SortLoop ==
  ASSUME NEW ast, NEW arr, IsList(arr)
  PROVE  \E f : IsSorting(ast, arr, f)
<1> DEFINE Put(t, i) == InsertAt(t, Place(ast, t, i - 1, arr[i]) + 1, arr[i])
<1>1. PICK n, G, a : n = Len(arr) /\ G = Seq(Range(arr)) /\ a = <<>>
  OBVIOUS
<1>2. n \in Nat /\ a \in G /\ \A i \in 1 .. n : arr[i] \in Range(arr)
  BY <1>1 DEF IsList
<1>3. PICK step : step = [i \in 1 .. n |-> [t \in G |-> IF Len(t) = i - 1 THEN Put(t, i) ELSE t]]
  OBVIOUS
<1>4. ASSUME NEW i \in 1 .. n, NEW t \in G, Len(t) = i - 1
      PROVE  Put(t, i) \in G /\ Len(Put(t, i)) = i
  <2>1. PICK m : m = Place(ast, t, i - 1, arr[i])
    OBVIOUS
  <2>2. i - 1 \in Nat
    BY <1>2
  <2>3. m \in 0 .. i - 1
    BY <2>1, <2>2, PlaceBetween
  <2>4. PICK H : H = Range(arr)
    OBVIOUS
  <2>5. t \in Seq(H) /\ m \in 0 .. Len(t) /\ arr[i] \in H
    BY <1>1, <1>2, <1>4, <2>3, <2>4
  <2>6. IsInserted(InsertAt(t, m + 1, arr[i]), t, m, arr[i], H)
    BY <2>5, Inserted
  <2>7. QED
    BY <1>1, <1>2, <1>4, <2>1, <2>4, <2>6 DEF IsInserted
<1> HIDE DEF Put
<1>5. step \in [1 .. n -> [G -> G]]
  BY <1>3, <1>4
<1>6. PICK f \in [0 .. n -> G] : IsLoop(f, n, a, step)
  BY <1>2, <1>5, Recursion
<1>7. \A i \in 1 .. n : f[i] = step[i][f[i - 1]] /\ f[i - 1] \in G
  BY <1>2, <1>6 DEF IsLoop
<1>8. PICK L : L = {i \in Nat : i <= n => Len(f[i]) = i}
  OBVIOUS
<1>9. 0 .. n \subseteq L
  <2>1. 0 \in L
    BY <1>1, <1>6, <1>8 DEF IsLoop
  <2>2. ASSUME NEW i \in Nat, i < n, i \in L
        PROVE  i + 1 \in L
    <3>1. i + 1 \in 1 .. n /\ (i + 1) - 1 = i /\ Len(f[i]) = i
      BY <1>2, <1>8, <2>2
    <3>2. f[i] \in G /\ f[i + 1] = step[i + 1][f[i]]
      BY <1>7, <3>1
    <3>3. f[i + 1] = Put(f[i], i + 1)
      BY <1>3, <3>1, <3>2
    <3>4. Len(Put(f[i], i + 1)) = i + 1
      BY <1>4, <3>1, <3>2
    <3>5. QED
      BY <1>8, <3>3, <3>4
  <2>3. QED
    BY <1>2, <2>1, <2>2, UpTo
<1>10. \A i \in 1 .. n : f[i] = Put(f[i - 1], i)
  <2>1. TAKE i \in 1 .. n
  <2>2. i - 1 \in 0 .. n /\ i - 1 <= n
    BY <1>2
  <2>3. Len(f[i - 1]) = i - 1
    BY <1>8, <1>9, <2>2
  <2>4. QED
    BY <1>3, <1>7, <2>3
<1>11. PICK M : M = 0 .. n
  OBVIOUS
<1>12. f = [i \in M |-> IF i = 0 THEN <<>> ELSE Put(f[i - 1], i)]
  <2>1. \A i \in M : i = 0 \/ i \in 1 .. n
    BY <1>2, <1>11
  <2>2. f[0] = <<>>
    BY <1>1, <1>6 DEF IsLoop
  <2>3. \A i \in M : f[i] = IF i = 0 THEN <<>> ELSE Put(f[i - 1], i)
    BY <1>10, <2>1, <2>2
  <2>4. QED
    BY <1>6, <1>11, <2>3
<1>13. PICK e : /\ e = [i \in M |-> IF i = 0 THEN <<>> ELSE Put(e[i - 1], i)]
                /\ SortInterfacesByBase(ast, arr) = e[n]
  <2>1. PICK e : e = CHOOSE g : g = [i \in M |-> IF i = 0 THEN <<>> ELSE Put(g[i - 1], i)]
    OBVIOUS
  <2>2. e = [i \in M |-> IF i = 0 THEN <<>> ELSE Put(e[i - 1], i)]
    BY <1>12, <2>1, Zenon
  <2>3. SortInterfacesByBase(ast, arr) = e[n]
    BY <1>1, <1>11, <2>1, Zenon DEF SortInterfacesByBase, Place, Put
  <2>4. QED
    BY <2>2, <2>3
<1>14. e = f
  <2>1. PICK T : T = {i \in Nat : i <= n => e[i] = f[i]}
    OBVIOUS
  <2>2. 0 \in T
    <3>1. 0 \in M
      BY <1>2, <1>11
    <3>2. e[0] = <<>> /\ f[0] = <<>>
      BY <1>12, <1>13, <3>1
    <3>3. QED
      BY <2>1, <3>2
  <2>3. ASSUME NEW i \in Nat, i < n, i \in T
        PROVE  i + 1 \in T
    <3>1. i + 1 \in M /\ (i + 1) - 1 = i /\ i + 1 # 0
      BY <1>2, <1>11, <2>3
    <3>2. e[i] = f[i]
      BY <1>2, <2>1, <2>3
    <3>3. e[i + 1] = Put(e[i], i + 1)
      BY <1>13, <3>1
    <3>4. f[i + 1] = Put(f[i], i + 1)
      BY <1>12, <3>1
    <3>5. QED
      BY <2>1, <3>2, <3>3, <3>4
  <2>4. 0 .. n \subseteq T
    BY <1>2, <2>2, <2>3, UpTo
  <2>5. \A i \in M : e[i] = f[i]
    BY <1>11, <2>1, <2>4
  <2>6. QED
    BY <1>12, <1>13, <2>5
<1>15. f[0] = <<>> /\ f[n] = SortInterfacesByBase(ast, arr)
  BY <1>1, <1>6, <1>13, <1>14 DEF IsLoop
<1>16. QED
  BY <1>1, <1>10, <1>15 DEF IsSorting, Put

LEMMA SortArranges ==
  ASSUME NEW ast, NEW arr, IsList(arr), \A x \in Range(arr) : IfaceDepth(ast, x) \in Nat
  PROVE  \E p : Arranged(ast, arr, SortInterfacesByBase(ast, arr), p, Len(arr))
<1>1. PICK f : IsSorting(ast, arr, f)
  BY SortLoop
<1>2. PICK n : n = Len(arr)
  OBVIOUS
<1>3. n \in Nat
  BY <1>2, ListRange
<1>4. PICK T : T = {i \in Nat : i <= n => \E p : Arranged(ast, arr, f[i], p, i)}
  OBVIOUS
<1>5. 0 \in T
  <2>1. PICK t : t = f[0]
    OBVIOUS
  <2>2. t = <<>> /\ t \in Seq({}) /\ Range(t) = {} /\ Len(t) = 0
    BY <1>1, <2>1 DEF Range, IsSorting
  <2>3. IsList(t)
    BY <2>2 DEF IsList
  <2>4. PICK p : p = [j \in 1 .. 0 |-> j]
    OBVIOUS
  <2>5. p \in [1 .. 0 -> 1 .. 0] /\ \A j \in 1 .. 0 : FALSE
    BY <2>4
  <2>6. Arranged(ast, arr, t, p, 0)
    BY <2>2, <2>3, <2>5 DEF Arranged
  <2>7. QED
    BY <1>4, <2>1, <2>6
<1>6. ASSUME NEW i \in Nat, i < n, i \in T
      PROVE  i + 1 \in T
  <2>1. PICK p : Arranged(ast, arr, f[i], p, i)
    BY <1>3, <1>4, <1>6
  <2>2. i + 1 \in 1 .. n /\ (i + 1) - 1 = i
    BY <1>3, <1>6
  <2>3. PICK t, u : t = f[i] /\ u = f[i + 1]
    OBVIOUS
  <2>4. u = InsertAt(t, Place(ast, t, i, arr[i + 1]) + 1, arr[i + 1])
    BY <1>1, <1>2, <2>2, <2>3 DEF IsSorting
  <2>5. Arranged(ast, arr, t, p, i) /\ i < Len(arr)
    BY <1>2, <1>6, <2>1, <2>3
  <2>6. \E q : Arranged(ast, arr, u, q, i + 1)
    BY <2>4, <2>5, InsertStep
  <2>7. QED
    BY <1>4, <2>3, <2>6
<1>7. n \in T
  <2>1. 0 .. n \subseteq T
    BY <1>3, <1>5, <1>6, UpTo
  <2>2. QED
    BY <1>3, <2>1
<1>8. \E p : Arranged(ast, arr, f[n], p, n)
  BY <1>3, <1>4, <1>7
<1>9. QED
  BY <1>1, <1>2, <1>8 DEF IsSorting

LEMMA LocalsInTree ==
  ASSUME NEW ast, IsList(ast.ifaces)
  PROVE  /\ IsList(LocalInterfaces(ast))
         /\ Range(LocalInterfaces(ast)) = {it \in Range(ast.ifaces) : ~it.imported}
<1>1. PICK S, own, back : /\ S = {it \in Range(ast.ifaces) : ~it.imported}
                          /\ own = Those(ast.ifaces, S) /\ back = Reverse(own)
  OBVIOUS
<1>2. IsList(own)
  BY <1>1, ThoseRange
<1>3. Range(own) = Range(ast.ifaces) \cap S
  BY <1>1, ThoseRange
<1>4. IsList(back)
  BY <1>1, <1>2, ListReversed
<1>5. Range(back) = Range(own)
  BY <1>1, <1>2, ListReversed
<1>6. back = LocalInterfaces(ast)
  BY <1>1 DEF LocalInterfaces
<1>7. QED
  BY <1>1, <1>3, <1>4, <1>5, <1>6

(* The order of the interfaces in the header, whatever the tree: it has    *)
(* the file's own interfaces, each as often as the tree; interfaces at the *)
(* same depth keep the order of the source; and every interface comes      *)
(* after the base that find_interface finds for it, if following the bases *)
(* ends within the guard.                                                  *)
THEOREM OrderOfBases ==
  ASSUME NEW ast, IsList(ast.ifaces),
         NEW local, local = LocalInterfaces(ast), NEW order, order = EmitOrder(ast),
         NEW n, n = Len(local)
  PROVE  /\ Len(order) = n
         /\ \E place \in Bijection(1 .. n, 1 .. n) :
              /\ \A i \in 1 .. n : order[i] = local[place[i]]
              /\ \A i, j \in 1 .. n :
                   i < j /\ IfaceDepth(ast, order[i]) = IfaceDepth(ast, order[j])
                     => place[i] < place[j]
         /\ \A i, j \in 1 .. n :
              /\ IfaceDepth(ast, order[i]) <= GuardMax
              /\ HasBase(ast, order[i]) /\ BaseOf(ast, order[i]) = order[j]
              => j < i
<1>1. IsList(local) /\ Range(local) = {it \in Range(ast.ifaces) : ~it.imported}
  BY LocalsInTree
<1>2. \A x \in Range(local) : x \in Range(ast.ifaces) /\ IfaceDepth(ast, x) \in Nat
  BY <1>1, BaseLessDeep
<1>3. order = SortInterfacesByBase(ast, local)
  BY DEF EmitOrder
<1>4. PICK p : Arranged(ast, local, order, p, n)
  BY <1>1, <1>2, <1>3, SortArranges
<1>5. n \in Nat /\ Len(order) = n /\ p \in [1 .. n -> 1 .. n]
  BY <1>1, <1>4, ListRange DEF Arranged
<1>6. \A i \in 1 .. n : order[i] = local[p[i]] /\ p[i] \in 1 .. n
  BY <1>4 DEF Arranged
<1>7. \A i \in 1 .. n : order[i] \in Range(ast.ifaces) /\ IfaceDepth(ast, order[i]) \in Nat
  BY <1>1, <1>2, <1>6, ListRange
<1>8. \A i, j \in 1 .. n :
        i < j => \/ IfaceDepth(ast, order[i]) < IfaceDepth(ast, order[j])
                 \/ IfaceDepth(ast, order[i]) = IfaceDepth(ast, order[j]) /\ p[i] < p[j]
  BY <1>4 DEF Arranged
<1>9. \A i, j \in 1 .. n :
        i < j /\ IfaceDepth(ast, order[i]) = IfaceDepth(ast, order[j]) => p[i] < p[j]
  BY <1>7, <1>8
<1>10. \A i, j \in 1 .. n : p[i] = p[j] => i = j
  <2>1. SUFFICES ASSUME NEW i \in 1 .. n, NEW j \in 1 .. n, p[i] = p[j], i < j
                 PROVE  FALSE
    BY <1>5
  <2>2. order[i] = order[j]
    BY <1>6, <2>1
  <2>3. p[i] < p[j]
    BY <1>9, <2>1, <2>2
  <2>4. QED
    BY <1>6, <2>1, <2>3
<1>11. \A k \in 1 .. n : \E j \in 1 .. n : p[j] = k
  BY <1>4 DEF Arranged
<1>12. p \in Bijection(1 .. n, 1 .. n)
  BY <1>5, <1>10, <1>11 DEF Bijection, Injection, Surjection, IsInjective
<1>13. ASSUME NEW i \in 1 .. n, NEW j \in 1 .. n, IfaceDepth(ast, order[i]) <= GuardMax,
              HasBase(ast, order[i]), BaseOf(ast, order[i]) = order[j]
       PROVE  j < i
  <2>1. IfaceDepth(ast, order[j]) < IfaceDepth(ast, order[i])
    BY <1>7, <1>13, BaseLessDeep
  <2>2. CASE i < j
    BY <1>7, <1>8, <2>1, <2>2
  <2>3. CASE i = j
    BY <1>7, <2>1, <2>3
  <2>4. QED
    BY <2>2, <2>3
<1>14. QED
  BY <1>5, <1>6, <1>9, <1>12, <1>13

-----------------------------------------------------------------------------
(* Signatures.                                                             *)

(* The parameters that the C header has the right number of stars for.     *)
RightStars(ast, p) ==
  /\ ~(p.dir = "inout" /\ IsInterface(ast, p.type))
  /\ ~(p.dir # "in" /\ p.type \in FrameworkAliases)

LEMMA ReturnsThrough ==
  ASSUME NEW ast, NEW p, p.dir \in {"in", "out", "inout"}, RightStars(ast, p)
  PROVE  CReturnsThrough(ast, p) <=> p.dir \in {"out", "inout"}
<1>1. CASE p.dir = "out"
  <2>1. p.type \notin FrameworkAliases
    BY <1>1 DEF RightStars
  <2>2. CASE IsInterface(ast, p.type)
    <3>1. Stars(ast, p) = 2
      BY <1>1, <2>2 DEF Stars
    <3>2. QED
      BY <1>1, <2>2, <3>1 DEF CReturnsThrough
  <2>3. CASE ~IsInterface(ast, p.type)
    <3>1. Stars(ast, p) = 1
      BY <1>1, <2>3 DEF Stars
    <3>2. QED
      BY <1>1, <2>1, <2>3, <3>1 DEF CReturnsThrough
  <2>4. QED
    BY <2>2, <2>3
<1>2. CASE p.dir = "inout"
  <2>1. p.type \notin FrameworkAliases /\ ~IsInterface(ast, p.type)
    BY <1>2 DEF RightStars
  <2>2. Stars(ast, p) = 1
    BY <1>2, <2>1 DEF Stars
  <2>3. QED
    BY <1>2, <2>1, <2>2 DEF CReturnsThrough
<1>3. CASE p.dir = "in"
  <2>1. CASE IsInterface(ast, p.type)
    <3>1. Stars(ast, p) = 1
      BY <1>3, <2>1 DEF Stars
    <3>2. QED
      BY <1>3, <2>1, <3>1 DEF CReturnsThrough
  <2>2. CASE p.type \in {"uuid", "clsid"}
    BY <1>3, <2>2 DEF CReturnsThrough
  <2>3. CASE ~IsInterface(ast, p.type) /\ p.type \notin {"uuid", "clsid"}
    <3>1. Stars(ast, p) = 0
      BY <1>3, <2>3 DEF Stars
    <3>2. QED
      BY <1>3, <3>1 DEF CReturnsThrough
  <2>4. QED
    BY <2>1, <2>2, <2>3
<1>4. QED
  BY <1>1, <1>2, <1>3

(* The two generators describe the same function, for every method whose   *)
(* parameters have the right stars: what WIT returns is what C hands back, *)
(* in the same order, and a parameter that is no input there is one that C *)
(* can hand back through.                                                  *)
THEOREM SignaturesOf ==
  ASSUME NEW ast, NEW m, IsList(m.params),
         \A p \in Range(m.params) : p.dir \in {"in", "out", "inout"} /\ RightStars(ast, p)
  PROVE  /\ COutputs(ast, m) = WitOutputs(m)
         /\ \A p \in Range(m.params) \ Range(WitInputs(m)) : CReturnsThrough(ast, p)
<1>1. \A p \in Range(m.params) : CReturnsThrough(ast, p) <=> p.dir \in {"out", "inout"}
  BY ReturnsThrough
<1>2. {p \in Range(m.params) : CReturnsThrough(ast, p)}
        = {p \in Range(m.params) : p.dir \in {"out", "inout"}}
  BY <1>1
<1>3. COutputs(ast, m) = WitOutputs(m)
  BY <1>2 DEF COutputs, WitOutputs
<1>4. PICK ps, S : /\ ps = Params(m)
                   /\ S = {p \in Range(m.params) : p.dir \in {"in", "inout"}}
  OBVIOUS
<1>5. IsList(ps) /\ Range(ps) = Range(m.params)
  <2>1. ps = Reverse(m.params)
    BY <1>4 DEF Params
  <2>2. IsList(ps)
    BY <2>1, ListReversed
  <2>3. Range(ps) = Range(m.params)
    BY <2>1, ListReversed
  <2>4. QED
    BY <2>2, <2>3
<1>6. Range(WitInputs(m)) = Range(m.params) \cap S
  BY <1>4, <1>5, ThoseRange DEF WitInputs
<1>7. QED
  BY <1>1, <1>3, <1>4, <1>6

=============================================================================

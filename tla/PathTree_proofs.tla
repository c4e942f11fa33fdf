-------------------------- MODULE PathTree_proofs ---------------------------
(***************************************************************************)
(* What the operators on the body of a function preserve: the paths hold   *)
(* runs of the code and lie in its order (Tiled), and while the body is    *)
(* generated the map names them and tells where they end (Mapped).         *)
(***************************************************************************)
EXTENDS PathTree, SequenceTheorems, WellFoundedInduction, TLAPS

-----------------------------------------------------------------------------
(* Induction over the natural numbers for properties given as sets, which  *)
(* is what the proofs about recursive functions cite: the rule, the least  *)
(* and the greatest element of a set, and that a function defined step by  *)
(* step exists.                                                            *)

LEMMA LessIsWellFounded == IsWellFoundedOn({p \in Nat \X Nat : p[1] < p[2]}, Nat)
  <1>1. OpToRel(<, Nat) = {p \in Nat \X Nat : p[1] < p[2]} BY DEF OpToRel
  <1> QED BY <1>1, NatLessThanWellFounded

(* A set of numbers that is not empty has a least element.                 *)
LEMMA LeastElement ==
  ASSUME NEW S \in SUBSET Nat, S # {}
  PROVE  \E x \in S : \A y \in S : x <= y
  <1> DEFINE R == {p \in Nat \X Nat : p[1] < p[2]}
  <1>1. PICK x \in S : \A y \in S : ~(<<y, x>> \in R)
    <2>1. IsWellFoundedOn(R, Nat) /\ S \subseteq Nat BY LessIsWellFounded
    <2> HIDE DEF R
    <2> QED BY <2>1, WFMin
  <1>2. \A y \in S : ~(y < x)
    <2> SUFFICES ASSUME NEW y \in S, y < x PROVE FALSE
      OBVIOUS
    <2>1. <<y, x>> \in R OBVIOUS
    <2> QED BY <1>1, <2>1
  <1> QED BY <1>2

LEMMA LeastIsMin ==
  ASSUME NEW S \in SUBSET Nat, S # {}
  PROVE  Min(S) \in S /\ \A y \in S : Min(S) <= y
  <1>1. \E x \in S : \A y \in S : x <= y BY LeastElement
  <1> QED BY <1>1 DEF Min

(* So has a set of numbers that is bounded a greatest one.                 *)
LEMMA GreatestIsMax ==
  ASSUME NEW n \in Nat, NEW S \in SUBSET (0 .. n), S # {}
  PROVE  Max(S) \in S /\ \A y \in S : Max(S) >= y
  <1> DEFINE D == {d \in Nat : d <= n /\ n - d \in S}
  <1>1. \A y \in S : n - y \in D OBVIOUS
  <1>2. PICK d \in D : \A e \in D : d <= e
    <2>1. D \in SUBSET Nat /\ D # {} BY <1>1
    <2> HIDE DEF D
    <2> QED BY <2>1, LeastElement
  <1>3. n - d \in S /\ \A y \in S : n - d >= y
    <2>1. d \in Nat /\ n - d \in S OBVIOUS
    <2>2. ASSUME NEW y \in S PROVE n - d >= y
      <3>1. d <= n - y BY <1>1, <1>2
      <3> QED BY <2>1, <3>1
    <2> QED BY <2>1, <2>2
  <1> QED BY <1>3 DEF Max

(* What holds for 0, and for n + 1 when it holds for n, holds for all.     *)
LEMMA NatSetInduction ==
  ASSUME NEW T, 0 \in T, \A n \in Nat : n \in T => n + 1 \in T
  PROVE  Nat \subseteq T
  <1> DEFINE B == Nat \ T
  <1> SUFFICES ASSUME B # {} PROVE FALSE
    OBVIOUS
  <1>1. PICK x \in B : \A y \in B : x <= y
    <2>1. B \in SUBSET Nat OBVIOUS
    <2> HIDE DEF B
    <2> QED BY <2>1, LeastElement
  <1>2. x # 0 /\ x - 1 \in Nat /\ x - 1 + 1 = x BY <1>1
  <1>3. x - 1 \in B BY <1>2
  <1> QED BY <1>1, <1>2, <1>3

(* The same up to a bound.                                                 *)
LEMMA UpToInduction ==
  ASSUME NEW m \in Nat, NEW T, 0 \in T, \A n \in 0 .. m - 1 : n \in T => n + 1 \in T
  PROVE  0 .. m \subseteq T
  <1> DEFINE U == {n \in Nat : n <= m => n \in T}
  <1>1. \A n \in Nat : n \in U => n + 1 \in U OBVIOUS
  <1>2. 0 \in U OBVIOUS
  <1>3. Nat \subseteq U
    <2> HIDE DEF U
    <2> QED BY <1>1, <1>2, NatSetInduction
  <1> QED BY <1>3

(* There is a function that begins with x and goes on, at i, from the      *)
(* value before as G says.                                                 *)
HasStepwise(m, X, x, G) ==
    \E f \in [0 .. m -> X] : f[0] = x /\ \A i \in 1 .. m : f[i] = G[<<i, f[i - 1]>>]

LEMMA StepwiseFunction ==
  ASSUME NEW m \in Nat, NEW X, NEW x \in X, NEW G,
         \A i \in 1 .. m, v \in X : G[<<i, v>>] \in X
  PROVE  HasStepwise(m, X, x, G)
  <1> DEFINE Fits(n, f) == f[0] = x /\ \A i \in 1 .. n : f[i] = G[<<i, f[i - 1]>>]
             T == {n \in Nat : n <= m => \E f \in [0 .. n -> X] : Fits(n, f)}
  <1>1. 0 \in T
    <2>1. [i \in 0 .. 0 |-> x] \in [0 .. 0 -> X] /\ Fits(0, [i \in 0 .. 0 |-> x]) OBVIOUS
    <2> QED BY <2>1
  <1>2. ASSUME NEW n \in Nat, n \in T PROVE n + 1 \in T
    <2> HIDE DEF Fits
    <2> SUFFICES ASSUME n + 1 <= m PROVE \E f \in [0 .. n + 1 -> X] : Fits(n + 1, f)
      BY n + 1 \in Nat
    <2> USE DEF Fits
    <2>1. PICK f \in [0 .. n -> X] : Fits(n, f) BY <1>2
    <2> DEFINE g == [i \in 0 .. n + 1 |-> IF i = n + 1 THEN G[<<n + 1, f[n]>>] ELSE f[i]]
    <2>2. G[<<n + 1, f[n]>>] \in X
      <3>1. f[n] \in X OBVIOUS
      <3>2. n + 1 \in 1 .. m OBVIOUS
      <3> QED BY <3>1, <3>2
    <2>3. g \in [0 .. n + 1 -> X]
      <3>1. ASSUME NEW i \in 0 .. n + 1 PROVE g[i] \in X
        <4>1. CASE i = n + 1 BY <2>2, <4>1
        <4>2. CASE i # n + 1
          <5>1. i \in 0 .. n BY <4>2
          <5> QED BY <4>2, <5>1
        <4> QED BY <4>1, <4>2
      <3> QED BY <3>1
    <2>4. g[0] = x BY <2>1
    <2>5. ASSUME NEW i \in 1 .. n + 1 PROVE g[i] = G[<<i, g[i - 1]>>]
      <3>1. g[i - 1] = f[i - 1] OBVIOUS
      <3>2. CASE i = n + 1
        <4>1. g[i] = G[<<n + 1, f[n]>>] /\ i - 1 = n BY <3>2
        <4> HIDE DEF g
        <4> QED BY <3>1, <3>2, <4>1
      <3>3. CASE i # n + 1
        <4>1. i \in 1 .. n BY <3>3
        <4> QED BY <2>1, <3>1, <3>3, <4>1
      <3> QED BY <3>2, <3>3
    <2> HIDE DEF g
    <2> QED BY <2>3, <2>4, <2>5
  <1>3. Nat \subseteq T
    <2> HIDE DEF T
    <2> QED BY <1>1, <1>2, NatSetInduction
  <1> QED BY <1>3 DEF HasStepwise

-----------------------------------------------------------------------------
(* Sequences.                                                              *)

LEMMA RangeFacts ==
  ASSUME NEW S, NEW s \in Seq(S)
  PROVE  /\ Range(s) \subseteq S
         /\ \A i \in 1 .. Len(s) : s[i] \in Range(s)
         /\ \A e \in Range(s) : \E i \in 1 .. Len(s) : s[i] = e
  BY RangeOfSeq, RangeEquality

LEMMA PlaceOf ==
  ASSUME NEW S, NEW s \in Seq(S), NEW e \in Range(s)
  PROVE  Place(s, e) \in 1 .. Len(s) /\ s[Place(s, e)] = e
  <1>1. \E i \in DOMAIN s : s[i] = e BY RangeFacts
  <1> QED BY <1>1 DEF Place

LEMMA LastOf ==
  ASSUME NEW S, NEW s \in Seq(S), s # <<>>
  PROVE  Len(s) \in Nat \ {0} /\ Last(s) = s[Len(s)] /\ Last(s) \in S /\ Last(s) \in Range(s)
  <1>1. Len(s) \in Nat \ {0} BY EmptySeq
  <1>2. Last(s) = s[Len(s)] BY DEF Last
  <1>3. s[Len(s)] \in Range(s) BY <1>1, RangeFacts
  <1> QED BY <1>1, <1>2, <1>3, RangeFacts

LEMMA AppendOf ==
  ASSUME NEW S, NEW s \in Seq(S), NEW e \in S
  PROVE  /\ Append(s, e) \in Seq(S) /\ Append(s, e) # <<>>
         /\ Len(Append(s, e)) = Len(s) + 1
         /\ \A i \in 1 .. Len(s) : Append(s, e)[i] = s[i]
         /\ Append(s, e)[Len(s) + 1] = e
         /\ Last(Append(s, e)) = e
         /\ Range(Append(s, e)) = Range(s) \cup {e}
  <1> DEFINE t == Append(s, e)
  <1>1. /\ t \in Seq(S) /\ t # <<>> /\ Len(t) = Len(s) + 1
        /\ \A i \in 1 .. Len(s) : t[i] = s[i]
        /\ t[Len(s) + 1] = e
    BY AppendProperties
  <1>2. Last(t) = e BY <1>1, LastOf
  <1>3. Range(t) = {t[i] : i \in 1 .. Len(t)} /\ Range(s) = {s[i] : i \in 1 .. Len(s)}
    BY <1>1, RangeEquality
  <1>4. Len(s) \in Nat OBVIOUS
  <1> HIDE DEF t
  <1>5. Range(t) = Range(s) \cup {e}
    <2>1. ASSUME NEW x \in Range(t) PROVE x \in Range(s) \cup {e}
      <3>1. PICK i \in 1 .. Len(s) + 1 : x = t[i] BY <1>1, <1>3
      <3>2. i \in 1 .. Len(s) \/ i = Len(s) + 1 BY <1>4
      <3> QED BY <1>1, <1>3, <3>1, <3>2
    <2>2. ASSUME NEW x \in Range(s) \cup {e} PROVE x \in Range(t)
      <3>1. \A i \in 1 .. Len(s) : i \in 1 .. Len(t) BY <1>1, <1>4
      <3>2. Len(s) + 1 \in 1 .. Len(t) BY <1>1, <1>4
      <3> QED BY <1>1, <1>3, <3>1, <3>2
    <2> QED BY <2>1, <2>2
  <1> QED BY <1>1, <1>2, <1>5 DEF t

(* The beginning and the rest of a sequence.                               *)
LEMMA SubSeqOf ==
  ASSUME NEW S, NEW s \in Seq(S), NEW m \in 1 .. Len(s) + 1, NEW n \in 0 .. Len(s), m <= n + 1
  PROVE  /\ SubSeq(s, m, n) \in Seq(S)
         /\ Len(SubSeq(s, m, n)) = n - m + 1
         /\ \A i \in 1 .. n - m + 1 : SubSeq(s, m, n)[i] = s[m + i - 1]
         /\ Range(SubSeq(s, m, n)) = {s[i] : i \in m .. n}
  <1> DEFINE t == SubSeq(s, m, n)
  <1>1. \A i \in m .. n : s[i] \in S OBVIOUS
  <1>2. /\ t \in Seq(S) /\ Len(t) = n - m + 1
        /\ \A i \in 1 .. n - m + 1 : t[i] = s[m + i - 1]
    BY <1>1, SubSeqProperties
  <1>3. Range(t) = {t[i] : i \in 1 .. n - m + 1} BY <1>2, RangeEquality
  <1> HIDE DEF t
  <1>4. {t[i] : i \in 1 .. n - m + 1} = {s[i] : i \in m .. n}
    <2>1. ASSUME NEW i \in 1 .. n - m + 1 PROVE t[i] \in {s[j] : j \in m .. n}
      <3>1. m + i - 1 \in m .. n OBVIOUS
      <3> QED BY <1>2, <3>1
    <2>2. ASSUME NEW j \in m .. n PROVE s[j] \in {t[i] : i \in 1 .. n - m + 1}
      <3>1. j - m + 1 \in 1 .. n - m + 1 /\ m + (j - m + 1) - 1 = j OBVIOUS
      <3> QED BY <1>2, <3>1
    <2> QED BY <2>1, <2>2
  <1> QED BY <1>2, <1>3, <1>4 DEF t

(* An element inserted: what stood before it, itself, and the rest.        *)
LEMMA InsertedAt ==
  ASSUME NEW S, NEW s \in Seq(S), NEW k \in 1 .. Len(s) + 1, NEW e \in S
  PROVE  /\ InsertAt(s, k, e) \in Seq(S)
         /\ Len(InsertAt(s, k, e)) = Len(s) + 1
         /\ \A i \in 1 .. Len(s) + 1 : InsertAt(s, k, e)[i] =
               IF i < k THEN s[i] ELSE IF i = k THEN e ELSE s[i - 1]
         /\ Range(InsertAt(s, k, e)) = Range(s) \cup {e}
  <1> DEFINE a == SubSeq(s, 1, k - 1)
             c == SubSeq(s, k, Len(s))
             h == a \o <<e>>
             t == InsertAt(s, k, e)
  <1>0. Len(s) \in Nat OBVIOUS
  <1>1. a \in Seq(S) /\ Len(a) = k - 1 /\ \A i \in 1 .. k - 1 : a[i] = s[i]
    BY <1>0, SubSeqOf
  <1>2. c \in Seq(S) /\ Len(c) = Len(s) - k + 1 /\ \A i \in 1 .. Len(s) - k + 1 : c[i] = s[k + i - 1]
    BY <1>0, SubSeqOf
  <1>3. <<e>> \in Seq(S) /\ Len(<<e>>) = 1 /\ <<e>>[1] = e OBVIOUS
  <1>4. h = a \o <<e>> /\ t = h \o c BY DEF InsertAt
  <1> HIDE DEF a, c, h, t
  <1>5. /\ h \in Seq(S) /\ Len(h) = k
        /\ \A i \in 1 .. k : h[i] = IF i <= k - 1 THEN a[i] ELSE <<e>>[i - (k - 1)]
    <2>1. (k - 1) + 1 = k OBVIOUS
    <2> QED BY <1>1, <1>3, <1>4, <2>1, ConcatProperties
  <1>6. /\ t \in Seq(S) /\ Len(t) = Len(s) + 1
        /\ \A i \in 1 .. Len(s) + 1 : t[i] = IF i <= k THEN h[i] ELSE c[i - k]
    <2>1. k + (Len(s) - k + 1) = Len(s) + 1 BY <1>0
    <2>2. /\ h \o c \in Seq(S) /\ Len(h \o c) = Len(h) + Len(c)
          /\ \A i \in 1 .. Len(h) + Len(c) :
                (h \o c)[i] = IF i <= Len(h) THEN h[i] ELSE c[i - Len(h)]
      BY <1>2, <1>5, ConcatProperties
    <2>3. Len(h) = k /\ Len(h) + Len(c) = Len(s) + 1 BY <1>2, <1>5, <2>1
    <2> QED BY <1>4, <2>2, <2>3
  <1>7. ASSUME NEW i \in 1 .. Len(s) + 1
        PROVE  t[i] = IF i < k THEN s[i] ELSE IF i = k THEN e ELSE s[i - 1]
    <2>1. CASE i < k
      <3>1. i \in 1 .. k /\ i <= k - 1 /\ i \in 1 .. k - 1 BY <2>1
      <3>2. t[i] = a[i] BY <1>5, <1>6, <3>1
      <3> QED BY <1>1, <2>1, <3>1, <3>2
    <2>2. CASE i = k
      <3>1. i \in 1 .. k /\ ~(i <= k - 1) /\ i - (k - 1) = 1 BY <2>2
      <3> QED BY <1>3, <1>5, <1>6, <2>2, <3>1
    <2>3. CASE i > k
      <3>1. i - k \in 1 .. Len(s) - k + 1 /\ k + (i - k) - 1 = i - 1 /\ ~(i <= k) /\ i # k /\ ~(i < k)
        BY <1>0, <2>3
      <3> QED BY <1>2, <1>6, <3>1
    <2> QED BY <2>1, <2>2, <2>3
  <1>8. Range(t) = Range(s) \cup {e}
    <2>1. Range(t) = {t[i] : i \in 1 .. Len(s) + 1} /\ Range(s) = {s[i] : i \in 1 .. Len(s)}
      BY <1>6, RangeEquality
    <2>2. ASSUME NEW i \in 1 .. Len(s) + 1 PROVE t[i] \in {s[j] : j \in 1 .. Len(s)} \cup {e}
      <3>1. CASE i < k
        <4>1. i \in 1 .. Len(s) BY <1>0, <3>1
        <4> QED BY <1>7, <3>1, <4>1
      <3>2. CASE i = k BY <1>7, <3>2
      <3>3. CASE i > k
        <4>1. i - 1 \in 1 .. Len(s) /\ ~(i < k) /\ i # k BY <1>0, <3>3
        <4> QED BY <1>7, <4>1
      <3> QED BY <3>1, <3>2, <3>3
    <2>3. ASSUME NEW j \in 1 .. Len(s) PROVE s[j] \in {t[i] : i \in 1 .. Len(s) + 1}
      <3>1. CASE j < k
        <4>1. j \in 1 .. Len(s) + 1 BY <1>0
        <4> QED BY <1>7, <3>1, <4>1
      <3>2. CASE ~(j < k)
        <4>1. j + 1 \in 1 .. Len(s) + 1 /\ ~(j + 1 < k) /\ j + 1 # k /\ (j + 1) - 1 = j BY <1>0, <3>2
        <4> QED BY <1>7, <4>1
      <3> QED BY <3>1, <3>2
    <2>4. e \in {t[i] : i \in 1 .. Len(s) + 1} BY <1>7
    <2> QED BY <2>1, <2>2, <2>3, <2>4
  <1> QED BY <1>6, <1>7, <1>8 DEF t

(* The elements in K are all there, and no others, in the order they had   *)
(* (R: what stands before what).                                           *)
LEMMA KeptOnes ==
  ASSUME NEW S, NEW s \in Seq(S), NEW K, NEW R,
         \A i, j \in 1 .. Len(s) : i < j => <<s[i], s[j]>> \in R
  PROVE  /\ Kept(s, K) \in Seq(S)
         /\ Range(Kept(s, K)) = Range(s) \cap K
         /\ \A i, j \in 1 .. Len(Kept(s, K)) : i < j => <<Kept(s, K)[i], Kept(s, K)[j]>> \in R
  <1> DEFINE m == Len(s)
             Step(i, t) == IF s[i] \in K THEN Append(t, s[i]) ELSE t
             Body(g) == [i \in 0 .. m |-> IF i = 0 THEN <<>> ELSE Step(i, g[i - 1])]
             first == CHOOSE g : g = Body(g)
             G == [w \in Nat \X Seq(S) |-> IF w[1] \in 1 .. m THEN Step(w[1], w[2]) ELSE w[2]]
  <1>1. m \in Nat /\ <<>> \in Seq(S) OBVIOUS
  <1>2. \A i \in 1 .. m : s[i] \in S OBVIOUS
  <1>3. \A i \in 1 .. m, t \in Seq(S) : Step(i, t) \in Seq(S) BY <1>2, AppendOf
  <1>4. Kept(s, K) = first[m] BY DEF Kept
  <1>5. \A i \in 1 .. m, t \in Seq(S) : G[<<i, t>>] = Step(i, t)
    <2> HIDE DEF Step
    <2> QED BY <1>1
  <1> HIDE DEF G, m, Step
  <1>7. PICK f \in [0 .. m -> Seq(S)] : f[0] = <<>> /\ \A i \in 1 .. m : f[i] = G[<<i, f[i - 1]>>]
    <2> DEFINE X == Seq(S)
               x == <<>>
    <2>1. x \in X /\ m \in Nat /\ \A i \in 1 .. m, v \in X : G[<<i, v>>] \in X BY <1>1, <1>3, <1>5
    <2> HIDE DEF X, x
    <2>2. HasStepwise(m, X, x, G) BY <2>1, StepwiseFunction
    <2> QED BY <2>2 DEF HasStepwise, X, x
  <1>8. \A i \in 1 .. m : f[i - 1] \in Seq(S) /\ f[i] = Step(i, f[i - 1])
    <2>1. ASSUME NEW i \in 1 .. m PROVE i - 1 \in 0 .. m BY <1>1
    <2> QED BY <1>5, <1>7, <2>1
  <1>9. f = Body(f)
    <2>1. ASSUME NEW i \in 0 .. m PROVE f[i] = Body(f)[i]
      <3>1. CASE i = 0 BY <1>7, <3>1
      <3>2. CASE i # 0
        <4>1. i \in 1 .. m BY <1>1, <3>2
        <4> QED BY <1>8, <3>2, <4>1
      <3> QED BY <3>1, <3>2
    <2>2. DOMAIN f = 0 .. m /\ DOMAIN Body(f) = 0 .. m BY <1>7
    <2> HIDE DEF Body
    <2>3. f \in [0 .. m -> Seq(S)] BY <1>7
    <2>4. Body(f) = [i \in 0 .. m |-> Body(f)[i]] BY DEF Body
    <2> QED BY <2>1, <2>3, <2>4
  <1>10. first = Body(first)
    <2> HIDE DEF Body
    <2> QED BY <1>9
  <1> HIDE DEF first
  <1>11. first[0] = <<>> /\ \A i \in 1 .. m : first[i] = Step(i, first[i - 1])
    <2>1. \A i \in 0 .. m : first[i] = IF i = 0 THEN <<>> ELSE Step(i, first[i - 1])
      <3>1. \A i \in 0 .. m : Body(first)[i] = IF i = 0 THEN <<>> ELSE Step(i, first[i - 1]) OBVIOUS
      <3> QED BY <1>10, <3>1
    <2> QED BY <1>1, <2>1
  <1> DEFINE Part(n) == {s[i] : i \in 1 .. n}
             Fits(n, t) == /\ t \in Seq(S)
                           /\ Range(t) = Part(n) \cap K
                           /\ \A i, j \in 1 .. Len(t) : i < j => <<t[i], t[j]>> \in R
             T == {n \in Nat : n <= m => Fits(n, first[n])}
  <1>12. 0 \in T
    <2>1. Range(<<>>) = {} /\ Len(<<>>) = 0 BY DEF Range
    <2>2. Part(0) = {} OBVIOUS
    <2>3. Fits(0, <<>>) BY <1>1, <2>1, <2>2
    <2> HIDE DEF Fits
    <2> QED BY <1>11, <2>3
  <1>13. ASSUME NEW n \in 0 .. m - 1, n \in T PROVE n + 1 \in T
    <2> DEFINE k == n + 1
               t == first[n]
    <2>1. k \in 1 .. m /\ k - 1 = n /\ n \in Nat /\ n <= m BY <1>1
    <2>2. Fits(n, t)
      <3> HIDE DEF Fits
      <3> QED BY <1>13, <2>1
    <2>3. first[k] = Step(k, t) BY <1>11, <2>1
    <2>4. Part(k) = Part(n) \cup {s[k]}
      <3>1. 1 .. k = (1 .. n) \cup {k} BY <2>1
      <3> QED BY <3>1
    <2> HIDE DEF k, t
    <2>5. CASE s[k] \notin K
      <3>1. first[k] = t BY <2>3, <2>5 DEF Step
      <3>2. Part(k) \cap K = Part(n) \cap K BY <2>4, <2>5
      <3>3. Fits(k, t) BY <2>2, <3>2
      <3> HIDE DEF Fits
      <3> QED BY <2>1, <3>1, <3>3 DEF k
    <2>6. CASE s[k] \in K
      <3>1. first[k] = Append(t, s[k]) BY <2>3, <2>6 DEF Step
      <3>2. t \in Seq(S) /\ s[k] \in S BY <1>2, <2>1, <2>2
      <3> DEFINE u == Append(t, s[k])
      <3>3. /\ u \in Seq(S) /\ Len(u) = Len(t) + 1 /\ Len(t) \in Nat
            /\ \A i \in 1 .. Len(t) : u[i] = t[i]
            /\ u[Len(t) + 1] = s[k]
            /\ Range(u) = Range(t) \cup {s[k]}
        BY <3>2, AppendOf
      <3> HIDE DEF u
      <3>4. Range(u) = Part(k) \cap K
        <4> HIDE DEF Part
        <4> QED BY <2>2, <2>4, <2>6, <3>3
      <3>5. ASSUME NEW i \in 1 .. Len(u), NEW j \in 1 .. Len(u), i < j PROVE <<u[i], u[j]>> \in R
        <4>1. i \in 1 .. Len(t) /\ u[i] = t[i] BY <3>3, <3>5
        <4>2. CASE j \in 1 .. Len(t)
          <5>1. <<t[i], t[j]>> \in R BY <2>2, <3>5, <4>1, <4>2
          <5> QED BY <3>3, <4>1, <4>2, <5>1
        <4>3. CASE j \notin 1 .. Len(t)
          <5>1. j = Len(t) + 1 /\ u[j] = s[k] BY <3>3, <4>3
          <5>2. t[i] \in Part(n)
            <6>1. t[i] \in Range(t) BY <3>2, <4>1, RangeFacts
            <6> HIDE DEF Part
            <6> QED BY <2>2, <6>1
          <5>3. PICK h \in 1 .. n : t[i] = s[h] BY <5>2
          <5>4. h \in 1 .. m /\ h < k BY <1>1, <2>1, <5>3
          <5>5. <<s[h], s[k]>> \in R BY <2>1, <5>4 DEF m
          <5> QED BY <4>1, <5>1, <5>3, <5>5
        <4> QED BY <4>2, <4>3
      <3>6. Fits(k, u) BY <3>3, <3>4, <3>5
      <3>7. first[k] = u BY <3>1 DEF u
      <3> HIDE DEF Fits
      <3> QED BY <2>1, <3>6, <3>7 DEF k
    <2> QED BY <2>5, <2>6
  <1>14. m \in T
    <2> HIDE DEF T
    <2>1. 0 .. m \subseteq T BY <1>1, <1>12, <1>13, UpToInduction
    <2> QED BY <1>1, <2>1
  <1>15. Fits(m, first[m])
    <2> HIDE DEF Fits
    <2> QED BY <1>1, <1>14
  <1>16. Part(m) = Range(s) BY RangeEquality DEF m
  <1> QED
    <2> HIDE DEF Part
    <2> QED BY <1>4, <1>15, <1>16

-----------------------------------------------------------------------------
(* Runs of the code.                                                       *)

LEMMA Bounds == /\ N \in Nat \ {0} /\ Addr = 1 .. N /\ Out = N + 1
                /\ Exit = 0 /\ None = -1 /\ Gap = -2
                /\ Exit \notin Addr /\ None \notin Addr /\ Gap \notin Addr /\ Out \notin Addr
  BY ProgramsAssumption DEF ProgramsAssumption, Addr, Out, Exit, None, Gap

LEMMA NoOpIsNone == NoOp \notin Op
  BY Bounds DEF NoOp, Op

LEMMA LastPart ==
  ASSUME NEW a
  PROVE  Last(Parts(a)) = IF code[a].kind = "call" THEN <<a, 2>> ELSE <<a, 1>>
  <1>1. Last(<<<<a, 1>>, <<a, 2>>>>) = <<a, 2>> /\ Last(<<<<a, 1>>>>) = <<a, 1>> BY DEF Last
  <1> QED BY <1>1 DEF Parts

LEMMA PartsAreOps == \A a \in Addr : <<a, 1>> \in Op /\ <<a, 2>> \in Op /\ Last(Parts(a)) \in Op
  BY LastPart DEF Op

LEMMA OpPair == \A o \in Op : o[1] \in Addr /\ o[2] \in {1, 2} /\ o = <<o[1], o[2]>>
  BY DEF Op

LEMMA NextOpOf ==
  ASSUME NEW o \in Op
  PROVE  /\ o = Last(Parts(o[1])) => NextOp(o) = <<o[1] + 1, 1>>
         /\ o # Last(Parts(o[1])) => NextOp(o) = <<o[1], 2>>
  BY DEF NextOp

(* Within a run every operation is a part of its instruction, and stands   *)
(* behind all before it.                                                   *)
Behind(o, q) == o[1] < q[1] \/ (o[1] = q[1] /\ o[2] < q[2])
IsPart(o) == o[2] = 1 \/ Kind(o) = "call"

LEMMA NextIsBehind ==
  ASSUME NEW o \in Op, NEW q \in Op, IsPart(o), q = NextOp(o)
  PROVE  IsPart(q) /\ Behind(o, q)
  <1>1. o[1] \in Int /\ o[2] \in {1, 2} /\ o = <<o[1], o[2]>> BY OpPair, Bounds
  <1>2. CASE o = Last(Parts(o[1]))
    <2>1. q = <<o[1] + 1, 1>> BY <1>2, NextOpOf
    <2>2. q[1] = o[1] + 1 /\ q[2] = 1 BY <2>1
    <2> QED BY <1>1, <2>2 DEF IsPart, Behind
  <1>3. CASE o # Last(Parts(o[1]))
    <2>1. q = <<o[1], 2>> BY <1>3, NextOpOf
    <2>2. q[1] = o[1] /\ q[2] = 2 BY <2>1
    <2>3. o[2] = 1 /\ Kind(o) = "call"
      <3>1. Last(Parts(o[1])) = IF Kind(o) = "call" THEN <<o[1], 2>> ELSE <<o[1], 1>>
        BY LastPart DEF Kind
      <3> QED BY <1>1, <1>3, <3>1 DEF IsPart
    <2> QED BY <2>2, <2>3 DEF IsPart, Behind, Kind
  <1> QED BY <1>2, <1>3

LEMMA BehindIsTransitive ==
  ASSUME NEW o \in Op, NEW q \in Op, NEW r \in Op, Behind(o, q), Behind(q, r)
  PROVE  Behind(o, r)
  BY OpPair, Bounds DEF Behind

(* What IsRun says of an operation and the next.                           *)
LEMMA RunSteps ==
  ASSUME NEW p \in Addr, NEW s \in Seq(Op), IsRun(p, s), s # <<>>
  PROVE  /\ Len(s) \in Nat \ {0}
         /\ \A i \in 1 .. Len(s) : s[i] \in Op
         /\ s[1] = <<p, 1>>
         /\ \A i \in 1 .. Len(s) - 1 : s[i + 1] = NextOp(s[i])
         /\ Last(s) = s[Len(s)]
         /\ s[Len(s)] = Last(Parts(s[Len(s)][1]))
  BY LastOf DEF IsRun

LEMMA RunAscends ==
  ASSUME NEW p \in Addr, NEW s \in Seq(Op), IsRun(p, s), s # <<>>
  PROVE  /\ \A i \in 1 .. Len(s) : IsPart(s[i])
         /\ \A i, j \in 1 .. Len(s) : i < j => Behind(s[i], s[j])
  <1> DEFINE m == Len(s)
             T == {n \in Nat : n + 1 <= m =>
                      /\ IsPart(s[n + 1])
                      /\ \A i \in 1 .. n : Behind(s[i], s[n + 1])}
  <1>1. /\ m \in Nat \ {0} /\ \A i \in 1 .. m : s[i] \in Op
        /\ s[1] = <<p, 1>> /\ \A i \in 1 .. m - 1 : s[i + 1] = NextOp(s[i])
    BY RunSteps
  <1> HIDE DEF m
  <1>2. 0 \in T
    <2>1. IsPart(s[1])
      <3>1. s[1][2] = 1 BY <1>1
      <3> QED BY <3>1 DEF IsPart
    <2> QED BY <2>1
  <1>3. ASSUME NEW n \in Nat, n \in T PROVE n + 1 \in T
    <2> SUFFICES ASSUME n + 2 <= m
                 PROVE  IsPart(s[n + 2]) /\ \A i \in 1 .. n + 1 : Behind(s[i], s[n + 2])
      <3>1. (n + 1) + 1 = n + 2 OBVIOUS
      <3> QED BY <3>1
    <2>1. n + 1 \in 1 .. m - 1 /\ n + 1 \in 1 .. m /\ n + 2 \in 1 .. m /\ (n + 1) + 1 = n + 2 BY <1>1
    <2>2. IsPart(s[n + 1]) /\ \A i \in 1 .. n : Behind(s[i], s[n + 1]) BY <1>3, <2>1
    <2>3. IsPart(s[n + 2]) /\ Behind(s[n + 1], s[n + 2])
      <3>1. s[n + 2] = NextOp(s[n + 1]) BY <1>1, <2>1
      <3>2. s[n + 1] \in Op /\ s[n + 2] \in Op BY <1>1, <2>1
      <3> QED BY <2>2, <3>1, <3>2, NextIsBehind
    <2>4. ASSUME NEW i \in 1 .. n + 1 PROVE Behind(s[i], s[n + 2])
      <3>1. CASE i = n + 1 BY <2>3, <3>1
      <3>2. CASE i # n + 1
        <4>1. i \in 1 .. n /\ i \in 1 .. m BY <1>1, <2>1, <3>2
        <4>2. s[i] \in Op /\ s[n + 1] \in Op /\ s[n + 2] \in Op BY <1>1, <2>1, <4>1
        <4> QED BY <2>2, <2>3, <4>1, <4>2, BehindIsTransitive
      <3> QED BY <3>1, <3>2
    <2> QED BY <2>3, <2>4
  <1>4. Nat \subseteq T
    <2> HIDE DEF T
    <2> QED BY <1>2, <1>3, NatSetInduction
  <1>5. ASSUME NEW j \in 1 .. m
        PROVE  IsPart(s[j]) /\ \A i \in 1 .. j - 1 : Behind(s[i], s[j])
    <2>1. j - 1 \in T /\ j - 1 \in Nat /\ (j - 1) + 1 = j /\ j <= m BY <1>1, <1>4
    <2> QED BY <2>1
  <1>6. ASSUME NEW i \in 1 .. m, NEW j \in 1 .. m, i < j PROVE Behind(s[i], s[j])
    <2>1. i \in 1 .. j - 1 BY <1>1, <1>6
    <2> QED BY <1>5, <2>1
  <1> QED BY <1>5, <1>6 DEF m

(* The addresses in a run go from the one of the path up.                  *)
LEMMA RunLiesWithin ==
  ASSUME NEW p \in Addr, NEW s \in Seq(Op), IsRun(p, s), s # <<>>
  PROVE  /\ \A i \in 1 .. Len(s) : p <= s[i][1] /\ s[i][1] <= Last(s)[1]
         /\ \A i \in 2 .. Len(s) : s[i] # <<p, 1>>
         /\ Last(s) \in Op /\ Last(s)[1] \in Addr /\ p <= Last(s)[1]
  <1>1. /\ Len(s) \in Nat \ {0} /\ s[1] = <<p, 1>> /\ Last(s) = s[Len(s)]
        /\ \A i \in 1 .. Len(s) : s[i] \in Op /\ s[i][1] \in Int
    BY RunSteps, OpPair, Bounds
  <1>2. \A i, j \in 1 .. Len(s) : i < j => Behind(s[i], s[j]) BY RunAscends
  <1>3. ASSUME NEW i \in 1 .. Len(s) PROVE p <= s[i][1]
    <2>1. CASE i = 1
      <3>1. s[i][1] = p BY <1>1, <2>1
      <3> QED BY <3>1, Bounds
    <2>2. CASE i # 1
      <3>1. Behind(s[1], s[i]) BY <1>1, <1>2, <2>2
      <3>2. s[1][1] = p BY <1>1
      <3> QED BY <1>1, <3>1, <3>2, Bounds DEF Behind
    <2> QED BY <2>1, <2>2
  <1>4. ASSUME NEW i \in 1 .. Len(s) PROVE s[i][1] <= s[Len(s)][1]
    <2>1. CASE i = Len(s) BY <1>1, <2>1
    <2>2. CASE i # Len(s)
      <3>1. i < Len(s) /\ Len(s) \in 1 .. Len(s) BY <1>1, <2>2
      <3>2. Behind(s[i], s[Len(s)]) BY <1>2, <3>1
      <3> QED BY <1>1, <3>1, <3>2 DEF Behind
    <2> QED BY <2>1, <2>2
  <1>5. ASSUME NEW i \in 2 .. Len(s) PROVE s[i] # <<p, 1>>
    <2>1. i \in 1 .. Len(s) /\ 1 < i /\ 1 \in 1 .. Len(s) BY <1>1
    <2>2. Behind(<<p, 1>>, s[i]) BY <1>1, <1>2, <2>1
    <2> QED BY <2>2, Bounds DEF Behind
  <1>6. Len(s) \in 1 .. Len(s) BY <1>1
  <1>7. Last(s) \in Op /\ Last(s)[1] \in Addr BY <1>1, <1>6, OpPair
  <1> QED BY <1>1, <1>3, <1>4, <1>5, <1>6, <1>7

(* The beginning of a run, which may end within a call.                    *)
IsStart(p, s) ==
    s # <<>> => s[1] = <<p, 1>> /\ \A i \in 1 .. Len(s) - 1 : s[i + 1] = NextOp(s[i])

LEMMA StartGrows ==
  ASSUME NEW p \in Addr, NEW s \in Seq(Op), IsStart(p, s), NEW o \in Op,
         IF s = <<>> THEN o = <<p, 1>> ELSE o = NextOp(Last(s))
  PROVE  IsStart(p, Append(s, o))
  <1> DEFINE t == Append(s, o)
  <1>1. /\ t \in Seq(Op) /\ Len(t) = Len(s) + 1 /\ Len(s) \in Nat
        /\ \A i \in 1 .. Len(s) : t[i] = s[i]
        /\ t[Len(s) + 1] = o
    BY AppendOf
  <1> HIDE DEF t
  <1>2. CASE s = <<>>
    <2>1. Len(s) = 0 BY <1>2
    <2>2. t[1] = <<p, 1>> BY <1>1, <1>2, <2>1
    <2>3. 1 .. Len(t) - 1 = {} BY <1>1, <2>1
    <2>4. IsStart(p, t) BY <2>2, <2>3 DEF IsStart
    <2> QED BY <2>4 DEF t
  <1>3. CASE s # <<>>
    <2>1. Len(s) \in Nat \ {0} /\ Last(s) = s[Len(s)] BY <1>3, LastOf
    <2>2. t[1] = <<p, 1>> BY <1>1, <1>3, <2>1 DEF IsStart
    <2>3. ASSUME NEW i \in 1 .. Len(t) - 1 PROVE t[i + 1] = NextOp(t[i])
      <3>1. i \in 1 .. Len(s) /\ t[i] = s[i] BY <1>1
      <3>2. CASE i = Len(s) BY <1>1, <1>3, <2>1, <3>1, <3>2
      <3>3. CASE i # Len(s)
        <4>1. i \in 1 .. Len(s) - 1 /\ i + 1 \in 1 .. Len(s) BY <1>1, <3>1, <3>3
        <4>2. s[i + 1] = NextOp(s[i]) BY <1>3, <4>1 DEF IsStart
        <4> QED BY <1>1, <3>1, <4>1, <4>2
      <3> QED BY <3>2, <3>3
    <2>4. IsStart(p, t) BY <2>2, <2>3 DEF IsStart
    <2> QED BY <2>4 DEF t
  <1> QED BY <1>2, <1>3

LEMMA StartIsRun ==
  ASSUME NEW p, NEW s
  PROVE  IsRun(p, s) <=> IsStart(p, s) /\ (s # <<>> => Last(s) = Last(Parts(Last(s)[1])))
  BY DEF IsRun, IsStart

(* A run goes on with the instruction it ends before.                      *)
LEMMA RunGrows ==
  ASSUME NEW p \in Addr, NEW s \in Seq(Op), IsRun(p, s), NEW a \in Addr,
         a = IF s = <<>> THEN p ELSE Last(s)[1] + 1
  PROVE  /\ code[a].kind # "call" => IsRun(p, Append(s, <<a, 1>>))
         /\ code[a].kind = "call" => IsRun(p, Append(Append(s, <<a, 1>>), <<a, 2>>))
  <1> DEFINE t == Append(s, <<a, 1>>)
             u == Append(t, <<a, 2>>)
  <1>1. <<a, 1>> \in Op /\ <<a, 2>> \in Op BY PartsAreOps
  <1>2. t \in Seq(Op) /\ t # <<>> /\ Last(t) = <<a, 1>> BY <1>1, AppendOf
  <1>3. IsStart(p, t)
    <2>1. CASE s = <<>> BY <1>1, <2>1, StartGrows, StartIsRun
    <2>2. CASE s # <<>>
      <3>1. Last(s) \in Op /\ Last(s) = Last(Parts(Last(s)[1])) BY <2>2, LastOf, StartIsRun
      <3>2. NextOp(Last(s)) = <<a, 1>> BY <2>2, <3>1, NextOpOf
      <3> QED BY <1>1, <2>2, <3>2, StartGrows, StartIsRun
    <2> QED BY <2>1, <2>2
  <1> HIDE DEF t
  <1>4. ASSUME code[a].kind # "call" PROVE IsRun(p, t)
    <2>1. Last(t)[1] = a /\ Last(Parts(a)) = <<a, 1>> BY <1>2, <1>4, LastPart
    <2> QED BY <1>2, <1>3, <2>1, StartIsRun
  <1>5. ASSUME code[a].kind = "call" PROVE IsRun(p, u)
    <2>1. Last(t)[1] = a /\ Last(Parts(a)) = <<a, 2>> BY <1>2, <1>5, LastPart
    <2>2. NextOp(Last(t)) = <<a, 2>>
      <3>1. <<a, 1>> # <<a, 2>> OBVIOUS
      <3> QED BY <1>1, <1>2, <2>1, <3>1, NextOpOf
    <2>3. IsStart(p, u) BY <1>1, <1>2, <1>3, <2>2, StartGrows
    <2>4. u # <<>> /\ Last(u) = <<a, 2>> BY <1>1, <1>2, AppendOf
    <2>5. Last(u)[1] = a BY <2>4
    <2> HIDE DEF u
    <2> QED BY <2>1, <2>3, <2>4, <2>5, StartIsRun
  <1> QED BY <1>4, <1>5 DEF t

(* Without the call it ends with, a run ends before the call.              *)
LEMMA RunShrinks ==
  ASSUME NEW p \in Addr, NEW s \in Seq(Op), IsRun(p, s), s # <<>>,
         NEW c \in Addr, Last(s) = <<c, 2>>
  PROVE  LET t == SubSeq(s, 1, Len(s) - 2)
         IN  /\ t \in Seq(Op) /\ IsRun(p, t)
             /\ c = IF t = <<>> THEN p ELSE Last(t)[1] + 1
             /\ Range(s) = Range(t) \cup {<<c, 1>>, <<c, 2>>}
  <1> DEFINE m == Len(s)
             t == SubSeq(s, 1, m - 2)
  <1>1. /\ m \in Nat \ {0} /\ \A i \in 1 .. m : s[i] \in Op
        /\ s[1] = <<p, 1>> /\ \A i \in 1 .. m - 1 : s[i + 1] = NextOp(s[i])
        /\ Last(s) = s[m] /\ s[m] = Last(Parts(s[m][1]))
    BY RunSteps
  <1>2. s[m] = <<c, 2>> BY <1>1
  <1>3. m >= 2
    <2>1. m # 1 BY <1>1, <1>2
    <2> QED BY <1>1, <2>1
  <1>4. m - 1 \in 1 .. m - 1 /\ m - 1 \in 1 .. m /\ (m - 1) + 1 = m BY <1>1, <1>3
  <1>5. s[m - 1] = <<c, 1>>
    <2>1. s[m - 1] \in Op /\ s[m] = NextOp(s[m - 1]) BY <1>1, <1>4
    <2>2. s[m - 1] # Last(Parts(s[m - 1][1]))
      <3> SUFFICES ASSUME s[m - 1] = Last(Parts(s[m - 1][1])) PROVE FALSE
        OBVIOUS
      <3>1. s[m] = <<s[m - 1][1] + 1, 1>> BY <2>1, NextOpOf
      <3> QED BY <1>2, <3>1
    <2>3. s[m] = <<s[m - 1][1], 2>> BY <2>1, <2>2, NextOpOf
    <2>4. s[m - 1][1] = c BY <1>2, <2>3
    <2>5. Last(Parts(c)) = <<c, 2>>
      <3>1. s[m][1] = c BY <1>2
      <3> QED BY <1>1, <1>2, <3>1
    <2>6. s[m - 1] # <<c, 2>> BY <2>2, <2>4, <2>5
    <2> QED BY <2>1, <2>4, <2>6, OpPair
  <1>6. /\ t \in Seq(Op) /\ Len(t) = m - 2
        /\ \A i \in 1 .. m - 2 : t[i] = s[i]
        /\ Range(t) = {s[i] : i \in 1 .. m - 2}
    <2>1. 1 \in 1 .. m + 1 /\ m - 2 \in 0 .. m /\ 1 <= (m - 2) + 1 BY <1>1, <1>3
    <2>2. (m - 2) - 1 + 1 = m - 2 /\ \A i \in 1 .. m - 2 : 1 + i - 1 = i BY <1>1
    <2>3. /\ t \in Seq(Op) /\ Len(t) = (m - 2) - 1 + 1
          /\ \A i \in 1 .. (m - 2) - 1 + 1 : t[i] = s[1 + i - 1]
          /\ Range(t) = {s[i] : i \in 1 .. m - 2}
      BY <2>1, SubSeqOf
    <2> HIDE DEF t
    <2> QED BY <2>2, <2>3
  <1>7. Range(s) = Range(t) \cup {<<c, 1>>, <<c, 2>>}
    <2>1. Range(s) = {s[i] : i \in 1 .. m} BY RangeEquality
    <2>2. 1 .. m = (1 .. m - 2) \cup {m - 1, m} BY <1>1, <1>3
    <2> HIDE DEF m, t
    <2>3. Range(s) = {s[i] : i \in (1 .. m - 2) \cup {m - 1, m}} BY <2>1, <2>2
    <2>4. \A x : x \in Range(s) <=> x \in {s[i] : i \in 1 .. m - 2} \/ x = s[m - 1] \/ x = s[m]
      BY <2>3
    <2> QED BY <1>2, <1>5, <1>6, <2>4
  <1> HIDE DEF m, t
  <1>8. CASE m = 2
    <2>1. t = <<>> BY <1>6, <1>8, EmptySeq
    <2>2. c = p BY <1>1, <1>5, <1>8
    <2> QED BY <1>6, <1>7, <2>1, <2>2 DEF IsRun, m, t
  <1>9. CASE m > 2
    <2>1. t # <<>> /\ Last(t) = t[m - 2] /\ m - 2 \in 1 .. m - 2
      <3>1. t # <<>> BY <1>1, <1>6, <1>9, EmptySeq
      <3> QED BY <1>1, <1>6, <1>9, <3>1, LastOf
    <2>2. IsStart(p, t)
      <3>1. t[1] = <<p, 1>> BY <1>1, <1>6, <1>9
      <3>2. ASSUME NEW i \in 1 .. (m - 2) - 1 PROVE t[i + 1] = NextOp(t[i])
        <4>1. i \in 1 .. m - 2 /\ i + 1 \in 1 .. m - 2 /\ i \in 1 .. m - 1 BY <1>1
        <4> QED BY <1>1, <1>6, <4>1
      <3> QED BY <1>6, <3>1, <3>2 DEF IsStart
    <2>3. t[m - 2] = s[m - 2] BY <1>6, <2>1
    <2>4. s[m - 2] \in Op /\ NextOp(s[m - 2]) = <<c, 1>>
      <3>1. m - 2 \in 1 .. m - 1 /\ m - 2 \in 1 .. m /\ (m - 2) + 1 = m - 1 BY <1>1, <2>1
      <3> QED BY <1>1, <1>5, <3>1
    <2>5. s[m - 2] = Last(Parts(s[m - 2][1]))
      <3> SUFFICES ASSUME s[m - 2] # Last(Parts(s[m - 2][1])) PROVE FALSE
        OBVIOUS
      <3>1. <<c, 1>> = <<s[m - 2][1], 2>> BY <2>4, NextOpOf
      <3> QED BY <3>1
    <2>6. c = s[m - 2][1] + 1
      <3>1. <<c, 1>> = <<s[m - 2][1] + 1, 1>> BY <2>4, <2>5, NextOpOf
      <3> QED BY <3>1
    <2>7. IsRun(p, t) BY <2>1, <2>2, <2>3, <2>5, StartIsRun
    <2>8. c = Last(t)[1] + 1 BY <2>1, <2>3, <2>6
    <2> QED BY <1>6, <1>7, <2>1, <2>7, <2>8 DEF m, t
  <1> QED BY <1>1, <1>3, <1>8, <1>9

(* Where a run is split.                                                   *)
FirstFrom(s, a) == Min({i \in 1 .. Len(s) : s[i][1] >= a} \cup {Len(s) + 1})

(* A run split at an address within it is two runs.                        *)
LEMMA RunSplits ==
  ASSUME NEW p \in Addr, NEW s \in Seq(Op), IsRun(p, s), s # <<>>,
         NEW a \in Addr, p < a, a <= Last(s)[1]
  PROVE  LET before == SubSeq(s, 1, FirstFrom(s, a) - 1)
             after == SubSeq(s, FirstFrom(s, a), Len(s))
         IN  /\ before \in Seq(Op) /\ IsRun(p, before) /\ before # <<>> /\ Last(before)[1] + 1 = a
             /\ after \in Seq(Op) /\ IsRun(a, after) /\ after # <<>> /\ Last(after) = Last(s)
             /\ Range(s) = Range(before) \cup Range(after)
  <1> DEFINE m == Len(s)
             k == FirstFrom(s, a)
             before == SubSeq(s, 1, k - 1)
             after == SubSeq(s, k, m)
             From == {i \in 1 .. m : s[i][1] >= a}
  <1>1. /\ m \in Nat \ {0} /\ \A i \in 1 .. m : s[i] \in Op /\ s[i][1] \in Int
        /\ s[1] = <<p, 1>> /\ \A i \in 1 .. m - 1 : s[i + 1] = NextOp(s[i])
        /\ Last(s) = s[m] /\ s[m] = Last(Parts(s[m][1]))
    BY RunSteps, OpPair, Bounds
  <1>2. m \in From BY <1>1, Bounds
  <1>3. k \in From /\ \A i \in From : k <= i
    <2>1. From \cup {m + 1} \in SUBSET Nat /\ From \cup {m + 1} # {} BY <1>1
    <2>2. k = Min(From \cup {m + 1}) BY DEF FirstFrom
    <2> HIDE DEF From, k
    <2>3. k \in From \cup {m + 1} /\ \A i \in From \cup {m + 1} : k <= i BY <2>1, <2>2, LeastIsMin
    <2>4. k <= m BY <1>2, <2>3
    <2>5. k # m + 1 BY <1>1, <2>4
    <2> QED BY <2>3, <2>5
  <1>4. k \in 2 .. m
    <2>1. s[1][1] = p BY <1>1
    <2>2. k \in 1 .. m /\ k # 1
      <3>1. s[k][1] >= a /\ k \in 1 .. m BY <1>3
      <3> HIDE DEF k
      <3> QED BY <2>1, <3>1, Bounds
    <2> HIDE DEF k
    <2> QED BY <1>1, <2>2
  <1> HIDE DEF k, m
  <1>5. k - 1 \in 1 .. m - 1 /\ k - 1 \in 1 .. m /\ (k - 1) + 1 = k /\ k \in 1 .. m BY <1>1, <1>4
  <1>6. s[k - 1] = Last(Parts(s[k - 1][1])) /\ s[k - 1][1] = a - 1 /\ s[k] = <<a, 1>>
    <2>1. s[k - 1] \in Op /\ s[k] \in Op /\ s[k] = NextOp(s[k - 1]) BY <1>1, <1>5
    <2>2. s[k][1] >= a /\ s[k - 1][1] < a
      <3>1. k - 1 \notin From BY <1>1, <1>3, <1>5
      <3> QED BY <1>1, <1>3, <1>5, <3>1, Bounds
    <2>3. s[k - 1] = Last(Parts(s[k - 1][1]))
      <3> SUFFICES ASSUME s[k - 1] # Last(Parts(s[k - 1][1])) PROVE FALSE
        OBVIOUS
      <3>1. s[k] = <<s[k - 1][1], 2>> BY <2>1, NextOpOf
      <3>2. s[k][1] = s[k - 1][1] BY <3>1
      <3> QED BY <1>1, <1>5, <2>2, <3>2, Bounds
    <2>4. s[k] = <<s[k - 1][1] + 1, 1>> BY <2>1, <2>3, NextOpOf
    <2>5. s[k][1] = s[k - 1][1] + 1 /\ s[k - 1][1] \in Int BY <1>1, <1>5, <2>4
    <2>6. s[k][1] = a /\ s[k - 1][1] = a - 1 BY <2>2, <2>5, Bounds
    <2> QED BY <2>3, <2>4, <2>5, <2>6
  <1>7. /\ before \in Seq(Op) /\ Len(before) = k - 1
        /\ \A i \in 1 .. k - 1 : before[i] = s[i]
        /\ Range(before) = {s[i] : i \in 1 .. k - 1}
    <2>1. 1 \in 1 .. m + 1 /\ k - 1 \in 0 .. m /\ 1 <= (k - 1) + 1 BY <1>1, <1>4
    <2>2. (k - 1) - 1 + 1 = k - 1 /\ \A i \in 1 .. k - 1 : 1 + i - 1 = i BY <1>1, <1>4
    <2> QED BY <2>1, <2>2, SubSeqOf DEF m
  <1>8. /\ after \in Seq(Op) /\ Len(after) = m - k + 1
        /\ \A i \in 1 .. m - k + 1 : after[i] = s[k + i - 1]
        /\ Range(after) = {s[i] : i \in k .. m}
    <2>1. k \in 1 .. m + 1 /\ m \in 0 .. m /\ k <= m + 1 BY <1>1, <1>4
    <2> QED BY <2>1, SubSeqOf DEF m
  <1> HIDE DEF before, after
  <1>9. Range(s) = Range(before) \cup Range(after)
    <2>1. Range(s) = {s[i] : i \in 1 .. m} BY RangeEquality DEF m
    <2>2. 1 .. m = (1 .. k - 1) \cup (k .. m) BY <1>1, <1>4
    <2> QED BY <1>7, <1>8, <2>1, <2>2
  <1>10. before # <<>> /\ Last(before) = s[k - 1]
    <2>1. before # <<>> BY <1>4, <1>7, EmptySeq
    <2>2. Last(before) = before[k - 1] BY <1>7, <2>1, LastOf
    <2>3. k - 1 \in 1 .. k - 1 BY <1>5
    <2> QED BY <1>7, <2>1, <2>2, <2>3
  <1>11. IsRun(p, before)
    <2>1. before[1] = <<p, 1>>
      <3>1. 1 \in 1 .. k - 1 BY <1>5
      <3> QED BY <1>1, <1>7, <3>1
    <2>2. ASSUME NEW i \in 1 .. (k - 1) - 1 PROVE before[i + 1] = NextOp(before[i])
      <3>1. i \in 1 .. k - 1 /\ i + 1 \in 1 .. k - 1 /\ i \in 1 .. m - 1 BY <1>1, <1>4
      <3> QED BY <1>1, <1>7, <3>1
    <2>3. IsStart(p, before) BY <1>7, <2>1, <2>2 DEF IsStart
    <2> QED BY <1>6, <1>10, <2>3, StartIsRun
  <1>12. after # <<>> /\ Last(after) = Last(s)
    <2>1. m - k + 1 \in 1 .. m - k + 1 /\ k + (m - k + 1) - 1 = m BY <1>1, <1>4
    <2>2. after # <<>> BY <1>8, <2>1, EmptySeq
    <2>3. Last(after) = after[m - k + 1] BY <1>8, <2>2, LastOf
    <2> QED BY <1>1, <1>8, <2>1, <2>2, <2>3
  <1>13. IsRun(a, after)
    <2>1. after[1] = <<a, 1>>
      <3>1. 1 \in 1 .. m - k + 1 /\ k + 1 - 1 = k BY <1>1, <1>4
      <3> QED BY <1>6, <1>8, <3>1
    <2>2. ASSUME NEW i \in 1 .. (m - k + 1) - 1 PROVE after[i + 1] = NextOp(after[i])
      <3>1. i \in 1 .. m - k + 1 /\ i + 1 \in 1 .. m - k + 1 /\ k + i - 1 \in 1 .. m - 1
            /\ k + (i + 1) - 1 = (k + i - 1) + 1
        BY <1>1, <1>4
      <3> QED BY <1>1, <1>8, <3>1
    <2>3. IsStart(a, after) BY <1>8, <2>1, <2>2 DEF IsStart
    <2> QED BY <1>1, <1>12, <2>3, StartIsRun
  <1>14. Last(before)[1] + 1 = a BY <1>6, <1>10, Bounds
  <1> QED BY <1>7, <1>8, <1>9, <1>10, <1>11, <1>12, <1>13, <1>14 DEF before, after, k, m

-----------------------------------------------------------------------------
(* Bodies.                                                                 *)

Body ==
    [root : BOOLEAN, tree : Seq(Addr \cup {Exit}), ops : [Addr -> Seq(Op)],
     ref : [Addr -> Addr \cup {Exit, None}], flip : SUBSET Addr,
     done : SUBSET (Addr \cup {Exit}), sin : [Op -> Int],
     map : [Addr \cup {Out} -> Addr \cup {Gap, None}],
     cur : Addr \cup {Exit, None}, last : Op \cup {NoOp}, broken : BOOLEAN]

(* The operations in the paths.                                            *)
Contents(b) == UNION {Range(b.ops[p]) : p \in Addr}

(* The address behind the last instruction of a path.                      *)
EndOf(b, p) == IF b.ops[p] = <<>> THEN p ELSE Last(b.ops[p])[1] + 1

Ordered(tree) ==
    \A i, j \in 1 .. Len(tree) : i < j => tree[i] # Exit /\ (tree[j] = Exit \/ tree[i] < tree[j])

(* The paths in the tree are runs that do not overlap; the others are      *)
(* empty; a jump refers to a path in the tree.                             *)
Tiled(b) ==
    /\ Ordered(b.tree)
    /\ \A p \in Addr : IF p \in Paths(b) THEN IsRun(p, b.ops[p]) ELSE b.ops[p] = <<>>
    /\ \A p, q \in Paths(b) : p < q => EndOf(b, p) <= q
    /\ \A a \in Addr : b.ref[a] \in Range(b.tree) \cup {None}

(* Something is known to begin, or nothing, where the path ends.           *)
Closed(b, p) == b.ops[p] # <<>> => EndOf(b, p) = Out \/ b.map[EndOf(b, p)] # None

(* While the body is generated: the map names the paths, an entry without  *)
(* a path stands behind a jump, and only the current path has an open end. *)
Mapped(b) ==
    /\ b.cur \in Paths(b) \cup {None}
    /\ \A a \in Addr : IF a \in Paths(b) THEN b.map[a] = a ELSE b.map[a] \in {None, Gap}
    /\ b.map[Out] \in {None, Gap}
    /\ \A k \in Addr \cup {Out} : b.map[k] = Gap =>
          \E p \in Paths(b) :
             p # b.cur /\ b.ops[p] # <<>> /\ EndOf(b, p) = k
    /\ \A p \in Paths(b) \ {b.cur} : Closed(b, p)

LEMMA BodyFields ==
  ASSUME NEW b \in Body
  PROVE  /\ b.tree \in Seq(Addr \cup {Exit})
         /\ b.ops \in [Addr -> Seq(Op)]
         /\ b.map \in [Addr \cup {Out} -> Addr \cup {Gap, None}]
         /\ b.ref \in [Addr -> Addr \cup {Exit, None}]
         /\ Paths(b) \subseteq Addr
         /\ Range(b.tree) = Paths(b) \cup (Range(b.tree) \cap {Exit})
         /\ \A p \in Addr : OpsOf(b, p) = b.ops[p] /\ b.ops[p] \in Seq(Op)
  <1>1. b.tree \in Seq(Addr \cup {Exit}) BY DEF Body
  <1>2. Range(b.tree) \subseteq Addr \cup {Exit} BY <1>1, RangeFacts
  <1>3. b.ops \in [Addr -> Seq(Op)] /\ b.map \in [Addr \cup {Out} -> Addr \cup {Gap, None}]
        /\ b.ref \in [Addr -> Addr \cup {Exit, None}]
    BY DEF Body
  <1> QED BY <1>1, <1>2, <1>3 DEF Paths, OpsOf

LEMMA EndOfBounds ==
  ASSUME NEW b \in Body, Tiled(b), NEW p \in Paths(b)
  PROVE  /\ p \in Addr /\ EndOf(b, p) \in p .. Out
         /\ b.ops[p] # <<>> => /\ p < EndOf(b, p)
                               /\ Last(b.ops[p]) \in Op /\ Last(b.ops[p])[1] \in Addr
                               /\ EndOf(b, p) = Last(b.ops[p])[1] + 1
  <1>1. p \in Addr /\ b.ops[p] \in Seq(Op) /\ IsRun(p, b.ops[p]) BY BodyFields DEF Tiled
  <1>2. CASE b.ops[p] = <<>> BY <1>1, <1>2, Bounds DEF EndOf
  <1>3. CASE b.ops[p] # <<>>
    <2>1. Last(b.ops[p]) \in Op /\ Last(b.ops[p])[1] \in Addr /\ p <= Last(b.ops[p])[1]
      BY <1>1, <1>3, RunLiesWithin
    <2> QED BY <1>1, <1>3, <2>1, Bounds DEF EndOf
  <1> QED BY <1>2, <1>3

(* The entry an address falls into is the nearest one.                     *)
LEMMA WithinIs ==
  ASSUME NEW b \in Body, NEW a \in Addr
  PROVE  \/ Within(b, a) = None /\ \A k \in 1 .. a : b.map[k] = None
         \/ \E k \in 1 .. a : /\ Within(b, a) = b.map[k] /\ b.map[k] # None
                              /\ \A h \in 1 .. a : b.map[h] # None => h <= k
  <1>1. a \in Nat /\ Below(b, a) \in SUBSET (0 .. a) BY Bounds DEF Below
  <1>2. CASE Below(b, a) = {} BY <1>2 DEF Within, Below
  <1>3. CASE Below(b, a) # {}
    <2>1. Max(Below(b, a)) \in Below(b, a) /\ \A y \in Below(b, a) : Max(Below(b, a)) >= y
      BY <1>1, <1>3, GreatestIsMax
    <2>2. Within(b, a) = b.map[Max(Below(b, a))] BY <1>3 DEF Within
    <2> DEFINE k == Max(Below(b, a))
    <2> HIDE DEF k
    <2>3. k \in Below(b, a) /\ \A y \in Below(b, a) : k >= y BY <2>1 DEF k
    <2>4. k \in 1 .. a /\ b.map[k] # None BY <2>3 DEF Below
    <2>5. ASSUME NEW h \in 1 .. a, b.map[h] # None PROVE h <= k
      <3>1. h \in Below(b, a) BY <2>5 DEF Below
      <3>2. k >= h BY <2>3, <3>1
      <3> QED BY <2>4, <3>2
    <2>6. Within(b, a) = b.map[k] BY <2>2 DEF k
    <2> QED BY <2>4, <2>5, <2>6
  <1> QED BY <1>2, <1>3

(* The current path ends where the next instruction goes.                  *)
CurEnds(b, e) == b.cur # None => EndOf(b, b.cur) = e

(* A path to be split really contains the address.                         *)
Splits(b, a, now) ==
    LET p == Within(b, a)
    IN  p \in Addr /\ OpsOf(b, p) # <<>> /\ (p = b.cur => a <= now)

LEMMA SplitIsInside ==
  ASSUME NEW b \in Body, Tiled(b), Mapped(b), NEW a \in Addr, NEW now \in Addr,
         CurEnds(b, now + 1), a \notin Paths(b), Splits(b, a, now)
  PROVE  LET p == Within(b, a) IN p \in Paths(b) /\ b.ops[p] # <<>> /\ p < a /\ a < EndOf(b, p)
  <1> DEFINE p == Within(b, a)
  <1>1. p \in Addr /\ b.ops[p] # <<>> /\ (p = b.cur => a <= now)
    BY BodyFields DEF Splits
  <1>2. PICK k \in 1 .. a : p = b.map[k] /\ \A h \in 1 .. a : b.map[h] # None => h <= k
    BY <1>1, WithinIs, Bounds
  <1> HIDE DEF p
  <1>3. k \in Addr BY Bounds
  <1>4. k \in Paths(b) /\ p = k
    <2>1. b.map[k] \notin {None, Gap} BY <1>1, <1>2, Bounds
    <2> QED BY <1>2, <1>3, <2>1 DEF Mapped
  <1>5. p < a BY <1>3, <1>4, Bounds
  <1>6. p < EndOf(b, p) /\ EndOf(b, p) \in p .. Out BY <1>1, <1>4, EndOfBounds
  <1>7. a < EndOf(b, p)
    <2>1. CASE p = b.cur
      <3>1. EndOf(b, p) = now + 1 BY <1>1, <2>1, Bounds DEF CurEnds
      <3> QED BY <1>1, <2>1, <3>1, Bounds
    <2>2. CASE p # b.cur
      <3> SUFFICES ASSUME EndOf(b, p) <= a PROVE FALSE
        BY <1>6, Bounds
      <3>1. EndOf(b, p) \in 1 .. a /\ EndOf(b, p) # Out BY <1>1, <1>6, Bounds
      <3>2. b.map[EndOf(b, p)] # None BY <1>1, <1>4, <2>2, <3>1 DEF Mapped, Closed
      <3>3. EndOf(b, p) <= k BY <1>2, <3>1, <3>2
      <3> QED BY <1>3, <1>4, <1>6, <3>3, Bounds
    <2> QED BY <2>1, <2>2
  <1> QED BY <1>1, <1>4, <1>5, <1>7 DEF p

(* Where no path is to be split, none contains the address.                *)
LEMMA NoneInside ==
  ASSUME NEW b \in Body, Tiled(b), Mapped(b), NEW a \in Addr, NEW now \in Addr,
         CurEnds(b, now + 1), a \notin Paths(b), ~Splits(b, a, now)
  PROVE  \A q \in Paths(b) : q < a => EndOf(b, q) <= a
  <1> SUFFICES ASSUME NEW q \in Paths(b), q < a PROVE EndOf(b, q) <= a
    OBVIOUS
  <1>1. /\ q \in Addr /\ \A r \in Paths(b) : r \in Addr /\ b.map[r] = r /\ r # None
    BY BodyFields, Bounds DEF Mapped
  <1>2. q \in 1 .. a BY <1>1, Bounds
  <1>3. PICK k \in 1 .. a : /\ Within(b, a) = b.map[k] /\ b.map[k] # None
                            /\ \A h \in 1 .. a : b.map[h] # None => h <= k
    BY <1>1, <1>2, WithinIs
  <1>4. k \in Addr /\ q <= k BY <1>1, <1>2, <1>3, Bounds
  <1>5. \A r, t \in Paths(b) : r < t => EndOf(b, r) <= t BY DEF Tiled
  <1>6. \A r \in Paths(b) : EndOf(b, r) \in r .. Out BY EndOfBounds
  <1>7. CASE k \in Paths(b)
    <2>1. Within(b, a) = k /\ k < a BY <1>1, <1>3, <1>4, <1>7, Bounds
    <2>2. CASE q < k
      <3>1. EndOf(b, q) <= k BY <1>5, <1>7, <2>2
      <3> QED BY <1>1, <1>4, <1>6, <2>1, <3>1, Bounds
    <2>3. CASE q = k
      <3>1. OpsOf(b, k) = <<>> \/ (k = b.cur /\ ~(a <= now)) BY <1>4, <2>1 DEF Splits
      <3>2. CASE OpsOf(b, k) = <<>>
        <4>1. EndOf(b, k) = k BY <1>4, <3>2, BodyFields DEF EndOf
        <4> QED BY <2>1, <2>3, <4>1, Bounds
      <3>3. CASE k = b.cur /\ ~(a <= now)
        <4>1. EndOf(b, k) = now + 1 BY <1>4, <3>3, Bounds DEF CurEnds
        <4> QED BY <2>3, <3>3, <4>1, Bounds
      <3> QED BY <3>1, <3>2, <3>3
    <2> QED BY <1>1, <1>4, <2>2, <2>3, Bounds
  <1>8. CASE k \notin Paths(b)
    <2>1. b.map[k] = Gap BY <1>3, <1>4, <1>8 DEF Mapped
    <2>2. PICK r \in Paths(b) : b.ops[r] # <<>> /\ EndOf(b, r) = k BY <1>4, <2>1 DEF Mapped
    <2>3. r < k /\ r \in Addr BY <2>2, EndOfBounds
    <2>4. q # k BY <1>8
    <2>5. CASE q < r
      <3>1. EndOf(b, q) <= r BY <1>5, <2>5
      <3> QED BY <1>1, <1>4, <1>6, <2>3, <3>1, Bounds
    <2>6. CASE q = r BY <1>4, <2>2, <2>6, Bounds
    <2>7. CASE r < q
      <3>1. k <= q BY <1>5, <2>2, <2>7
      <3> QED BY <1>1, <1>4, <2>4, <3>1, Bounds
    <2> QED BY <1>1, <2>3, <2>5, <2>6, <2>7, Bounds
  <1> QED BY <1>7, <1>8

-----------------------------------------------------------------------------
(* A path registered.                                                      *)

LEMMA InsertedInOrder ==
  ASSUME NEW s \in Seq(Addr \cup {Exit}), Ordered(s), NEW a \in Addr, NEW k \in 1 .. Len(s) + 1,
         \A i \in 1 .. Len(s) : i < k => s[i] # Exit /\ s[i] < a,
         \A i \in 1 .. Len(s) : i >= k => s[i] = Exit \/ a < s[i]
  PROVE  /\ Ordered(InsertAt(s, k, a))
         /\ InsertAt(s, k, a) \in Seq(Addr \cup {Exit})
         /\ Range(InsertAt(s, k, a)) = Range(s) \cup {a}
  <1> DEFINE t == InsertAt(s, k, a)
  <1>1. /\ t \in Seq(Addr \cup {Exit}) /\ Len(t) = Len(s) + 1
        /\ \A i \in 1 .. Len(s) + 1 : t[i] = IF i < k THEN s[i] ELSE IF i = k THEN a ELSE s[i - 1]
        /\ Range(t) = Range(s) \cup {a}
    <2> DEFINE S == Addr \cup {Exit}
    <2>1. a \in S /\ s \in Seq(S) OBVIOUS
    <2> HIDE DEF S
    <2>2. /\ InsertAt(s, k, a) \in Seq(S) /\ Len(InsertAt(s, k, a)) = Len(s) + 1
          /\ \A i \in 1 .. Len(s) + 1 : InsertAt(s, k, a)[i] =
                IF i < k THEN s[i] ELSE IF i = k THEN a ELSE s[i - 1]
          /\ Range(InsertAt(s, k, a)) = Range(s) \cup {a}
      BY <2>1, InsertedAt
    <2> QED BY <2>2 DEF S
  <1>2. Len(s) \in Nat OBVIOUS
  <1> HIDE DEF t
  <1>3. ASSUME NEW i \in 1 .. Len(t), NEW j \in 1 .. Len(t), i < j
        PROVE  t[i] # Exit /\ (t[j] = Exit \/ t[i] < t[j])
    <2>1. CASE j < k
      <3>1. i < k /\ i \in 1 .. Len(s) /\ j \in 1 .. Len(s) BY <1>1, <1>2, <1>3, <2>1
      <3>2. t[i] = s[i] /\ t[j] = s[j] BY <1>1, <1>3, <2>1, <3>1
      <3> QED BY <1>3, <3>1, <3>2 DEF Ordered
    <2>2. CASE j = k
      <3>1. i < k /\ i \in 1 .. Len(s) BY <1>1, <1>2, <1>3, <2>2
      <3>2. t[i] = s[i] /\ t[j] = a BY <1>1, <2>2, <3>1
      <3> QED BY <3>1, <3>2
    <2>3. CASE j > k /\ i < k
      <3>1. i \in 1 .. Len(s) /\ j - 1 \in 1 .. Len(s) /\ i < j - 1 BY <1>1, <1>2, <2>3
      <3>2. t[i] = s[i] /\ t[j] = s[j - 1] BY <1>1, <1>2, <2>3, <3>1
      <3> QED BY <3>1, <3>2 DEF Ordered
    <2>4. CASE j > k /\ i = k
      <3>1. j - 1 \in 1 .. Len(s) /\ j - 1 >= k BY <1>1, <1>2, <2>4
      <3>2. t[i] = a /\ t[j] = s[j - 1] BY <1>1, <1>2, <2>4, <3>1
      <3> QED BY <3>1, <3>2, Bounds
    <2>5. CASE i > k
      <3>1. i - 1 \in 1 .. Len(s) /\ j - 1 \in 1 .. Len(s) /\ i - 1 < j - 1 BY <1>1, <1>2, <1>3, <2>5
      <3>2. t[i] = s[i - 1] /\ t[j] = s[j - 1] BY <1>1, <1>2, <1>3, <2>5, <3>1
      <3> QED BY <3>1, <3>2 DEF Ordered
    <2> QED BY <1>1, <1>2, <1>3, <2>1, <2>2, <2>3, <2>4, <2>5
  <1> QED BY <1>1, <1>3 DEF Ordered, t

(* What registering a path leaves alone.                                   *)
SameRest(b, c) ==
    /\ c.root = b.root /\ c.ref = b.ref /\ c.flip = b.flip /\ c.sin = b.sin
    /\ c.last = b.last /\ c.broken = b.broken

(* The current path is what it was, or the end of it.                      *)
SameEnd(b, c) ==
    IF b.cur = None THEN c.cur = None
    ELSE /\ c.cur # None
         /\ EndOf(c, c.cur) = EndOf(b, b.cur)
         /\ b.ops[b.cur] # <<>> => c.ops[c.cur] # <<>> /\ Last(c.ops[c.cur]) = Last(b.ops[b.cur])

LEMMA SplitFields ==
  ASSUME NEW b \in Body, NEW p \in Addr, NEW a \in Addr
  PROVE  LET c == SplitPath(b, p, a)
             k == FirstFrom(b.ops[p], a)
             before == SubSeq(b.ops[p], 1, k - 1)
             after == SubSeq(b.ops[p], k, Len(b.ops[p]))
         IN  /\ c = [b EXCEPT !.tree = InsertAt(b.tree, Place(b.tree, p) + 1, a),
                              !.ops = [b.ops EXCEPT ![p] = before, ![a] = after],
                              !.done = IF p \in b.done THEN b.done \cup {a} ELSE b.done,
                              !.map = [b.map EXCEPT ![a] = a],
                              !.cur = IF b.cur = p THEN a ELSE b.cur]
             /\ c.tree = InsertAt(b.tree, Place(b.tree, p) + 1, a)
             /\ c.ops = [b.ops EXCEPT ![p] = before, ![a] = after]
             /\ c.map = [b.map EXCEPT ![a] = a]
             /\ c.cur = IF b.cur = p THEN a ELSE b.cur
             /\ SameRest(b, c)
  <1> DEFINE c == SplitPath(b, p, a)
             k == FirstFrom(b.ops[p], a)
             before == SubSeq(b.ops[p], 1, k - 1)
             after == SubSeq(b.ops[p], k, Len(b.ops[p]))
             tree == InsertAt(b.tree, Place(b.tree, p) + 1, a)
             ops == [b.ops EXCEPT ![p] = before, ![a] = after]
             done == IF p \in b.done THEN b.done \cup {a} ELSE b.done
             map == [b.map EXCEPT ![a] = a]
             cur == IF b.cur = p THEN a ELSE b.cur
             d == [b EXCEPT !.tree = tree, !.ops = ops, !.done = done, !.map = map, !.cur = cur]
  <1>1. c = d
    <2>1. c = [b EXCEPT !.tree = tree, !.ops[p] = before, !.ops[a] = after,
                        !.done = done, !.map[a] = a, !.cur = cur]
      BY DEF SplitPath, FirstFrom
    <2> HIDE DEF c, tree, before, after, done, cur
    <2> QED BY <2>1 DEF Body
  <1>2. /\ d.tree = tree /\ d.ops = ops /\ d.map = map /\ d.cur = cur
        /\ d.root = b.root /\ d.ref = b.ref /\ d.flip = b.flip /\ d.sin = b.sin
        /\ d.last = b.last /\ d.broken = b.broken
    <2> HIDE DEF tree, ops, done, map, cur
    <2> QED BY DEF Body
  <1> HIDE DEF c, d
  <1>3. SameRest(b, c) BY <1>1, <1>2 DEF SameRest
  <1>4. c.tree = tree /\ c.ops = ops /\ c.map = map /\ c.cur = cur BY <1>1, <1>2
  <1> QED BY <1>1, <1>3, <1>4 DEF c, d

(* A body with a path more, in the tree and in the map, with the same      *)
(* operations in it.                                                       *)
Registers(b, a, c) ==
    /\ c \in Body /\ Tiled(c) /\ Mapped(c)
    /\ SameRest(b, c) /\ SameEnd(b, c)
    /\ Contents(c) = Contents(b)
    /\ Paths(c) = Paths(b) \cup {a}
    /\ Range(c.tree) = Range(b.tree) \cup {a}

LEMMA SplitKeeps ==
  ASSUME NEW b \in Body, Tiled(b), Mapped(b), NEW a \in Addr, a \notin Paths(b),
         NEW p \in Paths(b), b.ops[p] # <<>>, p < a, a < EndOf(b, p)
  PROVE  Registers(b, a, SplitPath(b, p, a))
  <1> DEFINE c == SplitPath(b, p, a)
             s == b.ops[p]
             before == SubSeq(s, 1, FirstFrom(s, a) - 1)
             after == SubSeq(s, FirstFrom(s, a), Len(s))
             place == Place(b.tree, p)
             k == place + 1
  <1>1. /\ p \in Addr /\ s \in Seq(Op) /\ IsRun(p, s) /\ s # <<>>
        /\ EndOf(b, p) = Last(s)[1] + 1 /\ Last(s)[1] \in Addr /\ EndOf(b, p) \in Addr \cup {Out}
        /\ p \in Int /\ a \in Int /\ EndOf(b, p) \in Int
    <2>1. p \in Addr /\ s \in Seq(Op) BY BodyFields
    <2>2. EndOf(b, p) = Last(s)[1] + 1 /\ Last(s)[1] \in Addr BY EndOfBounds
    <2>3. IsRun(p, s) BY <2>1 DEF Tiled
    <2> HIDE DEF s
    <2>4. EndOf(b, p) \in Addr \cup {Out} /\ p \in Int /\ a \in Int /\ EndOf(b, p) \in Int
      BY <2>1, <2>2, Bounds
    <2> QED BY <2>1, <2>2, <2>3, <2>4 DEF s
  <1>2. a <= Last(s)[1] BY <1>1, Bounds
  <1>3. /\ before \in Seq(Op) /\ IsRun(p, before) /\ before # <<>> /\ Last(before)[1] + 1 = a
        /\ after \in Seq(Op) /\ IsRun(a, after) /\ after # <<>> /\ Last(after) = Last(s)
        /\ Range(s) = Range(before) \cup Range(after)
    BY <1>1, <1>2, RunSplits
  <1>4. /\ c = [b EXCEPT !.tree = InsertAt(b.tree, k, a),
                         !.ops = [b.ops EXCEPT ![p] = before, ![a] = after],
                         !.done = IF p \in b.done THEN b.done \cup {a} ELSE b.done,
                         !.map = [b.map EXCEPT ![a] = a],
                         !.cur = IF b.cur = p THEN a ELSE b.cur]
        /\ c.tree = InsertAt(b.tree, k, a)
        /\ c.ops = [b.ops EXCEPT ![p] = before, ![a] = after]
        /\ c.map = [b.map EXCEPT ![a] = a]
        /\ c.cur = IF b.cur = p THEN a ELSE b.cur
        /\ SameRest(b, c)
    BY <1>1, SplitFields
  <1> HIDE DEF c, before, after, s
  <1>5. /\ b.tree \in Seq(Addr \cup {Exit}) /\ b.ops \in [Addr -> Seq(Op)]
        /\ b.map \in [Addr \cup {Out} -> Addr \cup {Gap, None}]
        /\ Paths(b) \subseteq Addr
    BY BodyFields
  <1>6. place \in 1 .. Len(b.tree) /\ b.tree[place] = p
    <2>1. p \in Range(b.tree) BY DEF Paths
    <2> QED BY <1>5, <2>1, PlaceOf
  <1> HIDE DEF place
  <1>7. k \in 1 .. Len(b.tree) + 1 BY <1>5, <1>6
  <1>8. /\ Ordered(c.tree) /\ c.tree \in Seq(Addr \cup {Exit})
        /\ Range(c.tree) = Range(b.tree) \cup {a}
    <2>1. ASSUME NEW i \in 1 .. Len(b.tree), i < k PROVE b.tree[i] # Exit /\ b.tree[i] < a
      <3>1. CASE i = place BY <1>1, <1>6, <3>1, Bounds
      <3>2. CASE i # place
        <4>1. i < place BY <1>6, <2>1, <3>2
        <4>2. b.tree[i] # Exit /\ b.tree[i] < p BY <1>1, <1>6, <4>1, Bounds DEF Tiled, Ordered
        <4>3. b.tree[i] \in Addr BY <1>5, <4>2
        <4> QED BY <1>1, <4>2, <4>3, Bounds
      <3> QED BY <3>1, <3>2
    <2>2. ASSUME NEW i \in 1 .. Len(b.tree), i >= k PROVE b.tree[i] = Exit \/ a < b.tree[i]
      <3> SUFFICES ASSUME b.tree[i] # Exit PROVE a < b.tree[i]
        OBVIOUS
      <3>1. place < i BY <1>6, <2>2
      <3>2. p < b.tree[i] BY <1>6, <3>1 DEF Tiled, Ordered
      <3>3. b.tree[i] \in Paths(b) BY <1>5, RangeFacts DEF Paths
      <3>4. EndOf(b, p) <= b.tree[i] BY <3>2, <3>3 DEF Tiled
      <3>5. b.tree[i] \in Int BY <1>5, <3>3, Bounds
      <3>6. a < EndOf(b, p) OBVIOUS
      <3> HIDE DEF k
      <3> QED BY <1>1, <3>4, <3>5, <3>6
    <2>3. Ordered(b.tree) BY DEF Tiled
    <2> HIDE DEF k
    <2> QED BY <1>4, <1>5, <1>7, <2>1, <2>2, <2>3, InsertedInOrder
  <1>9. Paths(c) = Paths(b) \cup {a} BY <1>8, Bounds DEF Paths
  <1>10. /\ c.ops \in [Addr -> Seq(Op)] /\ c.ops[p] = before /\ c.ops[a] = after
         /\ \A q \in Addr \ {p, a} : c.ops[q] = b.ops[q]
    <2>1. p # a BY <1>1
    <2>2. c.ops = [b.ops EXCEPT ![p] = before, ![a] = after] BY <1>4
    <2>3. [b.ops EXCEPT ![p] = before, ![a] = after] \in [Addr -> Seq(Op)] BY <1>3, <1>5
    <2>4. c.ops \in [Addr -> Seq(Op)] BY <2>2, <2>3
    <2>5. c.ops[p] = before /\ c.ops[a] = after /\ \A q \in Addr \ {p, a} : c.ops[q] = b.ops[q]
      BY <1>1, <1>5, <2>1, <2>2
    <2> QED BY <2>4, <2>5
  <1>11. /\ c.map \in [Addr \cup {Out} -> Addr \cup {Gap, None}] /\ c.map[a] = a
         /\ \A q \in (Addr \cup {Out}) \ {a} : c.map[q] = b.map[q]
    BY <1>4, <1>5
  <1>12. c \in Body
    <2>1. c.cur \in Addr \cup {Exit, None} BY <1>1, <1>4 DEF Body
    <2>2. a \in Addr \cup {Exit} /\ b.done \cup {a} \in SUBSET (Addr \cup {Exit}) BY DEF Body
    <2>3. InsertAt(b.tree, k, a) \in Seq(Addr \cup {Exit}) BY <1>4, <1>8
    <2>4. [b.ops EXCEPT ![p] = before, ![a] = after] \in [Addr -> Seq(Op)] BY <1>4, <1>10
    <2>5. [b.map EXCEPT ![a] = a] \in [Addr \cup {Out} -> Addr \cup {Gap, None}] BY <1>4, <1>11
    <2>6. (IF b.cur = p THEN a ELSE b.cur) \in Addr \cup {Exit, None} BY <1>4, <2>1
    <2>7. (IF p \in b.done THEN b.done \cup {a} ELSE b.done) \in SUBSET (Addr \cup {Exit})
      BY <2>2 DEF Body
    <2> HIDE DEF k
    <2> QED BY <1>4, <2>3, <2>4, <2>5, <2>6, <2>7 DEF Body
  <1>13. EndOf(c, p) = a /\ EndOf(c, a) = EndOf(b, p)
         /\ \A q \in Addr \ {p, a} : EndOf(c, q) = EndOf(b, q)
    BY <1>1, <1>3, <1>10 DEF EndOf, s
  <1>14. \A q, r \in Paths(b) : q < r => EndOf(b, q) <= r BY DEF Tiled
  <1>15. \A q \in Paths(b) : EndOf(b, q) \in q .. Out /\ q \in 1 .. N /\ q \in Int /\ EndOf(b, q) \in Int
    BY EndOfBounds, Bounds
  <1>16. Tiled(c)
    <2>1. ASSUME NEW q \in Addr
          PROVE  IF q \in Paths(c) THEN IsRun(q, c.ops[q]) ELSE c.ops[q] = <<>>
      <3>1. CASE q \in {p, a} BY <1>3, <1>9, <1>10, <3>1
      <3>2. CASE q \notin {p, a} BY <1>9, <1>10, <3>2 DEF Tiled
      <3> QED BY <3>1, <3>2
    <2>2. ASSUME NEW q \in Paths(c), NEW r \in Paths(c), q < r PROVE EndOf(c, q) <= r
      <3>1. CASE q = p
        <4>1. r = a \/ (r \in Paths(b) /\ r # a) BY <1>9
        <4>2. r \in Paths(b) /\ r # a => EndOf(b, p) <= r BY <1>14, <2>2, <3>1
        <4> QED BY <1>1, <1>13, <1>15, <3>1, <4>1, <4>2, Bounds
      <3>2. CASE q = a
        <4>1. r \in Paths(b) BY <1>1, <1>9, <2>2, <3>2
        <4>2. p < r BY <1>1, <1>15, <2>2, <3>2, <4>1
        <4> QED BY <1>13, <1>14, <3>2, <4>1, <4>2
      <3>3. CASE q \notin {p, a}
        <4>1. q \in Paths(b) /\ EndOf(c, q) = EndOf(b, q) BY <1>5, <1>9, <1>13, <3>3
        <4>2. CASE r = a
          <5>1. q < p
            <6>0. q \in Int /\ q # p BY <1>15, <3>3, <4>1
            <6> SUFFICES ASSUME p < q PROVE FALSE
              BY <1>1, <6>0
            <6>1. EndOf(b, p) <= q BY <1>14, <4>1
            <6>2. q < a /\ q \in Int BY <1>15, <2>2, <4>1, <4>2
            <6> QED BY <1>1, <6>1, <6>2
          <5>2. EndOf(b, q) <= p BY <1>14, <4>1, <5>1
          <5> QED BY <1>1, <1>15, <4>1, <4>2, <5>2, Bounds
        <4>3. CASE r # a BY <1>9, <1>14, <2>2, <4>1, <4>3
        <4> QED BY <4>2, <4>3
      <3> QED BY <3>1, <3>2, <3>3
    <2>3. \A q \in Addr : c.ref[q] \in Range(c.tree) \cup {None}
      BY <1>4, <1>8 DEF SameRest, Tiled
    <2> QED BY <1>8, <2>1, <2>2, <2>3 DEF Tiled
  <1>17. Mapped(c)
    <2>1. c.cur \in Paths(c) \cup {None} BY <1>4, <1>9 DEF Mapped
    <2>2. ASSUME NEW q \in Addr
          PROVE  IF q \in Paths(c) THEN c.map[q] = q ELSE c.map[q] \in {None, Gap}
      <3>1. CASE q = a BY <1>9, <1>11, <3>1
      <3>2. CASE q # a BY <1>9, <1>11, <3>2 DEF Mapped
      <3> QED BY <3>1, <3>2
    <2>3. c.map[Out] \in {None, Gap} BY <1>11, Bounds DEF Mapped
    <2>4. ASSUME NEW h \in Addr \cup {Out}, c.map[h] = Gap
          PROVE  \E q \in Paths(c) :
                    q # c.cur /\ c.ops[q] # <<>> /\ EndOf(c, q) = h
      <3>1. h # a BY <1>11, <2>4, Bounds
      <3>2. b.map[h] = Gap BY <1>11, <2>4, <3>1
      <3>3. PICK q \in Paths(b) :
                    q # b.cur /\ b.ops[q] # <<>> /\ EndOf(b, q) = h
        BY <3>2 DEF Mapped
      <3>4. CASE q = p
        <4>1. c.ops[a] # <<>> /\ EndOf(c, a) = h BY <1>3, <1>10, <1>13, <3>3, <3>4
        <4>2. a # c.cur
          <5>1. c.cur = b.cur /\ b.cur \in Paths(b) \cup {None} BY <1>4, <3>3, <3>4 DEF Mapped
          <5> QED BY <5>1, Bounds
        <4> QED BY <1>9, <4>1, <4>2
      <3>5. CASE q # p
        <4>1. q \in Addr \ {p, a} /\ q \in Paths(c) BY <1>5, <1>9, <3>3, <3>5
        <4>2. q # c.cur BY <1>4, <3>3, <4>1
        <4> QED BY <1>10, <1>13, <3>3, <4>1, <4>2
      <3> QED BY <3>4, <3>5
    <2>5. ASSUME NEW q \in Paths(c) \ {c.cur} PROVE Closed(c, q)
      <3>1. CASE q = p BY <1>11, <1>13, <3>1, Bounds DEF Closed
      <3>2. CASE q = a
        <4>1. p # b.cur BY <1>4, <2>5, <3>2
        <4>2. EndOf(b, p) = Out \/ b.map[EndOf(b, p)] # None BY <1>1, <4>1 DEF Mapped, Closed, s
        <4>3. EndOf(b, p) # a BY Bounds
        <4> QED BY <1>1, <1>11, <1>13, <3>2, <4>2, <4>3 DEF Closed
      <3>3. CASE q \notin {p, a}
        <4>1. q \in Paths(b) /\ q # b.cur /\ q \in Addr \ {p, a} BY <1>4, <1>5, <1>9, <2>5, <3>3
        <4>2. Closed(b, q) BY <4>1 DEF Mapped
        <4>3. c.ops[q] = b.ops[q] /\ EndOf(c, q) = EndOf(b, q) BY <1>10, <1>13, <4>1
        <4>4. EndOf(b, q) = Out \/ EndOf(b, q) \in Addr BY <1>15, <4>1, Bounds
        <4>5. EndOf(b, q) = a => c.map[EndOf(b, q)] # None BY <1>11, Bounds
        <4> QED BY <1>11, <4>2, <4>3, <4>4, <4>5 DEF Closed
      <3> QED BY <3>1, <3>2, <3>3
    <2> QED BY <2>1, <2>2, <2>3, <2>4, <2>5 DEF Mapped
  <1>18. Contents(c) = Contents(b)
    <2>1. ASSUME NEW o PROVE o \in Contents(c) <=> o \in Contents(b)
      <3>1. o \in Contents(c) <=> \E q \in Addr : o \in Range(c.ops[q]) BY DEF Contents
      <3>2. o \in Contents(b) <=> \E q \in Addr : o \in Range(b.ops[q]) BY DEF Contents
      <3>3. b.ops[a] = <<>> /\ Range(b.ops[a]) = {}
        <4>1. b.ops[a] = <<>> BY DEF Tiled
        <4>2. Range(<<>>) = {} BY DEF Range
        <4> QED BY <4>1, <4>2
      <3>4. (o \in Range(c.ops[p]) \/ o \in Range(c.ops[a])) <=> o \in Range(b.ops[p])
        BY <1>3, <1>10 DEF s
      <3>5. \A q \in Addr \ {p, a} : o \in Range(c.ops[q]) <=> o \in Range(b.ops[q]) BY <1>10
      <3> QED BY <1>1, <3>1, <3>2, <3>3, <3>4, <3>5
    <2> QED BY <2>1
  <1>19. SameEnd(b, c)
    <2>1. CASE b.cur = None BY <1>1, <1>4, <2>1, Bounds DEF SameEnd
    <2>2. CASE b.cur = p
      <3>1. c.cur = a /\ a # None /\ p # None BY <1>1, <1>4, <2>2, Bounds
      <3> QED BY <1>3, <1>10, <1>13, <2>2, <3>1 DEF SameEnd, s
    <2>3. CASE b.cur \notin {None, p}
      <3>1. b.cur \in Addr \ {p, a} /\ c.cur = b.cur BY <1>4, <1>5, <2>3 DEF Mapped
      <3> QED BY <1>10, <1>13, <2>3, <3>1 DEF SameEnd
    <2> QED BY <2>1, <2>2, <2>3
  <1> QED BY <1>4, <1>8, <1>9, <1>12, <1>16, <1>17, <1>18, <1>19 DEF Registers, c

(* The path before which a new one is inserted is the first one above.     *)
LEMMA InsertPlace ==
  ASSUME NEW b \in Body, Tiled(b), Mapped(b), NEW a \in Addr, a \notin Paths(b),
         \A q \in Paths(b) : q < a => EndOf(b, q) <= a
  PROVE  \E k \in 1 .. Len(b.tree) + 1 :
            /\ InsertPathBefore(b, a) = [b EXCEPT !.tree = InsertAt(b.tree, k, a),
                                                  !.map = [b.map EXCEPT ![a] = a]]
            /\ \A i \in 1 .. Len(b.tree) : i < k => b.tree[i] # Exit /\ b.tree[i] < a
            /\ \A i \in 1 .. Len(b.tree) : i >= k => b.tree[i] = Exit \/ a < b.tree[i]
  <1> DEFINE above == {k \in a + 1 .. N : b.map[k] # None}
             next == IF above = {} THEN Gap ELSE b.map[Min(above)]
             at == IF next # Gap THEN Place(b.tree, next)
                   ELSE IF Exit \in Range(b.tree) THEN Len(b.tree) ELSE Len(b.tree) + 1
             n == Len(b.tree)
  <1>1. InsertPathBefore(b, a) = [b EXCEPT !.tree = InsertAt(b.tree, at, a),
                                           !.map = [b.map EXCEPT ![a] = a]]
    BY DEF InsertPathBefore, Body
  <1>2. b.tree \in Seq(Addr \cup {Exit}) /\ n \in Nat /\ Paths(b) \subseteq Addr /\ a \in Int /\ a \in 1 .. N
    BY BodyFields, Bounds
  <1>3. \A i \in 1 .. n : b.tree[i] # Exit =>
           /\ b.tree[i] \in Paths(b) /\ b.tree[i] \in Int /\ b.tree[i] # a
           /\ a < b.tree[i] => b.tree[i] \in above
    <2> SUFFICES ASSUME NEW i \in 1 .. n, b.tree[i] # Exit
                 PROVE  /\ b.tree[i] \in Paths(b) /\ b.tree[i] \in Int /\ b.tree[i] # a
                        /\ a < b.tree[i] => b.tree[i] \in above
      OBVIOUS
    <2>1. b.tree[i] \in Paths(b) BY <1>2, RangeFacts DEF Paths
    <2>2. b.map[b.tree[i]] # None BY <1>2, <2>1, Bounds DEF Mapped
    <2> QED BY <1>2, <2>1, <2>2, Bounds
  <1>4. \A i, j \in 1 .. n : i < j => b.tree[i] # Exit /\ (b.tree[j] = Exit \/ b.tree[i] < b.tree[j])
    BY DEF Tiled, Ordered
  <1> HIDE DEF n
  <1>5. CASE above = {}
    <2>1. at = IF Exit \in Range(b.tree) THEN n ELSE n + 1 BY <1>5 DEF n
    <2> HIDE DEF at, above
    <2>2. \A i \in 1 .. n : b.tree[i] # Exit => b.tree[i] < a
      BY <1>2, <1>3, <1>5
    <2>3. CASE Exit \in Range(b.tree)
      <3>1. PICK j \in 1 .. n : b.tree[j] = Exit BY <1>2, <2>3, RangeFacts DEF n
      <3>2. j = n
        <4> SUFFICES ASSUME j # n PROVE FALSE
          OBVIOUS
        <4>1. j < n /\ n \in 1 .. n BY <1>2, <3>1
        <4> QED BY <1>4, <3>1, <4>1
      <3>3. \A i \in 1 .. n : i < n => b.tree[i] # Exit BY <1>2, <1>4
      <3>4. n \in 1 .. n + 1 /\ at = n BY <1>2, <2>1, <2>3, <3>1
      <3>5. \A i \in 1 .. n : i < at => b.tree[i] # Exit /\ b.tree[i] < a BY <2>2, <3>3, <3>4
      <3>6. \A i \in 1 .. n : i >= at => b.tree[i] = Exit BY <1>2, <3>1, <3>2, <3>4
      <3> QED BY <1>1, <3>4, <3>5, <3>6 DEF n
    <2>4. CASE Exit \notin Range(b.tree)
      <3>1. \A i \in 1 .. n : b.tree[i] # Exit BY <1>2, <2>4, RangeFacts DEF n
      <3>2. at = n + 1 /\ n + 1 \in 1 .. n + 1 BY <1>2, <2>1, <2>4
      <3>3. \A i \in 1 .. n : i < at => b.tree[i] # Exit /\ b.tree[i] < a BY <2>2, <3>1
      <3>4. \A i \in 1 .. n : ~(i >= at) BY <1>2, <3>2
      <3> QED BY <1>1, <3>2, <3>3, <3>4 DEF n
    <2> QED BY <2>3, <2>4
  <1>6. CASE above # {}
    <2> DEFINE k == Min(above)
    <2>1. k \in above /\ \A y \in above : k <= y
      <3>1. above \in SUBSET Nat BY <1>2
      <3> HIDE DEF above
      <3> QED BY <1>6, <3>1, LeastIsMin
    <2>2. next = b.map[k] BY <1>6
    <2> HIDE DEF k, next
    <2>3. k \in Addr /\ a < k /\ b.map[k] # None /\ k \in Int BY <1>2, <2>1, Bounds
    <2>4. k \in Paths(b)
      <3> SUFFICES ASSUME k \notin Paths(b) PROVE FALSE
        OBVIOUS
      <3>1. b.map[k] = Gap BY <2>3 DEF Mapped
      <3>2. PICK r \in Paths(b) : b.ops[r] # <<>> /\ EndOf(b, r) = k BY <2>3, <3>1 DEF Mapped
      <3>3. r < k /\ r \in Addr /\ r \in Int BY <3>2, EndOfBounds, Bounds
      <3>4. CASE r < a
        <4>1. k <= a BY <3>2, <3>4
        <4> QED BY <1>2, <2>3, <4>1
      <3>5. CASE a < r
        <4>1. b.map[r] # None BY <3>2, <3>3, Bounds DEF Mapped
        <4>2. r \in above BY <1>2, <3>3, <3>5, <4>1, Bounds
        <4>3. k <= r BY <2>1, <4>2
        <4> QED BY <2>3, <3>3, <4>3
      <3> QED BY <1>2, <3>2, <3>3, <3>4, <3>5
    <2>5. next = k /\ k # Gap BY <2>2, <2>3, <2>4, Bounds DEF Mapped
    <2>6. at = Place(b.tree, k) BY <2>5
    <2> HIDE DEF at
    <2>7. at \in 1 .. n /\ b.tree[at] = k
      <3>1. k \in Range(b.tree) BY <2>4 DEF Paths
      <3> QED BY <1>2, <2>6, <3>1, PlaceOf DEF n
    <2>8. ASSUME NEW i \in 1 .. n, i < at PROVE b.tree[i] # Exit /\ b.tree[i] < a
      <3>1. b.tree[i] # Exit /\ b.tree[i] < k
        <4>1. k # Exit BY <2>3, Bounds
        <4> QED BY <1>4, <2>7, <2>8, <4>1
      <3>2. b.tree[i] \in Int /\ b.tree[i] # a /\ (a < b.tree[i] => b.tree[i] \in above) BY <1>3, <3>1
      <3>3. ~(a < b.tree[i])
        <4> SUFFICES ASSUME a < b.tree[i] PROVE FALSE
          OBVIOUS
        <4>1. k <= b.tree[i] BY <2>1, <3>2
        <4> QED BY <2>3, <3>1, <3>2, <4>1
      <3> QED BY <1>2, <3>1, <3>2, <3>3
    <2>9. ASSUME NEW i \in 1 .. n, i >= at PROVE b.tree[i] = Exit \/ a < b.tree[i]
      <3>1. CASE i = at BY <2>3, <2>7, <3>1
      <3>2. CASE i # at
        <4>1. at < i BY <1>2, <2>7, <2>9, <3>2
        <4>2. b.tree[i] = Exit \/ k < b.tree[i] BY <1>4, <2>7, <4>1
        <4>3. b.tree[i] # Exit => b.tree[i] \in Int BY <1>3
        <4> QED BY <1>2, <2>3, <4>2, <4>3
      <3> QED BY <3>1, <3>2
    <2>10. at \in 1 .. n + 1 BY <1>2, <2>7
    <2> QED BY <1>1, <2>8, <2>9, <2>10 DEF n
  <1> QED BY <1>5, <1>6

LEMMA InsertKeeps ==
  ASSUME NEW b \in Body, Tiled(b), Mapped(b), NEW a \in Addr, a \notin Paths(b),
         \A q \in Paths(b) : q < a => EndOf(b, q) <= a
  PROVE  Registers(b, a, InsertPathBefore(b, a))
  <1> DEFINE c == InsertPathBefore(b, a)
  <1>1. PICK k \in 1 .. Len(b.tree) + 1 :
            /\ c = [b EXCEPT !.tree = InsertAt(b.tree, k, a), !.map = [b.map EXCEPT ![a] = a]]
            /\ \A i \in 1 .. Len(b.tree) : i < k => b.tree[i] # Exit /\ b.tree[i] < a
            /\ \A i \in 1 .. Len(b.tree) : i >= k => b.tree[i] = Exit \/ a < b.tree[i]
    BY InsertPlace
  <1> HIDE DEF c
  <1>2. /\ c.tree = InsertAt(b.tree, k, a) /\ c.map = [b.map EXCEPT ![a] = a]
        /\ c.ops = b.ops /\ c.cur = b.cur /\ SameRest(b, c)
    BY <1>1 DEF Body, SameRest
  <1>3. /\ b.tree \in Seq(Addr \cup {Exit})
        /\ b.map \in [Addr \cup {Out} -> Addr \cup {Gap, None}]
        /\ Paths(b) \subseteq Addr
    BY BodyFields
  <1>4. /\ Ordered(c.tree) /\ c.tree \in Seq(Addr \cup {Exit})
        /\ Range(c.tree) = Range(b.tree) \cup {a}
    <2>1. Ordered(b.tree) BY DEF Tiled
    <2> QED BY <1>1, <1>2, <1>3, <2>1, InsertedInOrder
  <1>5. Paths(c) = Paths(b) \cup {a} BY <1>4, Bounds DEF Paths
  <1>6. /\ c.map \in [Addr \cup {Out} -> Addr \cup {Gap, None}] /\ c.map[a] = a
        /\ \A q \in (Addr \cup {Out}) \ {a} : c.map[q] = b.map[q]
    BY <1>2, <1>3
  <1>7. c \in Body BY <1>1, <1>2, <1>4, <1>6 DEF Body
  <1>8. \A q \in Addr : EndOf(c, q) = EndOf(b, q) BY <1>2 DEF EndOf
  <1>9. b.ops[a] = <<>> /\ EndOf(b, a) = a BY DEF Tiled, EndOf
  <1>10. \A q \in Paths(b) : EndOf(b, q) \in q .. Out /\ q \in 1 .. N /\ q \in Int /\ EndOf(b, q) \in Int
    BY EndOfBounds, Bounds
  <1>11. Tiled(c)
    <2>1. ASSUME NEW q \in Addr
          PROVE  IF q \in Paths(c) THEN IsRun(q, c.ops[q]) ELSE c.ops[q] = <<>>
      <3>1. CASE q = a BY <1>2, <1>5, <1>9, <3>1 DEF IsRun
      <3>2. CASE q # a BY <1>2, <1>5, <3>2 DEF Tiled
      <3> QED BY <3>1, <3>2
    <2>2. ASSUME NEW q \in Paths(c), NEW r \in Paths(c), q < r PROVE EndOf(c, q) <= r
      <3>1. CASE q = a
        <4>1. EndOf(c, q) = a BY <1>8, <1>9, <3>1
        <4>2. r \in Paths(b) \/ r = a BY <1>5
        <4> QED BY <1>10, <2>2, <3>1, <4>1, <4>2, Bounds
      <3>2. CASE q # a
        <4>1. q \in Paths(b) /\ EndOf(c, q) = EndOf(b, q) BY <1>3, <1>5, <1>8, <3>2
        <4>2. CASE r = a BY <2>2, <4>1, <4>2
        <4>3. CASE r # a BY <1>5, <2>2, <4>1, <4>3 DEF Tiled
        <4> QED BY <4>2, <4>3
      <3> QED BY <3>1, <3>2
    <2>3. \A q \in Addr : c.ref[q] \in Range(c.tree) \cup {None}
      BY <1>2, <1>4 DEF SameRest, Tiled
    <2> QED BY <1>4, <2>1, <2>2, <2>3 DEF Tiled
  <1>12. Mapped(c)
    <2>1. c.cur \in Paths(c) \cup {None} BY <1>2, <1>5 DEF Mapped
    <2>2. ASSUME NEW q \in Addr
          PROVE  IF q \in Paths(c) THEN c.map[q] = q ELSE c.map[q] \in {None, Gap}
      <3>1. CASE q = a BY <1>5, <1>6, <3>1
      <3>2. CASE q # a BY <1>5, <1>6, <3>2 DEF Mapped
      <3> QED BY <3>1, <3>2
    <2>3. c.map[Out] \in {None, Gap} BY <1>6, Bounds DEF Mapped
    <2>4. ASSUME NEW h \in Addr \cup {Out}, c.map[h] = Gap
          PROVE  \E q \in Paths(c) :
                    q # c.cur /\ c.ops[q] # <<>> /\ EndOf(c, q) = h
      <3>1. h # a BY <1>6, <2>4, Bounds
      <3>2. b.map[h] = Gap BY <1>6, <2>4, <3>1
      <3>3. PICK q \in Paths(b) :
                    q # b.cur /\ b.ops[q] # <<>> /\ EndOf(b, q) = h
        BY <3>2 DEF Mapped
      <3> QED BY <1>2, <1>3, <1>5, <1>8, <3>3
    <2>5. ASSUME NEW q \in Paths(c) \ {c.cur} PROVE Closed(c, q)
      <3>1. CASE q = a BY <1>2, <1>9, <3>1 DEF Closed
      <3>2. CASE q # a
        <4>1. q \in Paths(b) /\ q # b.cur /\ q \in Addr BY <1>2, <1>3, <1>5, <2>5, <3>2
        <4>2. Closed(b, q) BY <4>1 DEF Mapped
        <4>3. c.ops[q] = b.ops[q] /\ EndOf(c, q) = EndOf(b, q) BY <1>2, <1>8, <4>1
        <4>4. EndOf(b, q) = Out \/ EndOf(b, q) \in Addr BY <1>10, <4>1, Bounds
        <4>5. EndOf(b, q) = a => c.map[EndOf(b, q)] # None BY <1>6, Bounds
        <4> QED BY <1>6, <4>2, <4>3, <4>4, <4>5 DEF Closed
      <3> QED BY <3>1, <3>2
    <2> QED BY <2>1, <2>2, <2>3, <2>4, <2>5 DEF Mapped
  <1>13. Contents(c) = Contents(b) BY <1>2 DEF Contents
  <1>14. SameEnd(b, c) BY <1>2 DEF SameEnd, EndOf
  <1> QED BY <1>2, <1>4, <1>5, <1>7, <1>11, <1>12, <1>13, <1>14 DEF Registers, c

(* AssurePathBeginsAt, with now the instruction being generated, or the    *)
(* next one when nothing is.                                               *)
LEMMA AssureKeeps ==
  ASSUME NEW b \in Body, Tiled(b), Mapped(b), NEW a \in Addr, NEW now \in Addr,
         CurEnds(b, now + 1)
  PROVE  Registers(b, a, AssurePathBeginsAt(b, a, now))
  <1> DEFINE p == Within(b, a)
  <1>1. b.map[a] \in Addr <=> a \in Paths(b) BY Bounds DEF Mapped
  <1>2. CASE a \in Paths(b)
    <2>1. AssurePathBeginsAt(b, a, now) = b BY <1>1, <1>2 DEF AssurePathBeginsAt
    <2>2. SameRest(b, b) /\ SameEnd(b, b) BY DEF SameRest, SameEnd
    <2>3. a \in Range(b.tree) BY <1>2 DEF Paths
    <2> QED BY <1>2, <2>1, <2>2, <2>3 DEF Registers
  <1>3. CASE a \notin Paths(b) /\ Splits(b, a, now)
    <2>1. AssurePathBeginsAt(b, a, now) = SplitPath(b, p, a)
      BY <1>1, <1>3 DEF AssurePathBeginsAt, Splits
    <2>2. p \in Paths(b) /\ b.ops[p] # <<>> /\ p < a /\ a < EndOf(b, p) BY <1>3, SplitIsInside
    <2> HIDE DEF p
    <2> QED BY <1>3, <2>1, <2>2, SplitKeeps
  <1>4. CASE a \notin Paths(b) /\ ~Splits(b, a, now)
    <2>1. AssurePathBeginsAt(b, a, now) = InsertPathBefore(b, a)
      BY <1>1, <1>4 DEF AssurePathBeginsAt, Splits
    <2>2. \A q \in Paths(b) : q < a => EndOf(b, q) <= a BY <1>4, NoneInside
    <2> QED BY <1>4, <2>1, <2>2, InsertKeeps
  <1> QED BY <1>2, <1>3, <1>4

(* The map loses no entry when a path is registered.                       *)
LEMMA AssureMap ==
  ASSUME NEW b \in Body, NEW a \in Addr, NEW now
  PROVE  LET c == AssurePathBeginsAt(b, a, now)
         IN  \A k \in Addr \cup {Out} : b.map[k] # None => c.map[k] # None
  <1> DEFINE p == Within(b, a)
             c == AssurePathBeginsAt(b, a, now)
  <1>1. b.map \in [Addr \cup {Out} -> Addr \cup {Gap, None}] /\ a # None BY BodyFields, Bounds
  <1>2. c = b \/ (p \in Addr /\ c = SplitPath(b, p, a)) \/ c = InsertPathBefore(b, a)
    BY DEF AssurePathBeginsAt
  <1> HIDE DEF c, p
  <1>3. c.map = b.map \/ c.map = [b.map EXCEPT ![a] = a]
    <2>1. SplitPath(b, p, a).map = [b.map EXCEPT ![a] = a] BY DEF SplitPath, Body
    <2>2. InsertPathBefore(b, a).map = [b.map EXCEPT ![a] = a] BY DEF InsertPathBefore, Body
    <2> QED BY <1>2, <2>1, <2>2
  <1> QED BY <1>1, <1>3 DEF c

-----------------------------------------------------------------------------
(* The gotos.                                                              *)

LEMMA TailIs ==
  ASSUME NEW b \in Body, NEW p, TailOp(b, p) # NoOp
  PROVE  /\ p \in Addr /\ b.ops[p] # <<>> /\ TailOp(b, p) = Last(b.ops[p])
         /\ TailOp(b, p) \in Op /\ TailOp(b, p)[1] \in Addr
  <1>1. p \in Addr /\ b.ops[p] # <<>> /\ TailOp(b, p) = Last(b.ops[p]) BY DEF TailOp, OpsOf
  <1>2. b.ops[p] \in Seq(Op) BY <1>1, BodyFields
  <1> QED BY <1>1, <1>2, LastOf, OpPair

LEMMA HeadIs ==
  ASSUME NEW b \in Body, NEW p, HeadOp(b, p) # NoOp
  PROVE  /\ p \in Addr /\ b.ops[p] # <<>> /\ HeadOp(b, p) = b.ops[p][1]
         /\ HeadOp(b, p) \in Op /\ HeadOp(b, p)[1] \in Addr
  <1>1. p \in Addr /\ b.ops[p] # <<>> /\ HeadOp(b, p) = Head(b.ops[p]) BY DEF HeadOp, OpsOf
  <1>2. b.ops[p] \in Seq(Op) BY <1>1, BodyFields
  <1>3. Head(b.ops[p]) = b.ops[p][1] BY <1>1, <1>2
  <1>4. Len(b.ops[p]) \in Nat \ {0} BY <1>1, <1>2, EmptySeq
  <1>5. b.ops[p][1] \in Op BY <1>2, <1>4
  <1> QED BY <1>1, <1>3, <1>5, OpPair

(* The trail of jumps does not leave a set that no jump in it leads out of. *)
LEMMA TraceWithin ==
  ASSUME NEW b, NEW X, NEW to \in X,
         \A q \in X : Forwards(b, q) => b.ref[HeadOp(b, q)[1]] \in X
  PROVE  TraceGoto(b, to) \in X
  <1> DEFINE m == N + 1
             On(q) == IF Forwards(b, q) THEN b.ref[HeadOp(b, q)[1]] ELSE q
             G == [w \in Nat \X X |-> On(w[2])]
             Row(h) == [k \in 0 .. m |-> IF k = 0 THEN to ELSE On(h[k - 1])]
             hop == CHOOSE h : h = Row(h)
  <1>1. TraceGoto(b, to) = hop[m] BY DEF TraceGoto
  <1>2. \A q \in X : On(q) \in X OBVIOUS
  <1>3. m \in Nat BY Bounds
  <1> HIDE DEF m, On
  <1>4. \A i \in 1 .. m, q \in X : G[<<i, q>>] = On(q) BY <1>3
  <1> HIDE DEF G
  <1>5. HasStepwise(m, X, to, G) BY <1>2, <1>3, <1>4, StepwiseFunction
  <1>6. PICK f \in [0 .. m -> X] : f[0] = to /\ \A i \in 1 .. m : f[i] = G[<<i, f[i - 1]>>]
    BY <1>5 DEF HasStepwise
  <1>7. f = Row(f)
    <2>1. ASSUME NEW i \in 0 .. m PROVE f[i] = IF i = 0 THEN to ELSE On(f[i - 1])
      <3>1. CASE i = 0 BY <1>6, <3>1
      <3>2. CASE i # 0
        <4>1. i \in 1 .. m /\ i - 1 \in 0 .. m BY <1>3, <3>2
        <4>2. f[i - 1] \in X BY <4>1
        <4> QED BY <1>4, <1>6, <3>2, <4>1, <4>2
      <3> QED BY <3>1, <3>2
    <2> QED BY <2>1
  <1>8. hop = Row(hop)
    <2> HIDE DEF Row
    <2> QED BY <1>7
  <1> HIDE DEF hop
  <1>9. \A k \in 0 .. m : hop[k] = IF k = 0 THEN to ELSE On(hop[k - 1])
    <2>1. \A k \in 0 .. m : Row(hop)[k] = IF k = 0 THEN to ELSE On(hop[k - 1]) OBVIOUS
    <2> HIDE DEF Row
    <2> QED BY <1>8, <2>1
  <1> DEFINE T == {k \in 0 .. m : hop[k] \in X}
  <1>10. 0 \in T BY <1>3, <1>9
  <1>11. ASSUME NEW n \in 0 .. m - 1, n \in T PROVE n + 1 \in T
    <2>1. n + 1 \in 0 .. m /\ n + 1 # 0 /\ (n + 1) - 1 = n BY <1>3
    <2>2. hop[n + 1] = On(hop[n]) BY <1>9, <2>1
    <2> QED BY <1>2, <1>11, <2>1, <2>2
  <1>12. 0 .. m \subseteq T
    <2> HIDE DEF T
    <2> QED BY <1>3, <1>10, <1>11, UpToInduction
  <1>13. hop[m] \in X BY <1>3, <1>12
  <1> QED BY <1>1, <1>13

(* Where the trail of jumps leads is a path of the tree.                   *)
LEMMA TraceStays ==
  ASSUME NEW b \in Body, \A a \in Addr : b.ref[a] \in Range(b.tree) \cup {None},
         NEW to \in Range(b.tree)
  PROVE  TraceGoto(b, to) \in Range(b.tree)
  <1>1. ASSUME NEW q \in Range(b.tree), Forwards(b, q)
        PROVE  b.ref[HeadOp(b, q)[1]] \in Range(b.tree)
    <2>1. HeadOp(b, q)[1] \in Addr /\ b.ref[HeadOp(b, q)[1]] # None BY <1>1, HeadIs DEF Forwards
    <2> QED BY <2>1
  <1> QED BY <1>1, TraceWithin

(* A change of the gotos: they still refer to paths of the tree, and       *)
(* nothing else changes, unless the code fails.                            *)
Redirects(b, c) ==
    /\ c \in Body /\ c.root = b.root /\ c.last = b.last /\ c.sin = b.sin
    /\ ~c.broken =>
          /\ ~b.broken
          /\ c.tree = b.tree /\ c.ops = b.ops /\ c.map = b.map /\ c.cur = b.cur
          /\ \A a \in Addr : c.ref[a] \in Range(c.tree) \cup {None}

LEMMA PrevIs ==
  ASSUME NEW b \in Body, Ordered(b.tree), NEW p \in Range(b.tree), PrevPath(b, p) # None
  PROVE  PrevPath(b, p) \in Addr
  <1> DEFINE k == Place(b.tree, p)
  <1>1. b.tree \in Seq(Addr \cup {Exit}) BY BodyFields
  <1>2. k \in 1 .. Len(b.tree) /\ b.tree[k] = p BY <1>1, PlaceOf
  <1>3. p # Head(b.tree) /\ PrevPath(b, p) = b.tree[k - 1] BY DEF PrevPath
  <1> HIDE DEF k
  <1>4. k # 1
    <2> SUFFICES ASSUME k = 1 PROVE FALSE
      OBVIOUS
    <2>1. b.tree # <<>> BY <1>2, EmptySeq
    <2>2. Head(b.tree) = b.tree[1] BY <1>1, <2>1
    <2> QED BY <1>2, <1>3, <2>2
  <1>5. k - 1 \in 1 .. Len(b.tree) /\ k - 1 < k BY <1>1, <1>2, <1>4
  <1>6. b.tree[k - 1] # Exit BY <1>2, <1>5 DEF Ordered
  <1>7. b.tree[k - 1] \in Addr \cup {Exit} BY <1>1, <1>5
  <1> QED BY <1>3, <1>6, <1>7

LEMMA CheckDanglingKeeps ==
  ASSUME NEW b \in Body, Ordered(b.tree), NEW p \in Addr, p \in Range(b.tree), ~b.broken,
         \A a \in Addr : b.ref[a] \in Range(b.tree) \cup {None}
  PROVE  Redirects(b, CheckDanglingPath(b, p))
  <1> DEFINE c == CheckDanglingPath(b, p)
             prev == PrevPath(b, p)
             joined == IF BlockType(b, prev) = "null" THEN b.ops[prev] \o b.ops[p] ELSE b.ops[prev]
  <1>1. CASE HasRefs(b, p) \/ prev = None \/ BlockType(b, prev) = "jif"
    <2>1. c = b BY <1>1 DEF CheckDanglingPath
    <2> QED BY <2>1 DEF Redirects
  <1>2. CASE ~(HasRefs(b, p) \/ prev = None \/ BlockType(b, prev) = "jif")
    <2>1. prev \in Addr BY <1>2, PrevIs
    <2>2. joined \in Seq(Op)
      <3>1. b.ops[prev] \in Seq(Op) /\ b.ops[p] \in Seq(Op) BY <2>1, BodyFields
      <3> QED BY <3>1, ConcatProperties
    <2>3. c = [b EXCEPT !.tree = Kept(b.tree, Range(b.tree) \ {p}),
                        !.ops = [b.ops EXCEPT ![prev] = joined, ![p] = <<>>],
                        !.cur = IF b.cur = p THEN prev ELSE b.cur,
                        !.broken = TRUE]
      BY <1>2, <2>1 DEF CheckDanglingPath, Body
    <2>4. Kept(b.tree, Range(b.tree) \ {p}) \in Seq(Addr \cup {Exit})
      <3> DEFINE R == {<<b.tree[ij[1]], b.tree[ij[2]]>> : ij \in (1 .. Len(b.tree)) \X (1 .. Len(b.tree))}
                 K == Range(b.tree) \ {p}
      <3>1. \A i, j \in 1 .. Len(b.tree) : i < j => <<b.tree[i], b.tree[j]>> \in R
        <4> SUFFICES ASSUME NEW i \in 1 .. Len(b.tree), NEW j \in 1 .. Len(b.tree)
                     PROVE  <<b.tree[i], b.tree[j]>> \in R
          OBVIOUS
        <4>1. <<i, j>> \in (1 .. Len(b.tree)) \X (1 .. Len(b.tree)) OBVIOUS
        <4>2. <<i, j>>[1] = i /\ <<i, j>>[2] = j OBVIOUS
        <4> QED BY <4>1, <4>2
      <3>2. b.tree \in Seq(Addr \cup {Exit}) BY BodyFields
      <3> HIDE DEF R, K
      <3>3. Kept(b.tree, K) \in Seq(Addr \cup {Exit}) BY <3>1, <3>2, KeptOnes
      <3> QED BY <3>3 DEF K
    <2> HIDE DEF c, prev, joined
    <2>5. [b.ops EXCEPT ![prev] = joined, ![p] = <<>>] \in [Addr -> Seq(Op)]
      <3>1. b.ops \in [Addr -> Seq(Op)] /\ <<>> \in Seq(Op) BY BodyFields
      <3> QED BY <2>2, <3>1
    <2>6. c \in Body
      <3>1. (IF b.cur = p THEN prev ELSE b.cur) \in Addr \cup {Exit, None} BY <2>1 DEF Body
      <3> QED BY <2>3, <2>4, <2>5, <3>1 DEF Body
    <2>7. c.root = b.root /\ c.last = b.last /\ c.sin = b.sin /\ c.broken
      BY <2>3 DEF Body
    <2> QED BY <2>6, <2>7 DEF Redirects, c
  <1> QED BY <1>1, <1>2

LEMMA AdjustKeeps ==
  ASSUME NEW b \in Body, Tiled(b), ~b.broken, NEW p, TailOp(b, p) # NoOp
  PROVE  Redirects(b, AdjustGoto(b, p))
  <1> DEFINE o == TailOp(b, p)
             to == b.ref[o[1]]
             dest == TraceGoto(b, to)
             e == [b EXCEPT !.ref = [b.ref EXCEPT ![o[1]] = dest]]
  <1>1. o[1] \in Addr BY TailIs
  <1>2. \A a \in Addr : b.ref[a] \in Range(b.tree) \cup {None} BY DEF Tiled
  <1>3. Redirects(b, b) BY <1>2 DEF Redirects
  <1>4. CASE IsRetOp(b, o) \/ to = None \/ OpsOf(b, to) = <<>>
    <2>1. AdjustGoto(b, p) = b BY <1>4 DEF AdjustGoto
    <2> QED BY <1>3, <2>1
  <1>5. CASE ~(IsRetOp(b, o) \/ to = None \/ OpsOf(b, to) = <<>>)
    <2>1. to \in Range(b.tree) /\ to \in Addr BY <1>1, <1>2, <1>5 DEF OpsOf
    <2>2. dest \in Range(b.tree) BY <1>2, <2>1, TraceStays
    <2>3. CASE Forwards(b, dest)
      <3>1. AdjustGoto(b, p) = [b EXCEPT !.broken = TRUE] BY <1>5, <2>3 DEF AdjustGoto
      <3>2. [b EXCEPT !.broken = TRUE] \in Body /\ [b EXCEPT !.broken = TRUE].broken
        BY DEF Body
      <3>3. [b EXCEPT !.broken = TRUE].root = b.root /\ [b EXCEPT !.broken = TRUE].last = b.last
            /\ [b EXCEPT !.broken = TRUE].sin = b.sin
        BY DEF Body
      <3> QED BY <3>1, <3>2, <3>3 DEF Redirects
    <2>4. CASE ~Forwards(b, dest) /\ dest = to
      <3>1. AdjustGoto(b, p) = b BY <1>5, <2>4 DEF AdjustGoto
      <3> QED BY <1>3, <3>1
    <2>5. CASE ~Forwards(b, dest) /\ dest # to
      <3>1. AdjustGoto(b, p) = CheckDanglingPath(e, to)
        BY <1>5, <2>5 DEF AdjustGoto, Body
      <3>2. Range(b.tree) \subseteq Addr \cup {Exit} /\ b.ref \in [Addr -> Addr \cup {Exit, None}]
        BY BodyFields
      <3> HIDE DEF dest, o, to
      <3>3. /\ e.ref = [b.ref EXCEPT ![o[1]] = dest] /\ e.tree = b.tree /\ e.ops = b.ops
            /\ e.map = b.map /\ e.cur = b.cur /\ e.root = b.root /\ e.last = b.last
            /\ e.sin = b.sin /\ e.broken = b.broken
        BY DEF Body
      <3>4. \A a \in Addr : e.ref[a] \in Range(b.tree) \cup {None}
        BY <1>2, <2>2, <3>2, <3>3
      <3>5. [b.ref EXCEPT ![o[1]] = dest] \in [Addr -> Addr \cup {Exit, None}]
        BY <2>2, <3>2
      <3>6. e \in Body BY <3>5 DEF Body
      <3> HIDE DEF e
      <3>7. Ordered(e.tree) /\ to \in Range(e.tree) /\ ~e.broken BY <2>1, <3>3 DEF Tiled
      <3>8. Redirects(e, CheckDanglingPath(e, to))
        BY <2>1, <3>3, <3>4, <3>6, <3>7, CheckDanglingKeeps
      <3> QED BY <3>1, <3>3, <3>8 DEF Redirects
    <2> QED BY <2>3, <2>4, <2>5
  <1> QED BY <1>4, <1>5

LEMMA JumpHasTail ==
  ASSUME NEW b, NEW p, BlockType(b, p) \in {"jmp", "jif"}
  PROVE  TailOp(b, p) # NoOp
  <1> SUFFICES ASSUME TailOp(b, p) = NoOp PROVE BlockType(b, p) \in {"exit", "null"}
    OBVIOUS
  <1>1. CASE p = Exit BY <1>1 DEF BlockType
  <1>2. CASE p # Exit BY <1>2 DEF BlockType
  <1> QED BY <1>1, <1>2

LEMMA Adjust2Keeps ==
  ASSUME NEW b \in Body, NEW p,
         ~b.broken => \A a \in Addr : b.ref[a] \in Range(b.tree) \cup {None}
  PROVE  Redirects(b, AdjustGoto2(b, p))
  <1> DEFINE prev == PrevPath(b, p)
             self == TailOp(b, p)[1]
             jif == TailOp(b, prev)[1]
             swaps == /\ BlockType(b, p) = "jmp" /\ Len(b.ops[p]) = 1
                      /\ prev # None /\ BlockType(b, prev) = "jif"
                      /\ b.ref[jif] # None /\ b.ref[jif] = NextPath(b, p)
             c == [b EXCEPT !.ref = [b.ref EXCEPT ![jif] = b.ref[self], ![self] = b.ref[jif]],
                            !.flip = (b.flip \ {jif}) \cup ({jif} \ b.flip),
                            !.broken = b.broken \/ b.ref[self] = None]
  <1>1. CASE ~swaps
    <2>1. AdjustGoto2(b, p) = b BY <1>1 DEF AdjustGoto2
    <2> QED BY <2>1 DEF Redirects
  <1>2. CASE swaps
    <2>1. self \in Addr
      <3>1. TailOp(b, p) # NoOp BY <1>2, JumpHasTail
      <3> QED BY <3>1, TailIs
    <2>2. jif \in Addr
      <3>1. TailOp(b, prev) # NoOp BY <1>2, JumpHasTail
      <3> QED BY <3>1, TailIs
    <2>3. b.ref \in [Addr -> Addr \cup {Exit, None}] BY BodyFields
    <2>4. AdjustGoto2(b, p) = c BY <1>2 DEF AdjustGoto2, Body
    <2> HIDE DEF self, jif, swaps, prev
    <2>5. [b.ref EXCEPT ![jif] = b.ref[self], ![self] = b.ref[jif]] \in [Addr -> Addr \cup {Exit, None}]
      BY <2>1, <2>2, <2>3
    <2>6. (b.flip \ {jif}) \cup ({jif} \ b.flip) \in SUBSET Addr BY <2>2 DEF Body
    <2>7. (b.broken \/ b.ref[self] = None) \in BOOLEAN OBVIOUS
    <2>8. c \in Body BY <2>5, <2>6, <2>7 DEF Body
    <2>9. /\ c.ref = [b.ref EXCEPT ![jif] = b.ref[self], ![self] = b.ref[jif]]
          /\ c.tree = b.tree /\ c.ops = b.ops /\ c.map = b.map /\ c.cur = b.cur
          /\ c.root = b.root /\ c.last = b.last /\ c.sin = b.sin
          /\ (c.broken <=> b.broken \/ b.ref[self] = None)
      BY DEF Body
    <2> HIDE DEF c
    <2>10. ASSUME ~c.broken, NEW a \in Addr PROVE c.ref[a] \in Range(c.tree) \cup {None}
      <3>1. ~b.broken BY <2>9, <2>10
      <3>2. c.ref[a] \in {b.ref[a], b.ref[self], b.ref[jif]} BY <2>1, <2>2, <2>3, <2>9
      <3> QED BY <2>1, <2>2, <2>9, <3>1, <3>2
    <2> QED BY <2>4, <2>8, <2>9, <2>10 DEF Redirects
  <1> QED BY <1>1, <1>2

LEMMA FinalizeKeeps ==
  ASSUME NEW b \in Body, Tiled(b), Mapped(b), ~b.broken, NEW a \in Addr,
         b.cur # None, b.ops[b.cur] # <<>>, EndOf(b, b.cur) = a + 1
  PROVE  LET c == FinalizePath(b, a)
         IN  /\ c \in Body /\ c.root = b.root /\ c.last = b.last /\ c.sin = b.sin
             /\ ~c.broken => /\ Tiled(c) /\ Mapped(c) /\ c.cur = None
                             /\ c.ops = b.ops /\ Paths(c) = Paths(b)
  <1> DEFINE e == AdjustGoto(b, b.cur)
             d == AdjustGoto2(e, e.cur)
             m == [d.map EXCEPT ![a + 1] = IF d.map[a + 1] = None THEN Gap ELSE d.map[a + 1]]
             c == FinalizePath(b, a)
  <1>1. b.cur \in Paths(b) /\ b.cur \in Addr BY BodyFields DEF Mapped
  <1>2. TailOp(b, b.cur) # NoOp
    <2>1. TailOp(b, b.cur) = Last(b.ops[b.cur]) BY <1>1 DEF TailOp, OpsOf
    <2>2. Last(b.ops[b.cur]) \in Op BY <1>1, EndOfBounds
    <2> QED BY <2>1, <2>2, NoOpIsNone
  <1>3. Redirects(b, e) BY <1>2, AdjustKeeps
  <1>4. Redirects(e, d)
    <2>1. e \in Body /\ (~e.broken => \A x \in Addr : e.ref[x] \in Range(e.tree) \cup {None})
      BY <1>3 DEF Redirects
    <2> HIDE DEF e
    <2> QED BY <2>1, Adjust2Keeps
  <1>5. c = [d EXCEPT !.map = m, !.cur = None]
    <2>1. d \in Body BY <1>4 DEF Redirects
    <2> HIDE DEF d
    <2>2. c = [d EXCEPT !.map[a + 1] = IF @ = None THEN Gap ELSE @, !.cur = None] BY DEF FinalizePath, d
    <2> HIDE DEF c
    <2> QED BY <2>1, <2>2 DEF Body
  <1>6. a + 1 \in Addr \cup {Out} BY Bounds
  <1> HIDE DEF c, d, e
  <1>7. /\ d \in Body /\ d.root = b.root /\ d.last = b.last /\ d.sin = b.sin
        /\ ~d.broken => /\ d.tree = b.tree /\ d.ops = b.ops /\ d.map = b.map /\ d.cur = b.cur
                        /\ \A x \in Addr : d.ref[x] \in Range(d.tree) \cup {None}
    BY <1>3, <1>4 DEF Redirects
  <1>8. /\ m \in [Addr \cup {Out} -> Addr \cup {Gap, None}]
        /\ \A k \in (Addr \cup {Out}) \ {a + 1} : m[k] = d.map[k]
        /\ m[a + 1] = IF d.map[a + 1] = None THEN Gap ELSE d.map[a + 1]
    BY <1>6, <1>7, BodyFields
  <1> HIDE DEF m
  <1>9. /\ c \in Body /\ c.root = b.root /\ c.last = b.last /\ c.sin = b.sin
        /\ c.map = m /\ c.cur = None /\ c.broken = d.broken /\ c.tree = d.tree
        /\ c.ops = d.ops /\ c.ref = d.ref
    BY <1>5, <1>7, <1>8 DEF Body
  <1>10. ASSUME ~c.broken PROVE Tiled(c) /\ Mapped(c) /\ c.ops = b.ops /\ Paths(c) = Paths(b)
    <2>1. /\ c.tree = b.tree /\ c.ops = b.ops /\ d.map = b.map
          /\ \A x \in Addr : c.ref[x] \in Range(c.tree) \cup {None}
      BY <1>7, <1>9, <1>10
    <2>2. Paths(c) = Paths(b) /\ \A q : EndOf(c, q) = EndOf(b, q) BY <2>1 DEF Paths, EndOf
    <2>3. Tiled(c) BY <2>1, <2>2 DEF Tiled
    <2>4. /\ c.map[a + 1] # None
          /\ \A k \in Addr \cup {Out} : c.map[k] = b.map[k] \/ (k = a + 1 /\ c.map[k] = Gap)
          /\ \A k \in Addr \cup {Out} : b.map[k] # None => c.map[k] = b.map[k]
      BY <1>6, <1>8, <1>9, <2>1, Bounds
    <2>5. ASSUME NEW q \in Addr
          PROVE  IF q \in Paths(c) THEN c.map[q] = q ELSE c.map[q] \in {None, Gap}
      <3>1. CASE q \in Paths(b)
        <4>1. b.map[q] = q /\ q # None BY <3>1, Bounds DEF Mapped
        <4> QED BY <2>2, <2>4, <3>1, <4>1
      <3>2. CASE q \notin Paths(b)
        <4>1. b.map[q] \in {None, Gap} BY <3>2 DEF Mapped
        <4> QED BY <2>2, <2>4, <3>2, <4>1
      <3> QED BY <3>1, <3>2
    <2>6. c.map[Out] \in {None, Gap} BY <2>4 DEF Mapped
    <2>7. ASSUME NEW k \in Addr \cup {Out}, c.map[k] = Gap
          PROVE  \E q \in Paths(c) :
                    q # c.cur /\ c.ops[q] # <<>> /\ EndOf(c, q) = k
      <3>1. CASE k = a + 1 BY <1>1, <1>9, <2>1, <2>2, <3>1
      <3>2. CASE k # a + 1
        <4>1. b.map[k] = Gap BY <2>4, <2>7, <3>2
        <4>2. PICK q \in Paths(b) : b.ops[q] # <<>> /\ EndOf(b, q) = k BY <4>1 DEF Mapped
        <4>3. q # None BY <4>2, BodyFields, Bounds
        <4> QED BY <1>9, <2>1, <2>2, <4>2, <4>3
      <3> QED BY <3>1, <3>2
    <2>8. ASSUME NEW q \in Paths(c) \ {c.cur} PROVE Closed(c, q)
      <3>1. CASE q = b.cur BY <2>1, <2>2, <2>4, <3>1 DEF Closed
      <3>2. CASE q # b.cur
        <4>1. q \in Paths(b) /\ Closed(b, q) BY <2>2, <3>2 DEF Mapped
        <4>2. EndOf(b, q) \in Addr \cup {Out} BY <4>1, EndOfBounds, Bounds
        <4> QED BY <2>1, <2>2, <2>4, <4>1, <4>2 DEF Closed
      <3> QED BY <3>1, <3>2
    <2>9. Mapped(c) BY <1>9, <2>5, <2>6, <2>7, <2>8 DEF Mapped
    <2> QED BY <2>1, <2>2, <2>3, <2>9
  <1> QED BY <1>9, <1>10 DEF c

-----------------------------------------------------------------------------
(* The other changes of a body.                                            *)

(* The operations of the next instruction at the end of the current path.  *)
PathWith(s, a) ==
    IF code[a].kind = "call" THEN Append(Append(s, <<a, 1>>), <<a, 2>>) ELSE Append(s, <<a, 1>>)

LEMMA PathWithIs ==
  ASSUME NEW s \in Seq(Op), NEW a \in Addr
  PROVE  /\ PathWith(s, a) \in Seq(Op) /\ PathWith(s, a) # <<>>
         /\ Last(PathWith(s, a)) = Last(Parts(a))
         /\ Range(PathWith(s, a)) = Range(s) \cup Range(Parts(a))
  <1>1. <<a, 1>> \in Op /\ <<a, 2>> \in Op BY PartsAreOps
  <1>2. CASE code[a].kind = "call"
    <2> DEFINE t == Append(s, <<a, 1>>)
    <2>1. t \in Seq(Op) /\ Range(t) = Range(s) \cup {<<a, 1>>} BY <1>1, AppendOf
    <2> HIDE DEF t
    <2>2. /\ Append(t, <<a, 2>>) \in Seq(Op) /\ Append(t, <<a, 2>>) # <<>>
          /\ Last(Append(t, <<a, 2>>)) = <<a, 2>>
          /\ Range(Append(t, <<a, 2>>)) = Range(t) \cup {<<a, 2>>}
      <3> DEFINE o == <<a, 2>>
      <3>1. o \in Op BY <1>1
      <3> HIDE DEF o
      <3>2. /\ Append(t, o) \in Seq(Op) /\ Append(t, o) # <<>> /\ Last(Append(t, o)) = o
            /\ Range(Append(t, o)) = Range(t) \cup {o}
        BY <2>1, <3>1, AppendOf
      <3> QED BY <3>2 DEF o
    <2>3. Range(<<<<a, 1>>, <<a, 2>>>>) = {<<a, 1>>, <<a, 2>>} BY DEF Range
    <2>4. Parts(a) = <<<<a, 1>>, <<a, 2>>>> BY <1>2 DEF Parts
    <2>5. PathWith(s, a) = Append(t, <<a, 2>>) BY <1>2 DEF PathWith, t
    <2>6. Last(Parts(a)) = <<a, 2>> BY <1>2, LastPart
    <2> QED BY <2>1, <2>2, <2>3, <2>4, <2>5, <2>6
  <1>3. CASE code[a].kind # "call"
    <2>1. /\ Append(s, <<a, 1>>) \in Seq(Op) /\ Append(s, <<a, 1>>) # <<>>
          /\ Last(Append(s, <<a, 1>>)) = <<a, 1>>
          /\ Range(Append(s, <<a, 1>>)) = Range(s) \cup {<<a, 1>>}
      BY <1>1, AppendOf
    <2>2. Range(<<<<a, 1>>>>) = {<<a, 1>>} BY DEF Range
    <2>3. Parts(a) = <<<<a, 1>>>> BY <1>3 DEF Parts
    <2>4. PathWith(s, a) = Append(s, <<a, 1>>) BY <1>3 DEF PathWith
    <2>5. Last(Parts(a)) = <<a, 1>> BY <1>3, LastPart
    <2> QED BY <2>1, <2>2, <2>3, <2>4, <2>5
  <1> QED BY <1>2, <1>3

(* Only the operations of the current path change.                         *)
SameMap(b, c) ==
    /\ c.tree = b.tree /\ c.map = b.map /\ c.cur = b.cur /\ c.ref = b.ref
    /\ \A q \in Addr \ {b.cur} : c.ops[q] = b.ops[q]

LEMMA GrowKeeps ==
  ASSUME NEW b \in Body, Tiled(b), Mapped(b), NEW a \in Addr,
         b.cur # None, EndOf(b, b.cur) = a, b.map[a] \notin Addr \ {b.cur},
         NEW c \in Body, SameMap(b, c), c.ops[b.cur] = PathWith(b.ops[b.cur], a)
  PROVE  /\ Tiled(c) /\ Mapped(c) /\ Paths(c) = Paths(b)
         /\ c.cur # None /\ c.ops[c.cur] # <<>> /\ EndOf(c, c.cur) = a + 1
         /\ Last(c.ops[c.cur]) = Last(Parts(a))
         /\ Contents(c) = Contents(b) \cup Range(Parts(a))
  <1> DEFINE p == b.cur
             s == b.ops[p]
             t == c.ops[p]
  <1>1. p \in Paths(b) /\ p \in Addr /\ s \in Seq(Op) /\ IsRun(p, s)
    BY BodyFields DEF Mapped, Tiled
  <1>2. a = IF s = <<>> THEN p ELSE Last(s)[1] + 1 BY DEF EndOf
  <1>3. /\ t \in Seq(Op) /\ t # <<>> /\ Last(t) = Last(Parts(a))
        /\ Range(t) = Range(s) \cup Range(Parts(a))
    BY <1>1, PathWithIs
  <1>4. IsRun(p, t)
    <2> HIDE DEF p, s
    <2>1. IsRun(p, PathWith(s, a)) BY <1>1, <1>2, RunGrows DEF PathWith
    <2> QED BY <2>1 DEF p, s
  <1>5. c.tree = b.tree /\ c.map = b.map /\ c.cur = p /\ c.ref = b.ref
        /\ \A q \in Addr \ {p} : c.ops[q] = b.ops[q]
    BY DEF SameMap
  <1>6. Paths(c) = Paths(b) BY <1>5 DEF Paths
  <1>7. Last(t)[1] = a BY <1>3, LastPart
  <1>8. EndOf(c, p) = a + 1 /\ \A q \in Addr \ {p} : EndOf(c, q) = EndOf(b, q)
    BY <1>3, <1>5, <1>7 DEF EndOf
  <1>9. EndOf(b, p) = a /\ p # None BY DEF p
  <1>11. b.map[a] \notin Addr \ {p} OBVIOUS
  <1> HIDE DEF p, s, t
  <1>12. \A q \in Paths(b) : q \in Addr /\ q \in Int BY BodyFields, Bounds
  <1>13. Tiled(c)
    <2>1. ASSUME NEW q \in Addr
          PROVE  IF q \in Paths(c) THEN IsRun(q, c.ops[q]) ELSE c.ops[q] = <<>>
      <3>1. CASE q = p BY <1>1, <1>4, <1>6, <3>1 DEF t
      <3>2. CASE q # p BY <1>5, <1>6, <3>2 DEF Tiled
      <3> QED BY <3>1, <3>2
    <2>2. ASSUME NEW q \in Paths(c), NEW r \in Paths(c), q < r PROVE EndOf(c, q) <= r
      <3>1. EndOf(b, q) <= r BY <1>6, <2>2 DEF Tiled
      <3>2. CASE q = p
        <4>1. a <= r BY <1>9, <3>1, <3>2
        <4>2. r # a
          <5> SUFFICES ASSUME r = a PROVE FALSE
            OBVIOUS
          <5>1. b.map[a] = a BY <1>6 DEF Mapped
          <5>2. a = p BY <1>11, <5>1
          <5> QED BY <1>6, <1>12, <2>2, <3>2, <5>2
        <4> QED BY <1>6, <1>8, <1>12, <3>2, <4>1, <4>2, Bounds
      <3>3. CASE q # p BY <1>6, <1>8, <1>12, <3>1, <3>3
      <3> QED BY <3>2, <3>3
    <2>3. Ordered(c.tree) /\ \A x \in Addr : c.ref[x] \in Range(c.tree) \cup {None}
      BY <1>5 DEF Tiled
    <2> QED BY <2>1, <2>2, <2>3 DEF Tiled
  <1>14. Mapped(c)
    <2>1. ASSUME NEW k \in Addr \cup {Out}, c.map[k] = Gap
          PROVE  \E q \in Paths(c) :
                    q # c.cur /\ c.ops[q] # <<>> /\ EndOf(c, q) = k
      <3>1. PICK q \in Paths(b) :
                    q # b.cur /\ b.ops[q] # <<>> /\ EndOf(b, q) = k
        BY <1>5, <2>1 DEF Mapped
      <3>2. q # p BY <3>1 DEF p
      <3> QED BY <1>5, <1>6, <1>8, <1>12, <3>1, <3>2
    <2>2. ASSUME NEW q \in Paths(c) \ {c.cur} PROVE Closed(c, q)
      <3>1. q \in Paths(b) /\ q # p /\ q \in Addr BY <1>5, <1>6, <1>12, <2>2
      <3>2. Closed(b, q) BY <3>1 DEF Mapped, p
      <3> QED BY <1>5, <1>8, <3>1, <3>2 DEF Closed
    <2>3. c.cur \in Paths(c) \cup {None} BY <1>1, <1>5, <1>6
    <2>4. c.map[Out] \in {None, Gap}
          /\ \A q \in Addr : IF q \in Paths(c) THEN c.map[q] = q ELSE c.map[q] \in {None, Gap}
      BY <1>5, <1>6 DEF Mapped
    <2> QED BY <2>1, <2>2, <2>3, <2>4 DEF Mapped
  <1>15. Contents(c) = Contents(b) \cup Range(Parts(a))
    <2>1. ASSUME NEW o PROVE o \in Contents(c) <=> o \in Contents(b) \/ o \in Range(Parts(a))
      <3>1. o \in Contents(c) <=> \E q \in Addr : o \in Range(c.ops[q]) BY DEF Contents
      <3>2. o \in Contents(b) <=> \E q \in Addr : o \in Range(b.ops[q]) BY DEF Contents
      <3>3. o \in Range(c.ops[p]) <=> o \in Range(b.ops[p]) \/ o \in Range(Parts(a))
        BY <1>3 DEF s, t
      <3>4. \A q \in Addr \ {p} : o \in Range(c.ops[q]) <=> o \in Range(b.ops[q]) BY <1>5
      <3> QED BY <1>1, <3>1, <3>2, <3>3, <3>4
    <2> QED BY <2>1
  <1> QED BY <1>3, <1>5, <1>6, <1>8, <1>9, <1>13, <1>14, <1>15 DEF t

(* The operations of an unknown call are removed again.                    *)
LEMMA RollbackKeeps ==
  ASSUME NEW b \in Body, Tiled(b), Mapped(b), NEW a \in Addr,
         b.cur # None, b.ops[b.cur] # <<>>, Last(b.ops[b.cur]) = <<a, 2>>,
         NEW c \in Body, SameMap(b, c),
         c.ops[b.cur] = SubSeq(b.ops[b.cur], 1, Len(b.ops[b.cur]) - 2)
  PROVE  /\ Tiled(c) /\ Mapped(c) /\ Paths(c) = Paths(b) /\ CurEnds(c, a)
         /\ Contents(c) \subseteq Contents(b)
         /\ Contents(b) \subseteq Contents(c) \cup {<<a, 1>>, <<a, 2>>}
  <1> DEFINE p == b.cur
             s == b.ops[p]
             t == c.ops[p]
  <1>1. p \in Paths(b) /\ p \in Addr /\ s \in Seq(Op) /\ IsRun(p, s)
    BY BodyFields DEF Mapped, Tiled
  <1>2. /\ t \in Seq(Op) /\ IsRun(p, t)
        /\ a = IF t = <<>> THEN p ELSE Last(t)[1] + 1
        /\ Range(s) = Range(t) \cup {<<a, 1>>, <<a, 2>>}
    <2> HIDE DEF p
    <2>1. s # <<>> /\ Last(s) = <<a, 2>> BY DEF p
    <2> HIDE DEF s
    <2>2. LET u == SubSeq(s, 1, Len(s) - 2)
          IN  /\ u \in Seq(Op) /\ IsRun(p, u)
              /\ a = IF u = <<>> THEN p ELSE Last(u)[1] + 1
              /\ Range(s) = Range(u) \cup {<<a, 1>>, <<a, 2>>}
      BY <1>1, <2>1, RunShrinks
    <2>3. t = SubSeq(s, 1, Len(s) - 2) BY DEF p, s
    <2> QED BY <2>2, <2>3
  <1>3. c.tree = b.tree /\ c.map = b.map /\ c.cur = p /\ c.ref = b.ref
        /\ \A q \in Addr \ {p} : c.ops[q] = b.ops[q]
    BY DEF SameMap
  <1>4. Paths(c) = Paths(b) BY <1>3 DEF Paths
  <1>5. EndOf(c, p) = a /\ \A q \in Addr \ {p} : EndOf(c, q) = EndOf(b, q)
    BY <1>2, <1>3 DEF EndOf
  <1>6. EndOf(b, p) = a + 1
    <2>1. <<a, 2>>[1] = a OBVIOUS
    <2> QED BY <2>1 DEF EndOf
  <1> HIDE DEF p, s, t
  <1>7. \A q \in Paths(b) : q \in Addr /\ q \in Int BY BodyFields, Bounds
  <1>8. Tiled(c)
    <2>1. ASSUME NEW q \in Addr
          PROVE  IF q \in Paths(c) THEN IsRun(q, c.ops[q]) ELSE c.ops[q] = <<>>
      <3>1. CASE q = p BY <1>1, <1>2, <1>4, <3>1 DEF t
      <3>2. CASE q # p BY <1>3, <1>4, <3>2 DEF Tiled
      <3> QED BY <3>1, <3>2
    <2>2. ASSUME NEW q \in Paths(c), NEW r \in Paths(c), q < r PROVE EndOf(c, q) <= r
      <3>1. EndOf(b, q) <= r BY <1>4, <2>2 DEF Tiled
      <3>2. CASE q = p BY <1>4, <1>5, <1>6, <1>7, <3>1, <3>2, Bounds
      <3>3. CASE q # p BY <1>4, <1>5, <1>7, <3>1, <3>3
      <3> QED BY <3>2, <3>3
    <2>3. Ordered(c.tree) /\ \A x \in Addr : c.ref[x] \in Range(c.tree) \cup {None}
      BY <1>3 DEF Tiled
    <2> QED BY <2>1, <2>2, <2>3 DEF Tiled
  <1>9. Mapped(c)
    <2>1. ASSUME NEW k \in Addr \cup {Out}, c.map[k] = Gap
          PROVE  \E q \in Paths(c) : q # c.cur /\ c.ops[q] # <<>> /\ EndOf(c, q) = k
      <3>1. PICK q \in Paths(b) : q # b.cur /\ b.ops[q] # <<>> /\ EndOf(b, q) = k
        BY <1>3, <2>1 DEF Mapped
      <3> QED BY <1>3, <1>4, <1>5, <1>7, <3>1 DEF p
    <2>2. ASSUME NEW q \in Paths(c) \ {c.cur} PROVE Closed(c, q)
      <3>1. q \in Paths(b) /\ q # p /\ q \in Addr BY <1>3, <1>4, <1>7, <2>2
      <3>2. Closed(b, q) BY <3>1 DEF Mapped, p
      <3> QED BY <1>3, <1>5, <3>1, <3>2 DEF Closed
    <2>3. c.cur \in Paths(c) \cup {None} BY <1>1, <1>3, <1>4
    <2>4. c.map[Out] \in {None, Gap}
          /\ \A q \in Addr : IF q \in Paths(c) THEN c.map[q] = q ELSE c.map[q] \in {None, Gap}
      BY <1>3, <1>4 DEF Mapped
    <2> QED BY <2>1, <2>2, <2>3, <2>4 DEF Mapped
  <1>10. ASSUME NEW o
         PROVE  /\ o \in Contents(c) => o \in Contents(b)
                /\ o \in Contents(b) => o \in Contents(c) \/ o \in {<<a, 1>>, <<a, 2>>}
    <2>1. o \in Contents(c) <=> \E q \in Addr : o \in Range(c.ops[q]) BY DEF Contents
    <2>2. o \in Contents(b) <=> \E q \in Addr : o \in Range(b.ops[q]) BY DEF Contents
    <2>3. o \in Range(b.ops[p]) <=> o \in Range(c.ops[p]) \/ o \in {<<a, 1>>, <<a, 2>>}
      BY <1>2 DEF s, t
    <2>4. \A q \in Addr \ {p} : o \in Range(c.ops[q]) <=> o \in Range(b.ops[q]) BY <1>3
    <2> QED BY <1>1, <2>1, <2>2, <2>3, <2>4
  <1>11. CurEnds(c, a) BY <1>3, <1>5 DEF CurEnds
  <1> QED BY <1>4, <1>8, <1>9, <1>10, <1>11

(* The tail path comes last; a return refers to it.                        *)
LEMMA TailPathKeeps ==
  ASSUME NEW b \in Body, Tiled(b), Mapped(b)
  PROVE  LET c == CreateTailPath(b)
         IN  /\ c \in Body /\ Tiled(c) /\ Mapped(c) /\ Exit \in Range(c.tree)
             /\ SameRest(b, c) /\ c.ops = b.ops /\ c.cur = b.cur /\ Paths(c) = Paths(b)
  <1> DEFINE c == CreateTailPath(b)
  <1>1. CASE Exit \in Range(b.tree)
    <2>1. c = b BY <1>1 DEF CreateTailPath
    <2> QED BY <1>1, <2>1 DEF SameRest
  <1>2. CASE Exit \notin Range(b.tree)
    <2> DEFINE tree == Append(b.tree, Exit)
    <2>1. c = [b EXCEPT !.tree = tree, !.done = b.done \cup {Exit}]
      BY <1>2 DEF CreateTailPath, Body
    <2>2. b.tree \in Seq(Addr \cup {Exit}) /\ Paths(b) \subseteq Addr /\ Len(b.tree) \in Nat
      BY BodyFields
    <2>3. /\ tree \in Seq(Addr \cup {Exit}) /\ Len(tree) = Len(b.tree) + 1
          /\ \A i \in 1 .. Len(b.tree) : tree[i] = b.tree[i]
          /\ tree[Len(b.tree) + 1] = Exit
          /\ Range(tree) = Range(b.tree) \cup {Exit}
      BY <2>2, AppendOf
    <2> HIDE DEF tree, c
    <2>4. /\ c \in Body /\ c.tree = tree /\ c.map = b.map /\ c.ops = b.ops /\ c.cur = b.cur
          /\ SameRest(b, c)
      <3>1. b.done \cup {Exit} \in SUBSET (Addr \cup {Exit}) BY DEF Body
      <3> QED BY <2>1, <2>3, <3>1 DEF Body, SameRest
    <2>5. Paths(c) = Paths(b) BY <2>3, <2>4 DEF Paths
    <2>6. \A q : EndOf(c, q) = EndOf(b, q) BY <2>4 DEF EndOf
    <2>7. Ordered(c.tree)
      <3>1. ASSUME NEW i \in 1 .. Len(tree), NEW j \in 1 .. Len(tree), i < j
            PROVE  tree[i] # Exit /\ (tree[j] = Exit \/ tree[i] < tree[j])
        <4>1. i \in 1 .. Len(b.tree) /\ tree[i] = b.tree[i] BY <2>2, <2>3, <3>1
        <4>2. tree[i] # Exit BY <1>2, <2>2, <4>1, RangeFacts
        <4>3. CASE j \in 1 .. Len(b.tree)
          <5>1. tree[j] = b.tree[j] BY <2>3, <4>3
          <5> QED BY <3>1, <4>1, <4>3, <5>1 DEF Tiled, Ordered
        <4>4. CASE j \notin 1 .. Len(b.tree)
          <5>1. j = Len(b.tree) + 1 BY <2>2, <2>3, <4>4
          <5> QED BY <2>3, <4>2, <5>1
        <4> QED BY <4>3, <4>4
      <3> QED BY <2>4, <3>1 DEF Ordered
    <2>8. Tiled(c) BY <2>3, <2>4, <2>5, <2>6, <2>7 DEF Tiled, SameRest
    <2>9. Mapped(c) BY <2>4, <2>5, <2>6 DEF Mapped, Closed
    <2>10. Exit \in Range(c.tree) BY <2>3, <2>4
    <2> QED BY <2>4, <2>5, <2>8, <2>9, <2>10 DEF c
  <1> QED BY <1>1, <1>2

LEMMA ReferKeeps ==
  ASSUME NEW b \in Body, Tiled(b), Mapped(b), NEW a \in Addr, NEW to \in Range(b.tree)
  PROVE  LET c == [b EXCEPT !.ref[a] = to]
         IN  /\ c \in Body /\ Tiled(c) /\ Mapped(c)
             /\ c.root = b.root /\ c.sin = b.sin /\ c.last = b.last /\ c.broken = b.broken
             /\ c.ops = b.ops /\ c.cur = b.cur /\ Paths(c) = Paths(b)
  <1> DEFINE ref == [b.ref EXCEPT ![a] = to]
             c == [b EXCEPT !.ref = ref]
  <1>1. [b EXCEPT !.ref[a] = to] = c BY DEF Body
  <1>2. b.ref \in [Addr -> Addr \cup {Exit, None}] /\ Range(b.tree) \subseteq Addr \cup {Exit}
    BY BodyFields
  <1>3. ref \in [Addr -> Addr \cup {Exit, None}] /\ \A x \in Addr : ref[x] \in {b.ref[x], to}
    BY <1>2
  <1> HIDE DEF ref
  <1>4. /\ c \in Body /\ c.ref = ref /\ c.tree = b.tree /\ c.map = b.map
        /\ c.root = b.root /\ c.sin = b.sin /\ c.last = b.last /\ c.broken = b.broken
        /\ c.ops = b.ops /\ c.cur = b.cur
    BY <1>3 DEF Body
  <1> HIDE DEF c
  <1>5. Paths(c) = Paths(b) /\ \A q : EndOf(c, q) = EndOf(b, q) BY <1>4 DEF Paths, EndOf
  <1>6. Tiled(c) BY <1>3, <1>4, <1>5 DEF Tiled
  <1>7. Mapped(c) BY <1>4, <1>5 DEF Mapped, Closed
  <1> QED BY <1>1, <1>4, <1>5, <1>6, <1>7

(* Empty paths nobody refers to are left out.                              *)
LEMMA CleanedKeeps ==
  ASSUME NEW b \in Body, Tiled(b), NEW c \in Body,
         c.tree = Kept(b.tree, {p \in Range(b.tree) : OpsOf(b, p) # <<>> \/ HasRefs(b, p)}),
         c.ops = b.ops, c.ref = b.ref
  PROVE  Tiled(c) /\ Contents(c) = Contents(b)
  <1> DEFINE K == {p \in Range(b.tree) : OpsOf(b, p) # <<>> \/ HasRefs(b, p)}
             Pairs == {pq \in (Addr \cup {Exit}) \X (Addr \cup {Exit}) :
                          pq[1] # Exit /\ (pq[2] = Exit \/ pq[1] < pq[2])}
  <1>1. b.tree \in Seq(Addr \cup {Exit}) /\ Paths(b) \subseteq Addr BY BodyFields
  <1>2. \A i, j \in 1 .. Len(b.tree) : i < j => <<b.tree[i], b.tree[j]>> \in Pairs
    <2> SUFFICES ASSUME NEW i \in 1 .. Len(b.tree), NEW j \in 1 .. Len(b.tree), i < j
                 PROVE  <<b.tree[i], b.tree[j]>> \in Pairs
      OBVIOUS
    <2>1. b.tree[i] \in Addr \cup {Exit} /\ b.tree[j] \in Addr \cup {Exit} BY <1>1
    <2>2. b.tree[i] # Exit /\ (b.tree[j] = Exit \/ b.tree[i] < b.tree[j]) BY DEF Tiled, Ordered
    <2> QED BY <2>1, <2>2
  <1>3. c.tree = Kept(b.tree, K) OBVIOUS
  <1>4. /\ Range(c.tree) = Range(b.tree) \cap K
        /\ \A i, j \in 1 .. Len(c.tree) : i < j => <<c.tree[i], c.tree[j]>> \in Pairs
    <2> HIDE DEF K, Pairs
    <2> QED BY <1>1, <1>2, <1>3, KeptOnes
  <1>5. Ordered(c.tree)
    <2> SUFFICES ASSUME NEW i \in 1 .. Len(c.tree), NEW j \in 1 .. Len(c.tree), i < j
                 PROVE  c.tree[i] # Exit /\ (c.tree[j] = Exit \/ c.tree[i] < c.tree[j])
      BY DEF Ordered
    <2>1. <<c.tree[i], c.tree[j]>> \in Pairs BY <1>4
    <2> QED BY <2>1
  <1>6. Paths(c) \subseteq Paths(b) BY <1>4 DEF Paths
  <1>7. \A q : EndOf(c, q) = EndOf(b, q) BY DEF EndOf
  <1>8. ASSUME NEW q \in Addr
        PROVE  IF q \in Paths(c) THEN IsRun(q, c.ops[q]) ELSE c.ops[q] = <<>>
    <2>1. CASE q \in Paths(c) BY <1>6, <2>1 DEF Tiled
    <2>2. CASE q \in Paths(b) \ Paths(c)
      <3>1. q \in Range(b.tree) /\ q \notin K BY <1>4, <2>2 DEF Paths
      <3>2. OpsOf(b, q) = <<>> BY <3>1
      <3> QED BY <2>2, <3>2 DEF OpsOf
    <2>3. CASE q \notin Paths(b) BY <1>6, <2>3 DEF Tiled
    <2> QED BY <2>1, <2>2, <2>3
  <1>9. ASSUME NEW a \in Addr PROVE c.ref[a] \in Range(c.tree) \cup {None}
    <2>1. c.ref[a] = b.ref[a] /\ b.ref[a] \in Range(b.tree) \cup {None} BY DEF Tiled
    <2>2. b.ref[a] # None => b.ref[a] \in K BY <2>1 DEF HasRefs
    <2> QED BY <1>4, <2>1, <2>2
  <1>10. \A p, q \in Paths(c) : p < q => EndOf(c, p) <= q BY <1>6, <1>7 DEF Tiled
  <1>11. Contents(c) = Contents(b) BY DEF Contents
  <1> QED BY <1>5, <1>8, <1>9, <1>10, <1>11 DEF Tiled

(* A body with the same paths in it.                                       *)
LEMMA SamePaths ==
  ASSUME NEW b \in Body, Tiled(b), NEW c \in Body,
         c.tree = b.tree, c.ops = b.ops, c.ref = b.ref
  PROVE  Tiled(c) /\ Contents(c) = Contents(b) /\ Paths(c) = Paths(b)
  BY DEF Tiled, Contents, Paths, EndOf

(* The current path is left where something is known to begin, for none or *)
(* for an empty one.                                                       *)
LEMMA TurnKeeps ==
  ASSUME NEW b \in Body, Tiled(b), Mapped(b), b.cur # None => Closed(b, b.cur),
         NEW c \in Body, c.tree = b.tree, c.ops = b.ops, c.ref = b.ref, c.map = b.map,
         c.cur = None \/ (c.cur \in Paths(b) /\ b.ops[c.cur] = <<>>)
  PROVE  Tiled(c) /\ Mapped(c) /\ Contents(c) = Contents(b) /\ Paths(c) = Paths(b)
  <1>1. Tiled(c) /\ Contents(c) = Contents(b) /\ Paths(c) = Paths(b) BY SamePaths
  <1>2. \A p : EndOf(c, p) = EndOf(b, p) /\ (Closed(c, p) <=> Closed(b, p))
    BY DEF EndOf, Closed
  <1>3. ASSUME NEW k \in Addr \cup {Out}, c.map[k] = Gap
        PROVE  \E q \in Paths(c) : q # c.cur /\ c.ops[q] # <<>> /\ EndOf(c, q) = k
    <2>1. PICK q \in Paths(b) : q # b.cur /\ b.ops[q] # <<>> /\ EndOf(b, q) = k
      BY <1>3 DEF Mapped
    <2>2. q # None BY <2>1, BodyFields, Bounds
    <2> QED BY <1>1, <1>2, <2>1, <2>2
  <1>4. \A p \in Paths(c) \ {c.cur} : Closed(c, p)
    <2>1. \A p \in Paths(b) : Closed(b, p)
      <3>1. \A p \in Paths(b) : p # None BY BodyFields, Bounds
      <3> QED BY <3>1 DEF Mapped
    <2> QED BY <1>1, <1>2, <2>1
  <1> QED BY <1>1, <1>3, <1>4 DEF Mapped

(* A run that begins at an address holds the instruction there as a whole. *)
LEMMA RunIsWhole ==
  ASSUME NEW p \in Addr, NEW s \in Seq(Op), IsRun(p, s), s # <<>>
  PROVE  Last(Parts(p)) \in Range(s)
  <1>1. /\ Len(s) \in Nat \ {0} /\ s[1] = <<p, 1>> /\ s[Len(s)] = Last(Parts(s[Len(s)][1]))
        /\ \A i \in 1 .. Len(s) - 1 : s[i + 1] = NextOp(s[i])
    BY RunSteps
  <1>2. \A i \in 1 .. Len(s) : s[i] \in Range(s) BY RangeFacts
  <1>3. CASE Last(Parts(p)) = <<p, 1>> BY <1>1, <1>2, <1>3
  <1>4. CASE Last(Parts(p)) # <<p, 1>>
    <2>1. <<p, 1>>[1] = p OBVIOUS
    <2>2. Len(s) # 1 BY <1>1, <1>4, <2>1
    <2>3. 1 \in 1 .. Len(s) - 1 /\ 2 \in 1 .. Len(s)
      <3> DEFINE n == Len(s)
      <3>1. n \in Nat \ {0} /\ n # 1 BY <1>1, <2>2
      <3> HIDE DEF n
      <3>2. n - 1 \in Nat /\ 1 <= n - 1 /\ 2 <= n BY <3>1
      <3>3. 1 \in 1 .. n - 1 /\ 2 \in 1 .. n BY <3>1, <3>2
      <3> QED BY <3>3 DEF n
    <2>4. s[1 + 1] = NextOp(s[1]) /\ 1 + 1 = 2 BY <1>1, <2>3
    <2>5. NextOp(<<p, 1>>) = <<p, 2>> BY <1>4, <2>1 DEF NextOp
    <2>6. Last(Parts(p)) = <<p, 2>> BY <1>4, LastPart
    <2> QED BY <1>1, <1>2, <2>3, <2>4, <2>5, <2>6
  <1> QED BY <1>3, <1>4

(* What the current path ends before is in no path, unless one is known to *)
(* begin there.                                                            *)
LEMMA NotThereYet ==
  ASSUME NEW b \in Body, Tiled(b), Mapped(b), NEW a \in Addr,
         b.cur # None, EndOf(b, b.cur) = a, b.map[a] \notin Addr \ {b.cur}
  PROVE  Last(Parts(a)) \notin Contents(b)
  <1> SUFFICES ASSUME NEW q \in Addr, Last(Parts(a)) \in Range(b.ops[q])
               PROVE  FALSE
    BY DEF Contents
  <1>1. b.ops[q] \in Seq(Op) /\ b.ops[q] # <<>>
    <2>1. Range(<<>>) = {} BY DEF Range
    <2> QED BY <2>1, BodyFields
  <1>2. q \in Paths(b) /\ IsRun(q, b.ops[q]) BY <1>1 DEF Tiled
  <1>3. PICK i \in 1 .. Len(b.ops[q]) : b.ops[q][i] = Last(Parts(a))
    <2>1. \A e \in Range(b.ops[q]) : \E i \in 1 .. Len(b.ops[q]) : b.ops[q][i] = e
      BY <1>1, RangeFacts
    <2> QED BY <2>1
  <1>4. Last(Parts(a))[1] = a BY LastPart
  <1>5. q <= a /\ a <= Last(b.ops[q])[1] /\ EndOf(b, q) = Last(b.ops[q])[1] + 1
    BY <1>1, <1>2, <1>3, <1>4, RunLiesWithin DEF EndOf
  <1>6. Last(b.ops[q])[1] \in Addr BY <1>1, <1>2, RunLiesWithin
  <1>7. b.cur \in Paths(b) /\ b.cur \in Addr BY BodyFields DEF Mapped
  <1>8. q = b.cur => a = Last(b.ops[q])[1] + 1 BY <1>5
  <1>9. q # b.cur BY <1>5, <1>6, <1>8, Bounds
  <1>10. CASE q < b.cur
    <2>1. EndOf(b, q) <= b.cur BY <1>2, <1>7, <1>10 DEF Tiled
    <2>2. b.cur <= a BY <1>7, EndOfBounds
    <2> QED BY <1>5, <1>6, <1>7, <2>1, <2>2, Bounds
  <1>11. CASE b.cur < q
    <2>1. a <= q BY <1>2, <1>7, <1>11 DEF Tiled
    <2>2. q = a BY <1>5, <2>1, Bounds
    <2>3. b.map[a] = a BY <1>2, <2>2 DEF Mapped
    <2> QED BY <1>9, <2>2, <2>3
  <1> QED BY <1>7, <1>9, <1>10, <1>11, Bounds
=============================================================================

---------------------------- MODULE SetsAndQueues ----------------------------
(***************************************************************************)
(* What the proofs need of finite sets, sums and queues.                   *)
(*                                                                         *)
(* Induction over finite sets and numbers without an operator parameter: a *)
(* nonempty set of subsets of a finite set has a smallest element, and so  *)
(* has a nonempty set of numbers; a smallest counterexample is then shown  *)
(* to have a smaller one.  What SumFunctionOnSet, a recursive function on  *)
(* the subsets of a set, adds up to is proved in this way.                 *)
(***************************************************************************)
EXTENDS SequencesExt, FiniteSetTheorems, SequenceTheorems, TLAPS

LEMMA SmallestSubset ==
  ASSUME NEW S, IsFiniteSet(S), NEW W, W \subseteq SUBSET S, W # {}
  PROVE  \E T \in W : \A U \in W : U \subseteq T => U = T
<1>1. IsWellFoundedOn(StrictSubsetOrdering(S), FiniteSubsetsOf(S))
  BY FS_StrictSubsetOrderingWellFounded
<1>2. IsWellFoundedOn(StrictSubsetOrdering(S), SUBSET S)
  BY <1>1, FS_FiniteSubsetsOfFinite
<1>3. \E T \in W : \A U \in W : ~ (<<U, T>> \in StrictSubsetOrdering(S))
  BY <1>2, WFMin
<1> QED
  BY <1>3 DEF StrictSubsetOrdering

LEMMA SmallestNumber ==
  ASSUME NEW S, S \subseteq Nat, S # {}
  PROVE  \E x \in S : \A y \in S : x <= y
<1> DEFINE R == OpToRel(<, Nat)
<1>1. IsWellFoundedOn(R, Nat)
  BY NatLessThanWellFounded
<1>2. \A x, y \in Nat : y < x => <<y, x>> \in R
  BY DEF OpToRel
<1> HIDE DEF R
<1>3. PICK x \in S : \A y \in S : ~ (<<y, x>> \in R)
  BY <1>1, WFMin
<1>4. \A y \in S : ~(y < x)
  BY <1>2, <1>3
<1> QED BY <1>4

LEMMA LargestNumber ==
  ASSUME NEW n \in Nat, NEW S, S \subseteq 0 .. n, S # {}
  PROVE  \E x \in S : \A y \in S : y <= x
<1> DEFINE D == {n - y : y \in S}
<1>1. D \subseteq Nat /\ D # {}
  <2>1. \A y \in S : n - y \in Nat
    OBVIOUS
  <2> QED BY <2>1
<1> HIDE DEF D
<1>2. PICK d \in D : \A e \in D : d <= e
  BY <1>1, SmallestNumber
<1>3. PICK x \in S : d = n - x
  BY DEF D
<1>4. \A y \in S : n - x <= n - y
  BY <1>2, <1>3 DEF D
<1> QED BY <1>4

-----------------------------------------------------------------------------
(* The recursion behind SumFunctionOnSet: its element, and its equation.   *)
Pick(s) == CHOOSE x \in s : TRUE

Adds(f, S, g) ==
  g = [s \in SUBSET S |-> IF s = {} THEN 0 ELSE f[Pick(s)] + g[s \ {Pick(s)}]]

LEMMA PickIn == \A s : s # {} => Pick(s) \in s
  BY DEF Pick

LEMMA SumIsAdds == \A f, S : SumFunctionOnSet(f, S) = (CHOOSE g : Adds(f, S, g))[S]
  BY DEF SumFunctionOnSet, FoldFunctionOnSet, MapThenFoldSet, Adds, Pick

LEMMA AddsUnique ==
  ASSUME NEW f, NEW S, IsFiniteSet(S), NEW g, Adds(f, S, g),
         NEW T \in SUBSET S, NEW h, Adds(f, T, h)
  PROVE  \A s \in SUBSET T : g[s] = h[s]
<1> DEFINE W == {s \in SUBSET T : g[s] # h[s]}
<1> SUFFICES ASSUME W # {} PROVE FALSE
  OBVIOUS
<1>1. PICK U \in W : \A V \in W : V \subseteq U => V = U
  <2>1. W \subseteq SUBSET S
    OBVIOUS
  <2> HIDE DEF W
  <2> QED BY <2>1, SmallestSubset
<1>2. CASE U = {}
  BY <1>1, <1>2 DEF Adds
<1>3. CASE U # {}
  <2>1. Pick(U) \in U
    BY <1>3, PickIn
  <2>2. U \ {Pick(U)} \notin W
    BY <1>1, <2>1
  <2>3. /\ g[U] = f[Pick(U)] + g[U \ {Pick(U)}]
        /\ h[U] = f[Pick(U)] + h[U \ {Pick(U)}]
    BY <1>1, <1>3 DEF Adds
  <2> QED BY <1>1, <2>2, <2>3
<1> QED BY <1>2, <1>3

(* A smallest set without a solution would have one, put together from     *)
(* those of its proper subsets.                                            *)
LEMMA AddsExists ==
  ASSUME NEW f, NEW S, IsFiniteSet(S)
  PROVE  \E g : Adds(f, S, g)
<1> DEFINE W == {T \in SUBSET S : ~ \E g : Adds(f, T, g)}
<1> SUFFICES ASSUME W # {} PROVE FALSE
  OBVIOUS
<1>1. PICK T \in W : \A V \in W : V \subseteq T => V = T
  <2>1. W \subseteq SUBSET S
    OBVIOUS
  <2> HIDE DEF W
  <2> QED BY <2>1, SmallestSubset
<1> DEFINE G(s) == CHOOSE g : Adds(f, s, g)
           rest == T \ {Pick(T)}
           h    == [s \in SUBSET T |->
                      IF s # T THEN G(s)[s]
                      ELSE IF T = {} THEN 0 ELSE f[Pick(T)] + G(rest)[rest]]
<1>2. ASSUME NEW s \in SUBSET T, s # T PROVE Adds(f, s, G(s))
  BY <1>1, <1>2
<1>3. ASSUME NEW s \in SUBSET T
      PROVE  h[s] = IF s = {} THEN 0 ELSE f[Pick(s)] + h[s \ {Pick(s)}]
  <2>1. CASE s = {} /\ s = T
    BY <2>1
  <2>2. CASE s = {} /\ s # T
    <3>1. Adds(f, s, G(s))
      BY <1>2, <2>2
    <3> HIDE DEF G
    <3>2. G(s)[s] = 0
      BY <3>1, <2>2 DEF Adds
    <3> QED BY <2>2, <3>2
  <2>3. CASE s # {}
    <3> DEFINE less == s \ {Pick(s)}
    <3>1. less \in SUBSET s /\ less # T /\ less \in SUBSET T
      BY <2>3, PickIn
    <3>2. h[less] = G(less)[less]
      BY <3>1
    <3>3. CASE s = T
      BY <3>2, <3>3, <2>3
    <3>4. CASE s # T
      <4>1. Adds(f, s, G(s)) /\ Adds(f, less, G(less))
        BY <1>2, <3>1, <3>4
      <4>2. IsFiniteSet(s)
        BY FS_Subset
      <4>3. G(s)[less] = G(less)[less]
        <5>1. less \in SUBSET s /\ less \in SUBSET less
          BY <3>1
        <5> HIDE DEF G, less
        <5> QED BY <4>1, <4>2, <5>1, AddsUnique
      <4>4. G(s)[s] = f[Pick(s)] + G(s)[less]
        BY <4>1, <2>3 DEF Adds
      <4> QED BY <3>2, <3>4, <4>3, <4>4, <2>3
    <3> QED BY <3>3, <3>4
  <2> QED BY <2>1, <2>2, <2>3
<1>4. Adds(f, T, h)
  <2>1. h = [s \in SUBSET T |-> h[s]]
    OBVIOUS
  <2> HIDE DEF h
  <2> QED BY <1>3, <2>1 DEF Adds
<1> QED BY <1>1, <1>4

LEMMA SumOfAdds ==
  ASSUME NEW f, NEW S, IsFiniteSet(S), NEW g, Adds(f, S, g), NEW T \in SUBSET S
  PROVE  SumFunctionOnSet(f, T) = g[T]
<1>1. IsFiniteSet(T)
  BY FS_Subset
<1>2. PICK h : h = CHOOSE x : Adds(f, T, x)
  OBVIOUS
<1>3. Adds(f, T, h)
  BY <1>1, <1>2, AddsExists
<1>4. SumFunctionOnSet(f, T) = h[T]
  BY <1>2, SumIsAdds
<1> QED BY <1>3, <1>4, AddsUnique

-----------------------------------------------------------------------------
(* The facts used elsewhere.                                               *)

LEMMA SumEmpty == \A f : SumFunctionOnSet(f, {}) = 0
<1> SUFFICES ASSUME NEW f PROVE SumFunctionOnSet(f, {}) = 0
  OBVIOUS
<1>1. IsFiniteSet({})
  BY FS_EmptySet
<1>2. PICK g : Adds(f, {}, g)
  BY <1>1, AddsExists
<1>3. g[{}] = 0
  BY <1>2 DEF Adds
<1> QED BY <1>1, <1>2, <1>3, SumOfAdds

LEMMA SumPicks ==
  ASSUME NEW f, NEW S, IsFiniteSet(S), S # {}
  PROVE  SumFunctionOnSet(f, S) = f[Pick(S)] + SumFunctionOnSet(f, S \ {Pick(S)})
<1>1. PICK g : Adds(f, S, g)
  BY AddsExists
<1>2. g[S] = f[Pick(S)] + g[S \ {Pick(S)}]
  BY <1>1 DEF Adds
<1> QED BY <1>1, <1>2, SumOfAdds

LEMMA SumType ==
  ASSUME NEW f, NEW S, IsFiniteSet(S), \A x \in S : f[x] \in Nat
  PROVE  SumFunctionOnSet(f, S) \in Nat
<1> DEFINE W == {T \in SUBSET S : SumFunctionOnSet(f, T) \notin Nat}
<1> SUFFICES ASSUME W # {} PROVE FALSE
  OBVIOUS
<1>1. PICK U \in W : \A V \in W : V \subseteq U => V = U
  <2>1. W \subseteq SUBSET S
    OBVIOUS
  <2> HIDE DEF W
  <2> QED BY <2>1, SmallestSubset
<1>2. U # {}
  <2>1. SumFunctionOnSet(f, U) \notin Nat
    BY <1>1
  <2> QED BY <2>1, SumEmpty
<1>3. Pick(U) \in U
  BY <1>2, PickIn
<1>4. U \ {Pick(U)} \notin W
  BY <1>1, <1>3
<1>5. SumFunctionOnSet(f, U) = f[Pick(U)] + SumFunctionOnSet(f, U \ {Pick(U)})
  BY <1>2, SumPicks, FS_Subset
<1> QED BY <1>1, <1>3, <1>4, <1>5

(* Any element may be taken first.  In a smallest set where that fails for *)
(* x it holds for the element picked, and both may be taken from the rest. *)
LEMMA SumRemove ==
  ASSUME NEW f, NEW S, IsFiniteSet(S), \A x \in S : f[x] \in Nat, NEW e \in S
  PROVE  SumFunctionOnSet(f, S) = f[e] + SumFunctionOnSet(f, S \ {e})
<1> DEFINE Bad(T, x) == SumFunctionOnSet(f, T) # f[x] + SumFunctionOnSet(f, T \ {x})
           W == {T \in SUBSET S : \E x \in T : Bad(T, x)}
<1> SUFFICES ASSUME W # {} PROVE FALSE
  OBVIOUS
<1>1. PICK U \in W : \A V \in W : V \subseteq U => V = U
  <2>1. W \subseteq SUBSET S
    OBVIOUS
  <2> HIDE DEF W
  <2> QED BY <2>1, SmallestSubset
<1>2. PICK x \in U : Bad(U, x)
  BY <1>1
<1>3. PICK y \in U : ~Bad(U, y)
  <2>1. Pick(U) \in U /\ IsFiniteSet(U)
    BY <1>2, PickIn, FS_Subset
  <2> QED BY <2>1, SumPicks
<1>4. x # y
  BY <1>2, <1>3
<1>5. U \ {x} \notin W /\ U \ {y} \notin W
  BY <1>1, <1>3
<1>6. ~Bad(U \ {x}, y) /\ ~Bad(U \ {y}, x)
  BY <1>4, <1>5
<1>7. (U \ {x}) \ {y} = (U \ {y}) \ {x}
  OBVIOUS
<1>8. SumFunctionOnSet(f, (U \ {x}) \ {y}) \in Nat
  BY SumType, FS_Subset
<1> QED BY <1>2, <1>3, <1>6, <1>7, <1>8

(* Only the summands count.                                                *)
LEMMA SumSame ==
  ASSUME NEW S, IsFiniteSet(S), NEW f, NEW g, \A x \in S : f[x] = g[x]
  PROVE  SumFunctionOnSet(f, S) = SumFunctionOnSet(g, S)
<1> DEFINE W == {T \in SUBSET S : SumFunctionOnSet(f, T) # SumFunctionOnSet(g, T)}
<1> SUFFICES ASSUME W # {} PROVE FALSE
  OBVIOUS
<1>1. PICK U \in W : \A V \in W : V \subseteq U => V = U
  <2>1. W \subseteq SUBSET S
    OBVIOUS
  <2> HIDE DEF W
  <2> QED BY <2>1, SmallestSubset
<1>2. U # {}
  <2>1. SumFunctionOnSet(f, U) # SumFunctionOnSet(g, U)
    BY <1>1
  <2> QED BY <2>1, SumEmpty
<1>3. Pick(U) \in U /\ IsFiniteSet(U)
  BY <1>2, PickIn, FS_Subset
<1>4. U \ {Pick(U)} \notin W
  BY <1>1, <1>3
<1>5. /\ SumFunctionOnSet(f, U) = f[Pick(U)] + SumFunctionOnSet(f, U \ {Pick(U)})
      /\ SumFunctionOnSet(g, U) = g[Pick(U)] + SumFunctionOnSet(g, U \ {Pick(U)})
  BY <1>2, <1>3, SumPicks
<1> QED BY <1>1, <1>3, <1>4, <1>5

(* A sum in two parts.                                                     *)
LEMMA SumDifference ==
  ASSUME NEW f, NEW S, IsFiniteSet(S), \A x \in S : f[x] \in Nat, NEW T \in SUBSET S
  PROVE  SumFunctionOnSet(f, S) = SumFunctionOnSet(f, T) + SumFunctionOnSet(f, S \ T)
<1> DEFINE Sum(U) == SumFunctionOnSet(f, U)
           W == {U \in SUBSET S : Sum(S) # Sum(U) + Sum(S \ U)}
<1> SUFFICES ASSUME W # {} PROVE FALSE
  OBVIOUS
<1>1. PICK U \in W : \A V \in W : V \subseteq U => V = U
  <2>1. W \subseteq SUBSET S
    OBVIOUS
  <2> HIDE DEF W
  <2> QED BY <2>1, SmallestSubset
<1>2. U # {}
  <2>1. Sum(S) \in Nat /\ Sum({}) = 0 /\ S \ {} = S
    BY SumType, SumEmpty
  <2>2. Sum(S) # Sum(U) + Sum(S \ U)
    BY <1>1
  <2> HIDE DEF Sum
  <2> QED BY <2>1, <2>2
<1>3. PICK e : e \in U
  BY <1>2
<1> DEFINE V == U \ {e}
           R == S \ V
<1>4. Sum(S) = Sum(V) + Sum(R)
  BY <1>1, <1>3
<1>5. IsFiniteSet(U) /\ IsFiniteSet(V) /\ IsFiniteSet(R) /\ IsFiniteSet(S \ U)
  BY <1>1, FS_Subset
<1>6. Sum(U) = f[e] + Sum(V)
  BY <1>1, <1>3, <1>5, SumRemove
<1>7. Sum(R) = f[e] + Sum(S \ U)
  <2>1. e \in R /\ R \ {e} = S \ U /\ \A x \in R : f[x] \in Nat
    BY <1>1, <1>3
  <2> QED BY <1>5, <2>1, SumRemove
<1>8. Sum(V) \in Nat /\ Sum(S \ U) \in Nat /\ f[e] \in Nat
  BY <1>1, <1>3, <1>5, SumType
<1>9. Sum(S) # Sum(U) + Sum(S \ U)
  BY <1>1
<1> HIDE DEF Sum
<1> QED BY <1>4, <1>6, <1>7, <1>8, <1>9
-----------------------------------------------------------------------------
(* Queues in which a name is moved to the end.                             *)
NoRepeats(q) == \A j, k \in DOMAIN q : j # k => q[j] # q[k]

LEMMA MinIsLeast ==
  ASSUME NEW S, S \subseteq Nat, S # {}
  PROVE  Min(S) \in S /\ \A x \in S : Min(S) <= x
<1>1. \E x \in S : \A y \in S : x <= y
  BY SmallestNumber
<1> QED BY <1>1 DEF Min

LEMMA Part ==
  ASSUME NEW S, NEW q \in Seq(S)
  PROVE  /\ \A n \in 0 .. Len(q) :
              LET t == SubSeq(q, n + 1, Len(q))
              IN  /\ t \in Seq(S) /\ Len(t) = Len(q) - n
                  /\ \A k \in 1 .. Len(q) - n : t[k] = q[k + n]
         /\ \A n \in 0 .. Len(q) :
              LET t == SubSeq(q, 1, n)
              IN  t \in Seq(S) /\ Len(t) = n /\ \A k \in 1 .. n : t[k] = q[k]
<1>1. ASSUME NEW n \in 0 .. Len(q)
      PROVE  LET t == SubSeq(q, n + 1, Len(q))
             IN  /\ t \in Seq(S) /\ Len(t) = Len(q) - n
                 /\ \A k \in 1 .. Len(q) - n : t[k] = q[k + n]
  <2>1. Len(SubSeq(q, n + 1, Len(q))) = Len(q) - n
    BY SubSeqProperties
  <2> QED BY <2>1, SubSeqProperties
<1>2. ASSUME NEW n \in 0 .. Len(q)
      PROVE  LET t == SubSeq(q, 1, n)
             IN  t \in Seq(S) /\ Len(t) = n /\ \A k \in 1 .. n : t[k] = q[k]
  BY SubSeqProperties
<1> QED BY <1>1, <1>2

LEMMA Dropped ==
  ASSUME NEW S, NEW q \in Seq(S), NEW e
  PROVE  /\ RemoveFirst(q, e) \in Seq(S)
         /\ ToSet(q) \ {e} \subseteq ToSet(RemoveFirst(q, e))
         /\ ToSet(RemoveFirst(q, e)) \subseteq ToSet(q)
         /\ NoRepeats(q) => NoRepeats(RemoveFirst(q, e)) /\ e \notin ToSet(RemoveFirst(q, e))
<1> DEFINE at == {k \in 1 .. Len(q) : q[k] = e}
<1>1. CASE at = {}
  <2>1. RemoveFirst(q, e) = q /\ e \notin ToSet(q)
    BY <1>1 DEF RemoveFirst, ToSet
  <2> QED BY <2>1
<1>2. CASE at # {}
  <2> DEFINE i == Min(at)
             t == SubSeq(q, 1, i - 1) \o SubSeq(q, i + 1, Len(q))
  <2>1. RemoveFirst(q, e) = t
    <3>1. SelectInSeq(q, LAMBDA v : v = e) = i
      BY <1>2 DEF SelectInSeq
    <3> QED BY <1>2, <3>1 DEF RemoveFirst, RemoveAt
  <2>2. i \in 1 .. Len(q) /\ q[i] = e
    <3>1. at \subseteq Nat
      OBVIOUS
    <3>2. i \in at
      BY <1>2, <3>1, MinIsLeast
    <3> QED BY <3>2
  <2> HIDE DEF i
  <2>3. /\ t \in Seq(S) /\ Len(t) = Len(q) - 1
        /\ \A k \in 1 .. Len(q) - 1 : t[k] = q[IF k < i THEN k ELSE k + 1]
    <3> DEFINE a == SubSeq(q, 1, i - 1)
               b == SubSeq(q, i + 1, Len(q))
    <3>1. a \in Seq(S) /\ Len(a) = i - 1 /\ \A k \in 1 .. i - 1 : a[k] = q[k]
      BY <2>2, Part
    <3>2. b \in Seq(S) /\ Len(b) = Len(q) - i /\ \A k \in 1 .. Len(q) - i : b[k] = q[k + i]
      BY <2>2, Part
    <3>3. t = a \o b
      OBVIOUS
    <3> HIDE DEF t, a, b
    <3>4. t \in Seq(S) /\ Len(t) = Len(q) - 1
      BY <2>2, <3>1, <3>2, <3>3
    <3>5. ASSUME NEW k \in 1 .. Len(q) - 1, k < i PROVE t[k] = q[k]
      BY <2>2, <3>1, <3>2, <3>3, <3>5
    <3>6. ASSUME NEW k \in 1 .. Len(q) - 1, ~(k < i) PROVE t[k] = q[k + 1]
      <4>1. t[k] = b[k - (i - 1)]
        BY <2>2, <3>1, <3>2, <3>3, <3>6
      <4>2. k - (i - 1) \in 1 .. Len(q) - i /\ (k - (i - 1)) + i = k + 1
        BY <2>2, <3>6
      <4> QED BY <3>2, <4>1, <4>2
    <3> QED BY <3>4, <3>5, <3>6
  <2> HIDE DEF t, at
  <2>4. ToSet(q) \ {e} \subseteq ToSet(t)
    <3> SUFFICES ASSUME NEW k \in DOMAIN q, q[k] # e PROVE q[k] \in ToSet(t)
      BY DEF ToSet
    <3>1. k # i /\ k \in 1 .. Len(q)
      BY <2>2
    <3>2. CASE k < i
      BY <2>2, <2>3, <3>1, <3>2 DEF ToSet
    <3>3. CASE k > i
      <4>1. k - 1 \in DOMAIN t /\ t[k - 1] = q[k]
        BY <2>2, <2>3, <3>1, <3>3
      <4> QED BY <4>1 DEF ToSet
    <3> QED BY <2>2, <3>1, <3>2, <3>3
  <2>5. ToSet(t) \subseteq ToSet(q)
    BY <2>2, <2>3 DEF ToSet
  <2>6. ASSUME NoRepeats(q) PROVE NoRepeats(t) /\ e \notin ToSet(t)
    <3>1. \A j, k \in 1 .. Len(q) : j # k => q[j] # q[k]
      BY <2>6 DEF NoRepeats
    <3> DEFINE from(k) == IF k < i THEN k ELSE k + 1
    <3>2. \A k \in 1 .. Len(q) - 1 : from(k) \in 1 .. Len(q) /\ from(k) # i
      BY <2>2
    <3>3. \A j, k \in 1 .. Len(q) - 1 : j # k => from(j) # from(k)
      BY <2>2
    <3>4. DOMAIN t = 1 .. Len(q) - 1 /\ \A k \in 1 .. Len(q) - 1 : t[k] = q[from(k)]
      BY <2>3
    <3> HIDE DEF from
    <3> QED BY <2>2, <3>1, <3>2, <3>3, <3>4 DEF NoRepeats, ToSet
  <2> QED BY <2>1, <2>3, <2>4, <2>5, <2>6
<1> QED BY <1>1, <1>2

LEMMA Queued ==
  ASSUME NEW S, NEW q \in Seq(S), NEW e \in S
  PROVE  /\ Append(q, e) \in Seq(S) /\ ToSet(Append(q, e)) = ToSet(q) \cup {e}
         /\ NoRepeats(q) /\ e \notin ToSet(q) => NoRepeats(Append(q, e))
<1>1. /\ Append(q, e) \in Seq(S) /\ DOMAIN Append(q, e) = 1 .. Len(q) + 1 /\ DOMAIN q = 1 .. Len(q)
      /\ Append(q, e)[Len(q) + 1] = e /\ Len(q) \in Nat
      /\ \A k \in 1 .. Len(q) : Append(q, e)[k] = q[k]
  OBVIOUS
<1>2. ToSet(Append(q, e)) \subseteq ToSet(q) \cup {e}
  BY <1>1 DEF ToSet
<1>3. ToSet(q) \subseteq ToSet(Append(q, e)) /\ e \in ToSet(Append(q, e))
  BY <1>1 DEF ToSet
<1>4. NoRepeats(q) /\ e \notin ToSet(q) => NoRepeats(Append(q, e))
  BY <1>1 DEF NoRepeats, ToSet
<1> QED BY <1>1, <1>2, <1>3, <1>4

LEMMA Moved ==
  ASSUME NEW S, NEW q \in Seq(S), NEW e \in S
  PROVE  /\ Append(RemoveFirst(q, e), e) \in Seq(S)
         /\ ToSet(Append(RemoveFirst(q, e), e)) = ToSet(q) \cup {e}
         /\ NoRepeats(q) => NoRepeats(Append(RemoveFirst(q, e), e))
<1> DEFINE t == RemoveFirst(q, e)
<1>1. /\ t \in Seq(S) /\ ToSet(q) \ {e} \subseteq ToSet(t) /\ ToSet(t) \subseteq ToSet(q)
      /\ NoRepeats(q) => NoRepeats(t) /\ e \notin ToSet(t)
  BY Dropped
<1> HIDE DEF t
<1>2. /\ Append(t, e) \in Seq(S) /\ ToSet(Append(t, e)) = ToSet(t) \cup {e}
      /\ NoRepeats(t) /\ e \notin ToSet(t) => NoRepeats(Append(t, e))
  BY <1>1, Queued
<1>3. ToSet(Append(t, e)) = ToSet(q) \cup {e}
  BY <1>1, <1>2
<1> QED BY <1>1, <1>2, <1>3 DEF t

(* The rest of a queue; Tail of the empty one is the empty one.            *)
LEMMA TailOf ==
  ASSUME NEW S, NEW q \in Seq(S)
  PROVE  Tail(q) \in Seq(S) /\ ToSet(Tail(q)) \subseteq ToSet(q)
<1>1. CASE q = << >>
  <2>1. Tail(q) = << >>
    BY <1>1
  <2> QED BY <1>1, <2>1 DEF ToSet
<1>2. CASE q # << >>
  BY <1>2 DEF ToSet
<1> QED BY <1>1, <1>2

LEMMA Popped ==
  ASSUME NEW S, NEW q \in Seq(S), NEW n \in 0 .. Len(q), NoRepeats(q),
         NEW t, t = SubSeq(q, n + 1, Len(q))
  PROVE  /\ t \in Seq(S) /\ NoRepeats(t)
         /\ ToSet(t) = ToSet(q) \ {q[k] : k \in 1 .. n}
<1>1. /\ t \in Seq(S) /\ Len(t) = Len(q) - n
      /\ \A k \in 1 .. Len(q) - n : t[k] = q[k + n]
  BY Part
<1>2. NoRepeats(t)
  BY <1>1 DEF NoRepeats
<1>3. ToSet(t) \subseteq ToSet(q) \ {q[k] : k \in 1 .. n}
  BY <1>1 DEF NoRepeats, ToSet
<1>4. ToSet(q) \ {q[k] : k \in 1 .. n} \subseteq ToSet(t)
  <2> SUFFICES ASSUME NEW k \in DOMAIN q, q[k] \notin {q[j] : j \in 1 .. n}
               PROVE  q[k] \in ToSet(t)
    BY DEF ToSet
  <2>1. k \in n + 1 .. Len(q)
    OBVIOUS
  <2>2. k - n \in DOMAIN t /\ t[k - n] = q[k]
    BY <1>1, <2>1
  <2> QED BY <2>2 DEF ToSet
<1> QED BY <1>1, <1>2, <1>3, <1>4

=============================================================================

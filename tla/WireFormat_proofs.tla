--------------------------- MODULE WireFormat_proofs ---------------------------
(***************************************************************************)
(* What the generators compute about a set of structs, for any structs.     *)
(*                                                                         *)
(* Values, Total and struct_wire_size are recursive functions. That there   *)
(* are such functions, and what they return, is shown by induction over the  *)
(* naturals, which is stated here for sets: a set with 0 and with the        *)
(* successors of its elements has all of Nat (Induction), since Nat is       *)
(* well-founded.                                                            *)
(***************************************************************************)
EXTENDS WireFormat, FiniteSetTheorems, SequenceTheorems, TLAPS

\* Induction: of the numbers that are not in T one would be the least.
LEMMA Induction ==
    ASSUME NEW T, 0 \in T, \A n \in T : n \in Nat => n + 1 \in T
    PROVE  Nat \subseteq T
<1> SUFFICES ASSUME Nat \ T # {}
             PROVE  FALSE
  OBVIOUS
<1> DEFINE S == Nat \ T
<1>1. \E x \in S : \A y \in S : <<y, x>> \notin OpToRel(<, Nat)
  <2>1. S \subseteq Nat /\ S # {}
    OBVIOUS
  <2> HIDE DEF S
  <2>2. QED
    BY <2>1, NatLessThanWellFounded, WFMin
<1>2. PICK x \in S : \A y \in S : ~(y < x)
  BY <1>1 DEF OpToRel
<1>3. x \in Nat /\ x # 0 /\ x - 1 \in Nat /\ x - 1 < x /\ (x - 1) + 1 = x
  BY <1>2
<1>4. x - 1 \in T
  BY <1>2, <1>3
<1>5. x \in T
  BY <1>3, <1>4
<1>6. QED
  BY <1>5

\* Recursion: a first value, and a step F from the value at n to the one at n + 1.
Defined(A, a, F) == \E f \in [Nat -> A] : f[0] = a /\ \A n \in Nat : f[n + 1] = F[n][f[n]]
Recursive(f, a, F, n) == f[0] = a /\ \A k \in 0 .. n - 1 : f[k + 1] = F[k][f[k]]

\* There is a function with these values.
LEMMA Recursion ==
    ASSUME NEW A, NEW a \in A, NEW F \in [Nat -> [A -> A]]
    PROVE  Defined(A, a, F)
<1> DEFINE T == {n \in Nat : \E f \in [Nat -> A] : Recursive(f, a, F, n)}
<1>1. Nat \subseteq T
  <2>1. 0 \in T
    <3>1. [n \in Nat |-> a] \in [Nat -> A] /\ Recursive([n \in Nat |-> a], a, F, 0)
      BY DEF Recursive
    <3>2. QED
      BY <3>1
  <2>2. ASSUME NEW n \in T
        PROVE  n + 1 \in T
    <3>1. PICK f \in [Nat -> A] : Recursive(f, a, F, n)
      OBVIOUS
    <3> DEFINE g == [f EXCEPT ![n + 1] = F[n][f[n]]]
    <3>2. n \in Nat /\ n + 1 \in Nat /\ g \in [Nat -> A]
      OBVIOUS
    <3>3. g[n + 1] = F[n][f[n]] /\ \A k \in 0 .. n : g[k] = f[k]
      BY <3>2
    <3> HIDE DEF g
    <3>4. Recursive(g, a, F, n + 1)
      <4>1. g[0] = a
        BY <3>1, <3>2, <3>3 DEF Recursive
      <4>2. ASSUME NEW k \in 0 .. (n + 1) - 1
            PROVE  g[k + 1] = F[k][g[k]]
        <5>1. CASE k = n
          BY <3>2, <3>3, <5>1
        <5>2. CASE k # n
          <6>1. k \in 0 .. n - 1 /\ k \in 0 .. n /\ k + 1 \in 0 .. n
            BY <3>2, <5>2
          <6>2. QED
            BY <3>1, <3>3, <6>1 DEF Recursive
        <5>3. QED
          BY <5>1, <5>2
      <4>3. QED
        BY <4>1, <4>2 DEF Recursive
    <3>5. QED
      BY <3>2, <3>4
  <2> HIDE DEF T
  <2>3. QED
    BY <2>1, <2>2, Induction
<1> DEFINE G(n) == CHOOSE f \in [Nat -> A] : Recursive(f, a, F, n)
<1>2. \A n \in Nat : G(n) \in [Nat -> A] /\ Recursive(G(n), a, F, n)
  BY <1>1
<1> HIDE DEF G
<1>3. ASSUME NEW n \in Nat
      PROVE  G(n + 1)[n] = G(n)[n]
  <2> DEFINE U == {k \in Nat : k <= n => G(n + 1)[k] = G(n)[k]}
  <2>1. Recursive(G(n), a, F, n) /\ Recursive(G(n + 1), a, F, n + 1)
    BY <1>2
  <2>2. Nat \subseteq U
    <3>1. 0 \in U
      BY <2>1 DEF Recursive
    <3>2. ASSUME NEW k \in U
          PROVE  k + 1 \in U
      BY <2>1 DEF Recursive
    <3> HIDE DEF U
    <3>3. QED
      BY <3>1, <3>2, Induction
  <2>3. QED
    BY <2>2
<1> DEFINE g == [n \in Nat |-> G(n)[n]]
<1>4. g \in [Nat -> A] /\ g[0] = a
  BY <1>2 DEF Recursive
<1>5. ASSUME NEW n \in Nat
      PROVE  g[n + 1] = F[n][g[n]]
  <2>1. G(n + 1)[n + 1] = F[n][G(n + 1)[n]]
    BY <1>2 DEF Recursive
  <2>2. QED
    BY <1>3, <2>1
<1>6. QED
  BY <1>4, <1>5 DEF Defined

-----------------------------------------------------------------------------
(***************************************************************************)
(* Numbers and sums.                                                       *)
(***************************************************************************)

\* A byte more, and ByteBase times as many values.
LEMMA ValuesStep == Values(0) = 1 /\ \A n \in Nat : Values(n + 1) = ByteBase * Values(n)
<1> DEFINE values == CHOOSE f : f = [k \in Nat |-> IF k = 0 THEN 1 ELSE ByteBase * f[k - 1]]
<1>1. \E f : f = [k \in Nat |-> IF k = 0 THEN 1 ELSE ByteBase * f[k - 1]]
  <2> DEFINE F == [n \in Nat |-> [x \in Nat |-> ByteBase * x]]
  <2>1. F \in [Nat -> [Nat -> Nat]]
    BY ByteBaseAssumption
  <2> HIDE DEF F
  <2>2. PICK f \in [Nat -> Nat] : f[0] = 1 /\ \A n \in Nat : f[n + 1] = F[n][f[n]]
    <3>1. Defined(Nat, 1, F)
      BY <2>1, Recursion
    <3>2. QED
      BY <3>1 DEF Defined
  <2>3. \A n \in Nat : f[n + 1] = ByteBase * f[n]
    BY <2>2 DEF F
  <2>4. ASSUME NEW k \in Nat
        PROVE  f[k] = IF k = 0 THEN 1 ELSE ByteBase * f[k - 1]
    <3>1. CASE k = 0
      BY <2>2, <3>1
    <3>2. CASE k # 0
      <4>1. k - 1 \in Nat /\ (k - 1) + 1 = k
        BY <3>2
      <4>2. QED
        BY <2>3, <3>2, <4>1
    <3>3. QED
      BY <3>1, <3>2
  <2>5. f = [k \in Nat |-> IF k = 0 THEN 1 ELSE ByteBase * f[k - 1]]
    BY <2>4
  <2>6. QED
    BY <2>5
<1>2. values = [k \in Nat |-> IF k = 0 THEN 1 ELSE ByteBase * values[k - 1]]
  BY <1>1, Zenon
<1>3. \A n : Values(n) = values[n]
  BY DEF Values
<1> HIDE DEF values
<1>4. values[0] = 1 /\ \A n \in Nat : values[n + 1] = ByteBase * values[n]
  BY <1>2
<1>5. QED
  BY <1>3, <1>4

\* It is a positive number, whatever the base.
LEMMA ValuesType == \A n \in Nat : Values(n) \in Nat /\ Values(n) >= 1
<1> DEFINE T == {n \in Nat : Values(n) \in Nat /\ Values(n) >= 1}
<1>1. 0 \in T
  BY ValuesStep
<1>2. ASSUME NEW n \in T
      PROVE  n + 1 \in T
  <2>1. n + 1 \in Nat /\ Values(n + 1) = ByteBase * Values(n)
    BY ValuesStep
  <2>2. ByteBase \in Nat /\ ByteBase >= 2 /\ Values(n) \in Nat /\ Values(n) >= 1
    BY ByteBaseAssumption
  <2>3. \A a, b \in Nat : a >= 2 /\ b >= 1 => a * b \in Nat /\ a * b >= 1
    OBVIOUS
  <2>4. QED
    BY <2>1, <2>2, <2>3
<1> HIDE DEF T
<1>3. Nat \subseteq T
  BY <1>1, <1>2, Induction
<1>4. QED
  BY <1>3 DEF T

\* A size in bytes, or an error.
Size == Nat \cup {Error}

\* A sum is a size, and an error if one of the sizes is.
LEMMA TotalFacts ==
    ASSUME NEW s \in Seq(Size)
    PROVE  Total(s) \in Size /\ (Total(s) = Error <=> \E i \in 1 .. Len(s) : s[i] = Error)
<1> DEFINE n == Len(s)
           IsSum(f) == f = [i \in 0 .. n |-> IF i = 0 THEN 0 ELSE Plus(f[i - 1], s[i])]
           sum == CHOOSE f : IsSum(f)
<1>0. n \in Nat /\ 0 \in Size /\ Error \notin Nat /\ \A i \in 1 .. n : s[i] \in Size
  BY DEF Size, Error
<1>1. \A x, y \in Size : Plus(x, y) \in Size /\ (Plus(x, y) = Error <=> x = Error \/ y = Error)
  BY DEF Size, Plus, Error
<1>2. \E f : IsSum(f)
  <2> DEFINE F == [i \in Nat |-> [x \in Size |-> IF i < n THEN Plus(x, s[i + 1]) ELSE x]]
  <2>1. F \in [Nat -> [Size -> Size]]
    <3>1. ASSUME NEW i \in Nat, NEW x \in Size, i < n
          PROVE  Plus(x, s[i + 1]) \in Size
      BY <1>0, <1>1, <3>1
    <3>2. QED
      BY <3>1
  <2> HIDE DEF F
  <2>2. PICK f \in [Nat -> Size] : f[0] = 0 /\ \A i \in Nat : f[i + 1] = F[i][f[i]]
    <3>1. Defined(Size, 0, F)
      BY <1>0, <2>1, Recursion
    <3>2. QED
      BY <3>1 DEF Defined
  <2>3. \A i \in Nat : i < n => f[i + 1] = Plus(f[i], s[i + 1])
    BY <2>2 DEF F
  <2> DEFINE g == [i \in 0 .. n |-> f[i]]
  <2>4. ASSUME NEW i \in 0 .. n
        PROVE  g[i] = IF i = 0 THEN 0 ELSE Plus(g[i - 1], s[i])
    <3>1. CASE i = 0
      BY <1>0, <2>2, <3>1
    <3>2. CASE i # 0
      <4>1. i - 1 \in 0 .. n /\ i - 1 \in Nat /\ (i - 1) + 1 = i /\ i - 1 < n
        BY <1>0, <3>2
      <4>2. QED
        BY <2>3, <3>2, <4>1
    <3>3. QED
      BY <3>1, <3>2
  <2>5. g = [i \in 0 .. n |-> IF i = 0 THEN 0 ELSE Plus(g[i - 1], s[i])]
    BY <2>4
  <2>6. QED
    BY <2>5
<1>3. IsSum(sum)
  <2> HIDE DEF IsSum
  <2>1. QED
    BY <1>2, Zenon
<1>4. Total(s) = sum[n]
  BY DEF Total
<1> HIDE DEF sum
<1>5. sum[0] = 0 /\ \A i \in 0 .. n - 1 : sum[i + 1] = Plus(sum[i], s[i + 1])
  BY <1>0, <1>3
<1> HIDE DEF IsSum, n
<1> DEFINE T == {i \in Nat : i <= n =>
                    sum[i] \in Size /\ (sum[i] = Error <=> \E k \in 1 .. i : s[k] = Error)}
<1>6. 0 \in T
  BY <1>0, <1>5
<1>7. ASSUME NEW i \in T
      PROVE  i + 1 \in T
  <2>1. CASE i + 1 <= n
    <3>1. /\ i \in Nat /\ i + 1 \in 1 .. n /\ i \in 0 .. n - 1
          /\ sum[i] \in Size /\ (sum[i] = Error <=> \E k \in 1 .. i : s[k] = Error)
      BY <1>0, <2>1
    <3>2. sum[i + 1] = Plus(sum[i], s[i + 1]) /\ s[i + 1] \in Size
      BY <1>0, <1>5, <3>1
    <3>3. (\E k \in 1 .. i + 1 : s[k] = Error) <=> (\E k \in 1 .. i : s[k] = Error) \/ s[i + 1] = Error
      BY <3>1
    <3>4. sum[i + 1] \in Size /\ (sum[i + 1] = Error <=> \E k \in 1 .. i + 1 : s[k] = Error)
      BY <1>1, <3>1, <3>2, <3>3
    <3>5. QED
      BY <3>1, <3>4
  <2>2. CASE ~(i + 1 <= n)
    BY <2>2
  <2>3. QED
    BY <2>1, <2>2
<1> HIDE DEF T
<1>8. Nat \subseteq T
  BY <1>6, <1>7, Induction
<1>9. QED
  BY <1>0, <1>4, <1>8 DEF T, n

-----------------------------------------------------------------------------
(***************************************************************************)
(* The sizes of structs.                                                   *)
(***************************************************************************)

\* The recursive function in struct_wire_size, part by part.
ElementSize(size, V, t) ==
    IF t \in DOMAIN WIRE_TYPE_SIZES THEN WIRE_TYPE_SIZES[t]
    ELSE IF t \in V THEN Error ELSE size[V \cup {t}][t]
FieldSizes(size, V, structs, n, fixed_mode) ==
    [i \in DOMAIN structs[n] |->
        wire_size_of(structs[n][i], ElementSize(size, V, structs[n][i].wire_type), fixed_mode)]
Sizes(size, V, structs, fixed_mode) ==
    [n \in DOMAIN structs |-> Total(FieldSizes(size, V, structs, n, fixed_mode))]
IsSize(size, structs, fixed_mode) ==
    size = [V \in SUBSET DOMAIN structs |-> Sizes(size, V, structs, fixed_mode)]

\* The structs that may still be visited.
LEMMA ToVisit ==
    ASSUME NEW D, IsFiniteSet(D), NEW V, V \subseteq D
    PROVE  /\ Cardinality(D \ V) \in Nat /\ Cardinality(D) \in Nat
           /\ Cardinality(D \ V) <= Cardinality(D)
           /\ Cardinality(D \ V) = 0 => D \ V = {}
           /\ \A t \in D \ V : /\ V \cup {t} \subseteq D
                               /\ Cardinality(D \ (V \cup {t})) = Cardinality(D \ V) - 1
<1>1. IsFiniteSet(D \ V) /\ Cardinality(D \ V) <= Cardinality(D)
  BY FS_Subset
<1>2. Cardinality(D \ V) \in Nat /\ Cardinality(D) \in Nat
  BY <1>1, FS_CardinalityType
<1>3. Cardinality(D \ V) = 0 => D \ V = {}
  BY <1>1, FS_EmptySet
<1>4. ASSUME NEW t \in D \ V
      PROVE  Cardinality(D \ (V \cup {t})) = Cardinality(D \ V) - 1
  <2>1. D \ (V \cup {t}) = (D \ V) \ {t}
    OBVIOUS
  <2>2. Cardinality((D \ V) \ {t}) = Cardinality(D \ V) - 1
    BY <1>1, FS_RemoveElement
  <2>3. QED
    BY <2>1, <2>2
<1>5. QED
  BY <1>1, <1>2, <1>3, <1>4

\* What holds of a set of structs being visited if it does with any one more, holds
\* of all: induction over the number that is not visited yet.
Descends(D, S) == \A V \in SUBSET D : (\A t \in D \ V : V \cup {t} \in S) => V \in S

\* So it holds of any set being visited.
LEMMA Descent ==
    ASSUME NEW D, IsFiniteSet(D), NEW S, Descends(D, S)
    PROVE  SUBSET D \subseteq S
<1> DEFINE T == {k \in Nat : \A V \in SUBSET D : Cardinality(D \ V) < k => V \in S}
<1>1. 0 \in T
  BY ToVisit
<1>2. ASSUME NEW k \in T
      PROVE  k + 1 \in T
  <2>0. k \in Nat /\ \A V \in SUBSET D : Cardinality(D \ V) < k => V \in S
    OBVIOUS
  <2> HIDE DEF T
  <2>1. ASSUME NEW V \in SUBSET D, Cardinality(D \ V) < k + 1
        PROVE  V \in S
    <3>1. /\ Cardinality(D \ V) \in Nat
          /\ \A t \in D \ V : V \cup {t} \in SUBSET D /\ Cardinality(D \ (V \cup {t})) = Cardinality(D \ V) - 1
      BY ToVisit
    <3>2. ASSUME NEW t \in D \ V
          PROVE  V \cup {t} \in S
      <4>1. /\ V \cup {t} \in SUBSET D
            /\ Cardinality(D \ (V \cup {t})) = Cardinality(D \ V) - 1
        BY <3>1
      <4>2. Cardinality(D \ (V \cup {t})) < k
        BY <2>0, <2>1, <3>1, <4>1
      <4>3. QED
        BY <2>0, <4>1, <4>2
    <3>3. QED
      BY <3>2, Zenon DEF Descends
  <2>2. QED
    BY <2>0, <2>1 DEF T
<1>3. Nat \subseteq T
  <2> HIDE DEF T
  <2>1. QED
    BY <1>1, <1>2, Induction
<1>4. ASSUME NEW V \in SUBSET D
      PROVE  V \in S
  <2>1. Cardinality(D \ V) \in Nat
    BY ToVisit
  <2>2. Cardinality(D \ V) + 1 \in T
    <3> HIDE DEF T
    <3>1. QED
      BY <1>3, <2>1
  <2>3. Cardinality(D \ V) < Cardinality(D \ V) + 1
    BY <2>1
  <2>4. QED
    BY <2>2, <2>3
<1>5. QED
  BY <1>4

\* Only the structs not yet visited are asked.
LEMMA SizesLocal ==
    ASSUME NEW structs, Parsed(structs), NEW fixed_mode, NEW V, NEW g, NEW h,
           \A t \in DOMAIN structs \ V : g[V \cup {t}] = h[V \cup {t}]
    PROVE  Sizes(g, V, structs, fixed_mode) = Sizes(h, V, structs, fixed_mode)
<1>1. ASSUME NEW n \in DOMAIN structs
      PROVE  FieldSizes(g, V, structs, n, fixed_mode) = FieldSizes(h, V, structs, n, fixed_mode)
  <2>1. ASSUME NEW i \in DOMAIN structs[n]
        PROVE  ElementSize(g, V, structs[n][i].wire_type) = ElementSize(h, V, structs[n][i].wire_type)
    <3>1. structs[n][i].wire_type \in WireType \cup DOMAIN structs
      <4>1. structs[n][i] \in FieldRecord(DOMAIN structs)
        BY DEF Parsed
      <4>2. QED
        BY <4>1 DEF FieldRecord
    <3>2. QED
      BY <3>1 DEF ElementSize, WireType
  <2>2. QED
    BY <2>1, Zenon DEF FieldSizes
<1>2. QED
  BY <1>1, Zenon DEF Sizes

\* There is such a function.
LEMMA SizeExists ==
    ASSUME NEW structs, Parsed(structs), NEW fixed_mode
    PROVE  \E size : IsSize(size, structs, fixed_mode)
<1> DEFINE D == DOMAIN structs
           S(g, V) == Sizes(g, V, structs, fixed_mode)
           Upto(g, k) == /\ DOMAIN g = SUBSET D /\ g = [V \in SUBSET D |-> g[V]]
                         /\ \A V \in SUBSET D : Cardinality(D \ V) <= k => g[V] = S(g, V)
           T == {k \in Nat : \E g : Upto(g, k)}
<1>1. IsFiniteSet(D)
  BY DEF Parsed
<1>2. ASSUME NEW g, NEW h, NEW V, \A t \in D \ V : g[V \cup {t}] = h[V \cup {t}]
      PROVE  S(g, V) = S(h, V)
  BY <1>2, SizesLocal
<1> HIDE DEF S, D
<1>3. 0 \in T
  <2> DEFINE z == [V \in SUBSET D |-> 0]
             g == [V \in SUBSET D |-> S(z, V)]
  <2>1. ASSUME NEW V \in SUBSET D, Cardinality(D \ V) <= 0
        PROVE  g[V] = S(g, V)
    <3>1. D \ V = {}
      BY <1>1, <2>1, ToVisit
    <3> HIDE DEF z, g
    <3>2. S(z, V) = S(g, V)
      BY <1>2, <3>1
    <3>3. QED
      BY <3>2 DEF g
  <2>2. Upto(g, 0)
    BY <2>1
  <2>3. QED
    BY <2>2
<1>4. ASSUME NEW k \in T
      PROVE  k + 1 \in T
  <2>1. PICK g : Upto(g, k)
    OBVIOUS
  <2>0. k \in Nat /\ k + 1 \in Nat
    OBVIOUS
  <2> HIDE DEF T
  <2> DEFINE h == [V \in SUBSET D |-> IF Cardinality(D \ V) = k + 1 THEN S(g, V) ELSE g[V]]
  <2>2. ASSUME NEW V \in SUBSET D, Cardinality(D \ V) <= k + 1
        PROVE  h[V] = S(h, V)
    <3>1. /\ Cardinality(D \ V) \in Nat
          /\ \A t \in D \ V : V \cup {t} \in SUBSET D /\ Cardinality(D \ (V \cup {t})) = Cardinality(D \ V) - 1
      BY <1>1, ToVisit
    <3>2. \A t \in D \ V : h[V \cup {t}] = g[V \cup {t}]
      <4>1. ASSUME NEW t \in D \ V
            PROVE  h[V \cup {t}] = g[V \cup {t}]
        <5>1. V \cup {t} \in SUBSET D /\ Cardinality(D \ (V \cup {t})) # k + 1
          BY <2>0, <2>2, <3>1
        <5>2. QED
          BY <5>1, Zenon
      <4>2. QED
        BY <4>1
    <3> HIDE DEF h
    <3>3. S(h, V) = S(g, V)
      BY <1>2, <3>2
    <3>4. h[V] = S(g, V)
      <4>1. CASE Cardinality(D \ V) = k + 1
        BY <4>1 DEF h
      <4>2. CASE Cardinality(D \ V) # k + 1
        <5>1. Cardinality(D \ V) <= k
          BY <2>0, <2>2, <3>1, <4>2
        <5>2. g[V] = S(g, V)
          BY <2>1, <5>1
        <5>3. QED
          BY <4>2, <5>2 DEF h
      <4>3. QED
        BY <4>1, <4>2
    <3>5. QED
      BY <3>3, <3>4
  <2>3. Upto(h, k + 1)
    BY <2>2
  <2>4. QED
    BY <2>0, <2>3 DEF T
<1>5. Nat \subseteq T
  <2> HIDE DEF T
  <2>1. QED
    BY <1>3, <1>4, Induction
<1>6. Cardinality(D) \in Nat /\ \A V \in SUBSET D : Cardinality(D \ V) <= Cardinality(D)
  BY <1>1, ToVisit
<1>7. PICK g : Upto(g, Cardinality(D))
  BY <1>5, <1>6
<1>8. g = [V \in SUBSET D |-> S(g, V)]
  BY <1>6, <1>7
<1>9. QED
  BY <1>8 DEF IsSize, S, D

\* It is what struct_wire_size returns the value of.
LEMMA SizeOfStructIs ==
    ASSUME NEW structs, Parsed(structs), NEW fixed_mode
    PROVE  \E size : /\ IsSize(size, structs, fixed_mode)
                     /\ \A n : struct_wire_size(n, structs, fixed_mode) = size[{}][n]
<1> DEFINE size == CHOOSE g : IsSize(g, structs, fixed_mode)
<1>1. IsSize(size, structs, fixed_mode)
  BY SizeExists, Zenon
<1>2. \A n : struct_wire_size(n, structs, fixed_mode) = size[{}][n]
  BY DEF struct_wire_size, IsSize, Sizes, FieldSizes, ElementSize
<1>3. QED
  BY <1>1, <1>2

-----------------------------------------------------------------------------
(***************************************************************************)
(* When there is a size.                                                   *)
(***************************************************************************)

\* A wire type has at least a byte,
LEMMA WireSizes == \A t \in WireType : WIRE_TYPE_SIZES[t] \in Nat /\ WIRE_TYPE_SIZES[t] >= 1
BY DEF WireType, WIRE_TYPE_SIZES

\* and a range of integers.
LEMMA RangeType == \A t \in WireType : Least(t) \in Int /\ Greatest(t) \in Int
<1>1. ASSUME NEW t \in WireType
      PROVE  Least(t) \in Int /\ Greatest(t) \in Int
  <2>1. Values(WIRE_TYPE_SIZES[t]) \in Nat
    BY WireSizes, ValuesType
  <2> HIDE DEF Values
  <2>2. QED
    BY <2>1 DEF Least, Greatest
<1>2. QED
  BY <1>1

\* The type chosen is one of the four, and holds both values unless none of the
\* first three does.
LEMMA NarrowestFacts ==
    ASSUME NEW types \in {Unsigned, Signed}, NEW lo, NEW hi
    PROVE  \E i \in 1 .. 4 : /\ Narrowest(types, lo, hi) = types[i] /\ types[i] \in WireType
                             /\ i # 4 => Least(types[i]) <= lo /\ hi <= Greatest(types[i])
<1> DEFINE holds == {i \in 1 .. 3 : Least(types[i]) <= lo /\ hi <= Greatest(types[i])}
<1>1. \A i \in 1 .. 4 : types[i] \in WireType
  BY DEF WireType, WIRE_TYPE_SIZES, Unsigned, Signed
<1>2. CASE holds = {}
  <2>1. Narrowest(types, lo, hi) = types[4]
    BY <1>2 DEF Narrowest
  <2>2. QED
    BY <1>1, <2>1
<1>3. CASE holds # {}
  <2>1. \E i \in holds : \A j \in holds : i <= j
    <3>1. holds \subseteq 1 .. 3
      OBVIOUS
    <3> HIDE DEF holds
    <3>2. 1 \in holds \/ 2 \in holds \/ 3 \in holds
      <4>1. PICK i : i \in holds
        BY <1>3
      <4>2. i = 1 \/ i = 2 \/ i = 3
        BY <3>1, <4>1
      <4>3. QED
        BY <4>1, <4>2
    <3>3. CASE 1 \in holds
      BY <3>1, <3>3
    <3>4. CASE 1 \notin holds /\ 2 \in holds
      BY <3>1, <3>4
    <3>5. CASE 1 \notin holds /\ 2 \notin holds
      BY <3>1, <3>2, <3>5
    <3>6. QED
      BY <3>3, <3>4, <3>5
  <2>2. Min(holds) \in holds
    <3> HIDE DEF holds
    <3>1. QED
      BY <2>1, Zenon DEF Min
  <2>3. Narrowest(types, lo, hi) = types[Min(holds)]
    BY <1>3 DEF Narrowest
  <2>4. Min(holds) \in 1 .. 4 /\ Min(holds) # 4
        /\ Least(types[Min(holds)]) <= lo /\ hi <= Greatest(types[Min(holds)])
    BY <2>2
  <2>5. QED
    BY <1>1, <2>3, <2>4
<1>4. QED
  BY <1>2, <1>3

\* A string whose length has no prefix.
Misfit(f, fixed_mode) == ~fixed_mode /\ field_is_string(f) /\ ~PrefixFits(f.array_len)

\* A field has a size, if its element has one, unless it is such a string.
LEMMA FieldSize ==
    ASSUME NEW f, f.array_len \in Nat \cup {NoLen}, NEW e \in Size, NEW fixed_mode
    PROVE  /\ wire_size_of(f, e, fixed_mode) \in Size
           /\ wire_size_of(f, e, fixed_mode) = Error <=> e = Error \/ Misfit(f, fixed_mode)
<1> DEFINE count == IF IsArray(f) THEN f.array_len ELSE 1
           prefix == length_prefix_size(f.array_len)
<1>1. count \in Nat
  BY DEF IsArray
<1>2. prefix \in Nat
  <2>1. PICK i \in 1 .. 4 : /\ length_prefix_type(f.array_len) = Unsigned[i]
                            /\ Unsigned[i] \in WireType
    BY NarrowestFacts DEF length_prefix_type
  <2>2. QED
    BY <2>1, WireSizes DEF length_prefix_size
<1>3. e # Error => e \in Nat /\ count * e \in Nat
  BY <1>1 DEF Size
<1>4. Error \in Size /\ Error \notin Nat /\ Nat \subseteq Size
  BY DEF Size, Error
<1> HIDE DEF count, prefix
<1>5. wire_size_of(f, e, fixed_mode) =
         IF e = Error \/ Misfit(f, fixed_mode) THEN Error
         ELSE count * e + (IF ~fixed_mode /\ field_is_string(f) THEN prefix ELSE 0)
  BY Zenon DEF wire_size_of, Misfit, count, prefix
<1>6. ASSUME e # Error, ~Misfit(f, fixed_mode)
      PROVE  count * e + (IF ~fixed_mode /\ field_is_string(f) THEN prefix ELSE 0) \in Nat
  <2>1. count * e \in Nat
    BY <1>3, <1>6
  <2> DEFINE c == count * e
  <2> HIDE DEF c
  <2>2. c + (IF ~fixed_mode /\ field_is_string(f) THEN prefix ELSE 0) \in Nat
    BY <1>2, <2>1 DEF c
  <2>3. QED
    BY <2>2 DEF c
<1>7. QED
  BY <1>4, <1>5, <1>6

\* Why the size of struct n is an error when V are being visited.
NoSize(size, V, structs, n, fixed_mode) ==
    \E i \in 1 .. Len(structs[n]) :
        \/ Misfit(structs[n][i], fixed_mode)
        \/ ElementSize(size, V, structs[n][i].wire_type) = Error

\* A struct has a size, or a reason for having none.
LEMMA SizeFacts ==
    ASSUME NEW structs, Parsed(structs), NEW fixed_mode,
           NEW size, IsSize(size, structs, fixed_mode)
    PROVE  \A V \in SUBSET DOMAIN structs : \A n \in DOMAIN structs :
              /\ size[V][n] \in Size
              /\ size[V][n] = Error <=> NoSize(size, V, structs, n, fixed_mode)
<1> DEFINE D == DOMAIN structs
           Sized(V) == \A n \in D : size[V][n] \in Size
<1>1. IsFiniteSet(D)
  BY DEF Parsed
<1>2. ASSUME NEW V \in SUBSET D, \A t \in D \ V : Sized(V \cup {t}), NEW n \in D
      PROVE  /\ size[V][n] \in Size
             /\ size[V][n] = Error <=> NoSize(size, V, structs, n, fixed_mode)
  <2> DEFINE s == FieldSizes(size, V, structs, n, fixed_mode)
  <2>1. /\ structs[n] \in Seq(FieldRecord(D)) /\ Len(structs[n]) \in Nat
        /\ DOMAIN structs[n] = 1 .. Len(structs[n])
    BY DEF Parsed
  <2>2. ASSUME NEW i \in 1 .. Len(structs[n])
        PROVE  /\ s[i] \in Size
               /\ s[i] = Error <=> \/ Misfit(structs[n][i], fixed_mode)
                                   \/ ElementSize(size, V, structs[n][i].wire_type) = Error
    <3> DEFINE f == structs[n][i]  e == ElementSize(size, V, f.wire_type)
    <3>1. f \in FieldRecord(D)
      BY <2>1
    <3>2. f.array_len \in Nat \cup {NoLen} /\ f.wire_type \in WireType \cup D
      BY <3>1 DEF FieldRecord
    <3>3. e \in Size
      <4>1. CASE f.wire_type \in WireType
        BY <4>1, WireSizes DEF ElementSize, WireType, Size
      <4>2. CASE f.wire_type \notin WireType /\ f.wire_type \in V
        BY <4>2 DEF ElementSize, WireType, Size
      <4>3. CASE f.wire_type \notin WireType /\ f.wire_type \in D \ V
        BY <1>2, <4>3 DEF ElementSize, WireType
      <4>4. QED
        BY <3>2, <4>1, <4>2, <4>3
    <3>4. s[i] = wire_size_of(f, e, fixed_mode)
      BY <2>1 DEF FieldSizes
    <3> HIDE DEF f, e
    <3>5. wire_size_of(f, e, fixed_mode) \in Size
          /\ (wire_size_of(f, e, fixed_mode) = Error <=> e = Error \/ Misfit(f, fixed_mode))
      BY <3>2, <3>3, FieldSize
    <3>6. QED
      BY <3>4, <3>5 DEF f, e
  <2>3. s \in Seq(Size) /\ Len(s) = Len(structs[n])
    <3>1. s = [i \in 1 .. Len(structs[n]) |-> s[i]]
      BY <2>1 DEF FieldSizes
    <3> HIDE DEF s
    <3>2. QED
      BY <2>1, <2>2, <3>1
  <2>4. size[V][n] = Total(s)
    BY DEF IsSize, Sizes
  <2> HIDE DEF s
  <2>5. Total(s) \in Size /\ (Total(s) = Error <=> \E i \in 1 .. Len(s) : s[i] = Error)
    BY <2>3, TotalFacts
  <2>6. QED
    BY <2>2, <2>3, <2>4, <2>5 DEF NoSize
<1> HIDE DEF D, Sized
<1> DEFINE S == {V \in SUBSET D : Sized(V)}
<1>3. Descends(D, S)
  <2>1. ASSUME NEW V \in SUBSET D, \A t \in D \ V : V \cup {t} \in S
        PROVE  Sized(V)
    BY <1>2, <2>1 DEF Sized
  <2>2. QED
    BY <2>1 DEF Descends
<1>6. \A V \in SUBSET D : Sized(V)
  <2>1. SUBSET D \subseteq S
    <3> HIDE DEF S
    <3>1. QED
      BY <1>1, <1>3, Descent
  <2>2. QED
    BY <2>1
<1>7. ASSUME NEW V \in SUBSET D, NEW n \in D
      PROVE  /\ size[V][n] \in Size
             /\ size[V][n] = Error <=> NoSize(size, V, structs, n, fixed_mode)
  <2>1. \A t \in D \ V : V \cup {t} \in SUBSET D
    OBVIOUS
  <2>2. QED
    BY <1>2, <1>6, <2>1
<1>8. QED
  BY <1>7 DEF D

-----------------------------------------------------------------------------
\* The structs that a struct holds, directly; a set with all that its structs hold.
Held(structs, n) == {structs[n][i].wire_type : i \in 1 .. Len(structs[n])} \ WireType
HeldWithin(structs, S) == \A n \in S : Held(structs, n) \subseteq S

\* Structs each of which holds one of them, and a string with no prefix.
HoldsItself(structs) ==
    \E names \in SUBSET DOMAIN structs :
        names # {} /\ \A n \in names : Held(structs, n) \cap names # {}
Misfits(structs, fixed_mode) ==
    \E n \in DOMAIN structs : \E i \in 1 .. Len(structs[n]) : Misfit(structs[n][i], fixed_mode)

\* The structs that n holds, directly or not: the least set with what they hold.
Below(structs, n) ==
    {x \in DOMAIN structs :
        \A S \in SUBSET DOMAIN structs :
            HeldWithin(structs, S) /\ Held(structs, n) \subseteq S => x \in S}

\* What a struct holds are structs,
LEMMA HeldFacts ==
    ASSUME NEW structs, Parsed(structs), NEW n \in DOMAIN structs
    PROVE  Held(structs, n) \subseteq DOMAIN structs
<1>1. ASSUME NEW i \in 1 .. Len(structs[n])
      PROVE  structs[n][i].wire_type \in WireType \cup DOMAIN structs
  <2>1. structs[n][i] \in FieldRecord(DOMAIN structs)
    BY DEF Parsed
  <2>2. QED
    BY <2>1 DEF FieldRecord
<1>2. QED
  BY <1>1 DEF Held

\* and so is what is below it.
LEMMA BelowFacts ==
    ASSUME NEW structs, Parsed(structs), NEW n \in DOMAIN structs
    PROVE  /\ Below(structs, n) \subseteq DOMAIN structs
           /\ Held(structs, n) \subseteq Below(structs, n)
           /\ HeldWithin(structs, Below(structs, n))
           /\ \A S \in SUBSET DOMAIN structs :
                 HeldWithin(structs, S) /\ Held(structs, n) \subseteq S
                 => Below(structs, n) \subseteq S
<1>1. Below(structs, n) \subseteq DOMAIN structs
  BY DEF Below
<1>2. Held(structs, n) \subseteq Below(structs, n)
  BY HeldFacts DEF Below
<1>3. ASSUME NEW x \in Below(structs, n), NEW y \in Held(structs, x)
      PROVE  y \in Below(structs, n)
  <2>1. x \in DOMAIN structs /\ y \in DOMAIN structs
    BY <1>1, HeldFacts
  <2>2. ASSUME NEW S \in SUBSET DOMAIN structs, HeldWithin(structs, S), Held(structs, n) \subseteq S
        PROVE  y \in S
    <3>1. x \in S
      BY <2>2 DEF Below
    <3>2. QED
      BY <2>2, <3>1 DEF HeldWithin
  <2>3. QED
    BY <2>1, <2>2 DEF Below
<1>4. HeldWithin(structs, Below(structs, n))
  BY <1>3 DEF HeldWithin
<1>5. QED
  BY <1>1, <1>2, <1>4, Zenon DEF Below

\* Unless structs hold themselves, none is below itself.
LEMMA NotBelowItself ==
    ASSUME NEW structs, Parsed(structs), ~HoldsItself(structs), NEW t \in DOMAIN structs
    PROVE  t \notin Below(structs, t)
<1> SUFFICES ASSUME t \in Below(structs, t)
             PROVE  FALSE
  OBVIOUS
<1> DEFINE names == {x \in Below(structs, t) : t \in Below(structs, x)}
<1>1. names \subseteq DOMAIN structs /\ t \in names
  BY BelowFacts
<1>2. ASSUME NEW x \in names
      PROVE  Held(structs, x) \cap names # {}
  <2>1. x \in DOMAIN structs /\ x \in Below(structs, t) /\ t \in Below(structs, x)
    BY <1>1
  <2>2. Held(structs, x) \subseteq Below(structs, t) /\ Held(structs, x) \subseteq DOMAIN structs
    BY <2>1, BelowFacts, HeldFacts DEF HeldWithin
  <2>3. \E y \in Held(structs, x) : y = t \/ t \in Below(structs, y)
    <3> SUFFICES ASSUME \A y \in Held(structs, x) : y # t /\ t \notin Below(structs, y)
                 PROVE  FALSE
      OBVIOUS
    <3> DEFINE S == Held(structs, x) \cup UNION {Below(structs, y) : y \in Held(structs, x)}
    <3>1. S \subseteq DOMAIN structs /\ t \notin S
      BY <2>2, BelowFacts
    <3>2. HeldWithin(structs, S)
      <4>1. ASSUME NEW z \in Held(structs, x)
            PROVE  Held(structs, z) \subseteq S
        <5>1. Held(structs, z) \subseteq Below(structs, z)
          BY <2>2, BelowFacts
        <5>2. QED
          BY <5>1
      <4>2. ASSUME NEW y \in Held(structs, x), NEW z \in Below(structs, y)
            PROVE  Held(structs, z) \subseteq S
        <5>1. Held(structs, z) \subseteq Below(structs, y)
          BY <2>2, BelowFacts DEF HeldWithin
        <5>2. QED
          BY <5>1
      <4>3. QED
        BY <4>1, <4>2 DEF HeldWithin
    <3>3. Held(structs, x) \subseteq S
      OBVIOUS
    <3> HIDE DEF S
    <3>4. Below(structs, x) \subseteq S
      BY <2>1, <3>1, <3>2, <3>3, BelowFacts
    <3>5. QED
      BY <2>1, <3>1, <3>4
  <2>4. QED
    BY <2>2, <2>3
<1>3. QED
  BY <1>1, <1>2 DEF HoldsItself

\* What struct_wire_size finds: structs that hold themselves, from wherever it begins,
LEMMA FindsCircle ==
    ASSUME NEW structs, Parsed(structs), NEW fixed_mode,
           NEW size, IsSize(size, structs, fixed_mode),
           NEW names \in SUBSET DOMAIN structs,
           \A n \in names : Held(structs, n) \cap names # {}
    PROVE  \A n \in names : size[{}][n] = Error
<1> DEFINE D == DOMAIN structs
           Fails(V) == \A n \in names : size[V][n] = Error
<1>1. IsFiniteSet(D)
  BY DEF Parsed
<1>2. ASSUME NEW V \in SUBSET D, \A t \in D \ V : Fails(V \cup {t})
      PROVE  Fails(V)
  <2>1. ASSUME NEW n \in names
        PROVE  size[V][n] = Error
    <3>1. PICK t \in Held(structs, n) : t \in names
      OBVIOUS
    <3>2. PICK i \in 1 .. Len(structs[n]) : t = structs[n][i].wire_type
      BY DEF Held
    <3>3. t \notin WireType /\ t \in D /\ (t \notin V => size[V \cup {t}][t] = Error)
      BY <1>2, <3>1 DEF Held
    <3>4. ElementSize(size, V, t) = Error
      BY <3>3 DEF ElementSize, WireType
    <3>5. NoSize(size, V, structs, n, fixed_mode)
      BY <3>2, <3>4 DEF NoSize
    <3>6. QED
      BY <3>5, SizeFacts
  <2>2. QED
    BY <2>1
<1> HIDE DEF D, Fails
<1> DEFINE S == {V \in SUBSET D : Fails(V)}
<1>3. Descends(D, S)
  BY <1>2 DEF Descends
<1>6. Fails({})
  <2>1. SUBSET D \subseteq S
    <3> HIDE DEF S
    <3>1. QED
      BY <1>1, <1>3, Descent
  <2>2. QED
    BY <2>1
<1>7. QED
  BY <1>6 DEF Fails

\* and nothing else but strings with no prefix.
LEMMA FindsNothingElse ==
    ASSUME NEW structs, Parsed(structs), NEW fixed_mode,
           NEW size, IsSize(size, structs, fixed_mode),
           ~HoldsItself(structs), ~Misfits(structs, fixed_mode)
    PROVE  \A n \in DOMAIN structs : size[{}][n] # Error
<1> DEFINE D == DOMAIN structs
           Apart(V, n, A) == HeldWithin(structs, A) /\ Held(structs, n) \subseteq A /\ V \cap A = {}
           Works(V) == \A n \in D : \A A \in SUBSET D : Apart(V, n, A) => size[V][n] # Error
<1>1. IsFiniteSet(D)
  BY DEF Parsed
<1>2. ASSUME NEW V \in SUBSET D, \A t \in D \ V : Works(V \cup {t})
      PROVE  Works(V)
  <2>1. ASSUME NEW n \in D, NEW A \in SUBSET D, Apart(V, n, A),
               NEW i \in 1 .. Len(structs[n])
        PROVE  ElementSize(size, V, structs[n][i].wire_type) # Error
    <3> DEFINE t == structs[n][i].wire_type
    <3>1. CASE t \in WireType
      BY <3>1, WireSizes DEF ElementSize, WireType, Error
    <3>2. CASE t \notin WireType
      <4>1. t \in Held(structs, n)
        BY <3>2 DEF Held
      <4> HIDE DEF t
      <4>2. t \in A /\ t \in D \ V /\ Held(structs, t) \subseteq A
        BY <2>1, <4>1 DEF HeldWithin
      <4> DEFINE B == A \cap Below(structs, t)
      <4>3. /\ Held(structs, t) \subseteq Below(structs, t) /\ HeldWithin(structs, Below(structs, t))
            /\ t \notin Below(structs, t)
        BY <4>2, BelowFacts, NotBelowItself
      <4>4. B \in SUBSET D /\ HeldWithin(structs, B) /\ Held(structs, t) \subseteq B
            /\ (V \cup {t}) \cap B = {}
        BY <2>1, <4>2, <4>3 DEF HeldWithin
      <4>5. size[V \cup {t}][t] # Error
        BY <1>2, <4>2, <4>4
      <4>6. ElementSize(size, V, t) # Error
        BY <3>2, <4>2, <4>5 DEF ElementSize, WireType
      <4>7. QED
        BY <4>6 DEF t
    <3>3. QED
      BY <3>1, <3>2
  <2>2. ASSUME NEW n \in D, NEW A \in SUBSET D, Apart(V, n, A)
        PROVE  size[V][n] # Error
    <3>1. ~NoSize(size, V, structs, n, fixed_mode)
      BY <2>1, <2>2 DEF NoSize, Misfits
    <3>2. QED
      BY <3>1, SizeFacts
  <2>3. QED
    BY <2>2
<1> HIDE DEF D, Works
<1> DEFINE S == {V \in SUBSET D : Works(V)}
<1>3. Descends(D, S)
  BY <1>2 DEF Descends
<1>6. Works({})
  <2>1. SUBSET D \subseteq S
    <3> HIDE DEF S
    <3>1. QED
      BY <1>1, <1>3, Descent
  <2>2. QED
    BY <2>1
<1>7. HeldWithin(structs, D)
  BY HeldFacts DEF HeldWithin, D
<1>8. ASSUME NEW n \in D
      PROVE  size[{}][n] # Error
  <2>1. D \in SUBSET D /\ Apart({}, n, D)
    BY <1>7 DEF HeldWithin
  <2> HIDE DEF Apart
  <2>2. QED
    BY <1>6, <2>1 DEF Works
<1>9. QED
  BY <1>8 DEF D

\* Of finitely many sizes one is the greatest.
LEMMA OneIsGreatest ==
    ASSUME NEW D, IsFiniteSet(D), D # {}, NEW s, \A n \in D : s[n] \in Int
    PROVE  \E x \in D : \A y \in D : s[y] <= s[x]
<1> DEFINE Top(V) == V = {} \/ \E x \in V : \A y \in V : s[y] <= s[x]
           S == {V \in SUBSET D : Top(D \ V)}
<1>1. ASSUME NEW V \in SUBSET D, \A t \in D \ V : V \cup {t} \in S
      PROVE  Top(D \ V)
  <2>1. CASE D \ V = {}
    BY <2>1
  <2>2. CASE D \ V # {}
    <3>1. PICK t \in D \ V : TRUE
      BY <2>2
    <3>2. Top(D \ (V \cup {t})) /\ D \ (V \cup {t}) = (D \ V) \ {t}
      BY <1>1, <3>1
    <3>3. CASE (D \ V) \ {t} = {}
      <4>1. D \ V = {t} /\ s[t] \in Int
        BY <3>1, <3>3
      <4>2. QED
        BY <4>1
    <3>4. CASE (D \ V) \ {t} # {}
      <4>1. PICK x \in (D \ V) \ {t} : \A y \in (D \ V) \ {t} : s[y] <= s[x]
        BY <3>2, <3>4
      <4>2. s[x] \in Int /\ s[t] \in Int /\ \A y \in D \ V : s[y] \in Int
        BY <3>1, <4>1
      <4>3. CASE s[t] <= s[x]
        <5>1. \A y \in D \ V : s[y] <= s[x]
          BY <4>1, <4>3
        <5>2. QED
          BY <4>1, <5>1
      <4>4. CASE s[x] <= s[t]
        <5>1. \A y \in D \ V : s[y] <= s[t]
          BY <4>1, <4>2, <4>4
        <5>2. QED
          BY <3>1, <5>1
      <4>5. QED
        BY <4>2, <4>3, <4>4
    <3>5. QED
      BY <3>3, <3>4
  <2>3. QED
    BY <2>1, <2>2
<1>2. Descends(D, S)
  <2> HIDE DEF Top
  <2>1. QED
    BY <1>1, Zenon DEF Descends
<1>3. {} \in S
  <2> HIDE DEF S
  <2>1. QED
    BY <1>2, Descent
<1>4. D \ {} = D
  OBVIOUS
<1>5. QED
  BY <1>3, <1>4

\* The generators find a size for every struct of a header, or fail: and they fail
\* exactly if structs hold themselves, or a string is too long for its prefix.
THEOREM SizesComputed ==
    ASSUME NEW structs, Parsed(structs), NEW fixed_mode
    PROVE  compute_max_wire_size(structs, fixed_mode) = Error
           <=> HoldsItself(structs) \/ Misfits(structs, fixed_mode)
<1> DEFINE D == DOMAIN structs
           sizes == {struct_wire_size(n, structs, fixed_mode) : n \in D}
<1>1. PICK size : /\ IsSize(size, structs, fixed_mode)
                  /\ \A n : struct_wire_size(n, structs, fixed_mode) = size[{}][n]
  BY SizeOfStructIs
<1> DEFINE s == [n \in D |-> size[{}][n]]
<1>2. \A n \in D : /\ s[n] \in Size
                   /\ s[n] = Error <=> NoSize(size, {}, structs, n, fixed_mode)
  BY <1>1, SizeFacts
<1>3. sizes = {s[n] : n \in D}
  BY <1>1
<1>4. ASSUME HoldsItself(structs)
      PROVE  Error \in sizes
  <2>1. PICK names \in SUBSET D : names # {} /\ \A n \in names : Held(structs, n) \cap names # {}
    BY <1>4 DEF HoldsItself
  <2>2. \A n \in names : size[{}][n] = Error
    BY <1>1, <2>1, FindsCircle
  <2>3. QED
    BY <1>3, <2>1, <2>2
<1>5. ASSUME Misfits(structs, fixed_mode)
      PROVE  Error \in sizes
  BY <1>2, <1>3, <1>5 DEF Misfits, NoSize
<1>6. ASSUME Error \in sizes
      PROVE  HoldsItself(structs) \/ Misfits(structs, fixed_mode)
  BY <1>1, <1>3, <1>6, FindsNothingElse
<1>7. ASSUME Error \notin sizes
      PROVE  Max(sizes \cup {0}) # Error
  <2>1. \A n \in D : s[n] \in Nat
    BY <1>2, <1>3, <1>7 DEF Size
  <2>2. \E x \in sizes \cup {0} : \A y \in sizes \cup {0} : x >= y
    <3>1. CASE D = {}
      BY <1>3, <3>1
    <3>2. CASE D # {}
      <4>1. IsFiniteSet(D) /\ \A n \in D : s[n] \in Int
        BY <2>1 DEF Parsed
      <4> HIDE DEF s, sizes
      <4>2. PICK x \in D : \A y \in D : s[y] <= s[x]
        BY <3>2, <4>1, OneIsGreatest
      <4>3. s[x] \in sizes \cup {0} /\ \A y \in sizes \cup {0} : s[x] >= y
        BY <1>3, <2>1, <4>2
      <4>4. QED
        BY <4>3
    <3>3. QED
      BY <3>1, <3>2
  <2> HIDE DEF sizes
  <2>3. Max(sizes \cup {0}) \in sizes \cup {0}
    BY <2>2, Zenon DEF Max
  <2>4. QED
    BY <1>7, <2>3 DEF Error
<1>8. compute_max_wire_size(structs, fixed_mode) =
         IF Error \in sizes THEN Error ELSE Max(sizes \cup {0})
  BY DEF compute_max_wire_size
<1>9. QED
  BY <1>4, <1>5, <1>6, <1>7, <1>8

-----------------------------------------------------------------------------
(***************************************************************************)
(* Bytes.                                                                  *)
(***************************************************************************)

Bytes == Seq(Byte)
Widths == {1, 2, 4, 8}

LEMMA Concatenated ==
    ASSUME NEW S, NEW s \in Seq(S), NEW t \in Seq(S)
    PROVE  s \o t \in Seq(S) /\ Len(s \o t) = Len(s) + Len(t) /\ Len(s \o t) \in Nat
OBVIOUS

LEMMA ByteAtType == \A v \in Int : \A k \in Nat : ByteAt(v, k) \in Byte
<1>1. ASSUME NEW v \in Int, NEW k \in Nat
      PROVE  ByteAt(v, k) \in Byte
  <2>1. Values(k) \in Nat /\ Values(k) >= 1
    BY ValuesType
  <2> HIDE DEF Values
  <2>2. v \div Values(k) \in Int
    BY <2>1
  <2>3. QED
    BY <2>2, ByteBaseAssumption DEF ByteAt, Byte
<1>2. QED
  BY <1>1

\* The casts.
LEMMA CastFacts ==
    ASSUME NEW v \in Int, NEW n \in Nat
    PROVE  /\ ToUnsigned(v, n) \in 0 .. Values(n) - 1 /\ ToUnsigned(v, n) \in Int
           /\ ToSigned(v, n) \in Int /\ ToSigned(v, n) <= v
<1>1. Values(n) \in Nat /\ Values(n) >= 1
  BY ValuesType
<1> HIDE DEF Values
<1>2. QED
  BY <1>1 DEF ToUnsigned, ToSigned

\* The bytes in the other order are as many.
LEMMA OrderFacts ==
    ASSUME NEW S, NEW b \in Seq(S), NEW big_endian
    PROVE  Order(b, big_endian) \in Seq(S) /\ Len(Order(b, big_endian)) = Len(b)
<1>1. Len(b) \in Nat /\ \A i \in 1 .. Len(b) : b[i] \in S
  OBVIOUS
<1>2. \A i \in 1 .. Len(b) : (Len(b) - i) + 1 \in 1 .. Len(b)
  BY <1>1
<1>3. Reverse(b) \in Seq(S) /\ Len(Reverse(b)) = Len(b)
  BY <1>1, <1>2 DEF Reverse
<1>4. QED
  BY <1>3 DEF Order

\* What C writes of an unsigned value, and of any.
LEMMA WriteUnsignedBytes ==
    ASSUME NEW n \in Widths, NEW v \in 0 .. Values(n) - 1, NEW big_endian
    PROVE  /\ write_unsigned(v, n, big_endian) \in Bytes
           /\ Len(write_unsigned(v, n, big_endian)) = n
<1>1. Values(n) \in Nat /\ v \in Int
  BY ValuesType DEF Widths
<1> HIDE DEF Values
<1>2. \A x \in Int : \A k \in Nat : ByteAt(x, k) \in Byte
  BY ByteAtType
<1>3. \A x \in Int : /\ write_uint32_t(x, big_endian) \in Bytes
                     /\ Len(write_uint32_t(x, big_endian)) = 4
  <2>1. ASSUME NEW x \in Int
        PROVE  /\ write_uint32_t(x, big_endian) \in Bytes
               /\ Len(write_uint32_t(x, big_endian)) = 4
    <3> DEFINE b == <<ByteAt(x, 0), ByteAt(x, 1), ByteAt(x, 2), ByteAt(x, 3)>>
    <3>1. ByteAt(x, 0) \in Byte /\ ByteAt(x, 1) \in Byte /\ ByteAt(x, 2) \in Byte /\ ByteAt(x, 3) \in Byte
      BY <1>2
    <3>2. b \in Bytes /\ Len(b) = 4
      BY <3>1 DEF Bytes
    <3>3. write_uint32_t(x, big_endian) = Order(b, big_endian)
      BY DEF write_uint32_t
    <3> HIDE DEF b
    <3>4. QED
      BY <3>2, <3>3, OrderFacts DEF Bytes
  <2>2. QED
    BY <2>1
<1>4. CASE n = 1
  <2>1. Values(1) = ByteBase
    BY ValuesStep, ByteBaseAssumption
  <2>2. v \in 0 .. Values(1) - 1
    BY <1>4
  <2>3. v \in Byte
    BY <2>1, <2>2 DEF Byte
  <2>4. write_unsigned(v, n, big_endian) = <<v>>
    BY <1>4 DEF write_unsigned, write_uint8_t
  <2>5. <<v>> \in Seq(Byte) /\ Len(<<v>>) = 1
    BY <2>3
  <2>6. QED
    BY <1>4, <2>4, <2>5 DEF Bytes
<1>5. CASE n = 2
  <2> DEFINE b == <<ByteAt(v, 0), ByteAt(v, 1)>>
  <2>1. ByteAt(v, 0) \in Byte /\ ByteAt(v, 1) \in Byte
    BY <1>1, <1>2
  <2>2. b \in Bytes /\ Len(b) = 2
    BY <2>1 DEF Bytes
  <2>3. write_unsigned(v, n, big_endian) = Order(b, big_endian)
    BY <1>5 DEF write_unsigned, write_uint16_t
  <2> HIDE DEF b
  <2>4. QED
    BY <1>5, <2>2, <2>3, OrderFacts DEF Bytes
<1>6. CASE n = 4
  <2>1. write_unsigned(v, n, big_endian) = write_uint32_t(v, big_endian)
    BY <1>6 DEF write_unsigned
  <2>2. QED
    BY <1>1, <1>3, <1>6, <2>1
<1>7. CASE n = 8
  <2> DEFINE lo == write_uint32_t(ToUnsigned(v, 4), big_endian)
             hi == write_uint32_t(v \div Values(4), big_endian)
  <2>1. write_unsigned(v, n, big_endian) = IF big_endian THEN hi \o lo ELSE lo \o hi
    BY <1>7 DEF write_unsigned, write_uint64_t
  <2>2. ToUnsigned(v, 4) \in Int /\ v \div Values(4) \in Int
    <3>1. Values(4) \in Nat /\ Values(4) >= 1 /\ ToUnsigned(v, 4) \in Int
      BY <1>1, CastFacts, ValuesType
    <3>2. QED
      BY <1>1, <3>1
  <2>3. lo \in Bytes /\ Len(lo) = 4 /\ hi \in Bytes /\ Len(hi) = 4
    BY <1>3, <2>2
  <2> HIDE DEF lo, hi
  <2>4. /\ lo \o hi \in Bytes /\ Len(lo \o hi) = 8
        /\ hi \o lo \in Bytes /\ Len(hi \o lo) = 8
    <3>1. lo \in Seq(Byte) /\ hi \in Seq(Byte)
      BY <2>3 DEF Bytes
    <3>2. /\ lo \o hi \in Seq(Byte) /\ Len(lo \o hi) = Len(lo) + Len(hi)
          /\ hi \o lo \in Seq(Byte) /\ Len(hi \o lo) = Len(hi) + Len(lo)
      BY <3>1, Concatenated
    <3>3. QED
      BY <2>3, <3>2 DEF Bytes
  <2>5. QED
    BY <1>7, <2>1, <2>4
<1>8. QED
  BY <1>4, <1>5, <1>6, <1>7 DEF Widths

\* Every type has one of the four widths.
LEMMA TypeWidths == \A t \in WireType : WIRE_TYPE_SIZES[t] \in Widths
BY DEF WireType, WIRE_TYPE_SIZES, Widths

LEMMA ScalarTypes == \A t \in DOMAIN SCALAR_TYPE_MAP : SCALAR_TYPE_MAP[t] \in WireType
BY DEF SCALAR_TYPE_MAP, WireType, WIRE_TYPE_SIZES

LEMMA WriteBytes ==
    ASSUME NEW v \in Int, NEW t \in DOMAIN SCALAR_TYPE_MAP, NEW big_endian
    PROVE  /\ buffers_write(v, t, big_endian) \in Bytes
           /\ Len(buffers_write(v, t, big_endian)) = WIRE_TYPE_SIZES[SCALAR_TYPE_MAP[t]]
<1> DEFINE n == WIRE_TYPE_SIZES[SCALAR_TYPE_MAP[t]]
<1>1. n \in Widths /\ n \in Nat
  BY TypeWidths, ScalarTypes DEF Widths
<1>2. CASE t = "bool"
  <2>1. n = 1 /\ t = "bool"
    BY <1>2 DEF SCALAR_TYPE_MAP, WIRE_TYPE_SIZES
  <2>2. 0 \in Byte /\ 1 \in Byte
    BY ByteBaseAssumption DEF Byte
  <2>3. buffers_write(v, t, big_endian) = <<IF v # 0 THEN 1 ELSE 0>>
    BY <2>1 DEF buffers_write, write_uint8_t
  <2>4. buffers_write(v, t, big_endian) = <<0>> \/ buffers_write(v, t, big_endian) = <<1>>
    BY <2>3
  <2>5. \A x \in {0, 1} : <<x>> \in Bytes /\ Len(<<x>>) = 1
    BY <2>2 DEF Bytes
  <2>6. QED
    BY <2>1, <2>4, <2>5
<1>3. CASE t # "bool"
  <2>1. buffers_write(v, t, big_endian) = write_unsigned(ToUnsigned(v, n), n, big_endian)
    BY <1>3 DEF buffers_write
  <2>2. ToUnsigned(v, n) \in 0 .. Values(n) - 1
    BY <1>1, CastFacts
  <2> HIDE DEF n
  <2>3. QED
    BY <1>1, <2>1, <2>2, WriteUnsignedBytes DEF n
<1>4. QED
  BY <1>2, <1>3

\* What C# writes.
LEMMA BpWriteBytes ==
    ASSUME NEW v \in Int, NEW t \in WireType, NEW big_endian
    PROVE  /\ bp_write(v, t, big_endian) \in Bytes
           /\ Len(bp_write(v, t, big_endian)) = WIRE_TYPE_SIZES[t]
<1> DEFINE n == WIRE_TYPE_SIZES[t]
           place(i) == IF big_endian THEN n - i ELSE i - 1
<1>1. n \in Nat
  BY WireSizes
<1>2. \A i \in 1 .. n : place(i) \in Nat
  BY <1>1
<1>3. bp_write(v, t, big_endian) = [i \in 1 .. n |-> ByteAt(v, place(i))]
  BY DEF bp_write
<1> HIDE DEF n, place
<1>4. \A i \in 1 .. n : ByteAt(v, place(i)) \in Byte
  BY <1>2, ByteAtType
<1>5. [i \in 1 .. n |-> ByteAt(v, place(i))] \in Bytes
      /\ Len([i \in 1 .. n |-> ByteAt(v, place(i))]) = n
  BY <1>1, <1>4 DEF Bytes
<1>6. QED
  BY <1>3, <1>5 DEF n

LEMMA CsWriteBytes ==
    ASSUME NEW v \in Int, NEW f, f.wire_type \in WireType, NEW big_endian
    PROVE  /\ CsWrite(v, f, big_endian) \in Bytes
           /\ Len(CsWrite(v, f, big_endian)) = WIRE_TYPE_SIZES[f.wire_type]
<1> DEFINE n == WIRE_TYPE_SIZES[f.wire_type]
           w == IF f.type = "bool" THEN IF v # 0 THEN 1 ELSE 0 ELSE ToUnsigned(v, n)
<1>1. CsWrite(v, f, big_endian) = bp_write(w, f.wire_type, big_endian)
  BY DEF CsWrite
<1>2. n \in Nat
  BY WireSizes
<1> HIDE DEF n
<1>3. w \in Int
  BY <1>2, CastFacts
<1> HIDE DEF w
<1>4. QED
  BY <1>1, <1>3, BpWriteBytes DEF n

-----------------------------------------------------------------------------
(***************************************************************************)
(* What is read.                                                           *)
(***************************************************************************)

\* A recursion from 0 to n, with a step for each number from 1 on.
Steps(A, a, n, F) ==
    \E f \in [0 .. n -> A] : f[0] = a /\ \A i \in 1 .. n : f[i] = F[i][f[i - 1]]

LEMMA Leftwards ==
    ASSUME NEW A, NEW a \in A, NEW n \in Nat, NEW F \in [1 .. n -> [A -> A]]
    PROVE  Steps(A, a, n, F)
<1> DEFINE G == [i \in Nat |-> [x \in A |-> IF i < n THEN F[i + 1][x] ELSE x]]
<1>1. G \in [Nat -> [A -> A]]
  <2>1. ASSUME NEW i \in Nat, NEW x \in A, i < n
        PROVE  F[i + 1][x] \in A
    <3>1. i + 1 \in 1 .. n
      BY <2>1
    <3>2. QED
      BY <3>1
  <2>2. QED
    BY <2>1
<1>2. \A i \in Nat : \A x \in A : i < n => G[i][x] = F[i + 1][x]
  OBVIOUS
<1> HIDE DEF G
<1>3. PICK g \in [Nat -> A] : g[0] = a /\ \A i \in Nat : g[i + 1] = G[i][g[i]]
  <2>1. Defined(A, a, G)
    BY <1>1, Recursion
  <2>2. QED
    BY <2>1 DEF Defined
<1> DEFINE f == [i \in 0 .. n |-> g[i]]
<1>4. f \in [0 .. n -> A] /\ f[0] = a
  BY <1>3
<1>5. ASSUME NEW i \in 1 .. n
      PROVE  f[i] = F[i][f[i - 1]]
  <2>1. i - 1 \in Nat /\ i - 1 \in 0 .. n /\ i \in 0 .. n /\ i - 1 < n /\ (i - 1) + 1 = i
    OBVIOUS
  <2>2. g[i] = F[i][g[i - 1]]
    BY <1>2, <1>3, <2>1
  <2>3. QED
    BY <2>1, <2>2
<1>6. QED
  BY <1>4, <1>5 DEF Steps

\* BinaryPrimitives read an unsigned number of as many bytes as it is given.
Place(n, i, big_endian) == IF big_endian THEN n - i ELSE i - 1
IsValue(f, b, big_endian) ==
    f = [i \in 0 .. Len(b) |->
            IF i = 0 THEN 0
            ELSE f[i - 1] + b[i] * Values(Place(Len(b), i, big_endian))]

LEMMA ReadSums ==
    ASSUME NEW b \in Bytes, NEW big_endian, NEW f, IsValue(f, b, big_endian)
    PROVE  f[Len(b)] \in 0 .. Values(Len(b)) - 1
<1> DEFINE n == Len(b)
           place(i) == Place(n, i, big_endian)
           Bound(i) == IF big_endian THEN Values(n) - Values(n - i) ELSE Values(i) - 1
           T == {i \in Nat : i <= n => f[i] \in Int /\ 0 <= f[i] /\ f[i] <= Bound(i)}
<1>1. n \in Nat /\ \A i \in 1 .. n : b[i] \in Byte
  BY DEF Bytes
<1>2. \A i \in 1 .. n : place(i) \in Nat
  BY <1>1 DEF Place
<1>3. /\ \A k \in Nat : Values(k) \in Nat /\ Values(k) >= 1
      /\ \A k \in Nat : Values(k + 1) = ByteBase * Values(k)
      /\ Values(0) = 1
  BY ValuesType, ValuesStep
<1> HIDE DEF Values, n, place
<1>4. f[0] = 0 /\ \A i \in 1 .. n : f[i] = f[i - 1] + b[i] * Values(place(i))
  BY <1>1 DEF IsValue, n, place
<1>5. 0 \in T
  BY <1>1, <1>3, <1>4
<1>6. ASSUME NEW i \in T
      PROVE  i + 1 \in T
  <2>1. CASE i + 1 <= n
    <3>1. /\ i \in Nat /\ i + 1 \in 1 .. n /\ i + 1 - 1 = i
          /\ f[i] \in Int /\ 0 <= f[i] /\ f[i] <= Bound(i)
      BY <1>1, <2>1
    <3> DEFINE p == Values(place(i + 1))
    <3>2. p \in Nat /\ b[i + 1] \in Byte /\ ByteBase \in Nat
      BY <1>1, <1>2, <1>3, <3>1, ByteBaseAssumption
    <3>3. Bound(i + 1) = Bound(i) + (ByteBase - 1) * p
      <4>1. CASE big_endian
        <5>1. n - (i + 1) \in Nat /\ (n - (i + 1)) + 1 = n - i /\ n - i \in Nat
          BY <1>1, <3>1
        <5>2. p = Values(n - (i + 1))
          BY <4>1 DEF Place, place
        <5>3. Values(n - i) = ByteBase * p
          BY <1>3, <5>1, <5>2
        <5>4. Values(n) \in Nat /\ Values(n - i) \in Nat
          BY <1>1, <1>3, <5>1
        <5>5. ByteBase * p = (ByteBase - 1) * p + p
          BY <3>2
        <5> HIDE DEF p
        <5>6. QED
          BY <4>1, <5>2, <5>3, <5>4, <5>5, <3>2
      <4>2. CASE ~big_endian
        <5>1. p = Values(i)
          BY <3>1, <4>2 DEF Place, place
        <5>2. Values(i + 1) = ByteBase * p
          BY <1>3, <3>1, <5>1
        <5>3. ByteBase * p = (ByteBase - 1) * p + p
          BY <3>2
        <5> HIDE DEF p
        <5>4. QED
          BY <4>2, <5>1, <5>2, <5>3, <3>2
      <4>3. QED
        BY <4>1, <4>2
    <3>4. f[i + 1] = f[i] + b[i + 1] * p
      BY <1>4, <3>1
    <3>5. 0 <= b[i + 1] * p /\ b[i + 1] * p <= (ByteBase - 1) * p /\ b[i + 1] * p \in Int
      <4> HIDE DEF p
      <4>1. b[i + 1] \in Nat /\ b[i + 1] <= ByteBase - 1
        BY <3>2 DEF Byte
      <4> DEFINE x == b[i + 1]
                 d == (ByteBase - 1) - x
      <4>2. d \in Nat /\ x \in Nat /\ ByteBase - 1 = x + d
        BY <3>2, <4>1
      <4> HIDE DEF x, d
      <4>3. (x + d) * p = x * p + d * p /\ x * p \in Nat /\ d * p \in Nat
        BY <3>2, <4>2
      <4>4. QED
        BY <4>2, <4>3 DEF x
    <3>6. Bound(i) \in Int /\ (ByteBase - 1) * p \in Int
      <4>1. i \in Nat /\ n - i \in Nat
        BY <1>1, <2>1, <3>1
      <4>2. Values(n) \in Nat /\ Values(i) \in Nat /\ Values(n - i) \in Nat
        BY <1>1, <1>3, <4>1
      <4>3. QED
        BY <3>2, <4>2
    <3> DEFINE x == b[i + 1] * p
               y == (ByteBase - 1) * p
    <3>7. 0 <= x /\ x <= y /\ x \in Int /\ y \in Int /\ Bound(i + 1) = Bound(i) + y /\ f[i + 1] = f[i] + x
      BY <3>3, <3>4, <3>5, <3>6
    <3> HIDE DEF x, y, p, Bound
    <3>8. f[i + 1] \in Int /\ 0 <= f[i + 1] /\ f[i + 1] <= Bound(i + 1)
      BY <3>1, <3>6, <3>7
    <3>9. QED
      BY <3>1, <3>8
  <2>2. CASE ~(i + 1 <= n)
    BY <2>2
  <2>3. QED
    BY <2>1, <2>2
<1>7. Nat \subseteq T
  <2> HIDE DEF T
  <2>1. QED
    BY <1>5, <1>6, Induction
<1>8. f[n] \in Int /\ 0 <= f[n] /\ f[n] <= Bound(n)
  BY <1>1, <1>7
<1>9. Bound(n) = Values(n) - 1 /\ Values(n) \in Nat
  <2>1. n - n = 0
    BY <1>1
  <2>2. QED
    BY <1>1, <1>3, <2>1
<1>10. QED
  BY <1>8, <1>9 DEF n

\* There is such a function.
LEMMA ValueExists ==
    ASSUME NEW b \in Bytes, NEW big_endian
    PROVE  \E f : IsValue(f, b, big_endian)
<1> DEFINE n == Len(b)
<1>0. n \in Nat /\ \A i \in 1 .. n : b[i] \in Int
  BY ByteBaseAssumption DEF Bytes, Byte
<1> DEFINE F == [i \in 1 .. n |-> [x \in Int |-> x + b[i] * Values(Place(n, i, big_endian))]]
<1>1. F \in [1 .. n -> [Int -> Int]]
  <2>1. \A i \in 1 .. n : Values(Place(n, i, big_endian)) \in Int
    <3>1. \A i \in 1 .. n : Place(n, i, big_endian) \in Nat
      BY <1>0 DEF Place
    <3>2. QED
      BY <3>1, ValuesType
  <2> HIDE DEF Values
  <2>2. QED
    BY <1>0, <2>1
<1>2. \A i \in 1 .. n : \A x \in Int : F[i][x] = x + b[i] * Values(Place(n, i, big_endian))
  OBVIOUS
<1> HIDE DEF F
<1>3. PICK f \in [0 .. n -> Int] : f[0] = 0 /\ \A i \in 1 .. n : f[i] = F[i][f[i - 1]]
  <2> HIDE DEF n
  <2>1. 0 \in Int
    OBVIOUS
  <2>2. Steps(Int, 0, n, F)
    BY <1>0, <1>1, <2>1, Leftwards
  <2>3. QED
    BY <2>2 DEF Steps
<1>4. ASSUME NEW i \in 0 .. n
      PROVE  f[i] = IF i = 0 THEN 0 ELSE f[i - 1] + b[i] * Values(Place(n, i, big_endian))
  <2>1. CASE i = 0
    BY <1>3, <2>1
  <2>2. CASE i # 0
    <3>1. i \in 1 .. n /\ i - 1 \in 0 .. n
      BY <1>0, <2>2
    <3>2. QED
      BY <1>2, <1>3, <2>2, <3>1
  <2>3. QED
    BY <2>1, <2>2
<1>5. f = [i \in 0 .. n |-> IF i = 0 THEN 0 ELSE f[i - 1] + b[i] * Values(Place(n, i, big_endian))]
  <2> HIDE DEF Values
  <2>1. QED
    BY <1>3, <1>4
<1>6. QED
  BY <1>5 DEF IsValue

LEMMA BpReadFacts ==
    ASSUME NEW b \in Bytes, NEW t \in WireType, NEW big_endian
    PROVE  /\ bp_read(b, t, big_endian) \in Int
           /\ t \notin ToSet(Signed) => bp_read(b, t, big_endian) \in 0 .. Values(Len(b)) - 1
<1> DEFINE n == Len(b)
           value == CHOOSE f : IsValue(f, b, big_endian)
<1>1. n \in Nat /\ \A i \in 1 .. n : b[i] \in Int
  BY ByteBaseAssumption DEF Bytes, Byte
<1>2. \E f : IsValue(f, b, big_endian)
  BY ValueExists
<1>3. IsValue(value, b, big_endian)
  BY <1>2, Zenon
<1>4. bp_read(b, t, big_endian) =
          IF t \in ToSet(Signed) THEN ToSigned(value[n], n) ELSE value[n]
  BY DEF bp_read, IsValue, Place
<1> HIDE DEF value, n
<1>5. value[n] \in 0 .. Values(n) - 1 /\ Values(n) \in Nat
  BY <1>1, <1>3, ReadSums, ValuesType DEF n
<1>6. value[n] \in Int
  BY <1>5
<1>7. ToSigned(value[n], n) \in Int
  BY <1>1, <1>6, CastFacts
<1>8. QED
  BY <1>4, <1>5, <1>6, <1>7 DEF n

\* A product of two numbers is a number.
LEMMA ProductNat == \A x, y \in Nat : x * y \in Nat
OBVIOUS

\* C reads a number as well.
LEMMA ReadUnsigned ==
    ASSUME NEW b \in Bytes, Len(b) \in Widths, NEW big_endian
    PROVE  read_unsigned(b, big_endian) \in Nat
<1>1. /\ Values(2) \in Nat /\ Values(3) \in Nat /\ Values(4) \in Nat /\ ByteBase \in Nat
  BY ValuesType, ByteBaseAssumption
<1> HIDE DEF Values
<1>2. \A i \in 1 .. Len(b) : b[i] \in Nat
  BY ByteBaseAssumption DEF Bytes, Byte
<1>3. \A x \in Seq(Nat) : Len(x) = 4 => read_uint32_t(x, big_endian) \in Nat
  <2>1. ASSUME NEW x \in Seq(Nat), Len(x) = 4
        PROVE  read_uint32_t(x, big_endian) \in Nat
    <3> DEFINE le == Order(x, big_endian)
    <3>1. le \in Seq(Nat) /\ Len(le) = 4
      BY <2>1, OrderFacts
    <3>3. read_uint32_t(x, big_endian)
              = le[4] * Values(3) + le[3] * Values(2) + le[2] * ByteBase + le[1]
      BY DEF read_uint32_t
    <3> HIDE DEF le
    <3>4. le[1] \in Nat /\ le[2] \in Nat /\ le[3] \in Nat /\ le[4] \in Nat
      <4>1. \A i \in 1 .. Len(le) : le[i] \in Nat
        BY <3>1, ElementOfSeq
      <4>2. QED
        BY <3>1, <4>1
    <3> DEFINE second == le[2] * ByteBase
               third == le[3] * Values(2)
               fourth == le[4] * Values(3)
    <3>5. second \in Nat /\ third \in Nat /\ fourth \in Nat
      BY <1>1, <3>4, ProductNat, Zenon
    <3>6. read_uint32_t(x, big_endian) = fourth + third + second + le[1]
      BY <3>3
    <3> HIDE DEF second, third, fourth
    <3>7. QED
      BY <3>4, <3>5, <3>6
  <2>2. QED
    BY <2>1
<1>4. CASE Len(b) = 1
  BY <1>2, <1>4 DEF read_unsigned, read_uint8_t
<1>5. CASE Len(b) = 2
  <2> DEFINE le == Order(b, big_endian)
  <2>1. b \in Seq(Nat)
    BY ByteBaseAssumption DEF Bytes, Byte
  <2>2. le \in Seq(Nat) /\ Len(le) = 2
    BY <1>5, <2>1, OrderFacts
  <2>4. read_unsigned(b, big_endian) = le[2] * ByteBase + le[1]
    BY <1>5 DEF read_unsigned, read_uint16_t
  <2> HIDE DEF le
  <2>3. le[1] \in Nat /\ le[2] \in Nat
    BY <2>2
  <2> DEFINE second == le[2] * ByteBase
  <2>5. second \in Nat
    BY <1>1, <2>3, ProductNat, Zenon
  <2>6. read_unsigned(b, big_endian) = second + le[1]
    BY <2>4
  <2> HIDE DEF second
  <2>7. QED
    BY <2>3, <2>5, <2>6
<1>6. CASE Len(b) = 4
  <2>1. b \in Seq(Nat)
    BY ByteBaseAssumption DEF Bytes, Byte
  <2>2. read_unsigned(b, big_endian) = read_uint32_t(b, big_endian)
    BY <1>6 DEF read_unsigned
  <2>3. QED
    BY <1>3, <1>6, <2>1, <2>2
<1>7. CASE Len(b) = 8
  <2> DEFINE x == SubSeq(b, 1, 4)
             y == SubSeq(b, 5, 8)
  <2>1. b \in Seq(Nat)
    BY ByteBaseAssumption DEF Bytes, Byte
  <2>2. x \in Seq(Nat) /\ Len(x) = 4 /\ y \in Seq(Nat) /\ Len(y) = 4
    <3>1. \A i \in 1 .. 8 : b[i] \in Nat
      BY <1>2, <1>7
    <3>2. /\ SubSeq(b, 1, 4) \in Seq(Nat) /\ Len(SubSeq(b, 1, 4)) = 4
          /\ SubSeq(b, 5, 8) \in Seq(Nat) /\ Len(SubSeq(b, 5, 8)) = 4
      BY <3>1, SubSeqProperties
    <3>3. QED
      BY <3>2
  <2> DEFINE first == read_uint32_t(x, big_endian)
             last == read_uint32_t(y, big_endian)
  <2>3. read_unsigned(b, big_endian)
            = IF big_endian THEN first * Values(4) + last ELSE last * Values(4) + first
    BY <1>7 DEF read_unsigned, read_uint64_t
  <2>4. first \in Nat /\ last \in Nat
    BY <1>3, <2>2
  <2> HIDE DEF first, last
  <2> DEFINE highFirst == first * Values(4)
             highLast == last * Values(4)
  <2>5. highFirst \in Nat /\ highLast \in Nat
    BY <1>1, <2>4, ProductNat, Zenon
  <2>6. read_unsigned(b, big_endian) = IF big_endian THEN highFirst + last ELSE highLast + first
    BY <2>3
  <2> HIDE DEF highFirst, highLast
  <2>7. QED
    BY <2>4, <2>5, <2>6
<1>8. QED
  BY <1>4, <1>5, <1>6, <1>7 DEF Widths

\* Both languages read the same number of one byte or two.
LEMMA SameNumber ==
    ASSUME NEW b \in Bytes, Len(b) \in {1, 2}, NEW big_endian \in BOOLEAN,
           NEW t \in WireType, t \notin ToSet(Signed)
    PROVE  bp_read(b, t, big_endian) = read_unsigned(b, big_endian)
<1> DEFINE n == Len(b)
           value == CHOOSE f : IsValue(f, b, big_endian)
<1>1. IsValue(value, b, big_endian)
  BY ValueExists, Zenon
<1>2. bp_read(b, t, big_endian) = value[n]
  BY DEF bp_read, IsValue, Place
<1> HIDE DEF value
<1>3. Values(0) = 1 /\ Values(1) = ByteBase /\ ByteBase \in Nat
  <2>1. Values(0) = 1 /\ Values(0 + 1) = ByteBase * Values(0) /\ ByteBase \in Nat
    BY ValuesStep, ByteBaseAssumption
  <2> HIDE DEF Values
  <2>2. QED
    BY <2>1
<1> HIDE DEF Values
<1>4. \A i \in 1 .. n : b[i] \in Nat
  BY ByteBaseAssumption DEF Bytes, Byte
<1>5. value[0] = 0 /\ \A i \in 1 .. n : value[i] = value[i - 1] + b[i] * Values(Place(n, i, big_endian))
  BY <1>1 DEF IsValue
<1>6. CASE n = 1
  <2>1. value[1] = value[0] + b[1] * Values(Place(1, 1, big_endian))
    <3>1. 1 \in 1 .. n /\ 1 - 1 = 0
      BY <1>6
    <3>2. QED
      BY <1>5, <1>6, <3>1
  <2>2. Place(1, 1, big_endian) = 0 /\ b[1] \in Nat
    BY <1>4, <1>6 DEF Place
  <2>3. value[1] = b[1]
    BY <1>3, <1>5, <2>1, <2>2
  <2>4. read_unsigned(b, big_endian) = b[1]
    BY <1>6 DEF read_unsigned, read_uint8_t
  <2>5. QED
    BY <1>2, <1>6, <2>3, <2>4
<1>7. CASE n = 2
  <2>1. /\ value[1] = value[0] + b[1] * Values(Place(2, 1, big_endian))
        /\ value[2] = value[1] + b[2] * Values(Place(2, 2, big_endian))
    <3>1. 1 \in 1 .. n /\ 1 - 1 = 0 /\ 2 \in 1 .. n /\ 2 - 1 = 1
      BY <1>7
    <3>2. QED
      BY <1>5, <1>7, <3>1
  <2>2. b[1] \in Nat /\ b[2] \in Nat
    BY <1>4, <1>7
  <2>3. read_unsigned(b, big_endian)
            = Order(b, big_endian)[2] * ByteBase + Order(b, big_endian)[1]
    BY <1>7 DEF read_unsigned, read_uint16_t
  <2>4. CASE big_endian
    <3>1. Order(b, big_endian)[1] = b[2] /\ Order(b, big_endian)[2] = b[1]
      BY <1>7, <2>4 DEF Order, Reverse, Bytes
    <3>2. Place(2, 1, big_endian) = 1 /\ Place(2, 2, big_endian) = 0
      BY <2>4 DEF Place
    <3>3. value[1] = b[1] * ByteBase /\ b[1] * ByteBase \in Nat
      BY <1>3, <1>5, <2>1, <2>2, <3>2
    <3>4. value[2] = b[1] * ByteBase + b[2]
      BY <1>3, <2>1, <2>2, <3>2, <3>3
    <3>5. QED
      BY <1>2, <1>7, <2>3, <3>1, <3>4
  <2>5. CASE ~big_endian
    <3>1. Order(b, big_endian) = b
      BY <2>5 DEF Order
    <3>2. Place(2, 1, big_endian) = 0 /\ Place(2, 2, big_endian) = 1
      BY <2>5 DEF Place
    <3>3. value[1] = b[1] /\ b[2] * ByteBase \in Nat
      BY <1>3, <1>5, <2>1, <2>2, <3>2
    <3>4. value[2] = b[2] * ByteBase + b[1]
      BY <1>3, <2>1, <2>2, <3>2, <3>3
    <3>5. QED
      BY <1>2, <1>7, <2>3, <3>1, <3>4
  <2>6. QED
    BY <2>4, <2>5
<1>8. QED
  BY <1>6, <1>7

LEMMA ReadFacts ==
    ASSUME NEW b \in Bytes, Len(b) \in Widths, NEW t, NEW big_endian
    PROVE  buffers_read(b, t, big_endian) \in Int
<1> DEFINE value == read_unsigned(b, big_endian)
<1>1. value \in Int /\ Len(b) \in Nat
  BY ReadUnsigned DEF Widths
<1>2. ToSigned(value, Len(b)) \in Int
  BY <1>1, CastFacts
<1>3. buffers_read(b, t, big_endian) \in {0, 1, ToSigned(value, Len(b)), value}
  BY DEF buffers_read
<1> HIDE DEF value
<1>4. QED
  BY <1>1, <1>2, <1>3

LEMMA CsReadFacts ==
    ASSUME NEW b \in Bytes, NEW f, f.wire_type \in WireType, NEW big_endian
    PROVE  CsRead(b, f, big_endian) \in Int
<1> DEFINE value == bp_read(b, f.wire_type, big_endian)
<1>1. value \in Int
  BY BpReadFacts
<1>2. ToUnsigned(value, 2) \in Int
  BY <1>1, CastFacts
<1>3. CsRead(b, f, big_endian) \in {0, 1, ToUnsigned(value, 2), value}
  BY DEF CsRead
<1> HIDE DEF value
<1>4. QED
  BY <1>1, <1>2, <1>3

-----------------------------------------------------------------------------
(***************************************************************************)
(* Sums of sizes.                                                          *)
(***************************************************************************)

\* What there is up to each of them.
IsSums(f, s) ==
    /\ f \in [0 .. Len(s) -> Nat] /\ f[0] = 0
    /\ \A i \in 1 .. Len(s) : f[i] = f[i - 1] + s[i]

LEMMA SumsFacts ==
    ASSUME NEW s \in Seq(Nat)
    PROVE  /\ \E f : IsSums(f, s)
           /\ \A f : IsSums(f, s) => Total(s) = f[Len(s)] /\ Total(s) \in Nat
<1> DEFINE n == Len(s)
           IsSum(f) == f = [i \in 0 .. n |-> IF i = 0 THEN 0 ELSE Plus(f[i - 1], s[i])]
           sum == CHOOSE f : IsSum(f)
<1>1. n \in Nat /\ \A i \in 1 .. n : s[i] \in Nat
  BY ElementOfSeq
<1>2. \A x, y \in Nat : Plus(x, y) = x + y
  BY DEF Plus, Error
<1>3. \E f : IsSums(f, s)
  <2> DEFINE F == [i \in 1 .. n |-> [x \in Nat |-> x + s[i]]]
  <2>1. F \in [1 .. n -> [Nat -> Nat]] /\ 0 \in Nat
    BY <1>1
  <2>2. \A i \in 1 .. n : \A x \in Nat : F[i][x] = x + s[i]
    OBVIOUS
  <2> HIDE DEF F, n
  <2>3. Steps(Nat, 0, n, F)
    BY <1>1, <2>1, Leftwards
  <2>4. PICK f \in [0 .. n -> Nat] : f[0] = 0 /\ \A i \in 1 .. n : f[i] = F[i][f[i - 1]]
    BY <2>3 DEF Steps
  <2>5. \A i \in 1 .. n : i - 1 \in 0 .. n /\ f[i - 1] \in Nat
    BY <1>1
  <2>6. \A i \in 1 .. n : f[i] = f[i - 1] + s[i]
    BY <2>2, <2>4, <2>5
  <2>7. QED
    BY <2>4, <2>6 DEF IsSums, n
<1>4. ASSUME NEW f, IsSums(f, s)
      PROVE  Total(s) = f[n] /\ Total(s) \in Nat
  <2>1. f \in [0 .. n -> Nat] /\ f[0] = 0 /\ \A i \in 1 .. n : f[i] = f[i - 1] + s[i]
    BY <1>4 DEF IsSums
  <2>2. ASSUME NEW i \in 0 .. n
        PROVE  f[i] = IF i = 0 THEN 0 ELSE Plus(f[i - 1], s[i])
    <3>1. CASE i = 0
      BY <2>1, <3>1
    <3>2. CASE i # 0
      <4>1. i \in 1 .. n /\ i - 1 \in 0 .. n
        BY <1>1, <3>2
      <4>2. f[i - 1] \in Nat /\ s[i] \in Nat
        BY <1>1, <2>1, <4>1
      <4>3. QED
        BY <1>2, <2>1, <3>2, <4>1, <4>2
    <3>3. QED
      BY <3>1, <3>2
  <2>3. IsSum(f)
    BY <2>1, <2>2
  <2>4. IsSum(sum)
    <3> HIDE DEF IsSum
    <3>1. QED
      BY <2>3, Zenon
  <2>5. Total(s) = sum[n]
    BY DEF Total
  <2> HIDE DEF sum
  <2> DEFINE T == {i \in Nat : i <= n => sum[i] = f[i]}
  <2>6. 0 \in T
    BY <1>1, <2>1, <2>4
  <2>7. ASSUME NEW i \in T
        PROVE  i + 1 \in T
    <3>1. CASE i + 1 <= n
      <4>1. /\ i \in Nat /\ i + 1 \in 1 .. n /\ i + 1 \in 0 .. n /\ i + 1 # 0 /\ (i + 1) - 1 = i
            /\ sum[i] = f[i]
        BY <1>1, <3>1
      <4>2. sum[i + 1] = Plus(sum[i], s[i + 1])
        BY <2>4, <4>1
      <4>3. f[i + 1] = Plus(f[i], s[i + 1])
        BY <2>2, <4>1
      <4>4. QED
        BY <4>1, <4>2, <4>3
    <3>2. CASE ~(i + 1 <= n)
      BY <3>2
    <3>3. QED
      BY <3>1, <3>2
  <2>8. Nat \subseteq T
    <3> HIDE DEF T
    <3>1. QED
      BY <2>6, <2>7, Induction
  <2>9. sum[n] = f[n]
    BY <1>1, <2>8
  <2>10. f[n] \in Nat
    BY <1>1, <2>1
  <2>11. QED
    BY <2>5, <2>9, <2>10
<1>5. QED
  BY <1>3, <1>4

\* One after the other,
LEMMA TotalOfBoth ==
    ASSUME NEW s \in Seq(Nat), NEW t \in Seq(Nat)
    PROVE  /\ Total(s) \in Nat /\ Total(t) \in Nat
           /\ Total(s \o t) = Total(s) + Total(t)
<1> DEFINE n == Len(s)
           m == Len(t)
<1>1. n \in Nat /\ m \in Nat
  OBVIOUS
<1>2. PICK f : IsSums(f, s)
  BY SumsFacts
<1>3. PICK g : IsSums(g, t)
  BY SumsFacts
<1>4. /\ f \in [0 .. n -> Nat] /\ f[0] = 0 /\ \A i \in 1 .. n : f[i] = f[i - 1] + s[i]
      /\ g \in [0 .. m -> Nat] /\ g[0] = 0 /\ \A i \in 1 .. m : g[i] = g[i - 1] + t[i]
  BY <1>2, <1>3 DEF IsSums
<1>5. Total(s) = f[n] /\ Total(t) = g[m] /\ Total(s) \in Nat /\ Total(t) \in Nat
  BY <1>2, <1>3, SumsFacts
<1> DEFINE h == [i \in 0 .. n + m |-> IF i <= n THEN f[i] ELSE f[n] + g[i - n]]
<1>6. s \o t \in Seq(Nat) /\ Len(s \o t) = n + m
  BY Concatenated
<1>7. \A i \in 1 .. n + m : (s \o t)[i] = IF i <= n THEN s[i] ELSE t[i - n]
  OBVIOUS
<1> HIDE DEF n, m
<1>8. h \in [0 .. n + m -> Nat]
  <2>1. ASSUME NEW i \in 0 .. n + m
        PROVE  (IF i <= n THEN f[i] ELSE f[n] + g[i - n]) \in Nat
    <3>1. CASE i <= n
      <4>1. i \in 0 .. n
        BY <1>1, <3>1
      <4>2. QED
        BY <1>4, <3>1, <4>1
    <3>2. CASE ~(i <= n)
      <4>1. n \in 0 .. n /\ i - n \in 0 .. m
        BY <1>1, <3>2
      <4>2. f[n] \in Nat /\ g[i - n] \in Nat
        BY <1>4, <4>1
      <4>3. QED
        BY <3>2, <4>2
    <3>3. QED
      BY <3>1, <3>2
  <2>2. QED
    BY <2>1
<1>9. h[0] = 0
  BY <1>1, <1>4
<1>10. ASSUME NEW i \in 1 .. n + m
       PROVE  h[i] = h[i - 1] + (s \o t)[i]
  <2>1. i \in 0 .. n + m /\ i - 1 \in 0 .. n + m /\ i \in Nat /\ n \in Nat
    BY <1>1
  <2>2. CASE i <= n
    <3>1. i \in 1 .. n /\ i - 1 <= n
      BY <2>1, <2>2
    <3>2. h[i] = f[i] /\ h[i - 1] = f[i - 1]
      BY <2>1, <2>2, <3>1
    <3>3. QED
      BY <1>4, <1>7, <2>2, <3>1, <3>2
  <2>3. CASE i = n + 1
    <3>1. i - n = 1 /\ i - 1 = n /\ ~(i <= n) /\ 1 \in 1 .. m /\ n \in 0 .. n
      BY <1>1, <2>1, <2>3
    <3>2. h[i] = f[n] + g[1] /\ h[i - 1] = f[n] /\ (s \o t)[i] = t[1]
      <4>1. h[i] = f[n] + g[i - n] /\ (s \o t)[i] = t[i - n]
        BY <1>7, <2>1, <3>1
      <4>2. n \in 0 .. n + m /\ n <= n
        BY <1>1
      <4>3. h[n] = f[n]
        BY <4>2
      <4> HIDE DEF h
      <4>4. QED
        BY <3>1, <4>1, <4>3
    <3>3. g[1] = g[0] + t[1] /\ g[0] = 0 /\ 1 - 1 = 0
      BY <1>4, <3>1
    <3>4. g[1] \in Nat /\ t[1] \in Nat /\ f[n] \in Nat
      <4>1. 1 \in 0 .. m /\ 1 \in 1 .. Len(t)
        BY <3>1 DEF m
      <4>2. QED
        BY <1>4, <3>1, <4>1, ElementOfSeq
    <3>5. QED
      BY <3>2, <3>3, <3>4
  <2>4. CASE i > n + 1
    <3>1. ~(i <= n) /\ ~(i - 1 <= n) /\ i - n \in 1 .. m /\ (i - 1) - n = (i - n) - 1 /\ n \in 0 .. n
      BY <1>1, <2>1, <2>4
    <3>2. h[i] = f[n] + g[i - n] /\ h[i - 1] = f[n] + g[(i - n) - 1] /\ (s \o t)[i] = t[i - n]
      BY <1>7, <2>1, <3>1
    <3> DEFINE k == i - n
    <3>3. k \in 1 .. m /\ k - 1 \in 0 .. m /\ k \in 0 .. m
      BY <1>1, <3>1
    <3>4. g[k] = g[k - 1] + t[k]
      BY <1>4, <3>3
    <3>5. f[n] \in Nat /\ g[k - 1] \in Nat /\ t[k] \in Nat
      <4>1. k \in 1 .. Len(t)
        BY <3>3 DEF m
      <4>2. t[k] \in Nat
        BY <4>1, ElementOfSeq
      <4>3. QED
        BY <1>4, <3>1, <3>3, <4>2
    <3>6. h[i] = f[n] + g[k] /\ h[i - 1] = f[n] + g[k - 1] /\ (s \o t)[i] = t[k]
      BY <3>2
    <3> HIDE DEF k, h
    <3>7. QED
      BY <3>4, <3>5, <3>6, SMTT(30)
  <2>5. i <= n \/ i = n + 1 \/ i > n + 1
    BY <2>1
  <2> HIDE DEF h
  <2>6. QED
    BY <2>2, <2>3, <2>4, <2>5
<1>11. h[n + m] = f[n] + g[m]
  <2>1. n + m \in 0 .. n + m /\ (n + m) - n = m /\ n \in 0 .. n /\ m \in 0 .. m
    BY <1>1
  <2>2. CASE m = 0
    <3>1. n + m = n /\ g[m] = 0 /\ n <= n
      BY <1>1, <1>4, <2>2
    <3>2. f[n] \in Nat
      BY <1>4, <2>1
    <3>3. QED
      BY <2>1, <3>1, <3>2
  <2>3. CASE m # 0
    <3>1. ~(n + m <= n)
      BY <1>1, <2>3
    <3>2. QED
      BY <2>1, <3>1
  <2>4. QED
    BY <2>2, <2>3
<1> HIDE DEF h
<1>12. IsSums(h, s \o t)
  BY <1>6, <1>8, <1>9, <1>10 DEF IsSums
<1>13. Total(s \o t) = h[n + m]
  <2>1. Total(s \o t) = h[Len(s \o t)]
    BY <1>6, <1>12, SumsFacts
  <2>2. QED
    BY <1>6, <2>1
<1>14. QED
  BY <1>5, <1>11, <1>13

\* one alone, and as many of one size.
LEMMA TotalOfEqual ==
    ASSUME NEW s \in Seq(Nat), NEW x \in Nat, \A i \in 1 .. Len(s) : s[i] = x
    PROVE  Total(s) = Len(s) * x
<1> DEFINE f == [i \in 0 .. Len(s) |-> i * x]
<1>1. Len(s) \in Nat
  OBVIOUS
<1>2. f \in [0 .. Len(s) -> Nat]
  <2>1. \A i \in 0 .. Len(s) : i * x \in Nat
    BY <1>1
  <2>2. QED
    BY <2>1
<1>3. f[0] = 0
  BY <1>1
<1>4. ASSUME NEW i \in 1 .. Len(s)
      PROVE  f[i] = f[i - 1] + s[i]
  <2>1. i - 1 \in 0 .. Len(s) /\ i \in 0 .. Len(s) /\ i - 1 \in Nat
    BY <1>1
  <2>2. i * x = (i - 1) * x + x
    BY <2>1
  <2>3. QED
    BY <2>1, <2>2
<1>5. IsSums(f, s)
  BY <1>2, <1>3, <1>4 DEF IsSums
<1>6. Total(s) = f[Len(s)]
  BY <1>5, SumsFacts
<1>7. QED
  BY <1>1, <1>6

\* A struct has the same size wherever it is asked from, unless it has none: fewer
\* structs being visited only make for fewer circles.
LEMMA SizeWherever ==
    ASSUME NEW structs, Parsed(structs), NEW fixed_mode,
           NEW size, IsSize(size, structs, fixed_mode)
    PROVE  \A V \in SUBSET DOMAIN structs : \A U \in SUBSET V : \A n \in DOMAIN structs :
               size[V][n] # Error => size[U][n] = size[V][n]
<1> DEFINE D == DOMAIN structs
           Same(V) == \A U \in SUBSET V : \A n \in D : size[V][n] # Error => size[U][n] = size[V][n]
           S == {V \in SUBSET D : Same(V)}
<1>1. IsFiniteSet(D)
  BY DEF Parsed
<1>2. ASSUME NEW V \in SUBSET D, \A t \in D \ V : V \cup {t} \in S,
             NEW U \in SUBSET V, NEW n \in D, size[V][n] # Error
      PROVE  size[U][n] = size[V][n]
  <2>1. /\ structs[n] \in Seq(FieldRecord(D)) /\ DOMAIN structs[n] = 1 .. Len(structs[n])
        /\ \A i \in 1 .. Len(structs[n]) : structs[n][i].wire_type \in WireType \cup D
    <3>1. structs[n] \in Seq(FieldRecord(D))
      BY DEF Parsed
    <3>2. \A i \in 1 .. Len(structs[n]) : structs[n][i] \in FieldRecord(D)
      BY <3>1, ElementOfSeq
    <3>3. QED
      BY <3>1, <3>2 DEF FieldRecord
  <2>2. ~NoSize(size, V, structs, n, fixed_mode)
    BY <1>2, SizeFacts
  <2>3. ASSUME NEW i \in 1 .. Len(structs[n])
        PROVE  ElementSize(size, U, structs[n][i].wire_type)
                   = ElementSize(size, V, structs[n][i].wire_type)
    <3> DEFINE t == structs[n][i].wire_type
    <3> SUFFICES ElementSize(size, U, t) = ElementSize(size, V, t)
      OBVIOUS
    <3>1. ElementSize(size, V, t) # Error /\ t \in WireType \cup D
      BY <2>1, <2>2 DEF NoSize
    <3> HIDE DEF t
    <3>2. CASE t \in WireType
      BY <3>2 DEF ElementSize, WireType
    <3>3. CASE t \notin WireType
      <4>1. t \in D \ V /\ t \notin U /\ ElementSize(size, V, t) = size[V \cup {t}][t]
            /\ ElementSize(size, U, t) = size[U \cup {t}][t]
        BY <3>1, <3>3 DEF ElementSize, WireType
      <4>2. Same(V \cup {t}) /\ U \cup {t} \in SUBSET (V \cup {t})
        BY <1>2, <4>1
      <4>3. size[V \cup {t}][t] # Error
        BY <3>1, <4>1
      <4>4. size[U \cup {t}][t] = size[V \cup {t}][t]
        BY <4>1, <4>2, <4>3, Zenon
      <4>5. QED
        BY <4>1, <4>4
    <3>4. QED
      BY <3>2, <3>3
  <2>4. FieldSizes(size, U, structs, n, fixed_mode) = FieldSizes(size, V, structs, n, fixed_mode)
    BY <2>1, <2>3 DEF FieldSizes
  <2>5. /\ size[U][n] = Total(FieldSizes(size, U, structs, n, fixed_mode))
        /\ size[V][n] = Total(FieldSizes(size, V, structs, n, fixed_mode))
    <3>1. U \in SUBSET D
      OBVIOUS
    <3>2. \A W \in SUBSET D : size[W] = Sizes(size, W, structs, fixed_mode)
      BY DEF IsSize
    <3>3. QED
      BY <3>1, <3>2 DEF Sizes
  <2>6. QED
    BY <2>4, <2>5
<1> HIDE DEF D
<1>3. Descends(D, S)
  <2>1. ASSUME NEW V \in SUBSET D, \A t \in D \ V : V \cup {t} \in S
        PROVE  Same(V)
    BY <1>2, <2>1
  <2>2. QED
    BY <2>1 DEF Descends
<1>4. SUBSET D \subseteq S
  <2> HIDE DEF S
  <2>1. QED
    BY <1>1, <1>3, Descent
<1>5. QED
  BY <1>4 DEF D

-----------------------------------------------------------------------------
(* Sequences built element by element, and sequences of sequences. *)

\* What holds of no element and of one element more holds of every sequence.
LEMMA SeqInduction ==
    ASSUME NEW S, NEW P, <<>> \in P,
           \A s \in Seq(S) : \A x \in S : s \in P => s \o <<x>> \in P
    PROVE  Seq(S) \subseteq P
<1> DEFINE T == {n \in Nat : \A s \in Seq(S) : Len(s) = n => s \in P}
<1>1. 0 \in T
  <2>1. \A s \in Seq(S) : Len(s) = 0 => s = <<>>
    BY EmptySeq
  <2>2. QED
    BY <2>1
<1>2. ASSUME NEW n \in T, n \in Nat
      PROVE  n + 1 \in T
  <2>1. ASSUME NEW s \in Seq(S), Len(s) = n + 1
        PROVE  s \in P
    <3>1. s # <<>>
      BY <1>2, <2>1, EmptySeq
    <3>2. PICK t \in Seq(S), x \in S : s = Append(t, x)
      BY <3>1, SequenceEmptyOrAppend
    <3>3. s = t \o <<x>> /\ Len(s) = Len(t) + 1 /\ Len(t) \in Nat
      BY <3>2, AppendIsConcat, AppendProperties, LenProperties
    <3>4. t \in P
      BY <1>2, <2>1, <3>3
    <3>5. QED
      BY <3>3, <3>4
  <2>2. QED
    BY <1>2, <2>1
<1>3. Nat \subseteq T
  <2> HIDE DEF T
  <2>1. QED
    BY <1>1, <1>2, Induction
<1>4. QED
  BY <1>3, LenProperties

\* The sequences of ss one after the other, up to each of them.
IsFlattened(f, S, ss) ==
    /\ f \in [0 .. Len(ss) -> Seq(S)] /\ f[0] = <<>>
    /\ \A i \in 1 .. Len(ss) : f[i] = f[i - 1] \o ss[i]

\* FlattenSeq, which counts from the first sequence, is the last of these.
LEMMA FlatFacts ==
    ASSUME NEW S, NEW ss \in Seq(Seq(S))
    PROVE  /\ \E f : IsFlattened(f, S, ss)
           /\ \A f : IsFlattened(f, S, ss) => FlattenSeq(ss) = f[Len(ss)]
<1> DEFINE n == Len(ss)
           Flat(g) == g = [i \in 1 .. n |-> IF i = 1 THEN ss[i] ELSE g[i - 1] \o ss[i]]
           flat == CHOOSE g : Flat(g)
<1>1. n \in Nat /\ \A i \in 1 .. n : ss[i] \in Seq(S)
  BY ElementOfSeq
<1>2. \E f : IsFlattened(f, S, ss)
  <2> DEFINE F == [i \in 1 .. n |-> [x \in Seq(S) |-> x \o ss[i]]]
  <2>1. F \in [1 .. n -> [Seq(S) -> Seq(S)]]
    BY <1>1
  <2>2. \A i \in 1 .. n : \A x \in Seq(S) : F[i][x] = x \o ss[i]
    OBVIOUS
  <2>3. <<>> \in Seq(S)
    OBVIOUS
  <2> HIDE DEF F, n
  <2>4. Steps(Seq(S), <<>>, n, F)
    BY <1>1, <2>1, <2>3, Leftwards
  <2>5. PICK f \in [0 .. n -> Seq(S)] : f[0] = <<>> /\ \A i \in 1 .. n : f[i] = F[i][f[i - 1]]
    BY <2>4 DEF Steps
  <2>6. ASSUME NEW i \in 1 .. n
        PROVE  f[i] = f[i - 1] \o ss[i]
    <3>1. i - 1 \in 0 .. n
      BY <1>1
    <3>2. f[i - 1] \in Seq(S) /\ f[i] = F[i][f[i - 1]]
      BY <2>5, <3>1
    <3>3. QED
      BY <2>2, <3>2
  <2>7. QED
    BY <2>5, <2>6, <1>1 DEF IsFlattened, n
<1>3. ASSUME NEW f, IsFlattened(f, S, ss)
      PROVE  FlattenSeq(ss) = f[n]
  <2>1. CASE n = 0
    BY <1>3, <2>1 DEF FlattenSeq, IsFlattened
  <2>2. CASE n # 0
    <3> DEFINE g == [i \in 1 .. n |-> f[i]]
    <3>1. \A i \in 1 .. n : f[i] = IF i = 1 THEN ss[i] ELSE g[i - 1] \o ss[i]
      <4>1. ASSUME NEW i \in 1 .. n
            PROVE  f[i] = IF i = 1 THEN ss[i] ELSE g[i - 1] \o ss[i]
        <5>1. f[i] = f[i - 1] \o ss[i] /\ ss[i] \in Seq(S) /\ f[0] = <<>>
          BY <1>1, <1>3 DEF IsFlattened
        <5>2. CASE i = 1
          <6>1. <<>> \o ss[i] = ss[i]
            BY <5>1, ConcatEmptySeq
          <6>2. i - 1 = 0
            BY <5>2
          <6>3. QED
            BY <5>1, <5>2, <6>1, <6>2
        <5>3. CASE i # 1
          <6>1. i - 1 \in 1 .. n
            BY <1>1, <5>3
          <6>2. QED
            BY <5>1, <5>3, <6>1
        <5>4. QED
          BY <5>2, <5>3
      <4>2. QED
        BY <4>1
    <3>2. Flat(g)
      BY <3>1
    <3>3. Flat(flat)
      BY <3>2, Zenon
    <3>4. FlattenSeq(ss) = flat[n]
      BY <2>2 DEF FlattenSeq
    <3> HIDE DEF flat
    <3> DEFINE T == {i \in Nat : i + 1 <= n => flat[i + 1] = f[i + 1]}
    <3>5. 0 \in T
      <4>1. 1 \in 1 .. n
        BY <1>1, <2>2
      <4>2. flat[1] = ss[1] /\ f[1] = ss[1]
        BY <3>1, <3>3, <4>1
      <4>3. QED
        BY <4>2
    <3>6. ASSUME NEW i \in T, i \in Nat
          PROVE  i + 1 \in T
      <4>1. CASE (i + 1) + 1 <= n
        <5>1. (i + 1) + 1 \in 1 .. n /\ (i + 1) + 1 # 1 /\ ((i + 1) + 1) - 1 = i + 1 /\ i + 1 \in 1 .. n
          BY <1>1, <3>6, <4>1
        <5>2. flat[i + 1] = f[i + 1]
          BY <3>6, <5>1
        <5>3. flat[(i + 1) + 1] = flat[i + 1] \o ss[(i + 1) + 1]
          BY <3>3, <5>1
        <5>4. f[(i + 1) + 1] = f[i + 1] \o ss[(i + 1) + 1]
          BY <1>3, <5>1 DEF IsFlattened
        <5>5. flat[(i + 1) + 1] = f[(i + 1) + 1] /\ i + 1 \in Nat
          BY <3>6, <5>2, <5>3, <5>4
        <5>6. QED
          BY <5>5
      <4>2. CASE ~((i + 1) + 1 <= n)
        BY <3>6, <4>2
      <4>3. QED
        BY <4>1, <4>2
    <3>7. Nat \subseteq T
      <4> HIDE DEF T
      <4>1. QED
        BY <3>5, <3>6, Induction
    <3>8. n - 1 \in Nat /\ (n - 1) + 1 = n /\ n <= n
      BY <1>1, <2>2
    <3>9. QED
      BY <3>4, <3>7, <3>8
  <2>3. QED
    BY <2>1, <2>2
<1>4. QED
  BY <1>2, <1>3

\* One sequence more comes after all the others.
LEMMA FlatMore ==
    ASSUME NEW S, NEW ss \in Seq(Seq(S)), NEW s \in Seq(S)
    PROVE  /\ FlattenSeq(ss) \in Seq(S)
           /\ FlattenSeq(ss \o <<s>>) = FlattenSeq(ss) \o s
<1> DEFINE n == Len(ss)
           more == ss \o <<s>>
<1>1. n \in Nat
  OBVIOUS
<1>2. /\ more \in Seq(Seq(S)) /\ Len(more) = n + 1 /\ more[n + 1] = s
      /\ \A i \in 1 .. n : more[i] = ss[i]
  BY <1>1
<1> HIDE DEF more
<1>3. PICK f : IsFlattened(f, S, ss)
  BY FlatFacts
<1>4. FlattenSeq(ss) = f[n] /\ f[n] \in Seq(S)
  <2>1. FlattenSeq(ss) = f[n]
    BY <1>3, FlatFacts
  <2>2. n \in 0 .. n
    BY <1>1
  <2>3. QED
    BY <1>3, <2>1, <2>2 DEF IsFlattened
<1>5. PICK g : IsFlattened(g, S, more)
  BY <1>2, FlatFacts
<1>6. FlattenSeq(more) = g[n + 1] /\ g[n + 1] = g[n] \o s
  <2>1. n + 1 \in 1 .. Len(more) /\ (n + 1) - 1 = n
    BY <1>1, <1>2
  <2>2. g[n + 1] = g[n] \o s
    BY <1>2, <1>5, <2>1 DEF IsFlattened
  <2>3. QED
    BY <1>2, <1>5, <2>2, FlatFacts
<1> DEFINE T == {i \in Nat : i <= n => f[i] = g[i]}
<1>7. 0 \in T
  <2>1. f[0] = <<>> /\ g[0] = <<>>
    BY <1>3, <1>5 DEF IsFlattened
  <2>2. QED
    BY <2>1
<1>8. ASSUME NEW i \in T, i \in Nat
      PROVE  i + 1 \in T
  <2>1. CASE i + 1 <= n
    <3>1. i + 1 \in 1 .. n /\ (i + 1) - 1 = i /\ i <= n /\ i + 1 \in 1 .. n + 1
      BY <1>1, <1>8, <2>1
    <3>2. f[i + 1] = f[i] \o ss[i + 1]
      BY <1>3, <3>1 DEF IsFlattened
    <3>3. g[i + 1] = g[i] \o ss[i + 1]
      BY <1>2, <1>5, <3>1 DEF IsFlattened
    <3>4. f[i] = g[i] /\ i + 1 \in Nat
      BY <1>8, <3>1
    <3>5. f[i + 1] = g[i + 1]
      BY <3>2, <3>3, <3>4
    <3>6. QED
      BY <3>4, <3>5
  <2>2. CASE ~(i + 1 <= n)
    BY <1>8, <2>2
  <2>3. QED
    BY <2>1, <2>2
<1>9. Nat \subseteq T
  <2> HIDE DEF T
  <2>1. QED
    BY <1>7, <1>8, Induction
<1>10. f[n] = g[n]
  BY <1>1, <1>9
<1>11. QED
  BY <1>4, <1>6, <1>10 DEF more

LEMMA FlatNone == FlattenSeq(<<>>) = <<>>
BY DEF FlattenSeq

-----------------------------------------------------------------------------
(* A sequence in which each element is replaced by a sequence. *)

Spread(g, s) == FlattenSeq([i \in DOMAIN s |-> g[s[i]]])

LEMMA SpreadMore ==
    ASSUME NEW A, NEW B, NEW g \in [A -> Seq(B)], NEW s \in Seq(A), NEW x \in A
    PROVE  Spread(g, s \o <<x>>) = Spread(g, s) \o g[x]
<1> DEFINE ss == [i \in DOMAIN s |-> g[s[i]]]
           n == Len(s)
           more == s \o <<x>>
<1>1. n \in Nat /\ DOMAIN s = 1 .. n /\ \A i \in 1 .. n : s[i] \in A
  BY LenProperties, ElementOfSeq
<1>2. ss \in Seq(Seq(B)) /\ Len(ss) = n
  <2>1. ss = [i \in 1 .. n |-> g[s[i]]] /\ \A i \in 1 .. n : g[s[i]] \in Seq(B)
    BY <1>1
  <2> HIDE DEF n
  <2>2. QED
    BY <1>1, <2>1
<1>3. g[x] \in Seq(B)
  OBVIOUS
<1>4. /\ DOMAIN more = 1 .. n + 1 /\ more[n + 1] = x
      /\ \A i \in 1 .. n : more[i] = s[i]
  BY <1>1
<1>5. [i \in DOMAIN more |-> g[more[i]]] = ss \o <<g[x]>>
  <2> DEFINE t == [i \in DOMAIN more |-> g[more[i]]]
             u == ss \o <<g[x]>>
  <2>1. t = [i \in 1 .. n + 1 |-> IF i = n + 1 THEN g[x] ELSE g[s[i]]]
    <3> HIDE DEF more, n
    <3>1. QED
      BY <1>1, <1>4
  <2>2. u = [i \in 1 .. n + 1 |-> IF i = n + 1 THEN g[x] ELSE g[s[i]]]
    <3>1. \A i \in 1 .. n : ss[i] = g[s[i]]
      BY <1>1
    <3> HIDE DEF ss, n
    <3>2. QED
      BY <1>1, <1>2, <1>3, <3>1
  <2>3. QED
    BY <2>1, <2>2
<1>6. FlattenSeq(ss) \in Seq(B) /\ FlattenSeq(ss \o <<g[x]>>) = FlattenSeq(ss) \o g[x]
  <2> HIDE DEF ss
  <2>1. QED
    BY <1>2, <1>3, FlatMore
<1>7. QED
  BY <1>3, <1>5, <1>6 DEF Spread

LEMMA SpreadType ==
    ASSUME NEW A, NEW B, NEW g \in [A -> Seq(B)], NEW s \in Seq(A)
    PROVE  Spread(g, s) \in Seq(B)
<1> DEFINE ss == [i \in DOMAIN s |-> g[s[i]]]
           n == Len(s)
<1>1. n \in Nat /\ DOMAIN s = 1 .. n /\ \A i \in 1 .. n : s[i] \in A
  BY LenProperties, ElementOfSeq
<1>2. ss = [i \in 1 .. n |-> g[s[i]]] /\ \A i \in 1 .. n : g[s[i]] \in Seq(B)
  BY <1>1
<1>3. ss \in Seq(Seq(B))
  <2> HIDE DEF n
  <2>1. QED
    BY <1>1, <1>2
<1>4. <<>> \in Seq(B)
  OBVIOUS
<1> HIDE DEF ss
<1>5. FlattenSeq(ss) \in Seq(B)
  BY <1>3, <1>4, FlatMore
<1>6. QED
  BY <1>5 DEF Spread, ss

LEMMA SpreadNone == \A g : Spread(g, <<>>) = <<>>
<1>1. \A g : [i \in DOMAIN <<>> |-> g[<<>>[i]]] = <<>>
  OBVIOUS
<1>2. QED
  BY <1>1, FlatNone DEF Spread

\* Spreading is a homomorphism: it takes sequences one after the other to
\* sequences one after the other.
Homomorphism(g, A, B) ==
    /\ Spread(g, <<>>) = <<>>
    /\ \A s \in Seq(A) : Spread(g, s) \in Seq(B)
    /\ \A x \in A : Spread(g, <<x>>) = g[x]
    /\ \A s, t \in Seq(A) : Spread(g, s \o t) = Spread(g, s) \o Spread(g, t)

LEMMA SpreadFacts ==
    ASSUME NEW A, NEW B, NEW g \in [A -> Seq(B)]
    PROVE  Homomorphism(g, A, B)
<1>1. Spread(g, <<>>) = <<>>
  BY SpreadNone
<1>2. \A s \in Seq(A) : Spread(g, s) \in Seq(B)
  BY SpreadType
<1>3. ASSUME NEW x \in A
      PROVE  Spread(g, <<x>>) = g[x]
  <2>1. <<>> \in Seq(A) /\ g[x] \in Seq(B)
    OBVIOUS
  <2>2. Spread(g, <<>> \o <<x>>) = <<>> \o g[x]
    <3> DEFINE e == <<>>
    <3>1. e \in Seq(A) /\ Spread(g, e) = e
      BY <1>1, <2>1
    <3> HIDE DEF e
    <3>2. Spread(g, e \o <<x>>) = Spread(g, e) \o g[x]
      BY <3>1, SpreadMore, Zenon
    <3>3. QED
      BY <3>1, <3>2 DEF e
  <2>3. <<>> \o <<x>> = <<x>> /\ <<>> \o g[x] = g[x]
    BY <2>1
  <2>4. QED
    BY <2>2, <2>3
<1>4. ASSUME NEW s \in Seq(A)
      PROVE  \A t \in Seq(A) : Spread(g, s \o t) = Spread(g, s) \o Spread(g, t)
  <2> DEFINE P == {t \in Seq(A) : Spread(g, s \o t) = Spread(g, s) \o Spread(g, t)}
  <2>1. <<>> \in P
    <3>1. s \o <<>> = s /\ Spread(g, s) \o <<>> = Spread(g, s) /\ <<>> \in Seq(A)
      BY <1>2, ConcatEmptySeq
    <3>2. QED
      BY <1>1, <3>1
  <2>2. ASSUME NEW t \in Seq(A), NEW x \in A, t \in P
        PROVE  t \o <<x>> \in P
    <3> DEFINE one == <<x>>
    <3>1. one \in Seq(A) /\ t \o one \in Seq(A) /\ s \o t \in Seq(A)
      OBVIOUS
    <3>2. s \o (t \o one) = (s \o t) \o one
      <4> HIDE DEF one, P
      <4>1. one \in Seq(A)
        BY <3>1
      <4>2. (s \o t) \o one = s \o (t \o one)
        BY <4>1, ConcatAssociative, SMTT(30)
      <4>3. QED
        BY <4>2
    <3>3. /\ Spread(g, (s \o t) \o one) = Spread(g, s \o t) \o g[x]
          /\ Spread(g, t \o one) = Spread(g, t) \o g[x]
      <4> DEFINE u == s \o t
      <4> HIDE DEF P
      <4>1. u \in Seq(A)
        BY <3>1
      <4>2. Spread(g, t \o <<x>>) = Spread(g, t) \o g[x]
        BY SpreadMore, Zenon
      <4> HIDE DEF u
      <4>3. Spread(g, u \o <<x>>) = Spread(g, u) \o g[x]
        BY <4>1, SpreadMore, Zenon
      <4>4. QED
        BY <4>2, <4>3 DEF u
    <3>4. Spread(g, s) \in Seq(B) /\ Spread(g, t) \in Seq(B) /\ g[x] \in Seq(B)
      BY <1>2
    <3>5. (Spread(g, s) \o Spread(g, t)) \o g[x] = Spread(g, s) \o (Spread(g, t) \o g[x])
      <4> DEFINE a == Spread(g, s)
                 b == Spread(g, t)
                 c == g[x]
      <4>1. a \in Seq(B) /\ b \in Seq(B) /\ c \in Seq(B)
        BY <3>4
      <4> HIDE DEF a, b, c
      <4>2. (a \o b) \o c = a \o (b \o c)
        BY <4>1, ConcatAssociative, SMTT(30)
      <4>3. QED
        BY <4>2 DEF a, b, c
    <3>6. Spread(g, s \o (t \o one)) = Spread(g, s) \o Spread(g, t \o one)
      BY <2>2, <3>2, <3>3, <3>5
    <3>7. QED
      BY <3>1, <3>6
  <2>3. Seq(A) \subseteq P
    <3> HIDE DEF P
    <3>1. QED
      BY <2>1, <2>2, SeqInduction
  <2>4. QED
    BY <2>3
<1>5. QED
  BY <1>1, <1>2, <1>3, <1>4 DEF Homomorphism

\* An element that stands for itself.
LEMMA SpreadSame ==
    ASSUME NEW A, NEW B, NEW g \in [A -> Seq(B)], NEW C, C \subseteq A,
           \A x \in C : g[x] = <<x>>
    PROVE  \A s \in Seq(C) : Spread(g, s) = s
<1> DEFINE P == {s \in Seq(C) : Spread(g, s) = s}
<1>1. <<>> \in P
  BY SpreadNone
<1>2. ASSUME NEW s \in Seq(C), NEW x \in C, s \in P
      PROVE  s \o <<x>> \in P
  <2>1. s \in Seq(A) /\ x \in A /\ g[x] = <<x>> /\ s \o <<x>> \in Seq(C)
    BY SeqMonotonic
  <2>2. Spread(g, s \o <<x>>) = Spread(g, s) \o g[x]
    <3> HIDE DEF P
    <3>1. QED
      BY <2>1, SpreadMore, Zenon
  <2>3. QED
    BY <1>2, <2>1, <2>2
<1>3. Seq(C) \subseteq P
  <2> HIDE DEF P
  <2>1. QED
    BY <1>1, <1>2, SeqInduction
<1>4. QED
  BY <1>3

-----------------------------------------------------------------------------
(* A number for each element, added up. *)

SumOf(h, s) == Total([i \in DOMAIN s |-> h[s[i]]])

Additive(h, A) ==
    /\ SumOf(h, <<>>) = 0
    /\ \A s \in Seq(A) : SumOf(h, s) \in Nat
    /\ \A x \in A : SumOf(h, <<x>>) = h[x]
    /\ \A s, t \in Seq(A) : SumOf(h, s \o t) = SumOf(h, s) + SumOf(h, t)

LEMMA SumFacts ==
    ASSUME NEW A, NEW h \in [A -> Nat]
    PROVE  Additive(h, A)
<1> DEFINE N(s) == [i \in DOMAIN s |-> h[s[i]]]
<1>1. ASSUME NEW s \in Seq(A)
      PROVE  N(s) \in Seq(Nat) /\ Len(N(s)) = Len(s) /\ \A i \in 1 .. Len(s) : N(s)[i] = h[s[i]]
  <2>1. Len(s) \in Nat /\ DOMAIN s = 1 .. Len(s) /\ \A i \in 1 .. Len(s) : s[i] \in A
    BY LenProperties, ElementOfSeq
  <2>2. N(s) = [i \in 1 .. Len(s) |-> h[s[i]]] /\ \A i \in 1 .. Len(s) : h[s[i]] \in Nat
    BY <2>1
  <2> DEFINE n == Len(s)
  <2>3. n \in Nat /\ N(s) = [i \in 1 .. n |-> h[s[i]]] /\ \A i \in 1 .. n : h[s[i]] \in Nat
    BY <2>1, <2>2
  <2> HIDE DEF n
  <2>4. N(s) \in Seq(Nat) /\ Len(N(s)) = n /\ \A i \in 1 .. n : N(s)[i] = h[s[i]]
    BY <2>3
  <2>5. QED
    BY <2>4 DEF n
<1>2. \A s \in Seq(A) : SumOf(h, s) \in Nat
  <2>1. \A s \in Seq(A) : Total(N(s)) \in Nat
    BY <1>1, TotalOfBoth
  <2>2. QED
    BY <2>1 DEF SumOf
<1>3. ASSUME NEW s \in Seq(A), NEW t \in Seq(A)
      PROVE  SumOf(h, s \o t) = SumOf(h, s) + SumOf(h, t)
  <2>1. N(s \o t) = N(s) \o N(t)
    <3> DEFINE u == s \o t
               a == N(s)
               b == N(t)
               c == N(u)
    <3>1. u \in Seq(A) /\ Len(u) = Len(s) + Len(t) /\ Len(s) \in Nat /\ Len(t) \in Nat
          /\ \A i \in 1 .. Len(s) + Len(t) : u[i] = IF i <= Len(s) THEN s[i] ELSE t[i - Len(s)]
      BY ConcatProperties, LenProperties
    <3>2. /\ a \in Seq(Nat) /\ Len(a) = Len(s) /\ \A i \in 1 .. Len(s) : a[i] = h[s[i]]
          /\ b \in Seq(Nat) /\ Len(b) = Len(t) /\ \A i \in 1 .. Len(t) : b[i] = h[t[i]]
      BY <1>1
    <3>3. c \in Seq(Nat) /\ Len(c) = Len(u) /\ \A i \in 1 .. Len(u) : c[i] = h[u[i]]
      <4> HIDE DEF u
      <4>1. QED
        BY <1>1, <3>1
    <3> HIDE DEF a, b, c, u
    <3>4. /\ a \o b \in Seq(Nat) /\ Len(a \o b) = Len(a) + Len(b)
          /\ \A i \in 1 .. Len(a) + Len(b) : (a \o b)[i] = IF i <= Len(a) THEN a[i] ELSE b[i - Len(a)]
      <4>1. a \in Seq(Nat) /\ b \in Seq(Nat)
        BY <3>2
      <4>2. QED
        BY <4>1, ConcatProperties
    <3>5. ASSUME NEW i \in 1 .. Len(c)
          PROVE  c[i] = (a \o b)[i]
      <4>1. i \in 1 .. Len(s) + Len(t) /\ c[i] = h[u[i]]
        BY <3>1, <3>3
      <4>2. CASE i <= Len(s)
        <5>1. i \in 1 .. Len(s)
          BY <3>1, <4>2
        <5>2. u[i] = s[i] /\ (a \o b)[i] = a[i] /\ a[i] = h[s[i]]
          BY <3>1, <3>2, <3>4, <4>1, <4>2, <5>1
        <5>3. QED
          BY <4>1, <5>2
      <4>3. CASE ~(i <= Len(s))
        <5>1. i - Len(s) \in 1 .. Len(t)
          BY <3>1, <4>1, <4>3
        <5>2. u[i] = t[i - Len(s)] /\ (a \o b)[i] = b[i - Len(a)] /\ b[i - Len(s)] = h[t[i - Len(s)]]
          BY <3>1, <3>2, <3>4, <4>1, <4>3, <5>1
        <5>3. QED
          BY <3>2, <4>1, <5>2
      <4>4. QED
        BY <4>2, <4>3
    <3>6. c = a \o b
      <4>1. Len(c) = Len(a \o b)
        BY <3>1, <3>2, <3>3, <3>4
      <4>2. QED
        BY <3>3, <3>4, <3>5, <4>1, SeqEqual
    <3>7. QED
      BY <3>6 DEF a, b, c, u
  <2>2. Total(N(s) \o N(t)) = Total(N(s)) + Total(N(t))
    BY <1>1, TotalOfBoth
  <2>3. QED
    BY <2>1, <2>2 DEF SumOf
<1>4. ASSUME NEW x \in A
      PROVE  SumOf(h, <<x>>) = h[x]
  <2> DEFINE s == <<x>>
  <2>1. s \in Seq(A) /\ Len(s) = 1 /\ s[1] = x /\ h[x] \in Nat
    OBVIOUS
  <2>2. N(s) \in Seq(Nat) /\ Len(N(s)) = 1 /\ N(s)[1] = h[x]
    BY <1>1, <2>1
  <2> DEFINE t == N(s)
             v == h[x]
  <2>3. t \in Seq(Nat) /\ v \in Nat /\ Len(t) = 1 /\ \A i \in 1 .. Len(t) : t[i] = v
    BY <2>1, <2>2
  <2> HIDE DEF t, v
  <2>4. Total(t) = Len(t) * v
    BY <2>3, TotalOfEqual
  <2>5. Total(t) = v
    BY <2>3, <2>4
  <2>6. QED
    BY <2>5 DEF SumOf, t, v
<1>5. SumOf(h, <<>>) = 0
  <2>1. N(<<>>) \in Seq(Nat) /\ N(<<>>) = <<>>
    OBVIOUS
  <2>2. Total(<<>>) = 0
    <3> DEFINE z == <<>>
    <3>1. z \in Seq(Nat) /\ Len(z) = 0 /\ 0 \in Nat /\ \A i \in 1 .. Len(z) : z[i] = 0
      OBVIOUS
    <3> HIDE DEF z
    <3>2. Total(z) = Len(z) * 0
      BY <3>1, TotalOfEqual
    <3>3. QED
      BY <3>1, <3>2 DEF z
  <2>3. QED
    BY <2>1, <2>2 DEF SumOf
<1>6. QED
  BY <1>2, <1>3, <1>4, <1>5 DEF Additive

\* Sequences as long as a number says, one after the other, are as long as the sum.
LengthsSum(A, g) ==
    \A h \in [A -> Nat] : \A C \in SUBSET A :
        (\A x \in C : Len(g[x]) = h[x]) => \A s \in Seq(C) : Len(Spread(g, s)) = SumOf(h, s)

LEMMA SpreadLength ==
    ASSUME NEW A, NEW B, NEW g \in [A -> Seq(B)]
    PROVE  LengthsSum(A, g)
<1>1. ASSUME NEW h \in [A -> Nat], NEW C \in SUBSET A, \A x \in C : Len(g[x]) = h[x]
      PROVE  \A s \in Seq(C) : Len(Spread(g, s)) = SumOf(h, s)
  <2> DEFINE P == {s \in Seq(C) : Len(Spread(g, s)) = SumOf(h, s)}
  <2>1. <<>> \in P
    BY SpreadNone, SumFacts DEF Additive
  <2>2. ASSUME NEW s \in Seq(C), NEW x \in C, s \in P
        PROVE  s \o <<x>> \in P
    <3>1. s \in Seq(A) /\ x \in A /\ <<x>> \in Seq(A) /\ s \o <<x>> \in Seq(C)
      BY SeqMonotonic
    <3>2. Spread(g, s) \in Seq(B) /\ g[x] \in Seq(B) /\ Spread(g, s \o <<x>>) = Spread(g, s) \o g[x]
      <4> HIDE DEF P
      <4>1. Spread(g, s \o <<x>>) = Spread(g, s) \o g[x]
        BY <3>1, SpreadMore, Zenon
      <4>2. Spread(g, s) \in Seq(B)
        BY <3>1, SpreadType
      <4>3. QED
        BY <3>1, <4>1, <4>2
    <3>3. Len(Spread(g, s \o <<x>>)) = Len(Spread(g, s)) + Len(g[x])
      <4> DEFINE a == Spread(g, s)
                 b == g[x]
      <4>1. a \in Seq(B) /\ b \in Seq(B)
        BY <3>2
      <4> HIDE DEF a, b
      <4>2. Len(a \o b) = Len(a) + Len(b)
        BY <4>1, Concatenated
      <4>3. QED
        BY <3>2, <4>2 DEF a, b
    <3>4. SumOf(h, s \o <<x>>) = SumOf(h, s) + h[x]
      <4>1. Additive(h, A)
        BY SumFacts
      <4>2. QED
        BY <3>1, <4>1 DEF Additive
    <3>5. Len(Spread(g, s \o <<x>>)) = SumOf(h, s \o <<x>>)
      BY <1>1, <2>2, <3>3, <3>4
    <3>6. QED
      BY <3>1, <3>5
  <2>3. Seq(C) \subseteq P
    <3> HIDE DEF P
    <3>1. QED
      BY <2>1, <2>2, SeqInduction
  <2>4. QED
    BY <2>3
<1>2. QED
  BY <1>1 DEF LengthsSum

-----------------------------------------------------------------------------
(* The digits of a number. *)

\* Quotient and remainder are the only ones there are.
LEMMA DivMod ==
    ASSUME NEW a \in Int, NEW b \in Nat, b >= 1, NEW q \in Int, NEW r \in 0 .. b - 1,
           a = q * b + r
    PROVE  a \div b = q /\ (a % b) = r
<1> DEFINE x == a \div b
           y == (a % b)
<1>1. x \in Int /\ y \in 0 .. b - 1 /\ y \in Int /\ a = b * x + y
  OBVIOUS
<1> HIDE DEF x, y
<1>2. r \in Int /\ 0 <= r /\ r < b /\ 0 <= y /\ y < b
  BY <1>1
<1>3. b * x = x * b /\ x * b \in Int /\ q * b \in Int /\ (q - x) * b = q * b - x * b
  BY <1>1
<1>4. (q - x) * b = y - r
  BY <1>1, <1>2, <1>3
<1>5. ASSUME NEW d \in Int, d >= 1
      PROVE  d * b >= b /\ (-d) * b <= -b
  <2> DEFINE e == d - 1
  <2>1. e \in Nat /\ d = e + 1
    BY <1>5
  <2> HIDE DEF e
  <2>2. (e + 1) * b = e * b + b /\ e * b \in Nat
    BY <2>1
  <2>3. (-d) * b = -(d * b)
    OBVIOUS
  <2>4. QED
    BY <2>1, <2>2, <2>3
<1>6. ~(q - x >= 1)
  <2> DEFINE d == q - x
  <2>1. d \in Int /\ d * b < b
    BY <1>1, <1>2, <1>4
  <2> HIDE DEF d
  <2>2. ~(d >= 1)
    BY <1>5, <2>1
  <2>3. QED
    BY <2>2 DEF d
<1>7. ~(x - q >= 1)
  <2> DEFINE d == x - q
  <2>1. d \in Int /\ -d = q - x
    BY <1>1
  <2>2. (-d) * b = y - r
    BY <1>4, <2>1
  <2> HIDE DEF d
  <2>3. (-d) * b > -b
    BY <1>1, <1>2, <2>2
  <2>4. (-d) * b \in Int
    BY <2>1
  <2>5. ~(d >= 1)
    <3> DEFINE z == (-d) * b
    <3>1. z > -b /\ z \in Int /\ (d >= 1 => z <= -b)
      BY <1>5, <2>1, <2>3, <2>4
    <3> HIDE DEF z
    <3>2. QED
      BY <3>1
  <2>6. QED
    BY <2>5 DEF d
<1>8. q = x
  BY <1>1, <1>6, <1>7
<1>9. y = r
  BY <1>1, <1>2, <1>3, <1>8
<1>10. QED
  BY <1>8, <1>9 DEF x, y

LEMMA Divided ==
    ASSUME NEW u \in Nat, NEW a \in Nat, a >= 1
    PROVE  /\ u \div a \in Nat /\ (u % a) \in 0 .. a - 1
           /\ u = (u \div a) * a + (u % a)
<1> DEFINE q == u \div a
           r == (u % a)
<1>1. q \in Int /\ r \in 0 .. a - 1 /\ u = a * q + r
  OBVIOUS
<1>2. a * q = q * a
  BY <1>1
<1>3. q >= 0
  <2> HIDE DEF q, r
  <2>1. SUFFICES ASSUME q <= -1
                 PROVE  FALSE
    BY <1>1
  <2> DEFINE d == -q - 1
  <2>2. d \in Nat /\ q = -(d + 1)
    BY <1>1, <2>1
  <2> HIDE DEF d
  <2>3. a * q = -(a * d + a) /\ a * d \in Nat
    BY <2>2
  <2>4. QED
    BY <1>1, <2>3
<1>4. QED
  BY <1>1, <1>2, <1>3

\* The quotient and the remainder by a product, in two steps.
DivideTwice(u, a, b) ==
    /\ (u \div a) \div b = u \div (a * b)
    /\ ((u \div a) % b) = (u % (a * b)) \div a
    /\ (u % (a * b)) = ((u \div a) % b) * a + (u % a)
    /\ a * b \in Nat /\ a * b >= 1

LEMMA DivDiv ==
    ASSUME NEW u \in Nat, NEW a \in Nat, NEW b \in Nat, a >= 1, b >= 1
    PROVE  DivideTwice(u, a, b)
<1> DEFINE q == u \div a
           r == (u % a)
           s == q \div b
           t == (q % b)
           m == a * b
           w == t * a + r
<1>1. q \in Nat /\ r \in 0 .. a - 1 /\ u = q * a + r
  BY Divided
<1> HIDE DEF q, r
<1>2. s \in Nat /\ t \in 0 .. b - 1 /\ q = s * b + t
  BY <1>1, Divided
<1> HIDE DEF s, t
<1>3. r \in Nat /\ r < a /\ t \in Nat /\ t < b
  BY <1>1, <1>2
<1>4. m \in Nat /\ m >= 1
  <2> DEFINE d == b - 1
  <2>1. d \in Nat /\ b = d + 1
    OBVIOUS
  <2> HIDE DEF d
  <2>2. a * (d + 1) = a * d + a /\ a * d \in Nat
    BY <2>1
  <2>3. QED
    BY <2>1, <2>2
<1>5. w \in Nat /\ w < m
  <2> DEFINE d == b - 1 - t
  <2>1. d \in Nat /\ b = t + d + 1
    BY <1>3
  <2> HIDE DEF d
  <2>2. a * (t + d + 1) = t * a + a * d + a /\ a * d \in Nat /\ t * a \in Nat
    BY <1>3, <2>1
  <2>3. QED
    BY <1>3, <2>1, <2>2
<1>6. u = s * m + w
  <2>1. (s * b + t) * a = s * (a * b) + t * a
    BY <1>2, <1>3
  <2>2. s * (a * b) \in Nat /\ t * a \in Nat
    BY <1>2, <1>3, <1>4
  <2>3. u = (s * b + t) * a + r
    BY <1>1, <1>2
  <2>4. QED
    BY <1>3, <2>1, <2>2, <2>3
<1>7. u \div m = s /\ (u % m) = w
  <2>1. w \in 0 .. m - 1 /\ s \in Int /\ u \in Int
    BY <1>2, <1>4, <1>5
  <2> HIDE DEF w, m
  <2>2. QED
    BY <1>4, <1>6, <2>1, DivMod
<1>8. w \div a = t
  <2>1. t \in Int /\ r \in 0 .. a - 1 /\ w \in Int /\ w = t * a + r
    BY <1>1, <1>3, <1>5
  <2> HIDE DEF w
  <2>2. QED
    BY <2>1, DivMod
<1>9. QED
  BY <1>4, <1>7, <1>8 DEF q, r, s, t, DivideTwice

LEMMA ValuesOfBoth == \A m \in Nat : \A n \in Nat : Values(m + n) = Values(m) * Values(n)
<1>1. ASSUME NEW m \in Nat
      PROVE  \A n \in Nat : Values(m + n) = Values(m) * Values(n)
  <2> DEFINE T == {n \in Nat : Values(m + n) = Values(m) * Values(n)}
             a == Values(m)
  <2>1. a \in Nat /\ ByteBase \in Nat
    BY ValuesType, ByteBaseAssumption
  <2>2. 0 \in T
    <3>1. Values(0) = 1 /\ m + 0 = m
      BY ValuesStep
    <3>2. a * 1 = a
      BY <2>1
    <3>3. QED
      BY <3>1, <3>2
  <2>3. ASSUME NEW n \in T, n \in Nat
        PROVE  n + 1 \in T
    <3> DEFINE b == Values(n)
               c == Values(m + n)
    <3>1. m + (n + 1) = (m + n) + 1 /\ m + n \in Nat /\ n + 1 \in Nat
      BY <2>3
    <3>2. Values((m + n) + 1) = ByteBase * c /\ Values(n + 1) = ByteBase * b /\ b \in Nat
      BY <2>3, <3>1, ValuesStep, ValuesType
    <3>3. c = a * b
      BY <2>3
    <3> HIDE DEF b, a, c
    <3>4. ByteBase * (a * b) = a * (ByteBase * b)
      BY <2>1, <3>2
    <3>5. Values(m + (n + 1)) = a * Values(n + 1)
      BY <3>1, <3>2, <3>3, <3>4
    <3>6. QED
      BY <3>1, <3>5 DEF a
  <2>4. Nat \subseteq T
    <3> HIDE DEF T
    <3>1. QED
      BY <2>2, <2>3, Induction
  <2>5. QED
    BY <2>4
<1>2. QED
  BY <1>1

\* A byte more of a number.
LEMMA NextByte ==
    ASSUME NEW u \in Nat, NEW k \in Nat
    PROVE  (u % Values(k + 1)) = ByteAt(u, k) * Values(k) + (u % Values(k))
<1> DEFINE a == Values(k)
           b == ByteBase
           v == Values(k + 1)
<1>1. a \in Nat /\ a >= 1 /\ b \in Nat /\ b >= 1 /\ v = b * a
  BY ValuesType, ValuesStep, ByteBaseAssumption
<1>2. ByteAt(u, k) = ((u \div a) % b)
  BY DEF ByteAt
<1> HIDE DEF a, b, v
<1>3. b * a = a * b
  BY <1>1
<1>4. (u % (a * b)) = ((u \div a) % b) * a + (u % a)
  <2>1. DivideTwice(u, a, b)
    BY <1>1, DivDiv
  <2>2. QED
    BY <2>1 DEF DivideTwice
<1>5. (u % v) = ByteAt(u, k) * a + (u % a)
  BY <1>1, <1>2, <1>3, <1>4
<1>6. QED
  BY <1>5 DEF a, v

\* A number of n bytes.
LEMMA LowNumber ==
    ASSUME NEW n \in Nat, NEW u \in 0 .. Values(n) - 1
    PROVE  (u % Values(n)) = u /\ u \in Nat
<1> DEFINE v == Values(n)
<1>1. v \in Nat /\ v >= 1
  BY ValuesType
<1> HIDE DEF v
<1>2. ASSUME NEW x \in 0 .. v - 1
      PROVE  (x % v) = x /\ x \in Nat
  <2>1. x = 0 * v + x /\ x \in Nat /\ x \in Int /\ 0 \in Int
    BY <1>1
  <2>2. (x % v) = x
    BY <1>1, <2>1, DivMod
  <2>3. QED
    BY <2>1, <2>2
<1>3. u \in 0 .. v - 1
  BY DEF v
<1>4. (u % v) = u /\ u \in Nat
  BY <1>2, <1>3
<1>5. QED
  BY <1>4 DEF v

\* The bytes of what is above and below a byte.
LEMMA UpperBytes ==
    ASSUME NEW u \in Nat, NEW j \in Nat, NEW k \in Nat
    PROVE  ByteAt(u \div Values(j), k) = ByteAt(u, j + k)
<1> DEFINE a == Values(j)
           b == Values(k)
           v == Values(j + k)
<1>1. a \in Nat /\ a >= 1 /\ b \in Nat /\ b >= 1 /\ v = a * b
  BY ValuesType, ValuesOfBoth
<1> HIDE DEF a, b, v
<1>2. (u \div a) \div b = u \div (a * b)
  <2>1. DivideTwice(u, a, b)
    BY <1>1, DivDiv
  <2>2. QED
    BY <2>1 DEF DivideTwice
<1>3. ByteAt(u \div a, k) = (((u \div a) \div b) % ByteBase)
  BY DEF ByteAt, b
<1>4. ByteAt(u, j + k) = ((u \div v) % ByteBase)
  BY DEF ByteAt, v
<1>5. ByteAt(u \div a, k) = ByteAt(u, j + k)
  BY <1>1, <1>2, <1>3, <1>4
<1>6. QED
  BY <1>5 DEF a

LEMMA ModOfMod ==
    ASSUME NEW w \in Nat, NEW a \in Nat, NEW b \in Nat, a >= 1, b >= 1
    PROVE  ((w % (a * b)) % a) = (w % a)
<1> DEFINE q == ((w \div a) % b)
           r == (w % a)
           m == (w % (a * b))
<1>1. m = q * a + r
  <2>1. DivideTwice(w, a, b)
    BY DivDiv
  <2>2. QED
    BY <2>1 DEF DivideTwice
<1>2. w \div a \in Nat /\ r \in 0 .. a - 1
  BY Divided
<1>3. q \in 0 .. b - 1
  <2> DEFINE d == w \div a
  <2>1. d \in Nat
    BY <1>2
  <2> HIDE DEF d
  <2>2. (d % b) \in 0 .. b - 1
    BY <2>1, Divided
  <2>3. QED
    BY <2>2 DEF d
<1> HIDE DEF q, r, m
<1>4. q * a + r \in Int /\ q \in Int
  BY <1>2, <1>3
<1>5. (m % a) = r
  BY <1>1, <1>2, <1>4, DivMod
<1>6. QED
  BY <1>5 DEF m, r

LEMMA LowerBytes ==
    ASSUME NEW u \in Nat, NEW n \in Nat, NEW k \in 0 .. n - 1
    PROVE  ByteAt((u % Values(n)), k) = ByteAt(u, k)
<1> DEFINE j == n - k
           i == j - 1
           a == Values(k)
           b == Values(j)
           c == Values(i)
           v == Values(n)
<1>1. k \in Nat /\ j \in Nat /\ i \in Nat /\ i + 1 = j /\ k + j = n
  OBVIOUS
<1>2. /\ a \in Nat /\ a >= 1 /\ b \in Nat /\ b >= 1 /\ c \in Nat /\ c >= 1 /\ v = a * b
      /\ b = ByteBase * c /\ ByteBase \in Nat /\ ByteBase >= 1
  <2> HIDE DEF i, j
  <2>1. Values(k + j) = Values(k) * Values(j) /\ Values(i + 1) = ByteBase * Values(i)
    BY <1>1, ValuesOfBoth, ValuesStep
  <2>2. QED
    BY <1>1, <2>1, ValuesType, ByteBaseAssumption
<1>3. /\ ByteAt((u % v), k) = (((u % v) \div a) % ByteBase)
      /\ ByteAt(u, k) = ((u \div a) % ByteBase)
  BY DEF ByteAt
<1> HIDE DEF a, b, c, v
<1>4. ((u \div a) % b) = (u % (a * b)) \div a
  <2>1. DivideTwice(u, a, b)
    BY <1>2, DivDiv
  <2>2. QED
    BY <2>1 DEF DivideTwice
<1> DEFINE w == u \div a
<1>5. w \in Nat
  BY <1>2, Divided
<1> HIDE DEF w
<1>6. ((w % (ByteBase * c)) % ByteBase) = (w % ByteBase)
  BY <1>2, <1>5, ModOfMod
<1>7. ByteAt((u % v), k) = ByteAt(u, k)
  BY <1>2, <1>3, <1>4, <1>6 DEF w
<1>8. QED
  BY <1>7 DEF v

-----------------------------------------------------------------------------
(* The bytes of a number, and the number read from them. *)

NumBytes(u, n, big) == [i \in 1 .. n |-> ByteAt(u, Place(n, i, big))]
Little(u, n) == [i \in 1 .. n |-> ByteAt(u, i - 1)]

LEMMA NumBytesType ==
    ASSUME NEW u \in Int, NEW n \in Nat, NEW big
    PROVE  /\ NumBytes(u, n, big) \in Bytes /\ Len(NumBytes(u, n, big)) = n
           /\ Little(u, n) \in Bytes /\ Len(Little(u, n)) = n
<1>1. ASSUME NEW i \in 1 .. n
      PROVE  ByteAt(u, Place(n, i, big)) \in Byte /\ ByteAt(u, i - 1) \in Byte
  <2>1. Place(n, i, big) \in Nat /\ i - 1 \in Nat
    BY DEF Place
  <2>2. QED
    BY <2>1, ByteAtType
<1>2. QED
  BY <1>1 DEF NumBytes, Little, Bytes

\* The other order of the bytes.
LEMMA OrderOfNum ==
    ASSUME NEW u \in Int, NEW n \in Nat, NEW big
    PROVE  /\ Order(Little(u, n), big) = NumBytes(u, n, big)
           /\ Order(NumBytes(u, n, big), big) = Little(u, n)
<1>1. Len(NumBytes(u, n, big)) = n /\ Len(Little(u, n)) = n
  BY NumBytesType
<1>2. CASE ~big
  <2>1. NumBytes(u, n, big) = Little(u, n)
    BY <1>2 DEF NumBytes, Little, Place
  <2>2. QED
    BY <1>2, <2>1 DEF Order
<1>3. CASE big
  <2>1. NumBytes(u, n, big) = [i \in 1 .. n |-> ByteAt(u, n - i)]
    BY <1>3 DEF NumBytes, Place
  <2>2. \A i \in 1 .. n : n - i + 1 \in 1 .. n /\ n - (n - i + 1) = i - 1 /\ n - i + 1 - 1 = n - i
    OBVIOUS
  <2>3. Reverse(Little(u, n)) = [i \in 1 .. n |-> ByteAt(u, n - i)]
    <3>1. Reverse(Little(u, n)) = [i \in 1 .. n |-> Little(u, n)[n - i + 1]]
      BY <1>1 DEF Reverse
    <3>2. \A i \in 1 .. n : Little(u, n)[n - i + 1] = ByteAt(u, n - i)
      BY <2>2 DEF Little
    <3>3. QED
      BY <3>1, <3>2
  <2>4. Reverse(NumBytes(u, n, big)) = Little(u, n)
    <3>1. Reverse(NumBytes(u, n, big)) = [i \in 1 .. n |-> NumBytes(u, n, big)[n - i + 1]]
      BY <1>1 DEF Reverse
    <3>2. \A i \in 1 .. n : NumBytes(u, n, big)[n - i + 1] = ByteAt(u, i - 1)
      BY <2>1, <2>2
    <3>3. QED
      BY <3>1, <3>2 DEF Little
  <2>5. QED
    BY <1>3, <2>1, <2>3, <2>4 DEF Order
<1>4. QED
  BY <1>2, <1>3

LEMMA BpWriteIs ==
    ASSUME NEW u, NEW t, NEW big
    PROVE  bp_write(u, t, big) = NumBytes(u, WIRE_TYPE_SIZES[t], big)
BY DEF bp_write, NumBytes, Place

LEMMA FewBytes ==
    ASSUME NEW u \in Int
    PROVE  /\ Little(u, 2) = <<ByteAt(u, 0), ByteAt(u, 1)>>
           /\ Little(u, 4) = <<ByteAt(u, 0), ByteAt(u, 1), ByteAt(u, 2), ByteAt(u, 3)>>
<1>1. Little(u, 2) = <<ByteAt(u, 0), ByteAt(u, 1)>>
  BY DEF Little
<1>2. Little(u, 4) = <<ByteAt(u, 0), ByteAt(u, 1), ByteAt(u, 2), ByteAt(u, 3)>>
  BY DEF Little
<1>3. QED
  BY <1>1, <1>2

LEMMA Write32 ==
    ASSUME NEW u \in Int, NEW big
    PROVE  write_uint32_t(u, big) = NumBytes(u, 4, big)
<1>1. write_uint32_t(u, big) = Order(Little(u, 4), big)
  BY FewBytes DEF write_uint32_t
<1>2. QED
  BY <1>1, OrderOfNum

\* What C writes of an unsigned number: two times four bytes of eight.
LEMMA Write64 ==
    ASSUME NEW u \in Nat, NEW big
    PROVE  write_uint64_t(u, big) = NumBytes(u, 8, big)
<1> DEFINE v == Values(4)
           l == (u % v)
           h == u \div v
           lo == NumBytes(l, 4, big)
           hi == NumBytes(h, 4, big)
<1>1. v \in Nat /\ v >= 1
  BY ValuesType
<1>2. l \in Nat /\ h \in Nat
  <2> HIDE DEF v
  <2>1. l \in 0 .. v - 1 /\ h \in Nat
    BY <1>1, Divided
  <2>2. QED
    BY <1>1, <2>1
<1>3. write_uint64_t(u, big) = IF big THEN hi \o lo ELSE lo \o hi
  <2>1. write_uint32_t(l, big) = lo /\ write_uint32_t(h, big) = hi
    <3> HIDE DEF l, h
    <3>1. l \in Int /\ h \in Int
      BY <1>2
    <3>2. QED
      BY <3>1, Write32
  <2>2. QED
    BY <2>1 DEF write_uint64_t, ToUnsigned
<1>4. \A k \in 0 .. 3 : ByteAt(l, k) = ByteAt(u, k) /\ ByteAt(h, k) = ByteAt(u, 4 + k)
  <2>1. ASSUME NEW k \in 0 .. 3
        PROVE  ByteAt(l, k) = ByteAt(u, k) /\ ByteAt(h, k) = ByteAt(u, 4 + k)
    <3>1. k \in 0 .. 4 - 1 /\ k \in Nat /\ 4 \in Nat
      OBVIOUS
    <3>2. ByteAt((u % Values(4)), k) = ByteAt(u, k)
      BY <3>1, LowerBytes
    <3>3. ByteAt(u \div Values(4), k) = ByteAt(u, 4 + k)
      BY <3>1, UpperBytes
    <3>4. QED
      BY <3>2, <3>3
  <2>2. QED
    BY <2>1
<1> HIDE DEF l, h, v
<1>5. /\ lo = [i \in 1 .. 4 |-> ByteAt(l, Place(4, i, big))]
      /\ hi = [i \in 1 .. 4 |-> ByteAt(h, Place(4, i, big))]
      /\ \A i \in 1 .. 4 : Place(4, i, big) \in 0 .. 3
  BY DEF NumBytes, Place
<1>6. /\ lo = [i \in 1 .. 4 |-> ByteAt(u, Place(4, i, big))]
      /\ hi = [i \in 1 .. 4 |-> ByteAt(u, 4 + Place(4, i, big))]
  BY <1>4, <1>5
<1>7. lo \in Bytes /\ hi \in Bytes /\ Len(lo) = 4 /\ Len(hi) = 4
  <2>1. l \in Int /\ h \in Int
    BY <1>2
  <2>2. QED
    BY <2>1, NumBytesType
<1>8. NumBytes(u, 8, big) = IF big THEN hi \o lo ELSE lo \o hi
  <2>1. NumBytes(u, 8, big) \in Bytes /\ Len(NumBytes(u, 8, big)) = 8
    <3>1. u \in Int /\ 8 \in Nat
      OBVIOUS
    <3>2. QED
      BY <3>1, NumBytesType
  <2> DEFINE w == IF big THEN hi \o lo ELSE lo \o hi
  <2>2. \A i \in 1 .. 8 : w[i] = NumBytes(u, 8, big)[i]
    <3>1. ASSUME NEW i \in 1 .. 8
          PROVE  w[i] = NumBytes(u, 8, big)[i]
      <4>0. NumBytes(u, 8, big)[i] = ByteAt(u, Place(8, i, big))
        BY DEF NumBytes
      <4>1. w[i] = IF big THEN IF i <= 4 THEN hi[i] ELSE lo[i - 4]
                          ELSE IF i <= 4 THEN lo[i] ELSE hi[i - 4]
        <5>1. lo \in Seq(Byte) /\ hi \in Seq(Byte)
          BY <1>7 DEF Bytes
        <5> HIDE DEF lo, hi
        <5>0. Len(lo) = 4 /\ Len(hi) = 4 /\ i \in 1 .. Len(lo) + Len(hi) /\ i \in 1 .. Len(hi) + Len(lo)
          BY <1>7
        <5>2. (lo \o hi)[i] = (IF i <= Len(lo) THEN lo[i] ELSE hi[i - Len(lo)])
          BY <5>0, <5>1, ConcatProperties
        <5>3. (hi \o lo)[i] = (IF i <= Len(hi) THEN hi[i] ELSE lo[i - Len(hi)])
          BY <5>0, <5>1, ConcatProperties
        <5>4. QED
          BY <5>0, <5>2, <5>3
      <4>2. CASE i <= 4
        <5>1. i \in 1 .. 4
          BY <4>2
        <5>2. lo[i] = ByteAt(u, Place(4, i, big)) /\ hi[i] = ByteAt(u, 4 + Place(4, i, big))
          BY <1>6, <5>1
        <5>3. Place(8, i, big) = IF big THEN 4 + Place(4, i, big) ELSE Place(4, i, big)
          BY <4>2 DEF Place
        <5>4. QED
          BY <4>0, <4>1, <4>2, <5>2, <5>3
      <4>3. CASE ~(i <= 4)
        <5>1. i - 4 \in 1 .. 4
          BY <4>3
        <5>2. lo[i - 4] = ByteAt(u, Place(4, i - 4, big)) /\ hi[i - 4] = ByteAt(u, 4 + Place(4, i - 4, big))
          BY <1>6, <5>1
        <5>3. Place(8, i, big) = IF big THEN Place(4, i - 4, big) ELSE 4 + Place(4, i - 4, big)
          BY <4>3 DEF Place
        <5>4. QED
          BY <4>0, <4>1, <4>3, <5>2, <5>3
      <4>4. QED
        BY <4>2, <4>3
    <3>2. QED
      BY <3>1
  <2>3. w \in Seq(Byte) /\ Len(w) = 8
    <3>1. lo \in Seq(Byte) /\ hi \in Seq(Byte)
      BY <1>7 DEF Bytes
    <3> HIDE DEF lo, hi
    <3>0. Len(lo) + Len(hi) = 8 /\ Len(hi) + Len(lo) = 8
      BY <1>7
    <3>2. /\ lo \o hi \in Seq(Byte) /\ Len(lo \o hi) = 8
          /\ hi \o lo \in Seq(Byte) /\ Len(hi \o lo) = 8
      BY <3>0, <3>1, Concatenated
    <3>3. QED
      BY <3>2
  <2> HIDE DEF w
  <2>4. w = NumBytes(u, 8, big)
    <3> DEFINE x == NumBytes(u, 8, big)
    <3>1. x \in Seq(Byte) /\ Len(x) = 8 /\ \A i \in 1 .. 8 : w[i] = x[i]
      BY <2>1, <2>2 DEF Bytes
    <3> HIDE DEF x
    <3>2. w = x
      BY <2>3, <3>1, SeqEqual
    <3>3. QED
      BY <3>2 DEF x
  <2>5. QED
    BY <2>4 DEF w
<1>9. QED
  BY <1>3, <1>8

LEMMA WriteUnsignedIs ==
    ASSUME NEW n \in Widths, NEW u \in 0 .. Values(n) - 1, NEW big
    PROVE  write_unsigned(u, n, big) = NumBytes(u, n, big)
<1>1. u \in Nat /\ u \in Int /\ n \in Nat
  BY LowNumber DEF Widths
<1>2. CASE n = 1
  <2>1. write_unsigned(u, n, big) = <<u>>
    BY <1>2 DEF write_unsigned, write_uint8_t
  <2>2. ByteAt(u, 0) = u
    <3>1. Values(0) = 1 /\ Values(0 + 1) = ByteBase * Values(0) /\ ByteBase \in Nat
      BY ValuesStep, ByteBaseAssumption
    <3>2. (u % Values(1)) = u
      BY <1>1, <1>2, LowNumber
    <3>3. Values(1) = ByteBase
      BY <3>1
    <3>4. ByteAt(u, 0) = ((u \div 1) % ByteBase)
      BY <3>1 DEF ByteAt
    <3>5. u \div 1 = u
      BY <1>1
    <3>6. QED
      BY <3>2, <3>3, <3>4, <3>5
  <2>3. NumBytes(u, 1, big) = <<ByteAt(u, 0)>>
    <3>1. Place(1, 1, big) = 0
      BY DEF Place
    <3>2. NumBytes(u, 1, big) = <<ByteAt(u, Place(1, 1, big))>>
      BY DEF NumBytes
    <3>3. QED
      BY <3>1, <3>2
  <2>4. QED
    BY <1>2, <2>1, <2>2, <2>3
<1>3. CASE n = 2
  <2>1. write_unsigned(u, n, big) = Order(Little(u, 2), big)
    BY <1>1, <1>3, FewBytes DEF write_unsigned, write_uint16_t
  <2>2. QED
    BY <1>1, <1>3, <2>1, OrderOfNum
<1>4. CASE n = 4
  BY <1>1, <1>4, Write32 DEF write_unsigned
<1>5. CASE n = 8
  BY <1>1, <1>5, Write64 DEF write_unsigned
<1>6. QED
  BY <1>2, <1>3, <1>4, <1>5 DEF Widths

\* What is read of the bytes of a number is the number, as far as they go.
LEMMA FourBytes ==
    ASSUME NEW u \in Nat
    PROVE  /\ ByteAt(u, 1) * ByteBase + ByteAt(u, 0) = (u % Values(2))
           /\ ByteAt(u, 3) * Values(3) + ByteAt(u, 2) * Values(2)
                 + ByteAt(u, 1) * ByteBase + ByteAt(u, 0) = (u % Values(4))
<1> DEFINE v2 == Values(2)
           v3 == Values(3)
           x0 == (u % Values(0))
           x1 == (u % Values(1))
           x2 == (u % v2)
           x3 == (u % v3)
           x4 == (u % Values(4))
           b0 == ByteAt(u, 0)
           b1 == ByteAt(u, 1)
           b2 == ByteAt(u, 2)
           b3 == ByteAt(u, 3)
<1>1. Values(0) = 1 /\ Values(0 + 1) = ByteBase * Values(0) /\ ByteBase \in Nat
  BY ValuesStep, ByteBaseAssumption
<1>2. Values(1) = ByteBase
  BY <1>1
<1>3. v2 \in Nat /\ v3 \in Nat
  BY ValuesType
<1>4. /\ (u % Values(0 + 1)) = b0 * Values(0) + (u % Values(0))
      /\ (u % Values(1 + 1)) = b1 * Values(1) + (u % Values(1))
      /\ (u % Values(2 + 1)) = b2 * Values(2) + (u % Values(2))
      /\ (u % Values(3 + 1)) = b3 * Values(3) + (u % Values(3))
  BY NextByte
<1>5. x0 = 0
  <2>1. (u % 1) = 0
    OBVIOUS
  <2>2. QED
    BY <1>1, <2>1
<1>6. b0 \in Nat /\ b1 \in Nat /\ b2 \in Nat /\ b3 \in Nat
  BY ByteAtType DEF Byte
<1>7. /\ x1 = b0 * Values(0) + x0 /\ x2 = b1 * Values(1) + x1
      /\ x3 = b2 * v2 + x2 /\ x4 = b3 * v3 + x3
  BY <1>4
<1> HIDE DEF x0, x1, x2, x3, x4, v2, v3, b0, b1, b2, b3
<1>8. x1 = b0
  BY <1>1, <1>5, <1>6, <1>7
<1>9. x2 = b1 * ByteBase + b0
  BY <1>2, <1>7, <1>8
<1>10. b1 * ByteBase \in Nat /\ b2 * v2 \in Nat /\ b3 * v3 \in Nat
  BY <1>1, <1>3, <1>6
<1>11. x4 = b3 * v3 + b2 * v2 + b1 * ByteBase + b0
  BY <1>6, <1>7, <1>9, <1>10
<1>12. QED
  BY <1>9, <1>11 DEF x2, x4, b0, b1, b2, b3, v2, v3

LEMMA Read32 ==
    ASSUME NEW u \in Nat, NEW big
    PROVE  /\ read_uint16_t(NumBytes(u, 2, big), big) = (u % Values(2))
           /\ read_uint32_t(NumBytes(u, 4, big), big) = (u % Values(4))
<1>1. /\ Order(NumBytes(u, 2, big), big) = Little(u, 2)
      /\ Order(NumBytes(u, 4, big), big) = Little(u, 4)
  <2>1. u \in Int /\ 2 \in Nat /\ 4 \in Nat
    OBVIOUS
  <2>2. QED
    BY <2>1, OrderOfNum
<1>2. /\ Little(u, 2)[1] = ByteAt(u, 0) /\ Little(u, 2)[2] = ByteAt(u, 1)
      /\ Little(u, 4)[1] = ByteAt(u, 0) /\ Little(u, 4)[2] = ByteAt(u, 1)
      /\ Little(u, 4)[3] = ByteAt(u, 2) /\ Little(u, 4)[4] = ByteAt(u, 3)
  BY DEF Little
<1>3. read_uint16_t(NumBytes(u, 2, big), big) = ByteAt(u, 1) * ByteBase + ByteAt(u, 0)
  BY <1>1, <1>2, Zenon DEF read_uint16_t
<1>4. read_uint32_t(NumBytes(u, 4, big), big) =
          ByteAt(u, 3) * Values(3) + ByteAt(u, 2) * Values(2) + ByteAt(u, 1) * ByteBase + ByteAt(u, 0)
  BY <1>1, <1>2, Zenon DEF read_uint32_t
<1>5. QED
  BY <1>3, <1>4, FourBytes

LEMMA Read64 ==
    ASSUME NEW u \in Nat, NEW big
    PROVE  read_uint64_t(NumBytes(u, 8, big), big) = (u % Values(8))
<1> DEFINE v == Values(4)
           h == u \div v
           b == NumBytes(u, 8, big)
           lo == NumBytes(u, 4, big)
           hi == NumBytes(h, 4, big)
<1>1. v \in Nat /\ v >= 1
  BY ValuesType
<1>2. h \in Nat
  <2> HIDE DEF v
  <2>1. QED
    BY <1>1, Divided
<1>3. \A k \in 0 .. 3 : ByteAt(h, k) = ByteAt(u, 4 + k)
  BY UpperBytes
<1>4. b \in Bytes /\ Len(b) = 8 /\ \A i \in 1 .. 8 : b[i] = ByteAt(u, Place(8, i, big))
  <2>1. u \in Int /\ 8 \in Nat
    OBVIOUS
  <2>2. b \in Bytes /\ Len(b) = 8
    BY <2>1, NumBytesType
  <2>3. \A i \in 1 .. 8 : b[i] = ByteAt(u, Place(8, i, big))
    BY DEF NumBytes
  <2>4. QED
    BY <2>2, <2>3
<1> HIDE DEF b, h
<1>5. /\ SubSeq(b, 1, 4) = [i \in 1 .. 4 |-> b[i]]
      /\ SubSeq(b, 5, 8) = [i \in 1 .. 4 |-> b[i + 4]]
  <2>1. SubSeq(b, 1, 4) = [i \in 1 .. 4 |-> b[i]]
    BY <1>4 DEF Bytes
  <2>2. SubSeq(b, 5, 8) = [i \in 1 .. 4 |-> b[i + 4]]
    BY <1>4 DEF Bytes
  <2>3. QED
    BY <2>1, <2>2
<1>6. SubSeq(b, 1, 4) = (IF big THEN hi ELSE lo) /\ SubSeq(b, 5, 8) = (IF big THEN lo ELSE hi)
  <2>1. CASE big
    <3>1. \A i \in 1 .. 4 : /\ Place(8, i, big) = 4 + (4 - i) /\ Place(8, i + 4, big) = 4 - i
                            /\ Place(4, i, big) = 4 - i /\ 4 - i \in 0 .. 3
      BY <2>1 DEF Place
    <3>2. \A i \in 1 .. 4 : b[i] = ByteAt(h, Place(4, i, big)) /\ b[i + 4] = ByteAt(u, Place(4, i, big))
      BY <1>3, <1>4, <3>1
    <3>3. QED
      BY <1>5, <2>1, <3>2 DEF NumBytes
  <2>2. CASE ~big
    <3>1. \A i \in 1 .. 4 : /\ Place(8, i, big) = i - 1 /\ Place(8, i + 4, big) = 4 + (i - 1)
                            /\ Place(4, i, big) = i - 1 /\ i - 1 \in 0 .. 3
      BY <2>2 DEF Place
    <3>2. \A i \in 1 .. 4 : b[i] = ByteAt(u, Place(4, i, big)) /\ b[i + 4] = ByteAt(h, Place(4, i, big))
      BY <1>3, <1>4, <3>1
    <3>3. QED
      BY <1>5, <2>2, <3>2 DEF NumBytes
  <2>3. QED
    BY <2>1, <2>2
<1>7. read_uint32_t(lo, big) = (u % v) /\ read_uint32_t(hi, big) = (h % v)
  BY <1>2, Read32
<1>8. read_uint64_t(b, big) = (h % v) * v + (u % v)
  <2> HIDE DEF lo, hi, v
  <2>1. read_uint64_t(b, big) =
            IF big THEN read_uint32_t(SubSeq(b, 1, 4), big) * v + read_uint32_t(SubSeq(b, 5, 8), big)
            ELSE read_uint32_t(SubSeq(b, 5, 8), big) * v + read_uint32_t(SubSeq(b, 1, 4), big)
    BY Zenon DEF read_uint64_t, v
  <2>2. QED
    BY <1>6, <1>7, <2>1
<1>9. (u % (v * v)) = (h % v) * v + (u % v)
  <2> HIDE DEF v
  <2>1. DivideTwice(u, v, v)
    BY <1>1, DivDiv
  <2>2. QED
    BY <2>1 DEF DivideTwice, h
<1>10. Values(8) = v * v
  <2>1. Values(4 + 4) = Values(4) * Values(4)
    BY ValuesOfBoth
  <2>2. QED
    BY <2>1
<1>11. QED
  BY <1>8, <1>9, <1>10 DEF b

LEMMA ReadUnsignedIs ==
    ASSUME NEW n \in Widths, NEW u \in Nat, NEW big
    PROVE  read_unsigned(NumBytes(u, n, big), big) = (u % Values(n))
<1>1. u \in Int /\ n \in Nat
  BY DEF Widths
<1>2. Len(NumBytes(u, n, big)) = n
  BY <1>1, NumBytesType
<1>3. CASE n = 1
  <2>1. read_unsigned(NumBytes(u, n, big), big) = NumBytes(u, n, big)[1]
    BY <1>2, <1>3 DEF read_unsigned, read_uint8_t
  <2>2. NumBytes(u, n, big)[1] = ByteAt(u, 0)
    <3>1. Place(1, 1, big) = 0
      BY DEF Place
    <3>2. NumBytes(u, n, big)[1] = ByteAt(u, Place(1, 1, big))
      BY <1>3 DEF NumBytes
    <3>3. QED
      BY <3>1, <3>2
  <2>3. Values(0) = 1 /\ Values(0 + 1) = ByteBase * Values(0) /\ ByteBase \in Nat
    BY ValuesStep, ByteBaseAssumption
  <2>4. ByteAt(u, 0) = ((u \div 1) % ByteBase)
    BY <2>3 DEF ByteAt
  <2>5. u \div 1 = u /\ Values(1) = ByteBase
    BY <2>3
  <2>6. QED
    BY <1>3, <2>1, <2>2, <2>4, <2>5
<1>4. CASE n = 2
  <2>1. read_unsigned(NumBytes(u, n, big), big) = read_uint16_t(NumBytes(u, 2, big), big)
    BY <1>2, <1>4 DEF read_unsigned
  <2>2. QED
    BY <1>4, <2>1, Read32
<1>5. CASE n = 4
  <2>1. read_unsigned(NumBytes(u, n, big), big) = read_uint32_t(NumBytes(u, 4, big), big)
    BY <1>2, <1>5 DEF read_unsigned
  <2>2. QED
    BY <1>5, <2>1, Read32
<1>6. CASE n = 8
  <2>1. read_unsigned(NumBytes(u, n, big), big) = read_uint64_t(NumBytes(u, 8, big), big)
    BY <1>2, <1>6 DEF read_unsigned
  <2>2. QED
    BY <1>6, <2>1, Read64
<1>7. QED
  BY <1>3, <1>4, <1>5, <1>6 DEF Widths

LEMMA ReadBack ==
    ASSUME NEW n \in Widths, NEW u \in 0 .. Values(n) - 1, NEW big
    PROVE  read_unsigned(NumBytes(u, n, big), big) = u
<1>1. n \in Nat
  BY DEF Widths
<1>2. u \in Nat /\ (u % Values(n)) = u
  BY <1>1, LowNumber
<1>3. QED
  BY <1>2, ReadUnsignedIs

\* So is what C# reads, which adds the bytes up from the left.
LEMMA BpReadBack ==
    ASSUME NEW n \in Nat, NEW u \in 0 .. Values(n) - 1, NEW t, NEW big
    PROVE  bp_read(NumBytes(u, n, big), t, big)
              = IF t \in ToSet(Signed) THEN ToSigned(u, n) ELSE u
<1> DEFINE b == NumBytes(u, n, big)
           value == CHOOSE f : IsValue(f, b, big)
           low(k) == (u % Values(k))
<1>1. u \in Nat /\ low(n) = u /\ u \in Int
  BY LowNumber
<1>2. b \in Bytes /\ Len(b) = n /\ \A i \in 1 .. n : b[i] = ByteAt(u, Place(n, i, big))
  <2>1. b \in Bytes /\ Len(b) = n
    BY <1>1, NumBytesType
  <2>2. \A i \in 1 .. n : b[i] = ByteAt(u, Place(n, i, big))
    BY DEF NumBytes
  <2>3. QED
    BY <2>1, <2>2
<1> HIDE DEF b
<1>3. IsValue(value, b, big)
  <2>1. \E f : IsValue(f, b, big)
    BY <1>2, ValueExists
  <2>2. QED
    BY <2>1, Zenon
<1>4. bp_read(b, t, big) = IF t \in ToSet(Signed) THEN ToSigned(value[n], n) ELSE value[n]
  BY <1>2 DEF bp_read, IsValue, Place
<1> HIDE DEF value
<1>5. value[0] = 0 /\ \A i \in 1 .. n :
          value[i] = value[i - 1] + ByteAt(u, Place(n, i, big)) * Values(Place(n, i, big))
  BY <1>2, <1>3 DEF IsValue
<1>6. \A k \in Nat : /\ low(k + 1) = ByteAt(u, k) * Values(k) + low(k)
                     /\ low(k) \in Int /\ ByteAt(u, k) * Values(k) \in Int
  <2>1. ASSUME NEW k \in Nat
        PROVE  /\ low(k + 1) = ByteAt(u, k) * Values(k) + low(k)
               /\ low(k) \in Int /\ ByteAt(u, k) * Values(k) \in Int
    <3>1. low(k + 1) = ByteAt(u, k) * Values(k) + low(k)
      BY <1>1, NextByte
    <3> DEFINE v == Values(k)
               x == ByteAt(u, k)
    <3>2. v \in Nat /\ v >= 1 /\ x \in Nat
      <4>1. v \in Nat /\ v >= 1
        BY ValuesType
      <4>2. x \in Byte
        BY <1>1, ByteAtType
      <4>3. QED
        BY <4>1, <4>2, ByteBaseAssumption DEF Byte
    <3> HIDE DEF v, x
    <3>3. (u % v) \in Int /\ x * v \in Int
      BY <1>1, <3>2
    <3>4. QED
      BY <3>1, <3>3 DEF v, x
  <2>2. QED
    BY <2>1
<1>7. low(0) = 0
  <2>1. Values(0) = 1 /\ (u % 1) = 0
    BY <1>1, ValuesStep
  <2>2. QED
    BY <2>1
<1> HIDE DEF low
<1> DEFINE Sum(i) == IF big THEN low(n) - low(n - i) ELSE low(i)
           T == {i \in Nat : i <= n => value[i] = Sum(i)}
<1>8. 0 \in T
  <2>1. n - 0 = n /\ low(n) - low(n) = 0
    BY <1>6
  <2>2. QED
    BY <1>5, <1>7, <2>1
<1>9. ASSUME NEW i \in T, i \in Nat
      PROVE  i + 1 \in T
  <2>1. CASE i + 1 <= n
    <3>1. i + 1 \in 1 .. n /\ i + 1 - 1 = i /\ value[i] = Sum(i)
      BY <1>9, <2>1
    <3> DEFINE p == Place(n, i + 1, big)
               z == ByteAt(u, p) * Values(p)
    <3>2. value[i + 1] = value[i] + z
      BY <1>5, <3>1
    <3>3. CASE big
      <4>1. p = n - (i + 1) /\ p \in Nat /\ n - i = p + 1
        BY <1>9, <2>1, <3>3 DEF Place
      <4>2. low(p + 1) = z + low(p) /\ low(p) \in Int /\ low(n) \in Int /\ z \in Int
        BY <1>6, <4>1
      <4>3. Sum(i) = low(n) - low(p + 1) /\ Sum(i + 1) = low(n) - low(p)
        BY <3>3, <4>1
      <4> HIDE DEF p, z, Sum
      <4>4. value[i + 1] = Sum(i + 1)
        BY <3>1, <3>2, <4>2, <4>3
      <4>5. QED
        BY <1>9, <4>4
    <3>4. CASE ~big
      <4>1. p = i
        BY <1>9, <3>4 DEF Place
      <4>2. low(i + 1) = z + low(i) /\ low(i) \in Int /\ z \in Int
        BY <1>6, <1>9, <4>1
      <4>3. Sum(i) = low(i) /\ Sum(i + 1) = low(i + 1)
        BY <3>4
      <4> HIDE DEF p, z, Sum
      <4>4. value[i + 1] = Sum(i + 1)
        BY <3>1, <3>2, <4>2, <4>3
      <4>5. QED
        BY <1>9, <4>4
    <3>5. QED
      BY <3>3, <3>4
  <2>2. CASE ~(i + 1 <= n)
    BY <1>9, <2>2
  <2>3. QED
    BY <2>1, <2>2
<1>10. Nat \subseteq T
  <2> HIDE DEF T
  <2>1. QED
    BY <1>8, <1>9, Induction
<1>11. value[n] = Sum(n)
  BY <1>10
<1>12. Sum(n) = low(n)
  <2>1. n - n = 0 /\ low(n) - 0 = low(n)
    BY <1>6
  <2>2. QED
    BY <1>7, <2>1
<1>13. value[n] = u
  BY <1>1, <1>11, <1>12
<1>14. QED
  BY <1>4, <1>13 DEF b

-----------------------------------------------------------------------------
(* The bits of a value, signed or not. *)

LEMMA HalfOfValues ==
    ASSUME NEW n \in Nat, n >= 1
    PROVE  \E h \in Nat : h >= 1 /\ Values(n) = 2 * h /\ Values(n) \div 2 = h
<1> DEFINE c == ByteBase \div 2
           b == Values(n - 1)
           h == c * b
<1>1. c \in Nat /\ c >= 1 /\ ByteBase = 2 * c
  BY ByteBaseAssumption
<1>2. b \in Nat /\ b >= 1 /\ n - 1 \in Nat /\ (n - 1) + 1 = n
  BY ValuesType
<1>3. Values(n) = ByteBase * b
  <2>1. Values((n - 1) + 1) = ByteBase * b
    BY <1>2, ValuesStep
  <2>2. QED
    BY <1>2, <2>1
<1> HIDE DEF c, b
<1>4. h \in Nat /\ h >= 1 /\ (2 * c) * b = 2 * h
  <2> DEFINE d == b - 1
  <2>1. d \in Nat /\ b = d + 1
    BY <1>2
  <2> HIDE DEF d
  <2>2. c * (d + 1) = c * d + c /\ c * d \in Nat
    BY <1>1, <2>1
  <2>3. h \in Nat /\ h >= 1
    BY <1>1, <2>1, <2>2
  <2>4. (2 * c) * b = 2 * (c * b)
    BY <1>1, <1>2
  <2>5. QED
    BY <2>3, <2>4
<1>5. Values(n) = 2 * h
  BY <1>1, <1>3, <1>4
<1> HIDE DEF h
<1>6. (2 * h) \div 2 = h
  BY <1>4
<1>7. QED
  BY <1>4, <1>5, <1>6

\* A number, and the signed one with its bits.
Signs(u, n) ==
    /\ ToSigned(u, n) \in Int
    /\ ToUnsigned(ToSigned(u, n), n) = u
    /\ ToUnsigned(u, n) = u

LEMMA BitsOfSigned ==
    ASSUME NEW n \in Nat, NEW u \in 0 .. Values(n) - 1
    PROVE  Signs(u, n)
<1> DEFINE v == Values(n)
           s == ToSigned(u, n)
<1>1. v \in Nat /\ v >= 1 /\ u \in Nat /\ u \in 0 .. v - 1
  BY ValuesType, LowNumber
<1>2. (u % v) = u
  BY LowNumber
<1>3. s = u \/ s = u - v
  BY DEF ToSigned
<1> HIDE DEF v, s
<1>4. ((u - v) % v) = u
  <2>1. u - v \in Int /\ u - v = (-1) * v + u /\ -1 \in Int
    BY <1>1
  <2> DEFINE a == u - v
             q == -1
  <2>2. a \in Int /\ q \in Int /\ a = q * v + u
    BY <2>1
  <2> HIDE DEF a, q
  <2>3. (a % v) = u
    BY <1>1, <2>2, DivMod
  <2>4. QED
    BY <2>3 DEF a
<1>5. (s % v) = u /\ s \in Int
  BY <1>1, <1>2, <1>3, <1>4
<1>6. QED
  BY <1>2, <1>5 DEF s, v, ToUnsigned, Signs

\* A value in the range of its type is read back from its bits.
InBits(x, t, n) ==
    /\ ToUnsigned(x, n) \in 0 .. Values(n) - 1
    /\ (IF t \in ToSet(Signed) THEN ToSigned(ToUnsigned(x, n), n) ELSE ToUnsigned(x, n)) = x
    /\ ToUnsigned(x, n) = 0 <=> x = 0

LEMMA BitsOfRanged ==
    ASSUME NEW t \in WireType, NEW x \in Least(t) .. Greatest(t)
    PROVE  x \in Int /\ InBits(x, t, WIRE_TYPE_SIZES[t])
<1> DEFINE n == WIRE_TYPE_SIZES[t]
           v == Values(n)
           u == ToUnsigned(x, n)
<1>1. n \in Nat /\ n >= 1
  BY WireSizes
<1>2. v \in Nat /\ v >= 1
  BY <1>1, ValuesType
<1> HIDE DEF n
<1>3. PICK h \in Nat : h >= 1 /\ v = 2 * h /\ v \div 2 = h
  BY <1>1, HalfOfValues
<1>4. Least(t) = IF t \in ToSet(Signed) THEN -h ELSE 0
  BY <1>3 DEF Least, n
<1>5. Greatest(t) = Least(t) + v - 1
  BY DEF Greatest, n
<1>6. x \in Int
  BY <1>2, <1>4, <1>5
<1>7. u \in 0 .. v - 1 /\ u \in Int
  BY <1>1, <1>6, CastFacts
<1>8. u = (x % v) /\ ToSigned(u, n) = IF u >= h THEN u - v ELSE u
  BY <1>3 DEF ToUnsigned, ToSigned
<1> HIDE DEF v, u
<1>9. CASE x >= 0
  <2>1. x \in 0 .. v - 1 /\ (t \in ToSet(Signed) => x < h)
    BY <1>3, <1>4, <1>5, <1>6, <1>9
  <2>2. x = 0 * v + x /\ 0 \in Int
    BY <1>6, <1>2
  <2>3. (x % v) = x
    BY <1>2, <1>6, <2>1, <2>2, DivMod
  <2>4. u = x
    BY <1>8, <2>3
  <2>5. (IF t \in ToSet(Signed) THEN ToSigned(u, n) ELSE u) = x
    BY <1>3, <1>6, <1>8, <2>1, <2>4
  <2>6. QED
    BY <1>6, <1>7, <2>4, <2>5 DEF n, v, u, InBits
<1>10. CASE ~(x >= 0)
  <2>1. t \in ToSet(Signed) /\ x < 0 /\ -h <= x
    BY <1>2, <1>4, <1>5, <1>6, <1>10
  <2> DEFINE w == x + v
             q == -1
  <2>2. w \in 0 .. v - 1 /\ x = q * v + w /\ q \in Int /\ w >= h /\ w # 0 /\ w - v = x /\ w \in Int
    BY <1>2, <1>3, <1>6, <2>1
  <2> HIDE DEF w, q
  <2>3. (x % v) = w
    BY <1>2, <1>6, <2>2, DivMod
  <2>4. u = w
    BY <1>8, <2>3
  <2>5. ToSigned(u, n) = x /\ u # 0 /\ x # 0
    BY <1>8, <2>1, <2>2, <2>4, <1>6
  <2>6. QED
    BY <1>6, <1>7, <2>1, <2>5 DEF n, v, u, InBits
<1>11. QED
  BY <1>9, <1>10

\* A char of C read as a char of C#, which has two bytes, keeps its bits.
LEMMA BitsOfWide ==
    ASSUME NEW n \in {1, 2}, NEW u \in 0 .. Values(n) - 1
    PROVE  ToUnsigned(ToUnsigned(ToSigned(u, n), 2), n) = u
<1> DEFINE s == ToSigned(u, n)
<1>1. n \in Nat
  OBVIOUS
<1>2. Signs(u, n)
  BY <1>1, BitsOfSigned
<1>3. CASE n = 2
  <2>1. ToUnsigned(s, 2) = u /\ ToUnsigned(u, 2) = u
    BY <1>2, <1>3 DEF Signs
  <2>2. QED
    BY <1>3, <2>1
<1>4. CASE n = 1
  <2> DEFINE v == Values(1)
             w == Values(2)
  <2>1. v \in Nat /\ v >= 1 /\ w \in Nat /\ ByteBase \in Nat /\ ByteBase >= 2 /\ u \in 0 .. v - 1 /\ u \in Nat
    BY <1>4, ValuesType, ByteBaseAssumption, LowNumber
  <2>2. w = ByteBase * v
    <3>1. Values(1 + 1) = ByteBase * Values(1)
      BY ValuesStep
    <3>2. QED
      BY <3>1
  <2>3. s = u \/ s = u - v
    BY <1>4 DEF ToSigned
  <2>4. ToUnsigned(ToUnsigned(s, 2), 1) = ((s % w) % v)
    BY DEF ToUnsigned
  <2> HIDE DEF v, w, s
  <2>5. w >= 2 * v
    <3> DEFINE d == ByteBase - 2
    <3>1. d \in Nat /\ ByteBase = d + 2
      BY <2>1
    <3> HIDE DEF d
    <3>2. (d + 2) * v = d * v + 2 * v /\ d * v \in Nat
      BY <2>1, <3>1
    <3>3. QED
      BY <2>1, <2>2, <3>1, <3>2
  <2>6. (u % v) = u
    <3>1. u = 0 * v + u /\ 0 \in Int /\ u \in Int
      BY <2>1
    <3>2. QED
      BY <2>1, <3>1, DivMod
  <2>7. CASE s = u
    <3>1. u = 0 * w + u /\ 0 \in Int /\ u \in Int /\ u \in 0 .. w - 1 /\ w >= 1
      BY <2>1, <2>5
    <3>2. (u % w) = u
      BY <2>1, <3>1, DivMod
    <3>3. QED
      BY <1>4, <2>4, <2>6, <2>7, <3>2 DEF s
  <2>8. CASE s = u - v
    <3> DEFINE x == u - v + w
               q == -1
               c == ByteBase - 1
    <3>1. /\ x \in 0 .. w - 1 /\ x \in Int /\ q \in Int /\ c \in Int /\ w >= 1
          /\ s = q * w + x /\ s \in Int
      BY <2>1, <2>5, <2>8
    <3>2. x = c * v + u
      <4>1. ByteBase * v = (ByteBase - 1) * v + v /\ (ByteBase - 1) * v \in Int
        BY <2>1
      <4>2. QED
        BY <2>1, <2>2, <4>1
    <3> HIDE DEF x, q, c
    <3>3. (s % w) = x
      BY <2>1, <3>1, DivMod
    <3>4. (x % v) = u
      BY <2>1, <3>1, <3>2, DivMod
    <3>5. QED
      BY <1>4, <2>4, <3>3, <3>4 DEF s
  <2>9. QED
    BY <2>3, <2>7, <2>8
<1>5. QED
  BY <1>3, <1>4
=============================================================================

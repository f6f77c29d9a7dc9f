------------------------- MODULE MessageBuffers_proofs -------------------------
(***************************************************************************)
(* Proofs about the emitted readers and writers, for any structs that the   *)
(* generators find sizes for, any messages, rooms and number of values in a  *)
(* byte, and whatever bytes the readers are given.                          *)
(*                                                                         *)
(* What is still to be written is a sequence of items, each with a value of *)
(* the type of its field, and what is still to be read a sequence of fields: *)
(* with that, the bounds are inductive, one lemma for each emitted statement. *)
(* That there is room for the rest of a message, and that the readers of both *)
(* languages decide alike, are invariants of their own on top of it.         *)
(***************************************************************************)
EXTENDS MessageBuffers, WireFormat_proofs

\* What the writers and readers work on.
Name == STRING \cup WireType
AnyField == [name : Name, type : Name, wire_type : WireType \cup DOMAIN Structs,
             array_len : Nat \cup {NoLen}, is_enum : BOOLEAN]
Fields == {f \in AnyField : Typed(f)}
CItems ==
    {x \in [f : Fields, v : UNION {CValues(f) : f \in Fields}, fill : {FALSE}] :
        x.v \in CValues(x.f)}
CsItems ==
    {x \in [f : Fields, v : {<<>>} \cup UNION {CsValues(f) : f \in Fields}, fill : BOOLEAN] :
        \/ x.fill = FALSE /\ x.v \in CsValues(x.f)
        \/ x.fill = TRUE /\ IsStruct(x.f) /\ ~IsArray(x.f)}
Slot(f) == [Item(f, <<>>) EXCEPT !.fill = TRUE]
Items(who) == IF who = "C" THEN CItems ELSE CsItems
Status == {"waiting", "reading", "read", "refused", "thrown"}
Leaf == [f : Fields, v : Seq(Int)]

Chosen ==
    /\ fixed_mode \in BOOLEAN /\ big_endian \in BOOLEAN
    /\ struct \in DOMAIN Structs /\ writer \in {"C", "C#"} /\ room \in Nat
Written ==
    /\ todo \in Seq(Items(writer)) /\ buf \in Bytes /\ Len(buf) <= room
    /\ wire \in Bytes
    /\ intact = "unsent" => \A r \in Readers : pos[r] = 0 /\ rstatus[r] = "waiting"

\* What a reader has stored stays in the array that it is for.
Fits(r, leaf) ==
    \/ r # "C" /\ HugeWide(leaf.f)
    \/ Len(leaf.v) <= IF IsArray(leaf.f) THEN leaf.f.array_len ELSE 1
IsRead ==
    /\ fields \in [Readers -> Seq(Fields)] /\ pos \in [Readers -> Nat]
    /\ out \in [Readers -> Seq(Leaf)] /\ rstatus \in [Readers -> Status]
    /\ filled \in Bytes
    /\ \A r \in Readers : /\ pos[r] <= Len(Span(r))
                          /\ \A i \in DOMAIN out[r] : Fits(r, out[r][i])

BufferInv == Chosen /\ Written /\ IsRead

-----------------------------------------------------------------------------
(***************************************************************************)
(* Fields, items and messages.                                             *)
(***************************************************************************)

LEMMA FieldTypes ==
    ASSUME NEW f \in Fields
    PROVE  /\ f.array_len \in Nat \cup {NoLen} /\ (IsArray(f) => f.array_len \in Nat)
           /\ IsStruct(f) => f.wire_type \in DOMAIN Structs
           /\ ~IsStruct(f) => f.wire_type \in WireType /\ SizeOf(f) \in Widths
           /\ f.wire_type \in WireType \cup DOMAIN Structs
           /\ Typed(f)
<1>1. f \in AnyField /\ Typed(f)
  BY DEF Fields
<1>2. /\ f.array_len \in Nat \cup {NoLen} /\ f.wire_type \in WireType \cup DOMAIN Structs
  BY <1>1 DEF AnyField
<1>3. f.wire_type \in WireType => SizeOf(f) \in Widths
  BY TypeWidths DEF SizeOf
<1>4. QED
  BY <1>1, <1>2, <1>3 DEF IsArray, IsStruct

\* The type that C writes and reads a field by.
LEMMA CTypes ==
    ASSUME NEW f \in Fields, ~IsStruct(f)
    PROVE  CType(f) \in DOMAIN SCALAR_TYPE_MAP /\ SCALAR_TYPE_MAP[CType(f)] = f.wire_type
<1>1. \A t \in WireType : t \in DOMAIN SCALAR_TYPE_MAP /\ SCALAR_TYPE_MAP[t] = t
  BY DEF SCALAR_TYPE_MAP, WireType, WIRE_TYPE_SIZES
<1>2. CASE f.is_enum
  BY <1>1, <1>2, FieldTypes DEF Typed, CType
<1>3. CASE ~f.is_enum
  BY <1>3, FieldTypes DEF Typed, CType
<1>4. QED
  BY <1>2, <1>3

\* A string is an array of one or of two bytes.
LEMMA StringTypes ==
    ASSUME NEW f \in Fields, field_is_string(f)
    PROVE  /\ IsArray(f) /\ ~IsStruct(f) /\ f.array_len \in Nat
           /\ is_char_array(f) \/ is_wchar_array(f)
           /\ is_char_array(f) => SizeOf(f) = 1
           /\ is_wchar_array(f) => SizeOf(f) = 2
<1>1. IsArray(f) /\ f.type \in {"char", "wchar_t"} /\ f.array_len \in Nat
  BY FieldTypes DEF field_is_string
<1>2. /\ "char" \in DOMAIN SCALAR_TYPE_MAP /\ SCALAR_TYPE_MAP["char"] = "int8_t"
      /\ "wchar_t" \in DOMAIN SCALAR_TYPE_MAP /\ SCALAR_TYPE_MAP["wchar_t"] = "int16_t"
  BY DEF SCALAR_TYPE_MAP
<1>3. /\ f.type = "char" => f.wire_type = "int8_t"
      /\ f.type = "wchar_t" => f.wire_type = "int16_t"
  BY <1>2, FieldTypes DEF Typed
<1>4. /\ "int8_t" \in WireType /\ "int16_t" \in WireType
      /\ WIRE_TYPE_SIZES["int8_t"] = 1 /\ WIRE_TYPE_SIZES["int16_t"] = 2
  BY DEF WireType, WIRE_TYPE_SIZES
<1>5. ~IsStruct(f)
  BY <1>1, <1>3, <1>4, StructsAssumption DEF IsStruct
<1>6. QED
  BY <1>1, <1>3, <1>4, <1>5 DEF is_char_array, is_wchar_array, SizeOf

LEMMA ElementTypes ==
    ASSUME NEW f \in Fields
    PROVE  /\ Element(f) \in Fields /\ ~IsArray(Element(f)) /\ ~field_is_string(Element(f))
           /\ IsStruct(Element(f)) <=> IsStruct(f)
           /\ Element(f).wire_type = f.wire_type /\ SizeOf(Element(f)) = SizeOf(f)
<1>1. f \in AnyField
  BY DEF Fields
<1>2. /\ Element(f) \in AnyField
      /\ Element(f).array_len = NoLen /\ Element(f).wire_type = f.wire_type
      /\ Element(f).type = f.type /\ Element(f).is_enum = f.is_enum
  BY <1>1 DEF AnyField, Element
<1>3. Typed(Element(f))
  BY <1>2, FieldTypes DEF Typed, IsStruct
<1>4. QED
  BY <1>2, <1>3 DEF Fields, IsArray, IsStruct, SizeOf, field_is_string

\* The length before a string is a field of an unsigned type.
LEMMA PrefixTypes ==
    ASSUME NEW f
    PROVE  /\ Prefix(f) \in Fields /\ ~IsArray(Prefix(f)) /\ ~IsStruct(Prefix(f))
           /\ Prefix(f).wire_type \notin ToSet(Signed) /\ Prefix(f).wire_type \in WireType
           /\ SizeOf(Prefix(f)) = length_prefix_size(f.array_len)
           /\ length_prefix_size(f.array_len) \in Widths
<1> DEFINE t == length_prefix_type(f.array_len)
<1>1. PICK i \in 1 .. 4 : t = Unsigned[i] /\ Unsigned[i] \in WireType
  BY NarrowestFacts DEF length_prefix_type
<1>2. \A k \in 1 .. 4 : Unsigned[k] \notin ToSet(Signed)
  <2>1. ToSet(Signed) = {"int8_t", "int16_t", "int32_t", "int64_t"}
    BY DEF Signed, ToSet
  <2>2. ASSUME NEW k \in 1 .. 4
        PROVE  Unsigned[k] \notin ToSet(Signed)
    <3>1. k = 1 \/ k = 2 \/ k = 3 \/ k = 4
      OBVIOUS
    <3>2. \/ Unsigned[k] = "uint8_t" \/ Unsigned[k] = "uint16_t"
          \/ Unsigned[k] = "uint32_t" \/ Unsigned[k] = "uint64_t"
      BY <3>1 DEF Unsigned
    <3>3. \A u \in {"uint8_t", "uint16_t", "uint32_t", "uint64_t"} :
              u \notin {"int8_t", "int16_t", "int32_t", "int64_t"}
      OBVIOUS
    <3>4. QED
      BY <2>1, <3>2, <3>3, Zenon
  <2>3. QED
    BY <2>2
<1>3. t \in WireType /\ t \notin ToSet(Signed)
  BY <1>1, <1>2
<1>4. \A u \in WireType : u \in DOMAIN SCALAR_TYPE_MAP /\ SCALAR_TYPE_MAP[u] = u
  BY DEF SCALAR_TYPE_MAP, WireType, WIRE_TYPE_SIZES
<1>5. Prefix(f) = [name |-> t, type |-> t, wire_type |-> t, array_len |-> NoLen, is_enum |-> FALSE]
  BY DEF Prefix, Scalar
<1> HIDE DEF t
<1>6. Prefix(f) \in AnyField
  BY <1>3, <1>5 DEF AnyField, Name
<1>7. Typed(Prefix(f)) /\ ~IsArray(Prefix(f)) /\ Prefix(f).wire_type = t
  BY <1>3, <1>4, <1>5 DEF Typed, IsArray
<1>8. ~IsStruct(Prefix(f))
  BY <1>3, <1>7, StructsAssumption DEF IsStruct
<1>9. SizeOf(Prefix(f)) = length_prefix_size(f.array_len) /\ length_prefix_size(f.array_len) \in Widths
  BY <1>3, <1>7, TypeWidths DEF SizeOf, length_prefix_size, t
<1>10. QED
  BY <1>3, <1>6, <1>7, <1>8, <1>9 DEF Fields

\* Items by what they are made of.
LEMMA ItemFacts ==
    /\ \A f \in Fields : \A v \in CValues(f) : Item(f, v) \in CItems
    /\ \A f \in Fields : \A v \in CsValues(f) : Item(f, v) \in CsItems
    /\ \A f \in Fields : IsStruct(f) /\ ~IsArray(f) => Slot(f) \in CsItems
    /\ \A x \in CItems : x.f \in Fields /\ x.v \in CValues(x.f)
    /\ \A x \in CsItems : /\ x.f \in Fields /\ x.fill \in BOOLEAN
                          /\ x.fill = TRUE => IsStruct(x.f) /\ ~IsArray(x.f)
                          /\ x.fill = FALSE => x.v \in CsValues(x.f)
<1>1. \A f, v : Item(f, v) = [f |-> f, v |-> v, fill |-> FALSE]
  BY DEF Item
<1>3. ASSUME NEW f \in Fields, NEW v \in CValues(f)
      PROVE  Item(f, v) \in CItems
  <2>1. v \in UNION {CValues(g) : g \in Fields}
    BY Zenon
  <2>2. QED
    BY <1>1, <2>1 DEF CItems
<1>4. ASSUME NEW f \in Fields, NEW v \in CsValues(f)
      PROVE  Item(f, v) \in CsItems
  <2>1. v \in UNION {CsValues(g) : g \in Fields}
    BY Zenon
  <2>2. QED
    BY <1>1, <2>1 DEF CsItems
<1>5. ASSUME NEW f \in Fields, IsStruct(f), ~IsArray(f)
      PROVE  Slot(f) \in CsItems
  <2>1. Item(f, <<>>) \in [f : {f}, v : {<<>>}, fill : BOOLEAN]
    BY DEF Item
  <2>2. Slot(f) \in [f : {f}, v : {<<>>}, fill : BOOLEAN] /\ Slot(f).fill = TRUE
    BY <2>1 DEF Slot
  <2>3. QED
    BY <1>5, <2>2 DEF CsItems
<1>6. QED
  BY <1>3, <1>4, <1>5 DEF CItems, CsItems

-----------------------------------------------------------------------------
(***************************************************************************)
(* Sequences, and strings.                                                 *)
(***************************************************************************)

LEMMA MinOfTwo ==
    ASSUME NEW a \in Int, NEW b \in Int
    PROVE  Min({a, b}) \in {a, b} /\ Min({a, b}) <= a /\ Min({a, b}) <= b
<1>1. \E x \in {a, b} : \A y \in {a, b} : x <= y
  <2>1. CASE a <= b
    BY <2>1
  <2>2. CASE ~(a <= b)
    BY <2>2
  <2>3. QED
    BY <2>1, <2>2
<1>2. Min({a, b}) \in {a, b} /\ \A y \in {a, b} : Min({a, b}) <= y
  BY <1>1, Zenon DEF Min
<1>3. QED
  BY <1>2

\* A set of numbers has a least one.
LEMMA LeastExists ==
    ASSUME NEW D, D \subseteq Nat, D # {}
    PROVE  \E x \in D : \A y \in D : x <= y
<1>1. IsWellFoundedOn(OpToRel(<, Nat), Nat)
  BY NatLessThanWellFounded
<1>2. PICK x \in D : \A y \in D : ~(<<y, x>> \in OpToRel(<, Nat))
  BY <1>1, WFMin
<1>3. \A y \in D : ~(y < x)
  BY <1>2 DEF OpToRel
<1>4. QED
  BY <1>3

\* The first n elements, and with as many more as are missing.
LEMMA CutFacts ==
    ASSUME NEW S, NEW s \in Seq(S), NEW n \in Nat
    PROVE  /\ Cut(s, n) \in Seq(S) /\ Len(Cut(s, n)) \in Nat
           /\ Len(Cut(s, n)) <= n /\ Len(Cut(s, n)) <= Len(s)
           /\ Len(Cut(s, n)) = n \/ Len(Cut(s, n)) = Len(s)
<1> DEFINE m == Min({n, Len(s)})
<1>0. Len(s) \in Nat
  OBVIOUS
<1>1. m \in Nat /\ m <= n /\ m <= Len(s) /\ (m = n \/ m = Len(s)) /\ Len(s) \in Nat
  <2>1. m \in {n, Len(s)} /\ m <= n /\ m <= Len(s)
    <3>1. n \in Int /\ Len(s) \in Int
      BY <1>0
    <3>2. QED
      BY <3>1, MinOfTwo, Zenon
  <2>2. QED
    BY <1>0, <2>1
<1>2. Cut(s, n) = SubSeq(s, 1, m)
  BY DEF Cut
<1> HIDE DEF m
<1>3. \A i \in 1 .. m : s[i] \in S
  BY <1>1, ElementOfSeq
<1>4. SubSeq(s, 1, m) \in Seq(S) /\ Len(SubSeq(s, 1, m)) = m
  BY <1>1, <1>3, SubSeqProperties
<1>5. QED
  BY <1>1, <1>2, <1>4

\* As many of one value.
LEMMA RepeatedFacts ==
    ASSUME NEW S, NEW x \in S, NEW n \in Nat
    PROVE  [i \in 1 .. n |-> x] \in Seq(S) /\ Len([i \in 1 .. n |-> x]) = n
OBVIOUS

LEMMA PaddedFacts ==
    ASSUME NEW S, NEW s \in Seq(S), NEW x \in S, NEW n \in Nat
    PROVE  PaddedWith(x, s, n) \in Seq(S) /\ Len(PaddedWith(x, s, n)) = n
<1> DEFINE c == Cut(s, n)
           z == [i \in 1 .. n - Len(c) |-> x]
<1>1. c \in Seq(S) /\ n - Len(c) \in Nat /\ Len(c) \in Nat
  BY CutFacts
<1>2. PaddedWith(x, s, n) = c \o z
  BY DEF PaddedWith
<1> HIDE DEF c
<1>3. z \in Seq(S) /\ Len(z) = n - Len(c)
  BY <1>1, RepeatedFacts
<1> HIDE DEF z
<1>4. c \o z \in Seq(S) /\ Len(c \o z) = Len(c) + Len(z)
  BY <1>1, <1>3, Concatenated
<1>5. QED
  BY <1>1, <1>2, <1>3, <1>4

\* What is before the NUL.
LEMMA TextFacts ==
    ASSUME NEW S, NEW a \in Seq(S)
    PROVE  TextOf(a) \in Seq(S) /\ Len(TextOf(a)) \in Nat /\ Len(TextOf(a)) <= Len(a)
<1> DEFINE nul == {i \in DOMAIN a : a[i] = 0}
<1>1. CASE nul = {}
  BY <1>1 DEF TextOf
<1>2. CASE nul # {}
  <2>1. nul \subseteq Nat /\ nul # {} /\ nul \subseteq 1 .. Len(a)
    BY <1>2
  <2>2. TextOf(a) = SubSeq(a, 1, Min(nul) - 1)
    BY <1>2 DEF TextOf
  <2> HIDE DEF nul
  <2>3. \E x \in nul : \A y \in nul : x <= y
    BY <2>1, LeastExists
  <2>4. Min(nul) \in nul
    BY <2>3, Zenon DEF Min
  <2> DEFINE m == Min(nul) - 1
  <2>5. m \in Nat /\ m <= Len(a) /\ Len(a) \in Nat
    <3>0. Len(a) \in Nat
      OBVIOUS
    <3>1. Min(nul) \in 1 .. Len(a)
      BY <2>1, <2>4, Zenon
    <3>2. \A k \in 1 .. Len(a) : k - 1 \in Nat /\ k - 1 <= Len(a)
      BY <3>0
    <3>3. QED
      BY <3>0, <3>1, <3>2, Zenon
  <2>6. TextOf(a) = SubSeq(a, 1, m)
    BY <2>2
  <2> HIDE DEF m
  <2>7. \A i \in 1 .. m : a[i] \in S
    BY <2>5, ElementOfSeq
  <2>8. SubSeq(a, 1, m) \in Seq(S) /\ Len(SubSeq(a, 1, m)) = m
    BY <2>5, <2>7, SubSeqProperties
  <2>9. QED
    BY <2>5, <2>6, <2>8
<1>3. QED
  BY <1>1, <1>2

\* Sequences one after the other, and how many elements they have if each has two.
LEMMA FlattenFacts ==
    ASSUME NEW S, NEW ss \in Seq(Seq(S))
    PROVE  /\ FlattenSeq(ss) \in Seq(S)
           /\ (\A i \in 1 .. Len(ss) : Len(ss[i]) = 2) => Len(FlattenSeq(ss)) = 2 * Len(ss)
<1> DEFINE n == Len(ss)
           IsFlat(f) == f = [i \in 1 .. n |-> IF i = 1 THEN ss[i] ELSE f[i - 1] \o ss[i]]
           flat == CHOOSE f : IsFlat(f)
<1>1. n \in Nat /\ \A i \in 1 .. n : ss[i] \in Seq(S)
  BY ElementOfSeq
<1>2. CASE n = 0
  BY <1>2 DEF FlattenSeq
<1>3. CASE n # 0
  <2>1. \E f \in [1 .. n -> Seq(S)] : IsFlat(f)
    <3> DEFINE F == [i \in 1 .. n |-> [x \in Seq(S) |-> x \o ss[i]]]
    <3>1. F \in [1 .. n -> [Seq(S) -> Seq(S)]]
      BY <1>1
    <3>2. \A i \in 1 .. n : \A x \in Seq(S) : F[i][x] = x \o ss[i]
      OBVIOUS
    <3>3. <<>> \in Seq(S)
      OBVIOUS
    <3> HIDE DEF F, n
    <3>4. Steps(Seq(S), <<>>, n, F)
      BY <1>1, <3>1, <3>3, Leftwards
    <3>5. PICK g \in [0 .. n -> Seq(S)] : g[0] = <<>> /\ \A i \in 1 .. n : g[i] = F[i][g[i - 1]]
      BY <3>4 DEF Steps
    <3> DEFINE f == [i \in 1 .. n |-> g[i]]
    <3>6. f \in [1 .. n -> Seq(S)]
      OBVIOUS
    <3>7. ASSUME NEW i \in 1 .. n
          PROVE  g[i] = IF i = 1 THEN ss[i] ELSE f[i - 1] \o ss[i]
      <4>1. i - 1 \in 0 .. n /\ g[i] = F[i][g[i - 1]]
        BY <1>1, <3>5
      <4>2. g[i] = g[i - 1] \o ss[i]
        BY <3>2, <4>1
      <4>3. CASE i = 1
        <5>1. g[i - 1] = <<>> /\ ss[i] \in Seq(S)
          BY <1>1, <3>5, <4>3
        <5>2. <<>> \o ss[i] = ss[i]
          BY <5>1
        <5>3. QED
          BY <4>2, <4>3, <5>1, <5>2
      <4>4. CASE i # 1
        <5>1. i - 1 \in 1 .. n
          BY <1>1, <4>4
        <5>2. QED
          BY <4>2, <4>4, <5>1
      <4>5. QED
        BY <4>3, <4>4
    <3>8. IsFlat(f)
      BY <3>7
    <3>9. QED
      BY <3>6, <3>8
  <2>2. IsFlat(flat)
    BY <2>1, Zenon
  <2>3. FlattenSeq(ss) = flat[n]
    BY <1>3 DEF FlattenSeq
  <2> HIDE DEF flat
  <2> DEFINE Pairs == \A i \in 1 .. n : Len(ss[i]) = 2
             IsPart(i) == flat[i + 1] \in Seq(S) /\ (Pairs => Len(flat[i + 1]) = 2 * (i + 1))
             T == {i \in Nat : i + 1 <= n => IsPart(i)}
  <2>4. 0 \in T
    <3>1. 1 \in 1 .. n
      BY <1>1, <1>3
    <3>2. flat[1] = ss[1]
      BY <2>2, <3>1
    <3>3. QED
      BY <1>1, <3>1, <3>2
  <2>5. ASSUME NEW i \in T
        PROVE  i + 1 \in T
    <3>1. CASE (i + 1) + 1 <= n
      <4>1. /\ i \in Nat /\ (i + 1) + 1 \in 1 .. n /\ (i + 1) + 1 # 1 /\ ((i + 1) + 1) - 1 = i + 1
            /\ IsPart(i)
        BY <1>1, <3>1
      <4>2. flat[(i + 1) + 1] = flat[i + 1] \o ss[(i + 1) + 1]
        BY <2>2, <4>1
      <4>3. /\ flat[(i + 1) + 1] \in Seq(S)
            /\ Len(flat[(i + 1) + 1]) = Len(flat[i + 1]) + Len(ss[(i + 1) + 1])
        BY <1>1, <4>1, <4>2, Concatenated
      <4>4. Pairs => Len(ss[(i + 1) + 1]) = 2
        BY <4>1
      <4>5. IsPart(i + 1)
        <5> HIDE DEF Pairs
        <5>1. Pairs => Len(flat[(i + 1) + 1]) = 2 * (i + 1) + 2
          BY <4>1, <4>3, <4>4
        <5>2. 2 * (i + 1) + 2 = 2 * ((i + 1) + 1)
          BY <4>1
        <5>3. QED
          BY <4>3, <5>1, <5>2
      <4>6. QED
        BY <4>1, <4>5
    <3>2. CASE ~((i + 1) + 1 <= n)
      BY <3>2
    <3>3. QED
      BY <3>1, <3>2
  <2>6. Nat \subseteq T
    <3> HIDE DEF T
    <3>1. QED
      BY <2>4, <2>5, Induction
  <2>7. n - 1 \in Nat /\ (n - 1) + 1 = n /\ n <= n
    BY <1>1, <1>3
  <2>8. IsPart(n - 1)
    BY <2>6, <2>7
  <2>9. QED
    BY <2>3, <2>7, <2>8
<1>4. QED
  BY <1>2, <1>3

\* Of some of the numbers up to n one is the greatest.
LEMMA GreatestExists ==
    ASSUME NEW n \in Nat, NEW D \in SUBSET (0 .. n), D # {}
    PROVE  Max(D) \in D
<1> DEFINE E == {n - x : x \in D}
<1>1. E \subseteq Nat /\ E # {}
  <2>1. \A x \in 0 .. n : n - x \in Nat
    OBVIOUS
  <2>2. QED
    BY <2>1
<1>2. PICK y \in E : \A z \in E : y <= z
  <2> HIDE DEF E
  <2>1. QED
    BY <1>1, LeastExists
<1>3. PICK x \in D : y = n - x
  BY <1>2
<1>4. \A z \in D : n - x <= n - z /\ x \in 0 .. n /\ z \in 0 .. n
  BY <1>2, <1>3
<1>5. \A z \in D : z <= x
  BY <1>4
<1>6. QED
  BY <1>3, <1>5, Zenon DEF Max

\* Encoding.UTF8, there and back.
LEMMA WideFacts == Wide \in Byte /\ Lead \in Byte /\ Replacement \in Int
<1>1. Values(2) \in Nat
  BY ValuesType
<1> HIDE DEF Values
<1>2. QED
  BY <1>1, ByteBaseAssumption DEF Wide, Lead, Replacement, Byte

LEMMA GetBytesFacts ==
    ASSUME NEW chars \in Seq(Nat)
    PROVE  GetBytes(chars) \in Bytes
<1> DEFINE coded(i) == IF chars[i] < Wide THEN <<chars[i]>> ELSE <<Lead, Wide>>
           ss == [i \in DOMAIN chars |-> coded(i)]
<1>1. ASSUME NEW i \in 1 .. Len(chars)
      PROVE  coded(i) \in Bytes
  <2>1. chars[i] \in Nat
    BY ElementOfSeq
  <2>2. CASE chars[i] < Wide
    <3>1. chars[i] \in Byte
      BY <2>1, <2>2, WideFacts, ByteBaseAssumption DEF Byte
    <3>2. <<chars[i]>> \in Seq(Byte)
      BY <3>1
    <3>3. QED
      BY <2>2, <3>2 DEF Bytes
  <2>3. CASE ~(chars[i] < Wide)
    <3>1. <<Lead, Wide>> \in Seq(Byte)
      BY WideFacts
    <3>2. QED
      BY <2>3, <3>1 DEF Bytes
  <2>4. QED
    BY <2>2, <2>3
<1>2. DOMAIN chars = 1 .. Len(chars) /\ Len(chars) \in Nat
  OBVIOUS
<1>3. GetBytes(chars) = FlattenSeq(ss)
  BY DEF GetBytes
<1>4. ss \in Seq(Bytes)
  <2> HIDE DEF coded
  <2>1. QED
    BY <1>1, <1>2
<1> HIDE DEF ss
<1>5. FlattenSeq(ss) \in Seq(Byte)
  BY <1>4, FlattenFacts DEF Bytes
<1>6. QED
  BY <1>3, <1>5 DEF Bytes

LEMMA FittingFacts ==
    ASSUME NEW chars \in Seq(Nat), NEW n \in Nat
    PROVE  Fitting(chars, n) \in Seq(Nat)
<1> DEFINE fits == {k \in 0 .. Len(chars) : Len(GetBytes(SubSeq(chars, 1, k))) <= n}
<1>1. Len(chars) \in Nat /\ fits \in SUBSET (0 .. Len(chars))
  OBVIOUS
<1>2. 0 \in fits
  <2>1. SubSeq(chars, 1, 0) = <<>>
    OBVIOUS
  <2>2. GetBytes(<<>>) = FlattenSeq([i \in DOMAIN <<>> |->
                             IF <<>>[i] < Wide THEN << <<>>[i] >> ELSE <<Lead, Wide>>])
    BY DEF GetBytes
  <2>3. [i \in DOMAIN <<>> |-> IF <<>>[i] < Wide THEN << <<>>[i] >> ELSE <<Lead, Wide>>] = <<>>
    OBVIOUS
  <2>4. FlattenSeq(<<>>) = <<>>
    BY DEF FlattenSeq
  <2>5. Len(GetBytes(<<>>)) = 0
    BY <2>2, <2>3, <2>4
  <2>6. Len(GetBytes(SubSeq(chars, 1, 0))) <= n
    <3>1. Len(GetBytes(SubSeq(chars, 1, 0))) = 0
      BY <2>1, <2>5, Zenon
    <3>2. QED
      BY <3>1
  <2>7. 0 \in 0 .. Len(chars)
    BY <1>1
  <2>8. QED
    BY <2>6, <2>7
<1>3. Fitting(chars, n) = SubSeq(chars, 1, Max(fits))
  BY DEF Fitting
<1> HIDE DEF fits
<1>4. Max(fits) \in 0 .. Len(chars)
  <2>1. Max(fits) \in fits
    BY <1>1, <1>2, GreatestExists
  <2>2. QED
    BY <1>1, <2>1
<1>5. \A k \in 0 .. Len(chars) : SubSeq(chars, 1, k) \in Seq(Nat)
  <2>1. ASSUME NEW k \in 0 .. Len(chars)
        PROVE  SubSeq(chars, 1, k) \in Seq(Nat)
    <3>1. \A i \in 1 .. k : chars[i] \in Nat
      BY ElementOfSeq
    <3>2. QED
      BY <3>1, SubSeqProperties
  <2>2. QED
    BY <2>1
<1>6. QED
  BY <1>3, <1>4, <1>5

LEMMA UnitsFacts ==
    ASSUME NEW b \in Bytes, big_endian \in BOOLEAN
    PROVE  Units(b) \in Seq(Int) /\ Len(Units(b)) = Len(b) \div 2
<1> DEFINE n == Len(b) \div 2
           unit(i) == ToUnsigned(bp_read(SubSeq(b, 2 * i - 1, 2 * i), "uint16_t", big_endian), 2)
<1>1. Len(b) \in Nat /\ n \in Nat
  BY DEF Bytes
<1>2. ASSUME NEW i \in 1 .. n
      PROVE  unit(i) \in Int
  <2>1. 2 * i - 1 \in Nat /\ 2 * i - 1 >= 1 /\ 2 * i <= Len(b) /\ 2 * i \in Nat
    BY <1>1
  <2>2. \A j \in (2 * i - 1) .. (2 * i) : b[j] \in Byte
    BY <1>1, <2>1, ElementOfSeq DEF Bytes
  <2>3. SubSeq(b, 2 * i - 1, 2 * i) \in Bytes
    BY <2>1, <2>2, SubSeqProperties DEF Bytes
  <2>4. "uint16_t" \in WireType
    BY DEF WireType, WIRE_TYPE_SIZES
  <2>5. bp_read(SubSeq(b, 2 * i - 1, 2 * i), "uint16_t", big_endian) \in Int
    BY <2>3, <2>4, BpReadFacts
  <2>6. QED
    BY <2>5, CastFacts
<1>3. Units(b) = [i \in 1 .. n |-> unit(i)]
  BY DEF Units
<1> HIDE DEF unit, n
<1>4. QED
  BY <1>1, <1>2, <1>3 DEF n

\* A text has at most as many characters as bytes.
LEMMA GetStringFacts ==
    ASSUME NEW b \in Bytes
    PROVE  GetString(b) \in Seq(Int) /\ Len(GetString(b)) <= Len(b)
<1> DEFINE n == Len(b)
           After(i) == IF i < Len(b) THEN b[i + 1] ELSE 0
           Before(i) == IF i > 1 THEN b[i - 1] ELSE 0
           Next1(i, s) ==
               IF b[i] < Wide THEN Append(s, b[i])
               ELSE IF b[i] = Lead /\ After(i) = Wide THEN Append(s, Wide)
               ELSE IF b[i] = Wide /\ Before(i) = Lead THEN s
               ELSE Append(s, Replacement)
           IsText(f) == f = [i \in 0 .. n |-> IF i = 0 THEN <<>> ELSE Next1(i, f[i - 1])]
           chars == CHOOSE f : IsText(f)
<1>1. n \in Nat /\ \A i \in 1 .. n : b[i] \in Int
  <2>1. n \in Nat /\ \A i \in 1 .. n : b[i] \in Byte
    BY ElementOfSeq DEF Bytes
  <2>2. QED
    BY <2>1, ByteBaseAssumption DEF Byte
<1>2. Wide \in Int /\ Replacement \in Int
  BY WideFacts, ByteBaseAssumption DEF Byte
<1>3. ASSUME NEW i \in 1 .. n, NEW s \in Seq(Int)
      PROVE  Next1(i, s) \in Seq(Int) /\ Len(Next1(i, s)) <= Len(s) + 1
  <2>1. Next1(i, s) \in {Append(s, b[i]), Append(s, Wide), s, Append(s, Replacement)}
    <3> HIDE DEF After, Before
    <3>1. QED
      OBVIOUS
  <2>2. \A x \in Int : Append(s, x) \in Seq(Int) /\ Len(Append(s, x)) = Len(s) + 1
    OBVIOUS
  <2>3. Len(s) \in Nat
    OBVIOUS
  <2> HIDE DEF Next1
  <2>4. \A x \in {Append(s, b[i]), Append(s, Wide), s, Append(s, Replacement)} :
            x \in Seq(Int) /\ Len(x) <= Len(s) + 1
    <3>1. b[i] \in Int
      BY <1>1
    <3>2. \A x \in Int : Append(s, x) \in Seq(Int) /\ Len(Append(s, x)) <= Len(s) + 1
      BY <2>2, <2>3
    <3>3. s \in Seq(Int) /\ Len(s) <= Len(s) + 1
      BY <2>3
    <3>4. QED
      BY <1>2, <3>1, <3>2, <3>3, Zenon
  <2>5. QED
    BY <2>1, <2>4, Zenon
<1>4. GetString(b) = chars[n]
  BY DEF GetString
<1> HIDE DEF Next1
<1>5. \E f : IsText(f)
  <2> DEFINE F == [i \in 1 .. n |-> [s \in Seq(Int) |-> Next1(i, s)]]
  <2>1. F \in [1 .. n -> [Seq(Int) -> Seq(Int)]]
    BY <1>3
  <2>2. \A i \in 1 .. n : \A s \in Seq(Int) : F[i][s] = Next1(i, s)
    OBVIOUS
  <2>3. <<>> \in Seq(Int)
    OBVIOUS
  <2> HIDE DEF F
  <2>4. PICK f \in [0 .. n -> Seq(Int)] : f[0] = <<>> /\ \A i \in 1 .. n : f[i] = F[i][f[i - 1]]
    <3> HIDE DEF n
    <3>1. Steps(Seq(Int), <<>>, n, F)
      BY <1>1, <2>1, <2>3, Leftwards
    <3>2. QED
      BY <3>1 DEF Steps
  <2>5. ASSUME NEW i \in 0 .. n
        PROVE  f[i] = IF i = 0 THEN <<>> ELSE Next1(i, f[i - 1])
    <3>1. CASE i = 0
      BY <2>4, <3>1
    <3>2. CASE i # 0
      <4>1. i \in 1 .. n /\ i - 1 \in 0 .. n
        BY <1>1, <3>2
      <4>2. QED
        BY <2>2, <2>4, <3>2, <4>1
    <3>3. QED
      BY <3>1, <3>2
  <2>6. QED
    BY <2>4, <2>5
<1>6. IsText(chars)
  BY <1>5, Zenon
<1> HIDE DEF chars
<1> DEFINE IsPart(i) == chars[i] \in Seq(Int) /\ Len(chars[i]) <= i
           T == {i \in Nat : i <= n => IsPart(i)}
<1>7. 0 \in T
  <2>1. chars[0] = <<>>
    BY <1>1, <1>6
  <2>2. <<>> \in Seq(Int) /\ Len(<<>>) = 0
    OBVIOUS
  <2>3. IsPart(0)
    BY <2>1, <2>2
  <2>4. QED
    BY <2>3
<1>8. ASSUME NEW i \in T
      PROVE  i + 1 \in T
  <2>1. CASE i + 1 <= n
    <3>1. i \in Nat /\ i + 1 \in 1 .. n /\ i + 1 \in 0 .. n /\ i + 1 # 0 /\ (i + 1) - 1 = i /\ IsPart(i)
      BY <1>1, <2>1
    <3>2. chars[i + 1] = Next1(i + 1, chars[i])
      BY <1>6, <3>1
    <3>3. chars[i + 1] \in Seq(Int) /\ Len(chars[i + 1]) <= Len(chars[i]) + 1
      BY <1>3, <3>1, <3>2
    <3>4. Len(chars[i]) \in Nat /\ Len(chars[i + 1]) \in Nat
      BY <3>1, <3>3
    <3>5. QED
      BY <3>1, <3>3, <3>4
  <2>2. CASE ~(i + 1 <= n)
    BY <2>2
  <2>3. QED
    BY <2>1, <2>2
<1>9. Nat \subseteq T
  <2> HIDE DEF T
  <2>1. QED
    BY <1>7, <1>8, Induction
<1>10. QED
  BY <1>1, <1>4, <1>9

\* What is cut out of a sequence.
LEMMA SliceFacts ==
    ASSUME NEW S, NEW s \in Seq(S), NEW i \in Nat, NEW n \in Nat, i + n <= Len(s)
    PROVE  SubSeq(s, i + 1, i + n) \in Seq(S) /\ Len(SubSeq(s, i + 1, i + n)) = n
<1>1. \A j \in (i + 1) .. (i + n) : s[j] \in S
  <2>1. \A j \in (i + 1) .. (i + n) : j \in 1 .. Len(s)
    OBVIOUS
  <2>2. QED
    BY <2>1, ElementOfSeq
<1>2. SubSeq(s, i + 1, i + n) \in Seq(S)
  BY <1>1, SubSeqProperties
<1>3. Len(SubSeq(s, i + 1, i + n)) = n
  <2>1. CASE n = 0
    BY <2>1
  <2>2. CASE n > 0
    BY <1>1, <2>2, SubSeqProperties
  <2>3. QED
    BY <2>1, <2>2
<1>4. QED
  BY <1>2, <1>3

\* A string that is read has at most as many characters as its bytes allow.
LEMMA DecodeFacts ==
    ASSUME NEW b \in Bytes, big_endian \in BOOLEAN, NEW f \in Fields, field_is_string(f)
    PROVE  /\ Decode(b, f) \in Seq(Int)
           /\ is_char_array(f) => Len(Decode(b, f)) <= Len(b)
           /\ ~is_char_array(f) => Len(Decode(b, f)) <= Len(b) \div 2
<1>1. Len(b) \in Nat /\ b \in Seq(Int)
  BY ByteBaseAssumption DEF Bytes, Byte
<1>2. TextOf(b) \in Bytes /\ Len(TextOf(b)) <= Len(b)
  BY TextFacts DEF Bytes
<1>3. /\ GetString(b) \in Seq(Int) /\ Len(GetString(b)) <= Len(b)
      /\ GetString(TextOf(b)) \in Seq(Int) /\ Len(GetString(TextOf(b))) <= Len(TextOf(b))
  BY <1>2, GetStringFacts
<1>4. Units(b) \in Seq(Int) /\ Len(Units(b)) = Len(b) \div 2
  BY UnitsFacts
<1>5. TextOf(Units(b)) \in Seq(Int) /\ Len(TextOf(Units(b))) <= Len(Units(b))
  BY <1>4, TextFacts
<1>6. Len(TextOf(b)) \in Nat /\ Len(GetString(TextOf(b))) \in Nat
  BY <1>2, <1>3 DEF Bytes
<1>7. CASE is_char_array(f)
  <2>1. Decode(b, f) \in {GetString(TextOf(b)), GetString(b)}
    BY <1>7 DEF Decode
  <2>2. QED
    BY <1>1, <1>2, <1>3, <1>6, <1>7, <2>1
<1>8. CASE ~is_char_array(f)
  <2>1. Decode(b, f) \in {TextOf(Units(b)), Units(b)}
    BY <1>8 DEF Decode
  <2>2. QED
    BY <1>1, <1>4, <1>5, <1>8, <2>1
<1>9. QED
  BY <1>7, <1>8

-----------------------------------------------------------------------------
(***************************************************************************)
(* What is to be written.                                                  *)
(***************************************************************************)

LEMMA StructFields == \A s \in DOMAIN Structs : Structs[s] \in Seq(Fields)
<1>1. ASSUME NEW s \in DOMAIN Structs
      PROVE  Structs[s] \in Seq(Fields)
  <2>1. Structs[s] \in Seq(FieldRecord(DOMAIN Structs))
    BY StructsAssumption DEF Parsed
  <2>2. ASSUME NEW i \in 1 .. Len(Structs[s])
        PROVE  Structs[s][i] \in Fields
    <3>1. Structs[s][i] \in FieldRecord(DOMAIN Structs)
      BY <2>1, ElementOfSeq
    <3>2. FieldRecord(DOMAIN Structs) \subseteq AnyField
      BY DEF FieldRecord, AnyField, Name
    <3>3. i \in DOMAIN Structs[s]
      BY <2>1
    <3>4. Typed(Structs[s][i])
      BY <3>3, StructsAssumption
    <3>5. QED
      BY <3>1, <3>2, <3>4 DEF Fields
  <2>3. QED
    BY <2>1, <2>2
<1>2. QED
  BY <1>1

\* The values of an array are values of its element.
LEMMA ArrayValues ==
    ASSUME NEW f \in Fields, IsArray(f)
    PROVE  /\ \A v \in CValues(f) : v \in Seq(CValues(Element(f))) /\ Len(v) = f.array_len
           /\ ~field_is_string(f) => CsValues(f) = Seq(CsValues(Element(f)))
           /\ ~IsStruct(f) => CValues(Element(f)) = Int /\ CsValues(Element(f)) = Int
           /\ field_is_string(f) => CsValues(f) = Seq(Nat)
           /\ IsStruct(f) => <<>> \in CsValues(Element(f))
<1>1. /\ ~IsArray(Element(f)) /\ ~field_is_string(Element(f))
      /\ IsStruct(Element(f)) <=> IsStruct(f)
      /\ Element(f).wire_type = f.wire_type
  BY ElementTypes
<1>2. CValues(Element(f)) = IF IsStruct(f) THEN CMessages[f.wire_type] ELSE Int
  BY <1>1 DEF CValues
<1>3. CValues(f) = {v \in Seq(CValues(Element(f))) : Len(v) = f.array_len}
  BY <1>2 DEF CValues
<1>4. CsValues(Element(f)) =
          IF IsStruct(f) THEN {<<>>} \cup {<<m>> : m \in CsMessages[f.wire_type]} ELSE Int
  BY <1>1 DEF CsValues
<1>5. CsValues(f) = Seq(IF IsStruct(f) THEN {<<>>} \cup {<<m>> : m \in CsMessages[f.wire_type]}
                        ELSE IF field_is_string(f) THEN Nat ELSE Int)
  BY DEF CsValues
<1>6. field_is_string(f) => ~IsStruct(f)
  BY StringTypes
<1>7. ~field_is_string(f) => CsValues(f) = Seq(CsValues(Element(f)))
  BY <1>4, <1>5, Zenon
<1>8. field_is_string(f) => CsValues(f) = Seq(Nat)
  BY <1>5, <1>6, Zenon
<1>9. \A v \in CValues(f) : v \in Seq(CValues(Element(f))) /\ Len(v) = f.array_len
  BY <1>3, Zenon
<1>10. ~IsStruct(f) => CValues(Element(f)) = Int /\ CsValues(Element(f)) = Int
  BY <1>2, <1>4, Zenon
<1>11. IsStruct(f) => <<>> \in CsValues(Element(f))
  BY <1>4
<1>12. QED
  BY <1>7, <1>8, <1>9, <1>10, <1>11

\* Its elements, one by one.
LEMMA ElementItems ==
    ASSUME NEW f \in Fields
    PROVE  /\ \A v \in Seq(CValues(Element(f))) :
                 Elements(f, v) \in Seq(CItems) /\ Len(Elements(f, v)) = Len(v)
           /\ \A v \in Seq(CsValues(Element(f))) :
                 Elements(f, v) \in Seq(CsItems) /\ Len(Elements(f, v)) = Len(v)
<1>1. Element(f) \in Fields
  BY ElementTypes
<1>2. ASSUME NEW V, NEW I, \A v \in V : Item(Element(f), v) \in I, NEW v \in Seq(V)
      PROVE  Elements(f, v) \in Seq(I) /\ Len(Elements(f, v)) = Len(v)
  <2>1. DOMAIN v = 1 .. Len(v) /\ Len(v) \in Nat /\ \A i \in 1 .. Len(v) : v[i] \in V
    BY ElementOfSeq
  <2>2. Elements(f, v) = [i \in 1 .. Len(v) |-> Item(Element(f), v[i])]
    BY <2>1 DEF Elements
  <2>3. \A i \in 1 .. Len(v) : Item(Element(f), v[i]) \in I
    BY <1>2, <2>1
  <2>4. QED
    BY <2>1, <2>2, <2>3
<1>3. /\ \A v \in CValues(Element(f)) : Item(Element(f), v) \in CItems
      /\ \A v \in CsValues(Element(f)) : Item(Element(f), v) \in CsItems
  BY <1>1, ItemFacts
<1>4. QED
  BY <1>2, <1>3

\* The fields of a struct.
LEMMA FieldItems ==
    ASSUME NEW s \in DOMAIN Structs
    PROVE  /\ \A m \in CMessages[s] :
                 FieldsOf(s, m) \in Seq(CItems) /\ Len(FieldsOf(s, m)) = Len(Structs[s])
           /\ \A m \in CsMessages[s] :
                 FieldsOf(s, m) \in Seq(CsItems) /\ Len(FieldsOf(s, m)) = Len(Structs[s])
<1>1. Structs[s] \in Seq(Fields)
  BY StructFields
<1>2. /\ DOMAIN Structs[s] = 1 .. Len(Structs[s]) /\ Len(Structs[s]) \in Nat
      /\ \A i \in 1 .. Len(Structs[s]) : Structs[s][i] \in Fields
  BY <1>1, ElementOfSeq
<1>3. ASSUME NEW I, NEW m, \A i \in DOMAIN Structs[s] : Item(Structs[s][i], m[i]) \in I
      PROVE  FieldsOf(s, m) \in Seq(I) /\ Len(FieldsOf(s, m)) = Len(Structs[s])
  <2>1. FieldsOf(s, m) = [i \in 1 .. Len(Structs[s]) |-> Item(Structs[s][i], m[i])]
    BY <1>2 DEF FieldsOf
  <2>2. QED
    BY <1>2, <1>3, <2>1
<1>4. ASSUME NEW m \in CMessages[s], NEW i \in DOMAIN Structs[s]
      PROVE  Item(Structs[s][i], m[i]) \in CItems
  BY <1>2, ItemFacts, MessagesAssumption
<1>5. ASSUME NEW m \in CsMessages[s], NEW i \in DOMAIN Structs[s]
      PROVE  Item(Structs[s][i], m[i]) \in CsItems
  BY <1>2, ItemFacts, MessagesAssumption
<1>6. QED
  BY <1>3, <1>4, <1>5

\* The largest size of a struct is a number.
LEMMA MaxSizes ==
    ASSUME NEW s \in DOMAIN Structs, fixed_mode \in BOOLEAN
    PROVE  StructMaxSize(s) \in Nat
<1>1. Parsed(Structs)
  BY StructsAssumption
<1>2. PICK size : /\ IsSize(size, Structs, fixed_mode)
                  /\ \A n : struct_wire_size(n, Structs, fixed_mode) = size[{}][n]
  BY <1>1, SizeOfStructIs
<1>3. {} \in SUBSET DOMAIN Structs
  OBVIOUS
<1>4. size[{}][s] \in Size
  BY <1>1, <1>2, <1>3, SizeFacts
<1>5. struct_wire_size(s, Structs, fixed_mode) # Error
  BY StructsAssumption
<1>6. QED
  BY <1>2, <1>4, <1>5 DEF StructMaxSize, Size

-----------------------------------------------------------------------------
(***************************************************************************)
(* Every statement of a writer keeps to its room.                          *)
(***************************************************************************)

\* The item that is next, and the ones after it.
LEMMA NextItem ==
    ASSUME BufferInv, NEW who, Writes(who)
    PROVE  /\ who \in {"C", "C#"} /\ writer = who /\ Work \in Items(who) /\ Work.f \in Fields
           /\ todo \in Seq(Items(who)) /\ todo # <<>> /\ Tail(todo) \in Seq(Items(who))
           /\ todo = <<Work>> \o Tail(todo)
<1>1. who \in {"C", "C#"} /\ todo \in Seq(Items(who)) /\ todo # <<>> /\ writer = who
  BY DEF BufferInv, Chosen, Written, Writes
<1>2. Work \in Items(who) /\ Tail(todo) \in Seq(Items(who)) /\ todo = <<Work>> \o Tail(todo)
  BY <1>1 DEF Work
<1>3. Work.f \in Fields
  <2>1. CASE who = "C"
    BY <1>2, <2>1, ItemFacts DEF Items
  <2>2. CASE who # "C"
    BY <1>2, <2>2, ItemFacts DEF Items
  <2>3. QED
    BY <2>1, <2>2
<1>4. QED
  BY <1>1, <1>2, <1>3

\* A writer only changes what it writes.
LEMMA WriterKeeps ==
    ASSUME BufferInv, Unchanging,
           todo' \in Seq(Items(writer)), buf' \in Bytes, Len(buf') <= room
    PROVE  BufferInv'
<1>1. /\ UNCHANGED <<fixed_mode, big_endian, struct, writer, message, room>>
      /\ UNCHANGED <<wire, intact>>
      /\ UNCHANGED <<fields, pos, out, rstatus, filled>>
  BY DEF Unchanging, choice, line, reading
<1>2. Chosen'
  BY <1>1 DEF BufferInv, Chosen
<1>3. Written'
  BY <1>1 DEF BufferInv, Written
<1>4. IsRead'
  <2>1. \A r \in Readers : Span(r)' = Span(r)
    BY <1>1 DEF Span
  <2>2. QED
    BY <1>1, <2>1 DEF BufferInv, IsRead, Fits
<1>5. QED
  BY <1>2, <1>3, <1>4 DEF BufferInv

\* An item is taken apart, written, or written in part or not at all.
LEMMA ExpandsKeeps ==
    ASSUME BufferInv, NEW who, Writes(who), Unchanging,
           NEW items \in Seq(Items(who)), Expands(items)
    PROVE  BufferInv'
<1>1. Tail(todo) \in Seq(Items(who)) /\ writer = who
  BY NextItem
<1>2. todo' = items \o Tail(todo) /\ buf' = buf
  BY DEF Expands, Replace
<1>3. todo' \in Seq(Items(writer))
  BY <1>1, <1>2, Concatenated
<1>4. buf \in Bytes /\ Len(buf) <= room
  BY DEF BufferInv, Written
<1>5. QED
  BY <1>2, <1>3, <1>4, WriterKeeps

LEMMA EmittedKeeps ==
    ASSUME BufferInv, NEW who, Writes(who), Unchanging,
           NEW bytes \in Bytes, Len(buf) + Len(bytes) <= room, Emitted(bytes)
    PROVE  BufferInv'
<1>1. Tail(todo) \in Seq(Items(who)) /\ writer = who
  BY NextItem
<1>2. todo' = Tail(todo) /\ buf' = buf \o bytes
  BY DEF Emitted
<1>3. buf' \in Bytes /\ Len(buf') = Len(buf) + Len(bytes)
  BY <1>2, Concatenated DEF BufferInv, Written, Bytes
<1>4. QED
  BY <1>1, <1>2, <1>3, WriterKeeps

LEMMA GivesUpKeeps ==
    ASSUME BufferInv, Unchanging, NEW status, GivesUp(status),
           NEW bytes \in Bytes, Len(buf) + Len(bytes) <= room, buf' \in {buf, buf \o bytes}
    PROVE  BufferInv'
<1>1. todo' = <<>> /\ <<>> \in Seq(Items(writer))
  BY DEF GivesUp
<1>2. buf \in Bytes /\ Len(buf) <= room
  BY DEF BufferInv, Written
<1>3. buf \o bytes \in Bytes /\ Len(buf \o bytes) = Len(buf) + Len(bytes)
  BY <1>2, Concatenated DEF Bytes
<1>4. buf' \in Bytes /\ Len(buf') <= room
  BY <1>2, <1>3
<1>5. QED
  BY <1>1, <1>4, WriterKeeps

LEMMA CWriteArrayKeeps ==
    ASSUME BufferInv, CWriteArray
    PROVE  BufferInv'
<1>1. /\ Writes("C") /\ IsArray(Work.f) /\ Expands(Elements(Work.f, Work.v)) /\ Unchanging
  BY DEF CWriteArray
<1>2. Work \in CItems /\ Work.f \in Fields
  BY <1>1, NextItem DEF Items
<1>3. Work.v \in CValues(Work.f)
  BY <1>2, ItemFacts
<1>4. Elements(Work.f, Work.v) \in Seq(CItems)
  BY <1>1, <1>2, <1>3, ArrayValues, ElementItems
<1>5. Elements(Work.f, Work.v) \in Seq(Items("C"))
  BY <1>4 DEF Items
<1>6. QED
  BY <1>1, <1>5, ExpandsKeeps

\* A length, and as many elements as the text has.
LEMMA TextItems ==
    ASSUME NEW f \in Fields, field_is_string(f), NEW v \in CValues(f)
    PROVE  /\ TextOf(v) \in Seq(Int) /\ Len(TextOf(v)) \in Nat
           /\ Len(TextOf(v)) <= f.array_len
           /\ Item(Prefix(f), Len(TextOf(v))) \in CItems
           /\ Elements(f, TextOf(v)) \in Seq(CItems)
           /\ Len(Elements(f, TextOf(v))) = Len(TextOf(v))
<1>1. IsArray(f) /\ ~IsStruct(f)
  BY StringTypes
<1>2. CValues(Element(f)) = Int /\ v \in Seq(Int) /\ Len(v) = f.array_len
  BY <1>1, ArrayValues
<1>3. TextOf(v) \in Seq(Int) /\ Len(TextOf(v)) \in Nat /\ Len(TextOf(v)) <= f.array_len
  BY <1>2, TextFacts
<1>4. Prefix(f) \in Fields /\ ~IsArray(Prefix(f)) /\ ~IsStruct(Prefix(f))
  BY PrefixTypes
<1>5. CValues(Prefix(f)) = Int
  BY <1>4 DEF CValues
<1>6. Item(Prefix(f), Len(TextOf(v))) \in CItems
  BY <1>3, <1>4, <1>5, ItemFacts
<1>7. Elements(f, TextOf(v)) \in Seq(CItems) /\ Len(Elements(f, TextOf(v))) = Len(TextOf(v))
  BY <1>2, <1>3, ElementItems
<1>8. QED
  BY <1>3, <1>6, <1>7

LEMMA CWriteStringKeeps ==
    ASSUME BufferInv, CWriteString
    PROVE  BufferInv'
<1> DEFINE f == Work.f
           text == TextOf(Work.v)
           items == <<Item(Prefix(f), Len(text))>> \o Elements(f, text)
<1>1. Writes("C") /\ field_is_string(f) /\ Expands(items) /\ Unchanging
  BY DEF CWriteString
<1>2. Work \in CItems /\ f \in Fields
  BY <1>1, NextItem DEF Items
<1>3. Work.v \in CValues(f)
  BY <1>2, ItemFacts
<1>4. Item(Prefix(f), Len(text)) \in CItems /\ Elements(f, text) \in Seq(CItems)
  BY <1>1, <1>2, <1>3, TextItems
<1>5. <<Item(Prefix(f), Len(text))>> \in Seq(CItems)
  BY <1>4
<1>6. items \in Seq(Items("C"))
  BY <1>4, <1>5, Concatenated DEF Items
<1>7. QED
  BY <1>1, <1>6, ExpandsKeeps

LEMMA CWriteStructKeeps ==
    ASSUME BufferInv, CWriteStruct
    PROVE  BufferInv'
<1>1. /\ Writes("C") /\ ~IsArray(Work.f) /\ IsStruct(Work.f) /\ Unchanging
      /\ Expands(FieldsOf(Work.f.wire_type, Work.v))
  BY DEF CWriteStruct
<1>2. Work \in CItems /\ Work.f \in Fields
  BY <1>1, NextItem DEF Items
<1>3. Work.v \in CValues(Work.f)
  BY <1>2, ItemFacts
<1>4. Work.v \in CMessages[Work.f.wire_type] /\ Work.f.wire_type \in DOMAIN Structs
  BY <1>1, <1>3 DEF CValues, IsStruct
<1>5. FieldsOf(Work.f.wire_type, Work.v) \in Seq(Items("C"))
  BY <1>4, FieldItems DEF Items
<1>6. QED
  BY <1>1, <1>5, ExpandsKeeps

LEMMA CWriteScalarKeeps ==
    ASSUME BufferInv, CWriteScalar
    PROVE  BufferInv'
<1> DEFINE f == Work.f
           bytes == buffers_write(Work.v, CType(f), big_endian)
<1>1. Writes("C") /\ ~IsArray(f) /\ ~IsStruct(f) /\ Unchanging
  BY DEF CWriteScalar
<1>2. Work \in CItems /\ f \in Fields
  BY <1>1, NextItem DEF Items
<1>3. Work.v \in CValues(f)
  BY <1>2, ItemFacts
<1>4. Work.v \in Int
  BY <1>1, <1>3 DEF CValues
<1>5. bytes \in Bytes /\ Len(bytes) \in Nat
  <2>1. bytes \in Bytes
    BY <1>1, <1>2, <1>4, CTypes, WriteBytes
  <2>2. QED
    BY <2>1 DEF Bytes
<1>6. \/ Len(buf) + Len(bytes) <= room /\ Emitted(bytes)
      \/ /\ Len(buf) + Len(bytes) > room
         /\ buf' = buf \o SubSeq(bytes, 1, room - Len(buf)) /\ GivesUp("failed")
  BY DEF CWriteScalar
<1> HIDE DEF bytes
<1>7. CASE Len(buf) + Len(bytes) <= room /\ Emitted(bytes)
  BY <1>1, <1>5, <1>7, EmittedKeeps
<1>8. CASE /\ Len(buf) + Len(bytes) > room
           /\ buf' = buf \o SubSeq(bytes, 1, room - Len(buf)) /\ GivesUp("failed")
  <2> DEFINE n == room - Len(buf)
             part == SubSeq(bytes, 1, n)
  <2>1. buf \in Bytes /\ Len(buf) \in Nat /\ Len(buf) <= room /\ room \in Nat
    BY DEF BufferInv, Chosen, Written, Bytes
  <2>2. n \in Nat /\ 0 + n <= Len(bytes) /\ 0 + n = n /\ 0 + 1 = 1 /\ 0 \in Nat
    BY <1>5, <1>8, <2>1
  <2> HIDE DEF n
  <2>3. part \in Bytes /\ Len(part) = n
    BY <1>5, <2>2, SliceFacts DEF Bytes
  <2>4. Len(buf) + Len(part) <= room
    BY <2>1, <2>3 DEF n
  <2>5. buf' = buf \o part
    BY <1>8 DEF n
  <2> HIDE DEF part
  <2>6. QED
    BY <1>1, <1>8, <2>3, <2>4, <2>5, GivesUpKeeps
<1>9. QED
  BY <1>6, <1>7, <1>8

LEMMA CsEmitKeeps ==
    ASSUME BufferInv, Writes("C#"), Unchanging, NEW bytes \in Bytes, CsEmit(bytes)
    PROVE  BufferInv'
<1>1. CASE Len(buf) + Len(bytes) <= room /\ Emitted(bytes)
  BY <1>1, EmittedKeeps
<1>2. CASE GivesUp("failed") /\ UNCHANGED buf
  <2>1. <<>> \in Bytes /\ Len(buf) + Len(<<>>) <= room /\ buf' = buf
    BY <1>2 DEF BufferInv, Written, Bytes
  <2>2. QED
    BY <1>2, <2>1, GivesUpKeeps
<1>3. QED
  BY <1>1, <1>2 DEF CsEmit

LEMMA CsGivesUpKeeps ==
    ASSUME BufferInv, Unchanging, NEW status, GivesUp(status), UNCHANGED buf
    PROVE  BufferInv'
<1>1. <<>> \in Bytes /\ Len(buf) + Len(<<>>) <= room /\ buf' = buf
  BY DEF BufferInv, Written, Bytes
<1>2. QED
  BY <1>1, GivesUpKeeps

\* The bytes of the characters of a string: of char[n] at most n characters, of wchar_t[n]
\* two bytes for each; and the length before them.
UnitBytes(v, n) ==
    FlattenSeq([i \in 1 .. Len(Cut(v, n)) |-> bp_write(v[i], "int16_t", big_endian)])

LEMMA UnitBytesFacts ==
    ASSUME NEW v \in Seq(Nat), NEW n \in Nat, big_endian \in BOOLEAN
    PROVE  /\ UnitBytes(v, n) \in Bytes /\ Len(UnitBytes(v, n)) = 2 * Len(Cut(v, n))
           /\ Len(Cut(v, n)) \in Nat /\ Len(Cut(v, n)) <= n
<1> DEFINE k == Len(Cut(v, n))
           unit(i) == bp_write(v[i], "int16_t", big_endian)
           ss == [i \in 1 .. k |-> unit(i)]
<1>1. k \in Nat /\ k <= n /\ k <= Len(v)
  BY CutFacts
<1>2. "int16_t" \in WireType /\ WIRE_TYPE_SIZES["int16_t"] = 2
  BY DEF WireType, WIRE_TYPE_SIZES
<1> HIDE DEF k
<1>3. ASSUME NEW i \in 1 .. k
      PROVE  unit(i) \in Bytes /\ Len(unit(i)) = 2
  <2>1. i \in 1 .. Len(v)
    BY <1>1
  <2>2. v[i] \in Int
    BY <2>1, ElementOfSeq
  <2>3. QED
    BY <1>2, <2>2, BpWriteBytes
<1> HIDE DEF unit
<1>4. ss \in Seq(Bytes) /\ Len(ss) = k /\ \A i \in 1 .. Len(ss) : Len(ss[i]) = 2
  BY <1>1, <1>3
<1>5. UnitBytes(v, n) = FlattenSeq(ss)
  BY DEF UnitBytes, unit, k
<1> HIDE DEF ss
<1>6. FlattenSeq(ss) \in Seq(Byte) /\ Len(FlattenSeq(ss)) = 2 * Len(ss)
  BY <1>4, FlattenFacts DEF Bytes
<1>7. QED
  BY <1>1, <1>4, <1>5, <1>6 DEF Bytes, k

LEMMA PrefixBytes ==
    ASSUME NEW f, NEW count \in Int, big_endian \in BOOLEAN
    PROVE  /\ bp_write(count, Prefix(f).wire_type, big_endian) \in Bytes
           /\ Len(bp_write(count, Prefix(f).wire_type, big_endian))
                 = length_prefix_size(f.array_len)
           /\ length_prefix_size(f.array_len) \in Nat
<1>1. /\ Prefix(f).wire_type \in WireType
      /\ SizeOf(Prefix(f)) = length_prefix_size(f.array_len)
      /\ length_prefix_size(f.array_len) \in Widths
  BY PrefixTypes
<1>2. WIRE_TYPE_SIZES[Prefix(f).wire_type] = length_prefix_size(f.array_len)
  BY <1>1 DEF SizeOf
<1>3. QED
  BY <1>1, <1>2, BpWriteBytes DEF Widths

\* What C# computes of a string before it writes it.
LEMMA CsStringFacts ==
    ASSUME BufferInv, Writes("C#"), field_is_string(Work.f)
    PROVE  /\ Work.v \in Seq(Nat) /\ Work.f \in Fields /\ Work.f.array_len \in Nat
           /\ big_endian \in BOOLEAN /\ fixed_mode \in BOOLEAN
           /\ Len(buf) \in Nat /\ room \in Nat
           /\ SizeOf(Work.f) = IF is_char_array(Work.f) THEN 1 ELSE 2
           /\ Work.f.array_len * SizeOf(Work.f) \in Nat
           /\ GetBytes(Work.v) \in Bytes
           /\ GetBytes(Fitting(Work.v, Work.f.array_len)) \in Bytes
           /\ UnitBytes(Work.v, Work.f.array_len) \in Bytes
           /\ Len(UnitBytes(Work.v, Work.f.array_len)) <= 2 * Work.f.array_len
           /\ Len(UnitBytes(Work.v, Work.f.array_len)) \div 2 \in Int
<1> DEFINE f == Work.f
           n == f.array_len
<1>1. Work \in CsItems /\ f \in Fields
  BY NextItem DEF Items
<1>2. IsArray(f) /\ ~IsStruct(f) /\ n \in Nat
  BY <1>1, StringTypes
<1>3. SizeOf(f) = IF is_char_array(f) THEN 1 ELSE 2
  BY <1>1, StringTypes
<1>4. Work.fill = FALSE
  BY <1>1, <1>2, ItemFacts
<1>5. Work.v \in Seq(Nat)
  BY <1>1, <1>2, <1>4, ItemFacts, ArrayValues
<1>6. /\ big_endian \in BOOLEAN /\ fixed_mode \in BOOLEAN
      /\ Len(buf) \in Nat /\ room \in Nat
  BY DEF BufferInv, Chosen, Written, Bytes
<1>7. GetBytes(Work.v) \in Bytes /\ GetBytes(Fitting(Work.v, n)) \in Bytes
  BY <1>2, <1>5, FittingFacts, GetBytesFacts
<1> DEFINE units == UnitBytes(Work.v, n)
           k == Len(Cut(Work.v, n))
<1>8. units \in Bytes /\ Len(units) = 2 * k /\ k \in Nat /\ k <= n
  BY <1>2, <1>5, <1>6, UnitBytesFacts
<1>9. n * SizeOf(f) \in Nat
  BY <1>2, <1>3
<1>10. Len(units) <= 2 * n /\ Len(units) \div 2 \in Int
  <2> HIDE DEF units, k, n
  <2>1. QED
    BY <1>2, <1>8 DEF n
<1>11. QED
  BY <1>1, <1>2, <1>3, <1>5, <1>6, <1>7, <1>8, <1>9, <1>10

LEMMA CsWriteStringKeeps ==
    ASSUME BufferInv, CsWriteString
    PROVE  BufferInv'
<1> DEFINE f == Work.f
           n == f.array_len
           units == UnitBytes(Work.v, n)
           encoded == IF is_char_array(f) THEN GetBytes(Fitting(Work.v, n)) ELSE units
           bytes == IF is_char_array(f) THEN GetBytes(Work.v) ELSE units
           count == IF is_char_array(f) THEN Min({Len(bytes), n}) ELSE Len(units) \div 2
           prefix == bp_write(count, Prefix(f).wire_type, big_endian)
           padded == PaddedWith(0, encoded, n * SizeOf(f))
<1>1. Writes("C#") /\ field_is_string(f) /\ Unchanging
  BY DEF CsWriteString
<1>2. \/ CsEmit(padded)
      \/ \E status : GivesUp(status) /\ UNCHANGED buf
      \/ CsEmit(prefix \o bytes)
      \/ /\ Len(buf) + Len(prefix) + n <= room
         /\ buf' = buf \o prefix /\ GivesUp("thrown")
  BY DEF CsWriteString, UnitBytes
<1>3. /\ encoded \in Bytes /\ bytes \in Bytes /\ n \in Nat /\ n * SizeOf(f) \in Nat
      /\ big_endian \in BOOLEAN /\ Len(buf) \in Nat /\ room \in Nat
  BY <1>1, CsStringFacts
<1>4. count \in Int
  <2>1. Len(bytes) \in Int /\ n \in Int
    BY <1>3 DEF Bytes
  <2>2. Min({Len(bytes), n}) \in Int
    <3> HIDE DEF bytes, n
    <3>1. Min({Len(bytes), n}) \in {Len(bytes), n}
      BY <2>1, MinOfTwo
    <3>2. QED
      BY <2>1, <3>1
  <2>3. QED
    BY <1>1, <2>2, CsStringFacts
<1> HIDE DEF encoded, bytes, count
<1>5. prefix \in Bytes /\ Len(prefix) \in Nat
  BY <1>3, <1>4, PrefixBytes DEF Bytes
<1>6. padded \in Bytes
  <2>1. 0 \in Byte
    BY ByteBaseAssumption DEF Byte
  <2>2. QED
    BY <1>3, <2>1, PaddedFacts DEF Bytes
<1>7. prefix \o bytes \in Bytes
  BY <1>3, <1>5, Concatenated DEF Bytes
<1> HIDE DEF prefix, padded
<1>8. CASE CsEmit(padded)
  BY <1>1, <1>6, <1>8, CsEmitKeeps
<1>9. CASE CsEmit(prefix \o bytes)
  BY <1>1, <1>7, <1>9, CsEmitKeeps
<1>10. CASE \E status : GivesUp(status) /\ UNCHANGED buf
  BY <1>1, <1>10, CsGivesUpKeeps
<1>11. CASE /\ Len(buf) + Len(prefix) + n <= room
            /\ buf' = buf \o prefix /\ GivesUp("thrown")
  <2>1. Len(buf) + Len(prefix) <= room
    BY <1>3, <1>5, <1>11
  <2>2. QED
    BY <1>1, <1>5, <1>11, <2>1, GivesUpKeeps
<1>12. QED
  BY <1>2, <1>8, <1>9, <1>10, <1>11

\* A list of structs: elements, and slots.
LEMMA ListItems ==
    ASSUME BufferInv, Writes("C#"), IsArray(Work.f), IsStruct(Work.f)
    PROVE  LET f == Work.f
               count == Min({Len(Work.v), f.array_len})
               some == Elements(f, Cut(Work.v, count))
               slots == [i \in 1 .. f.array_len - count |-> Slot(Element(f))]
           IN  /\ f \in Fields /\ f.array_len \in Nat
               /\ some \in Seq(CsItems) /\ slots \in Seq(CsItems)
               /\ Len(some) + Len(slots) = f.array_len
<1> DEFINE f == Work.f
           count == Min({Len(Work.v), f.array_len})
           cut == Cut(Work.v, count)
           some == Elements(f, cut)
           slots == [i \in 1 .. f.array_len - count |-> Slot(Element(f))]
<1>1. Work \in CsItems /\ f \in Fields
  BY NextItem DEF Items
<1>2. f.array_len \in Nat /\ ~field_is_string(f)
  BY <1>1, FieldTypes, StringTypes
<1>3. Work.fill = FALSE
  BY <1>1, ItemFacts
<1>4. Work.v \in Seq(CsValues(Element(f)))
  BY <1>1, <1>2, <1>3, ItemFacts, ArrayValues
<1>5. Len(Work.v) \in Nat
  BY <1>4
<1> DEFINE m == f.array_len
<1>6. count \in Nat /\ count <= m /\ count <= Len(Work.v)
  <2>1. Len(Work.v) \in Int /\ m \in Int
    BY <1>2, <1>5
  <2>2. count \in {Len(Work.v), m} /\ count <= m /\ count <= Len(Work.v)
    BY <2>1, MinOfTwo, Zenon
  <2> HIDE DEF count, m
  <2>3. m \in Nat
    BY <1>2 DEF m
  <2>4. QED
    BY <1>5, <2>2, <2>3
<1> HIDE DEF count
<1>7. cut \in Seq(CsValues(Element(f))) /\ Len(cut) = count
  <2>1. /\ cut \in Seq(CsValues(Element(f))) /\ Len(cut) \in Nat /\ Len(cut) <= count
        /\ Len(cut) = count \/ Len(cut) = Len(Work.v)
    BY <1>4, <1>6, CutFacts
  <2> HIDE DEF cut
  <2>2. QED
    BY <1>5, <1>6, <2>1
<1> HIDE DEF cut
<1>8. some \in Seq(CsItems) /\ Len(some) = count
  BY <1>1, <1>7, ElementItems
<1>9. Element(f) \in Fields /\ IsStruct(Element(f)) /\ ~IsArray(Element(f))
  BY <1>1, ElementTypes
<1>10. Slot(Element(f)) \in CsItems
  BY <1>9, ItemFacts
<1>11. m - count \in Nat
  BY <1>2, <1>6
<1>12. slots \in Seq(CsItems) /\ Len(slots) = m - count
  BY <1>10, <1>11, RepeatedFacts
<1> HIDE DEF some, slots
<1>13. Len(some) + Len(slots) = m
  BY <1>2, <1>6, <1>8, <1>12
<1>14. QED
  BY <1>1, <1>2, <1>8, <1>12, <1>13 DEF some, slots, count, cut

\* A slot is of a struct.
LEMMA FillItem ==
    ASSUME BufferInv, Writes("C#"), Work.fill
    PROVE  /\ Work.f \in Fields /\ IsStruct(Work.f) /\ ~IsArray(Work.f)
           /\ Work.f.wire_type \in DOMAIN Structs
<1>1. Work \in CsItems
  BY NextItem DEF Items
<1>2. Work.fill = TRUE
  <2>1. Work.fill \in BOOLEAN
    BY <1>1, ItemFacts
  <2>2. QED
    BY <2>1, Zenon
<1>3. QED
  BY <1>1, <1>2, ItemFacts DEF IsStruct

LEMMA PaddedItems ==
    ASSUME BufferInv, Writes("C#"), IsArray(Work.f), ~IsStruct(Work.f), ~field_is_string(Work.f)
    PROVE  LET padded == PaddedWith(0, Work.v, Work.f.array_len)
           IN  /\ Work.f \in Fields /\ Work.f.array_len \in Nat
               /\ Elements(Work.f, padded) \in Seq(CsItems)
               /\ Len(Elements(Work.f, padded)) = Work.f.array_len
<1> DEFINE f == Work.f
           padded == PaddedWith(0, Work.v, f.array_len)
<1>1. Work \in CsItems /\ f \in Fields
  BY NextItem DEF Items
<1>2. f.array_len \in Nat /\ Work.fill = FALSE
  BY <1>1, FieldTypes, ItemFacts
<1>3. CsValues(Element(f)) = Int
  BY <1>1, ArrayValues
<1>4. Work.v \in Seq(Int)
  BY <1>1, <1>2, <1>3, ItemFacts, ArrayValues
<1>5. padded \in Seq(Int) /\ Len(padded) = f.array_len
  <2> DEFINE n == f.array_len
             v == Work.v
  <2>1. 0 \in Int /\ n \in Nat /\ v \in Seq(Int)
    BY <1>2, <1>4
  <2> HIDE DEF n, v
  <2>2. PaddedWith(0, v, n) \in Seq(Int) /\ Len(PaddedWith(0, v, n)) = n
    BY <2>1, PaddedFacts, ZenonT(40)
  <2>3. QED
    BY <2>2 DEF n, v
<1>6. Elements(f, padded) \in Seq(CsItems) /\ Len(Elements(f, padded)) = f.array_len
  BY <1>1, <1>3, <1>5, ElementItems
<1>7. QED
  BY <1>1, <1>2, <1>6

LEMMA NestedItems ==
    ASSUME BufferInv, Writes("C#"), ~IsArray(Work.f), IsStruct(Work.f), ~Work.fill, Work.v # <<>>
    PROVE  /\ Work.f \in Fields /\ Work.f.wire_type \in DOMAIN Structs
           /\ Work.v[1] \in CsMessages[Work.f.wire_type]
           /\ FieldsOf(Work.f.wire_type, Work.v[1]) \in Seq(CsItems)
<1> DEFINE f == Work.f
<1>1. Work \in CsItems /\ f \in Fields /\ f.wire_type \in DOMAIN Structs
  BY NextItem DEF Items, IsStruct
<1>2. Work.fill = FALSE
  <2>1. Work.fill \in BOOLEAN
    BY <1>1, ItemFacts
  <2>2. QED
    BY <2>1, Zenon
<1>3. Work.v \in CsValues(f)
  BY <1>1, <1>2, ItemFacts
<1>4. Work.v \in {<<>>} \cup {<<m>> : m \in CsMessages[f.wire_type]}
  BY <1>3 DEF CsValues
<1>5. PICK m \in CsMessages[f.wire_type] : Work.v = <<m>>
  BY <1>4
<1>6. Work.v[1] \in CsMessages[f.wire_type]
  BY <1>5
<1>7. QED
  BY <1>1, <1>6, FieldItems

LEMMA CsScalarBytes ==
    ASSUME BufferInv, Writes("C#"), ~IsArray(Work.f), ~IsStruct(Work.f)
    PROVE  /\ Work.f \in Fields
           /\ CsWrite(Work.v, Work.f, big_endian) \in Bytes
           /\ Len(CsWrite(Work.v, Work.f, big_endian)) = SizeOf(Work.f)
<1>1. Work \in CsItems /\ Work.f \in Fields
  BY NextItem DEF Items
<1>2. Work.fill = FALSE
  BY <1>1, ItemFacts
<1>3. Work.v \in CsValues(Work.f)
  BY <1>1, <1>2, ItemFacts
<1>4. ~field_is_string(Work.f)
  BY DEF field_is_string
<1>5. Work.v \in Int
  BY <1>3, <1>4 DEF CsValues
<1>6. Work.f.wire_type \in WireType
  BY <1>1, FieldTypes
<1>7. QED
  BY <1>1, <1>5, <1>6, CsWriteBytes DEF SizeOf

LEMMA CsWriteListKeeps ==
    ASSUME BufferInv, CsWriteList
    PROVE  BufferInv'
<1> DEFINE f == Work.f
           count == Min({Len(Work.v), f.array_len})
           some == Elements(f, Cut(Work.v, count))
           slots == [i \in 1 .. f.array_len - count |-> Slot(Element(f))]
<1>1. Writes("C#") /\ IsArray(f) /\ IsStruct(f) /\ Unchanging /\ Expands(some \o slots)
  BY DEF CsWriteList, Slot
<1>2. some \in Seq(CsItems) /\ slots \in Seq(CsItems)
  BY <1>1, ListItems
<1>3. some \o slots \in Seq(Items("C#"))
  BY <1>2, Concatenated DEF Items
<1>4. QED
  BY <1>1, <1>3, ExpandsKeeps

LEMMA CsFillKeeps ==
    ASSUME BufferInv, CsFill
    PROVE  BufferInv'
<1> DEFINE n == StructMaxSize(Work.f.wire_type)
           zeros == [i \in 1 .. n |-> 0]
<1>1. Writes("C#") /\ Work.fill /\ Unchanging
  BY DEF CsFill
<1>2. \/ Len(buf) + n <= room /\ Emitted(zeros)
      \/ GivesUp("thrown") /\ UNCHANGED buf
  BY DEF CsFill
<1>3. Work.f.wire_type \in DOMAIN Structs
  BY <1>1, FillItem
<1>4. n \in Nat
  BY <1>3, MaxSizes DEF BufferInv, Chosen
<1> HIDE DEF n
<1>5. zeros \in Bytes /\ Len(zeros) = n
  <2>1. 0 \in Byte
    BY ByteBaseAssumption DEF Byte
  <2>2. QED
    BY <1>4, <2>1, RepeatedFacts DEF Bytes
<1> HIDE DEF zeros
<1>6. CASE Len(buf) + n <= room /\ Emitted(zeros)
  BY <1>1, <1>5, <1>6, EmittedKeeps
<1>7. CASE GivesUp("thrown") /\ UNCHANGED buf
  BY <1>1, <1>7, CsGivesUpKeeps
<1>8. QED
  BY <1>2, <1>6, <1>7

LEMMA CsWriteArrayKeeps ==
    ASSUME BufferInv, CsWriteArray
    PROVE  BufferInv'
<1> DEFINE f == Work.f
           padded == PaddedWith(0, Work.v, f.array_len)
<1>1. /\ Writes("C#") /\ IsArray(f) /\ ~IsStruct(f) /\ ~field_is_string(f) /\ Unchanging
      /\ Expands(Elements(f, padded))
  BY DEF CsWriteArray
<1>2. Elements(f, padded) \in Seq(CsItems)
  BY <1>1, PaddedItems
<1>3. QED
  BY <1>1, <1>2, ExpandsKeeps DEF Items

LEMMA CsWriteStructKeeps ==
    ASSUME BufferInv, CsWriteStruct
    PROVE  BufferInv'
<1> DEFINE f == Work.f
           items == FieldsOf(f.wire_type, Work.v[1])
<1>1. Writes("C#") /\ ~IsArray(f) /\ IsStruct(f) /\ ~Work.fill /\ Unchanging
  BY DEF CsWriteStruct
<1>2. \/ Work.v # <<>> /\ Expands(items)
      \/ GivesUp("null") /\ UNCHANGED buf
  BY DEF CsWriteStruct
<1>3. CASE Work.v # <<>> /\ Expands(items)
  <2>1. items \in Seq(CsItems)
    BY <1>1, <1>3, NestedItems
  <2>2. items \in Seq(Items("C#"))
    BY <2>1 DEF Items
  <2>3. QED
    BY <1>1, <1>3, <2>2, ExpandsKeeps
<1>4. CASE GivesUp("null") /\ UNCHANGED buf
  BY <1>1, <1>4, CsGivesUpKeeps
<1>5. QED
  BY <1>2, <1>3, <1>4

LEMMA CsWriteScalarKeeps ==
    ASSUME BufferInv, CsWriteScalar
    PROVE  BufferInv'
<1> DEFINE bytes == CsWrite(Work.v, Work.f, big_endian)
<1>1. Writes("C#") /\ ~IsArray(Work.f) /\ ~IsStruct(Work.f) /\ Unchanging /\ CsEmit(bytes)
  BY DEF CsWriteScalar
<1>2. bytes \in Bytes
  BY <1>1, CsScalarBytes
<1>3. QED
  BY <1>1, <1>2, CsEmitKeeps

LEMMA WriteEndsKeeps ==
    ASSUME BufferInv, WriteEnds
    PROVE  BufferInv'
<1>1. Unchanging /\ todo' = todo /\ buf' = buf
  BY DEF WriteEnds, Unchanging
<1>2. todo \in Seq(Items(writer)) /\ buf \in Bytes /\ Len(buf) <= room
  BY DEF BufferInv, Written
<1>3. QED
  BY <1>1, <1>2, WriterKeeps

\* What is sent comes before anything is read.
LEMMA SentKeeps ==
    ASSUME BufferInv, NEW b \in Bytes, NEW how, how # "unsent", Sent(b, how)
    PROVE  BufferInv'
<1>1. /\ UNCHANGED <<fixed_mode, big_endian, struct, writer, message, room>>
      /\ UNCHANGED <<todo, buf>> /\ UNCHANGED <<fields, pos, out, filled>>
      /\ wire' = b /\ intact' = how /\ intact = "unsent"
      /\ rstatus' = [r \in Readers |-> "reading"]
  BY DEF Sent, choice, writing
<1>2. Chosen'
  BY <1>1 DEF BufferInv, Chosen
<1>3. Written'
  BY <1>1 DEF BufferInv, Written
<1>4. IsRead'
  <2>1. \A r \in Readers : pos[r] = 0
    BY <1>1 DEF BufferInv, Written
  <2>2. \A r \in Readers : Len(Span(r)') \in Nat
    BY <1>1 DEF BufferInv, IsRead, Span, Bytes
  <2>3. \A r \in Readers : pos'[r] <= Len(Span(r)')
    BY <1>1, <2>1, <2>2
  <2>4. rstatus' \in [Readers -> Status]
    BY <1>1 DEF Status
  <2>5. /\ fields' \in [Readers -> Seq(Fields)] /\ pos' \in [Readers -> Nat]
        /\ out' \in [Readers -> Seq(Leaf)] /\ filled' \in Bytes
        /\ \A r \in Readers : \A i \in DOMAIN out'[r] : Fits(r, out'[r][i])
    BY <1>1 DEF BufferInv, IsRead
  <2>6. QED
    BY <2>3, <2>4, <2>5 DEF IsRead, Fits
<1>5. QED
  BY <1>2, <1>3, <1>4 DEF BufferInv

LEMMA DeliveryKeeps ==
    ASSUME BufferInv, Deliver \/ DeliverCut \/ DeliverChanged
    PROVE  BufferInv'
<1>1. buf \in Bytes /\ Len(buf) \in Nat
  BY DEF BufferInv, Written, Bytes
<1>2. CASE Deliver
  BY <1>1, <1>2, SentKeeps DEF Deliver
<1>3. CASE DeliverCut
  <2>1. PICK n \in 0 .. Len(buf) - 1 : Sent(SubSeq(buf, 1, n), "cut")
    BY <1>3 DEF DeliverCut
  <2>2. n \in Nat /\ 0 \in Nat /\ 0 + n <= Len(buf) /\ 0 + n = n /\ 0 + 1 = 1
    BY <1>1
  <2>3. SubSeq(buf, 0 + 1, 0 + n) \in Bytes
    BY <1>1, <2>2, SliceFacts DEF Bytes
  <2>4. SubSeq(buf, 1, n) \in Bytes
    BY <2>2, <2>3
  <2>5. QED
    BY <2>1, <2>4, SentKeeps
<1>4. CASE DeliverChanged
  <2>1. PICK i \in DOMAIN buf : \E b \in Byte : Sent([buf EXCEPT ![i] = b], "changed")
    BY <1>4 DEF DeliverChanged
  <2>2. PICK b \in Byte : Sent([buf EXCEPT ![i] = b], "changed")
    BY <2>1
  <2>3. [buf EXCEPT ![i] = b] \in Bytes
    BY <1>1 DEF Bytes
  <2>4. QED
    BY <2>2, <2>3, SentKeeps
<1>5. QED
  BY <1>2, <1>3, <1>4

-----------------------------------------------------------------------------
(***************************************************************************)
(* Every statement of a reader keeps to the bytes it is given.             *)
(***************************************************************************)

\* The field that is next, and the bytes before it.
LEMMA NextField ==
    ASSUME BufferInv, NEW r \in Readers, Turn(r)
    PROVE  /\ pos[r] \in Nat /\ Span(r) \in Bytes /\ Len(Span(r)) \in Nat
           /\ pos[r] <= Len(Span(r)) /\ Left(r) \in Nat /\ pos[r] + Left(r) = Len(Span(r))
           /\ intact # "unsent" /\ big_endian \in BOOLEAN /\ fixed_mode \in BOOLEAN
           /\ fields[r] \in Seq(Fields)
           /\ fields[r] # <<>> => Field(r) \in Fields /\ Tail(fields[r]) \in Seq(Fields)
<1>1. pos[r] \in Nat /\ pos[r] <= Len(Span(r)) /\ fields[r] \in Seq(Fields)
  BY DEF BufferInv, IsRead
<1>2. Span(r) \in Bytes /\ Len(Span(r)) \in Nat
  BY DEF BufferInv, Written, IsRead, Span, Bytes
<1>3. Left(r) \in Nat /\ pos[r] + Left(r) = Len(Span(r))
  BY <1>1, <1>2 DEF Left
<1>4. intact # "unsent"
  BY DEF Turn, BufferInv, Written
<1>5. fields[r] # <<>> => Field(r) \in Fields /\ Tail(fields[r]) \in Seq(Fields)
  BY <1>1 DEF Field
<1>6. QED
  BY <1>1, <1>2, <1>3, <1>4, <1>5 DEF BufferInv, Chosen

\* The bytes ahead of a reader.
LEMMA AheadFacts ==
    ASSUME BufferInv, NEW r \in Readers, Turn(r), NEW i \in Nat, NEW n \in Nat, i + n <= Left(r)
    PROVE  Ahead(r, i, n) \in Bytes /\ Len(Ahead(r, i, n)) = n
<1>1. /\ pos[r] \in Nat /\ Span(r) \in Seq(Byte) /\ Left(r) \in Nat
      /\ pos[r] + Left(r) = Len(Span(r))
  BY NextField DEF Bytes
<1> DEFINE k == pos[r] + i
           b == Span(r)
<1>2. k \in Nat /\ k + n <= Len(b) /\ b \in Seq(Byte)
  BY <1>1
<1>3. Ahead(r, i, n) = SubSeq(b, k + 1, k + n)
  BY DEF Ahead
<1> HIDE DEF k, b
<1>4. SubSeq(b, k + 1, k + n) \in Seq(Byte) /\ Len(SubSeq(b, k + 1, k + n)) = n
  BY <1>2, SliceFacts
<1>5. QED
  BY <1>3, <1>4 DEF Bytes

\* A reader only changes what it reads.
LEMMA ReaderKeeps ==
    ASSUME BufferInv, NEW r \in Readers, Turn(r), StillReading,
           fields' \in [Readers -> Seq(Fields)], pos' \in [Readers -> Nat],
           out' \in [Readers -> Seq(Leaf)], rstatus' \in [Readers -> Status],
           \A q \in Readers : /\ pos'[q] <= Len(Span(q))
                              /\ \A i \in DOMAIN out'[q] : Fits(q, out'[q][i])
    PROVE  BufferInv'
<1>1. /\ UNCHANGED <<fixed_mode, big_endian, struct, writer, message, room>>
      /\ UNCHANGED <<todo, buf>> /\ UNCHANGED <<wire, intact>> /\ UNCHANGED filled
  BY DEF StillReading, choice, writing, line
<1>2. Chosen'
  BY <1>1 DEF BufferInv, Chosen
<1>3. Written'
  BY <1>1, NextField DEF BufferInv, Written
<1>4. IsRead'
  <2>1. \A q \in Readers : Span(q)' = Span(q)
    BY <1>1 DEF Span
  <2>2. filled' \in Bytes
    BY <1>1 DEF BufferInv, IsRead
  <2>3. QED
    BY <2>1, <2>2 DEF IsRead, Fits
<1>5. QED
  BY <1>2, <1>3, <1>4 DEF BufferInv

LEMMA OpensKeeps ==
    ASSUME BufferInv, NEW r \in Readers, Reads(r), StillReading,
           NEW fs \in Seq(Fields), Opens(r, fs)
    PROVE  BufferInv'
<1>1. Turn(r) /\ Tail(fields[r]) \in Seq(Fields)
  BY NextField DEF Reads
<1>2. /\ fields \in [Readers -> Seq(Fields)] /\ pos \in [Readers -> Nat]
      /\ out \in [Readers -> Seq(Leaf)] /\ rstatus \in [Readers -> Status]
      /\ \A q \in Readers : pos[q] <= Len(Span(q)) /\ \A i \in DOMAIN out[q] : Fits(q, out[q][i])
  BY DEF BufferInv, IsRead
<1>3. /\ fields' = [fields EXCEPT ![r] = fs \o Tail(fields[r])]
      /\ pos' = pos /\ out' = out /\ rstatus' = rstatus
  BY DEF Opens
<1>4. fs \o Tail(fields[r]) \in Seq(Fields)
  BY <1>1, Concatenated
<1>5. fields' \in [Readers -> Seq(Fields)]
  BY <1>2, <1>3, <1>4
<1>6. QED
  BY <1>1, <1>2, <1>3, <1>5, ReaderKeeps

LEMMA StopsKeeps ==
    ASSUME BufferInv, NEW r \in Readers, Turn(r), StillReading,
           NEW status \in Status, Stops(r, status)
    PROVE  BufferInv'
<1>1. /\ fields \in [Readers -> Seq(Fields)] /\ pos \in [Readers -> Nat]
      /\ out \in [Readers -> Seq(Leaf)] /\ rstatus \in [Readers -> Status]
      /\ \A q \in Readers : pos[q] <= Len(Span(q)) /\ \A i \in DOMAIN out[q] : Fits(q, out[q][i])
  BY DEF BufferInv, IsRead
<1>2. /\ fields' = [fields EXCEPT ![r] = <<>>] /\ rstatus' = [rstatus EXCEPT ![r] = status]
      /\ pos' = pos /\ out' = out
  BY DEF Stops
<1>3. fields' \in [Readers -> Seq(Fields)] /\ rstatus' \in [Readers -> Status]
  BY <1>1, <1>2
<1>4. QED
  BY <1>1, <1>2, <1>3, ReaderKeeps

LEMMA StoredKeeps ==
    ASSUME BufferInv, NEW r \in Readers, Reads(r), StillReading,
           NEW v \in Seq(Int), NEW n \in Nat, n <= Left(r), Stored(r, v, n),
           \/ r # "C" /\ HugeWide(Field(r))
           \/ Len(v) <= IF IsArray(Field(r)) THEN Field(r).array_len ELSE 1
    PROVE  BufferInv'
<1> DEFINE leaf == [f |-> Field(r), v |-> v]
<1>1. /\ Turn(r) /\ Field(r) \in Fields /\ Tail(fields[r]) \in Seq(Fields)
      /\ Left(r) \in Nat /\ pos[r] + Left(r) = Len(Span(r)) /\ pos[r] \in Nat
  BY NextField DEF Reads
<1>2. /\ fields \in [Readers -> Seq(Fields)] /\ pos \in [Readers -> Nat]
      /\ out \in [Readers -> Seq(Leaf)] /\ rstatus \in [Readers -> Status]
      /\ \A q \in Readers : pos[q] <= Len(Span(q)) /\ \A i \in DOMAIN out[q] : Fits(q, out[q][i])
  BY DEF BufferInv, IsRead
<1>3. /\ fields' = [fields EXCEPT ![r] = Tail(fields[r])]
      /\ pos' = [pos EXCEPT ![r] = pos[r] + n]
      /\ out' = [out EXCEPT ![r] = Append(out[r], leaf)] /\ rstatus' = rstatus
  BY DEF Stored
<1>4. leaf \in Leaf /\ leaf.f = Field(r) /\ leaf.v = v
  BY <1>1 DEF Leaf
<1>5. Fits(r, leaf)
  BY <1>4 DEF Fits
<1> HIDE DEF leaf
<1>6. Append(out[r], leaf) \in Seq(Leaf)
  BY <1>2, <1>4
<1>7. \A i \in DOMAIN Append(out[r], leaf) : Fits(r, Append(out[r], leaf)[i])
  <2>1. out[r] \in Seq(Leaf) /\ \A i \in DOMAIN out[r] : Fits(r, out[r][i])
    BY <1>2
  <2>2. ASSUME NEW i \in DOMAIN Append(out[r], leaf)
        PROVE  Fits(r, Append(out[r], leaf)[i])
    <3>1. \/ i \in DOMAIN out[r] /\ Append(out[r], leaf)[i] = out[r][i]
          \/ Append(out[r], leaf)[i] = leaf
      <4> DEFINE s == out[r]
      <4>1. s \in Seq(Leaf) /\ i \in DOMAIN Append(s, leaf)
        BY <2>1, <2>2
      <4> HIDE DEF s
      <4>2. DOMAIN s = 1 .. Len(s) /\ Len(s) \in Nat /\ i \in 1 .. Len(s) + 1
        BY <4>1
      <4>3. i \in 1 .. Len(s) \/ i = Len(s) + 1
        BY <4>2
      <4>4. \/ i \in DOMAIN s /\ Append(s, leaf)[i] = s[i]
            \/ Append(s, leaf)[i] = leaf
        BY <4>1, <4>2, <4>3
      <4>5. QED
        BY <4>4 DEF s
    <3>2. QED
      BY <1>5, <2>1, <3>1, Zenon
  <2>3. QED
    BY <2>2
<1>8. out' \in [Readers -> Seq(Leaf)]
  BY <1>2, <1>3, <1>6
<1>9. fields' \in [Readers -> Seq(Fields)] /\ pos' \in [Readers -> Nat]
  BY <1>1, <1>2, <1>3
<1>10. ASSUME NEW q \in Readers
       PROVE  /\ pos'[q] <= Len(Span(q))
              /\ \A i \in DOMAIN out'[q] : Fits(q, out'[q][i])
  <2>1. CASE q = r
    <3>1. pos'[q] = pos[r] + n /\ out'[q] = Append(out[r], leaf)
      BY <1>2, <1>3, <2>1
    <3>2. pos'[q] <= Len(Span(q))
      BY <1>1, <2>1, <3>1
    <3>3. QED
      BY <1>7, <2>1, <3>1, <3>2, Zenon
  <2>2. CASE q # r
    <3>1. pos'[q] = pos[q] /\ out'[q] = out[q]
      BY <1>2, <1>3, <2>2
    <3>2. QED
      BY <1>2, <3>1
  <2>3. QED
    BY <2>1, <2>2
<1>11. QED
  BY <1>1, <1>2, <1>3, <1>8, <1>9, <1>10, ReaderKeeps

LEMMA NestedKeeps ==
    ASSUME BufferInv, NEW r \in Readers, Nested(r) \/ Loop(r)
    PROVE  BufferInv'
<1>1. CASE Nested(r)
  <2>1. Reads(r) /\ StillReading /\ IsStruct(Field(r)) /\ Opens(r, Structs[Field(r).wire_type])
    BY <1>1 DEF Nested
  <2>2. Structs[Field(r).wire_type] \in Seq(Fields)
    BY <2>1, StructFields DEF IsStruct
  <2>3. QED
    BY <2>1, <2>2, OpensKeeps
<1>2. CASE Loop(r)
  <2> DEFINE fs == [i \in 1 .. Field(r).array_len |-> Element(Field(r))]
  <2>1. Reads(r) /\ StillReading /\ IsArray(Field(r)) /\ Opens(r, fs)
    BY <1>2 DEF Loop
  <2>2. Field(r) \in Fields
    BY <2>1, NextField DEF Reads
  <2>3. Field(r).array_len \in Nat /\ Element(Field(r)) \in Fields
    BY <2>1, <2>2, FieldTypes, ElementTypes
  <2>4. fs \in Seq(Fields)
    BY <2>3, RepeatedFacts
  <2>5. QED
    BY <2>1, <2>4, OpensKeeps
<1>3. QED
  BY <1>1, <1>2

LEMMA CReadScalarKeeps ==
    ASSUME BufferInv, CReadScalar
    PROVE  BufferInv'
<1> DEFINE f == Field("C")
           value == buffers_read(Ahead("C", 0, SizeOf(f)), CType(f), big_endian)
<1>1. Reads("C") /\ Turn("C") /\ ~IsArray(f) /\ ~IsStruct(f) /\ StillReading /\ "C" \in Readers
  BY DEF CReadScalar, Reads, Readers
<1>2. \/ Left("C") >= SizeOf(f) /\ Stored("C", <<value>>, SizeOf(f))
      \/ Stops("C", "refused")
  BY DEF CReadScalar
<1>3. f \in Fields /\ Left("C") \in Nat
  BY <1>1, NextField DEF Reads
<1>4. SizeOf(f) \in Widths /\ SizeOf(f) \in Nat
  BY <1>1, <1>3, FieldTypes DEF Widths
<1>5. CASE Left("C") >= SizeOf(f) /\ Stored("C", <<value>>, SizeOf(f))
  <2> DEFINE b == Ahead("C", 0, SizeOf(f))
  <2>1. b \in Bytes /\ Len(b) = SizeOf(f)
    <3>1. 0 \in Nat /\ 0 + SizeOf(f) <= Left("C")
      BY <1>3, <1>4, <1>5
    <3>2. QED
      BY <1>1, <1>4, <3>1, AheadFacts
  <2> HIDE DEF b
  <2>2. buffers_read(b, CType(f), big_endian) \in Int
    BY <1>4, <2>1, ReadFacts
  <2>3. value \in Int
    BY <2>2 DEF b
  <2> HIDE DEF value
  <2>4. <<value>> \in Seq(Int) /\ Len(<<value>>) = 1
    BY <2>3
  <2>5. Len(<<value>>) <= IF IsArray(f) THEN f.array_len ELSE 1
    BY <1>1, <2>4
  <2>6. SizeOf(f) <= Left("C")
    BY <1>3, <1>4, <1>5
  <2>7. QED
    BY <1>1, <1>4, <1>5, <2>4, <2>5, <2>6, StoredKeeps
<1>6. CASE Stops("C", "refused")
  BY <1>1, <1>6, StopsKeeps DEF Status
<1>7. QED
  BY <1>2, <1>5, <1>6

LEMMA CsReadScalarKeeps ==
    ASSUME BufferInv, NEW r \in Readers, CsReadScalar(r)
    PROVE  BufferInv'
<1> DEFINE f == Field(r)
           value == CsRead(Ahead(r, 0, SizeOf(f)), f, big_endian)
<1>1. Reads(r) /\ Turn(r) /\ ~IsArray(f) /\ ~IsStruct(f) /\ StillReading
  BY DEF CsReadScalar, Reads
<1>2. \/ Left(r) >= SizeOf(f) /\ Stored(r, <<value>>, SizeOf(f))
      \/ Stops(r, "refused")
  BY DEF CsReadScalar
<1>3. f \in Fields /\ Left(r) \in Nat
  BY <1>1, NextField DEF Reads
<1>4. SizeOf(f) \in Nat /\ f.wire_type \in WireType
  BY <1>1, <1>3, FieldTypes DEF Widths
<1>5. CASE Left(r) >= SizeOf(f) /\ Stored(r, <<value>>, SizeOf(f))
  <2>1. Ahead(r, 0, SizeOf(f)) \in Bytes
    <3>1. 0 \in Nat /\ 0 + SizeOf(f) <= Left(r)
      BY <1>3, <1>4, <1>5
    <3>2. QED
      BY <1>1, <1>4, <3>1, AheadFacts
  <2>2. value \in Int
    BY <1>4, <2>1, CsReadFacts
  <2> HIDE DEF value
  <2>3. <<value>> \in Seq(Int) /\ Len(<<value>>) = 1
    BY <2>2
  <2>4. Len(<<value>>) <= IF IsArray(f) THEN f.array_len ELSE 1
    BY <1>1, <2>3
  <2>5. SizeOf(f) <= Left(r)
    BY <1>3, <1>4, <1>5
  <2>6. QED
    BY <1>1, <1>4, <1>5, <2>3, <2>4, <2>5, StoredKeeps
<1>6. CASE Stops(r, "refused")
  BY <1>1, <1>6, StopsKeeps DEF Status
<1>7. QED
  BY <1>2, <1>5, <1>6

\* The length before a string is read from as many bytes as its type has.
LEMMA PrefixRead ==
    ASSUME BufferInv, NEW r \in Readers, Turn(r), NEW f \in Fields, field_is_string(f),
           Left(r) >= PrefixSize(f)
    PROVE  /\ PrefixSize(f) \in Nat
           /\ ~fixed_mode => /\ read_unsigned(Ahead(r, 0, PrefixSize(f)), big_endian) \in Nat
                             /\ bp_read(Ahead(r, 0, PrefixSize(f)), Prefix(f).wire_type, big_endian)
                                   \in 0 .. Values(PrefixSize(f)) - 1
<1>1. /\ length_prefix_size(f.array_len) \in Widths
      /\ Prefix(f).wire_type \in WireType /\ Prefix(f).wire_type \notin ToSet(Signed)
  BY PrefixTypes
<1>2. fixed_mode \in BOOLEAN /\ big_endian \in BOOLEAN /\ Left(r) \in Nat
  BY NextField
<1>3. PrefixSize(f) \in Nat
  BY <1>1 DEF PrefixSize, Widths
<1>4. ASSUME ~fixed_mode
      PROVE  /\ read_unsigned(Ahead(r, 0, PrefixSize(f)), big_endian) \in Nat
             /\ bp_read(Ahead(r, 0, PrefixSize(f)), Prefix(f).wire_type, big_endian)
                   \in 0 .. Values(PrefixSize(f)) - 1
  <2> DEFINE b == Ahead(r, 0, PrefixSize(f))
  <2>1. PrefixSize(f) \in Widths
    BY <1>1, <1>4 DEF PrefixSize
  <2>2. b \in Bytes /\ Len(b) = PrefixSize(f)
    <3>1. 0 \in Nat /\ 0 + PrefixSize(f) <= Left(r)
      BY <1>2, <1>3
    <3>2. QED
      BY <1>3, <3>1, AheadFacts
  <2> HIDE DEF b
  <2>3. read_unsigned(b, big_endian) \in Nat
    BY <2>1, <2>2, ReadUnsigned
  <2>4. bp_read(b, Prefix(f).wire_type, big_endian) \in 0 .. Values(Len(b)) - 1
    BY <1>1, <2>2, BpReadFacts
  <2>5. bp_read(b, Prefix(f).wire_type, big_endian) \in 0 .. Values(PrefixSize(f)) - 1
    BY <2>2, <2>4, Zenon
  <2>6. QED
    BY <2>3, <2>5 DEF b
<1>5. QED
  BY <1>3, <1>4

LEMMA CReadStringKeeps ==
    ASSUME BufferInv, CReadString
    PROVE  BufferInv'
<1> DEFINE f == Field("C")
           lp == PrefixSize(f)
           size == SizeOf(f)
           n == IF fixed_mode THEN f.array_len
                ELSE read_unsigned(Ahead("C", 0, lp), big_endian)
           char(i) == buffers_read(Ahead("C", lp + (i - 1) * size, size), f.type, big_endian)
           array == [i \in 1 .. n |-> char(i)]
           leaf == IF n < f.array_len THEN array \o <<0>> ELSE array
<1>1. Reads("C") /\ Turn("C") /\ field_is_string(f) /\ StillReading /\ "C" \in Readers
  BY DEF CReadString, Reads, Readers
<1>2. \/ Stops("C", "refused")
      \/ /\ Left("C") >= lp /\ ~TooLong(n, f) /\ Left("C") >= lp + n * size
         /\ Stored("C", leaf, lp + n * size)
  BY DEF CReadString
<1>3. f \in Fields /\ Left("C") \in Nat
  BY <1>1, NextField DEF Reads
<1>4. f.array_len \in Nat /\ IsArray(f) /\ size \in {1, 2}
  BY <1>1, <1>3, StringTypes
<1>5. CASE Stops("C", "refused")
  BY <1>1, <1>5, StopsKeeps DEF Status
<1>6. CASE /\ Left("C") >= lp /\ ~TooLong(n, f) /\ Left("C") >= lp + n * size
           /\ Stored("C", leaf, lp + n * size)
  <2>1. lp \in Nat /\ n \in Nat
    BY <1>1, <1>3, <1>4, <1>6, PrefixRead
  <2>2. n <= f.array_len
    BY <1>4, <1>6, <2>1 DEF TooLong
  <2>3. lp + n * size \in Nat /\ lp + n * size <= Left("C")
    <3> HIDE DEF lp, n, size
    <3>1. QED
      BY <1>3, <1>4, <1>6, <2>1
  <2>4. ASSUME NEW i \in 1 .. n
        PROVE  char(i) \in Int
    <3> DEFINE at == lp + (i - 1) * size
               b == Ahead("C", at, size)
    <3>1. at \in Nat /\ size \in Nat /\ at + size <= Left("C")
      <4> HIDE DEF lp, n, size
      <4>1. i \in Nat /\ i >= 1 /\ i <= n
        BY <2>1
      <4>2. CASE size = 1
        BY <1>3, <2>1, <2>3, <4>1, <4>2
      <4>3. CASE size = 2
        BY <1>3, <2>1, <2>3, <4>1, <4>3
      <4>4. QED
        BY <1>4, <4>2, <4>3
    <3>2. b \in Bytes /\ Len(b) = size
      <4> HIDE DEF at, size
      <4>1. QED
        BY <1>1, <3>1, AheadFacts DEF size
    <3>3. Len(b) \in Widths
      BY <1>4, <3>2 DEF Widths
    <3> HIDE DEF b
    <3>4. buffers_read(b, f.type, big_endian) \in Int
      BY <3>2, <3>3, ReadFacts
    <3>5. QED
      BY <3>4 DEF b
  <2>5. leaf \in Seq(Int) /\ Len(leaf) <= f.array_len
    <3> HIDE DEF char, n
    <3>1. array \in Seq(Int) /\ Len(array) = n
      BY <2>1, <2>4
    <3> HIDE DEF array
    <3>2. <<0>> \in Seq(Int) /\ Len(<<0>>) = 1
      OBVIOUS
    <3>3. array \o <<0>> \in Seq(Int) /\ Len(array \o <<0>>) = n + 1
      BY <3>1, <3>2, Concatenated
    <3>4. QED
      BY <1>4, <2>1, <2>2, <3>1, <3>3
  <2> HIDE DEF leaf, n, lp, size
  <2>6. QED
    BY <1>1, <1>4, <1>6, <2>3, <2>5, StoredKeeps
<1>7. QED
  BY <1>2, <1>5, <1>6

\* (int) of an unsigned number: never greater, itself if it is an int already.
LEMMA AsIntFacts ==
    ASSUME NEW m \in Int
    PROVE  /\ AsInt(m) \in Int
           /\ m >= 0 => AsInt(m) <= m
           /\ AsInt(AsInt(m)) = AsInt(m)
           /\ 0 <= m /\ m < Values(4) \div 2 => AsInt(m) = m
<1> DEFINE v == Values(4)
           h == v \div 2
<1>1. v \in Nat /\ v >= 1
  BY ValuesType
<1>2. \A x : AsInt(x) = IF x % v >= h THEN (x % v) - v ELSE x % v
  BY DEF AsInt, ToSigned, ToUnsigned
<1> HIDE DEF v
<1>3. h \in Int /\ 0 <= h /\ h <= v
  BY <1>1
<1> HIDE DEF h
<1> DEFINE u == m % v
<1>4. u \in Int /\ 0 <= u /\ u < v
  BY <1>1
<1>5. AsInt(m) = IF u >= h THEN u - v ELSE u
  BY <1>2
<1>6. \A x \in Int : 0 <= x /\ x < v => x % v = x
  BY <1>1
<1>7. \A x \in Int : -v <= x /\ x < 0 => x % v = x + v
  <2>1. ASSUME NEW x \in Int, -v <= x, x < 0
        PROVE  x % v = x + v
    BY <1>1, <2>1
  <2>2. QED
    BY <2>1
<1>8. m >= 0 => u <= m
  BY <1>1
<1> HIDE DEF u
<1>9. AsInt(m) \in Int /\ (m >= 0 => AsInt(m) <= m)
  BY <1>1, <1>3, <1>4, <1>5, <1>8
<1>10. AsInt(AsInt(m)) = AsInt(m)
  <2>1. CASE u >= h
    <3>1. AsInt(m) = u - v /\ -v <= u - v /\ u - v < 0 /\ u - v \in Int /\ (u - v) + v = u
      BY <1>1, <1>4, <1>5, <2>1
    <3>2. AsInt(m) % v = u
      BY <1>7, <3>1
    <3>3. QED
      BY <1>2, <2>1, <3>1, <3>2
  <2>2. CASE ~(u >= h)
    <3>1. AsInt(m) = u /\ AsInt(m) % v = u
      BY <1>4, <1>5, <1>6, <2>2
    <3>2. QED
      BY <1>2, <2>2, <3>1
  <2>3. QED
    BY <2>1, <2>2
<1>11. 0 <= m /\ m < h => AsInt(m) = m
  <2>1. 0 <= m /\ m < h => u = m
    BY <1>1, <1>3, <1>6 DEF u
  <2>2. QED
    BY <1>3, <1>5, <2>1
<1>12. QED
  BY <1>9, <1>10, <1>11 DEF h, v

\* An array of fewer elements than a uint16_t has values has a length of at most two
\* bytes, and that is an int.
LEMMA ShortPrefix ==
    ASSUME NEW f \in Fields, f.array_len \in Nat, f.array_len < Values(2)
    PROVE  /\ length_prefix_size(f.array_len) \in {1, 2}
           /\ \A m \in 0 .. Values(length_prefix_size(f.array_len)) - 1 :
                 AsInt(m) \in Nat
<1> DEFINE n == f.array_len
           holds == {i \in 1 .. 3 : Least(Unsigned[i]) <= 0 /\ n <= Greatest(Unsigned[i])}
<1>1. Unsigned[1] = "uint8_t" /\ Unsigned[2] = "uint16_t"
  BY DEF Unsigned
<1>2. WIRE_TYPE_SIZES["uint8_t"] = 1 /\ WIRE_TYPE_SIZES["uint16_t"] = 2
  BY DEF WIRE_TYPE_SIZES
<1>3. "uint16_t" \notin ToSet(Signed)
  <2>1. ToSet(Signed) = {"int8_t", "int16_t", "int32_t", "int64_t"}
    BY DEF Signed, ToSet
  <2>2. QED
    BY <2>1
<1>4. Least("uint16_t") = 0
  BY <1>3 DEF Least
<1>5. Greatest("uint16_t") = Values(2) - 1
  BY <1>2, <1>4, ValuesType DEF Greatest
<1>6. 2 \in holds
  <2>1. Values(2) \in Nat
    BY ValuesType
  <2> HIDE DEF Values
  <2>2. Least(Unsigned[2]) <= 0 /\ n <= Greatest(Unsigned[2])
    BY <1>1, <1>4, <1>5, <2>1
  <2>3. QED
    BY <2>2
<1>7. length_prefix_type(n) = Unsigned[IF holds = {} THEN 4 ELSE Min(holds)]
  BY DEF length_prefix_type, Narrowest
<1>8. holds \subseteq Nat /\ holds \subseteq 1 .. 3
  OBVIOUS
<1> HIDE DEF holds
<1>9. Min(holds) \in {1, 2}
  <2>1. PICK x \in holds : \A y \in holds : x <= y
    BY <1>6, <1>8, LeastExists
  <2>2. Min(holds) \in holds /\ \A y \in holds : Min(holds) <= y
    BY <2>1, Zenon DEF Min
  <2>3. Min(holds) \in 1 .. 3 /\ Min(holds) <= 2
    BY <1>6, <1>8, <2>2, Zenon
  <2>4. QED
    BY <2>3
<1>10. length_prefix_size(n) \in {1, 2}
  <2>1. length_prefix_type(n) \in {Unsigned[1], Unsigned[2]}
    BY <1>6, <1>7, <1>9
  <2>2. QED
    BY <1>1, <1>2, <2>1 DEF length_prefix_size
<1>11. Values(1) <= Values(2) /\ 2 * Values(2) <= Values(4) /\ Values(1) \in Nat /\ Values(2) \in Nat
       /\ Values(4) \in Nat
  <2>1. /\ Values(0 + 1) = ByteBase * Values(0) /\ Values(1 + 1) = ByteBase * Values(1)
        /\ Values(2 + 1) = ByteBase * Values(2) /\ Values(3 + 1) = ByteBase * Values(3)
        /\ Values(0) \in Nat /\ Values(1) \in Nat /\ Values(2) \in Nat /\ Values(3) \in Nat
        /\ Values(4) \in Nat
    BY ValuesStep, ValuesType
  <2>2. ByteBase \in Nat /\ ByteBase >= 2
    BY ByteBaseAssumption
  <2> HIDE DEF Values
  <2>3. \A x \in Nat : ByteBase * x \in Nat /\ ByteBase * x >= 2 * x
    <3>1. ASSUME NEW x \in Nat
          PROVE  ByteBase * x \in Nat /\ ByteBase * x >= 2 * x
      <4> DEFINE d == ByteBase - 2
      <4>1. d \in Nat /\ ByteBase = d + 2
        BY <2>2
      <4> HIDE DEF d
      <4>2. (d + 2) * x = d * x + 2 * x /\ d * x \in Nat /\ 2 * x \in Nat
        BY <4>1
      <4>3. QED
        BY <4>1, <4>2
    <3>2. QED
      BY <3>1
  <2>4. Values(2) >= 2 * Values(1) /\ Values(3) >= 2 * Values(2) /\ Values(4) >= 2 * Values(3)
    BY <2>1, <2>3
  <2>5. QED
    BY <2>1, <2>4
<1>12. ASSUME NEW m \in 0 .. Values(length_prefix_size(n)) - 1
       PROVE  AsInt(m) \in Nat
  <2> HIDE DEF Values
  <2>1. Values(length_prefix_size(n)) \in {Values(1), Values(2)}
    BY <1>10
  <2> DEFINE v == Values(length_prefix_size(n))
  <2>2. v \in Nat /\ v <= Values(2)
    BY <1>11, <2>1
  <2> HIDE DEF v
  <2>3. m \in Nat /\ m < v
    BY <2>2 DEF v
  <2>4. m \in Int /\ 0 <= m /\ m < Values(4) \div 2
    BY <1>11, <2>2, <2>3
  <2>5. AsInt(m) = m
    BY <2>4, AsIntFacts
  <2>6. QED
    BY <2>3, <2>5
<1>13. QED
  BY <1>10, <1>12

\* What C# reads as a string is not longer than its array, unless the array is huge.
LEMMA DecodedFits ==
    ASSUME BufferInv, NEW f \in Fields, field_is_string(f), NEW n \in Int,
           n <= f.array_len, AsInt(n * SizeOf(f)) >= 0,
           n \in Nat \/ (is_char_array(f) /\ AsInt(n) = n),
           NEW b \in Bytes, Len(b) = AsInt(n * SizeOf(f))
    PROVE  Decode(b, f) \in Seq(Int) /\ Len(Decode(b, f)) <= f.array_len
<1>1. /\ f.array_len \in Nat
      /\ is_char_array(f) \/ is_wchar_array(f)
      /\ is_char_array(f) => SizeOf(f) = 1
      /\ is_wchar_array(f) => SizeOf(f) = 2
  BY StringTypes
<1>2. /\ Decode(b, f) \in Seq(Int)
      /\ is_char_array(f) => Len(Decode(b, f)) <= Len(b)
      /\ ~is_char_array(f) => Len(Decode(b, f)) <= Len(b) \div 2
  BY DecodeFacts DEF BufferInv, Chosen
<1>3. Len(Decode(b, f)) \in Nat /\ Len(b) \in Nat
  BY <1>2 DEF Bytes
<1>4. CASE is_char_array(f)
  <2>1. n * 1 = n
    OBVIOUS
  <2>2. Len(b) = AsInt(n)
    BY <1>1, <1>4, <2>1
  <2>3. n \in Nat \/ AsInt(n) = n
    OBVIOUS
  <2>4. Len(b) <= n
    BY <1>3, <2>2, <2>3, AsIntFacts
  <2>5. QED
    BY <1>1, <1>2, <1>3, <1>4, <2>4
<1>5. CASE ~is_char_array(f)
  <2>1. n \in Nat /\ Len(b) = AsInt(n * 2)
    BY <1>1, <1>5
  <2>2. n * 2 \in Int /\ n * 2 >= 0
    BY <2>1
  <2>3. AsInt(n * 2) <= n * 2
    BY <2>2, AsIntFacts
  <2>4. Len(b) <= 2 * n
    BY <1>3, <2>1, <2>3
  <2>5. Len(b) \div 2 <= n
    BY <1>3, <2>1, <2>4
  <2>6. QED
    BY <1>1, <1>2, <1>3, <1>5, <2>1, <2>5
<1>6. QED
  BY <1>2, <1>4, <1>5

LEMMA CsReadStringKeeps ==
    ASSUME BufferInv, NEW r \in Readers, CsReadString(r)
    PROVE  BufferInv'
<1> DEFINE f == Field(r)
           lp == PrefixSize(f)
           read == bp_read(Ahead(r, 0, lp), Prefix(f).wire_type, big_endian)
           n == IF fixed_mode THEN f.array_len ELSE AsInt(read)
           byteLen == AsInt(n * SizeOf(f))
           leaf == Decode(Ahead(r, lp, byteLen), f)
<1>1. r # "C" /\ Reads(r) /\ Turn(r) /\ field_is_string(f) /\ StillReading
  BY DEF CsReadString, Reads
<1>2. \/ Stops(r, "refused") \/ Stops(r, "thrown")
      \/ /\ Left(r) >= lp /\ ~TooLong(n, f) /\ Left(r) >= lp + byteLen /\ byteLen >= 0
         /\ Stored(r, leaf, lp + byteLen)
  BY DEF CsReadString
<1>3. f \in Fields /\ Left(r) \in Nat /\ fixed_mode \in BOOLEAN
  BY <1>1, NextField DEF Reads
<1>4. f.array_len \in Nat /\ IsArray(f) /\ SizeOf(f) \in {1, 2}
  BY <1>1, <1>3, StringTypes
<1>5. CASE Stops(r, "refused") \/ Stops(r, "thrown")
  BY <1>1, <1>5, StopsKeeps DEF Status
<1>6. CASE /\ Left(r) >= lp /\ ~TooLong(n, f) /\ Left(r) >= lp + byteLen /\ byteLen >= 0
           /\ Stored(r, leaf, lp + byteLen)
  <2>1. lp \in Nat /\ (~fixed_mode => read \in 0 .. Values(lp) - 1)
    BY <1>1, <1>3, <1>6, PrefixRead
  <2>2. read \in Int \/ fixed_mode
    BY <2>1
  <2>3. n \in Int /\ (~fixed_mode => AsInt(n) = n)
    <3> HIDE DEF read
    <3>1. CASE fixed_mode
      BY <1>4, <3>1
    <3>2. CASE ~fixed_mode
      BY <2>2, <3>2, AsIntFacts
    <3>3. QED
      BY <3>1, <3>2
  <2>4. n \in Nat \/ HugeWide(f) \/ (is_char_array(f) /\ AsInt(n) = n)
    <3>1. CASE fixed_mode
      BY <1>4, <3>1
    <3>2. CASE ~fixed_mode /\ is_char_array(f)
      BY <2>3, <3>2
    <3>3. CASE ~fixed_mode /\ ~is_char_array(f) /\ ~HugeWide(f)
      <4>1. is_wchar_array(f)
        BY <1>1, <1>3, <3>3, StringTypes
      <4>2. Values(2) \in Nat
        BY ValuesType
      <4>3. f.array_len < Values(2)
        <5> HIDE DEF Values
        <5>1. QED
          BY <1>1, <1>4, <3>3, <4>1, <4>2 DEF HugeWide, HugeString
      <4>4. lp = length_prefix_size(f.array_len)
        BY <3>3 DEF PrefixSize
      <4>5. \A m \in 0 .. Values(lp) - 1 : AsInt(m) \in Nat
        BY <1>3, <1>4, <4>3, <4>4, ShortPrefix
      <4> HIDE DEF read, lp
      <4>6. AsInt(read) \in Nat
        BY <2>1, <3>3, <4>5
      <4>7. QED
        BY <3>3, <4>6
    <3>4. QED
      BY <3>1, <3>2, <3>3
  <2>5. byteLen \in Int
    <3> HIDE DEF n
    <3>1. n * SizeOf(f) \in Int
      BY <1>4, <2>3
    <3>2. QED
      BY <3>1, AsIntFacts
  <2>6. n <= f.array_len
    <3> HIDE DEF n
    <3>1. QED
      BY <1>4, <1>6, <2>3 DEF TooLong
  <2> DEFINE b == Ahead(r, lp, byteLen)
  <2>7. byteLen \in Nat /\ lp \in Nat /\ lp + byteLen \in Nat /\ lp + byteLen <= Left(r)
    <3> HIDE DEF byteLen, lp
    <3>1. QED
      BY <1>3, <1>6, <2>1, <2>5
  <2>8. b \in Bytes /\ Len(b) = byteLen
    <3> HIDE DEF byteLen, lp
    <3>1. QED
      BY <1>1, <2>7, AheadFacts
  <2>9. leaf \in Seq(Int)
    BY <1>1, <1>3, <2>8, DecodeFacts DEF BufferInv, Chosen
  <2>10. HugeWide(f) \/ Len(leaf) <= f.array_len
    <3>1. CASE HugeWide(f)
      BY <3>1
    <3>2. CASE n \in Nat \/ (is_char_array(f) /\ AsInt(n) = n)
      <4> HIDE DEF b, n
      <4>1. Decode(b, f) \in Seq(Int) /\ Len(Decode(b, f)) <= f.array_len
        BY <1>1, <1>3, <1>6, <2>3, <2>6, <2>8, <3>2, DecodedFits
      <4>2. QED
        BY <4>1 DEF b
    <3>3. QED
      BY <2>4, <3>1, <3>2
  <2> HIDE DEF leaf, byteLen, lp
  <2>11. QED
    BY <1>1, <1>4, <1>6, <2>7, <2>9, <2>10, StoredKeeps
<1>7. QED
  BY <1>2, <1>5, <1>6

\* What a stream fills the buffer with are bytes.
LEMMA StreamReadKeeps ==
    ASSUME BufferInv, StreamRead
    PROVE  BufferInv'
<1>1. Turn("Stream") /\ pos["Stream"] = 0 /\ "Stream" \in Readers
  BY DEF StreamRead, Readers
<1>2. PICK n \in 0 .. Min({StructMaxSize(struct), 2 * Len(wire)}) :
          /\ filled' = SubSeq(wire \o wire, 1, n)
          /\ \/ Stops("Stream", "refused")
             \/ UNCHANGED <<fields, pos, out, rstatus>>
  BY DEF StreamRead
<1>3. wire \in Seq(Byte) /\ Len(wire) \in Nat /\ struct \in DOMAIN Structs /\ fixed_mode \in BOOLEAN
  BY DEF BufferInv, Chosen, Written, Bytes
<1>4. n \in Nat /\ n <= 2 * Len(wire)
  <2> DEFINE a == StructMaxSize(struct)
             c == 2 * Len(wire)
  <2>1. a \in Nat /\ c \in Nat
    BY <1>3, MaxSizes
  <2>2. n \in 0 .. Min({a, c})
    OBVIOUS
  <2> HIDE DEF a, c
  <2>3. Min({a, c}) \in {a, c} /\ Min({a, c}) <= c
    <3>1. a \in Int /\ c \in Int
      BY <2>1
    <3>2. QED
      BY <3>1, MinOfTwo, Zenon
  <2>4. n \in Nat /\ n <= c
    <3> DEFINE k == Min({a, c})
    <3>1. k \in Nat /\ k <= c /\ n \in 0 .. k
      BY <2>1, <2>2, <2>3
    <3> HIDE DEF k
    <3>2. QED
      BY <2>1, <3>1
  <2>5. QED
    BY <2>4 DEF c
<1>5. filled' \in Bytes /\ Len(filled') \in Nat
  <2>1. wire \o wire \in Seq(Byte) /\ Len(wire \o wire) = Len(wire) + Len(wire)
    BY <1>3, Concatenated
  <2>2. 0 \in Nat /\ 0 + n <= Len(wire \o wire) /\ 0 + n = n /\ 0 + 1 = 1
    BY <1>3, <1>4, <2>1
  <2>3. SubSeq(wire \o wire, 0 + 1, 0 + n) \in Seq(Byte)
    BY <1>4, <2>1, <2>2, SliceFacts
  <2>4. filled' \in Seq(Byte)
    BY <1>2, <2>2, <2>3
  <2>5. QED
    BY <2>4 DEF Bytes
<1>6. /\ UNCHANGED <<fixed_mode, big_endian, struct, writer, message, room>>
      /\ UNCHANGED <<todo, buf>> /\ UNCHANGED <<wire, intact>>
  BY DEF StreamRead, choice, writing, line
<1>7. /\ fields \in [Readers -> Seq(Fields)] /\ pos \in [Readers -> Nat]
      /\ out \in [Readers -> Seq(Leaf)] /\ rstatus \in [Readers -> Status]
      /\ \A q \in Readers : pos[q] <= Len(Span(q)) /\ \A i \in DOMAIN out[q] : Fits(q, out[q][i])
  BY DEF BufferInv, IsRead
<1>8. /\ fields' \in [Readers -> Seq(Fields)] /\ rstatus' \in [Readers -> Status]
      /\ pos' = pos /\ out' = out
  <2>1. CASE Stops("Stream", "refused")
    <3>1. /\ fields' = [fields EXCEPT !["Stream"] = <<>>]
          /\ rstatus' = [rstatus EXCEPT !["Stream"] = "refused"]
          /\ pos' = pos /\ out' = out
      BY <2>1 DEF Stops
    <3>2. <<>> \in Seq(Fields) /\ "refused" \in Status
      BY DEF Status
    <3>3. QED
      BY <1>7, <3>1, <3>2
  <2>2. CASE UNCHANGED <<fields, pos, out, rstatus>>
    BY <1>7, <2>2
  <2>3. QED
    BY <1>2, <2>1, <2>2
<1>9. Chosen'
  BY <1>6 DEF BufferInv, Chosen
<1>10. Written'
  BY <1>1, <1>6, NextField DEF BufferInv, Written
<1>11. IsRead'
  <2>1. \A q \in Readers : pos'[q] <= Len(Span(q)')
    <3>1. ASSUME NEW q \in Readers
          PROVE  pos'[q] <= Len(Span(q)')
      <4>1. CASE q = "Stream"
        BY <1>1, <1>5, <1>8, <4>1 DEF Span
      <4>2. CASE q # "Stream"
        BY <1>6, <1>7, <1>8, <4>2 DEF Span
      <4>3. QED
        BY <4>1, <4>2
    <3>2. QED
      BY <3>1
  <2>2. QED
    BY <1>5, <1>7, <1>8, <2>1 DEF IsRead, Fits
<1>12. QED
  BY <1>9, <1>10, <1>11 DEF BufferInv

LEMMA ReadEndsKeeps ==
    ASSUME BufferInv, NEW r \in Readers, ReadEnds(r)
    PROVE  BufferInv'
<1>1. /\ Turn(r) /\ StillReading /\ rstatus' = [rstatus EXCEPT ![r] = "read"]
      /\ fields' = fields /\ pos' = pos /\ out' = out
  BY DEF ReadEnds
<1>2. /\ fields \in [Readers -> Seq(Fields)] /\ pos \in [Readers -> Nat]
      /\ out \in [Readers -> Seq(Leaf)] /\ rstatus \in [Readers -> Status]
      /\ \A q \in Readers : pos[q] <= Len(Span(q)) /\ \A i \in DOMAIN out[q] : Fits(q, out[q][i])
  BY DEF BufferInv, IsRead
<1>3. rstatus' \in [Readers -> Status]
  BY <1>1, <1>2 DEF Status
<1>4. QED
  BY <1>1, <1>2, <1>3, ReaderKeeps

-----------------------------------------------------------------------------
(***************************************************************************)
(* The bounds.                                                             *)
(***************************************************************************)

\* Nothing is written at first, and nothing read.
LEMMA InitBuffer == Init => BufferInv
<1> SUFFICES ASSUME Init
             PROVE  BufferInv
  OBVIOUS
<1>1. Chosen
  BY RoomsAssumption DEF Init, Chosen
<1>2. Written
  <2>1. todo \in Seq(Items(writer))
    <3>1. CASE writer = "C"
      BY <3>1, FieldItems DEF Init, Items
    <3>2. CASE writer = "C#"
      BY <3>2, FieldItems DEF Init, Items
    <3>3. QED
      BY <3>1, <3>2 DEF Init
  <2>2. buf \in Bytes /\ Len(buf) <= room /\ wire \in Bytes
    BY <1>1 DEF Init, Chosen, Bytes
  <2>3. QED
    BY <2>1, <2>2 DEF Init, Written
<1>3. IsRead
  <2>1. fields \in [Readers -> Seq(Fields)]
    BY StructFields DEF Init
  <2>2. pos \in [Readers -> Nat] /\ out \in [Readers -> Seq(Leaf)] /\ filled \in Bytes
    BY DEF Init, Bytes
  <2>3. rstatus \in [Readers -> Status]
    BY DEF Init, Status
  <2>4. \A r \in Readers : pos[r] <= Len(Span(r)) /\ \A i \in DOMAIN out[r] : Fits(r, out[r][i])
    <3>1. ASSUME NEW r \in Readers
          PROVE  pos[r] <= Len(Span(r)) /\ \A i \in DOMAIN out[r] : Fits(r, out[r][i])
      <4>1. pos[r] = 0 /\ out[r] = <<>> /\ Len(Span(r)) = 0
        BY DEF Init, Span
      <4>2. QED
        BY <4>1
    <3>2. QED
      BY <3>1
  <2>5. QED
    BY <2>1, <2>2, <2>3, <2>4 DEF IsRead
<1>4. QED
  BY <1>1, <1>2, <1>3 DEF BufferInv

\* Every step of a writer or a reader keeps to the bounds.
LEMMA NextBuffer ==
    ASSUME BufferInv, [Next]_vars
    PROVE  BufferInv'
<1>1. CASE Write
  BY <1>1, CWriteArrayKeeps, CWriteStringKeeps, CWriteStructKeeps, CWriteScalarKeeps,
     CsWriteStringKeeps, CsWriteListKeeps, CsFillKeeps, CsWriteArrayKeeps,
     CsWriteStructKeeps, CsWriteScalarKeeps, WriteEndsKeeps
  DEF Write
<1>2. CASE Deliver \/ DeliverCut \/ DeliverChanged
  BY <1>2, DeliveryKeeps
<1>3. CASE Read
  <2>1. {"C#", "Stream"} \subseteq Readers /\ "C" \in Readers
    BY DEF Readers
  <2>2. CASE CReadStruct \/ CReadArray
    BY <2>1, <2>2, NestedKeeps DEF CReadStruct, CReadArray
  <2>3. ASSUME NEW r \in {"C#", "Stream"},
               CsReadStruct(r) \/ CsReadArray(r) \/ CsReadScalar(r) \/ CsReadString(r)
        PROVE  BufferInv'
    BY <2>1, <2>3, NestedKeeps, CsReadScalarKeeps, CsReadStringKeeps
    DEF CsReadStruct, CsReadArray
  <2>4. QED
    BY <1>3, <2>2, <2>3, CReadScalarKeeps, CReadStringKeeps, StreamReadKeeps, ReadEndsKeeps
    DEF Read
<1>4. CASE UNCHANGED vars
  <2>1. /\ UNCHANGED <<fixed_mode, big_endian, struct, writer, message, room>>
        /\ UNCHANGED <<todo, buf, wstatus>> /\ UNCHANGED <<wire, intact>>
        /\ UNCHANGED <<fields, pos, out, rstatus, filled>>
    BY <1>4 DEF vars, choice, writing, line, reading
  <2>2. \A q \in Readers : Span(q)' = Span(q)
    BY <2>1 DEF Span
  <2>3. QED
    BY <2>1, <2>2 DEF BufferInv, Chosen, Written, IsRead, Fits
<1>5. QED
  BY <1>1, <1>2, <1>3, <1>4 DEF Next

\* No writer writes past its room, no reader reads past the bytes it was given, and
\* what is read of a string stays in the array it is for.
THEOREM Bounds == Spec => []InBounds
<1>1. BufferInv => InBounds
  BY DEF BufferInv, Written, IsRead, Fits, InBounds
<1>2. BufferInv /\ [Next]_vars => BufferInv'
  BY NextBuffer
<1>3. QED
  BY <1>1, <1>2, InitBuffer, PTL DEF Spec

-----------------------------------------------------------------------------
(***************************************************************************)
(* The largest size of a struct is room enough.                            *)
(***************************************************************************)

\* What a field, and what the items that are left, take at most.
MaxSize(s, fixed) == struct_wire_size(s, Structs, fixed)
OneSize(t, fixed) == IF t \in WireType THEN WIRE_TYPE_SIZES[t] ELSE MaxSize(t, fixed)
ItemSize(f, fixed) == wire_size_of(f, OneSize(f.wire_type, fixed), fixed)
ItemSizes(items, fixed) == [i \in DOMAIN items |-> ItemSize(items[i].f, fixed)]
Sized(items, fixed) == ItemSizes(items, fixed) \in Seq(Nat)
Rest(items, fixed) == Total(ItemSizes(items, fixed))

\* What is left to write has room, and no writer with that room has failed.
RoomInv ==
    /\ wstatus = "writing" =>
          /\ Sized(todo, fixed_mode)
          /\ Len(buf) + Rest(todo, fixed_mode) <= MaxSize(struct, fixed_mode)
    /\ room >= MaxSize(struct, fixed_mode) => wstatus # "failed"

\* An element of a field has a size if the field has, and the field as many.
LEMMA FieldSized ==
    ASSUME NEW f \in Fields, NEW fixed \in BOOLEAN, ItemSize(f, fixed) \in Nat
    PROVE  /\ OneSize(f.wire_type, fixed) \in Nat
           /\ ItemSize(f, fixed)
                 = (IF IsArray(f) THEN f.array_len ELSE 1) * OneSize(f.wire_type, fixed)
                   + (IF ~fixed /\ field_is_string(f) THEN length_prefix_size(f.array_len) ELSE 0)
           /\ ItemSize(Element(f), fixed) = OneSize(f.wire_type, fixed)
           /\ ~IsStruct(f) => OneSize(f.wire_type, fixed) = SizeOf(f)
           /\ IsStruct(f) => OneSize(f.wire_type, fixed) = MaxSize(f.wire_type, fixed)
<1> DEFINE e == OneSize(f.wire_type, fixed)
<1>1. Error \notin Nat
  BY DEF Error
<1>2. e \in Nat
  <2>1. CASE f.wire_type \in WireType
    BY <2>1, WireSizes DEF OneSize
  <2>2. CASE f.wire_type \notin WireType
    <3>1. f.wire_type \in DOMAIN Structs
      BY <2>2, FieldTypes DEF IsStruct
    <3>2. e \in Size
      <4>1. Parsed(Structs) /\ {} \in SUBSET DOMAIN Structs
        BY StructsAssumption
      <4>2. PICK size : /\ IsSize(size, Structs, fixed)
                        /\ \A n : struct_wire_size(n, Structs, fixed) = size[{}][n]
        BY <4>1, SizeOfStructIs
      <4>3. size[{}][f.wire_type] \in Size
        BY <3>1, <4>1, <4>2, SizeFacts
      <4>4. QED
        BY <2>2, <4>2, <4>3 DEF OneSize, MaxSize
    <3>3. e # Error
      BY <1>1 DEF ItemSize, wire_size_of
    <3>4. QED
      BY <3>2, <3>3 DEF Size
  <2>3. QED
    BY <2>1, <2>2
<1> HIDE DEF e
<1>3. ItemSize(f, fixed) = wire_size_of(f, e, fixed) /\ e # Error
  BY <1>1, <1>2 DEF ItemSize, e
<1>4. ItemSize(f, fixed) = (IF IsArray(f) THEN f.array_len ELSE 1) * e
          + (IF ~fixed /\ field_is_string(f) THEN length_prefix_size(f.array_len) ELSE 0)
  BY <1>1, <1>3, Zenon DEF wire_size_of
<1>5. ItemSize(Element(f), fixed) = e
  <2>1. /\ ~IsArray(Element(f)) /\ ~field_is_string(Element(f))
        /\ Element(f).wire_type = f.wire_type
    BY ElementTypes
  <2>2. ItemSize(Element(f), fixed) = wire_size_of(Element(f), e, fixed)
    BY <2>1 DEF ItemSize, e
  <2>3. wire_size_of(Element(f), e, fixed) = 1 * e + 0
    BY <1>3, <2>1, Zenon DEF wire_size_of
  <2>4. QED
    BY <1>2, <2>2, <2>3
<1>6. ~IsStruct(f) => e = SizeOf(f)
  BY FieldTypes DEF OneSize, SizeOf, e
<1>7. IsStruct(f) => e = MaxSize(f.wire_type, fixed)
  BY StructsAssumption DEF OneSize, IsStruct, e
<1>8. QED
  BY <1>2, <1>4, <1>5, <1>6, <1>7 DEF e

\* The size of a struct is the sum of the sizes of its fields.
LEMMA MaxSizeIs ==
    ASSUME NEW s \in DOMAIN Structs, NEW fixed \in BOOLEAN
    PROVE  /\ [i \in DOMAIN Structs[s] |-> ItemSize(Structs[s][i], fixed)] \in Seq(Nat)
           /\ MaxSize(s, fixed)
                 = Total([i \in DOMAIN Structs[s] |-> ItemSize(Structs[s][i], fixed)])
           /\ MaxSize(s, fixed) \in Nat
<1> DEFINE D == DOMAIN Structs
           sizes == [i \in DOMAIN Structs[s] |-> ItemSize(Structs[s][i], fixed)]
<1>1. Parsed(Structs) /\ {} \in SUBSET D /\ Error \notin Nat
  BY StructsAssumption DEF Error
<1>2. PICK size : /\ IsSize(size, Structs, fixed)
                  /\ \A n : struct_wire_size(n, Structs, fixed) = size[{}][n]
  BY <1>1, SizeOfStructIs
<1>3. \A V \in SUBSET D : \A n \in D :
          /\ size[V][n] \in Size
          /\ size[V][n] = Error <=> NoSize(size, V, Structs, n, fixed)
  BY <1>1, <1>2, SizeFacts
<1>4. size[{}][s] # Error
  <2>1. struct_wire_size(s, Structs, fixed) # Error
    BY StructsAssumption
  <2>2. QED
    BY <1>2, <2>1
<1>5. ~NoSize(size, {}, Structs, s, fixed)
  BY <1>1, <1>3, <1>4
<1>6. /\ Structs[s] \in Seq(Fields) /\ Len(Structs[s]) \in Nat
      /\ DOMAIN Structs[s] = 1 .. Len(Structs[s])
      /\ \A i \in 1 .. Len(Structs[s]) : Structs[s][i] \in Fields
  BY StructFields, ElementOfSeq
<1>7. ASSUME NEW i \in 1 .. Len(Structs[s])
      PROVE  /\ ItemSize(Structs[s][i], fixed) \in Nat
             /\ ItemSize(Structs[s][i], fixed)
                    = wire_size_of(Structs[s][i], ElementSize(size, {}, Structs[s][i].wire_type), fixed)
  <2> DEFINE f == Structs[s][i]
             t == f.wire_type
             e == ElementSize(size, {}, t)
  <2>1. e # Error /\ ~Misfit(f, fixed)
    BY <1>5 DEF NoSize
  <2>2. f \in Fields /\ f.array_len \in Nat \cup {NoLen} /\ t \in WireType \cup D
    BY <1>6, FieldTypes
  <2>3. e = OneSize(t, fixed) /\ e \in Size
    <3> HIDE DEF f, t
    <3>1. CASE t \in WireType
      <4>1. e = WIRE_TYPE_SIZES[t] /\ WIRE_TYPE_SIZES[t] \in Nat
        BY <3>1, WireSizes DEF ElementSize, WireType
      <4>2. QED
        BY <3>1, <4>1 DEF OneSize, Size
    <3>2. CASE t \notin WireType
      <4>1. t \in D /\ e = size[{t}][t] /\ {t} \in SUBSET D /\ {} \in SUBSET {t}
        BY <2>2, <3>2 DEF ElementSize, WireType
      <4>2. size[{t}][t] # Error
        BY <2>1, <4>1
      <4>3. size[{}][t] = size[{t}][t]
        BY <1>1, <1>2, <4>1, <4>2, SizeWherever
      <4>4. OneSize(t, fixed) = size[{}][t]
        BY <1>2, <3>2 DEF OneSize, MaxSize
      <4>5. e \in Size
        BY <1>3, <4>1
      <4>6. QED
        BY <4>1, <4>3, <4>4, <4>5
    <3>3. QED
      BY <3>1, <3>2
  <2> HIDE DEF e
  <2>4. ItemSize(f, fixed) = wire_size_of(f, e, fixed)
    BY <2>3 DEF ItemSize
  <2>5. wire_size_of(f, e, fixed) \in Size /\ wire_size_of(f, e, fixed) # Error
    <3> HIDE DEF f
    <3>1. QED
      BY <2>1, <2>2, <2>3, FieldSize
  <2>6. QED
    BY <2>4, <2>5 DEF Size, e
<1>8. sizes \in Seq(Nat)
  BY <1>6, <1>7
<1>9. sizes = FieldSizes(size, {}, Structs, s, fixed)
  BY <1>6, <1>7 DEF FieldSizes
<1>10. size[{}][s] = Total(FieldSizes(size, {}, Structs, s, fixed))
  <2>1. size[{}] = Sizes(size, {}, Structs, fixed)
    BY <1>1, <1>2 DEF IsSize
  <2>2. QED
    BY <2>1 DEF Sizes
<1>11. MaxSize(s, fixed) = size[{}][s]
  BY <1>2 DEF MaxSize
<1>12. size[{}][s] \in Nat
  BY <1>1, <1>3, <1>4 DEF Size
<1>13. QED
  BY <1>8, <1>9, <1>10, <1>11, <1>12

\* A sequence by its elements.
LEMMA AsSequence ==
    ASSUME NEW S, NEW n \in Nat, NEW s, s = [i \in 1 .. n |-> s[i]],
           \A i \in 1 .. n : s[i] \in S
    PROVE  s \in Seq(S) /\ Len(s) = n
OBVIOUS

LEMMA Joined ==
    ASSUME NEW S, NEW s \in Seq(S), NEW t \in Seq(S)
    PROVE  s \o t = [i \in 1 .. Len(s) + Len(t) |-> IF i <= Len(s) THEN s[i] ELSE t[i - Len(s)]]
<1>1. /\ s \o t \in Seq(S) /\ Len(s \o t) = Len(s) + Len(t)
      /\ Len(s) \in Nat /\ Len(t) \in Nat
  OBVIOUS
<1>2. \A i \in 1 .. Len(s) + Len(t) : (s \o t)[i] = IF i <= Len(s) THEN s[i] ELSE t[i - Len(s)]
  OBVIOUS
<1> DEFINE b == s \o t
<1>3. b = [i \in 1 .. Len(s) + Len(t) |-> b[i]]
  <2>1. b \in Seq(S) /\ Len(b) = Len(s) + Len(t)
    BY <1>1
  <2> HIDE DEF b
  <2>2. b = [i \in 1 .. Len(b) |-> b[i]]
    BY <2>1
  <2>3. QED
    BY <2>1, <2>2
<1>4. QED
  BY <1>2, <1>3

\* The first item, and the rest.
LEMMA RestFacts ==
    ASSUME NEW I, NEW items \in Seq(I), NEW more \in Seq(I), NEW fixed
    PROVE  /\ ItemSizes(items \o more, fixed) = ItemSizes(items, fixed) \o ItemSizes(more, fixed)
           /\ Sized(items \o more, fixed) <=> Sized(items, fixed) /\ Sized(more, fixed)
           /\ Sized(items \o more, fixed) =>
                 /\ Rest(items \o more, fixed) = Rest(items, fixed) + Rest(more, fixed)
                 /\ Rest(items, fixed) \in Nat /\ Rest(more, fixed) \in Nat
<1> DEFINE n == Len(items)
           m == Len(more)
           s == ItemSizes(items, fixed)
           t == ItemSizes(more, fixed)
           b == ItemSizes(items \o more, fixed)
           size(x) == ItemSize(x.f, fixed)
<1>1. /\ n \in Nat /\ m \in Nat /\ DOMAIN items = 1 .. n /\ DOMAIN more = 1 .. m
      /\ DOMAIN (items \o more) = 1 .. n + m
      /\ \A i \in 1 .. n + m : (items \o more)[i] = IF i <= n THEN items[i] ELSE more[i - n]
  OBVIOUS
<1>2. /\ s = [i \in 1 .. n |-> size(items[i])] /\ t = [i \in 1 .. m |-> size(more[i])]
      /\ b = [i \in 1 .. n + m |-> size((items \o more)[i])]
  BY <1>1 DEF ItemSizes
<1> HIDE DEF n, m, s, t, b, size
<1>3. Len(s) = n /\ Len(t) = m /\ DOMAIN s = 1 .. n /\ DOMAIN t = 1 .. m
  BY <1>1, <1>2
<1>4. b = s \o t
  <2>1. s \o t = [i \in 1 .. n + m |-> IF i <= n THEN s[i] ELSE t[i - n]]
    <3> DEFINE S == {size(items[i]) : i \in 1 .. n} \cup {size(more[i]) : i \in 1 .. m}
    <3>1. /\ \A i \in 1 .. n : size(items[i]) \in S
          /\ \A i \in 1 .. m : size(more[i]) \in S
      OBVIOUS
    <3> HIDE DEF S
    <3>2. /\ s = [i \in 1 .. n |-> s[i]] /\ \A i \in 1 .. n : s[i] \in S
          /\ t = [i \in 1 .. m |-> t[i]] /\ \A i \in 1 .. m : t[i] \in S
      BY <1>2, <3>1
    <3>3. s \in Seq(S) /\ t \in Seq(S) /\ Len(s) = n /\ Len(t) = m
      BY <1>1, <3>2, AsSequence
    <3>4. s \o t = [i \in 1 .. Len(s) + Len(t) |-> IF i <= Len(s) THEN s[i] ELSE t[i - Len(s)]]
      BY <3>3, Joined
    <3>5. QED
      BY <3>3, <3>4
  <2>2. ASSUME NEW i \in 1 .. n + m
        PROVE  b[i] = IF i <= n THEN s[i] ELSE t[i - n]
    <3>1. CASE i <= n
      <4>1. i \in 1 .. n
        BY <1>1, <3>1
      <4>2. QED
        BY <1>1, <1>2, <3>1, <4>1
    <3>2. CASE ~(i <= n)
      <4>1. i - n \in 1 .. m
        BY <1>1, <3>2
      <4>2. QED
        BY <1>1, <1>2, <3>2, <4>1
    <3>3. QED
      BY <3>1, <3>2
  <2>3. QED
    BY <1>2, <2>1, <2>2
<1>5. b \in Seq(Nat) <=> s \in Seq(Nat) /\ t \in Seq(Nat)
  <2>1. s \in Seq(Nat) /\ t \in Seq(Nat) => b \in Seq(Nat)
    BY <1>4, Concatenated
  <2>2. ASSUME b \in Seq(Nat)
        PROVE  s \in Seq(Nat) /\ t \in Seq(Nat)
    <3>1. \A i \in 1 .. n + m : b[i] \in Nat
      <4>1. Len(b) = n + m
        BY <1>1, <1>2
      <4>2. QED
        BY <2>2, <4>1, ElementOfSeq
    <3>2. \A i \in 1 .. n : size(items[i]) \in Nat
      <4>1. ASSUME NEW i \in 1 .. n
            PROVE  size(items[i]) \in Nat
        <5>1. i \in 1 .. n + m /\ i <= n
          BY <1>1
        <5>2. b[i] = size((items \o more)[i]) /\ (items \o more)[i] = items[i]
          BY <1>1, <1>2, <5>1
        <5>3. QED
          BY <3>1, <5>1, <5>2
      <4>2. QED
        BY <4>1
    <3>3. \A i \in 1 .. m : size(more[i]) \in Nat
      <4>1. ASSUME NEW i \in 1 .. m
            PROVE  size(more[i]) \in Nat
        <5>1. i + n \in 1 .. n + m /\ ~(i + n <= n) /\ (i + n) - n = i
          BY <1>1
        <5>2. b[i + n] = size((items \o more)[i + n]) /\ (items \o more)[i + n] = more[(i + n) - n]
          BY <1>1, <1>2, <5>1
        <5>3. QED
          BY <3>1, <5>1, <5>2
      <4>2. QED
        BY <4>1
    <3>4. s \in Seq(Nat)
      BY <1>1, <1>2, <3>2
    <3>5. t \in Seq(Nat)
      BY <1>1, <1>2, <3>3
    <3>6. QED
      BY <3>4, <3>5
  <2>3. QED
    BY <2>1, <2>2
<1>6. b \in Seq(Nat) => Total(b) = Total(s) + Total(t) /\ Total(s) \in Nat /\ Total(t) \in Nat
  BY <1>4, <1>5, TotalOfBoth
<1>7. QED
  BY <1>4, <1>5, <1>6 DEF Sized, Rest, s, t, b

\* Items of one size.
LEMMA AlikeSized ==
    ASSUME NEW I, NEW items \in Seq(I), NEW fixed, NEW x \in Nat,
           \A i \in 1 .. Len(items) : ItemSize(items[i].f, fixed) = x
    PROVE  Sized(items, fixed) /\ Rest(items, fixed) = Len(items) * x
<1> DEFINE n == Len(items)
           s == ItemSizes(items, fixed)
<1>1. n \in Nat /\ DOMAIN items = 1 .. n
  OBVIOUS
<1>2. s = [i \in 1 .. n |-> ItemSize(items[i].f, fixed)]
  BY <1>1 DEF ItemSizes
<1>3. s = [i \in 1 .. n |-> s[i]] /\ \A i \in 1 .. n : s[i] \in Nat /\ s[i] = x
  BY <1>2
<1> HIDE DEF s
<1>4. s \in Seq(Nat) /\ Len(s) = n
  BY <1>1, <1>3, AsSequence
<1>5. \A i \in 1 .. Len(s) : s[i] = x
  BY <1>3, <1>4
<1>6. Total(s) = Len(s) * x
  BY <1>4, <1>5, TotalOfEqual
<1>7. QED
  BY <1>4, <1>6 DEF Sized, Rest, s

LEMMA OneSized ==
    ASSUME NEW x, NEW fixed, ItemSize(x.f, fixed) \in Nat
    PROVE  Sized(<<x>>, fixed) /\ Rest(<<x>>, fixed) = ItemSize(x.f, fixed)
<1> DEFINE k == ItemSize(x.f, fixed)
<1>1. <<x>> \in Seq({x}) /\ Len(<<x>>) = 1 /\ <<x>>[1] = x
  OBVIOUS
<1>2. \A i \in 1 .. Len(<<x>>) : ItemSize(<<x>>[i].f, fixed) = k
  BY <1>1
<1>3. Sized(<<x>>, fixed) /\ Rest(<<x>>, fixed) = Len(<<x>>) * k
  <2> HIDE DEF k
  <2>1. k \in Nat
    BY DEF k
  <2>2. QED
    BY <1>1, <1>2, <2>1, AlikeSized
<1>4. Len(<<x>>) * k = k
  BY <1>1
<1>5. QED
  BY <1>3, <1>4

\* The elements of an array, each of the size of one.
LEMMA ElementsSized ==
    ASSUME NEW f \in Fields, NEW fixed \in BOOLEAN, ItemSize(f, fixed) \in Nat,
           NEW I, NEW items \in Seq(I), \A i \in 1 .. Len(items) : items[i].f = Element(f)
    PROVE  /\ Sized(items, fixed)
           /\ Rest(items, fixed) = Len(items) * OneSize(f.wire_type, fixed)
<1> DEFINE e == OneSize(f.wire_type, fixed)
<1>1. e \in Nat /\ ItemSize(Element(f), fixed) = e
  BY FieldSized
<1> HIDE DEF e
<1>2. \A i \in 1 .. Len(items) : ItemSize(items[i].f, fixed) = e
  BY <1>1
<1>3. QED
  BY <1>1, <1>2, AlikeSized DEF e

LEMMA ElementFields ==
    ASSUME NEW f, NEW V, NEW v \in Seq(V)
    PROVE  \A i \in 1 .. Len(Elements(f, v)) : Elements(f, v)[i].f = Element(f)
<1>1. DOMAIN v = 1 .. Len(v) /\ Len(v) \in Nat
  OBVIOUS
<1>2. Elements(f, v) = [i \in 1 .. Len(v) |-> Item(Element(f), v[i])]
  BY <1>1 DEF Elements
<1>3. Len(Elements(f, v)) = Len(v)
  BY <1>1, <1>2
<1>4. \A i \in 1 .. Len(v) : Elements(f, v)[i] = Item(Element(f), v[i])
  BY <1>2
<1>5. \A x : Item(Element(f), x).f = Element(f)
  BY DEF Item
<1>6. QED
  BY <1>3, <1>4, <1>5, Zenon

\* The fields of a struct take its largest size.
LEMMA FieldsSized ==
    ASSUME NEW s \in DOMAIN Structs, NEW fixed \in BOOLEAN, NEW m
    PROVE  /\ Sized(FieldsOf(s, m), fixed)
           /\ Rest(FieldsOf(s, m), fixed) = MaxSize(s, fixed)
<1>1. DOMAIN FieldsOf(s, m) = DOMAIN Structs[s]
  BY DEF FieldsOf
<1>2. \A i \in DOMAIN Structs[s] : FieldsOf(s, m)[i].f = Structs[s][i]
  BY DEF FieldsOf, Item
<1>3. ItemSizes(FieldsOf(s, m), fixed) = [i \in DOMAIN Structs[s] |-> ItemSize(Structs[s][i], fixed)]
  BY <1>1, <1>2 DEF ItemSizes
<1>4. QED
  BY <1>3, MaxSizeIs DEF Sized, Rest

\* The item that is next has room.
LEMMA NextSized ==
    ASSUME BufferInv, RoomInv, NEW who, Writes(who)
    PROVE  /\ fixed_mode \in BOOLEAN /\ Work.f \in Fields
           /\ ItemSize(Work.f, fixed_mode) \in Nat
           /\ Sized(Tail(todo), fixed_mode) /\ Rest(Tail(todo), fixed_mode) \in Nat
           /\ Len(buf) \in Nat /\ MaxSize(struct, fixed_mode) \in Nat
           /\ Len(buf) + ItemSize(Work.f, fixed_mode) + Rest(Tail(todo), fixed_mode)
                 <= MaxSize(struct, fixed_mode)
<1>1. /\ Work.f \in Fields /\ Work \in Items(who) /\ Tail(todo) \in Seq(Items(who))
      /\ todo = <<Work>> \o Tail(todo)
  BY NextItem
<1>2. fixed_mode \in BOOLEAN /\ struct \in DOMAIN Structs /\ Len(buf) \in Nat
  BY DEF BufferInv, Chosen, Written, Bytes
<1>3. /\ Sized(todo, fixed_mode)
      /\ Len(buf) + Rest(todo, fixed_mode) <= MaxSize(struct, fixed_mode)
  BY DEF RoomInv, Writes
<1> DEFINE first == <<Work>>
           more == Tail(todo)
<1>4. first \in Seq(Items(who)) /\ more \in Seq(Items(who)) /\ todo = first \o more
  BY <1>1
<1> HIDE DEF first, more
<1>5. Sized(first \o more, fixed_mode)
  BY <1>3, <1>4
<1>6. /\ Sized(first, fixed_mode) /\ Sized(more, fixed_mode)
      /\ Rest(first \o more, fixed_mode) = Rest(first, fixed_mode) + Rest(more, fixed_mode)
      /\ Rest(first, fixed_mode) \in Nat /\ Rest(more, fixed_mode) \in Nat
  BY <1>4, <1>5, RestFacts
<1>7. ItemSize(Work.f, fixed_mode) \in Nat
  <2>1. ItemSizes(first, fixed_mode) \in Seq(Nat)
    BY <1>6 DEF Sized
  <2>2. 1 \in DOMAIN first /\ first[1] = Work
    BY DEF first
  <2>3. /\ 1 \in DOMAIN ItemSizes(first, fixed_mode)
        /\ ItemSizes(first, fixed_mode)[1] = ItemSize(first[1].f, fixed_mode)
    BY <2>2 DEF ItemSizes
  <2>4. QED
    BY <2>1, <2>2, <2>3
<1>8. Rest(first, fixed_mode) = ItemSize(Work.f, fixed_mode)
  BY <1>7, OneSized DEF first
<1>9. MaxSize(struct, fixed_mode) \in Nat
  BY <1>2, MaxSizeIs
<1>10. Rest(todo, fixed_mode) = ItemSize(Work.f, fixed_mode) + Rest(more, fixed_mode)
  BY <1>4, <1>6, <1>8
<1>11. Len(buf) + ItemSize(Work.f, fixed_mode) + Rest(more, fixed_mode) <= MaxSize(struct, fixed_mode)
  BY <1>2, <1>3, <1>6, <1>7, <1>9, <1>10
<1>12. QED
  BY <1>1, <1>2, <1>6, <1>7, <1>9, <1>11 DEF more

\* An item is taken apart into no more than it takes,
LEMMA ExpandsRoom ==
    ASSUME BufferInv, RoomInv, NEW who, Writes(who), Unchanging,
           NEW items \in Seq(Items(who)), Expands(items), Sized(items, fixed_mode),
           Rest(items, fixed_mode) \in Nat,
           Rest(items, fixed_mode) <= ItemSize(Work.f, fixed_mode)
    PROVE  RoomInv'
<1> DEFINE more == Tail(todo)
           both == items \o more
           size == MaxSize(struct, fixed_mode)
           rest == Rest(more, fixed_mode)
           here == Rest(items, fixed_mode)
           next == ItemSize(Work.f, fixed_mode)
<1>1. /\ Sized(more, fixed_mode) /\ rest \in Nat /\ Len(buf) \in Nat /\ size \in Nat
      /\ next \in Nat /\ here \in Nat /\ here <= next
      /\ Len(buf) + next + rest <= size
  BY NextSized
<1>2. more \in Seq(Items(who))
  BY NextItem
<1>3. /\ todo' = both /\ buf' = buf /\ wstatus' = wstatus /\ wstatus = "writing"
      /\ fixed_mode' = fixed_mode /\ struct' = struct /\ room' = room
  BY DEF Expands, Replace, Unchanging, choice, Writes
<1> HIDE DEF more
<1>4. Sized(both, fixed_mode)
  BY <1>1, <1>2, RestFacts
<1>5. Rest(both, fixed_mode) = here + rest
  BY <1>2, <1>4, RestFacts
<1> HIDE DEF both, size, rest, here, next
<1>6. Len(buf) + Rest(both, fixed_mode) <= size
  BY <1>1, <1>5
<1>7. /\ Sized(todo', fixed_mode')
      /\ Len(buf') + Rest(todo', fixed_mode') <= MaxSize(struct', fixed_mode')
  BY <1>3, <1>4, <1>6 DEF size
<1>8. wstatus' # "failed"
  BY <1>3
<1>9. QED
  BY <1>7, <1>8 DEF RoomInv

\* or written as no more bytes than it takes,
LEMMA EmittedRoom ==
    ASSUME BufferInv, RoomInv, NEW who, Writes(who), Unchanging,
           NEW bytes \in Bytes, Emitted(bytes),
           Len(bytes) <= ItemSize(Work.f, fixed_mode)
    PROVE  RoomInv'
<1> DEFINE more == Tail(todo)
           size == MaxSize(struct, fixed_mode)
           rest == Rest(more, fixed_mode)
           next == ItemSize(Work.f, fixed_mode)
<1>1. /\ Sized(more, fixed_mode) /\ rest \in Nat /\ Len(buf) \in Nat /\ size \in Nat
      /\ next \in Nat /\ Len(bytes) <= next /\ Len(buf) + next + rest <= size
  BY NextSized
<1>2. /\ todo' = more /\ buf' = buf \o bytes /\ wstatus' = wstatus /\ wstatus = "writing"
      /\ fixed_mode' = fixed_mode /\ struct' = struct /\ room' = room
  BY DEF Emitted, Unchanging, choice, Writes
<1>3. Len(buf') = Len(buf) + Len(bytes) /\ Len(bytes) \in Nat
  BY <1>2, Concatenated DEF BufferInv, Written, Bytes
<1> HIDE DEF more, size, rest, next
<1>4. Len(buf') + rest <= size
  BY <1>1, <1>3
<1>5. /\ Sized(todo', fixed_mode')
      /\ Len(buf') + Rest(todo', fixed_mode') <= MaxSize(struct', fixed_mode')
  BY <1>1, <1>2, <1>4 DEF size, rest
<1>6. wstatus' # "failed"
  BY <1>2
<1>7. QED
  BY <1>5, <1>6 DEF RoomInv

\* and a writer fails if there is less room than for that.
LEMMA GivesUpRoom ==
    ASSUME BufferInv, RoomInv, NEW who, Writes(who), Unchanging,
           NEW status, GivesUp(status), status # "writing",
           NEW k \in Nat, k <= ItemSize(Work.f, fixed_mode),
           status = "failed" => Len(buf) + k > room
    PROVE  RoomInv'
<1> DEFINE size == MaxSize(struct, fixed_mode)
           rest == Rest(Tail(todo), fixed_mode)
           next == ItemSize(Work.f, fixed_mode)
<1>1. /\ rest \in Nat /\ Len(buf) \in Nat /\ size \in Nat
      /\ next \in Nat /\ Len(buf) + next + rest <= size /\ k <= next
  BY NextSized
<1>2. room \in Nat
  BY DEF BufferInv, Chosen
<1>3. /\ wstatus' = status /\ fixed_mode' = fixed_mode /\ struct' = struct /\ room' = room
  BY DEF GivesUp, Unchanging, choice
<1> HIDE DEF size, rest, next
<1>4. room >= size => status # "failed"
  BY <1>1, <1>2
<1>5. room' >= MaxSize(struct', fixed_mode') => wstatus' # "failed"
  BY <1>3, <1>4 DEF size
<1>6. QED
  BY <1>3, <1>5 DEF RoomInv

LEMMA CWriteArrayRoom ==
    ASSUME BufferInv, RoomInv, CWriteArray
    PROVE  RoomInv'
<1> DEFINE f == Work.f
           items == Elements(f, Work.v)
           e == OneSize(f.wire_type, fixed_mode)
<1>1. /\ Writes("C") /\ IsArray(f) /\ (fixed_mode \/ ~field_is_string(f))
      /\ Expands(items) /\ Unchanging
  BY DEF CWriteArray
<1>2. Work \in CItems /\ f \in Fields
  BY <1>1, NextItem DEF Items
<1>3. Work.v \in CValues(f)
  BY <1>2, ItemFacts
<1>4. Work.v \in Seq(CValues(Element(f))) /\ Len(Work.v) = f.array_len
  BY <1>1, <1>2, <1>3, ArrayValues
<1>5. items \in Seq(CItems) /\ Len(items) = f.array_len
  BY <1>2, <1>4, ElementItems
<1>6. \A i \in 1 .. Len(items) : items[i].f = Element(f)
  BY <1>4, ElementFields
<1>7. fixed_mode \in BOOLEAN /\ ItemSize(f, fixed_mode) \in Nat
  BY <1>1, NextSized
<1>8. Sized(items, fixed_mode) /\ Rest(items, fixed_mode) = Len(items) * e
  <2> HIDE DEF items, f
  <2>1. QED
    BY <1>2, <1>5, <1>6, <1>7, ElementsSized
<1>9. ItemSize(f, fixed_mode) = f.array_len * e + 0 /\ e \in Nat
  BY <1>1, <1>2, <1>7, FieldSized
<1>10. f.array_len \in Nat
  BY <1>1, <1>2, FieldTypes
<1> HIDE DEF items, e
<1>11. Rest(items, fixed_mode) \in Nat /\ Rest(items, fixed_mode) <= ItemSize(f, fixed_mode)
  <2>1. Rest(items, fixed_mode) = f.array_len * e /\ f.array_len * e \in Nat
    BY <1>5, <1>8, <1>9, <1>10
  <2>2. QED
    BY <1>7, <1>9, <2>1
<1>12. QED
  BY <1>1, <1>5, <1>8, <1>11, ExpandsRoom DEF Items

LEMMA CWriteStringRoom ==
    ASSUME BufferInv, RoomInv, CWriteString
    PROVE  RoomInv'
<1> DEFINE f == Work.f
           text == TextOf(Work.v)
           before == <<Item(Prefix(f), Len(text))>>
           items == Elements(f, text)
           e == OneSize(f.wire_type, fixed_mode)
           lp == length_prefix_size(f.array_len)
<1>1. Writes("C") /\ field_is_string(f) /\ ~fixed_mode /\ Expands(before \o items) /\ Unchanging
  BY DEF CWriteString
<1>2. Work \in CItems /\ f \in Fields
  BY <1>1, NextItem DEF Items
<1>3. Work.v \in CValues(f)
  BY <1>2, ItemFacts
<1>4. /\ text \in Seq(Int) /\ Len(text) \in Nat /\ Len(text) <= f.array_len
      /\ Item(Prefix(f), Len(text)) \in CItems
      /\ items \in Seq(CItems) /\ Len(items) = Len(text)
  BY <1>1, <1>2, <1>3, TextItems
<1>5. \A i \in 1 .. Len(items) : items[i].f = Element(f)
  BY <1>4, ElementFields
<1>6. fixed_mode \in BOOLEAN /\ ItemSize(f, fixed_mode) \in Nat
  BY <1>1, NextSized
<1>7. Sized(items, fixed_mode) /\ Rest(items, fixed_mode) = Len(items) * e
  <2> HIDE DEF items, f
  <2>1. QED
    BY <1>2, <1>4, <1>5, <1>6, ElementsSized
<1>8. Sized(before, fixed_mode) /\ Rest(before, fixed_mode) = lp /\ lp \in Nat
  <2>1. /\ Prefix(f) \in Fields /\ ~IsArray(Prefix(f)) /\ ~IsStruct(Prefix(f))
        /\ Prefix(f).wire_type \in WireType /\ SizeOf(Prefix(f)) = lp /\ lp \in Widths
    BY PrefixTypes
  <2>2. lp \in Nat /\ lp # Error
    BY <2>1 DEF Widths, Error
  <2>3. OneSize(Prefix(f).wire_type, fixed_mode) = lp
    BY <2>1 DEF OneSize, SizeOf
  <2>4. ItemSize(Prefix(f), fixed_mode) = 1 * lp + 0
    <3>1. ~field_is_string(Prefix(f))
      BY <2>1 DEF field_is_string
    <3>2. ItemSize(Prefix(f), fixed_mode) = wire_size_of(Prefix(f), lp, fixed_mode)
      BY <2>3 DEF ItemSize
    <3>3. wire_size_of(Prefix(f), lp, fixed_mode) = 1 * lp + 0
      BY <2>1, <2>2, <3>1, Zenon DEF wire_size_of
    <3>4. QED
      BY <3>2, <3>3
  <2>5. Item(Prefix(f), Len(text)).f = Prefix(f)
    BY DEF Item
  <2> DEFINE x == Item(Prefix(f), Len(text))
  <2>6. ItemSize(x.f, fixed_mode) = lp /\ ItemSize(x.f, fixed_mode) \in Nat
    BY <2>2, <2>4, <2>5
  <2> HIDE DEF x
  <2>7. Sized(<<x>>, fixed_mode) /\ Rest(<<x>>, fixed_mode) = lp
    BY <2>6, OneSized
  <2>8. QED
    BY <2>2, <2>7 DEF x
<1>9. ItemSize(f, fixed_mode) = f.array_len * e + lp /\ e \in Nat /\ e \in {1, 2}
  <2>1. IsArray(f) /\ ~IsStruct(f) /\ SizeOf(f) \in {1, 2}
    BY <1>1, <1>2, StringTypes
  <2>2. QED
    BY <1>1, <1>2, <1>6, <2>1, FieldSized
<1>10. f.array_len \in Nat
  BY <1>1, <1>2, StringTypes
<1>11. before \in Seq(CItems)
  BY <1>4
<1> HIDE DEF items, before
<1>12. Sized(before \o items, fixed_mode)
  BY <1>4, <1>7, <1>8, <1>11, RestFacts
<1>13. Rest(before \o items, fixed_mode) = lp + Rest(items, fixed_mode)
  BY <1>4, <1>8, <1>11, <1>12, RestFacts
<1> HIDE DEF e, lp, text
<1>14. /\ Rest(before \o items, fixed_mode) \in Nat
       /\ Rest(before \o items, fixed_mode) <= ItemSize(f, fixed_mode)
  <2>1. Rest(items, fixed_mode) = Len(text) * e
    BY <1>4, <1>7
  <2>2. CASE e = 1
    BY <1>4, <1>8, <1>9, <1>10, <1>13, <2>1, <2>2
  <2>3. CASE e = 2
    BY <1>4, <1>8, <1>9, <1>10, <1>13, <2>1, <2>3
  <2>4. QED
    BY <1>9, <2>2, <2>3
<1>15. before \o items \in Seq(Items("C"))
  BY <1>4, <1>11, Concatenated DEF Items
<1>16. QED
  BY <1>1, <1>12, <1>14, <1>15, ExpandsRoom

\* A nested struct takes what its fields take, and a scalar its bytes.
LEMMA StructSized ==
    ASSUME BufferInv, RoomInv, NEW who, Writes(who), Work.f \in Fields,
           ~IsArray(Work.f), IsStruct(Work.f), NEW m
    PROVE  LET items == FieldsOf(Work.f.wire_type, m)
           IN  /\ Sized(items, fixed_mode)
               /\ Rest(items, fixed_mode) = ItemSize(Work.f, fixed_mode)
               /\ ItemSize(Work.f, fixed_mode) \in Nat
               /\ ItemSize(Work.f, fixed_mode) = MaxSize(Work.f.wire_type, fixed_mode)
<1> DEFINE f == Work.f
           e == OneSize(f.wire_type, fixed_mode)
<1>1. fixed_mode \in BOOLEAN /\ ItemSize(f, fixed_mode) \in Nat
  BY NextSized
<1>2. e \in Nat /\ ItemSize(f, fixed_mode) = 1 * e + 0 /\ e = MaxSize(f.wire_type, fixed_mode)
  <2>1. ~field_is_string(f)
    BY DEF field_is_string
  <2>2. QED
    BY <1>1, <2>1, FieldSized
<1> HIDE DEF e
<1>3. ItemSize(f, fixed_mode) = MaxSize(f.wire_type, fixed_mode)
  BY <1>2
<1>4. f.wire_type \in DOMAIN Structs
  BY DEF IsStruct
<1>5. QED
  BY <1>1, <1>3, <1>4, FieldsSized

LEMMA ScalarSized ==
    ASSUME BufferInv, RoomInv, NEW who, Writes(who), ~IsArray(Work.f), ~IsStruct(Work.f)
    PROVE  ItemSize(Work.f, fixed_mode) = SizeOf(Work.f) /\ SizeOf(Work.f) \in Nat
<1> DEFINE f == Work.f
           e == OneSize(f.wire_type, fixed_mode)
<1>1. fixed_mode \in BOOLEAN /\ ItemSize(f, fixed_mode) \in Nat /\ f \in Fields
  BY NextSized
<1>2. e \in Nat /\ ItemSize(f, fixed_mode) = 1 * e + 0 /\ e = SizeOf(f)
  <2>1. ~field_is_string(f)
    BY DEF field_is_string
  <2>2. QED
    BY <1>1, <2>1, FieldSized
<1> HIDE DEF e
<1>3. QED
  BY <1>2

LEMMA CWriteStructRoom ==
    ASSUME BufferInv, RoomInv, CWriteStruct
    PROVE  RoomInv'
<1> DEFINE f == Work.f
           items == FieldsOf(f.wire_type, Work.v)
<1>1. /\ Writes("C") /\ ~IsArray(f) /\ IsStruct(f) /\ Unchanging /\ Expands(items)
  BY DEF CWriteStruct
<1>2. Work \in CItems /\ f \in Fields
  BY <1>1, NextItem DEF Items
<1>3. Work.v \in CValues(f)
  BY <1>2, ItemFacts
<1>4. Work.v \in CMessages[f.wire_type] /\ f.wire_type \in DOMAIN Structs
  BY <1>1, <1>3 DEF CValues, IsStruct
<1>5. items \in Seq(Items("C"))
  BY <1>4, FieldItems DEF Items
<1>6. fixed_mode \in BOOLEAN
  BY <1>1, NextSized
<1>7. /\ Sized(items, fixed_mode)
      /\ Rest(items, fixed_mode) = ItemSize(f, fixed_mode) /\ ItemSize(f, fixed_mode) \in Nat
  BY <1>1, <1>2, <1>4, <1>6, StructSized
<1> HIDE DEF items
<1>8. Rest(items, fixed_mode) \in Nat /\ Rest(items, fixed_mode) <= ItemSize(f, fixed_mode)
  BY <1>7
<1>9. QED
  BY <1>1, <1>5, <1>7, <1>8, ExpandsRoom

LEMMA CWriteScalarRoom ==
    ASSUME BufferInv, RoomInv, CWriteScalar
    PROVE  RoomInv'
<1> DEFINE f == Work.f
           bytes == buffers_write(Work.v, CType(f), big_endian)
<1>1. Writes("C") /\ ~IsArray(f) /\ ~IsStruct(f) /\ Unchanging
  BY DEF CWriteScalar
<1>2. Work \in CItems /\ f \in Fields
  BY <1>1, NextItem DEF Items
<1>3. Work.v \in CValues(f)
  BY <1>2, ItemFacts
<1>4. Work.v \in Int
  BY <1>1, <1>3 DEF CValues
<1>5. bytes \in Bytes /\ Len(bytes) = SizeOf(f)
  <2>1. CType(f) \in DOMAIN SCALAR_TYPE_MAP /\ SCALAR_TYPE_MAP[CType(f)] = f.wire_type
    BY <1>1, <1>2, CTypes
  <2>2. QED
    BY <1>4, <2>1, WriteBytes DEF SizeOf
<1>6. Len(bytes) <= ItemSize(f, fixed_mode) /\ Len(bytes) \in Nat
  BY <1>1, <1>5, ScalarSized
<1>7. \/ Len(buf) + Len(bytes) <= room /\ Emitted(bytes)
      \/ Len(buf) + Len(bytes) > room /\ GivesUp("failed")
  BY DEF CWriteScalar
<1> HIDE DEF bytes
<1>8. CASE Emitted(bytes)
  BY <1>1, <1>5, <1>6, <1>8, EmittedRoom
<1>9. CASE Len(buf) + Len(bytes) > room /\ GivesUp("failed")
  <2> DEFINE k == Len(bytes)
  <2>1. k \in Nat /\ k <= ItemSize(f, fixed_mode) /\ Len(buf) + k > room
    BY <1>6, <1>9
  <2> HIDE DEF k
  <2>2. QED
    BY <1>1, <1>9, <2>1, GivesUpRoom
<1>10. QED
  BY <1>7, <1>8, <1>9

LEMMA CsEmitRoom ==
    ASSUME BufferInv, RoomInv, Writes("C#"), Unchanging,
           NEW bytes \in Bytes, CsEmit(bytes), Len(bytes) <= ItemSize(Work.f, fixed_mode)
    PROVE  RoomInv'
<1>1. CASE Emitted(bytes)
  BY <1>1, EmittedRoom
<1>2. CASE Len(buf) + Len(bytes) > room /\ GivesUp("failed")
  <2> DEFINE k == Len(bytes)
  <2>1. k \in Nat /\ k <= ItemSize(Work.f, fixed_mode) /\ Len(buf) + k > room
    BY <1>2 DEF Bytes
  <2> HIDE DEF k
  <2>2. QED
    BY <1>2, <2>1, GivesUpRoom
<1>3. QED
  BY <1>1, <1>2 DEF CsEmit

\* A string takes its length and all of its array.
LEMMA StringSized ==
    ASSUME NEW f \in Fields, field_is_string(f), NEW fixed \in BOOLEAN,
           ItemSize(f, fixed) \in Nat
    PROVE  ItemSize(f, fixed) = f.array_len * SizeOf(f)
               + (IF fixed THEN 0 ELSE length_prefix_size(f.array_len))
<1>1. IsArray(f) /\ ~IsStruct(f)
  BY StringTypes
<1>2. /\ OneSize(f.wire_type, fixed) = SizeOf(f)
      /\ ItemSize(f, fixed) = f.array_len * OneSize(f.wire_type, fixed)
            + (IF ~fixed THEN length_prefix_size(f.array_len) ELSE 0)
  BY <1>1, FieldSized
<1>3. (IF ~fixed THEN length_prefix_size(f.array_len) ELSE 0)
          = IF fixed THEN 0 ELSE length_prefix_size(f.array_len)
  OBVIOUS
<1>4. QED
  BY <1>2, <1>3

LEMMA CsWriteStringRoom ==
    ASSUME BufferInv, RoomInv, CsWriteString
    PROVE  RoomInv'
<1> DEFINE f == Work.f
           n == f.array_len
           units == UnitBytes(Work.v, n)
           encoded == IF is_char_array(f) THEN GetBytes(Fitting(Work.v, n)) ELSE units
           bytes == IF is_char_array(f) THEN GetBytes(Work.v) ELSE units
           count == IF is_char_array(f) THEN Min({Len(bytes), n}) ELSE Len(units) \div 2
           prefix == bp_write(count, Prefix(f).wire_type, big_endian)
           padded == PaddedWith(0, encoded, n * SizeOf(f))
           tooLong == is_char_array(f) /\ Len(bytes) > n
           lp == length_prefix_size(n)
<1>1. Writes("C#") /\ field_is_string(f) /\ Unchanging
  BY DEF CsWriteString
<1>2. \/ fixed_mode /\ CsEmit(padded)
      \/ fixed_mode /\ GivesUp(IF Len(buf) + n * SizeOf(f) <= room THEN "thrown" ELSE "failed")
      \/ ~fixed_mode /\ ~tooLong /\ CsEmit(prefix \o bytes)
      \/ GivesUp("thrown")
      \/ ~fixed_mode /\ tooLong /\ Len(buf) + Len(prefix) + n > room /\ GivesUp("failed")
  BY DEF CsWriteString, UnitBytes
<1>3. /\ f \in Fields /\ encoded \in Bytes /\ bytes \in Bytes /\ n \in Nat /\ n * SizeOf(f) \in Nat
      /\ big_endian \in BOOLEAN /\ fixed_mode \in BOOLEAN /\ Len(buf) \in Nat /\ room \in Nat
      /\ SizeOf(f) = IF is_char_array(f) THEN 1 ELSE 2
      /\ units \in Bytes /\ Len(units) <= 2 * n
  BY <1>1, CsStringFacts
<1>4. count \in Int
  <2>1. Len(bytes) \in Int /\ n \in Int
    BY <1>3 DEF Bytes
  <2>2. Min({Len(bytes), n}) \in Int
    <3> HIDE DEF bytes, n
    <3>1. Min({Len(bytes), n}) \in {Len(bytes), n}
      BY <2>1, MinOfTwo
    <3>2. QED
      BY <2>1, <3>1
  <2>3. QED
    BY <1>1, <2>2, CsStringFacts
<1>5. ItemSize(f, fixed_mode) \in Nat
  BY <1>1, NextSized
<1>6. ItemSize(f, fixed_mode) = n * SizeOf(f) + (IF fixed_mode THEN 0 ELSE lp)
  BY <1>1, <1>3, <1>5, StringSized
<1>7. ~tooLong => Len(bytes) <= n * SizeOf(f)
  <2>1. Len(bytes) \in Nat /\ Len(units) \in Nat
    BY <1>3 DEF Bytes
  <2>2. CASE is_char_array(f)
    <3> HIDE DEF bytes, n
    <3>1. n * 1 = n
      BY <1>3
    <3>2. QED
      BY <1>3, <2>1, <2>2, <3>1
  <2>3. CASE ~is_char_array(f)
    <3>1. n * 2 = 2 * n /\ bytes = units /\ SizeOf(f) = 2
      BY <1>3, <2>3
    <3>2. QED
      BY <1>3, <3>1
  <2>4. QED
    BY <2>2, <2>3
<1>8. tooLong => n * SizeOf(f) = n
  BY <1>3
<1> HIDE DEF encoded, bytes, count, units
<1>9. prefix \in Bytes /\ Len(prefix) = lp /\ lp \in Nat
  BY <1>3, <1>4, PrefixBytes
<1>10. padded \in Bytes /\ Len(padded) = n * SizeOf(f)
  <2>1. 0 \in Byte
    BY ByteBaseAssumption DEF Byte
  <2>2. QED
    BY <1>3, <2>1, PaddedFacts DEF Bytes
<1>11. /\ prefix \o bytes \in Bytes /\ Len(prefix \o bytes) = lp + Len(bytes)
       /\ Len(bytes) \in Nat
  <2> HIDE DEF prefix, lp
  <2>1. prefix \in Seq(Byte) /\ bytes \in Seq(Byte)
    BY <1>3, <1>9 DEF Bytes
  <2>2. prefix \o bytes \in Seq(Byte) /\ Len(prefix \o bytes) = Len(prefix) + Len(bytes)
    BY <2>1, Concatenated
  <2>3. Len(bytes) \in Nat
    BY <2>1
  <2>4. QED
    BY <1>9, <2>2, <2>3 DEF Bytes
<1> HIDE DEF prefix, padded, lp, tooLong
<1>12. CASE fixed_mode /\ CsEmit(padded)
  <2>1. Len(padded) <= ItemSize(f, fixed_mode)
    BY <1>3, <1>6, <1>10, <1>12
  <2>2. QED
    BY <1>1, <1>10, <1>12, <2>1, CsEmitRoom
<1>13. CASE /\ fixed_mode
            /\ GivesUp(IF Len(buf) + n * SizeOf(f) <= room THEN "thrown" ELSE "failed")
  <2> DEFINE k == n * SizeOf(f)
             status == IF Len(buf) + k <= room THEN "thrown" ELSE "failed"
  <2>1. k \in Nat /\ k <= ItemSize(f, fixed_mode) /\ GivesUp(status)
    BY <1>3, <1>6, <1>13
  <2>2. status # "writing" /\ (status = "failed" => Len(buf) + k > room)
    <3> HIDE DEF k
    <3>1. QED
      BY <1>3, <2>1
  <2> HIDE DEF k, status
  <2>3. QED
    BY <1>1, <2>1, <2>2, GivesUpRoom
<1>14. CASE ~fixed_mode /\ ~tooLong /\ CsEmit(prefix \o bytes)
  <2>1. Len(prefix \o bytes) <= ItemSize(f, fixed_mode)
    <3> DEFINE k == n * SizeOf(f)
    <3>1. k \in Nat /\ ItemSize(f, fixed_mode) = k + lp /\ Len(bytes) <= k
      BY <1>3, <1>6, <1>7, <1>14
    <3> HIDE DEF k
    <3>2. QED
      BY <1>9, <1>11, <3>1
  <2>2. QED
    BY <1>1, <1>11, <1>14, <2>1, CsEmitRoom
<1>15. CASE GivesUp("thrown")
  <2>1. 0 \in Nat /\ 0 <= ItemSize(f, fixed_mode) /\ "thrown" # "failed" /\ "thrown" # "writing"
    BY <1>5
  <2>2. QED
    BY <1>1, <1>15, <2>1, GivesUpRoom
<1>16. CASE ~fixed_mode /\ tooLong /\ Len(buf) + Len(prefix) + n > room /\ GivesUp("failed")
  <2> DEFINE k == lp + n
  <2>1. k \in Nat /\ k <= ItemSize(f, fixed_mode) /\ Len(buf) + k > room
    BY <1>3, <1>6, <1>8, <1>9, <1>16
  <2> HIDE DEF k
  <2>2. QED
    BY <1>1, <1>16, <2>1, GivesUpRoom
<1>17. QED
  BY <1>2, <1>12, <1>13, <1>14, <1>15, <1>16

LEMMA CsWriteListRoom ==
    ASSUME BufferInv, RoomInv, CsWriteList
    PROVE  RoomInv'
<1> DEFINE f == Work.f
           count == Min({Len(Work.v), f.array_len})
           cut == Cut(Work.v, count)
           some == Elements(f, cut)
           slots == [i \in 1 .. f.array_len - count |-> Slot(Element(f))]
           items == some \o slots
           e == OneSize(f.wire_type, fixed_mode)
<1>1. Writes("C#") /\ IsArray(f) /\ IsStruct(f) /\ Unchanging /\ Expands(items)
  BY DEF CsWriteList, Slot
<1>2. /\ f \in Fields /\ f.array_len \in Nat /\ some \in Seq(CsItems) /\ slots \in Seq(CsItems)
      /\ Len(some) + Len(slots) = f.array_len
  BY <1>1, ListItems
<1>3. Work.f \in Fields /\ ~field_is_string(f)
  BY <1>1, <1>2, StringTypes
<1>4. \A i \in 1 .. Len(some) : some[i].f = Element(f)
  <2>1. DOMAIN some = DOMAIN cut
    BY DEF Elements
  <2>2. \A i \in DOMAIN cut : some[i] = Item(Element(f), cut[i])
    BY DEF Elements
  <2>3. \A x : Item(Element(f), x).f = Element(f)
    BY DEF Item
  <2> HIDE DEF some
  <2>4. DOMAIN some = 1 .. Len(some)
    BY <1>2
  <2>5. QED
    BY <2>1, <2>2, <2>3, <2>4, Zenon
<1>5. \A i \in 1 .. Len(slots) : slots[i].f = Element(f)
  <2>1. Slot(Element(f)).f = Element(f)
    BY DEF Slot, Item
  <2>2. \A i \in DOMAIN slots : slots[i].f = Element(f)
    BY <2>1
  <2> HIDE DEF slots
  <2>3. DOMAIN slots = 1 .. Len(slots)
    BY <1>2
  <2>4. QED
    BY <2>2, <2>3
<1> HIDE DEF some, slots
<1>6. items \in Seq(CsItems) /\ Len(items) = f.array_len
  BY <1>2, Concatenated
<1>7. \A i \in 1 .. Len(items) : items[i].f = Element(f)
  <2> DEFINE n == Len(some)
             m == Len(slots)
  <2>1. items = [i \in 1 .. n + m |-> IF i <= n THEN some[i] ELSE slots[i - n]]
    BY <1>2, Joined
  <2>2. n \in Nat /\ m \in Nat /\ Len(items) = n + m
    BY <1>2, <1>6
  <2> HIDE DEF items, n, m
  <2>3. \A i \in 1 .. n : some[i].f = Element(f)
    BY <1>4 DEF n
  <2>4. \A i \in 1 .. m : slots[i].f = Element(f)
    BY <1>5 DEF m
  <2>5. ASSUME NEW i \in 1 .. n + m
        PROVE  items[i].f = Element(f)
    <3>1. CASE i <= n
      <4>1. i \in 1 .. n /\ items[i] = some[i]
        BY <2>1, <2>2, <3>1
      <4>2. QED
        BY <2>3, <4>1
    <3>2. CASE ~(i <= n)
      <4>1. i - n \in 1 .. m /\ items[i] = slots[i - n]
        BY <2>1, <2>2, <3>2
      <4>2. QED
        BY <2>4, <4>1
    <3>3. QED
      BY <3>1, <3>2
  <2>6. QED
    BY <2>2, <2>5
<1> HIDE DEF items
<1>8. fixed_mode \in BOOLEAN /\ ItemSize(f, fixed_mode) \in Nat
  BY <1>1, NextSized
<1>9. Sized(items, fixed_mode) /\ Rest(items, fixed_mode) = Len(items) * e
  <2> HIDE DEF f
  <2>1. QED
    BY <1>2, <1>6, <1>7, <1>8, ElementsSized
<1>10. ItemSize(f, fixed_mode) = f.array_len * e + 0 /\ e \in Nat
  BY <1>1, <1>2, <1>3, <1>8, FieldSized
<1> HIDE DEF e
<1>11. Rest(items, fixed_mode) \in Nat /\ Rest(items, fixed_mode) <= ItemSize(f, fixed_mode)
  <2>1. Rest(items, fixed_mode) = f.array_len * e /\ f.array_len * e \in Nat
    BY <1>2, <1>6, <1>9, <1>10
  <2>2. QED
    BY <1>8, <1>10, <2>1
<1>12. QED
  BY <1>1, <1>6, <1>9, <1>11, ExpandsRoom DEF Items

LEMMA CsFillRoom ==
    ASSUME BufferInv, RoomInv, CsFill
    PROVE  RoomInv'
<1> DEFINE n == StructMaxSize(Work.f.wire_type)
           zeros == [i \in 1 .. n |-> 0]
<1>1. Writes("C#") /\ Work.fill /\ Unchanging
  BY DEF CsFill
<1>2. \/ Len(buf) + n <= room /\ Emitted(zeros)
      \/ GivesUp("thrown")
  BY DEF CsFill
<1>3. Work.f \in Fields /\ IsStruct(Work.f) /\ ~IsArray(Work.f)
  BY <1>1, FillItem
<1>4. ItemSize(Work.f, fixed_mode) = n /\ n \in Nat
  BY <1>1, <1>3, StructSized DEF MaxSize, StructMaxSize
<1> HIDE DEF n
<1>5. zeros \in Bytes /\ Len(zeros) = n
  <2>1. 0 \in Byte
    BY ByteBaseAssumption DEF Byte
  <2>2. QED
    BY <1>4, <2>1, RepeatedFacts DEF Bytes
<1> HIDE DEF zeros
<1>6. CASE Emitted(zeros)
  <2>1. Len(zeros) <= ItemSize(Work.f, fixed_mode)
    BY <1>4, <1>5
  <2>2. QED
    BY <1>1, <1>5, <1>6, <2>1, EmittedRoom
<1>7. CASE GivesUp("thrown")
  <2>1. n <= ItemSize(Work.f, fixed_mode) /\ "thrown" # "failed" /\ "thrown" # "writing"
    BY <1>4
  <2>2. QED
    BY <1>1, <1>4, <1>7, <2>1, GivesUpRoom
<1>8. QED
  BY <1>2, <1>6, <1>7

LEMMA CsWriteArrayRoom ==
    ASSUME BufferInv, RoomInv, CsWriteArray
    PROVE  RoomInv'
<1> DEFINE f == Work.f
           padded == PaddedWith(0, Work.v, f.array_len)
           items == Elements(f, padded)
           e == OneSize(f.wire_type, fixed_mode)
<1>1. /\ Writes("C#") /\ IsArray(f) /\ ~IsStruct(f) /\ ~field_is_string(f) /\ Unchanging
      /\ Expands(items)
  BY DEF CsWriteArray
<1>2. /\ f \in Fields /\ f.array_len \in Nat
      /\ items \in Seq(CsItems) /\ Len(items) = f.array_len
  BY <1>1, PaddedItems
<1>3. \A i \in 1 .. Len(items) : items[i].f = Element(f)
  <2>1. DOMAIN items = DOMAIN padded
    BY DEF Elements
  <2>2. \A i \in DOMAIN padded : items[i] = Item(Element(f), padded[i])
    BY DEF Elements
  <2>3. \A x : Item(Element(f), x).f = Element(f)
    BY DEF Item
  <2> HIDE DEF items
  <2>4. DOMAIN items = 1 .. Len(items)
    BY <1>2
  <2>5. QED
    BY <2>1, <2>2, <2>3, <2>4, Zenon
<1> HIDE DEF items
<1>4. fixed_mode \in BOOLEAN /\ ItemSize(f, fixed_mode) \in Nat
  BY <1>1, NextSized
<1>5. Sized(items, fixed_mode) /\ Rest(items, fixed_mode) = Len(items) * e
  <2> HIDE DEF f
  <2>1. QED
    BY <1>2, <1>3, <1>4, ElementsSized
<1>6. ItemSize(f, fixed_mode) = f.array_len * e + 0 /\ e \in Nat
  BY <1>1, <1>2, <1>4, FieldSized
<1> HIDE DEF e
<1>7. Rest(items, fixed_mode) \in Nat /\ Rest(items, fixed_mode) <= ItemSize(f, fixed_mode)
  <2>1. Rest(items, fixed_mode) = f.array_len * e /\ f.array_len * e \in Nat
    BY <1>2, <1>5, <1>6
  <2>2. QED
    BY <1>4, <1>6, <2>1
<1>8. QED
  BY <1>1, <1>2, <1>5, <1>7, ExpandsRoom DEF Items

LEMMA CsWriteStructRoom ==
    ASSUME BufferInv, RoomInv, CsWriteStruct
    PROVE  RoomInv'
<1> DEFINE f == Work.f
           items == FieldsOf(f.wire_type, Work.v[1])
<1>1. Writes("C#") /\ ~IsArray(f) /\ IsStruct(f) /\ ~Work.fill /\ Unchanging
  BY DEF CsWriteStruct
<1>2. \/ Work.v # <<>> /\ Expands(items)
      \/ GivesUp("null")
  BY DEF CsWriteStruct
<1>3. f \in Fields
  BY <1>1, NextItem
<1>4. /\ Sized(items, fixed_mode)
      /\ Rest(items, fixed_mode) = ItemSize(f, fixed_mode) /\ ItemSize(f, fixed_mode) \in Nat
  BY <1>1, <1>3, StructSized
<1>5. CASE Work.v # <<>> /\ Expands(items)
  <2>1. items \in Seq(Items("C#"))
    BY <1>1, <1>5, NestedItems DEF Items
  <2> HIDE DEF items
  <2>2. Rest(items, fixed_mode) \in Nat /\ Rest(items, fixed_mode) <= ItemSize(f, fixed_mode)
    BY <1>4
  <2>3. QED
    BY <1>1, <1>4, <1>5, <2>1, <2>2, ExpandsRoom
<1>6. CASE GivesUp("null")
  <2>1. 0 \in Nat /\ 0 <= ItemSize(f, fixed_mode) /\ "null" # "failed" /\ "null" # "writing"
    BY <1>4
  <2>2. QED
    BY <1>1, <1>6, <2>1, GivesUpRoom
<1>7. QED
  BY <1>2, <1>5, <1>6

LEMMA CsWriteScalarRoom ==
    ASSUME BufferInv, RoomInv, CsWriteScalar
    PROVE  RoomInv'
<1> DEFINE bytes == CsWrite(Work.v, Work.f, big_endian)
<1>1. Writes("C#") /\ ~IsArray(Work.f) /\ ~IsStruct(Work.f) /\ Unchanging /\ CsEmit(bytes)
  BY DEF CsWriteScalar
<1>2. bytes \in Bytes /\ Len(bytes) = SizeOf(Work.f)
  BY <1>1, CsScalarBytes
<1>3. Len(bytes) <= ItemSize(Work.f, fixed_mode)
  BY <1>1, <1>2, ScalarSized
<1>4. QED
  BY <1>1, <1>2, <1>3, CsEmitRoom

LEMMA WriteEndsRoom ==
    ASSUME BufferInv, RoomInv, WriteEnds
    PROVE  RoomInv'
<1>1. wstatus' = "written"
  BY DEF WriteEnds
<1>2. QED
  BY <1>1 DEF RoomInv

\* What is sent and read changes nothing of a writer.
LEMMA OthersRoom ==
    ASSUME RoomInv, UNCHANGED <<choice, writing>>
    PROVE  RoomInv'
<1>1. /\ UNCHANGED <<fixed_mode, big_endian, struct, writer, message, room>>
      /\ UNCHANGED <<todo, buf, wstatus>>
  BY DEF choice, writing
<1>2. QED
  BY <1>1 DEF RoomInv

LEMMA InitRoom == Init => RoomInv
<1> SUFFICES ASSUME Init
             PROVE  RoomInv
  OBVIOUS
<1>1. /\ fixed_mode \in BOOLEAN /\ struct \in DOMAIN Structs /\ todo = FieldsOf(struct, message)
      /\ buf = <<>> /\ wstatus = "writing"
  BY DEF Init
<1>2. Sized(todo, fixed_mode) /\ Rest(todo, fixed_mode) = MaxSize(struct, fixed_mode)
  BY <1>1, FieldsSized
<1>3. MaxSize(struct, fixed_mode) \in Nat
  BY <1>1, MaxSizeIs
<1>4. Len(buf) + Rest(todo, fixed_mode) <= MaxSize(struct, fixed_mode)
  BY <1>1, <1>2, <1>3
<1>5. QED
  BY <1>1, <1>2, <1>4 DEF RoomInv

\* Every step of a writer leaves room for the rest of the message.
LEMMA NextRoom ==
    ASSUME BufferInv, RoomInv, [Next]_vars
    PROVE  RoomInv'
<1>1. CASE Write
  BY <1>1, CWriteArrayRoom, CWriteStringRoom, CWriteStructRoom, CWriteScalarRoom,
     CsWriteStringRoom, CsWriteListRoom, CsFillRoom, CsWriteArrayRoom,
     CsWriteStructRoom, CsWriteScalarRoom, WriteEndsRoom
  DEF Write
<1>2. CASE Deliver \/ DeliverCut \/ DeliverChanged
  <2>1. ASSUME NEW b, NEW how, Sent(b, how)
        PROVE  RoomInv'
    BY <2>1, OthersRoom DEF Sent
  <2>2. QED
    BY <1>2, <2>1 DEF Deliver, DeliverCut, DeliverChanged
<1>3. CASE Read
  <2>1. UNCHANGED <<choice, writing>>
    BY <1>3
    DEF Read, CReadStruct, CReadArray, CReadScalar, CReadString, CsReadStruct, CsReadArray,
        CsReadScalar, CsReadString, Nested, Loop, StreamRead, ReadEnds, StillReading
  <2>2. QED
    BY <2>1, OthersRoom
<1>4. CASE UNCHANGED vars
  <2>1. UNCHANGED <<choice, writing>>
    BY <1>4 DEF vars
  <2>2. QED
    BY <2>1, OthersRoom
<1>5. QED
  BY <1>1, <1>2, <1>3, <1>4 DEF Next

\* No writer with as much room as the generators define for its struct runs out of it.
THEOREM RoomIsEnough == Spec => []MaxSizeIsEnough
<1>1. RoomInv => MaxSizeIsEnough
  BY DEF RoomInv, MaxSizeIsEnough, MaxSize, StructMaxSize
<1>2. Init => BufferInv /\ RoomInv
  BY InitBuffer, InitRoom
<1>3. BufferInv /\ RoomInv /\ [Next]_vars => (BufferInv /\ RoomInv)'
  BY NextBuffer, NextRoom
<1>4. QED
  BY <1>1, <1>2, <1>3, PTL DEF Spec

-----------------------------------------------------------------------------
(***************************************************************************)
(* The readers of both languages decide alike.                             *)
(***************************************************************************)

\* The ends that states come to, if some of them are an end and each other has a next:
\* the least set of pairs that is closed backwards.
ClosedBackwards(X, S, O, final, end, step) ==
    /\ \A s \in final : <<s, end[s]>> \in X
    /\ \A s \in S \ final : \A o \in O : <<step[s], o>> \in X => <<s, o>> \in X
Ends(S, O, final, end, step) ==
    {x \in S \X O : \A X \in SUBSET (S \X O) : ClosedBackwards(X, S, O, final, end, step) => x \in X}

\* A state has one end at most.
LEMMA OneEnd ==
    ASSUME NEW S, NEW O, NEW final \in SUBSET S, NEW end \in [final -> O],
           NEW step \in [S \ final -> S]
    PROVE  LET E == Ends(S, O, final, end, step)
           IN  /\ ClosedBackwards(E, S, O, final, end, step)
               /\ \A s \in S : \A o, q \in O : <<s, o>> \in E /\ <<s, q>> \in E => o = q
<1> DEFINE E == Ends(S, O, final, end, step)
           Closed(X) == ClosedBackwards(X, S, O, final, end, step)
<1>1. E \subseteq S \X O /\ \A X \in SUBSET (S \X O) : Closed(X) => E \subseteq X
  BY DEF Ends
<1>2. \A s \in final : s \in S /\ end[s] \in O
  OBVIOUS
<1>3. \A s \in S \ final : s \in S /\ step[s] \in S
  OBVIOUS
<1>4. Closed(E)
  <2>1. ASSUME NEW s \in final
        PROVE  <<s, end[s]>> \in E
    <3>1. <<s, end[s]>> \in S \X O
      BY <1>2
    <3>2. \A X \in SUBSET (S \X O) : Closed(X) => <<s, end[s]>> \in X
      BY DEF ClosedBackwards
    <3>3. QED
      BY <3>1, <3>2 DEF Ends
  <2>2. ASSUME NEW s \in S \ final, NEW o \in O, <<step[s], o>> \in E
        PROVE  <<s, o>> \in E
    <3>1. <<s, o>> \in S \X O
      OBVIOUS
    <3>2. \A X \in SUBSET (S \X O) : Closed(X) => <<s, o>> \in X
      <4>1. ASSUME NEW X \in SUBSET (S \X O), Closed(X)
            PROVE  <<s, o>> \in X
        <5>1. <<step[s], o>> \in X
          BY <1>1, <2>2, <4>1
        <5>2. QED
          BY <4>1, <5>1 DEF ClosedBackwards
      <4>2. QED
        BY <4>1
    <3>3. QED
      BY <3>1, <3>2 DEF Ends
  <2>3. QED
    BY <2>1, <2>2 DEF ClosedBackwards
<1> HIDE DEF E
\* An end is a state's own, or that of the next state.
<1> DEFINE Comes(s, o) == (s \in final => o = end[s]) /\ (s \notin final => <<step[s], o>> \in E)
           G == {x \in E : Comes(x[1], x[2])}
<1>5. ASSUME NEW s \in S, NEW o \in O, <<s, o>> \in E
      PROVE  Comes(s, o)
  <2>1. \A a, b : <<a, b>> \in G <=> <<a, b>> \in E /\ Comes(a, b)
    OBVIOUS
  <2>2. G \in SUBSET (S \X O) /\ G \subseteq E
    BY <1>1
  <2> HIDE DEF G
  <2>3. Closed(G)
    <3>1. ASSUME NEW x \in final
          PROVE  <<x, end[x]>> \in G
      BY <1>4, <2>1, <3>1 DEF ClosedBackwards
    <3>2. ASSUME NEW x \in S \ final, NEW y \in O, <<step[x], y>> \in G
          PROVE  <<x, y>> \in G
      <4>1. <<step[x], y>> \in E
        BY <2>2, <3>2
      <4>2. <<x, y>> \in E
        BY <1>4, <4>1 DEF ClosedBackwards
      <4>3. QED
        BY <2>1, <4>1, <4>2
    <3>3. QED
      BY <3>1, <3>2 DEF ClosedBackwards
  <2>4. <<s, o>> \in G
    BY <1>1, <1>5, <2>2, <2>3
  <2>5. QED
    BY <2>1, <2>4
<1> DEFINE Only(s, o) == \A q \in O : <<s, q>> \in E => o = q
           U == {x \in E : Only(x[1], x[2])}
<1>6. ASSUME NEW s \in S, NEW o \in O, <<s, o>> \in E
      PROVE  Only(s, o)
  <2>1. \A a, b : <<a, b>> \in U <=> <<a, b>> \in E /\ Only(a, b)
    OBVIOUS
  <2>2. U \in SUBSET (S \X O) /\ U \subseteq E
    BY <1>1
  <2> HIDE DEF U
  <2>3. Closed(U)
    <3>1. ASSUME NEW x \in final
          PROVE  <<x, end[x]>> \in U
      <4>1. <<x, end[x]>> \in E
        BY <1>4 DEF ClosedBackwards
      <4>2. Only(x, end[x])
        BY <1>2, <1>5
      <4>3. QED
        BY <2>1, <4>1, <4>2
    <3>2. ASSUME NEW x \in S \ final, NEW y \in O, <<step[x], y>> \in U
          PROVE  <<x, y>> \in U
      <4>1. <<step[x], y>> \in E /\ Only(step[x], y)
        BY <2>1, <3>2
      <4>2. <<x, y>> \in E
        BY <1>4, <4>1 DEF ClosedBackwards
      <4>3. Only(x, y)
        <5>1. ASSUME NEW q \in O, <<x, q>> \in E
              PROVE  y = q
          <6>1. <<step[x], q>> \in E
            BY <1>5, <5>1
          <6>2. QED
            BY <4>1, <6>1
        <5>2. QED
          BY <5>1
      <4>4. QED
        BY <2>1, <4>2, <4>3
    <3>3. QED
      BY <3>1, <3>2 DEF ClosedBackwards
  <2>4. <<s, o>> \in U
    BY <1>1, <1>6, <2>2, <2>3
  <2>5. QED
    BY <2>1, <2>4
<1>7. QED
  BY <1>4, <1>6 DEF E

\* What a reader has left to read and how far it has come, and how that ends: at a
\* position, or refused.
State == Seq(Fields) \X Nat
End == Nat \cup {NoLen}

\* A scalar or a string is read from the bytes w at p, or the bytes do not hold it.
IsLeaf(f) == field_is_string(f) \/ (~IsArray(f) /\ ~IsStruct(f))
PrefixOf(f, fixed) == IF fixed THEN 0 ELSE length_prefix_size(f.array_len)
LengthAt(w, fixed, big, f, p) ==
    IF fixed THEN f.array_len
    ELSE read_unsigned(SubSeq(w, p + 1, p + PrefixOf(f, fixed)), big)
Takes(w, fixed, big, f, p) ==
    IF field_is_string(f) THEN PrefixOf(f, fixed) + LengthAt(w, fixed, big, f, p) * SizeOf(f)
    ELSE SizeOf(f)
Lacks(w, fixed, big, f, p) ==
    \/ field_is_string(f) /\ Len(w) - p < PrefixOf(f, fixed)
    \/ field_is_string(f) /\ LengthAt(w, fixed, big, f, p) > f.array_len
    \/ Len(w) - p < Takes(w, fixed, big, f, p)

\* Anything else is read as what it consists of.
Content(f) == IF IsArray(f) THEN [i \in 1 .. f.array_len |-> Element(f)]
                            ELSE Structs[f.wire_type]

Final(w, fixed, big) ==
    {s \in State : s[1] = <<>> \/ (IsLeaf(Head(s[1])) /\ Lacks(w, fixed, big, Head(s[1]), s[2]))}
EndOf(w, fixed, big) ==
    [s \in Final(w, fixed, big) |-> IF s[1] = <<>> THEN s[2] ELSE NoLen]
StepOf(w, fixed, big) ==
    [s \in State \ Final(w, fixed, big) |->
        IF IsLeaf(Head(s[1])) THEN <<Tail(s[1]), s[2] + Takes(w, fixed, big, Head(s[1]), s[2])>>
                              ELSE <<Content(Head(s[1])) \o Tail(s[1]), s[2]>>]
Ways(w, fixed, big) ==
    Ends(State, End, Final(w, fixed, big), EndOf(w, fixed, big), StepOf(w, fixed, big))
Comes(w, fixed, big, fs, p, o) == <<<<fs, p>>, o>> \in Ways(w, fixed, big)

LEMMA ContentFields ==
    ASSUME NEW f \in Fields, ~IsLeaf(f)
    PROVE  Content(f) \in Seq(Fields)
<1>1. CASE IsArray(f)
  <2>1. f.array_len \in Nat /\ Element(f) \in Fields
    BY <1>1, FieldTypes, ElementTypes
  <2>2. QED
    BY <1>1, <2>1, RepeatedFacts DEF Content
<1>2. CASE ~IsArray(f)
  <2>1. f.wire_type \in DOMAIN Structs
    BY <1>2, FieldTypes DEF IsLeaf
  <2>2. QED
    BY <1>2, <2>1, StructFields DEF Content
<1>3. QED
  BY <1>1, <1>2

\* A leaf that the bytes hold takes a number of them.
LEMMA TakesType ==
    ASSUME NEW w \in Bytes, NEW fixed \in BOOLEAN, NEW big \in BOOLEAN,
           NEW f \in Fields, IsLeaf(f), NEW p \in Nat, ~Lacks(w, fixed, big, f, p)
    PROVE  Takes(w, fixed, big, f, p) \in Nat
<1>1. CASE field_is_string(f)
  <2> DEFINE lp == PrefixOf(f, fixed)
             n == LengthAt(w, fixed, big, f, p)
             size == SizeOf(f)
  <2>1. length_prefix_size(f.array_len) \in Widths /\ f.array_len \in Nat /\ size \in Nat
    BY <1>1, PrefixTypes, StringTypes
  <2>2. lp \in Nat /\ ~(Len(w) - p < lp) /\ Len(w) \in Nat
    BY <1>1, <2>1 DEF Lacks, PrefixOf, Widths, Bytes
  <2>3. n \in Nat
    <3>1. CASE fixed
      BY <2>1, <3>1 DEF LengthAt
    <3>2. CASE ~fixed
      <4> DEFINE b == SubSeq(w, p + 1, p + lp)
      <4>1. n = read_unsigned(b, big)
        BY <3>2 DEF LengthAt
      <4>2. lp \in Widths
        BY <2>1, <3>2 DEF PrefixOf
      <4> HIDE DEF lp, n
      <4>3. b \in Bytes /\ Len(b) = lp
        <5>1. p + lp <= Len(w) /\ w \in Seq(Byte)
          BY <2>2 DEF Bytes
        <5>2. QED
          BY <2>2, <5>1, SliceFacts DEF Bytes
      <4> HIDE DEF b
      <4>4. QED
        BY <4>1, <4>2, <4>3, ReadUnsigned
    <3>3. QED
      BY <3>1, <3>2
  <2>4. Takes(w, fixed, big, f, p) = lp + n * size
    BY <1>1 DEF Takes
  <2> HIDE DEF lp, n, size
  <2>5. n * size \in Nat
    BY <2>1, <2>3
  <2>6. QED
    BY <2>2, <2>4, <2>5
<1>2. CASE ~field_is_string(f)
  BY <1>2, FieldTypes DEF IsLeaf, Takes, Widths
<1>3. QED
  BY <1>1, <1>2

\* How one statement of a reader, or the end of all, decides.
LEMMA WaysFacts ==
    ASSUME NEW w \in Bytes, NEW fixed \in BOOLEAN, NEW big \in BOOLEAN
    PROVE  /\ \A p \in Nat : Comes(w, fixed, big, <<>>, p, p)
           /\ \A fs \in Seq(Fields) \ {<<>>} : \A p \in Nat :
                LET f == Head(fs)
                IN  /\ IsLeaf(f) /\ Lacks(w, fixed, big, f, p)
                          => Comes(w, fixed, big, fs, p, NoLen)
                    /\ \A o \in End :
                          /\ /\ IsLeaf(f) /\ ~Lacks(w, fixed, big, f, p)
                             /\ Comes(w, fixed, big, Tail(fs), p + Takes(w, fixed, big, f, p), o)
                             => Comes(w, fixed, big, fs, p, o)
                          /\ ~IsLeaf(f) /\ Comes(w, fixed, big, Content(f) \o Tail(fs), p, o)
                             => Comes(w, fixed, big, fs, p, o)
           /\ \A fs \in Seq(Fields) : \A p \in Nat : \A o, q \in End :
                Comes(w, fixed, big, fs, p, o) /\ Comes(w, fixed, big, fs, p, q) => o = q
<1> DEFINE final == Final(w, fixed, big)
           end == EndOf(w, fixed, big)
           step == StepOf(w, fixed, big)
           E == Ways(w, fixed, big)
<1>1. final \in SUBSET State
  BY DEF Final
<1>2. end \in [final -> End]
  BY DEF EndOf, End, Final, State
<1>3. step \in [State \ final -> State]
  <2>1. ASSUME NEW s \in State \ final
        PROVE  step[s] \in State
    <3>1. /\ s[1] \in Seq(Fields) /\ s[1] # <<>> /\ s[2] \in Nat
          /\ ~(IsLeaf(Head(s[1])) /\ Lacks(w, fixed, big, Head(s[1]), s[2]))
      BY DEF State, Final
    <3> DEFINE f == Head(s[1])
               rest == Tail(s[1])
               p == s[2]
    <3>2. f \in Fields /\ rest \in Seq(Fields) /\ p \in Nat
      BY <3>1
    <3>3. step[s] = IF IsLeaf(f) THEN <<rest, p + Takes(w, fixed, big, f, p)>>
                                 ELSE <<Content(f) \o rest, p>>
      BY DEF StepOf
    <3>4. ~(IsLeaf(f) /\ Lacks(w, fixed, big, f, p))
      BY <3>1
    <3> HIDE DEF f, rest, p
    <3>5. CASE IsLeaf(f)
      <4>1. Takes(w, fixed, big, f, p) \in Nat
        BY <3>2, <3>4, <3>5, TakesType
      <4>2. p + Takes(w, fixed, big, f, p) \in Nat
        BY <3>2, <4>1
      <4>3. QED
        BY <3>2, <3>3, <3>5, <4>2 DEF State
    <3>6. CASE ~IsLeaf(f)
      <4> DEFINE c == Content(f) \o rest
      <4>1. c \in Seq(Fields)
        BY <3>2, <3>6, ContentFields, Concatenated
      <4>2. step[s] = <<c, p>>
        BY <3>3, <3>6
      <4> HIDE DEF c, step
      <4>3. QED
        BY <3>2, <4>1, <4>2 DEF State
    <3>7. QED
      BY <3>5, <3>6
  <2>2. step = [s \in State \ final |-> step[s]]
    BY DEF StepOf
  <2> HIDE DEF step, final
  <2>3. QED
    BY <2>1, <2>2
<1>4. /\ ClosedBackwards(E, State, End, final, end, step)
      /\ \A s \in State : \A o, q \in End : <<s, o>> \in E /\ <<s, q>> \in E => o = q
  <2>1. E = Ends(State, End, final, end, step)
    BY DEF Ways
  <2> HIDE DEF final, end, step, E
  <2>2. QED
    BY <1>1, <1>2, <1>3, <2>1, OneEnd
<1>5. /\ \A s \in final : <<s, end[s]>> \in E
      /\ \A s \in State \ final : \A o \in End : <<step[s], o>> \in E => <<s, o>> \in E
  BY <1>4 DEF ClosedBackwards
<1> DEFINE At(fs, p, o) == Comes(w, fixed, big, fs, p, o)
<1>6. \A fs, p, o : At(fs, p, o) <=> <<<<fs, p>>, o>> \in E
  BY DEF Comes
<1>7. \A fs \in Seq(Fields) : \A p \in Nat :
          /\ <<fs, p>> \in State /\ <<fs, p>>[1] = fs /\ <<fs, p>>[2] = p
          /\ <<fs, p>> \in final <=>
                fs = <<>> \/ (IsLeaf(Head(fs)) /\ Lacks(w, fixed, big, Head(fs), p))
          /\ <<fs, p>> \in final =>
                end[<<fs, p>>] = IF fs = <<>> THEN p ELSE NoLen
          /\ <<fs, p>> \notin final =>
                step[<<fs, p>>] =
                    IF IsLeaf(Head(fs)) THEN <<Tail(fs), p + Takes(w, fixed, big, Head(fs), p)>>
                                        ELSE <<Content(Head(fs)) \o Tail(fs), p>>
  <2>1. ASSUME NEW fs \in Seq(Fields), NEW p \in Nat
        PROVE  <<fs, p>> \in State /\ <<fs, p>>[1] = fs /\ <<fs, p>>[2] = p
    BY DEF State
  <2>2. QED
    BY <2>1 DEF Final, EndOf, StepOf
<1> HIDE DEF final, end, step, E, At
<1>8. ASSUME NEW p \in Nat
      PROVE  At(<<>>, p, p)
  <2>1. <<>> \in Seq(Fields)
    OBVIOUS
  <2>2. <<<<>>, p>> \in final /\ end[<<<<>>, p>>] = p
    BY <1>7, <2>1
  <2>3. QED
    BY <1>5, <1>6, <2>2
<1>9. ASSUME NEW fs \in Seq(Fields), fs # <<>>, NEW p \in Nat, IsLeaf(Head(fs)),
             Lacks(w, fixed, big, Head(fs), p)
      PROVE  At(fs, p, NoLen)
  <2>1. <<fs, p>> \in final /\ end[<<fs, p>>] = NoLen
    BY <1>7, <1>9
  <2>2. QED
    BY <1>5, <1>6, <2>1
<1>10. ASSUME NEW fs \in Seq(Fields), fs # <<>>, NEW p \in Nat, IsLeaf(Head(fs)),
              ~Lacks(w, fixed, big, Head(fs), p), NEW o \in End,
              At(Tail(fs), p + Takes(w, fixed, big, Head(fs), p), o)
       PROVE  At(fs, p, o)
  <2>1. /\ <<fs, p>> \in State \ final
        /\ step[<<fs, p>>] = <<Tail(fs), p + Takes(w, fixed, big, Head(fs), p)>>
    BY <1>7, <1>10
  <2>2. QED
    BY <1>5, <1>6, <1>10, <2>1
<1>11. ASSUME NEW fs \in Seq(Fields), fs # <<>>, NEW p \in Nat, ~IsLeaf(Head(fs)),
              NEW o \in End, At(Content(Head(fs)) \o Tail(fs), p, o)
       PROVE  At(fs, p, o)
  <2>1. <<fs, p>> \in State \ final /\ step[<<fs, p>>] = <<Content(Head(fs)) \o Tail(fs), p>>
    BY <1>7, <1>11
  <2>2. QED
    BY <1>5, <1>6, <1>11, <2>1
<1>12. ASSUME NEW fs \in Seq(Fields), NEW p \in Nat, NEW o \in End, NEW q \in End,
              At(fs, p, o), At(fs, p, q)
       PROVE  o = q
  BY <1>4, <1>6, <1>7, <1>12
<1>13. QED
  BY <1>8, <1>9, <1>10, <1>11, <1>12 DEF At

\* Fields of what a struct consists of that are no string whose length may be huge.
SmallFields(name) ==
    {f \in Fields : ~HugeString(f) /\ (IsStruct(f) => f.wire_type \in HeldBy[name])}

LEMMA SmallStructs ==
    ASSUME NEW name \in DOMAIN Structs, ~HasHugeString(name)
    PROVE  /\ name \in HeldBy[name] /\ HeldBy[name] \subseteq DOMAIN Structs
           /\ \A s \in HeldBy[name] : Structs[s] \in Seq(SmallFields(name))
<1> DEFINE Holds(S) == name \in S /\ \A s \in S : \A i \in DOMAIN Structs[s] :
                           IsStruct(Structs[s][i]) => Structs[s][i].wire_type \in S
           H == HeldBy[name]
<1>1. H = {s \in DOMAIN Structs : \A S \in SUBSET DOMAIN Structs : Holds(S) => s \in S}
  BY DEF HeldBy
<1>2. \A s \in H : \A i \in DOMAIN Structs[s] : ~HugeString(Structs[s][i])
  BY DEF HasHugeString
<1> HIDE DEF H
<1>3. name \in H /\ H \subseteq DOMAIN Structs
  BY <1>1
<1>4. ASSUME NEW s \in H, NEW i \in DOMAIN Structs[s], IsStruct(Structs[s][i])
      PROVE  Structs[s][i].wire_type \in H
  <2>1. Structs[s][i].wire_type \in DOMAIN Structs
    BY <1>4 DEF IsStruct
  <2>2. ASSUME NEW S \in SUBSET DOMAIN Structs, Holds(S)
        PROVE  Structs[s][i].wire_type \in S
    <3>1. s \in S
      BY <1>1, <2>2
    <3>2. QED
      BY <1>4, <2>2, <3>1
  <2>3. QED
    BY <1>1, <2>1, <2>2
<1>5. ASSUME NEW s \in H
      PROVE  Structs[s] \in Seq(SmallFields(name))
  <2>1. Structs[s] \in Seq(Fields)
    BY <1>3, StructFields
  <2>2. \A i \in 1 .. Len(Structs[s]) : Structs[s][i] \in Fields
    BY <2>1, ElementOfSeq
  <2>3. \A i \in 1 .. Len(Structs[s]) : Structs[s][i] \in SmallFields(name)
    <3>1. ASSUME NEW i \in 1 .. Len(Structs[s])
          PROVE  Structs[s][i] \in SmallFields(name)
      <4>1. i \in DOMAIN Structs[s] /\ Structs[s][i] \in Fields
        BY <2>1, <2>2
      <4>2. ~HugeString(Structs[s][i])
        BY <1>2, <4>1
      <4>3. IsStruct(Structs[s][i]) => Structs[s][i].wire_type \in HeldBy[name]
        BY <1>4, <4>1 DEF H
      <4>4. QED
        BY <4>1, <4>2, <4>3 DEF SmallFields
    <3>2. QED
      BY <3>1
  <2>4. QED
    <3> DEFINE t == Structs[s]
    <3>1. t \in Seq(Fields) /\ \A i \in 1 .. Len(t) : t[i] \in SmallFields(name)
      BY <2>1, <2>3
    <3> HIDE DEF t
    <3>2. t \in Seq(SmallFields(name))
      BY <3>1, AsSequence
    <3>3. QED
      BY <3>2 DEF t
<1>6. QED
  BY <1>3, <1>5 DEF H

\* A struct or an array of small fields consists of small fields.
LEMMA SmallContent ==
    ASSUME NEW name \in DOMAIN Structs, ~HasHugeString(name),
           NEW f \in SmallFields(name), ~IsLeaf(f)
    PROVE  Content(f) \in Seq(SmallFields(name))
<1>1. f \in Fields /\ (IsStruct(f) => f.wire_type \in HeldBy[name])
  BY DEF SmallFields
<1>2. CASE IsArray(f)
  <2>1. /\ Element(f) \in Fields /\ ~field_is_string(Element(f))
        /\ Element(f).wire_type = f.wire_type /\ (IsStruct(Element(f)) <=> IsStruct(f))
    BY <1>1, ElementTypes
  <2>2. Element(f) \in SmallFields(name) /\ f.array_len \in Nat
    BY <1>1, <1>2, <2>1, FieldTypes DEF SmallFields, HugeString
  <2>3. QED
    BY <1>2, <2>2, RepeatedFacts DEF Content
<1>3. CASE ~IsArray(f)
  BY <1>1, <1>3, SmallStructs DEF Content, IsLeaf
<1>4. QED
  BY <1>2, <1>3

\* What comes of a reader comes of the whole struct.
Onward(r, o) == Comes(wire, fixed_mode, big_endian, fields[r], pos[r], o)
Whole(o) == Comes(wire, fixed_mode, big_endian, Structs[struct], 0, o)
Decided(r) ==
    /\ rstatus[r] # "thrown"
    /\ rstatus[r] = "waiting" => fields[r] = Structs[struct] /\ pos[r] = 0
    /\ rstatus[r] = "reading" => \A o \in End : Onward(r, o) => Whole(o)
    /\ rstatus[r] = "read" => Whole(pos[r])
    /\ rstatus[r] = "refused" => Whole(NoLen)
DecidedSmall ==
    ~HasHugeString(struct) =>
        Decided("C#") /\ fields["C#"] \in Seq(SmallFields(struct))
Alike == Decided("C") /\ DecidedSmall

LEMMA InitAlike == Init => Alike
<1> SUFFICES ASSUME Init
             PROVE  Alike
  OBVIOUS
<1>1. /\ struct \in DOMAIN Structs
      /\ \A r \in Readers : rstatus[r] = "waiting" /\ fields[r] = Structs[struct] /\ pos[r] = 0
  BY DEF Init
<1>2. Decided("C") /\ Decided("C#")
  BY <1>1 DEF Decided, Readers
<1>3. ~HasHugeString(struct) => Structs[struct] \in Seq(SmallFields(struct))
  BY <1>1, SmallStructs
<1>4. QED
  BY <1>1, <1>2, <1>3 DEF Alike, DecidedSmall, Readers

\* Only one reader moves.
Given == <<fixed_mode, big_endian, struct, wire>>
Moves(r) ==
    /\ UNCHANGED Given
    /\ \A q \in Readers \ {r} :
          fields'[q] = fields[q] /\ pos'[q] = pos[q] /\ rstatus'[q] = rstatus[q]

LEMMA StaysDecided ==
    ASSUME NEW q, Decided(q), UNCHANGED Given,
           fields'[q] = fields[q], pos'[q] = pos[q], rstatus'[q] = rstatus[q]
    PROVE  Decided(q)'
<1>1. /\ fixed_mode' = fixed_mode /\ big_endian' = big_endian
      /\ struct' = struct /\ wire' = wire
  BY DEF Given
<1>2. QED
  BY <1>1 DEF Decided, Onward, Whole

LEMMA OneMoves ==
    ASSUME Alike, NEW r \in Readers, Moves(r),
           r = "C" => Decided("C")',
           r = "C#" => DecidedSmall'
    PROVE  Alike'
<1>1. UNCHANGED Given /\ struct' = struct
  BY DEF Moves, Given
<1>2. "C" \in Readers /\ "C#" \in Readers
  BY DEF Readers
<1>3. Decided("C")'
  BY <1>1, <1>2, StaysDecided DEF Alike, Moves
<1>4. DecidedSmall'
  <2>1. ASSUME r # "C#", ~HasHugeString(struct)
        PROVE  Decided("C#")' /\ fields'["C#"] = fields["C#"]
    BY <1>1, <1>2, <2>1, StaysDecided DEF Alike, DecidedSmall, Moves
  <2>2. QED
    BY <1>1, <2>1 DEF Alike, DecidedSmall
<1>5. QED
  BY <1>3, <1>4 DEF Alike

\* A reader of the buffer that is at a field, and what its statement says of the rest.
LEMMA AtField ==
    ASSUME BufferInv, NEW r \in {"C", "C#"}, Reads(r), Decided(r), StillReading
    PROVE  /\ Turn(r) /\ r \in Readers /\ UNCHANGED Given
           /\ wire \in Bytes /\ fixed_mode \in BOOLEAN /\ big_endian \in BOOLEAN
           /\ struct \in DOMAIN Structs
           /\ fields[r] \in Seq(Fields) /\ fields[r] # <<>> /\ Field(r) \in Fields
           /\ Tail(fields[r]) \in Seq(Fields) /\ pos[r] \in Nat
           /\ Left(r) = Len(wire) - pos[r] /\ Left(r) \in Nat /\ Len(wire) \in Nat
           /\ \A o \in End : Onward(r, o) => Whole(o)
           /\ rstatus[r] = "reading"
           /\ fields \in [Readers -> Seq(Fields)] /\ pos \in [Readers -> Nat]
           /\ rstatus \in [Readers -> Status]
<1>1. Turn(r) /\ fields[r] # <<>> /\ rstatus[r] = "reading" /\ r \in Readers
  BY DEF Reads, Turn, Readers
<1>2. UNCHANGED Given
  BY DEF StillReading, choice, writing, line, Given
<1>3. Span(r) = wire /\ wire \in Bytes /\ Len(wire) \in Nat
  BY DEF Span, BufferInv, Written, Bytes
<1>4. \A o \in End : Onward(r, o) => Whole(o)
  BY <1>1 DEF Decided
<1>5. Left(r) = Len(wire) - pos[r]
  BY <1>3 DEF Left
<1>6. /\ fields \in [Readers -> Seq(Fields)] /\ pos \in [Readers -> Nat]
      /\ rstatus \in [Readers -> Status] /\ struct \in DOMAIN Structs
  BY DEF BufferInv, IsRead, Chosen
<1>7. QED
  BY <1>1, <1>2, <1>3, <1>4, <1>5, <1>6, NextField

\* A nested struct or an array is opened.
LEMMA OpensDecided ==
    ASSUME BufferInv, NEW r \in {"C", "C#"}, Nested(r) \/ Loop(r), Decided(r)
    PROVE  /\ Moves(r) /\ Decided(r)' /\ ~IsLeaf(Field(r))
           /\ fields'[r] = Content(Field(r)) \o Tail(fields[r])
<1> DEFINE f == Field(r)
           next == Content(f) \o Tail(fields[r])
<1>1. /\ Reads(r) /\ StillReading /\ ~IsLeaf(f) /\ Opens(r, Content(f))
  <2>1. CASE Nested(r)
    <3>1. Reads(r) /\ StillReading /\ ~IsArray(f) /\ IsStruct(f) /\ Opens(r, Structs[f.wire_type])
      BY <2>1 DEF Nested
    <3>2. ~field_is_string(f)
      BY <3>1 DEF field_is_string
    <3>3. QED
      BY <3>1, <3>2 DEF Content, IsLeaf
  <2>2. CASE Loop(r)
    BY <2>2 DEF Loop, Content, IsLeaf
  <2>3. QED
    BY <2>1, <2>2
<1>2. /\ r \in Readers /\ UNCHANGED Given /\ wire \in Bytes /\ fixed_mode \in BOOLEAN
      /\ big_endian \in BOOLEAN /\ fields[r] \in Seq(Fields) /\ fields[r] # <<>>
      /\ pos[r] \in Nat /\ rstatus[r] = "reading" /\ \A o \in End : Onward(r, o) => Whole(o)
      /\ fields \in [Readers -> Seq(Fields)]
  BY <1>1, AtField
<1>3. /\ fields' = [fields EXCEPT ![r] = next] /\ pos' = pos /\ rstatus' = rstatus
  BY <1>1 DEF Opens
<1>4. Moves(r) /\ fields'[r] = next
  BY <1>2, <1>3 DEF Moves
<1>5. f = Head(fields[r])
  BY DEF Field
<1>6. ASSUME NEW o \in End, Comes(wire, fixed_mode, big_endian, next, pos[r], o)
      PROVE  Whole(o)
  <2>1. Comes(wire, fixed_mode, big_endian, fields[r], pos[r], o)
    BY <1>1, <1>2, <1>5, <1>6, WaysFacts
  <2>2. QED
    BY <1>2, <2>1 DEF Onward
<1> HIDE DEF next, f
<1>7. Decided(r)'
  <2>1. /\ fixed_mode' = fixed_mode /\ big_endian' = big_endian
        /\ struct' = struct /\ wire' = wire
    BY <1>2 DEF Given
  <2>2. rstatus'[r] = "reading" /\ fields'[r] = next /\ pos'[r] = pos[r]
    BY <1>2, <1>3, <1>4
  <2>3. QED
    BY <1>6, <2>1, <2>2 DEF Decided, Onward, Whole
<1>8. QED
  BY <1>1, <1>4, <1>7 DEF next, f

\* A leaf is stored that takes the bytes it says.
LEMMA StoredDecided ==
    ASSUME BufferInv, NEW r \in {"C", "C#"}, Reads(r), Decided(r), StillReading,
           NEW v, NEW n \in Nat, Stored(r, v, n), IsLeaf(Field(r)),
           ~Lacks(wire, fixed_mode, big_endian, Field(r), pos[r]),
           n = Takes(wire, fixed_mode, big_endian, Field(r), pos[r])
    PROVE  Moves(r) /\ Decided(r)' /\ fields'[r] = Tail(fields[r])
<1> DEFINE next == Tail(fields[r])
           p == pos[r] + n
<1>1. /\ r \in Readers /\ UNCHANGED Given /\ wire \in Bytes /\ fixed_mode \in BOOLEAN
      /\ big_endian \in BOOLEAN /\ fields[r] \in Seq(Fields) /\ fields[r] # <<>>
      /\ pos[r] \in Nat /\ rstatus[r] = "reading" /\ \A o \in End : Onward(r, o) => Whole(o)
      /\ fields \in [Readers -> Seq(Fields)] /\ pos \in [Readers -> Nat]
  BY AtField
<1>2. /\ fields' = [fields EXCEPT ![r] = next] /\ pos' = [pos EXCEPT ![r] = p]
      /\ rstatus' = rstatus
  BY DEF Stored
<1>3. Moves(r) /\ fields'[r] = next /\ pos'[r] = p /\ rstatus'[r] = "reading"
  BY <1>1, <1>2 DEF Moves
<1>4. ASSUME NEW o \in End, Comes(wire, fixed_mode, big_endian, next, p, o)
      PROVE  Whole(o)
  <2>1. Comes(wire, fixed_mode, big_endian, fields[r], pos[r], o)
    BY <1>1, <1>4, WaysFacts DEF Field
  <2>2. QED
    BY <1>1, <2>1 DEF Onward
<1> HIDE DEF next, p
<1>5. Decided(r)'
  <2>1. /\ fixed_mode' = fixed_mode /\ big_endian' = big_endian
        /\ struct' = struct /\ wire' = wire
    BY <1>1 DEF Given
  <2>2. QED
    BY <1>3, <1>4, <2>1 DEF Decided, Onward, Whole
<1>6. QED
  BY <1>3, <1>5 DEF next

\* A reader refuses where the bytes lack what it needs.
LEMMA RefusedDecided ==
    ASSUME BufferInv, NEW r \in {"C", "C#"}, Reads(r), Decided(r), StillReading,
           Stops(r, "refused"), IsLeaf(Field(r)),
           Lacks(wire, fixed_mode, big_endian, Field(r), pos[r])
    PROVE  Moves(r) /\ Decided(r)' /\ fields'[r] = <<>>
<1>1. /\ r \in Readers /\ UNCHANGED Given /\ wire \in Bytes /\ fixed_mode \in BOOLEAN
      /\ big_endian \in BOOLEAN /\ fields[r] \in Seq(Fields) /\ fields[r] # <<>>
      /\ pos[r] \in Nat /\ rstatus[r] = "reading" /\ \A o \in End : Onward(r, o) => Whole(o)
      /\ fields \in [Readers -> Seq(Fields)] /\ rstatus \in [Readers -> Status]
  BY AtField
<1>2. /\ fields' = [fields EXCEPT ![r] = <<>>] /\ pos' = pos
      /\ rstatus' = [rstatus EXCEPT ![r] = "refused"]
  BY DEF Stops
<1>3. Moves(r) /\ fields'[r] = <<>> /\ rstatus'[r] = "refused"
  BY <1>1, <1>2 DEF Moves
<1>4. Whole(NoLen)
  <2>1. Comes(wire, fixed_mode, big_endian, fields[r], pos[r], NoLen)
    BY <1>1, WaysFacts DEF Field
  <2>2. QED
    BY <1>1, <2>1 DEF Onward, End
<1>5. Decided(r)'
  <2>1. /\ fixed_mode' = fixed_mode /\ big_endian' = big_endian
        /\ struct' = struct /\ wire' = wire
    BY <1>1 DEF Given
  <2>2. QED
    BY <1>3, <1>4, <2>1 DEF Decided, Onward, Whole
<1>6. QED
  BY <1>3, <1>5

\* A reader with nothing left to read.
LEMMA EndsDecided ==
    ASSUME BufferInv, NEW r \in {"C", "C#"}, ReadEnds(r), Decided(r)
    PROVE  Moves(r) /\ Decided(r)' /\ fields' = fields
<1>1. /\ rstatus[r] = "reading" /\ fields[r] = <<>> /\ StillReading /\ r \in Readers
      /\ fields' = fields /\ pos' = pos /\ rstatus' = [rstatus EXCEPT ![r] = "read"]
  BY DEF ReadEnds, Turn, Readers
<1>2. /\ wire \in Bytes /\ fixed_mode \in BOOLEAN /\ big_endian \in BOOLEAN /\ pos[r] \in Nat
      /\ rstatus \in [Readers -> Status]
  BY <1>1 DEF BufferInv, Chosen, Written, IsRead
<1>3. UNCHANGED Given
  BY <1>1 DEF StillReading, choice, writing, line, Given
<1>4. Whole(pos[r])
  <2>1. Comes(wire, fixed_mode, big_endian, fields[r], pos[r], pos[r])
    BY <1>1, <1>2, WaysFacts
  <2>2. pos[r] \in End
    BY <1>2 DEF End
  <2>3. QED
    BY <1>1, <2>1, <2>2 DEF Decided, Onward
<1>5. Moves(r) /\ rstatus'[r] = "read" /\ pos'[r] = pos[r]
  BY <1>1, <1>2, <1>3 DEF Moves
<1>6. Decided(r)'
  <2>1. /\ fixed_mode' = fixed_mode /\ big_endian' = big_endian
        /\ struct' = struct /\ wire' = wire
    BY <1>3 DEF Given
  <2>2. QED
    BY <1>4, <1>5, <2>1 DEF Decided, Onward, Whole
<1>7. QED
  BY <1>1, <1>5, <1>6

\* The statement of a scalar, in both languages.
LEMMA ScalarDecided ==
    ASSUME BufferInv, NEW r \in {"C", "C#"}, Reads(r), Decided(r), StillReading,
           ~IsArray(Field(r)), ~IsStruct(Field(r)), NEW v,
           \/ Left(r) >= SizeOf(Field(r)) /\ Stored(r, v, SizeOf(Field(r)))
           \/ Left(r) < SizeOf(Field(r)) /\ Stops(r, "refused")
    PROVE  Moves(r) /\ Decided(r)' /\ fields'[r] \in {Tail(fields[r]), <<>>}
<1> DEFINE f == Field(r)
<1>1. f \in Fields /\ Left(r) = Len(wire) - pos[r] /\ Left(r) \in Nat
  BY AtField
<1>2. SizeOf(f) \in Nat
  BY <1>1, FieldTypes DEF Widths
<1>3. IsLeaf(f) /\ ~field_is_string(f)
  BY DEF IsLeaf, field_is_string
<1>4. Takes(wire, fixed_mode, big_endian, f, pos[r]) = SizeOf(f)
  BY <1>3 DEF Takes
<1>5. Lacks(wire, fixed_mode, big_endian, f, pos[r]) <=> Left(r) < SizeOf(f)
  BY <1>1, <1>3, <1>4 DEF Lacks
<1>6. CASE Left(r) >= SizeOf(f) /\ Stored(r, v, SizeOf(f))
  <2>1. ~Lacks(wire, fixed_mode, big_endian, f, pos[r])
    BY <1>1, <1>2, <1>5, <1>6
  <2>2. QED
    BY <1>2, <1>3, <1>4, <1>6, <2>1, StoredDecided
<1>7. CASE Left(r) < SizeOf(f) /\ Stops(r, "refused")
  BY <1>3, <1>5, <1>7, RefusedDecided
<1>8. QED
  BY <1>6, <1>7

\* The length before a string is where the common readers look for it.
LEMMA LengthAhead ==
    ASSUME BufferInv, NEW r \in {"C", "C#"}, Reads(r), Decided(r), StillReading,
           field_is_string(Field(r))
    PROVE  LET f == Field(r)
               lp == PrefixSize(f)
           IN  /\ IsLeaf(f) /\ lp = PrefixOf(f, fixed_mode) /\ lp \in Nat
               /\ f.array_len \in Nat /\ SizeOf(f) \in {1, 2}
               /\ LengthAt(wire, fixed_mode, big_endian, f, pos[r]) =
                     IF fixed_mode THEN f.array_len
                     ELSE read_unsigned(Ahead(r, 0, lp), big_endian)
               /\ Left(r) >= lp =>
                     LengthAt(wire, fixed_mode, big_endian, f, pos[r]) \in Nat
<1> DEFINE f == Field(r)
           lp == PrefixSize(f)
<1>1. /\ f \in Fields /\ pos[r] \in Nat /\ fixed_mode \in BOOLEAN /\ Turn(r) /\ r \in Readers
  BY AtField
<1>2. f.array_len \in Nat /\ SizeOf(f) \in {1, 2}
  BY <1>1, StringTypes
<1>3. lp = PrefixOf(f, fixed_mode) /\ lp \in Nat
  BY <1>1, PrefixTypes DEF PrefixSize, PrefixOf, Widths
<1>4. Ahead(r, 0, lp) = SubSeq(wire, pos[r] + 1, pos[r] + lp)
  <2>1. pos[r] + 0 + 1 = pos[r] + 1 /\ pos[r] + 0 + lp = pos[r] + lp
    BY <1>1, <1>3
  <2>2. Span(r) = wire
    BY DEF Span
  <2>3. QED
    BY <2>1, <2>2 DEF Ahead
<1>5. LengthAt(wire, fixed_mode, big_endian, f, pos[r]) =
          IF fixed_mode THEN f.array_len ELSE read_unsigned(Ahead(r, 0, lp), big_endian)
  BY <1>3, <1>4 DEF LengthAt
<1>6. Left(r) >= lp => LengthAt(wire, fixed_mode, big_endian, f, pos[r]) \in Nat
  BY <1>1, <1>2, <1>5, PrefixRead
<1>7. QED
  BY <1>2, <1>3, <1>5, <1>6 DEF IsLeaf

\* The statement of a string, with the length n that the reader finds.
LEMMA StringDecided ==
    ASSUME BufferInv, NEW r \in {"C", "C#"}, Reads(r), Decided(r), StillReading,
           field_is_string(Field(r)), NEW n, NEW v,
           Left(r) >= PrefixSize(Field(r)) =>
               n = LengthAt(wire, fixed_mode, big_endian, Field(r), pos[r]),
           \/ Left(r) < PrefixSize(Field(r)) /\ Stops(r, "refused")
           \/ /\ Left(r) >= PrefixSize(Field(r))
              /\ \/ n > Field(r).array_len
                 \/ Left(r) < PrefixSize(Field(r)) + n * SizeOf(Field(r))
              /\ Stops(r, "refused")
           \/ /\ Left(r) >= PrefixSize(Field(r))
              /\ ~(n > Field(r).array_len)
              /\ Left(r) >= PrefixSize(Field(r)) + n * SizeOf(Field(r))
              /\ Stored(r, v, PrefixSize(Field(r)) + n * SizeOf(Field(r)))
    PROVE  Moves(r) /\ Decided(r)' /\ fields'[r] \in {Tail(fields[r]), <<>>}
<1> DEFINE f == Field(r)
           lp == PrefixSize(f)
           m == LengthAt(wire, fixed_mode, big_endian, f, pos[r])
           k == m * SizeOf(f)
<1>1. /\ IsLeaf(f) /\ lp = PrefixOf(f, fixed_mode) /\ lp \in Nat
      /\ f.array_len \in Nat /\ SizeOf(f) \in {1, 2}
      /\ Left(r) >= lp => m \in Nat
  BY LengthAhead
<1>2. Left(r) = Len(wire) - pos[r] /\ Left(r) \in Nat
  BY AtField
<1>3. Takes(wire, fixed_mode, big_endian, f, pos[r]) = lp + k
  BY <1>1 DEF Takes
<1>4. Lacks(wire, fixed_mode, big_endian, f, pos[r]) <=>
          Left(r) < lp \/ m > f.array_len \/ Left(r) < lp + k
  BY <1>1, <1>2, <1>3 DEF Lacks
<1>5. CASE Stops(r, "refused") /\ Lacks(wire, fixed_mode, big_endian, f, pos[r])
  BY <1>1, <1>5, RefusedDecided
<1>6. CASE /\ Left(r) >= lp /\ ~(m > f.array_len) /\ Left(r) >= lp + k
           /\ Stored(r, v, lp + k)
  <2>1. m \in Nat
    BY <1>1, <1>6
  <2>2. k \in Nat
    BY <1>1, <2>1
  <2> HIDE DEF m, k
  <2>3. lp + k \in Nat /\ ~(Left(r) < lp) /\ ~(Left(r) < lp + k)
    BY <1>1, <1>2, <1>6, <2>2
  <2>4. ~Lacks(wire, fixed_mode, big_endian, f, pos[r])
    BY <1>4, <1>6, <2>3
  <2>5. QED
    BY <1>1, <1>3, <1>6, <2>3, <2>4, StoredDecided
<1>7. QED
  <2>1. \/ Left(r) < lp /\ Stops(r, "refused")
        \/ /\ Left(r) >= lp
           /\ m > f.array_len \/ Left(r) < lp + k
           /\ Stops(r, "refused")
        \/ /\ Left(r) >= lp /\ ~(m > f.array_len) /\ Left(r) >= lp + k
           /\ Stored(r, v, lp + k)
    OBVIOUS
  <2> HIDE DEF f, lp, m, k
  <2>2. QED
    BY <1>4, <1>5, <1>6, <2>1 DEF f

LEMMA CReadScalarDecided ==
    ASSUME BufferInv, Decided("C"), CReadScalar
    PROVE  Moves("C") /\ Decided("C")'
<1> DEFINE value == buffers_read(Ahead("C", 0, SizeOf(Field("C"))), CType(Field("C")), big_endian)
<1>1. /\ Reads("C") /\ ~IsArray(Field("C")) /\ ~IsStruct(Field("C")) /\ StillReading
      /\ \/ /\ Left("C") >= SizeOf(Field("C"))
            /\ Stored("C", <<value>>, SizeOf(Field("C")))
         \/ Left("C") < SizeOf(Field("C")) /\ Stops("C", "refused")
  BY DEF CReadScalar
<1> HIDE DEF value
<1>2. QED
  BY <1>1, ScalarDecided

LEMMA CReadStringDecided ==
    ASSUME BufferInv, Decided("C"), CReadString
    PROVE  Moves("C") /\ Decided("C")'
<1> DEFINE f == Field("C")
           lp == PrefixSize(f)
           n == IF fixed_mode THEN f.array_len
                ELSE read_unsigned(Ahead("C", 0, lp), big_endian)
           array == [i \in 1 .. n |->
                       buffers_read(Ahead("C", lp + (i - 1) * SizeOf(f), SizeOf(f)),
                                    f.type, big_endian)]
           v == IF n < f.array_len THEN array \o <<0>> ELSE array
<1>1. /\ Reads("C") /\ field_is_string(f) /\ StillReading
      /\ \/ Left("C") < lp /\ Stops("C", "refused")
         \/ /\ Left("C") >= lp
            /\ n > f.array_len \/ Left("C") < lp + n * SizeOf(f)
            /\ Stops("C", "refused")
         \/ /\ Left("C") >= lp /\ ~(n > f.array_len) /\ Left("C") >= lp + n * SizeOf(f)
            /\ Stored("C", v, lp + n * SizeOf(f))
  BY DEF CReadString, TooLong
<1>2. n = LengthAt(wire, fixed_mode, big_endian, f, pos["C"])
  BY <1>1, LengthAhead
<1> HIDE DEF n, v
<1>3. QED
  BY <1>1, <1>2, StringDecided

LEMMA CsReadScalarDecided ==
    ASSUME BufferInv, Decided("C#"), CsReadScalar("C#")
    PROVE  Moves("C#") /\ Decided("C#")' /\ fields'["C#"] \in {Tail(fields["C#"]), <<>>}
<1> DEFINE value == CsRead(Ahead("C#", 0, SizeOf(Field("C#"))), Field("C#"), big_endian)
<1>1. /\ Reads("C#") /\ ~IsArray(Field("C#")) /\ ~IsStruct(Field("C#")) /\ StillReading
      /\ \/ /\ Left("C#") >= SizeOf(Field("C#"))
            /\ Stored("C#", <<value>>, SizeOf(Field("C#")))
         \/ Left("C#") < SizeOf(Field("C#")) /\ Stops("C#", "refused")
  BY DEF CsReadScalar
<1> HIDE DEF value
<1>2. QED
  BY <1>1, ScalarDecided

\* Numbers that two bytes hold, and twice as much, are ints.
LEMMA SmallInts ==
    ASSUME NEW m \in Nat, m < Values(2), NEW size \in {1, 2}
    PROVE  AsInt(m) = m /\ AsInt(m * size) = m * size /\ m * size \in Nat
<1> DEFINE w == Values(2)
           x == Values(3)
           y == Values(4)
<1>1. w \in Nat /\ x \in Nat /\ y \in Nat /\ w >= 1 /\ x >= 1 /\ ByteBase \in Nat /\ ByteBase >= 2
  BY ValuesType, ByteBaseAssumption
<1>2. x = ByteBase * w /\ y = ByteBase * x
  <2>1. Values(2 + 1) = ByteBase * Values(2) /\ Values(3 + 1) = ByteBase * Values(3)
    BY ValuesStep
  <2>2. 2 + 1 = 3 /\ 3 + 1 = 4
    OBVIOUS
  <2>3. QED
    BY <2>1, <2>2
<1> HIDE DEF w, x, y
<1>3. \A b, c \in Nat : b >= 2 => b * c >= 2 * c
  <2>1. ASSUME NEW b \in Nat, NEW c \in Nat, b >= 2
        PROVE  b * c >= 2 * c
    <3>1. (b - 2) * c >= 0
      BY <2>1
    <3>2. b * c = (b - 2) * c + 2 * c
      OBVIOUS
    <3>3. b * c \in Int /\ (b - 2) * c \in Int
      BY <2>1
    <3>4. QED
      BY <3>1, <3>2, <3>3
  <2>2. QED
    BY <2>1
<1>4. y >= 4 * w
  <2>1. x >= 2 * w /\ y >= 2 * x
    BY <1>1, <1>2, <1>3
  <2>2. QED
    BY <1>1, <2>1
<1>5. m < w
  BY DEF w
<1>6. m * size \in Nat /\ m * size <= 2 * m
  OBVIOUS
<1>7. m < y \div 2 /\ m * size < y \div 2
  <2> DEFINE k == m * size
  <2>1. k \in Nat /\ k <= 2 * m
    BY <1>6
  <2> HIDE DEF k
  <2>2. m < y \div 2 /\ k < y \div 2
    BY <1>1, <1>4, <1>5, <2>1
  <2>3. QED
    BY <2>2 DEF k
<1>8. AsInt(m) = m
  BY <1>7, AsIntFacts DEF y
<1>9. AsInt(m * size) = m * size
  <2> DEFINE k == m * size
  <2>1. k \in Int /\ 0 <= k /\ k < Values(4) \div 2
    BY <1>6, <1>7 DEF y
  <2> HIDE DEF k
  <2>2. AsInt(k) = k
    BY <2>1, AsIntFacts
  <2>3. QED
    BY <2>2 DEF k
<1>10. QED
  BY <1>6, <1>8, <1>9

\* The length of a string that is not huge, as C# computes it, is the one C reads.
LEMMA SameLength ==
    ASSUME BufferInv, Reads("C#"), Decided("C#"), StillReading,
           field_is_string(Field("C#")), ~HugeString(Field("C#")),
           Left("C#") >= PrefixSize(Field("C#"))
    PROVE  LET f == Field("C#")
               lp == PrefixSize(f)
               n == IF fixed_mode THEN f.array_len
                    ELSE AsInt(bp_read(Ahead("C#", 0, lp), Prefix(f).wire_type, big_endian))
           IN  /\ n = LengthAt(wire, fixed_mode, big_endian, f, pos["C#"])
               /\ AsInt(n * SizeOf(f)) = n * SizeOf(f) /\ n * SizeOf(f) \in Nat
<1> DEFINE f == Field("C#")
           lp == PrefixSize(f)
           b == Ahead("C#", 0, lp)
           n == IF fixed_mode THEN f.array_len
                ELSE AsInt(bp_read(b, Prefix(f).wire_type, big_endian))
           m == LengthAt(wire, fixed_mode, big_endian, f, pos["C#"])
<1>1. /\ lp \in Nat /\ f.array_len \in Nat /\ SizeOf(f) \in {1, 2}
      /\ m = IF fixed_mode THEN f.array_len ELSE read_unsigned(b, big_endian)
  BY LengthAhead
<1>2. /\ f \in Fields /\ Turn("C#") /\ "C#" \in Readers /\ Left("C#") \in Nat
      /\ big_endian \in BOOLEAN
  BY AtField
<1>3. f.array_len < Values(2)
  <2>1. Values(2) \in Nat
    BY ValuesType
  <2>2. QED
    BY <1>1, <2>1 DEF HugeString
<1>4. CASE fixed_mode
  <2>1. n = m /\ n = f.array_len
    BY <1>1, <1>4
  <2> HIDE DEF n, m
  <2>2. AsInt(n * SizeOf(f)) = n * SizeOf(f) /\ n * SizeOf(f) \in Nat
    BY <1>1, <1>3, <2>1, SmallInts
  <2>3. QED
    BY <2>1, <2>2 DEF n, m
<1>5. CASE ~fixed_mode
  <2> DEFINE k == bp_read(b, Prefix(f).wire_type, big_endian)
  <2>1. lp \in {1, 2}
    BY <1>1, <1>2, <1>3, <1>5, ShortPrefix DEF PrefixSize
  <2>2. b \in Bytes /\ Len(b) = lp
    <3>1. 0 \in Nat /\ 0 + lp <= Left("C#")
      BY <1>1, <1>2
    <3>2. QED
      BY <1>1, <1>2, <3>1, AheadFacts
  <2>3. Prefix(f).wire_type \in WireType /\ Prefix(f).wire_type \notin ToSet(Signed)
    BY PrefixTypes
  <2>4. k \in 0 .. Values(lp) - 1
    BY <1>2, <1>5, PrefixRead
  <2>5. k = m
    <3>1. m = read_unsigned(b, big_endian)
      BY <1>1, <1>5
    <3> HIDE DEF b, m
    <3>2. QED
      BY <1>2, <2>1, <2>2, <2>3, <3>1, SameNumber
  <2>6. n = AsInt(k)
    BY <1>5
  <2> HIDE DEF k, n, lp, m, b
  <2>7. k \in Nat /\ k < Values(2)
    <3>1. Values(1) <= Values(2) /\ Values(1) \in Nat /\ Values(2) \in Nat
      <4>1. Values(1) \in Nat /\ Values(2) \in Nat /\ ByteBase \in Nat /\ ByteBase >= 2
        BY ValuesType, ByteBaseAssumption
      <4>2. Values(1 + 1) = ByteBase * Values(1) /\ 1 + 1 = 2
        BY ValuesStep
      <4>3. \A c \in Nat : ByteBase * c >= c
        <5>1. ASSUME NEW c \in Nat
              PROVE  ByteBase * c >= c
          <6>1. (ByteBase - 1) * c >= 0 /\ (ByteBase - 1) * c \in Int
            BY <4>1
          <6>2. ByteBase * c = (ByteBase - 1) * c + c
            BY <4>1
          <6>3. QED
            BY <4>1, <6>1, <6>2
        <5>2. QED
          BY <5>1
      <4>4. QED
        BY <4>1, <4>2, <4>3
    <3>2. Values(lp) <= Values(2) /\ Values(lp) \in Nat
      BY <2>1, <3>1
    <3>3. QED
      BY <2>4, <3>1, <3>2
  <2>8. n = k
    BY <1>1, <2>6, <2>7, SmallInts
  <2>9. AsInt(n * SizeOf(f)) = n * SizeOf(f) /\ n * SizeOf(f) \in Nat
    BY <1>1, <2>7, <2>8, SmallInts
  <2>10. QED
    BY <2>5, <2>8, <2>9 DEF n, m, b, lp
<1>6. QED
  BY <1>4, <1>5

\* Without a huge string, no statement of C# throws.
LEMMA CsReadStringDecided ==
    ASSUME BufferInv, Decided("C#"), CsReadString("C#"), ~HugeString(Field("C#"))
    PROVE  Moves("C#") /\ Decided("C#")' /\ fields'["C#"] \in {Tail(fields["C#"]), <<>>}
<1> DEFINE f == Field("C#")
           lp == PrefixSize(f)
           n == IF fixed_mode THEN f.array_len
                ELSE AsInt(bp_read(Ahead("C#", 0, lp), Prefix(f).wire_type, big_endian))
           k == AsInt(n * SizeOf(f))
           v == Decode(Ahead("C#", lp, k), f)
<1>1. /\ Reads("C#") /\ field_is_string(f) /\ StillReading
      /\ \/ Left("C#") < lp /\ Stops("C#", "refused")
         \/ /\ Left("C#") >= lp
            /\ n > f.array_len \/ Left("C#") < lp + k
            /\ Stops("C#", "refused")
         \/ Left("C#") >= lp /\ k < 0 /\ Stops("C#", "thrown")
         \/ /\ Left("C#") >= lp /\ ~(n > f.array_len) /\ Left("C#") >= lp + k
            /\ Stored("C#", v, lp + k)
  BY DEF CsReadString, TooLong
<1>2. Left("C#") >= lp =>
          /\ n = LengthAt(wire, fixed_mode, big_endian, f, pos["C#"])
          /\ k = n * SizeOf(f) /\ k \in Nat
  BY <1>1, SameLength
<1> HIDE DEF n, v, k
<1>3. Left("C#") >= lp => ~(k < 0)
  BY <1>2
<1>4. \/ Left("C#") < lp /\ Stops("C#", "refused")
      \/ /\ Left("C#") >= lp
         /\ n > f.array_len \/ Left("C#") < lp + n * SizeOf(f)
         /\ Stops("C#", "refused")
      \/ /\ Left("C#") >= lp /\ ~(n > f.array_len) /\ Left("C#") >= lp + n * SizeOf(f)
         /\ Stored("C#", v, lp + n * SizeOf(f))
  BY <1>1, <1>2, <1>3, Zenon
<1>5. QED
  BY <1>1, <1>2, <1>4, StringDecided

-----------------------------------------------------------------------------

\* A step of the C reader, and of the C# reader of the buffer.
CMoves == CReadStruct \/ CReadArray \/ CReadScalar \/ CReadString \/ ReadEnds("C")
CsMoves(r) == CsReadStruct(r) \/ CsReadArray(r) \/ CsReadScalar(r) \/ CsReadString(r) \/ ReadEnds(r)

LEMMA CAlike ==
    ASSUME BufferInv, Alike, CMoves
    PROVE  Alike'
<1>1. Decided("C") /\ "C" \in Readers /\ "C" # "C#"
  BY DEF Alike, Readers
<1>2. Moves("C") /\ Decided("C")'
  <2>1. CASE Nested("C") \/ Loop("C")
    BY <1>1, <2>1, OpensDecided
  <2>2. CASE CReadScalar
    BY <1>1, <2>2, CReadScalarDecided
  <2>3. CASE CReadString
    BY <1>1, <2>3, CReadStringDecided
  <2>4. CASE ReadEnds("C")
    BY <1>1, <2>4, EndsDecided
  <2>5. QED
    BY <2>1, <2>2, <2>3, <2>4 DEF CMoves, CReadStruct, CReadArray
<1>3. QED
  BY <1>1, <1>2, OneMoves

\* Any step of a reader moves that reader only.
LEMMA ReaderMoves ==
    ASSUME BufferInv, NEW r \in Readers, CsMoves(r)
    PROVE  Moves(r) /\ StillReading
<1>1. StillReading /\ Turn(r)
  BY DEF CsMoves, CsReadStruct, CsReadArray, CsReadScalar, CsReadString, Nested, Loop,
         ReadEnds, Reads
<1>2. UNCHANGED Given
  BY <1>1 DEF StillReading, choice, writing, line, Given
<1>3. /\ fields \in [Readers -> Seq(Fields)] /\ pos \in [Readers -> Nat]
      /\ rstatus \in [Readers -> Status]
  BY DEF BufferInv, IsRead
<1> DEFINE Others == \A q \in Readers \ {r} :
                        fields'[q] = fields[q] /\ pos'[q] = pos[q] /\ rstatus'[q] = rstatus[q]
<1>4. ASSUME NEW fs, Opens(r, fs)
      PROVE  Others
  BY <1>3, <1>4 DEF Opens
<1>5. ASSUME NEW v, NEW n, Stored(r, v, n)
      PROVE  Others
  BY <1>3, <1>5 DEF Stored
<1>6. ASSUME NEW status, Stops(r, status)
      PROVE  Others
  BY <1>3, <1>6 DEF Stops
<1>7. ASSUME ReadEnds(r)
      PROVE  Others
  BY <1>3, <1>7 DEF ReadEnds
<1>8. Others
  <2> HIDE DEF Others
  <2>1. CASE CsReadStruct(r) \/ CsReadArray(r)
    BY <1>4, <2>1 DEF CsReadStruct, CsReadArray, Nested, Loop
  <2>2. CASE CsReadScalar(r)
    BY <1>5, <1>6, <2>2 DEF CsReadScalar
  <2>3. CASE CsReadString(r)
    BY <1>5, <1>6, <2>3 DEF CsReadString
  <2>4. QED
    BY <1>7, <2>1, <2>2, <2>3 DEF CsMoves
<1>9. QED
  BY <1>1, <1>2, <1>8 DEF Moves

LEMMA CsAlike ==
    ASSUME BufferInv, Alike, CsMoves("C#")
    PROVE  Alike'
<1>1. "C#" \in Readers /\ "C#" # "C"
  BY DEF Readers
<1>2. Moves("C#") /\ struct' = struct
  BY <1>1, ReaderMoves DEF Moves, Given
<1>3. ASSUME ~HasHugeString(struct)
      PROVE  Decided("C#")' /\ fields'["C#"] \in Seq(SmallFields(struct))
  <2> DEFINE small == SmallFields(struct)
  <2>1. /\ Decided("C#") /\ fields["C#"] \in Seq(small) /\ struct \in DOMAIN Structs
    BY <1>3 DEF Alike, DecidedSmall, BufferInv, Chosen
  <2>2. CASE Nested("C#") \/ Loop("C#")
    <3>1. /\ Decided("C#")' /\ ~IsLeaf(Field("C#")) /\ fields["C#"] # <<>>
          /\ fields'["C#"] = Content(Field("C#")) \o Tail(fields["C#"])
      BY <2>1, <2>2, OpensDecided DEF Nested, Loop, Reads
    <3>2. Field("C#") \in small /\ Tail(fields["C#"]) \in Seq(small)
      <4> HIDE DEF small
      <4>1. QED
        BY <2>1, <3>1 DEF Field
    <3>3. Content(Field("C#")) \in Seq(small)
      BY <1>3, <2>1, <3>1, <3>2, SmallContent
    <3> HIDE DEF small
    <3>4. Content(Field("C#")) \o Tail(fields["C#"]) \in Seq(small)
      BY <3>2, <3>3, Concatenated
    <3>5. QED
      BY <3>1, <3>4 DEF small
  <2>3. CASE ReadEnds("C#")
    BY <2>1, <2>3, EndsDecided
  <2>4. CASE CsReadScalar("C#") \/ CsReadString("C#")
    <3>1. fields["C#"] # <<>>
      BY <2>4 DEF CsReadScalar, CsReadString, Reads
    <3>2. Field("C#") \in small /\ Tail(fields["C#"]) \in Seq(small) /\ <<>> \in Seq(small)
      <4> HIDE DEF small
      <4>1. QED
        BY <2>1, <3>1 DEF Field
    <3>3. ~HugeString(Field("C#"))
      BY <3>2 DEF SmallFields
    <3>4. Decided("C#")' /\ fields'["C#"] \in {Tail(fields["C#"]), <<>>}
      BY <2>1, <2>4, <3>3, CsReadScalarDecided, CsReadStringDecided
    <3>5. QED
      BY <3>2, <3>4
  <2>5. QED
    BY <2>2, <2>3, <2>4 DEF CsMoves, CsReadStruct, CsReadArray
<1>4. DecidedSmall'
  BY <1>2, <1>3 DEF DecidedSmall
<1>5. QED
  BY <1>1, <1>2, <1>4, OneMoves

LEMMA StreamReadMoves ==
    ASSUME BufferInv, StreamRead
    PROVE  Moves("Stream")
<1>1. UNCHANGED <<choice, writing, line>>
  BY DEF StreamRead
<1>2. UNCHANGED Given
  BY <1>1 DEF choice, line, Given
<1>3. fields \in [Readers -> Seq(Fields)] /\ rstatus \in [Readers -> Status]
  BY DEF BufferInv, IsRead
<1>4. Stops("Stream", "refused") \/ UNCHANGED <<fields, pos, out, rstatus>>
  BY DEF StreamRead
<1>5. QED
  BY <1>2, <1>3, <1>4 DEF Moves, Stops

\* The bytes reach readers that have not begun.
LEMMA SentAlike ==
    ASSUME BufferInv, Alike, NEW b, NEW how, Sent(b, how)
    PROVE  Alike'
<1>1. /\ intact = "unsent" /\ fields' = fields /\ pos' = pos
      /\ rstatus' = [r \in Readers |-> "reading"]
      /\ UNCHANGED <<choice, writing>>
  BY DEF Sent
<1>2. struct' = struct
  BY <1>1 DEF choice
<1>3. \A r \in Readers : rstatus[r] = "waiting"
  BY <1>1 DEF BufferInv, Written
<1>4. ASSUME NEW r \in Readers, Decided(r)
      PROVE  Decided(r)'
  <2>1. fields'[r] = Structs[struct'] /\ pos'[r] = 0 /\ rstatus'[r] = "reading"
    BY <1>1, <1>2, <1>3, <1>4 DEF Decided
  <2>2. QED
    BY <2>1 DEF Decided, Onward, Whole
<1>5. "C" \in Readers /\ "C#" \in Readers
  BY DEF Readers
<1>6. QED
  BY <1>1, <1>2, <1>4, <1>5 DEF Alike, DecidedSmall

\* What no reader does changes nothing of what they decide.
LEMMA OthersAlike ==
    ASSUME Alike, UNCHANGED Given, UNCHANGED reading
    PROVE  Alike'
<1>1. fields' = fields /\ pos' = pos /\ rstatus' = rstatus
  BY DEF reading
<1>2. Moves("Stream") /\ "Stream" \in Readers /\ "Stream" # "C" /\ "Stream" # "C#"
  BY <1>1 DEF Moves, Readers
<1>3. QED
  BY <1>2, OneMoves

LEMMA NextAlike ==
    ASSUME BufferInv, Alike, [Next]_vars
    PROVE  Alike'
<1>1. CASE Write
  <2>1. UNCHANGED choice /\ UNCHANGED line /\ UNCHANGED reading
    BY <1>1 DEF Write, CWriteArray, CWriteString, CWriteStruct, CWriteScalar, CsWriteString,
                CsWriteList, CsFill, CsWriteArray, CsWriteStruct, CsWriteScalar, WriteEnds,
                Unchanging
  <2>2. QED
    BY <2>1, OthersAlike DEF choice, line, Given
<1>2. CASE Deliver \/ DeliverCut \/ DeliverChanged
  BY <1>2, SentAlike DEF Deliver, DeliverCut, DeliverChanged
<1>3. CASE Read
  <2>1. CASE CMoves
    BY <2>1, CAlike
  <2>2. CASE CsMoves("C#")
    BY <2>2, CsAlike
  <2>3. CASE CsMoves("Stream") \/ StreamRead
    <3>1. "Stream" \in Readers /\ "Stream" # "C" /\ "Stream" # "C#"
      BY DEF Readers
    <3>2. Moves("Stream")
      BY <2>3, <3>1, ReaderMoves, StreamReadMoves
    <3>3. QED
      BY <3>1, <3>2, OneMoves
  <2>4. CMoves \/ CsMoves("C#") \/ CsMoves("Stream") \/ StreamRead
    BY <1>3 DEF Read, CMoves, CsMoves, Readers
  <2>5. QED
    BY <2>1, <2>2, <2>3, <2>4
<1>4. CASE UNCHANGED vars
  BY <1>4, OthersAlike DEF vars, choice, line, Given
<1>5. QED
  BY <1>1, <1>2, <1>3, <1>4 DEF Next

\* Whatever bytes come, a reader in C and one in C# both read the message, and end at the
\* same position, or both refuse it, if no string of it may be huge.
THEOREM AlikeReaders == Spec => []ReadersAgree
<1>1. BufferInv /\ Alike => ReadersAgree
  <2> SUFFICES ASSUME BufferInv, Alike, Finished("C"), Finished("C#"), ~HasHugeString(struct)
               PROVE  \/ rstatus["C"] = "read" /\ rstatus["C#"] = "read" /\ pos["C"] = pos["C#"]
                      \/ rstatus["C"] = "refused" /\ rstatus["C#"] = "refused"
    BY DEF ReadersAgree
  <2> DEFINE Ended(r) == IF rstatus[r] = "read" THEN pos[r] ELSE NoLen
  <2>1. /\ wire \in Bytes /\ fixed_mode \in BOOLEAN /\ big_endian \in BOOLEAN
        /\ struct \in DOMAIN Structs /\ pos["C"] \in Nat /\ pos["C#"] \in Nat
    BY DEF BufferInv, Chosen, Written, IsRead, Readers
  <2>2. \A r \in {"C", "C#"} : /\ Decided(r) /\ rstatus[r] \in {"read", "refused"}
                               /\ Ended(r) \in End /\ Whole(Ended(r))
    BY <2>1 DEF Alike, DecidedSmall, Decided, Finished, End
  <2>3. Structs[struct] \in Seq(Fields)
    BY <2>1, StructFields
  <2>4. Ended("C") = Ended("C#")
    <3> DEFINE o == Ended("C")
               q == Ended("C#")
    <3>1. o \in End /\ q \in End /\ Whole(o) /\ Whole(q)
      BY <2>2
    <3> HIDE DEF o, q
    <3>2. o = q
      <4>1. 0 \in Nat
        OBVIOUS
      <4>2. QED
        BY <2>1, <2>3, <3>1, <4>1, WaysFacts DEF Whole
    <3>3. QED
      BY <3>2 DEF o, q
  <2>5. pos["C"] # NoLen /\ pos["C#"] # NoLen
    BY <2>1 DEF NoLen
  <2>6. QED
    BY <2>2, <2>4, <2>5
<1>2. Init => BufferInv /\ Alike
  BY InitBuffer, InitAlike
<1>3. BufferInv /\ Alike /\ [Next]_vars => (BufferInv /\ Alike)'
  BY NextBuffer, NextAlike
<1>4. QED
  BY <1>1, <1>2, <1>3, PTL DEF Spec

=============================================================================

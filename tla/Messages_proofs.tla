-------------------------- MODULE Messages_proofs --------------------------
(***************************************************************************)
(* Proofs about Messages, for every set of structs the generators accept,  *)
(* every message in the ranges of its types, every room and every width of *)
(* a byte.                                                                 *)
(*                                                                         *)
(* A message means its leaves. What a writer has written, followed by the  *)
(* bytes of what it has left to write, are the bytes of the leaves         *)
(* (MessageInv); so the emitted size functions, which count the leaves,    *)
(* are right (ActualSizes). A reader is at all times at the end of some of *)
(* the leaves, has stored what shows them, and has the fields of the       *)
(* others left to read (ReadersInv); so it ends at the last byte of a      *)
(* message that came whole, with every leaf of it (MessagesArrive), and    *)
(* refuses one that was cut off (CutsRefused).                             *)
(***************************************************************************)
EXTENDS Messages, MessageBuffers_proofs

-----------------------------------------------------------------------------
(* Items of a program, and what they consist of. *)

SizedFields == {f \in Fields : \A fixed \in BOOLEAN : ItemSize(f, fixed) \in Nat}
AnyValue == UNION {CValues(f) \cup CsValues(f) : f \in Fields}
ValuesOf(who, f) == IF who = "C" THEN CValues(f) ELSE CsValues(f)
Void(f) == IF IsArray(f) \/ IsStruct(f) THEN <<>> ELSE 0

\* The items of a program whose values are in the ranges of their types. What is
\* filled has no value.
ProperItem(who, x) ==
    /\ x.v \in ValuesOf(who, x.f) /\ InRange(who, x.f, x.v)
    /\ x.fill = TRUE => who # "C" /\ x.v = Void(x.f)
AllItems(who) == {x \in [f : SizedFields, v : AnyValue, fill : BOOLEAN] : ProperItem(who, x)}

\* A struct of C# that is null cannot be taken apart.
IsNull(who, x) == who # "C" /\ x.fill = FALSE /\ ~IsArray(x.f) /\ IsStruct(x.f) /\ x.v = <<>>
IsEnd(who, x) == IsLeaf(x.f) \/ IsNull(who, x)
FieldsIn(items) == [i \in DOMAIN items |-> items[i].f]

\* An item with its mark of a cleared slot set.
LEMMA FilledItem ==
    ASSUME NEW g, NEW v
    PROVE  [Item(g, v) EXCEPT !.fill = TRUE] = [f |-> g, v |-> v, fill |-> TRUE]
<1> DEFINE x == Item(g, v)
           y == [x EXCEPT !.fill = TRUE]
<1>1. x \in [f : {g}, v : {v}, fill : BOOLEAN]
  BY DEF Item
<1> HIDE DEF x
<1>2. y \in [f : {g}, v : {v}, fill : BOOLEAN] /\ y.fill = TRUE
  BY <1>1
<1> HIDE DEF y
<1>3. y = [f |-> g, v |-> v, fill |-> TRUE]
  BY <1>2
<1>4. QED
  BY <1>3 DEF x, y

\* What a cleared slot is.
LEMMA ClearedIs ==
    ASSUME NEW f
    PROVE  Cleared(f) = [f |-> f, v |-> Void(f), fill |-> TRUE]
<1>1. Cleared(f) = [Item(f, Void(f)) EXCEPT !.fill = TRUE]
  BY DEF Cleared, Void
<1>2. QED
  BY <1>1, FilledItem

\* What is in an item, and which items there are.
LEMMA AllItemsFacts ==
    ASSUME NEW who
    PROVE  /\ \A x \in AllItems(who) :
                 x.f \in SizedFields /\ x.f \in Fields /\ x.fill \in BOOLEAN /\ ProperItem(who, x)
           /\ \A f \in SizedFields : \A v \in ValuesOf(who, f) :
                 InRange(who, f, v) => Item(f, v) \in AllItems(who)
<1>1. \A x \in AllItems(who) :
          x.f \in SizedFields /\ x.f \in Fields /\ x.fill \in BOOLEAN /\ ProperItem(who, x)
  BY DEF AllItems, SizedFields
<1>2. ASSUME NEW f \in SizedFields, NEW v \in ValuesOf(who, f), InRange(who, f, v)
      PROVE  Item(f, v) \in AllItems(who)
  <2>1. f \in Fields
    BY DEF SizedFields
  <2>2. v \in AnyValue
    BY <2>1 DEF AnyValue, ValuesOf
  <2> DEFINE x == Item(f, v)
  <2>3. x \in [f : SizedFields, v : AnyValue, fill : BOOLEAN] /\ x.f = f /\ x.v = v /\ x.fill = FALSE
    BY <2>2 DEF Item
  <2> HIDE DEF x
  <2>4. ProperItem(who, x)
    BY <1>2, <2>3 DEF ProperItem
  <2>5. x \in AllItems(who)
    BY <2>3, <2>4 DEF AllItems
  <2>6. QED
    BY <2>5 DEF x
<1>3. QED
  BY <1>1, <1>2

\* Zero is in every range.
LEMMA ZeroRanged ==
    ASSUME NEW f \in Fields, ~IsStruct(f), NEW who
    PROVE  Ranged(who, f, 0)
<1>1. f.wire_type \in WireType
  BY FieldTypes
<1> DEFINE t == f.wire_type
           v == Values(WIRE_TYPE_SIZES[t])
<1>2. WIRE_TYPE_SIZES[t] \in Nat /\ WIRE_TYPE_SIZES[t] >= 1
  BY <1>1, WireSizes
<1>3. PICK h \in Nat : h >= 1 /\ v = 2 * h /\ v \div 2 = h
  BY <1>2, HalfOfValues
<1>4. Least(t) = IF t \in ToSet(Signed) THEN -h ELSE 0
  BY <1>3 DEF Least
<1>5. Greatest(t) = Least(t) + v - 1
  BY DEF Greatest
<1>6. 0 \in Least(t) .. Greatest(t)
  <2> HIDE DEF v, t
  <2>1. QED
    BY <1>3, <1>4, <1>5
<1>7. v \in Nat /\ Values(2) \in Nat /\ Values(2) >= 1
  BY <1>2, ValuesType
<1>8. 0 \in 0 .. Values(2) - 1
  <2> DEFINE w == Values(2)
  <2>1. w \in Nat /\ w >= 1
    BY <1>7
  <2> HIDE DEF w
  <2>2. 0 \in 0 .. w - 1
    BY <2>1
  <2>3. QED
    BY <2>2 DEF w
<1> HIDE DEF v
<1>9. QED
  BY <1>6, <1>8 DEF Ranged

\* A cleared slot, and a zero at the end of a short array, are items.
LEMMA VoidItems ==
    ASSUME NEW f \in SizedFields
    PROVE  /\ Cleared(f) \in AllItems("C#")
           /\ \A who : ~IsArray(f) /\ ~IsStruct(f) => Item(f, 0) \in AllItems(who)
<1>1. f \in Fields
  BY DEF SizedFields
<1>2. Void(f) \in CsValues(f)
  <2>1. CASE IsArray(f)
    <3>1. \A S : <<>> \in Seq(S)
      OBVIOUS
    <3>2. QED
      BY <2>1, <3>1, Zenon DEF Void, CsValues
  <2>2. CASE ~IsArray(f) /\ IsStruct(f)
    BY <2>2 DEF Void, CsValues
  <2>3. CASE ~IsArray(f) /\ ~IsStruct(f)
    BY <2>3 DEF Void, CsValues, field_is_string
  <2>4. QED
    BY <2>1, <2>2, <2>3
<1>3. InRange("C#", f, Void(f))
  <2>1. CASE IsStruct(f)
    BY <2>1 DEF InRange
  <2>2. CASE ~IsStruct(f) /\ IsArray(f)
    BY <2>2 DEF InRange, Void
  <2>3. CASE ~IsStruct(f) /\ ~IsArray(f)
    <3>1. Ranged("C#", f, 0)
      BY <1>1, <2>3, ZeroRanged
    <3>2. QED
      BY <2>3, <3>1 DEF InRange, Void
  <2>4. QED
    BY <2>1, <2>2, <2>3
<1>4. Cleared(f) \in AllItems("C#")
  <2>1. Void(f) \in AnyValue
    BY <1>1, <1>2 DEF AnyValue
  <2> DEFINE x == Cleared(f)
  <2>2. x \in [f : SizedFields, v : AnyValue, fill : BOOLEAN] /\ x.f = f /\ x.v = Void(f) /\ x.fill = TRUE
    BY <2>1, ClearedIs
  <2> HIDE DEF x
  <2>3. ProperItem("C#", x)
    BY <1>2, <1>3, <2>2 DEF ProperItem, ValuesOf
  <2>4. x \in AllItems("C#")
    BY <2>2, <2>3 DEF AllItems
  <2>5. QED
    BY <2>4 DEF x
<1>5. ASSUME NEW who, ~IsArray(f), ~IsStruct(f)
      PROVE  Item(f, 0) \in AllItems(who)
  <2>1. 0 \in ValuesOf(who, f)
    BY <1>5 DEF ValuesOf, CValues, CsValues, field_is_string
  <2>2. InRange(who, f, 0)
    BY <1>1, <1>5, ZeroRanged DEF InRange
  <2>3. QED
    BY <2>1, <2>2, AllItemsFacts
<1>6. QED
  BY <1>4, <1>5

\* The structs of a header have sizes, and so have their fields.
LEMMA SizedStructs == \A s \in DOMAIN Structs : Structs[s] \in Seq(SizedFields)
<1>1. ASSUME NEW s \in DOMAIN Structs
      PROVE  Structs[s] \in Seq(SizedFields)
  <2> DEFINE fs == Structs[s]
             n == Len(fs)
  <2>1. fs \in Seq(Fields) /\ n \in Nat /\ DOMAIN fs = 1 .. n /\ \A i \in 1 .. n : fs[i] \in Fields
    BY StructFields, LenProperties, ElementOfSeq
  <2>2. ASSUME NEW i \in 1 .. n, NEW fixed \in BOOLEAN
        PROVE  ItemSize(fs[i], fixed) \in Nat
    <3> DEFINE sizes == [j \in DOMAIN Structs[s] |-> ItemSize(Structs[s][j], fixed)]
    <3>1. sizes \in Seq(Nat)
      BY MaxSizeIs
    <3>2. DOMAIN sizes = 1 .. n /\ sizes[i] = ItemSize(fs[i], fixed)
      BY <2>1
    <3> HIDE DEF sizes, fs, n
    <3>3. Len(sizes) \in Nat /\ DOMAIN sizes = 1 .. Len(sizes)
      BY <3>1, LenProperties
    <3>4. sizes[i] \in Nat
      BY <3>1, <3>2, <3>3, ElementOfSeq
    <3>5. QED
      BY <3>2, <3>4
  <2>3. \A i \in 1 .. n : fs[i] \in SizedFields
    BY <2>1, <2>2 DEF SizedFields
  <2> HIDE DEF fs, n
  <2>4. fs = [i \in 1 .. n |-> fs[i]]
    BY <2>1
  <2>5. fs \in Seq(SizedFields)
    BY <2>1, <2>3, <2>4, AsSequence
  <2>6. QED
    BY <2>5 DEF fs
<1>2. QED
  BY <1>1

\* An element of an array with a size has a size.
LEMMA SizedElement ==
    ASSUME NEW f \in SizedFields
    PROVE  Element(f) \in SizedFields
<1>1. f \in Fields
  BY DEF SizedFields
<1>2. ASSUME NEW fixed \in BOOLEAN
      PROVE  ItemSize(Element(f), fixed) \in Nat
  <2>1. ItemSize(f, fixed) \in Nat
    BY DEF SizedFields
  <2>2. OneSize(f.wire_type, fixed) \in Nat /\ ItemSize(Element(f), fixed) = OneSize(f.wire_type, fixed)
    BY <1>1, <2>1, FieldSized
  <2>3. QED
    BY <2>2
<1>3. QED
  BY <1>1, <1>2, ElementTypes DEF SizedFields

\* What is in the item of a value.
LEMMA ItemIs == \A f, v : Item(f, v).f = f /\ Item(f, v).v = v /\ Item(f, v).fill = FALSE
BY DEF Item

\* What a field with a size consists of has sizes.
LEMMA SizedContent ==
    ASSUME NEW f \in SizedFields, ~IsLeaf(f)
    PROVE  Content(f) \in Seq(SizedFields)
<1>1. f \in Fields
  BY DEF SizedFields
<1>2. CASE IsArray(f)
  <2> DEFINE e == Element(f)
             n == f.array_len
  <2>1. e \in SizedFields /\ n \in Nat
    BY <1>1, <1>2, SizedElement, FieldTypes
  <2>2. Content(f) = [i \in 1 .. n |-> e]
    BY <1>2 DEF Content
  <2> HIDE DEF e, n
  <2>3. QED
    BY <2>1, <2>2, RepeatedFacts
<1>3. CASE ~IsArray(f)
  <2>1. IsStruct(f)
    BY <1>3 DEF IsLeaf
  <2>2. f.wire_type \in DOMAIN Structs
    BY <2>1 DEF IsStruct
  <2>3. QED
    BY <1>3, <2>2, SizedStructs DEF Content
<1>4. QED
  BY <1>2, <1>3

\* What is in the range of an array is in the range of its elements.
LEMMA ElementRanged ==
    ASSUME NEW f \in Fields, IsArray(f), ~field_is_string(f), NEW who, NEW v
    PROVE  /\ InRange(who, Element(f), v) <=> IsStruct(f) \/ Ranged(who, f, v)
           /\ Void(Element(f)) = IF IsStruct(f) THEN <<>> ELSE 0
<1> DEFINE e == Element(f)
<1>1. ~IsArray(e) /\ (IsStruct(e) <=> IsStruct(f)) /\ e.wire_type = f.wire_type
  BY ElementTypes
<1>2. e.type = f.type
  BY DEF Element, Fields, AnyField
<1>3. f.type # "char" /\ f.type # "wchar_t"
  BY DEF field_is_string
<1>4. Ranged(who, e, v) <=> Ranged(who, f, v)
  <2> HIDE DEF e
  <2>1. QED
    BY <1>1, <1>2, <1>3 DEF Ranged
<1> HIDE DEF e
<1>5. InRange(who, e, v) <=> IsStruct(f) \/ Ranged(who, f, v)
  BY <1>1, <1>4 DEF InRange
<1>6. Void(e) = IF IsStruct(f) THEN <<>> ELSE 0
  BY <1>1 DEF Void
<1>7. QED
  BY <1>5, <1>6 DEF e

\* The beginning of a sequence.
LEMMA CutElements ==
    ASSUME NEW S, NEW s \in Seq(S), NEW n \in Nat
    PROVE  /\ \A i \in 1 .. Len(Cut(s, n)) : Cut(s, n)[i] = s[i] /\ i \in 1 .. Len(s)
           /\ Len(s) <= n => Cut(s, n) = s
<1> DEFINE m == Min({n, Len(s)})
<1>1. Len(s) \in Nat /\ Len(s) \in Int /\ n \in Int
  OBVIOUS
<1>2. m \in {n, Len(s)} /\ m <= n /\ m <= Len(s)
  BY <1>1, MinOfTwo, Zenon
<1>3. Cut(s, n) = SubSeq(s, 1, m)
  BY DEF Cut
<1> HIDE DEF m
<1>4. m \in Nat
  BY <1>1, <1>2
<1>5. \A i \in 1 .. m : s[i] \in S
  BY <1>1, <1>2, <1>4, ElementOfSeq
<1>6. Len(SubSeq(s, 1, m)) = m /\ \A i \in 1 .. m : SubSeq(s, 1, m)[i] = s[i]
  BY <1>4, <1>5, SubSeqProperties
<1>7. Len(s) <= n => SubSeq(s, 1, m) = s
  <2>1. Len(s) <= n => m = Len(s)
    BY <1>1, <1>2
  <2>2. SubSeq(s, 1, Len(s)) = s
    BY SubSeqFull
  <2>3. QED
    BY <2>1, <2>2
<1>8. QED
  BY <1>1, <1>2, <1>3, <1>4, <1>6, <1>7

AreElements(f, v, items, I) ==
    /\ items \in Seq(I) /\ Len(items) = Len(v)
    /\ \A i \in 1 .. Len(v) : items[i] = Item(Element(f), v[i])

\* Elements of values that make items are items.
LEMMA SomeElements ==
    ASSUME NEW f, NEW V, NEW I, NEW v \in Seq(V), \A y \in V : Item(Element(f), y) \in I
    PROVE  AreElements(f, v, Elements(f, v), I)
<1>1. DOMAIN v = 1 .. Len(v) /\ Len(v) \in Nat /\ \A i \in 1 .. Len(v) : v[i] \in V
  BY ElementOfSeq
<1>2. Elements(f, v) = [i \in 1 .. Len(v) |-> Item(Element(f), v[i])]
  BY <1>1 DEF Elements
<1>3. \A i \in 1 .. Len(v) : Item(Element(f), v[i]) \in I
  BY <1>1
<1>4. QED
  BY <1>1, <1>2, <1>3 DEF AreElements

\* What an item that is no end consists of.
TakenApart(who, x, items) ==
    /\ items \in Seq(AllItems(who))
    /\ FieldsIn(items) = Content(x.f)
    /\ x.fill = TRUE => \A i \in 1 .. Len(items) : items[i].fill = TRUE

\* The elements an array is given, at most as many as are declared, are items.
LEMMA GivenElements ==
    ASSUME NEW who \in {"C", "C#"}, NEW x \in AllItems(who), IsArray(x.f), ~field_is_string(x.f)
    PROVE  AreElements(x.f, Cut(x.v, x.f.array_len), Elements(x.f, Cut(x.v, x.f.array_len)),
                       AllItems(who))
<1> DEFINE f == x.f
           e == Element(f)
           n == f.array_len
           V == {y \in ValuesOf(who, e) : InRange(who, e, y)}
           c == Cut(x.v, n)
<1>1. f \in Fields /\ f \in SizedFields /\ ProperItem(who, x)
  BY AllItemsFacts
<1>2. n \in Nat /\ e \in SizedFields
  BY <1>1, FieldTypes, SizedElement
<1>3. x.v \in Seq(ValuesOf(who, e))
  <2>1. x.v \in ValuesOf(who, f)
    BY <1>1 DEF ProperItem
  <2>2. QED
    BY <1>1, <2>1, ArrayValues DEF ValuesOf
<1>4. InRange(who, f, x.v)
  BY <1>1 DEF ProperItem
<1>5. DOMAIN x.v = 1 .. Len(x.v) /\ Len(x.v) \in Nat /\ \A i \in 1 .. Len(x.v) : x.v[i] \in ValuesOf(who, e)
  BY <1>3, ElementOfSeq, LenProperties
<1>6. ASSUME NEW i \in 1 .. Len(x.v)
      PROVE  InRange(who, e, x.v[i])
  <2>1. IsStruct(f) \/ Ranged(who, f, x.v[i])
    BY <1>4, <1>5 DEF InRange
  <2>2. QED
    BY <1>1, <2>1, ElementRanged
<1>7. \A y \in V : Item(e, y) \in AllItems(who)
  BY <1>2, AllItemsFacts
<1>8. c \in Seq(V)
  <2>1. c \in Seq(ValuesOf(who, e)) /\ Len(c) \in Nat
    BY <1>2, <1>3, CutFacts
  <2>2. \A i \in 1 .. Len(c) : c[i] = x.v[i] /\ i \in 1 .. Len(x.v)
    BY <1>2, <1>3, CutElements
  <2>3. \A i \in 1 .. Len(c) : c[i] \in V
    BY <1>5, <1>6, <2>2
  <2> HIDE DEF c, V
  <2>4. c = [i \in 1 .. Len(c) |-> c[i]]
    BY <2>1
  <2>5. QED
    BY <2>1, <2>3, <2>4, AsSequence
<1> HIDE DEF V, c, n
<1>9. AreElements(f, c, Elements(f, c), AllItems(who))
  BY <1>7, <1>8, SomeElements
<1>10. QED
  BY <1>9 DEF c, n

\* An array is taken apart into as many elements as are declared.
LEMMA ArrayParts ==
    ASSUME NEW who \in {"C", "C#"}, NEW x \in AllItems(who), IsArray(x.f), ~field_is_string(x.f)
    PROVE  TakenApart(who, x, Parts(who, x))
<1> DEFINE f == x.f
           e == Element(f)
           n == f.array_len
           c == Cut(x.v, n)
           some == Elements(f, c)
           absent == IF x.fill \/ IsStruct(f) THEN Cleared(e) ELSE Item(e, 0)
           rest == [i \in 1 .. n - Len(c) |-> absent]
           A == AllItems(who)
<1>1. f \in Fields /\ f \in SizedFields /\ ProperItem(who, x) /\ x.fill \in BOOLEAN
  BY AllItemsFacts
<1>2. n \in Nat /\ e \in SizedFields
  BY <1>1, FieldTypes, SizedElement
<1>3. x.v \in Seq(ValuesOf(who, e)) /\ (who = "C" => Len(x.v) = n)
  <2>1. x.v \in ValuesOf(who, f)
    BY <1>1 DEF ProperItem
  <2>2. QED
    BY <1>1, <2>1, ArrayValues DEF ValuesOf
<1>4. Len(c) \in Nat /\ Len(c) <= n /\ (Len(x.v) <= n => c = x.v)
  BY <1>2, <1>3, CutFacts, CutElements
<1>5. some \in Seq(A) /\ Len(some) = Len(c) /\ \A i \in 1 .. Len(c) : some[i] = Item(e, c[i])
  <2>1. AreElements(f, c, some, A)
    BY GivenElements
  <2> HIDE DEF f, c, some, A
  <2>2. QED
    BY <2>1 DEF AreElements, e
<1>6. Parts(who, x) = some \o rest
  BY DEF Parts
<1>7. absent.f = e /\ (x.fill = TRUE => absent.fill = TRUE)
  <2>1. Cleared(e).f = e /\ Cleared(e).fill = TRUE
    BY ClearedIs
  <2>2. Item(e, 0).f = e
    BY DEF Item
  <2>3. QED
    BY <2>1, <2>2
<1>8. rest \in Seq(A) /\ Len(rest) = n - Len(c)
  <2>1. CASE who = "C"
    <3>1. n - Len(c) = 0
      BY <1>2, <1>3, <1>4, <2>1
    <3> HIDE DEF c, absent, A, n
    <3>2. rest = <<>>
      BY <3>1
    <3>3. <<>> \in Seq(A) /\ Len(<<>>) = 0
      OBVIOUS
    <3>4. QED
      BY <3>1, <3>2, <3>3
  <2>2. CASE who = "C#"
    <3>1. Cleared(e) \in A
      BY <1>2, <2>2, VoidItems
    <3>2. ~IsStruct(f) => Item(e, 0) \in A
      <4>1. ~IsArray(e) /\ (IsStruct(e) <=> IsStruct(f))
        BY <1>1, ElementTypes
      <4>2. QED
        BY <1>2, <4>1, VoidItems
    <3>3. absent \in A
      BY <3>1, <3>2
    <3>4. n - Len(c) \in Nat
      BY <1>2, <1>4
    <3> HIDE DEF c, absent, A, n
    <3>5. QED
      BY <3>3, <3>4, RepeatedFacts
  <2>3. QED
    BY <2>1, <2>2
<1> DEFINE m == n - Len(c)
<1>9. m \in Nat
  BY <1>2, <1>4
<1>10. \A i \in 1 .. m : rest[i] = absent
  OBVIOUS
<1> DEFINE p == some \o rest
<1>11. p \in Seq(A) /\ Len(p) = n /\ DOMAIN p = 1 .. n
  <2> HIDE DEF some, rest, A, c, n
  <2>1. p \in Seq(A) /\ Len(p) = Len(some) + Len(rest)
    BY <1>5, <1>8, Concatenated
  <2> HIDE DEF p
  <2>2. QED
    BY <1>2, <1>4, <1>5, <1>8, <2>1, LenProperties
<1>12. \A i \in 1 .. n : p[i] = IF i <= Len(c) THEN some[i] ELSE rest[i - Len(c)]
  <2> HIDE DEF some, rest, A, c, n
  <2>1. p = [i \in 1 .. Len(some) + Len(rest) |-> IF i <= Len(some) THEN some[i] ELSE rest[i - Len(some)]]
    BY <1>5, <1>8, Joined
  <2>2. Len(some) + Len(rest) = n
    BY <1>2, <1>4, <1>5, <1>8
  <2> HIDE DEF p
  <2>3. QED
    BY <1>5, <2>1, <2>2
<1>13. \A i \in 1 .. n : p[i].f = e /\ (x.fill = TRUE => p[i].fill = TRUE)
  <2>1. ASSUME NEW i \in 1 .. n
        PROVE  p[i].f = e /\ (x.fill = TRUE => p[i].fill = TRUE)
    <3>1. CASE i <= Len(c)
      <4>1. p[i] = Item(e, c[i])
        BY <1>4, <1>5, <1>12, <3>1
      <4>2. p[i].f = e
        <5> HIDE DEF p, e, c
        <5>1. QED
          BY <4>1, ItemIs
      <4>3. x.fill = TRUE => Len(c) = 0
        <5>1. x.fill = TRUE => x.v = <<>>
          BY <1>1 DEF ProperItem, Void
        <5>2. x.v = <<>> => Len(x.v) = 0
          OBVIOUS
        <5> HIDE DEF c, n
        <5>3. Len(x.v) = 0 => c = x.v
          BY <1>2, <1>4
        <5>4. QED
          BY <5>1, <5>2, <5>3
      <4> HIDE DEF p, e, c, n
      <4>4. QED
        BY <3>1, <4>2, <4>3
    <3>2. CASE ~(i <= Len(c))
      <4>1. p[i] = rest[i - Len(c)]
        BY <1>12, <3>2
      <4>2. i - Len(c) \in 1 .. m
        BY <1>2, <1>4, <3>2
      <4>3. rest[i - Len(c)] = absent
        BY <1>10, <4>2
      <4> HIDE DEF rest, absent
      <4>4. QED
        BY <1>7, <4>1, <4>3
    <3>3. QED
      BY <3>1, <3>2
  <2>2. QED
    BY <2>1
<1>14. Content(f) = [i \in 1 .. n |-> e]
  BY DEF Content
<1> HIDE DEF p, some, rest, c, e
<1>15. FieldsIn(p) = [i \in 1 .. n |-> e]
  BY <1>11, <1>13 DEF FieldsIn
<1>16. TakenApart(who, x, p)
  BY <1>11, <1>13, <1>14, <1>15 DEF TakenApart
<1>17. QED
  BY <1>6, <1>16 DEF p

\* A message is a list of items, one for each field of the struct.
MessagesOf(who, s) == IF who = "C" THEN CMessages[s] ELSE CsMessages[s]
AreFields(who, s, items) ==
    /\ items \in Seq(AllItems(who)) /\ Len(items) = Len(Structs[s])
    /\ FieldsIn(items) = Structs[s]

\* The fields of a struct, and that they have sizes.
LEMMA StructIs ==
    ASSUME NEW s \in DOMAIN Structs
    PROVE  /\ DOMAIN Structs[s] = 1 .. Len(Structs[s]) /\ Len(Structs[s]) \in Nat
           /\ \A i \in 1 .. Len(Structs[s]) : Structs[s][i] \in SizedFields
BY SizedStructs, LenProperties, ElementOfSeq

\* Items that have the fields of a struct, in their order, are its fields.
LEMMA AreFieldsIf ==
    ASSUME NEW who, NEW s \in DOMAIN Structs, NEW items,
           items = [i \in DOMAIN Structs[s] |-> items[i]],
           \A i \in DOMAIN Structs[s] : items[i] \in AllItems(who) /\ items[i].f = Structs[s][i]
    PROVE  AreFields(who, s, items)
<1> DEFINE fs == Structs[s]
           n == Len(fs)
<1>1. DOMAIN fs = 1 .. n /\ n \in Nat
  BY StructIs
<1>2. fs = [i \in 1 .. n |-> fs[i]]
  <2>1. fs \in Seq(SizedFields)
    BY SizedStructs
  <2> HIDE DEF fs
  <2>2. QED
    BY <2>1
<1>3. items = [i \in 1 .. n |-> items[i]] /\ \A i \in 1 .. n : items[i] \in AllItems(who) /\ items[i].f = fs[i]
  BY <1>1
<1> HIDE DEF fs, n
<1>4. items \in Seq(AllItems(who)) /\ Len(items) = n
  BY <1>1, <1>3, AsSequence
<1>5. DOMAIN items = 1 .. n
  BY <1>3
<1>6. FieldsIn(items) = [i \in 1 .. n |-> fs[i]]
  BY <1>3, <1>5 DEF FieldsIn
<1>7. QED
  BY <1>2, <1>4, <1>6 DEF AreFields, fs, n

\* A message is the items of its struct's fields, none of them cleared.
LEMMA MessageItems ==
    ASSUME NEW who \in {"C", "C#"}, NEW s \in DOMAIN Structs, NEW m \in MessagesOf(who, s)
    PROVE  /\ AreFields(who, s, FieldsOf(s, m))
           /\ \A i \in DOMAIN Structs[s] : FieldsOf(s, m)[i].fill = FALSE
<1> DEFINE items == FieldsOf(s, m)
<1>1. items = [i \in DOMAIN Structs[s] |-> Item(Structs[s][i], m[i])]
  BY DEF FieldsOf
<1>2. ASSUME NEW i \in DOMAIN Structs[s]
      PROVE  items[i] \in AllItems(who) /\ items[i].f = Structs[s][i] /\ items[i].fill = FALSE
  <2> DEFINE f == Structs[s][i]
  <2>1. f \in SizedFields
    BY StructIs
  <2>2. m[i] \in ValuesOf(who, f)
    BY MessagesAssumption DEF MessagesOf, ValuesOf
  <2>3. InRange(who, f, m[i])
    BY RangesAssumption DEF MessagesOf
  <2>4. items[i] = Item(f, m[i])
    BY <1>1
  <2> HIDE DEF f, items
  <2>5. Item(f, m[i]) \in AllItems(who)
    BY <2>1, <2>2, <2>3, AllItemsFacts
  <2>6. QED
    BY <2>4, <2>5, ItemIs DEF f
<1> HIDE DEF items
<1>3. items = [i \in DOMAIN Structs[s] |-> items[i]]
  BY <1>1
<1>4. AreFields(who, s, items)
  BY <1>2, <1>3, AreFieldsIf
<1>5. QED
  BY <1>2, <1>4 DEF items

\* A struct is taken apart into its fields.
LEMMA StructParts ==
    ASSUME NEW who \in {"C", "C#"}, NEW x \in AllItems(who), ~IsArray(x.f), IsStruct(x.f),
           ~IsNull(who, x)
    PROVE  TakenApart(who, x, Parts(who, x))
<1> DEFINE f == x.f
           name == f.wire_type
           p == Parts(who, x)
           A == AllItems(who)
<1>1. f \in Fields /\ f \in SizedFields /\ ProperItem(who, x) /\ x.fill \in BOOLEAN
  BY AllItemsFacts
<1>2. name \in DOMAIN Structs /\ Content(f) = Structs[name] /\ ~field_is_string(f)
  BY DEF IsStruct, Content, field_is_string
<1>3. x.v \in ValuesOf(who, f)
  BY <1>1 DEF ProperItem
<1>4. CASE x.fill = TRUE
  <2>1. who = "C#"
    BY <1>1, <1>4 DEF ProperItem
  <2>2. p = [i \in DOMAIN Structs[name] |-> Cleared(Structs[name][i])]
    BY <1>4 DEF Parts
  <2> HIDE DEF p
  <2>3. ASSUME NEW i \in DOMAIN Structs[name]
        PROVE  p[i] \in A /\ p[i].f = Structs[name][i] /\ p[i].fill = TRUE
    <3> DEFINE g == Structs[name][i]
    <3>1. g \in SizedFields
      BY <1>2, StructIs
    <3>2. p[i] = Cleared(g)
      BY <2>2
    <3> HIDE DEF g, p
    <3>3. Cleared(g) \in A
      BY <2>1, <3>1, VoidItems
    <3>4. Cleared(g).f = g /\ Cleared(g).fill = TRUE
      BY ClearedIs
    <3>5. QED
      BY <3>2, <3>3, <3>4 DEF g
  <2>4. p = [i \in DOMAIN Structs[name] |-> p[i]]
    BY <2>2
  <2>5. AreFields(who, name, p)
    BY <1>2, <2>3, <2>4, AreFieldsIf
  <2>6. DOMAIN Structs[name] = 1 .. Len(p)
    BY <1>2, <2>5, StructIs DEF AreFields
  <2> HIDE DEF f, name
  <2>7. QED
    BY <1>2, <2>3, <2>5, <2>6 DEF TakenApart, AreFields, p, f
<1>5. CASE x.fill = FALSE
  <2>1. PICK m \in MessagesOf(who, name) : p = FieldsOf(name, m)
    <3>1. CASE who = "C"
      <4>1. x.v \in CMessages[name]
        BY <1>3, <3>1 DEF ValuesOf, CValues
      <4>2. p = FieldsOf(name, x.v)
        BY <1>5, <3>1 DEF Parts
      <4>3. QED
        BY <3>1, <4>1, <4>2 DEF MessagesOf
    <3>2. CASE who = "C#"
      <4>1. x.v \in {<<>>} \cup {<<m>> : m \in CsMessages[name]}
        BY <1>3, <3>2 DEF ValuesOf, CsValues
      <4>2. x.v # <<>>
        BY <1>5, <3>2 DEF IsNull
      <4>3. x.v[1] \in CsMessages[name]
        BY <4>1, <4>2
      <4>4. p = FieldsOf(name, x.v[1])
        BY <1>5, <3>2, <4>2 DEF Parts
      <4>5. QED
        BY <3>2, <4>3, <4>4 DEF MessagesOf
    <3>3. QED
      BY <3>1, <3>2
  <2>2. AreFields(who, name, p)
    BY <1>2, <2>1, MessageItems
  <2> HIDE DEF f, name, p
  <2>3. QED
    BY <1>2, <1>5, <2>2 DEF TakenApart, AreFields, p, f
<1>6. QED
  BY <1>1, <1>4, <1>5

\* An end is taken apart into itself, and every other item into items of its content.
PartsOk(who, x) ==
    /\ IsEnd(who, x) => Parts(who, x) = <<x>>
    /\ ~IsEnd(who, x) => TakenApart(who, x, Parts(who, x))
    /\ Parts(who, x) \in Seq(AllItems(who))

\* Every item is a leaf or is taken apart.
LEMMA PartsFacts ==
    ASSUME NEW who \in {"C", "C#"}, NEW x \in AllItems(who)
    PROVE  PartsOk(who, x)
<1> DEFINE f == x.f
<1>1. x.f \in Fields /\ x.fill \in BOOLEAN /\ (field_is_string(x.f) => IsArray(x.f))
  BY AllItemsFacts DEF field_is_string
<1>2. IsEnd(who, x) => Parts(who, x) = <<x>>
  <2>1. CASE IsLeaf(x.f)
    <3>1. (IsArray(x.f) /\ ~field_is_string(x.f)) = FALSE /\ (IsArray(x.f) \/ ~IsStruct(x.f)) = TRUE
      BY <1>1, <2>1 DEF IsLeaf
    <3>2. QED
      BY <3>1, Zenon DEF Parts
  <2>2. CASE IsNull(who, x)
    BY <2>2, Zenon DEF Parts, IsNull
  <2>3. QED
    BY <2>1, <2>2 DEF IsEnd
<1>3. ~IsEnd(who, x) => TakenApart(who, x, Parts(who, x))
  <2>1. CASE IsArray(x.f) /\ ~field_is_string(x.f)
    BY <2>1, ArrayParts
  <2>2. CASE ~IsArray(x.f) /\ IsStruct(x.f) /\ ~IsNull(who, x)
    BY <2>2, StructParts
  <2>3. QED
    BY <1>1, <2>1, <2>2 DEF IsEnd, IsLeaf
<1>4. Parts(who, x) \in Seq(AllItems(who))
  <2>1. <<x>> \in Seq(AllItems(who))
    OBVIOUS
  <2>2. QED
    BY <1>2, <1>3, <2>1 DEF TakenApart
<1>5. QED
  BY <1>2, <1>3, <1>4 DEF PartsOk

-----------------------------------------------------------------------------
(* How deep fields are. *)

\* No struct of a header that has sizes holds itself.
LEMMA NoCircle == ~HoldsItself(Structs)
<1> SUFFICES ASSUME HoldsItself(Structs)
             PROVE  FALSE
  OBVIOUS
<1>1. Parsed(Structs)
  BY StructsAssumption
<1>2. PICK names \in SUBSET DOMAIN Structs :
          names # {} /\ \A n \in names : Held(Structs, n) \cap names # {}
  BY DEF HoldsItself
<1> PICK fixed \in BOOLEAN : TRUE
  OBVIOUS
<1>3. PICK size : IsSize(size, Structs, fixed) /\ \A n : struct_wire_size(n, Structs, fixed) = size[{}][n]
  BY <1>1, SizeOfStructIs
<1>4. \A n \in names : size[{}][n] = Error
  BY <1>1, <1>2, <1>3, FindsCircle
<1>5. PICK n \in names : n \in DOMAIN Structs
  BY <1>2
<1>6. struct_wire_size(n, Structs, fixed) # Error
  BY <1>5, StructsAssumption
<1>7. QED
  BY <1>3, <1>4, <1>5, <1>6

\* The structs below a struct are fewer than the structs below what holds it.
Height(s) == Cardinality(Below(Structs, s))

\* A struct is less deep than there are structs.
LEMMA HeightFacts ==
    ASSUME NEW s \in DOMAIN Structs
    PROVE  /\ Height(s) \in Nat /\ Height(s) + 1 <= Cardinality(DOMAIN Structs)
           /\ Cardinality(DOMAIN Structs) \in Nat
<1> DEFINE D == DOMAIN Structs
           B == Below(Structs, s)
<1>1. IsFiniteSet(D) /\ Parsed(Structs)
  BY StructsAssumption DEF Parsed
<1>2. B \subseteq D /\ s \notin B
  BY <1>1, BelowFacts, NotBelowItself, NoCircle
<1> HIDE DEF B
<1>3. IsFiniteSet(B) /\ Cardinality(B) <= Cardinality(D) /\ (Cardinality(D) = Cardinality(B) => D = B)
  <2>1. B \in SUBSET D
    BY <1>2
  <2>2. QED
    BY <1>1, <2>1, FS_Subset
<1>4. Cardinality(B) \in Nat /\ Cardinality(D) \in Nat
  BY <1>1, <1>3, FS_CardinalityType
<1>5. Cardinality(D) # Cardinality(B)
  BY <1>2, <1>3
<1>6. QED
  BY <1>3, <1>4, <1>5 DEF Height, B

\* A struct that another holds is less deep.
LEMMA HeldLower ==
    ASSUME NEW s \in DOMAIN Structs, NEW t \in Held(Structs, s)
    PROVE  t \in DOMAIN Structs /\ Height(t) + 1 <= Height(s)
<1> DEFINE B == Below(Structs, s)
           C == Below(Structs, t)
<1>1. Parsed(Structs) /\ IsFiniteSet(DOMAIN Structs)
  BY StructsAssumption DEF Parsed
<1>2. B \subseteq DOMAIN Structs /\ t \in B /\ HeldWithin(Structs, B)
  BY <1>1, BelowFacts
<1>3. t \in DOMAIN Structs
  BY <1>2
<1>4. Held(Structs, t) \subseteq B
  BY <1>2 DEF HeldWithin
<1>5. C \subseteq B
  <2>1. \A S \in SUBSET DOMAIN Structs :
            HeldWithin(Structs, S) /\ Held(Structs, t) \subseteq S => C \subseteq S
    BY <1>1, <1>3, BelowFacts
  <2>2. QED
    BY <1>2, <1>4, <2>1
<1>6. t \notin C
  BY <1>1, <1>3, NoCircle, NotBelowItself
<1>7. IsFiniteSet(B)
  <2>1. B \in SUBSET DOMAIN Structs
    BY <1>2
  <2>2. QED
    BY <1>1, <2>1, FS_Subset
<1> HIDE DEF B, C
<1>8. Cardinality(C) <= Cardinality(B) /\ (Cardinality(B) = Cardinality(C) => B = C) /\ IsFiniteSet(C)
  <2>1. C \in SUBSET B
    BY <1>5
  <2>2. QED
    BY <1>7, <2>1, FS_Subset
<1>9. Cardinality(B) \in Nat /\ Cardinality(C) \in Nat
  BY <1>7, <1>8, FS_CardinalityType
<1>10. Cardinality(B) # Cardinality(C)
  BY <1>2, <1>6, <1>8
<1>11. Height(s) = Cardinality(B) /\ Height(t) = Cardinality(C)
  BY DEF Height, B, C
<1>12. QED
  BY <1>3, <1>8, <1>9, <1>10, <1>11

\* In so many steps a field is taken apart.
Rank(f) == (IF IsArray(f) /\ ~field_is_string(f) THEN 1 ELSE 0)
           + (IF IsStruct(f) THEN 2 * (Height(f.wire_type) + 1) ELSE 0)

\* A field is at most as deep as leaves are looked for.
LEMMA RankType ==
    ASSUME NEW f \in Fields
    PROVE  /\ Rank(f) \in Nat /\ Rank(f) <= Depth
           /\ Rank(f) = 0 => IsLeaf(f)
<1> DEFINE c == Cardinality(DOMAIN Structs)
           h == Height(f.wire_type)
<1>1. CASE IsStruct(f)
  <2>1. f.wire_type \in DOMAIN Structs
    BY <1>1 DEF IsStruct
  <2>2. h \in Nat /\ h + 1 <= c /\ c \in Nat
    BY <2>1, HeightFacts
  <2>3. Rank(f) = (IF IsArray(f) /\ ~field_is_string(f) THEN 1 ELSE 0) + 2 * (h + 1)
    BY <1>1 DEF Rank
  <2>4. Depth = 2 * c + 1
    BY DEF Depth
  <2> HIDE DEF h, c
  <2>5. QED
    BY <2>2, <2>3, <2>4
<1>2. CASE ~IsStruct(f)
  <2>1. Rank(f) = IF IsArray(f) /\ ~field_is_string(f) THEN 1 ELSE 0
    BY <1>2 DEF Rank
  <2>2. c \in Nat
    BY StructsAssumption, FS_CardinalityType DEF Parsed
  <2>3. Depth = 2 * c + 1
    BY DEF Depth
  <2>4. Rank(f) = 0 => IsLeaf(f)
    BY <1>2, <2>1 DEF IsLeaf
  <2> HIDE DEF c
  <2>5. QED
    BY <2>1, <2>2, <2>3, <2>4
<1>3. QED
  BY <1>1, <1>2

\* What a field consists of is less deep than the field.
LEMMA RankFalls ==
    ASSUME NEW f \in Fields, ~IsLeaf(f)
    PROVE  \A i \in DOMAIN Content(f) : Rank(Content(f)[i]) + 1 <= Rank(f)
<1>1. CASE IsArray(f)
  <2> DEFINE e == Element(f)
             h == 2 * (Height(f.wire_type) + 1)
  <2>1. Content(f) = [i \in 1 .. f.array_len |-> e]
    BY <1>1 DEF Content
  <2>2. ~IsArray(e) /\ (IsStruct(e) <=> IsStruct(f)) /\ e.wire_type = f.wire_type /\ ~field_is_string(f)
    BY <1>1, ElementTypes DEF IsLeaf
  <2>3. IsStruct(f) => h \in Nat
    <3>1. IsStruct(f) => Height(f.wire_type) \in Nat
      BY HeightFacts DEF IsStruct
    <3>2. QED
      BY <3>1
  <2> HIDE DEF e
  <2>4. Rank(e) = (IF IsStruct(f) THEN h ELSE 0) /\ Rank(f) = 1 + (IF IsStruct(f) THEN h ELSE 0)
    <3>1. Rank(e) = 0 + (IF IsStruct(f) THEN h ELSE 0)
      BY <2>2 DEF Rank
    <3>2. Rank(f) = 1 + (IF IsStruct(f) THEN h ELSE 0)
      BY <1>1, <2>2 DEF Rank
    <3> HIDE DEF h
    <3>3. QED
      BY <2>3, <3>1, <3>2
  <2> HIDE DEF h
  <2>5. Rank(e) + 1 <= Rank(f)
    BY <2>3, <2>4
  <2>6. QED
    BY <2>1, <2>5
<1>2. CASE ~IsArray(f)
  <2> DEFINE s == f.wire_type
             fs == Structs[s]
  <2>1. IsStruct(f) /\ s \in DOMAIN Structs /\ Content(f) = fs
    BY <1>2 DEF IsLeaf, IsStruct, Content
  <2>2. Rank(f) = 2 * (Height(s) + 1) /\ Height(s) \in Nat
    <3>1. Rank(f) = 0 + 2 * (Height(s) + 1)
      BY <1>2, <2>1 DEF Rank
    <3>2. Height(s) \in Nat
      BY <2>1, HeightFacts
    <3> DEFINE h == Height(s)
    <3> HIDE DEF h
    <3>3. QED
      BY <3>1, <3>2 DEF h
  <2>3. DOMAIN fs = 1 .. Len(fs) /\ \A i \in 1 .. Len(fs) : fs[i] \in Fields
    BY <2>1, StructFields, LenProperties, ElementOfSeq
  <2>4. ASSUME NEW i \in DOMAIN fs
        PROVE  Rank(fs[i]) + 1 <= Rank(f)
    <3> DEFINE g == fs[i]
               one == IF IsArray(g) /\ ~field_is_string(g) THEN 1 ELSE 0
    <3>1. g \in Fields
      BY <2>3
    <3>2. CASE IsStruct(g)
      <4> DEFINE t == g.wire_type
      <4>1. t \in Held(Structs, s)
        <5>1. t \in DOMAIN Structs /\ t \notin WireType
          BY <3>2, StructsAssumption DEF IsStruct
        <5>2. QED
          BY <2>3, <5>1 DEF Held
      <4>2. t \in DOMAIN Structs /\ Height(t) + 1 <= Height(s)
        BY <2>1, <4>1, HeldLower
      <4>3. Height(t) \in Nat
        BY <4>2, HeightFacts
      <4>4. Rank(g) = one + 2 * (Height(t) + 1)
        BY <3>2 DEF Rank
      <4>5. one \in {0, 1}
        OBVIOUS
      <4> DEFINE a == Height(t)
                 b == Height(s)
      <4> HIDE DEF a, b, one, g
      <4>6. Rank(g) + 1 <= Rank(f)
        <5>1. a \in Nat /\ b \in Nat /\ a + 1 <= b /\ Rank(f) = 2 * (b + 1) /\ Rank(g) = one + 2 * (a + 1)
          BY <2>2, <4>2, <4>3, <4>4 DEF a, b
        <5>2. QED
          BY <4>5, <5>1
      <4>7. QED
        BY <4>6 DEF g
    <3>3. CASE ~IsStruct(g)
      <4>1. Rank(g) = one + 0
        BY <3>3 DEF Rank
      <4>2. one \in {0, 1}
        OBVIOUS
      <4> DEFINE b == Height(s)
      <4> HIDE DEF one, g, b
      <4>3. b \in Nat /\ Rank(f) = 2 * (b + 1)
        BY <2>2 DEF b
      <4>4. Rank(g) + 1 <= Rank(f)
        BY <4>1, <4>2, <4>3
      <4>5. QED
        BY <4>4 DEF g
    <3>4. QED
      BY <3>2, <3>3
  <2> HIDE DEF fs
  <2>5. QED
    BY <2>1, <2>4
<1>3. QED
  BY <1>1, <1>2

-----------------------------------------------------------------------------
(* The leaves. *)

PartsOf(who) == [x \in AllItems(who) |-> Parts(who, x)]

\* The parts of items, as a function of them.
LEMMA PartsOfType ==
    ASSUME NEW who \in {"C", "C#"}
    PROVE  /\ PartsOf(who) \in [AllItems(who) -> Seq(AllItems(who))]
           /\ \A x \in AllItems(who) : PartsOf(who)[x] = Parts(who, x)
<1>1. \A x \in AllItems(who) : Parts(who, x) \in Seq(AllItems(who))
  BY PartsFacts DEF PartsOk
<1>2. QED
  BY <1>1 DEF PartsOf

\* Taken apart once: the parts one after the other.
LEMMA ExpandIs ==
    ASSUME NEW who, NEW items \in Seq(AllItems(who))
    PROVE  Expand(who, items) = Spread(PartsOf(who), items)
<1> DEFINE A == AllItems(who)
<1>1. \A i \in DOMAIN items : items[i] \in A
  BY LenProperties, ElementOfSeq
<1>2. \A x \in A : PartsOf(who)[x] = Parts(who, x)
  BY DEF PartsOf
<1> HIDE DEF A
<1>3. [i \in DOMAIN items |-> Parts(who, items[i])] = [i \in DOMAIN items |-> PartsOf(who)[items[i]]]
  BY <1>1, <1>2
<1>4. QED
  BY <1>3 DEF Expand, Spread

\* Level after level of a list of items.
Leveled(who, items, level) ==
    /\ level[0] = items
    /\ \A n \in Nat : level[n] \in Seq(AllItems(who))
    /\ \A n \in Nat : level[n + 1] = Spread(PartsOf(who), level[n])

\* How items are taken apart, again and again.
LEMMA Levels ==
    ASSUME NEW who \in {"C", "C#"}, NEW items \in Seq(AllItems(who))
    PROVE  Leveled(who, items, Expanded(who, items))
<1> DEFINE A == Seq(AllItems(who))
           Is(f) == f = [n \in Nat |-> IF n = 0 THEN items ELSE Expand(who, f[n - 1])]
           level == CHOOSE f : Is(f)
<1>1. \A s \in A : Spread(PartsOf(who), s) \in A /\ Expand(who, s) = Spread(PartsOf(who), s)
  BY PartsOfType, SpreadType, ExpandIs
<1>2. \E f \in [Nat -> A] : Is(f)
  <2> DEFINE F == [n \in Nat |-> [s \in A |-> Expand(who, s)]]
  <2>1. F \in [Nat -> [A -> A]]
    BY <1>1
  <2>2. \A n \in Nat : \A s \in A : F[n][s] = Expand(who, s)
    OBVIOUS
  <2> HIDE DEF F, A
  <2>3. items \in A
    BY DEF A
  <2>4. Defined(A, items, F)
    BY <2>1, <2>3, Recursion
  <2>5. PICK f \in [Nat -> A] : f[0] = items /\ \A n \in Nat : f[n + 1] = F[n][f[n]]
    BY <2>4 DEF Defined
  <2>6. \A n \in Nat : f[n + 1] = Expand(who, f[n])
    BY <2>2, <2>5
  <2>7. ASSUME NEW k \in Nat
        PROVE  f[k] = IF k = 0 THEN items ELSE Expand(who, f[k - 1])
    <3>1. CASE k = 0
      BY <2>5, <3>1
    <3>2. CASE k # 0
      <4>1. k - 1 \in Nat /\ (k - 1) + 1 = k
        BY <3>2
      <4>2. QED
        BY <2>6, <3>2, <4>1
    <3>3. QED
      BY <3>1, <3>2
  <2>8. Is(f)
    BY <2>7
  <2>9. QED
    BY <2>8
<1>3. Is(level)
  BY <1>2, Zenon
<1>4. Expanded(who, items) = level
  BY DEF Expanded
<1> HIDE DEF level
<1>5. level[0] = items /\ \A n \in Nat : level[n + 1] = Expand(who, level[n])
  BY <1>3
<1>6. \A n \in Nat : level[n] \in A
  <2> DEFINE T == {n \in Nat : level[n] \in A}
  <2>1. 0 \in T
    BY <1>5
  <2>2. ASSUME NEW n \in T
        PROVE  n + 1 \in T
    <3>1. n \in Nat /\ n + 1 \in Nat /\ level[n] \in A
      OBVIOUS
    <3>2. level[n + 1] = Expand(who, level[n])
      BY <1>5, <3>1
    <3>3. Expand(who, level[n]) \in A
      <4> HIDE DEF A
      <4>1. QED
        BY <1>1, <3>1
    <3>4. QED
      BY <3>1, <3>2, <3>3
  <2> HIDE DEF T
  <2>3. Nat \subseteq T
    BY <2>1, <2>2, Induction
  <2>4. QED
    BY <2>3 DEF T
<1>7. \A n \in Nat : level[n + 1] = Spread(PartsOf(who), level[n])
  BY <1>1, <1>5, <1>6
<1>8. QED
  BY <1>4, <1>5, <1>6, <1>7 DEF Leveled

\* One after the other, what consists of some kind of items only.
LEMMA SpreadWithin ==
    ASSUME NEW A, NEW B, NEW g \in [A -> Seq(B)], NEW C \in SUBSET A, NEW D,
           \A x \in C : g[x] \in Seq(D)
    PROVE  \A s \in Seq(C) : Spread(g, s) \in Seq(D)
<1> DEFINE h == [x \in C |-> g[x]]
<1>1. h \in [C -> Seq(D)] /\ \A x \in C : h[x] = g[x]
  OBVIOUS
<1> HIDE DEF h
<1>2. ASSUME NEW s \in Seq(C)
      PROVE  Spread(g, s) \in Seq(D)
  <2>1. \A i \in DOMAIN s : s[i] \in C
    BY LenProperties, ElementOfSeq
  <2>2. [i \in DOMAIN s |-> g[s[i]]] = [i \in DOMAIN s |-> h[s[i]]]
    BY <1>1, <2>1
  <2>3. Spread(g, s) = Spread(h, s)
    BY <2>2 DEF Spread
  <2>4. Spread(h, s) \in Seq(D)
    BY <1>1, SpreadType
  <2>5. QED
    BY <2>3, <2>4
<1>3. QED
  BY <1>2

\* The items that are taken apart in so many steps.
Deep(who, k) == {x \in AllItems(who) : IsEnd(who, x) \/ Rank(x.f) <= k}
EndItems(who) == {x \in AllItems(who) : IsEnd(who, x)}

\* The parts of an item are less deep than it.
LEMMA DeepParts ==
    ASSUME NEW who \in {"C", "C#"}, NEW k \in Nat, NEW x \in Deep(who, k + 1)
    PROVE  Parts(who, x) \in Seq(Deep(who, k))
<1>1. x \in AllItems(who) /\ x.f \in Fields
  BY AllItemsFacts DEF Deep
<1> DEFINE p == Parts(who, x)
           A == AllItems(who)
           D == Deep(who, k)
<1>2. /\ IsEnd(who, x) => p = <<x>>
      /\ ~IsEnd(who, x) => TakenApart(who, x, p)
  BY <1>1, PartsFacts DEF PartsOk
<1>3. CASE IsEnd(who, x)
  <2>1. x \in D
    BY <1>1, <1>3 DEF Deep
  <2> HIDE DEF D
  <2>2. <<x>> \in Seq(D)
    BY <2>1
  <2>3. QED
    BY <1>2, <1>3, <2>2 DEF D
<1>4. CASE ~IsEnd(who, x)
  <2>1. p \in Seq(A) /\ FieldsIn(p) = Content(x.f)
    BY <1>2, <1>4 DEF TakenApart
  <2>2. ~IsLeaf(x.f) /\ Rank(x.f) <= k + 1
    BY <1>4 DEF IsEnd, Deep
  <2> HIDE DEF p, A
  <2>3. DOMAIN p = 1 .. Len(p) /\ Len(p) \in Nat /\ \A i \in 1 .. Len(p) : p[i] \in A
    BY <2>1, LenProperties, ElementOfSeq
  <2>4. ASSUME NEW i \in 1 .. Len(p)
        PROVE  p[i] \in D
    <3> DEFINE c == Content(x.f)
    <3>1. DOMAIN c = 1 .. Len(p) /\ c[i] = p[i].f
      BY <2>1, <2>3 DEF FieldsIn
    <3>2. Rank(c[i]) + 1 <= Rank(x.f)
      BY <1>1, <2>2, <3>1, RankFalls
    <3>3. p[i] \in A /\ p[i].f \in Fields
      BY <2>3, AllItemsFacts DEF A
    <3>4. Rank(p[i].f) \in Nat /\ Rank(x.f) \in Nat
      BY <1>1, <3>3, RankType
    <3> HIDE DEF c
    <3>5. Rank(p[i].f) <= k
      <4> DEFINE a == Rank(p[i].f)
                 b == Rank(x.f)
      <4>1. a \in Nat /\ b \in Nat /\ a + 1 <= b /\ b <= k + 1
        BY <2>2, <3>1, <3>2, <3>4
      <4> HIDE DEF a, b
      <4>2. a <= k
        BY <4>1
      <4>3. QED
        BY <4>2 DEF a
    <3>6. QED
      BY <3>3, <3>5 DEF Deep, A
  <2> HIDE DEF D
  <2>5. p = [i \in 1 .. Len(p) |-> p[i]]
    BY <2>1
  <2>6. p \in Seq(D)
    BY <2>3, <2>4, <2>5, AsSequence
  <2>7. QED
    BY <2>6 DEF p, D
<1>5. QED
  BY <1>3, <1>4

\* Taken apart to the depth of all structs, only leaves are left.
LEMMA LevelsWithin ==
    ASSUME NEW who \in {"C", "C#"}, NEW items, NEW level, Leveled(who, items, level),
           items \in Seq(AllItems(who))
    PROVE  level[Depth] \in Seq(EndItems(who))
<1> DEFINE A == AllItems(who)
           T == {n \in Nat : n <= Depth => level[n] \in Seq(Deep(who, Depth - n))}
<1>1. Depth \in Nat
  <2> DEFINE c == Cardinality(DOMAIN Structs)
  <2>1. c \in Nat
    BY StructsAssumption, FS_CardinalityType DEF Parsed
  <2> HIDE DEF c
  <2>2. 2 * c + 1 \in Nat
    BY <2>1
  <2>3. QED
    BY <2>2 DEF Depth, c
<1>2. \A x \in A : x \in Deep(who, Depth)
  <2>1. \A x \in A : Rank(x.f) <= Depth
    BY AllItemsFacts, RankType
  <2>2. QED
    BY <2>1 DEF Deep
<1>3. 0 \in T
  <2> DEFINE D == Deep(who, Depth)
  <2>1. A \subseteq D
    BY <1>2
  <2> HIDE DEF A, D
  <2>2. Seq(A) \subseteq Seq(D)
    BY <2>1, SeqMonotonic
  <2>3. level[0] \in Seq(D)
    BY <2>2 DEF Leveled, A
  <2>4. Depth - 0 = Depth
    BY <1>1
  <2>5. QED
    BY <2>3, <2>4 DEF D
<1>4. ASSUME NEW n \in T
      PROVE  n + 1 \in T
  <2>1. n \in Nat /\ n + 1 \in Nat
    OBVIOUS
  <2>2. ASSUME n + 1 <= Depth
        PROVE  level[n + 1] \in Seq(Deep(who, Depth - (n + 1)))
    <3> DEFINE k == Depth - (n + 1)
               D == Deep(who, k)
               C == Deep(who, k + 1)
    <3>1. k \in Nat /\ k + 1 = Depth - n /\ n <= Depth
      BY <1>1, <2>1, <2>2
    <3>2. level[n] \in Seq(C)
      BY <3>1
    <3>3. C \in SUBSET A
      BY DEF Deep
    <3>4. \A x \in C : PartsOf(who)[x] \in Seq(D)
      BY <3>1, <3>3, DeepParts, PartsOfType
    <3>5. PartsOf(who) \in [A -> Seq(A)]
      BY PartsOfType
    <3> HIDE DEF A, C, D, k
    <3>6. Spread(PartsOf(who), level[n]) \in Seq(D)
      BY <3>2, <3>3, <3>4, <3>5, SpreadWithin
    <3>7. level[n + 1] = Spread(PartsOf(who), level[n])
      BY <2>1 DEF Leveled
    <3>8. QED
      BY <3>6, <3>7 DEF D, k
  <2>3. QED
    BY <2>1, <2>2
<1> HIDE DEF T
<1>5. Nat \subseteq T
  BY <1>3, <1>4, Induction
<1>6. level[Depth] \in Seq(Deep(who, 0))
  <2>1. Depth \in T
    BY <1>1, <1>5
  <2>2. Depth <= Depth /\ Depth - Depth = 0
    BY <1>1
  <2>3. QED
    BY <2>1, <2>2 DEF T
<1>7. Deep(who, 0) \subseteq EndItems(who)
  <2>1. ASSUME NEW x \in A, Rank(x.f) <= 0
        PROVE  IsEnd(who, x)
    <3>1. Rank(x.f) \in Nat /\ (Rank(x.f) = 0 => IsLeaf(x.f))
      BY AllItemsFacts, RankType
    <3>2. Rank(x.f) = 0
      BY <2>1, <3>1
    <3>3. QED
      BY <3>1, <3>2 DEF IsEnd
  <2>2. QED
    BY <2>1 DEF Deep, EndItems
<1>8. QED
  <2> DEFINE C == Deep(who, 0)
             D == EndItems(who)
  <2> HIDE DEF C, D
  <2>1. Seq(C) \subseteq Seq(D)
    BY <1>7, SeqMonotonic DEF C, D
  <2>2. QED
    BY <1>6, <2>1 DEF C, D

Splits(j, a, b) == \A n \in Nat : j[n] = a[n] \o b[n]

\* Both are taken apart as one after the other is.
LEMMA LevelsJoined ==
    ASSUME NEW who \in {"C", "C#"}, NEW s \in Seq(AllItems(who)), NEW t \in Seq(AllItems(who)),
           NEW j, Leveled(who, s \o t, j), NEW a, Leveled(who, s, a), NEW b, Leveled(who, t, b)
    PROVE  Splits(j, a, b)
<1> DEFINE A == AllItems(who)
           g == PartsOf(who)
           T == {n \in Nat : j[n] = a[n] \o b[n]}
<1>1. Homomorphism(g, A, A)
  BY PartsOfType, SpreadFacts
<1>2. 0 \in T
  BY DEF Leveled
<1>3. ASSUME NEW n \in T
      PROVE  n + 1 \in T
  <2>1. n \in Nat /\ n + 1 \in Nat /\ j[n] = a[n] \o b[n]
    <3>1. n \in Nat /\ j[n] = a[n] \o b[n]
      BY <1>3, Zenon
    <3>2. QED
      BY <3>1
  <2>2. a[n] \in Seq(A) /\ b[n] \in Seq(A)
    BY <2>1 DEF Leveled
  <2>3. j[n + 1] = Spread(g, j[n]) /\ a[n + 1] = Spread(g, a[n]) /\ b[n + 1] = Spread(g, b[n])
    BY <2>1 DEF Leveled
  <2> HIDE DEF g, A
  <2>4. Spread(g, a[n] \o b[n]) = Spread(g, a[n]) \o Spread(g, b[n])
    BY <1>1, <2>2 DEF Homomorphism
  <2>5. QED
    BY <2>1, <2>3, <2>4
<1> HIDE DEF T
<1>4. Nat \subseteq T
  BY <1>2, <1>3, Induction
<1>5. QED
  BY <1>4 DEF T, Splits

\* The parts of an item are one step ahead of it.
LEMMA LevelsLater ==
    ASSUME NEW who \in {"C", "C#"}, NEW x \in AllItems(who),
           NEW a, Leveled(who, <<x>>, a), NEW b, Leveled(who, Parts(who, x), b)
    PROVE  \A n \in Nat : b[n] = a[n + 1]
<1> DEFINE A == AllItems(who)
           g == PartsOf(who)
           T == {n \in Nat : b[n] = a[n + 1]}
<1>1. Homomorphism(g, A, A) /\ g[x] = Parts(who, x)
  BY PartsOfType, SpreadFacts
<1>2. 0 \in T
  <2>1. a[0] = <<x>> /\ a[0 + 1] = Spread(g, a[0]) /\ b[0] = Parts(who, x)
    BY DEF Leveled
  <2>2. Spread(g, <<x>>) = g[x]
    BY <1>1 DEF Homomorphism
  <2>3. QED
    BY <1>1, <2>1, <2>2
<1>3. ASSUME NEW n \in T
      PROVE  n + 1 \in T
  <2>1. n \in Nat /\ n + 1 \in Nat /\ b[n] = a[n + 1]
    OBVIOUS
  <2>2. b[n + 1] = Spread(g, b[n]) /\ a[(n + 1) + 1] = Spread(g, a[n + 1])
    BY <2>1 DEF Leveled
  <2>3. QED
    BY <2>1, <2>2
<1> HIDE DEF T
<1>4. Nat \subseteq T
  BY <1>2, <1>3, Induction
<1>5. QED
  BY <1>4 DEF T

\* Ends stay what they are.
LEMMA PartsSame ==
    ASSUME NEW who \in {"C", "C#"}, NEW s \in Seq(EndItems(who))
    PROVE  Spread(PartsOf(who), s) = s /\ s \in Seq(AllItems(who))
<1> DEFINE A == AllItems(who)
           E == EndItems(who)
<1>1. E \subseteq A
  BY DEF EndItems
<1>2. \A x \in E : PartsOf(who)[x] = <<x>>
  BY PartsOfType, PartsFacts DEF EndItems, PartsOk
<1>3. PartsOf(who) \in [A -> Seq(A)]
  BY PartsOfType
<1> HIDE DEF A, E
<1>4. Spread(PartsOf(who), s) = s
  BY <1>1, <1>2, <1>3, SpreadSame DEF E
<1>5. Seq(E) \subseteq Seq(A)
  BY <1>1, SeqMonotonic
<1>6. QED
  BY <1>4, <1>5 DEF A, E

\* Leaves stay what they are.
LEMMA LevelsSame ==
    ASSUME NEW who \in {"C", "C#"}, NEW s \in Seq(EndItems(who)), NEW a, Leveled(who, s, a)
    PROVE  \A n \in Nat : a[n] = s
<1> DEFINE T == {n \in Nat : a[n] = s}
<1>1. 0 \in T
  BY DEF Leveled
<1>2. ASSUME NEW n \in T
      PROVE  n + 1 \in T
  <2>1. n \in Nat /\ n + 1 \in Nat /\ a[n] = s
    OBVIOUS
  <2>2. a[n + 1] = Spread(PartsOf(who), a[n])
    BY <2>1 DEF Leveled
  <2>3. QED
    BY <2>1, <2>2, PartsSame
<1> HIDE DEF T
<1>3. Nat \subseteq T
  BY <1>1, <1>2, Induction
<1>4. QED
  BY <1>3 DEF T

LeavesOk(who) ==
    /\ \A s \in Seq(AllItems(who)) : Leaves(who, s) \in Seq(EndItems(who))
    /\ \A s, t \in Seq(AllItems(who)) : Leaves(who, s \o t) = Leaves(who, s) \o Leaves(who, t)
    /\ \A x \in AllItems(who) : Leaves(who, <<x>>) = Leaves(who, Parts(who, x))
    /\ \A s \in Seq(EndItems(who)) : Leaves(who, s) = s

\* The leaves of items are their parts' leaves, and one after the other those of all.
LEMMA LeavesFacts ==
    ASSUME NEW who \in {"C", "C#"}
    PROVE  LeavesOk(who)
<1> DEFINE A == AllItems(who)
<1>1. Depth \in Nat
  <2> DEFINE c == Cardinality(DOMAIN Structs)
  <2>1. c \in Nat
    BY StructsAssumption, FS_CardinalityType DEF Parsed
  <2> HIDE DEF c
  <2>2. 2 * c + 1 \in Nat
    BY <2>1
  <2>3. QED
    BY <2>2 DEF Depth, c
<1>2. \A s : Leaves(who, s) = Expanded(who, s)[Depth]
  BY DEF Leaves
<1>3. ASSUME NEW s \in Seq(A)
      PROVE  Leaves(who, s) \in Seq(EndItems(who))
  BY <1>2, Levels, LevelsWithin
<1>4. ASSUME NEW s \in Seq(A), NEW t \in Seq(A)
      PROVE  Leaves(who, s \o t) = Leaves(who, s) \o Leaves(who, t)
  <2> DEFINE j == Expanded(who, s \o t)
             a == Expanded(who, s)
             b == Expanded(who, t)
  <2>1. s \o t \in Seq(A)
    BY Concatenated
  <2>2. Leveled(who, s \o t, j) /\ Leveled(who, s, a) /\ Leveled(who, t, b)
    BY <2>1, Levels
  <2>3. Leaves(who, s \o t) = j[Depth] /\ Leaves(who, s) = a[Depth] /\ Leaves(who, t) = b[Depth]
    BY <1>2
  <2> HIDE DEF j, a, b
  <2>4. Splits(j, a, b)
    BY <2>2, LevelsJoined
  <2>5. QED
    BY <1>1, <2>3, <2>4 DEF Splits
<1>5. ASSUME NEW x \in A
      PROVE  Leaves(who, <<x>>) = Leaves(who, Parts(who, x))
  <2> DEFINE a == Expanded(who, <<x>>)
             b == Expanded(who, Parts(who, x))
  <2>1. <<x>> \in Seq(A) /\ Parts(who, x) \in Seq(A)
    BY PartsFacts DEF PartsOk
  <2>2. Leveled(who, <<x>>, a) /\ Leveled(who, Parts(who, x), b)
    BY <2>1, Levels
  <2>3. Leaves(who, <<x>>) = a[Depth] /\ Leaves(who, Parts(who, x)) = b[Depth]
    BY <1>2
  <2>4. Leaves(who, <<x>>) \in Seq(EndItems(who))
    BY <1>3, <2>1
  <2> HIDE DEF a, b
  <2>5. b[Depth] = a[Depth + 1]
    BY <1>1, <2>2, LevelsLater
  <2>6. a[Depth + 1] = Spread(PartsOf(who), a[Depth])
    BY <1>1, <2>2 DEF Leveled
  <2>7. Spread(PartsOf(who), a[Depth]) = a[Depth]
    BY <2>3, <2>4, PartsSame
  <2>8. QED
    BY <2>3, <2>5, <2>6, <2>7
<1>6. ASSUME NEW s \in Seq(EndItems(who))
      PROVE  Leaves(who, s) = s
  <2>1. s \in Seq(A)
    BY PartsSame
  <2> DEFINE a == Expanded(who, s)
  <2>2. Leveled(who, s, a) /\ Leaves(who, s) = a[Depth]
    BY <1>2, <2>1, Levels
  <2> HIDE DEF a
  <2>3. QED
    BY <1>1, <2>2, LevelsSame
<1>7. QED
  BY <1>3, <1>4, <1>5, <1>6 DEF LeavesOk

\* What the parts of every item sum up to, the leaves do.
LEMMA LeavesSum ==
    ASSUME NEW who \in {"C", "C#"}, NEW h \in [AllItems(who) -> Nat],
           \A x \in AllItems(who) : SumOf(h, Parts(who, x)) = h[x]
    PROVE  \A s \in Seq(AllItems(who)) : SumOf(h, Leaves(who, s)) = SumOf(h, s)
<1> DEFINE A == AllItems(who)
           g == PartsOf(who)
           P == {s \in Seq(A) : SumOf(h, Spread(g, s)) = SumOf(h, s)}
<1>1. Homomorphism(g, A, A) /\ \A x \in A : g[x] = Parts(who, x) /\ g[x] \in Seq(A)
  <2>1. g \in [A -> Seq(A)] /\ \A x \in A : g[x] = Parts(who, x)
    BY PartsOfType
  <2> HIDE DEF g, A
  <2>2. QED
    BY <2>1, SpreadFacts
<1>2. Additive(h, A)
  BY SumFacts
<1>3. Seq(A) \subseteq P
  <2>1. <<>> \in P
    <3>1. <<>> \in Seq(A) /\ Spread(g, <<>>) = <<>>
      BY <1>1 DEF Homomorphism
    <3>2. QED
      BY <3>1
  <2>2. ASSUME NEW s \in Seq(A), NEW x \in A, s \in P
        PROVE  s \o <<x>> \in P
    <3>1. <<x>> \in Seq(A) /\ SumOf(h, Spread(g, s)) = SumOf(h, s)
      BY <2>2
    <3> HIDE DEF P, A, g
    <3>2. s \o <<x>> \in Seq(A)
      BY <3>1, Concatenated
    <3>3. Spread(g, s \o <<x>>) = Spread(g, s) \o Spread(g, <<x>>)
      BY <1>1, <3>1 DEF Homomorphism
    <3>4. Spread(g, <<x>>) = g[x] /\ g[x] \in Seq(A) /\ Spread(g, s) \in Seq(A)
      BY <1>1 DEF Homomorphism
    <3>5. SumOf(h, Spread(g, s) \o g[x]) = SumOf(h, Spread(g, s)) + SumOf(h, g[x])
      BY <1>2, <3>4 DEF Additive
    <3>6. SumOf(h, g[x]) = h[x]
      BY <1>1 DEF A
    <3>7. SumOf(h, s \o <<x>>) = SumOf(h, s) + SumOf(h, <<x>>) /\ SumOf(h, <<x>>) = h[x]
      BY <1>2, <3>1 DEF Additive
    <3>8. QED
      BY <3>1, <3>2, <3>3, <3>4, <3>5, <3>6, <3>7 DEF P
  <2> HIDE DEF P
  <2>3. QED
    BY <2>1, <2>2, SeqInduction
<1>4. \A s \in Seq(A) : SumOf(h, Spread(g, s)) = SumOf(h, s)
  BY <1>3
<1> HIDE DEF P, g
<1>5. ASSUME NEW s \in Seq(A)
      PROVE  SumOf(h, Leaves(who, s)) = SumOf(h, s)
  <2> DEFINE a == Expanded(who, s)
             T == {n \in Nat : SumOf(h, a[n]) = SumOf(h, s)}
  <2>1. Leveled(who, s, a) /\ Leaves(who, s) = a[Depth]
    BY Levels DEF Leaves
  <2> HIDE DEF a
  <2>2. 0 \in T
    BY <2>1 DEF Leveled
  <2>3. ASSUME NEW n \in T
        PROVE  n + 1 \in T
    <3>1. n \in Nat /\ n + 1 \in Nat /\ SumOf(h, a[n]) = SumOf(h, s)
      OBVIOUS
    <3>2. a[n] \in Seq(A) /\ a[n + 1] = Spread(g, a[n])
      BY <2>1, <3>1 DEF Leveled, g
    <3>3. SumOf(h, a[n + 1]) = SumOf(h, s)
      BY <1>4, <3>1, <3>2
    <3>4. QED
      BY <3>1, <3>3
  <2> HIDE DEF T
  <2>4. Nat \subseteq T
    BY <2>2, <2>3, Induction
  <2>5. Depth \in Nat
    <3> DEFINE c == Cardinality(DOMAIN Structs)
    <3>1. c \in Nat
      BY StructsAssumption, FS_CardinalityType DEF Parsed
    <3> HIDE DEF c
    <3>2. 2 * c + 1 \in Nat
      BY <3>1
    <3>3. QED
      BY <3>2 DEF Depth, c
  <2>6. QED
    BY <2>1, <2>4, <2>5 DEF T
<1>6. QED
  BY <1>5

-----------------------------------------------------------------------------
(* Texts. *)

\* The greatest of numbers is among them and not less than any.
LEMMA GreatestBounds ==
    ASSUME NEW n \in Nat, NEW D \in SUBSET (0 .. n), NEW k \in D
    PROVE  Max(D) \in D /\ k <= Max(D)
<1> DEFINE E == {n - x : x \in D}
<1>1. E \subseteq Nat /\ E # {}
  <2>1. \A x \in 0 .. n : n - x \in Nat
    OBVIOUS
  <2>2. QED
    BY <2>1
<1>2. PICK y \in E : \A z \in E : y <= z
  <2> HIDE DEF E
  <2>1. QED
    BY <1>1, LeastExists
<1>3. PICK x \in D : y = n - x
  BY <1>2
<1>4. \A z \in D : n - x <= n - z /\ x \in 0 .. n /\ z \in 0 .. n
  BY <1>2, <1>3
<1>5. \A z \in D : z <= x
  BY <1>4
<1>6. \E w \in D : \A z \in D : z <= w
  BY <1>5
<1>7. Max(D) \in D /\ \A z \in D : z <= Max(D)
  BY <1>6, Zenon DEF Max
<1>8. QED
  BY <1>7

\* What fits, fits, and all of a string that fits is what fits of it.
LEMMA FittingFits ==
    ASSUME NEW chars \in Seq(Nat), NEW n \in Nat
    PROVE  /\ Len(GetBytes(Fitting(chars, n))) <= n
           /\ Len(GetBytes(chars)) <= n => Fitting(chars, n) = chars
<1> DEFINE fits == {k \in 0 .. Len(chars) : Len(GetBytes(SubSeq(chars, 1, k))) <= n}
           m == Len(chars)
<1>1. m \in Nat /\ fits \in SUBSET (0 .. m)
  OBVIOUS
<1>2. 0 \in fits
  <2>1. SubSeq(chars, 1, 0) = <<>>
    OBVIOUS
  <2>2. GetBytes(<<>>) = FlattenSeq([i \in DOMAIN <<>> |->
                             IF <<>>[i] < Wide THEN << <<>>[i] >> ELSE <<Lead, Wide>>])
    BY DEF GetBytes
  <2>3. [i \in DOMAIN <<>> |-> IF <<>>[i] < Wide THEN << <<>>[i] >> ELSE <<Lead, Wide>>] = <<>>
    OBVIOUS
  <2>4. FlattenSeq(<<>>) = <<>>
    BY DEF FlattenSeq
  <2>5. Len(GetBytes(<<>>)) = 0
    BY <2>2, <2>3, <2>4
  <2>6. Len(GetBytes(SubSeq(chars, 1, 0))) <= n
    <3>1. Len(GetBytes(SubSeq(chars, 1, 0))) = 0
      BY <2>1, <2>5, Zenon
    <3>2. QED
      BY <3>1
  <2>7. 0 \in 0 .. Len(chars)
    BY <1>1
  <2>8. QED
    BY <2>6, <2>7
<1>3. Fitting(chars, n) = SubSeq(chars, 1, Max(fits))
  BY DEF Fitting
<1>4. \A k \in fits : k \in 0 .. m /\ Len(GetBytes(SubSeq(chars, 1, k))) <= n
  OBVIOUS
<1>5. Len(GetBytes(chars)) <= n => m \in fits
  <2>1. SubSeq(chars, 1, m) = chars
    BY SubSeqFull
  <2>2. m \in 0 .. m
    BY <1>1
  <2>3. QED
    BY <2>1, <2>2
<1> HIDE DEF fits
<1>6. Max(fits) \in fits
  BY <1>1, <1>2, GreatestBounds
<1>7. Len(GetBytes(Fitting(chars, n))) <= n
  BY <1>3, <1>4, <1>6
<1>8. ASSUME Len(GetBytes(chars)) <= n
      PROVE  Fitting(chars, n) = chars
  <2>1. m \in fits
    BY <1>5, <1>8
  <2>2. m <= Max(fits) /\ Max(fits) \in 0 .. m
    BY <1>1, <1>4, <1>6, <2>1, GreatestBounds
  <2>3. Max(fits) = m
    BY <1>1, <2>2
  <2>4. SubSeq(chars, 1, m) = chars
    BY SubSeqFull
  <2>5. QED
    BY <1>3, <2>3, <2>4
<1>9. QED
  BY <1>7, <1>8

\* A text ends before the first NUL, or with the array.
EndsAt(a, k) ==
    /\ k \in 0 .. Len(a) /\ \A i \in 1 .. k : a[i] # 0
    /\ k = Len(a) \/ a[k + 1] = 0

\* Every array of characters has an end of its text.
LEMMA TextEnds ==
    ASSUME NEW S, NEW a \in Seq(S)
    PROVE  \E k \in Nat : EndsAt(a, k) /\ TextOf(a) = SubSeq(a, 1, k)
<1> DEFINE nul == {i \in DOMAIN a : a[i] = 0}
<1>0. Len(a) \in Nat /\ DOMAIN a = 1 .. Len(a)
  OBVIOUS
<1>1. CASE nul = {}
  <2>1. \A i \in 1 .. Len(a) : a[i] # 0
    BY <1>0, <1>1
  <2>2. EndsAt(a, Len(a))
    BY <1>0, <2>1 DEF EndsAt
  <2>3. TextOf(a) = a
    BY <1>1 DEF TextOf
  <2>4. SubSeq(a, 1, Len(a)) = a
    BY SubSeqFull
  <2>5. QED
    BY <1>0, <2>2, <2>3, <2>4
<1>2. CASE nul # {}
  <2>1. nul \subseteq Nat /\ nul # {} /\ nul \subseteq 1 .. Len(a)
    BY <1>0, <1>2
  <2>2. TextOf(a) = SubSeq(a, 1, Min(nul) - 1)
    BY <1>2 DEF TextOf
  <2>3. \A i \in nul : a[i] = 0
    OBVIOUS
  <2>4. \A i \in 1 .. Len(a) : a[i] = 0 => i \in nul
    BY <1>0
  <2> HIDE DEF nul
  <2>5. \E x \in nul : \A y \in nul : x <= y
    BY <2>1, LeastExists
  <2>6. Min(nul) \in nul /\ \A y \in nul : Min(nul) <= y
    BY <2>5, Zenon DEF Min
  <2> DEFINE m == Min(nul)
             k == m - 1
  <2>7. m \in 1 .. Len(a) /\ a[m] = 0
    BY <2>1, <2>3, <2>6
  <2> HIDE DEF m
  <2>8. k \in Nat /\ k \in 0 .. Len(a) /\ k + 1 = m
    BY <1>0, <2>7
  <2>9. \A i \in 1 .. k : a[i] # 0
    <3>1. ASSUME NEW i \in 1 .. k, a[i] = 0
          PROVE  FALSE
      <4>1. i \in 1 .. Len(a)
        BY <1>0, <2>7, <2>8
      <4>2. m <= i
        BY <2>4, <2>6, <3>1, <4>1 DEF m
      <4>3. QED
        BY <2>7, <2>8, <4>2
    <3>2. QED
      BY <3>1
  <2>10. TextOf(a) = SubSeq(a, 1, k)
    BY <2>2 DEF m
  <2> HIDE DEF k
  <2>11. EndsAt(a, k)
    BY <2>7, <2>8, <2>9 DEF EndsAt
  <2>12. QED
    BY <2>8, <2>10, <2>11
<1>3. QED
  BY <1>1, <1>2

\* The text is what is before that end.
LEMMA TextIs ==
    ASSUME NEW S, NEW a \in Seq(S), NEW k \in Nat, EndsAt(a, k)
    PROVE  TextOf(a) = SubSeq(a, 1, k) /\ Len(TextOf(a)) = k
<1>1. PICK j \in Nat : EndsAt(a, j) /\ TextOf(a) = SubSeq(a, 1, j)
  BY TextEnds
<1>2. Len(a) \in Nat
  OBVIOUS
<1>3. j = k
  <2>1. CASE j < k
    <3>1. j + 1 \in 1 .. k /\ j # Len(a)
      BY <1>1, <1>2, <2>1 DEF EndsAt
    <3>2. QED
      BY <1>1, <3>1 DEF EndsAt
  <2>2. CASE k < j
    <3>1. k + 1 \in 1 .. j /\ k # Len(a)
      BY <1>1, <1>2, <2>2 DEF EndsAt
    <3>2. QED
      BY <1>1, <3>1 DEF EndsAt
  <2>3. QED
    BY <2>1, <2>2
<1>4. k <= Len(a) /\ \A i \in 1 .. k : a[i] \in S
  BY <1>2, ElementOfSeq DEF EndsAt
<1>5. Len(SubSeq(a, 1, k)) = k
  BY <1>4, SubSeqProperties
<1>6. QED
  BY <1>1, <1>3, <1>5

\* The text has the characters of the array, none of them NUL.
LEMMA TextElements ==
    ASSUME NEW S, NEW a \in Seq(S)
    PROVE  /\ EndsAt(a, Len(TextOf(a))) /\ Len(TextOf(a)) \in Nat
           /\ \A i \in 1 .. Len(TextOf(a)) : TextOf(a)[i] = a[i] /\ a[i] # 0
<1>1. PICK k \in Nat : EndsAt(a, k) /\ TextOf(a) = SubSeq(a, 1, k)
  BY TextEnds
<1>2. Len(TextOf(a)) = k
  BY <1>1, TextIs
<1>3. Len(a) \in Nat
  OBVIOUS
<1>4. k <= Len(a) /\ \A i \in 1 .. k : a[i] \in S
  BY <1>1, <1>3, ElementOfSeq DEF EndsAt
<1>5. \A i \in 1 .. k : SubSeq(a, 1, k)[i] = a[i]
  BY <1>4, SubSeqProperties
<1>6. \A i \in 1 .. k : a[i] # 0
  BY <1>1 DEF EndsAt
<1>7. QED
  BY <1>1, <1>2, <1>5, <1>6

\* There is no NUL in a text.
LEMMA TextAgain ==
    ASSUME NEW S, NEW a \in Seq(S)
    PROVE  TextOf(TextOf(a)) = TextOf(a)
<1> DEFINE t == TextOf(a)
<1>1. t \in Seq(S) /\ Len(t) \in Nat
  BY TextFacts
<1>2. \A i \in 1 .. Len(t) : t[i] # 0
  BY TextElements
<1> HIDE DEF t
<1>3. EndsAt(t, Len(t))
  BY <1>1, <1>2 DEF EndsAt
<1>4. TextOf(t) = SubSeq(t, 1, Len(t))
  BY <1>1, <1>3, TextIs
<1>5. SubSeq(t, 1, Len(t)) = t
  BY <1>1, SubSeqFull
<1>6. QED
  BY <1>4, <1>5 DEF t

\* NULs after a text are not of it.
LEMMA TextBefore ==
    ASSUME NEW S, NEW a \in Seq(S), NEW z \in Seq(S), \A i \in 1 .. Len(z) : z[i] = 0
    PROVE  TextOf(a \o z) = TextOf(a)
<1> DEFINE k == Len(TextOf(a))
           t == TextOf(a)
           b == a \o z
<1>1. EndsAt(a, k) /\ k \in Nat
  BY TextElements
<1>2. b \in Seq(S) /\ Len(b) = Len(a) + Len(z) /\ Len(a) \in Nat /\ Len(z) \in Nat
  BY Concatenated
<1>3. b = [i \in 1 .. Len(a) + Len(z) |-> IF i <= Len(a) THEN a[i] ELSE z[i - Len(a)]]
  BY Joined
<1> HIDE DEF b
<1>4. EndsAt(b, k)
  <2> HIDE DEF k
  <2>1. k \in 0 .. Len(b) /\ k <= Len(a)
    BY <1>1, <1>2 DEF EndsAt
  <2>2. \A i \in 1 .. k : b[i] = a[i]
    BY <1>2, <1>3, <2>1
  <2>3. \A i \in 1 .. k : b[i] # 0
    BY <1>1, <2>2 DEF EndsAt
  <2>4. k = Len(b) \/ b[k + 1] = 0
    <3>1. CASE k < Len(a)
      <4>1. b[k + 1] = a[k + 1] /\ a[k + 1] = 0
        BY <1>1, <1>2, <1>3, <3>1 DEF EndsAt
      <4>2. QED
        BY <4>1
    <3>2. CASE k = Len(a) /\ Len(z) = 0
      BY <1>2, <3>2
    <3>3. CASE k = Len(a) /\ Len(z) # 0
      <4>1. b[k + 1] = z[1] /\ 1 \in 1 .. Len(z)
        BY <1>2, <1>3, <3>3
      <4>2. QED
        BY <4>1
    <3>4. QED
      BY <1>2, <2>1, <3>1, <3>2, <3>3
  <2>5. QED
    BY <2>1, <2>3, <2>4 DEF EndsAt
<1>5. TextOf(b) = SubSeq(b, 1, k) /\ TextOf(a) = SubSeq(a, 1, k)
  <2> HIDE DEF k
  <2>1. QED
    BY <1>1, <1>2, <1>4, TextIs
<1>6. SubSeq(b, 1, k) = SubSeq(a, 1, k)
  <2> HIDE DEF k, t
  <2>1. k <= Len(a) /\ k <= Len(b)
    BY <1>1, <1>2 DEF EndsAt
  <2>2. \A i \in 1 .. k : b[i] = a[i]
    BY <1>1, <1>2, <1>3, <2>1
  <2>3. QED
    BY <1>1, <1>2, <2>1, <2>2
<1>7. QED
  BY <1>5, <1>6 DEF b

\* Two arrays with the same NULs have texts of one length.
LEMMA TextAlike ==
    ASSUME NEW S, NEW a \in Seq(S), NEW T, NEW b \in Seq(T), Len(a) = Len(b),
           \A i \in 1 .. Len(a) : a[i] = 0 <=> b[i] = 0
    PROVE  TextOf(b) = [i \in DOMAIN TextOf(a) |-> b[i]]
<1> DEFINE k == Len(TextOf(a))
<1>1. EndsAt(a, k) /\ k \in Nat
  BY TextElements
<1>2. TextOf(a) \in Seq(S) /\ DOMAIN TextOf(a) = 1 .. k
  BY TextFacts, LenProperties
<1> HIDE DEF k
<1>3. Len(a) \in Nat
  OBVIOUS
<1>4. EndsAt(b, k)
  <2>1. k \in 0 .. Len(a)
    BY <1>1 DEF EndsAt
  <2>2. \A i \in 1 .. k : b[i] # 0
    BY <1>1, <1>3, <2>1 DEF EndsAt
  <2>3. k # Len(a) => b[k + 1] = 0
    BY <1>1, <1>3, <2>1 DEF EndsAt
  <2>4. QED
    BY <2>1, <2>2, <2>3 DEF EndsAt
<1>5. TextOf(b) = SubSeq(b, 1, k)
  BY <1>1, <1>4, TextIs
<1>6. k <= Len(b)
  BY <1>1, <1>3 DEF EndsAt
<1>7. SubSeq(b, 1, k) = [i \in 1 .. k |-> b[i]]
  BY <1>1, <1>6
<1>8. QED
  BY <1>2, <1>5, <1>7

\* What is on the wire of a string: the units of it, or those of the whole array.
Codes(f) == 0 .. Values(SizeOf(f)) - 1
UnitsBy(who, m) ==
    IF who = "C" THEN [i \in DOMAIN TextOf(m.v) |-> ToUnsigned(m.v[i], SizeOf(m.f))]
    ELSE IF is_char_array(m.f) THEN GetBytes(Fitting(m.v, m.f.array_len))
    ELSE Cut(m.v, m.f.array_len)
RawOf(who, fixed, m) ==
    IF fixed = FALSE THEN UnitsBy(who, m)
    ELSE IF who = "C" THEN [i \in DOMAIN m.v |-> ToUnsigned(m.v[i], SizeOf(m.f))]
    ELSE PaddedWith(0, UnitsBy(who, m), m.f.array_len)

StringValue(who, m) ==
    /\ who = "C" => /\ m.v \in Seq(Int) /\ Len(m.v) = m.f.array_len
                    /\ \A i \in DOMAIN m.v : m.v[i] \in Least(m.f.wire_type) .. Greatest(m.f.wire_type)
    /\ who = "C#" => /\ m.v \in Seq(Nat)
                     /\ is_wchar_array(m.f) => \A i \in DOMAIN m.v : m.v[i] \in 0 .. Values(2) - 1

\* What the value of a string is, in either language.
LEMMA StringValues ==
    ASSUME NEW who \in {"C", "C#"}, NEW m \in AllItems(who), field_is_string(m.f)
    PROVE  StringValue(who, m)
<1> DEFINE f == m.f
<1>1. f \in Fields /\ ProperItem(who, m)
  BY AllItemsFacts
<1>2. IsArray(f) /\ ~IsStruct(f) /\ f.type \in {"char", "wchar_t"}
  BY <1>1, StringTypes DEF field_is_string
<1>3. m.v \in ValuesOf(who, f) /\ \A i \in DOMAIN m.v : Ranged(who, f, m.v[i])
  BY <1>1, <1>2 DEF ProperItem, InRange
<1>4. CASE who = "C"
  <2>1. m.v \in Seq(CValues(Element(f))) /\ Len(m.v) = f.array_len /\ CValues(Element(f)) = Int
    BY <1>1, <1>2, <1>3, <1>4, ArrayValues DEF ValuesOf
  <2>2. \A i \in DOMAIN m.v : m.v[i] \in Least(f.wire_type) .. Greatest(f.wire_type)
    <3>1. ASSUME NEW v, Ranged(who, f, v)
          PROVE  v \in Least(f.wire_type) .. Greatest(f.wire_type)
      <4> HIDE DEF f
      <4>1. f.type # "bool"
        BY <1>2
      <4>2. QED
        BY <1>2, <1>4, <3>1, <4>1 DEF Ranged
    <3>2. QED
      BY <1>3, <3>1
  <2>3. QED
    BY <1>4, <2>1, <2>2 DEF StringValue
<1>5. CASE who = "C#"
  <2>1. m.v \in Seq(Nat)
    BY <1>1, <1>2, <1>3, <1>5, ArrayValues DEF ValuesOf
  <2>2. ASSUME is_wchar_array(f)
        PROVE  \A i \in DOMAIN m.v : m.v[i] \in 0 .. Values(2) - 1
    <3>1. ASSUME NEW v, Ranged(who, f, v)
          PROVE  v \in 0 .. Values(2) - 1
      <4> HIDE DEF f
      <4>1. f.type = "wchar_t"
        BY <2>2 DEF is_wchar_array
      <4>2. QED
        BY <1>2, <1>5, <3>1, <4>1 DEF Ranged
    <3>2. QED
      BY <1>3, <3>1
  <2>3. QED
    BY <1>5, <2>1, <2>2 DEF StringValue
<1>6. QED
  BY <1>4, <1>5

RawOk(who, fixed, m) ==
    /\ RawOf(who, fixed, m) \in Seq(Codes(m.f))
    /\ Len(RawOf(who, fixed, m)) <= m.f.array_len
    /\ fixed = TRUE => Len(RawOf(who, fixed, m)) = m.f.array_len
    /\ TextOf(RawOf(who, fixed, m)) = TextOf(UnitsBy(who, m))

\* The units of a string in C.
LEMMA CUnits ==
    ASSUME NEW m \in AllItems("C"), field_is_string(m.f), NEW fixed \in BOOLEAN
    PROVE  RawOk("C", fixed, m)
<1> DEFINE f == m.f
           n == SizeOf(f)
           raw == [i \in DOMAIN m.v |-> ToUnsigned(m.v[i], n)]
           C == Codes(f)
           units == UnitsBy("C", m)
<1>1. f \in Fields /\ f.array_len \in Nat /\ f.wire_type \in WireType /\ n = WIRE_TYPE_SIZES[f.wire_type]
  BY AllItemsFacts, StringTypes, FieldTypes DEF SizeOf
<1>2. /\ m.v \in Seq(Int) /\ Len(m.v) = f.array_len
      /\ \A i \in DOMAIN m.v : m.v[i] \in Least(f.wire_type) .. Greatest(f.wire_type)
  BY StringValues DEF StringValue
<1>3. DOMAIN m.v = 1 .. f.array_len
  BY <1>2
<1>4. ASSUME NEW i \in DOMAIN m.v
      PROVE  raw[i] \in C /\ (raw[i] = 0 <=> m.v[i] = 0)
  <2>1. m.v[i] \in Int /\ InBits(m.v[i], f.wire_type, n)
    BY <1>1, <1>2, BitsOfRanged
  <2>2. raw[i] = ToUnsigned(m.v[i], n)
    OBVIOUS
  <2> HIDE DEF raw, n, f
  <2>3. QED
    BY <2>1, <2>2 DEF InBits, Codes, n
<1>5. raw \in Seq(C) /\ Len(raw) = f.array_len
  <2>1. raw = [i \in 1 .. f.array_len |-> raw[i]]
    BY <1>3
  <2>2. \A i \in 1 .. f.array_len : raw[i] \in C
    BY <1>3, <1>4
  <2> DEFINE len == f.array_len
  <2>3. len \in Nat /\ raw = [i \in 1 .. len |-> raw[i]] /\ \A i \in 1 .. len : raw[i] \in C
    BY <1>1, <2>1, <2>2
  <2> HIDE DEF raw, C, len
  <2>4. raw \in Seq(C) /\ Len(raw) = len
    BY <2>3, AsSequence
  <2>5. QED
    BY <2>4 DEF len
<1>6. TextOf(raw) = [i \in DOMAIN TextOf(m.v) |-> raw[i]]
  <2>1. \A i \in 1 .. Len(m.v) : m.v[i] = 0 <=> raw[i] = 0
    BY <1>2, <1>3, <1>4
  <2> HIDE DEF raw, C
  <2>2. QED
    BY <1>2, <1>5, <2>1, TextAlike
<1>7. units = TextOf(raw)
  <2>1. \A i \in DOMAIN TextOf(m.v) : i \in DOMAIN m.v
    <3>1. TextOf(m.v) \in Seq(Int) /\ Len(TextOf(m.v)) <= Len(m.v) /\ Len(TextOf(m.v)) \in Nat
      BY <1>2, TextFacts
    <3>2. DOMAIN TextOf(m.v) = 1 .. Len(TextOf(m.v))
      BY <3>1
    <3>3. QED
      BY <1>1, <1>2, <1>3, <3>1, <3>2
  <2>2. units = [i \in DOMAIN TextOf(m.v) |-> ToUnsigned(m.v[i], n)]
    BY DEF UnitsBy
  <2>3. [i \in DOMAIN TextOf(m.v) |-> ToUnsigned(m.v[i], n)] = [i \in DOMAIN TextOf(m.v) |-> raw[i]]
    BY <2>1
  <2>4. QED
    BY <1>6, <2>2, <2>3, Zenon
<1>8. units \in Seq(C) /\ Len(units) <= f.array_len /\ Len(units) \in Nat
  <2> HIDE DEF raw, C, units
  <2>1. QED
    BY <1>1, <1>5, <1>7, TextFacts
<1>9. TextOf(units) = units
  <2> HIDE DEF raw, C, units
  <2>1. QED
    BY <1>5, <1>7, TextAgain
<1>10. RawOf("C", fixed, m) = IF fixed = FALSE THEN units ELSE raw
  BY DEF RawOf
<1> HIDE DEF raw, C, units, n
<1>11. CASE fixed = FALSE
  <2>1. RawOf("C", fixed, m) = units
    BY <1>10, <1>11
  <2>2. QED
    BY <1>8, <1>9, <1>11, <2>1 DEF RawOk, C, units
<1>12. CASE fixed = TRUE
  <2>1. RawOf("C", fixed, m) = raw
    BY <1>10, <1>12
  <2>2. TextOf(raw) = TextOf(units)
    BY <1>7, <1>9
  <2>3. raw \in Seq(C) /\ Len(raw) = f.array_len /\ Len(raw) <= f.array_len
    BY <1>1, <1>5
  <2>4. QED
    BY <1>12, <2>1, <2>2, <2>3 DEF RawOk, C, units
<1>13. QED
  BY <1>11, <1>12

\* One byte.
LEMMA ValuesOfOne == Values(1) = ByteBase /\ Byte = 0 .. Values(1) - 1
<1>1. Values(0) = 1 /\ Values(0 + 1) = ByteBase * Values(0)
  BY ValuesStep
<1>2. Values(1) = ByteBase
  BY <1>1, ByteBaseAssumption
<1>3. QED
  BY <1>2 DEF Byte

\* The units of a string in C#.
LEMMA CsUnits ==
    ASSUME NEW m \in AllItems("C#"), field_is_string(m.f), NEW fixed \in BOOLEAN
    PROVE  RawOk("C#", fixed, m)
<1> DEFINE f == m.f
           n == f.array_len
           C == Codes(f)
           units == UnitsBy("C#", m)
<1>1. f \in Fields /\ n \in Nat /\ (is_char_array(f) \/ is_wchar_array(f))
  BY AllItemsFacts, StringTypes
<1>2. m.v \in Seq(Nat) /\ (is_wchar_array(f) => \A i \in DOMAIN m.v : m.v[i] \in 0 .. Values(2) - 1)
  BY StringValues DEF StringValue
<1>3. units \in Seq(C) /\ Len(units) \in Nat /\ Len(units) <= n
  <2>1. CASE is_char_array(f)
    <3>1. SizeOf(f) = 1
      BY <1>1, <2>1, StringTypes
    <3>2. C = Byte
      BY <3>1, ValuesOfOne DEF Codes
    <3> DEFINE v == Fitting(m.v, n)
    <3>3. v \in Seq(Nat) /\ Len(GetBytes(v)) <= n
      BY <1>1, <1>2, FittingFacts, FittingFits
    <3>4. units = GetBytes(v)
      BY <2>1 DEF UnitsBy
    <3> HIDE DEF v, units, C
    <3>5. GetBytes(v) \in Seq(Byte)
      BY <3>3, GetBytesFacts DEF Bytes
    <3>6. Len(units) \in Nat
      BY <3>4, <3>5, LenProperties
    <3>7. QED
      BY <3>2, <3>3, <3>4, <3>5, <3>6
  <2>2. CASE ~is_char_array(f)
    <3>1. is_wchar_array(f) /\ SizeOf(f) = 2
      BY <1>1, <2>2, StringTypes
    <3>2. C = 0 .. Values(2) - 1
      BY <3>1 DEF Codes
    <3>3. units = Cut(m.v, n)
      BY <2>2 DEF UnitsBy
    <3>4. m.v \in Seq(C)
      <4>1. \A i \in 1 .. Len(m.v) : m.v[i] \in C
        BY <1>2, <3>1, <3>2
      <4> HIDE DEF C
      <4> DEFINE v == m.v
      <4>2. v \in Seq(Nat) /\ Len(v) \in Nat
        BY <1>2
      <4>3. \A i \in 1 .. Len(v) : v[i] \in C
        BY <4>1
      <4> HIDE DEF v
      <4>4. v = [i \in 1 .. Len(v) |-> v[i]]
        BY <4>2
      <4>5. v \in Seq(C)
        BY <4>2, <4>3, <4>4, AsSequence
      <4>6. QED
        BY <4>5 DEF v
    <3> HIDE DEF C, units
    <3>5. QED
      BY <1>1, <3>3, <3>4, CutFacts
  <2>3. QED
    BY <2>1, <2>2
<1>4. RawOf("C#", fixed, m) = IF fixed = FALSE THEN units ELSE PaddedWith(0, units, n)
  BY DEF RawOf
<1>5. 0 \in C
  <2>1. SizeOf(f) \in Nat
    BY <1>1, StringTypes
  <2> DEFINE w == Values(SizeOf(f))
  <2>2. w \in Nat /\ w >= 1
    BY <2>1, ValuesType
  <2>3. C = 0 .. w - 1
    BY DEF Codes
  <2> HIDE DEF w, C
  <2>4. QED
    BY <2>2, <2>3
<1> HIDE DEF C, units, n
<1>6. CASE fixed = FALSE
  <2>1. RawOf("C#", fixed, m) = units
    BY <1>4, <1>6
  <2>2. QED
    BY <1>3, <1>6, <2>1 DEF RawOk, C, units, n
<1>7. CASE fixed = TRUE
  <2> DEFINE z == [i \in 1 .. n - Len(units) |-> 0]
             p == PaddedWith(0, units, n)
  <2>1. RawOf("C#", fixed, m) = p
    BY <1>4, <1>7
  <2>2. p \in Seq(C) /\ Len(p) = n
    BY <1>1, <1>3, <1>5, PaddedFacts, ZenonT(40) DEF n
  <2>3. Cut(units, n) = units
    BY <1>1, <1>3, CutElements DEF n
  <2>4. p = units \o z
    BY <2>3 DEF PaddedWith
  <2>5. n - Len(units) \in Nat
    BY <1>1, <1>3 DEF n
  <2>6. z \in Seq(C) /\ Len(z) = n - Len(units)
    BY <1>5, <2>5, RepeatedFacts
  <2>7. \A i \in 1 .. Len(z) : z[i] = 0
    BY <2>6
  <2> HIDE DEF z, p
  <2>8. TextOf(units \o z) = TextOf(units)
    BY <1>3, <2>6, <2>7, TextBefore
  <2>9. Len(p) <= n
    BY <1>1, <2>2 DEF n
  <2>10. QED
    BY <1>7, <2>1, <2>2, <2>4, <2>8, <2>9 DEF RawOk, C, units, n
<1>8. QED
  BY <1>6, <1>7

\* The units of a string, in either language.
LEMMA RawFacts ==
    ASSUME NEW who \in {"C", "C#"}, NEW m \in AllItems(who), field_is_string(m.f), NEW fixed \in BOOLEAN
    PROVE  RawOk(who, fixed, m)
BY CUnits, CsUnits

-----------------------------------------------------------------------------
(* Numbers one after the other. *)

NumOf(n, big) == [u \in Nat |-> NumBytes(u, n, big)]

\* The bytes of a number, as a function of it.
LEMMA NumOfType ==
    ASSUME NEW n \in Nat, NEW big
    PROVE  NumOf(n, big) \in [Nat -> Seq(Byte)]
<1>1. \A u \in Nat : u \in Int
  OBVIOUS
<1>2. \A u \in Nat : NumBytes(u, n, big) \in Seq(Byte)
  BY <1>1, NumBytesType DEF Bytes
<1>3. QED
  BY <1>2 DEF NumOf

\* Every number has as many bytes.
LEMMA NumOfLength ==
    ASSUME NEW n \in Nat, NEW big
    PROVE  \A u \in Nat : NumOf(n, big)[u] = NumBytes(u, n, big) /\ Len(NumOf(n, big)[u]) = n
<1>1. \A u \in Nat : u \in Int
  OBVIOUS
<1>2. \A u \in Nat : Len(NumBytes(u, n, big)) = n
  BY <1>1, NumBytesType
<1>3. QED
  BY <1>2 DEF NumOf

\* The bytes of numbers one after the other are those of all.
LEMMA NumsJoin ==
    ASSUME NEW n \in Nat, NEW big
    PROVE  Homomorphism(NumOf(n, big), Nat, Byte)
BY NumOfType, SpreadFacts

\* As many bytes as numbers, times the width.
LEMMA NumsLength ==
    ASSUME NEW n \in Nat, NEW big, NEW s \in Seq(Nat)
    PROVE  /\ Spread(NumOf(n, big), s) \in Seq(Byte)
           /\ Len(Spread(NumOf(n, big), s)) = Len(s) * n
<1> DEFINE g == NumOf(n, big)
           h == [u \in Nat |-> n]
<1>1. g \in [Nat -> Seq(Byte)] /\ h \in [Nat -> Nat] /\ \A u \in Nat : Len(g[u]) = h[u]
  BY NumOfType, NumOfLength
<1>2. Len(s) \in Nat /\ DOMAIN s = 1 .. Len(s) /\ \A i \in 1 .. Len(s) : s[i] \in Nat
  BY LenProperties, ElementOfSeq
<1> HIDE DEF g
<1>3. Spread(g, s) \in Seq(Byte)
  BY <1>1, SpreadType
<1>4. Len(Spread(g, s)) = SumOf(h, s)
  <2> HIDE DEF h
  <2>1. LengthsSum(Nat, g)
    BY <1>1, SpreadLength
  <2>2. Nat \in SUBSET Nat
    OBVIOUS
  <2>3. QED
    BY <1>1, <2>1, <2>2 DEF LengthsSum
<1>5. SumOf(h, s) = Len(s) * n
  <2> DEFINE t == [i \in DOMAIN s |-> h[s[i]]]
  <2>1. SumOf(h, s) = Total(t)
    BY DEF SumOf
  <2>2. t = [i \in 1 .. Len(s) |-> t[i]] /\ \A i \in 1 .. Len(s) : t[i] = n
    BY <1>2
  <2> HIDE DEF t
  <2> DEFINE m == Len(s)
  <2>3. m \in Nat /\ t = [i \in 1 .. m |-> t[i]] /\ \A i \in 1 .. m : t[i] \in Nat
    BY <1>2, <2>2
  <2> HIDE DEF m
  <2>4. t \in Seq(Nat) /\ Len(t) = m
    BY <2>3, AsSequence
  <2>5. Total(t) = Len(t) * n
    BY <2>2, <2>4, TotalOfEqual DEF m
  <2>6. QED
    BY <2>1, <2>4, <2>5 DEF m
<1>6. QED
  BY <1>3, <1>4, <1>5 DEF g

\* Numbers of one byte are the bytes.
LEMMA NumsOfBytes ==
    ASSUME NEW big, NEW s \in Seq(Byte)
    PROVE  Spread(NumOf(1, big), s) = s
<1>1. Byte \subseteq Nat
  BY ByteBaseAssumption DEF Byte
<1>2. ASSUME NEW x \in Byte
      PROVE  NumBytes(x, 1, big) = <<x>>
  <2>1. x \in Nat /\ x < ByteBase /\ ByteBase \in Nat /\ ByteBase >= 1
    BY ByteBaseAssumption DEF Byte
  <2>2. ByteAt(x, 0) = x
    <3>1. ByteAt(x, 0) = ((x \div 1) % ByteBase)
      BY ValuesStep DEF ByteAt
    <3>2. x \div 1 = x
      BY <2>1
    <3>3. (x % ByteBase) = x
      BY <2>1
    <3>4. QED
      BY <3>1, <3>2, <3>3
  <2>3. \A i \in 1 .. 1 : Place(1, i, big) = 0
    BY DEF Place
  <2>4. NumBytes(x, 1, big) = [i \in 1 .. 1 |-> x]
    BY <2>2, <2>3 DEF NumBytes
  <2>5. QED
    BY <2>4
<1>3. NumOf(1, big) \in [Nat -> Seq(Byte)]
  BY NumOfType
<1>4. \A x \in Byte : NumOf(1, big)[x] = <<x>>
  BY <1>1, <1>2 DEF NumOf
<1> DEFINE g == NumOf(1, big)
<1> HIDE DEF g
<1>5. Spread(g, s) = s
  BY <1>1, <1>3, <1>4, SpreadSame DEF g
<1>6. QED
  BY <1>5 DEF g

\* Zeros are the bytes of zeros.
Zeros(n) == [i \in 1 .. n |-> 0]

\* Zeros are bytes, and the only sequence of zeros of that length.
LEMMA ZerosFacts ==
    ASSUME NEW n \in Nat
    PROVE  /\ Zeros(n) \in Seq(Byte) /\ Len(Zeros(n)) = n
           /\ \A s : s \in Seq(Int) /\ Len(s) = n /\ (\A i \in 1 .. n : s[i] = 0) => s = Zeros(n)
<1>1. 0 \in Byte
  BY ByteBaseAssumption DEF Byte
<1>2. Zeros(n) \in Seq(Byte) /\ Len(Zeros(n)) = n
  BY <1>1, RepeatedFacts DEF Zeros
<1>3. ASSUME NEW s, s \in Seq(Int), Len(s) = n, \A i \in 1 .. n : s[i] = 0
      PROVE  s = Zeros(n)
  <2>1. s = [i \in 1 .. n |-> s[i]]
    BY <1>3
  <2>2. QED
    BY <1>3, <2>1 DEF Zeros
<1>4. QED
  BY <1>2, <1>3

\* Zeros after zeros.
LEMMA ZerosJoined ==
    ASSUME NEW m \in Nat, NEW n \in Nat
    PROVE  Zeros(m) \o Zeros(n) = Zeros(m + n)
<1> DEFINE a == Zeros(m)
           b == Zeros(n)
<1>1. a \in Seq(Byte) /\ b \in Seq(Byte) /\ Len(a) = m /\ Len(b) = n
  BY ZerosFacts
<1>2. (\A i \in 1 .. m : a[i] = 0) /\ (\A i \in 1 .. n : b[i] = 0)
  BY DEF Zeros
<1> HIDE DEF a, b
<1>3. a \o b = [i \in 1 .. Len(a) + Len(b) |-> IF i <= Len(a) THEN a[i] ELSE b[i - Len(a)]]
  BY <1>1, Joined
<1>4. \A i \in 1 .. m + n : (IF i <= m THEN a[i] ELSE b[i - m]) = 0
  BY <1>2
<1>5. a \o b = [i \in 1 .. m + n |-> 0]
  BY <1>1, <1>3, <1>4
<1>6. QED
  BY <1>5 DEF a, b, Zeros

\* The bytes of zeros are zeros.
LEMMA ZerosSpread ==
    ASSUME NEW n \in Nat, NEW big
    PROVE  /\ NumBytes(0, n, big) = Zeros(n)
           /\ \A m \in Nat : Spread(NumOf(n, big), Zeros(m)) = Zeros(m * n)
<1> DEFINE g == NumOf(n, big)
           T == {m \in Nat : Spread(g, Zeros(m)) = Zeros(m * n)}
<1>1. \A k \in Nat : ByteAt(0, k) = 0
  <2>1. ASSUME NEW k \in Nat
        PROVE  ByteAt(0, k) = 0
    <3> DEFINE w == Values(k)
    <3>1. w \in Nat /\ w >= 1 /\ ByteBase \in Nat /\ ByteBase >= 1
      BY ValuesType, ByteBaseAssumption
    <3>2. ByteAt(0, k) = ((0 \div w) % ByteBase)
      BY DEF ByteAt
    <3> HIDE DEF w
    <3>3. 0 \div w = 0
      <4>1. 0 \in Int /\ 0 \in 0 .. w - 1 /\ 0 = 0 * w + 0
        BY <3>1
      <4>2. QED
        BY <3>1, <4>1, DivMod
    <3>4. (0 % ByteBase) = 0
      BY <3>1
    <3>5. QED
      BY <3>2, <3>3, <3>4
  <2>2. QED
    BY <2>1
<1>2. NumBytes(0, n, big) = Zeros(n)
  <2>1. \A i \in 1 .. n : Place(n, i, big) \in Nat
    BY DEF Place
  <2>2. QED
    BY <1>1, <2>1 DEF NumBytes, Zeros
<1>3. Homomorphism(g, Nat, Byte) /\ g[0] = Zeros(n)
  BY <1>2, NumsJoin DEF NumOf
<1>4. 0 \in T
  <2>1. Zeros(0) = <<>> /\ Spread(g, <<>>) = <<>>
    BY <1>3 DEF Zeros, Homomorphism
  <2>2. 0 * n = 0
    OBVIOUS
  <2>3. QED
    BY <2>1, <2>2
<1>5. ASSUME NEW m \in T
      PROVE  m + 1 \in T
  <2>1. m \in Nat /\ m + 1 \in Nat /\ Spread(g, Zeros(m)) = Zeros(m * n)
    OBVIOUS
  <2> HIDE DEF g
  <2>2. Zeros(1) = <<0>>
    BY DEF Zeros
  <2>3. Zeros(m + 1) = Zeros(m) \o <<0>>
    BY <2>1, <2>2, ZerosJoined
  <2>4. Zeros(m) \in Seq(Nat) /\ <<0>> \in Seq(Nat) /\ 0 \in Nat
    <3>1. Byte \subseteq Nat
      BY ByteBaseAssumption DEF Byte
    <3>2. Zeros(m) \in Seq(Byte)
      BY <2>1, ZerosFacts
    <3>3. Seq(Byte) \subseteq Seq(Nat)
      BY <3>1, SeqMonotonic
    <3>4. QED
      BY <3>2, <3>3
  <2>5. Spread(g, Zeros(m) \o <<0>>) = Spread(g, Zeros(m)) \o Spread(g, <<0>>) /\ Spread(g, <<0>>) = g[0]
    BY <1>3, <2>4 DEF Homomorphism
  <2> DEFINE k == m * n
  <2>6. k \in Nat /\ (m + 1) * n = k + n
    BY <2>1
  <2> HIDE DEF k
  <2>7. Zeros(k) \o Zeros(n) = Zeros(k + n)
    BY <2>6, ZerosJoined
  <2>8. Spread(g, Zeros(m + 1)) = Zeros(k + n)
    BY <1>3, <2>1, <2>3, <2>5, <2>7 DEF k
  <2>9. QED
    BY <2>1, <2>6, <2>8
<1> HIDE DEF T, g
<1>6. Nat \subseteq T
  BY <1>4, <1>5, Induction
<1>7. QED
  BY <1>2, <1>6 DEF T, g

\* A part of what is joined is a part of either.
LEMMA Window ==
    ASSUME NEW S, NEW a \in Seq(S), NEW c \in Seq(S), NEW p \in Nat, NEW k \in Nat
    PROVE  /\ p + k <= Len(a) => SubSeq(a \o c, p + 1, p + k) = SubSeq(a, p + 1, p + k)
           /\ p + k <= Len(c) =>
                 SubSeq(a \o c, Len(a) + p + 1, Len(a) + p + k) = SubSeq(c, p + 1, p + k)
<1> DEFINE b == a \o c
<1>1. b \in Seq(S) /\ Len(b) = Len(a) + Len(c) /\ Len(a) \in Nat /\ Len(c) \in Nat
  BY Concatenated
<1>2. b = [i \in 1 .. Len(a) + Len(c) |-> IF i <= Len(a) THEN a[i] ELSE c[i - Len(a)]]
  BY Joined
<1> HIDE DEF b
<1>3. ASSUME p + k <= Len(a)
      PROVE  SubSeq(b, p + 1, p + k) = SubSeq(a, p + 1, p + k)
  <2>1. SubSeq(b, p + 1, p + k) = [i \in 1 .. k |-> b[p + i]]
    BY <1>1, <1>3
  <2>2. SubSeq(a, p + 1, p + k) = [i \in 1 .. k |-> a[p + i]]
    BY <1>1, <1>3
  <2>3. \A i \in 1 .. k : b[p + i] = a[p + i]
    BY <1>1, <1>2, <1>3
  <2>4. QED
    BY <2>1, <2>2, <2>3
<1>4. ASSUME p + k <= Len(c)
      PROVE  SubSeq(b, Len(a) + p + 1, Len(a) + p + k) = SubSeq(c, p + 1, p + k)
  <2>1. SubSeq(b, Len(a) + p + 1, Len(a) + p + k) = [i \in 1 .. k |-> b[Len(a) + p + i]]
    BY <1>1, <1>4
  <2>2. SubSeq(c, p + 1, p + k) = [i \in 1 .. k |-> c[p + i]]
    BY <1>1, <1>4
  <2>3. \A i \in 1 .. k : b[Len(a) + p + i] = c[p + i]
    BY <1>1, <1>2, <1>4
  <2>4. QED
    BY <2>1, <2>2, <2>3
<1>5. QED
  BY <1>3, <1>4 DEF b

\* Each number is where those before it end.
Chunks(g, n, s) ==
    \A i \in 1 .. Len(s) : SubSeq(Spread(g, s), (i - 1) * n + 1, (i - 1) * n + n) = g[s[i]]

\* Each number's bytes are where its place, times the width, says.
LEMMA Chunk ==
    ASSUME NEW n \in Nat, NEW big
    PROVE  \A s \in Seq(Nat) : Chunks(NumOf(n, big), n, s)
<1> DEFINE g == NumOf(n, big)
           P == {s \in Seq(Nat) : Chunks(g, n, s)}
<1>1. Homomorphism(g, Nat, Byte) /\ g \in [Nat -> Seq(Byte)]
  BY NumsJoin, NumOfType
<1>2. <<>> \in P
  BY DEF Chunks
<1>3. ASSUME NEW s \in Seq(Nat), NEW x \in Nat, s \in P
      PROVE  s \o <<x>> \in P
  <2> DEFINE t == s \o <<x>>
             a == Spread(g, s)
             c == g[x]
             m == Len(s)
  <2>1. Chunks(g, n, s)
    BY <1>3
  <2>2. a \in Seq(Byte) /\ Len(a) = m * n /\ c \in Seq(Byte) /\ Len(c) = n
    BY <1>1, NumsLength, NumOfLength
  <2>3. m \in Nat /\ t \in Seq(Nat) /\ Len(t) = m + 1 /\ (\A i \in 1 .. m : t[i] = s[i]) /\ t[m + 1] = x
    OBVIOUS
  <2>4. Spread(g, t) = a \o c
    <3> HIDE DEF g, P
    <3>1. <<x>> \in Seq(Nat)
      OBVIOUS
    <3>2. QED
      BY <1>1, <3>1 DEF Homomorphism
  <2> HIDE DEF g, P, a, c, t, m
  <2>5. ASSUME NEW i \in 1 .. m + 1
        PROVE  SubSeq(a \o c, (i - 1) * n + 1, (i - 1) * n + n) = g[t[i]]
    <3> DEFINE q == (i - 1) * n
    <3>1. CASE i \in 1 .. m
      <4>1. q \in Nat /\ q + n <= m * n
        <5>1. i - 1 \in Nat /\ i <= m
          BY <2>3, <3>1
        <5>2. q + n = i * n
          BY <5>1
        <5>3. i * n <= m * n
          BY <2>3, <5>1
        <5>4. q \in Nat
          BY <5>1
        <5>5. QED
          BY <5>2, <5>3, <5>4
      <4>2. SubSeq(a, q + 1, q + n) = g[s[i]]
        BY <2>1, <3>1 DEF Chunks, a, m
      <4> HIDE DEF q
      <4>3. SubSeq(a \o c, q + 1, q + n) = SubSeq(a, q + 1, q + n)
        BY <2>2, <4>1, Window
      <4>4. g[t[i]] = g[s[i]]
        BY <2>3, <3>1
      <4>5. QED
        BY <4>2, <4>3, <4>4 DEF q
    <3>2. CASE i = m + 1
      <4>1. q = Len(a)
        BY <2>2, <2>3, <3>2
      <4>2. SubSeq(a \o c, Len(a) + 0 + 1, Len(a) + 0 + n) = SubSeq(c, 0 + 1, 0 + n)
        BY <2>2, Window, SMTT(30)
      <4>3. SubSeq(c, 0 + 1, 0 + n) = c
        <5>1. 0 + 1 = 1 /\ 0 + n = Len(c)
          BY <2>2
        <5>2. SubSeq(c, 1, Len(c)) = c
          BY <2>2, SubSeqFull
        <5>3. QED
          BY <5>1, <5>2
      <4> HIDE DEF q
      <4>4. Len(a) + 0 + 1 = q + 1 /\ Len(a) + 0 + n = q + n
        <5>1. Len(a) \in Nat
          BY <2>2
        <5>2. QED
          BY <4>1, <5>1
      <4>5. SubSeq(a \o c, q + 1, q + n) = c
        BY <4>2, <4>3, <4>4
      <4>6. g[t[i]] = c
        BY <2>3, <3>2 DEF c
      <4>7. QED
        BY <4>5, <4>6 DEF q
    <3>3. i \in 1 .. m \/ i = m + 1
      BY <2>3
    <3>4. QED
      BY <3>1, <3>2, <3>3, Zenon
  <2>6. Chunks(g, n, t)
    BY <2>3, <2>4, <2>5 DEF Chunks
  <2>7. QED
    BY <2>3, <2>6 DEF t, P
<1> HIDE DEF P, g
<1>4. Seq(Nat) \subseteq P
  BY <1>2, <1>3, SeqInduction
<1>5. QED
  BY <1>4 DEF P, g

-----------------------------------------------------------------------------
(* The bytes of leaves. *)

StringBytes(f, raw, fixed, big) ==
    (IF fixed = TRUE THEN <<>> ELSE NumBytes(Len(raw), length_prefix_size(f.array_len), big))
    \o Spread(NumOf(SizeOf(f), big), raw)
ScalarBytes(f, v, big) == NumBytes(ToUnsigned(v, SizeOf(f)), SizeOf(f), big)
LeafBytes(who, fixed, big, m) ==
    IF field_is_string(m.f) THEN StringBytes(m.f, RawOf(who, fixed, m), fixed, big)
                            ELSE ScalarBytes(m.f, m.v, big)
BytesFn(who, fixed, big) ==
    [m \in EndItems(who) |-> IF IsLeaf(m.f) THEN LeafBytes(who, fixed, big, m) ELSE <<>>]
BytesOf(who, fixed, big, s) == Spread(BytesFn(who, fixed, big), s)

\* A length prefix holds every length up to that of the array.
LEMMA PrefixHolds ==
    ASSUME NEW f \in SizedFields, field_is_string(f), NEW k \in Nat, k <= f.array_len
    PROVE  k \in 0 .. Values(length_prefix_size(f.array_len)) - 1
<1> DEFINE n == f.array_len
           t == length_prefix_type(n)
           w == Values(WIRE_TYPE_SIZES[t])
<1>1. f \in Fields /\ n \in Nat
  BY StringTypes DEF SizedFields
<1> PICK fixed \in BOOLEAN : fixed = FALSE
  OBVIOUS
<1>2. n <= Greatest("uint32_t")
  <2>1. ItemSize(f, fixed) \in Nat
    BY DEF SizedFields
  <2> DEFINE e == OneSize(f.wire_type, fixed)
  <2>2. e \in Nat
    BY <1>1, <2>1, FieldSized
  <2>3. ItemSize(f, fixed) = wire_size_of(f, e, fixed)
    BY DEF ItemSize
  <2> HIDE DEF e
  <2>4. wire_size_of(f, e, fixed) # Error
    <3>1. Error \notin Nat
      BY DEF Error
    <3>2. QED
      BY <2>1, <2>3, <3>1
  <2>5. f.array_len \in Nat \cup {NoLen} /\ e \in Size
    BY <1>1, <2>2 DEF Size
  <2>6. ~Misfit(f, fixed)
    BY <2>4, <2>5, FieldSize
  <2>7. PrefixFits(n)
    BY <2>6 DEF Misfit
  <2>8. QED
    BY <2>7 DEF PrefixFits
<1>3. \A u \in {"uint8_t", "uint16_t", "uint32_t", "uint64_t"} :
          u \notin ToSet(Signed) /\ u \in WireType /\ Greatest(u) = Values(WIRE_TYPE_SIZES[u]) - 1
  <2>1. ASSUME NEW u \in {"uint8_t", "uint16_t", "uint32_t", "uint64_t"}
        PROVE  u \notin ToSet(Signed) /\ u \in WireType /\ Greatest(u) = Values(WIRE_TYPE_SIZES[u]) - 1
    <3>1. u \notin ToSet(Signed) /\ u \in WireType
      BY DEF ToSet, Signed, WireType, WIRE_TYPE_SIZES
    <3>2. Least(u) = 0
      BY <3>1 DEF Least
    <3> DEFINE v == Values(WIRE_TYPE_SIZES[u])
    <3>3. v \in Nat
      BY <3>1, WireSizes, ValuesType
    <3>4. Greatest(u) = 0 + v - 1
      BY <3>2 DEF Greatest
    <3> HIDE DEF v
    <3>5. Greatest(u) = v - 1
      BY <3>3, <3>4
    <3>6. QED
      BY <3>1, <3>5 DEF v
  <2>2. QED
    BY <2>1
<1>4. \E i \in 1 .. 4 : t = Unsigned[i] /\ (i # 4 => n <= Greatest(Unsigned[i]))
  <2>1. Unsigned \in {Unsigned, Signed}
    OBVIOUS
  <2>2. QED
    BY <2>1, NarrowestFacts DEF length_prefix_type
<1>5. PICK i \in 1 .. 4 : t = Unsigned[i] /\ (i # 4 => n <= Greatest(Unsigned[i]))
  BY <1>4
<1>6. t \in {"uint8_t", "uint16_t", "uint32_t", "uint64_t"} /\ (i = 4 => t = "uint64_t")
  BY <1>5 DEF Unsigned
<1>7. n <= Greatest(t)
  <2>1. CASE i # 4
    BY <1>5, <2>1
  <2>2. CASE i = 4
    <3> DEFINE v == Values(4)
               x == Values(8)
    <3>1. v \in Nat /\ v >= 1 /\ x \in Nat
      BY ValuesType
    <3>2. x = v * v
      <4>1. 8 = 4 + 4 /\ 4 \in Nat
        OBVIOUS
      <4>2. QED
        BY <4>1, ValuesOfBoth
    <3>3. Greatest("uint32_t") = v - 1 /\ Greatest("uint64_t") = x - 1
      <4>1. WIRE_TYPE_SIZES["uint32_t"] = 4 /\ WIRE_TYPE_SIZES["uint64_t"] = 8
        BY DEF WIRE_TYPE_SIZES
      <4>2. QED
        BY <1>3, <4>1
    <3> HIDE DEF v, x
    <3>4. v <= x
      BY <3>1, <3>2
    <3> DEFINE y == Greatest("uint32_t")
               z == Greatest("uint64_t")
    <3>5. n <= y /\ y = v - 1 /\ z = x - 1 /\ n \in Nat
      BY <1>1, <1>2, <3>3
    <3> HIDE DEF y, z, n
    <3>6. n <= z
      BY <3>1, <3>4, <3>5
    <3>7. t = "uint64_t"
      BY <1>6, <2>2
    <3>8. QED
      BY <3>6, <3>7 DEF z
  <2>3. QED
    BY <2>1, <2>2
<1>8. Greatest(t) = w - 1 /\ w \in Nat
  BY <1>3, <1>6, WireSizes, ValuesType
<1>9. length_prefix_size(n) = WIRE_TYPE_SIZES[t]
  BY DEF length_prefix_size
<1>10. k \in 0 .. w - 1
  <2> DEFINE y == Greatest(t)
  <2>1. n <= y /\ y = w - 1 /\ k <= n /\ n \in Nat
    BY <1>1, <1>7, <1>8
  <2> HIDE DEF w, y, n
  <2>2. QED
    BY <1>8, <2>1
<1>11. QED
  BY <1>9, <1>10

\* A scalar is a number.
LEMMA ScalarValue ==
    ASSUME NEW who \in {"C", "C#"}, NEW m \in AllItems(who), ~IsArray(m.f), ~IsStruct(m.f)
    PROVE  m.v \in Int /\ Ranged(who, m.f, m.v) /\ m.f.wire_type \in WireType /\ SizeOf(m.f) \in Widths
<1>1. m.f \in Fields /\ ProperItem(who, m)
  BY AllItemsFacts
<1>2. m.v \in ValuesOf(who, m.f) /\ Ranged(who, m.f, m.v)
  BY <1>1 DEF ProperItem, InRange
<1>3. m.v \in Int
  BY <1>2 DEF ValuesOf, CValues, CsValues, field_is_string
<1>4. QED
  BY <1>1, <1>2, <1>3, FieldTypes

\* The widths are numbers above zero.
LEMMA WidthsAreNat == \A n \in Widths : n \in Nat /\ n >= 1
BY DEF Widths

\* A scalar has as many bytes as its type says.
LEMMA ScalarBytesFacts ==
    ASSUME NEW f, SizeOf(f) \in Widths, NEW v \in Int, NEW big
    PROVE  ScalarBytes(f, v, big) \in Seq(Byte) /\ Len(ScalarBytes(f, v, big)) = SizeOf(f)
<1> DEFINE n == SizeOf(f)
           u == ToUnsigned(v, n)
<1>1. n \in Nat
  BY WidthsAreNat
<1>2. u \in Int
  BY <1>1, CastFacts
<1> HIDE DEF n, u
<1>3. NumBytes(u, n, big) \in Seq(Byte) /\ Len(NumBytes(u, n, big)) = n
  BY <1>1, <1>2, NumBytesType DEF Bytes
<1>4. QED
  BY <1>3 DEF ScalarBytes, n, u

\* What is on the wire of a string: numbers, and how many they are.
RawNumber(who, fixed, m) ==
    LET raw == RawOf(who, fixed, m)
    IN  /\ raw \in Seq(Nat) /\ Len(raw) \in Nat /\ Len(raw) <= m.f.array_len
        /\ m.f.array_len \in Nat /\ SizeOf(m.f) \in {1, 2}
        /\ length_prefix_size(m.f.array_len) \in Widths
        /\ \A i \in 1 .. Len(raw) : raw[i] \in 0 .. Values(SizeOf(m.f)) - 1

\* The units of a string are numbers of its type, at most as many as its array has.
LEMMA RawNumbers ==
    ASSUME NEW who \in {"C", "C#"}, NEW m \in AllItems(who), field_is_string(m.f), NEW fixed \in BOOLEAN
    PROVE  RawNumber(who, fixed, m)
<1> DEFINE f == m.f
           raw == RawOf(who, fixed, m)
           C == Codes(f)
<1>1. f \in Fields /\ f.array_len \in Nat /\ SizeOf(f) \in {1, 2}
  BY AllItemsFacts, StringTypes
<1>2. raw \in Seq(C) /\ Len(raw) <= f.array_len
  BY RawFacts DEF RawOk
<1>3. C \subseteq Nat /\ C = 0 .. Values(SizeOf(f)) - 1
  <2>1. C = 0 .. Values(SizeOf(f)) - 1
    BY DEF Codes
  <2> HIDE DEF C
  <2>2. QED
    BY <2>1
<1>4. length_prefix_size(f.array_len) \in Widths
  BY PrefixTypes
<1> HIDE DEF raw, C
<1>5. Seq(C) \subseteq Seq(Nat)
  BY <1>3, SeqMonotonic
<1>6. Len(raw) \in Nat /\ \A i \in 1 .. Len(raw) : raw[i] \in C
  BY <1>2, LenProperties, ElementOfSeq
<1>7. raw \in Seq(Nat)
  BY <1>2, <1>5
<1>8. QED
  BY <1>1, <1>2, <1>3, <1>4, <1>6, <1>7 DEF RawNumber, raw

\* A string has the bytes of its length, if there is one, and of its units.
LEMMA StringBytesFacts ==
    ASSUME NEW f, NEW k \in Nat, k = SizeOf(f), NEW lp \in Nat, NEW fixed \in BOOLEAN, lp = PrefixOf(f, fixed),
           NEW raw \in Seq(Nat), NEW big
    PROVE  /\ StringBytes(f, raw, fixed, big) \in Seq(Byte)
           /\ Len(StringBytes(f, raw, fixed, big)) = lp + Len(raw) * k
<1> DEFINE a == IF fixed = TRUE THEN <<>> ELSE NumBytes(Len(raw), length_prefix_size(f.array_len), big)
           c == Spread(NumOf(k, big), raw)
<1>1. a \in Seq(Byte) /\ Len(a) = lp
  <2>1. CASE fixed = TRUE
    BY <2>1 DEF PrefixOf
  <2>2. CASE fixed = FALSE
    <3>1. lp = length_prefix_size(f.array_len)
      BY <2>2 DEF PrefixOf
    <3> DEFINE u == Len(raw)
    <3>2. u \in Int
      BY LenProperties
    <3>3. a = NumBytes(u, lp, big)
      BY <2>2, <3>1
    <3> HIDE DEF a, u
    <3>4. NumBytes(u, lp, big) \in Seq(Byte) /\ Len(NumBytes(u, lp, big)) = lp
      BY <3>2, NumBytesType DEF Bytes
    <3>5. QED
      BY <3>3, <3>4
  <2>3. QED
    BY <2>1, <2>2
<1>2. c \in Seq(Byte) /\ Len(c) = Len(raw) * k
  BY NumsLength
<1>3. StringBytes(f, raw, fixed, big) = a \o c
  BY DEF StringBytes
<1> HIDE DEF a, c
<1>4. a \o c \in Seq(Byte) /\ Len(a \o c) = Len(a) + Len(c)
  BY <1>1, <1>2, Concatenated
<1>5. QED
  BY <1>1, <1>2, <1>3, <1>4

\* How many bytes a leaf has.
LeafSize(who, fixed, m) ==
    IF field_is_string(m.f) THEN PrefixOf(m.f, fixed) + Len(RawOf(who, fixed, m)) * SizeOf(m.f)
                            ELSE SizeOf(m.f)

\* A leaf has the bytes of its size.
LEMMA LeafFacts ==
    ASSUME NEW who \in {"C", "C#"}, NEW fixed \in BOOLEAN, NEW big, NEW m \in AllItems(who), IsLeaf(m.f)
    PROVE  /\ LeafBytes(who, fixed, big, m) \in Seq(Byte)
           /\ Len(LeafBytes(who, fixed, big, m)) = LeafSize(who, fixed, m)
<1> DEFINE f == m.f
<1>1. CASE field_is_string(f)
  <2> DEFINE raw == RawOf(who, fixed, m)
             k == SizeOf(f)
             lp == PrefixOf(f, fixed)
  <2>1. RawNumber(who, fixed, m)
    BY <1>1, RawNumbers
  <2>2. raw \in Seq(Nat) /\ k \in Nat /\ lp \in Nat
    <3>1. length_prefix_size(f.array_len) \in Nat
      BY <2>1, WidthsAreNat DEF RawNumber
    <3>2. QED
      BY <2>1, <3>1 DEF RawNumber, PrefixOf
  <2>3. LeafBytes(who, fixed, big, m) = StringBytes(f, raw, fixed, big)
    BY <1>1 DEF LeafBytes
  <2>4. LeafSize(who, fixed, m) = lp + Len(raw) * k
    BY <1>1 DEF LeafSize
  <2>5. /\ StringBytes(f, raw, fixed, big) \in Seq(Byte)
        /\ Len(StringBytes(f, raw, fixed, big)) = lp + Len(raw) * k
    <3> HIDE DEF raw
    <3>1. QED
      BY <2>2, StringBytesFacts
  <2>6. QED
    BY <2>3, <2>4, <2>5
<1>2. CASE ~field_is_string(f)
  <2>1. ~IsArray(f) /\ ~IsStruct(f)
    BY <1>2 DEF IsLeaf
  <2>2. m.v \in Int /\ SizeOf(f) \in Widths
    BY <2>1, ScalarValue
  <2>3. LeafBytes(who, fixed, big, m) = ScalarBytes(f, m.v, big) /\ LeafSize(who, fixed, m) = SizeOf(f)
    BY <1>2 DEF LeafBytes, LeafSize
  <2>4. QED
    BY <2>2, <2>3, ScalarBytesFacts
<1>3. QED
  BY <1>1, <1>2

\* The bytes of leaves one after the other are those of all.
LEMMA BytesFacts ==
    ASSUME NEW who \in {"C", "C#"}, NEW fixed \in BOOLEAN, NEW big
    PROVE  Homomorphism(BytesFn(who, fixed, big), EndItems(who), Byte)
<1> DEFINE E == EndItems(who)
           g == BytesFn(who, fixed, big)
<1>1. ASSUME NEW m \in E
      PROVE  (IF IsLeaf(m.f) THEN LeafBytes(who, fixed, big, m) ELSE <<>>) \in Seq(Byte)
  <2>1. m \in AllItems(who)
    BY DEF EndItems
  <2>2. <<>> \in Seq(Byte)
    OBVIOUS
  <2>3. QED
    BY <2>1, <2>2, LeafFacts
<1>2. g \in [E -> Seq(Byte)]
  BY <1>1 DEF BytesFn
<1> HIDE DEF E, g
<1>3. Homomorphism(g, E, Byte)
  BY <1>2, SpreadFacts
<1>4. QED
  BY <1>3 DEF E, g

-----------------------------------------------------------------------------
(* What the writers write. *)

\* One byte is itself.
LEMMA OneNumber ==
    ASSUME NEW u \in Byte, NEW big
    PROVE  NumBytes(u, 1, big) = <<u>> /\ ToUnsigned(u, 1) = u
<1>1. u \in 0 .. Values(1) - 1 /\ 1 \in Widths /\ 1 \in Nat
  BY ValuesOfOne DEF Widths
<1>2. write_unsigned(u, 1, big) = NumBytes(u, 1, big)
  BY <1>1, WriteUnsignedIs
<1>3. write_unsigned(u, 1, big) = <<u>>
  BY DEF write_unsigned, write_uint8_t
<1>4. (u % Values(1)) = u
  BY <1>1, LowNumber
<1>5. QED
  BY <1>2, <1>3, <1>4 DEF ToUnsigned

\* The emitted C and C# write the same bytes of a scalar.
LEMMA ScalarWritten ==
    ASSUME NEW who \in {"C", "C#"}, NEW m \in AllItems(who), ~IsArray(m.f), ~IsStruct(m.f), NEW big
    PROVE  /\ buffers_write(m.v, CType(m.f), big) = ScalarBytes(m.f, m.v, big)
           /\ CsWrite(m.v, m.f, big) = ScalarBytes(m.f, m.v, big)
<1> DEFINE f == m.f
           v == m.v
           n == SizeOf(f)
<1>1. v \in Int /\ Ranged(who, f, v) /\ f.wire_type \in WireType /\ n \in Widths /\ n \in Nat
  BY ScalarValue, WidthsAreNat
<1>2. f \in Fields /\ Typed(f)
  BY AllItemsFacts, FieldTypes
<1>3. CType(f) \in DOMAIN SCALAR_TYPE_MAP /\ SCALAR_TYPE_MAP[CType(f)] = f.wire_type
  BY <1>2, CTypes
<1>4. WIRE_TYPE_SIZES[SCALAR_TYPE_MAP[CType(f)]] = n
  BY <1>3 DEF SizeOf
<1>5. ToUnsigned(v, n) \in 0 .. Values(n) - 1
  BY <1>1, CastFacts
<1>6. write_unsigned(ToUnsigned(v, n), n, big) = ScalarBytes(f, v, big)
  <2> DEFINE u == ToUnsigned(v, n)
  <2>1. ScalarBytes(f, v, big) = NumBytes(u, n, big)
    BY DEF ScalarBytes
  <2>2. u \in 0 .. Values(n) - 1
    BY <1>5
  <2> HIDE DEF u, n
  <2>3. write_unsigned(u, n, big) = NumBytes(u, n, big)
    BY <1>1, <2>2, WriteUnsignedIs
  <2>4. QED
    BY <2>1, <2>3 DEF u
<1>7. bp_write(ToUnsigned(v, n), f.wire_type, big) = ScalarBytes(f, v, big)
  BY BpWriteIs DEF ScalarBytes, SizeOf
<1>8. "bool" \in DOMAIN SCALAR_TYPE_MAP /\ SCALAR_TYPE_MAP["bool"] = "uint8_t" /\ "bool" \notin WireType
  BY DEF SCALAR_TYPE_MAP, WireType, WIRE_TYPE_SIZES
<1>9. ASSUME f.type = "bool"
      PROVE  /\ n = 1 /\ v \in {0, 1} /\ (IF v # 0 THEN 1 ELSE 0) = v
             /\ <<v>> = ScalarBytes(f, v, big)
             /\ bp_write(v, f.wire_type, big) = ScalarBytes(f, v, big)
  <2>1. f.wire_type = "uint8_t"
    BY <1>2, <1>8, <1>9 DEF Typed
  <2>2. n = 1
    BY <2>1 DEF SizeOf, WIRE_TYPE_SIZES
  <2>3. v \in {0, 1}
    BY <1>1, <1>9 DEF Ranged
  <2>4. v \in Byte
    BY <2>3, ByteBaseAssumption DEF Byte
  <2>5. NumBytes(v, 1, big) = <<v>> /\ ToUnsigned(v, 1) = v
    BY <2>4, OneNumber
  <2>6. ScalarBytes(f, v, big) = <<v>>
    BY <2>2, <2>5 DEF ScalarBytes
  <2>7. bp_write(v, f.wire_type, big) = <<v>>
    BY <2>2, <2>5, BpWriteIs DEF SizeOf
  <2>8. (IF v # 0 THEN 1 ELSE 0) = v
    BY <2>3
  <2>9. QED
    BY <2>2, <2>3, <2>6, <2>7, <2>8
<1>10. buffers_write(v, CType(f), big) = ScalarBytes(f, v, big)
  <2>1. CASE CType(f) = "bool"
    <3>1. f.type = "bool"
      BY <1>1, <1>8, <2>1 DEF CType
    <3>2. QED
      BY <1>9, <2>1, <3>1 DEF buffers_write, write_uint8_t
  <2>2. CASE CType(f) # "bool"
    BY <1>4, <1>6, <2>2 DEF buffers_write
  <2>3. QED
    BY <2>1, <2>2
<1>11. CsWrite(v, f, big) = ScalarBytes(f, v, big)
  <2>1. CASE f.type = "bool"
    BY <1>9, <2>1 DEF CsWrite
  <2>2. CASE f.type # "bool"
    BY <1>7, <2>2 DEF CsWrite, SizeOf
  <2>3. QED
    BY <2>1, <2>2
<1>12. QED
  BY <1>10, <1>11

\* A scalar is a leaf, and what is written of it are its bytes.
LEMMA ScalarItemWritten ==
    ASSUME NEW who \in {"C", "C#"}, NEW m \in AllItems(who), ~IsArray(m.f), ~IsStruct(m.f),
           NEW fixed \in BOOLEAN, NEW big
    PROVE  /\ m \in EndItems(who) /\ IsLeaf(m.f)
           /\ BytesFn(who, fixed, big)[m] = ScalarBytes(m.f, m.v, big)
<1>1. IsLeaf(m.f) /\ ~field_is_string(m.f)
  BY DEF IsLeaf, field_is_string
<1>2. m \in EndItems(who)
  BY <1>1 DEF EndItems, IsEnd
<1>3. LeafBytes(who, fixed, big, m) = ScalarBytes(m.f, m.v, big)
  BY <1>1 DEF LeafBytes
<1>4. QED
  BY <1>1, <1>2, <1>3 DEF BytesFn

\* The length before a string is a scalar.
LEMMA PrefixItem ==
    ASSUME NEW f \in SizedFields, field_is_string(f), NEW k \in Nat, k <= f.array_len, NEW big
    PROVE  /\ Item(Prefix(f), k) \in AllItems("C")
           /\ ScalarBytes(Prefix(f), k, big) = NumBytes(k, length_prefix_size(f.array_len), big)
<1> DEFINE p == Prefix(f)
           n == length_prefix_size(f.array_len)
           t == length_prefix_type(f.array_len)
<1>1. p \in Fields /\ ~IsArray(p) /\ ~IsStruct(p) /\ p.wire_type \notin ToSet(Signed)
      /\ p.wire_type \in WireType /\ SizeOf(p) = n /\ n \in Widths
  BY PrefixTypes
<1>2. k \in 0 .. Values(n) - 1
  BY PrefixHolds
<1>3. p.wire_type = t /\ p.type = t /\ SizeOf(p) = WIRE_TYPE_SIZES[t]
  BY DEF Prefix, Scalar, SizeOf
<1>4. n \in Nat
  BY <1>1, WidthsAreNat
<1>5. p \in SizedFields
  <2>1. ASSUME NEW fixed \in BOOLEAN
        PROVE  ItemSize(p, fixed) \in Nat
    <3>1. OneSize(p.wire_type, fixed) = n
      BY <1>1, <1>3 DEF OneSize
    <3>2. ~field_is_string(p) /\ n # Error
      BY <1>1, <1>4 DEF field_is_string, Error
    <3>3. ItemSize(p, fixed) = 1 * n + 0
      BY <1>1, <3>1, <3>2, Zenon DEF ItemSize, wire_size_of
    <3>4. QED
      BY <1>4, <3>3
  <2>2. QED
    BY <1>1, <2>1 DEF SizedFields
<1>6. k \in Least(t) .. Greatest(t)
  <2>1. t \notin ToSet(Signed) /\ WIRE_TYPE_SIZES[t] = n
    BY <1>1, <1>3
  <2>2. Least(t) = 0
    BY <2>1 DEF Least
  <2>3. Greatest(t) = 0 + Values(n) - 1
    BY <2>1, <2>2 DEF Greatest
  <2>4. QED
    BY <1>2, <1>4, <2>2, <2>3, ValuesType
<1>7. InRange("C", p, k)
  <2>1. t \notin {"char", "wchar_t", "bool"}
    BY <1>1, <1>3 DEF WireType, WIRE_TYPE_SIZES
  <2>2. Ranged("C", p, k)
    BY <1>3, <1>6, <2>1 DEF Ranged
  <2>3. QED
    BY <1>1, <2>2 DEF InRange
<1>8. k \in ValuesOf("C", p)
  BY <1>1 DEF ValuesOf, CValues
<1>9. Item(p, k) \in AllItems("C")
  BY <1>5, <1>7, <1>8, AllItemsFacts
<1>10. ToUnsigned(k, n) = k
  <2> HIDE DEF n
  <2>1. (k % Values(n)) = k
    BY <1>2, <1>4, LowNumber
  <2>2. QED
    BY <2>1 DEF ToUnsigned
<1>11. ScalarBytes(p, k, big) = NumBytes(k, n, big)
  BY <1>1, <1>10 DEF ScalarBytes
<1>12. QED
  BY <1>9, <1>11

\* The numbers that are written of code units.
Raws(f, v) == [i \in DOMAIN v |-> ToUnsigned(v[i], SizeOf(f))]

\* The elements of a string of C are scalars, and their bytes the string's.
LEMMA ElementsBytes ==
    ASSUME NEW f \in SizedFields, field_is_string(f), NEW fixed \in BOOLEAN, NEW big,
           NEW v \in Seq(Int)
    PROVE  /\ Elements(f, v) \in Seq(EndItems("C"))
           /\ BytesOf("C", fixed, big, Elements(f, v)) = Spread(NumOf(SizeOf(f), big), Raws(f, v))
<1> DEFINE e == Element(f)
           E == EndItems("C")
           items == Elements(f, v)
           g == BytesFn("C", fixed, big)
           h == NumOf(SizeOf(f), big)
           k == SizeOf(f)
<1>1. f \in Fields /\ ~IsStruct(f) /\ f.type \in {"char", "wchar_t"} /\ k \in {1, 2} /\ IsArray(f)
  BY StringTypes DEF SizedFields, field_is_string
<1>2. e \in SizedFields /\ ~IsArray(e) /\ ~IsStruct(e) /\ SizeOf(e) = k /\ e.type = f.type
  <2>1. e.type = f.type
    BY <1>1 DEF Element, Fields, AnyField
  <2>2. QED
    BY <1>1, <2>1, ElementTypes, SizedElement
<1>3. ASSUME NEW y \in Int
      PROVE  /\ Item(e, y) \in E
             /\ g[Item(e, y)] = NumBytes(ToUnsigned(y, k), k, big)
  <2> DEFINE m == Item(e, y)
  <2>1. m.f = e /\ m.v = y
    BY ItemIs
  <2>2. InRange("C", e, y)
    BY <1>1, <1>2 DEF InRange, Ranged
  <2>3. y \in ValuesOf("C", e)
    BY <1>2 DEF ValuesOf, CValues
  <2>4. m \in AllItems("C")
    BY <1>2, <2>2, <2>3, AllItemsFacts
  <2> HIDE DEF m
  <2>5. ~IsArray(m.f) /\ ~IsStruct(m.f)
    BY <1>2, <2>1
  <2>6. m \in E /\ g[m] = ScalarBytes(m.f, m.v, big)
    BY <2>4, <2>5, ScalarItemWritten
  <2>7. ScalarBytes(m.f, m.v, big) = NumBytes(ToUnsigned(y, k), k, big)
    BY <1>2, <2>1 DEF ScalarBytes
  <2>8. QED
    BY <2>6, <2>7 DEF m
<1>4. DOMAIN v = 1 .. Len(v) /\ Len(v) \in Nat /\ \A i \in DOMAIN v : v[i] \in Int
  BY LenProperties, ElementOfSeq
<1>5. items = [i \in 1 .. Len(v) |-> items[i]] /\ DOMAIN items = DOMAIN v
      /\ \A i \in DOMAIN v : items[i] = Item(e, v[i])
  BY <1>4 DEF Elements
<1>6. \A i \in 1 .. Len(v) : items[i] \in E
  BY <1>3, <1>4, <1>5
<1>7. items \in Seq(E)
  <2> DEFINE n == Len(v)
  <2>1. n \in Nat /\ items = [i \in 1 .. n |-> items[i]] /\ \A i \in 1 .. n : items[i] \in E
    BY <1>4, <1>5, <1>6
  <2> HIDE DEF n, items, E
  <2>2. QED
    BY <2>1, AsSequence
<1>8. ASSUME NEW i \in DOMAIN v
      PROVE  g[items[i]] = h[Raws(f, v)[i]]
  <2> DEFINE u == ToUnsigned(v[i], k)
  <2>1. g[items[i]] = NumBytes(u, k, big)
    BY <1>3, <1>4, <1>5
  <2>2. Raws(f, v)[i] = u
    BY DEF Raws
  <2>3. u \in Nat
    <3>1. u \in 0 .. Values(k) - 1 /\ u \in Int
      BY <1>1, <1>4, CastFacts
    <3>2. QED
      BY <3>1
  <2>4. h[u] = NumBytes(u, k, big)
    <3> HIDE DEF u
    <3>1. QED
      BY <2>3 DEF NumOf
  <2>5. QED
    BY <2>1, <2>2, <2>4
<1>9. DOMAIN Raws(f, v) = DOMAIN v
  BY DEF Raws
<1>10. [i \in DOMAIN items |-> g[items[i]]] = [i \in DOMAIN Raws(f, v) |-> h[Raws(f, v)[i]]]
  <2> HIDE DEF items, g, h
  <2>1. QED
    BY <1>5, <1>8, <1>9
<1>11. Spread(g, items) = Spread(h, Raws(f, v))
  BY <1>10 DEF Spread
<1>12. QED
  BY <1>7, <1>11 DEF BytesOf

\* The loop over a string of C in fixed mode writes the string's bytes.
LEMMA CArrayWritten ==
    ASSUME NEW m \in AllItems("C"), field_is_string(m.f), NEW fixed \in BOOLEAN, fixed = TRUE, NEW big
    PROVE  /\ Elements(m.f, m.v) \in Seq(EndItems("C"))
           /\ BytesOf("C", fixed, big, Elements(m.f, m.v)) = LeafBytes("C", fixed, big, m)
<1> DEFINE f == m.f
           v == m.v
           b == Spread(NumOf(SizeOf(f), big), Raws(f, v))
<1>1. f \in SizedFields /\ v \in Seq(Int)
  BY AllItemsFacts, StringValues DEF StringValue
<1>2. /\ Elements(f, v) \in Seq(EndItems("C"))
      /\ BytesOf("C", fixed, big, Elements(f, v)) = b
  BY <1>1, ElementsBytes
<1>3. RawOf("C", fixed, m) = Raws(f, v)
  BY DEF RawOf, Raws
<1>4. LeafBytes("C", fixed, big, m) = <<>> \o b
  BY <1>3 DEF LeafBytes, StringBytes
<1>5. Raws(f, v) \in Seq(Nat) /\ SizeOf(f) \in Nat
  <2>1. RawNumber("C", fixed, m)
    BY RawNumbers
  <2>2. Raws(f, v) \in Seq(Nat) /\ SizeOf(f) \in {1, 2}
    BY <1>3, <2>1 DEF RawNumber
  <2>3. QED
    BY <2>2
<1>6. b \in Seq(Byte)
  BY <1>5, NumsLength
<1>7. <<>> \o b = b
  BY <1>6, ConcatEmptySeq
<1>8. QED
  BY <1>2, <1>4, <1>7

\* A length and the loop over the text write the string's bytes in variable mode.
LEMMA CTextWritten ==
    ASSUME NEW m \in AllItems("C"), field_is_string(m.f), NEW fixed \in BOOLEAN, fixed = FALSE, NEW big
    PROVE  LET text == TextOf(m.v)
               items == <<Item(Prefix(m.f), Len(text))>> \o Elements(m.f, text)
           IN  /\ items \in Seq(EndItems("C"))
               /\ BytesOf("C", fixed, big, items) = LeafBytes("C", fixed, big, m)
<1> DEFINE f == m.f
           v == m.v
           text == TextOf(v)
           x == Item(Prefix(f), Len(text))
           rest == Elements(f, text)
           E == EndItems("C")
           g == BytesFn("C", fixed, big)
           a == NumBytes(Len(text), length_prefix_size(f.array_len), big)
           b == Spread(NumOf(SizeOf(f), big), Raws(f, text))
<1>1. f \in SizedFields /\ v \in Seq(Int) /\ Len(v) = f.array_len /\ f \in Fields
  BY AllItemsFacts, StringValues DEF StringValue
<1>2. text \in Seq(Int) /\ Len(text) \in Nat /\ Len(text) <= f.array_len
  BY <1>1, TextFacts
<1>3. rest \in Seq(E) /\ BytesOf("C", fixed, big, rest) = b
  BY <1>1, <1>2, ElementsBytes
<1>4. x \in AllItems("C") /\ ScalarBytes(Prefix(f), Len(text), big) = a
  <2> DEFINE k == Len(text)
  <2>1. k \in Nat /\ k <= f.array_len
    BY <1>2
  <2> HIDE DEF k
  <2>2. Item(Prefix(f), k) \in AllItems("C") /\ ScalarBytes(Prefix(f), k, big)
           = NumBytes(k, length_prefix_size(f.array_len), big)
    BY <1>1, <2>1, PrefixItem
  <2>3. QED
    BY <2>2 DEF k
<1>5. x.f = Prefix(f) /\ x.v = Len(text)
  BY ItemIs
<1>6. x \in E /\ g[x] = a
  <2>1. ~IsArray(x.f) /\ ~IsStruct(x.f)
    BY <1>5, PrefixTypes
  <2> HIDE DEF x
  <2>2. x \in E /\ g[x] = ScalarBytes(x.f, x.v, big)
    BY <1>4, <2>1, ScalarItemWritten
  <2>3. QED
    BY <1>4, <1>5, <2>2
<1>7. Raws(f, text) = RawOf("C", fixed, m)
  <2>1. \A i \in 1 .. Len(text) : text[i] = v[i]
    BY <1>1, TextElements
  <2>2. DOMAIN text = 1 .. Len(text)
    BY <1>2, LenProperties
  <2>3. RawOf("C", fixed, m) = [i \in DOMAIN text |-> ToUnsigned(v[i], SizeOf(f))]
    BY DEF RawOf, UnitsBy
  <2> HIDE DEF text
  <2>4. QED
    BY <2>1, <2>2, <2>3 DEF Raws
<1>8. Len(Raws(f, text)) = Len(text)
  <2>1. DOMAIN Raws(f, text) = DOMAIN text
    BY DEF Raws
  <2>2. Raws(f, text) \in Seq(Nat)
    BY <1>7, RawNumbers DEF RawNumber
  <2> HIDE DEF text
  <2>3. QED
    BY <1>2, <2>1, <2>2, LenProperties
<1>9. LeafBytes("C", fixed, big, m) = a \o b
  BY <1>7, <1>8 DEF LeafBytes, StringBytes
<1>10. Homomorphism(g, E, Byte)
  BY BytesFacts
<1>11. <<x>> \in Seq(E)
  BY <1>6
<1> HIDE DEF x, rest, E, g, a, b
<1>12. Spread(g, <<x>> \o rest) = Spread(g, <<x>>) \o Spread(g, rest)
  BY <1>3, <1>10, <1>11 DEF Homomorphism
<1>13. Spread(g, <<x>>) = a
  BY <1>6, <1>10 DEF Homomorphism
<1>14. Spread(g, rest) = b
  BY <1>3 DEF BytesOf, g
<1>15. <<x>> \o rest \in Seq(E)
  BY <1>3, <1>11, Concatenated
<1>16. BytesOf("C", fixed, big, <<x>> \o rest) = a \o b
  BY <1>12, <1>13, <1>14 DEF BytesOf, g
<1>17. QED
  BY <1>9, <1>15, <1>16 DEF x, rest, E

\* The code units that C# writes of a string are numbers of two bytes.
LEMMA UnitsWritten ==
    ASSUME NEW v \in Seq(Nat), NEW n \in Nat
    PROVE  UnitBytes(v, n) = Spread(NumOf(2, big_endian), Cut(v, n))
<1> DEFINE s == Cut(v, n)
           h == NumOf(2, big_endian)
<1>1. s \in Seq(Nat) /\ \A i \in 1 .. Len(s) : s[i] = v[i]
  BY CutFacts, CutElements
<1>2. DOMAIN s = 1 .. Len(s) /\ \A i \in 1 .. Len(s) : s[i] \in Nat
  BY <1>1, LenProperties, ElementOfSeq
<1>3. WIRE_TYPE_SIZES["int16_t"] = 2
  BY DEF WIRE_TYPE_SIZES
<1>4. \A i \in 1 .. Len(s) : bp_write(v[i], "int16_t", big_endian) = h[s[i]]
  BY <1>1, <1>2, <1>3, BpWriteIs DEF NumOf
<1>5. UnitBytes(v, n) = FlattenSeq([i \in 1 .. Len(s) |-> bp_write(v[i], "int16_t", big_endian)])
  BY DEF UnitBytes
<1> HIDE DEF s, h
<1>6. [i \in 1 .. Len(s) |-> bp_write(v[i], "int16_t", big_endian)] = [i \in DOMAIN s |-> h[s[i]]]
  BY <1>2, <1>4
<1>7. QED
  BY <1>5, <1>6 DEF Spread, s, h

\* What is filled up begins with what there is.
LEMMA Beginning ==
    ASSUME NEW S, NEW s \in Seq(S), NEW n \in Nat, Len(s) <= n
    PROVE  PaddedWith(0, s, n) = s \o Zeros(n - Len(s))
<1>1. Cut(s, n) = s
  BY CutElements
<1>2. QED
  BY <1>1 DEF PaddedWith, Zeros

\* What the emitted C# encodes of a string.
Encoded(m) == IF is_char_array(m.f) THEN GetBytes(Fitting(m.v, m.f.array_len))
                                    ELSE UnitBytes(m.v, m.f.array_len)
CsUnit(m) == UnitsBy("C#", m)
AreUnits(m) ==
    /\ CsUnit(m) \in Seq(Nat) /\ Len(CsUnit(m)) \in Nat /\ Len(CsUnit(m)) <= m.f.array_len
    /\ Encoded(m) = Spread(NumOf(SizeOf(m.f), big_endian), CsUnit(m))

\* A string of C# is written as numbers.
LEMMA UnitsAreNumbers ==
    ASSUME NEW m \in AllItems("C#"), field_is_string(m.f)
    PROVE  AreUnits(m)
<1> DEFINE f == m.f
           v == m.v
           n == f.array_len
<1>1. v \in Seq(Nat) /\ n \in Nat /\ f \in Fields
  BY AllItemsFacts, StringValues, StringTypes DEF StringValue
<1>2. PICK fixed \in BOOLEAN : fixed = FALSE
  OBVIOUS
<1>3. RawNumber("C#", fixed, m)
  BY RawNumbers
<1>4. RawOf("C#", fixed, m) = CsUnit(m)
  BY <1>2 DEF RawOf, CsUnit
<1>5. CsUnit(m) \in Seq(Nat) /\ Len(CsUnit(m)) \in Nat /\ Len(CsUnit(m)) <= n
  BY <1>3, <1>4 DEF RawNumber
<1>6. CASE is_char_array(f)
  <2>1. SizeOf(f) = 1
    BY <1>1, <1>6, StringTypes
  <2>2. Encoded(m) = GetBytes(Fitting(v, n)) /\ CsUnit(m) = GetBytes(Fitting(v, n))
    BY <1>6 DEF Encoded, CsUnit, UnitsBy
  <2> DEFINE s == GetBytes(Fitting(v, n))
  <2>3. s \in Seq(Byte)
    BY <1>1, FittingFacts, GetBytesFacts DEF Bytes
  <2> HIDE DEF s
  <2>4. Spread(NumOf(1, big_endian), s) = s
    BY <2>3, NumsOfBytes
  <2>5. QED
    BY <1>5, <2>1, <2>2, <2>4 DEF AreUnits, s
<1>7. CASE ~is_char_array(f)
  <2>1. SizeOf(f) = 2
    BY <1>1, <1>7, StringTypes
  <2>2. Encoded(m) = UnitBytes(v, n) /\ CsUnit(m) = Cut(v, n)
    BY <1>7 DEF Encoded, CsUnit, UnitsBy
  <2>3. UnitBytes(v, n) = Spread(NumOf(2, big_endian), Cut(v, n))
    BY <1>1, UnitsWritten
  <2>4. QED
    BY <1>5, <2>1, <2>2, <2>3 DEF AreUnits
<1>8. QED
  BY <1>6, <1>7

\* What the emitted C# writes of a string are the string's bytes.
LEMMA CsFixedWritten ==
    ASSUME NEW m \in AllItems("C#"), field_is_string(m.f), NEW fixed \in BOOLEAN, fixed = TRUE
    PROVE  PaddedWith(0, Encoded(m), m.f.array_len * SizeOf(m.f))
              = LeafBytes("C#", fixed, big_endian, m)
<1> DEFINE f == m.f
           n == f.array_len
           k == SizeOf(f)
           u == CsUnit(m)
           h == NumOf(k, big_endian)
           lo == Spread(h, u)
           raw == RawOf("C#", fixed, m)
<1>1. u \in Seq(Nat) /\ Len(u) \in Nat /\ Len(u) <= n /\ Encoded(m) = lo
  BY UnitsAreNumbers DEF AreUnits
<1>2. n \in Nat /\ k \in {1, 2} /\ k \in Nat
  <2>1. RawNumber("C#", fixed, m)
    BY RawNumbers
  <2>2. QED
    BY <2>1 DEF RawNumber
<1>3. raw = PaddedWith(0, u, n)
  BY DEF RawOf, CsUnit
<1>4. LeafBytes("C#", fixed, big_endian, m) = <<>> \o Spread(h, raw)
  BY DEF LeafBytes, StringBytes
<1> DEFINE d == n - Len(u)
           N == n * k
           L == Len(u) * k
           D == d * k
<1>5. d \in Nat
  BY <1>1, <1>2
<1>6. raw = u \o Zeros(d)
  <2>1. PaddedWith(0, u, n) = u \o Zeros(n - Len(u))
    <3> HIDE DEF u, n
    <3>1. QED
      BY <1>1, <1>2, Beginning
  <2>2. QED
    BY <1>3, <2>1
<1>7. lo \in Seq(Byte) /\ Len(lo) = L
  <2> HIDE DEF u, k
  <2>1. QED
    BY <1>1, <1>2, NumsLength DEF k
<1>8. N \in Nat /\ L \in Nat /\ D \in Nat /\ L <= N /\ N - L = D
  BY <1>1, <1>2, <1>5, SMTT(30)
<1>9. Zeros(d) \in Seq(Nat)
  <2>1. Zeros(d) \in Seq(Byte) /\ Byte \subseteq Nat
    BY <1>5, ZerosFacts DEF Byte
  <2>2. Seq(Byte) \subseteq Seq(Nat)
    BY <2>1, SeqMonotonic
  <2>3. QED
    BY <2>1, <2>2
<1>10. Homomorphism(h, Nat, Byte)
  BY <1>2, NumsJoin
<1>11. Spread(h, Zeros(d)) = Zeros(D)
  <2> HIDE DEF d, k
  <2>1. QED
    BY <1>2, <1>5, ZerosSpread DEF h, D
<1> HIDE DEF h, u, d, N, L, D, lo, raw
<1>12. Spread(h, u \o Zeros(d)) = lo \o Zeros(D)
  BY <1>1, <1>9, <1>10, <1>11 DEF Homomorphism, lo
<1>13. PaddedWith(0, lo, N) = lo \o Zeros(N - Len(lo))
  BY <1>7, <1>8, Beginning
<1>14. Zeros(D) \in Seq(Byte)
  BY <1>8, ZerosFacts
<1>15. lo \o Zeros(D) \in Seq(Byte)
  BY <1>7, <1>14, Concatenated
<1> DEFINE b == lo \o Zeros(D)
<1> HIDE DEF b
<1>16. <<>> \o b = b
  BY <1>15, ConcatEmptySeq DEF b
<1>17. QED
  BY <1>1, <1>4, <1>6, <1>7, <1>8, <1>12, <1>13, <1>16 DEF b, N

\* What is written of a string in variable mode, and how many units its length says.
CsWhole(m) == IF is_char_array(m.f) THEN GetBytes(m.v) ELSE UnitBytes(m.v, m.f.array_len)
CsCount(m) == IF is_char_array(m.f) THEN Min({Len(CsWhole(m)), m.f.array_len})
                                    ELSE Len(CsWhole(m)) \div 2
CsTooLong(m) == is_char_array(m.f) /\ Len(CsWhole(m)) > m.f.array_len

\* The length and the encoding that C# writes in variable mode are the string's bytes.
LEMMA CsTextWritten ==
    ASSUME NEW m \in AllItems("C#"), field_is_string(m.f), NEW fixed \in BOOLEAN, fixed = FALSE,
           ~CsTooLong(m), big_endian \in BOOLEAN
    PROVE  bp_write(CsCount(m), Prefix(m.f).wire_type, big_endian) \o CsWhole(m)
              = LeafBytes("C#", fixed, big_endian, m)
<1> DEFINE f == m.f
           v == m.v
           n == f.array_len
           k == SizeOf(f)
           u == CsUnit(m)
           lps == length_prefix_size(n)
<1>1. u \in Seq(Nat) /\ Len(u) \in Nat /\ Len(u) <= n /\ Encoded(m) = Spread(NumOf(k, big_endian), u)
  BY UnitsAreNumbers DEF AreUnits
<1>2. v \in Seq(Nat) /\ n \in Nat /\ f \in Fields
  BY AllItemsFacts, StringValues, StringTypes DEF StringValue
<1>3. RawOf("C#", fixed, m) = u
  BY DEF RawOf, CsUnit
<1>4. LeafBytes("C#", fixed, big_endian, m) = NumBytes(Len(u), lps, big_endian) \o Encoded(m)
  BY <1>1, <1>3 DEF LeafBytes, StringBytes
<1>5. CsWhole(m) = Encoded(m) /\ CsCount(m) = Len(u)
  <2>1. CASE is_char_array(f)
    <3>1. GetBytes(v) \in Seq(Byte)
      BY <1>2, GetBytesFacts DEF Bytes
    <3>2. CsWhole(m) = GetBytes(v)
      BY <2>1 DEF CsWhole
    <3>3. Len(GetBytes(v)) \in Nat
      BY <3>1, LenProperties
    <3>4. Len(GetBytes(v)) <= n
      BY <1>2, <2>1, <3>2, <3>3 DEF CsTooLong
    <3>5. Fitting(v, n) = v
      BY <1>2, <3>4, FittingFits
    <3>6. Encoded(m) = GetBytes(v) /\ u = GetBytes(v)
      BY <2>1, <3>5 DEF Encoded, CsUnit, UnitsBy
    <3>7. CsCount(m) = Min({Len(u), n})
      BY <2>1, <3>2, <3>6 DEF CsCount
    <3> DEFINE l == Len(u)
    <3>8. Min({l, n}) = l
      <4>1. l \in Int /\ n \in Int /\ l <= n
        BY <1>1, <1>2
      <4> HIDE DEF l, n
      <4>2. Min({l, n}) \in {l, n} /\ Min({l, n}) <= l /\ Min({l, n}) <= n
        BY <4>1, MinOfTwo
      <4>3. QED
        BY <4>1, <4>2
    <3> HIDE DEF u
    <3>9. QED
      BY <3>2, <3>6, <3>7, <3>8
  <2>2. CASE ~is_char_array(f)
    <3>1. CsWhole(m) = Encoded(m) /\ CsWhole(m) = UnitBytes(v, n) /\ u = Cut(v, n)
      BY <2>2 DEF CsWhole, Encoded, CsUnit, UnitsBy
    <3>2. Len(UnitBytes(v, n)) = 2 * Len(Cut(v, n))
      BY <1>2, UnitBytesFacts
    <3>3. CsCount(m) = Len(CsWhole(m)) \div 2
      BY <2>2 DEF CsCount
    <3> HIDE DEF u
    <3>4. (2 * Len(u)) \div 2 = Len(u)
      BY <1>1
    <3>5. QED
      BY <3>1, <3>2, <3>3, <3>4
  <2>3. QED
    BY <2>1, <2>2
<1>6. bp_write(Len(u), Prefix(f).wire_type, big_endian) = NumBytes(Len(u), lps, big_endian)
  <2>1. WIRE_TYPE_SIZES[Prefix(f).wire_type] = lps
    BY PrefixTypes DEF SizeOf
  <2>2. QED
    BY <2>1, BpWriteIs
<1>7. QED
  BY <1>4, <1>5, <1>6

-----------------------------------------------------------------------------
(* Sizes, and the bytes of cleared slots. *)

\* A field is as large as what it consists of.
LEMMA ContentSized ==
    ASSUME NEW f \in SizedFields, ~IsLeaf(f), NEW fixed \in BOOLEAN
    PROVE  Total([i \in DOMAIN Content(f) |-> ItemSize(Content(f)[i], fixed)]) = ItemSize(f, fixed)
<1> DEFINE c == Content(f)
           sizes == [i \in DOMAIN c |-> ItemSize(c[i], fixed)]
           one == OneSize(f.wire_type, fixed)
<1>1. f \in Fields /\ ItemSize(f, fixed) \in Nat /\ ~field_is_string(f)
  BY DEF SizedFields, IsLeaf
<1>2. /\ one \in Nat
      /\ ItemSize(f, fixed) = (IF IsArray(f) THEN f.array_len ELSE 1) * one + 0
      /\ ItemSize(Element(f), fixed) = one
      /\ IsStruct(f) => one = MaxSize(f.wire_type, fixed)
  BY <1>1, FieldSized
<1>3. CASE IsArray(f)
  <2> DEFINE n == f.array_len
  <2>1. n \in Nat /\ c = [i \in 1 .. n |-> Element(f)]
    BY <1>1, <1>3, FieldTypes DEF Content
  <2>2. sizes = [i \in 1 .. n |-> sizes[i]] /\ \A i \in 1 .. n : sizes[i] = one
    BY <1>2, <2>1
  <2> HIDE DEF n, sizes, one, c
  <2>3. \A i \in 1 .. n : sizes[i] \in Nat
    BY <1>2, <2>2
  <2>4. sizes \in Seq(Nat) /\ Len(sizes) = n
    BY <2>1, <2>2, <2>3, AsSequence
  <2>5. Total(sizes) = Len(sizes) * one
    BY <1>2, <2>2, <2>4, TotalOfEqual
  <2>6. ItemSize(f, fixed) = n * one + 0
    BY <1>2, <1>3 DEF n
  <2>7. n * one + 0 = n * one
    BY <1>2, <2>1
  <2>8. QED
    BY <2>4, <2>5, <2>6, <2>7 DEF sizes, c
<1>4. CASE ~IsArray(f)
  <2>1. IsStruct(f) /\ f.wire_type \in DOMAIN Structs
    BY <1>1, <1>4, FieldTypes DEF IsLeaf
  <2>2. c = Structs[f.wire_type]
    BY <1>4 DEF Content
  <2>3. MaxSize(f.wire_type, fixed) = Total(sizes)
    BY <2>1, <2>2, MaxSizeIs
  <2>4. ItemSize(f, fixed) = 1 * one + 0
    BY <1>2, <1>4
  <2> HIDE DEF sizes, c, one
  <2>5. ItemSize(f, fixed) = one
    BY <1>2, <2>4
  <2>6. QED
    BY <1>2, <2>1, <2>3, <2>5 DEF sizes, c
<1>5. QED
  BY <1>3, <1>4

\* The sizes of items, whatever is in them.
SizesOf(who, fixed) == [x \in AllItems(who) |-> ItemSize(x.f, fixed)]

\* The sizes of items are numbers.
LEMMA SizesType ==
    ASSUME NEW who, NEW fixed \in BOOLEAN
    PROVE  SizesOf(who, fixed) \in [AllItems(who) -> Nat]
<1>1. \A x \in AllItems(who) : ItemSize(x.f, fixed) \in Nat
  BY AllItemsFacts DEF SizedFields
<1>2. QED
  BY <1>1 DEF SizesOf

\* An item is as large as its parts.
LEMMA PartsSized ==
    ASSUME NEW who \in {"C", "C#"}, NEW fixed \in BOOLEAN, NEW x \in AllItems(who)
    PROVE  SumOf(SizesOf(who, fixed), Parts(who, x)) = SizesOf(who, fixed)[x]
<1> DEFINE h == SizesOf(who, fixed)
           A == AllItems(who)
           items == Parts(who, x)
<1>1. h \in [A -> Nat] /\ Additive(h, A)
  BY SizesType, SumFacts
<1>2. PartsOk(who, x)
  BY PartsFacts
<1>3. CASE IsEnd(who, x)
  <2>1. items = <<x>>
    BY <1>2, <1>3 DEF PartsOk
  <2>2. QED
    BY <1>1, <2>1 DEF Additive
<1>4. CASE ~IsEnd(who, x)
  <2>1. items \in Seq(A) /\ FieldsIn(items) = Content(x.f)
    BY <1>2, <1>4 DEF PartsOk, TakenApart
  <2>2. ~IsLeaf(x.f) /\ x.f \in SizedFields
    BY <1>4, AllItemsFacts DEF IsEnd
  <2> DEFINE c == Content(x.f)
  <2> HIDE DEF items, c
  <2>3. DOMAIN items = DOMAIN c /\ \A i \in DOMAIN items : items[i].f = c[i]
    BY <2>1 DEF FieldsIn, c
  <2>4. \A i \in DOMAIN items : items[i] \in A
    BY <2>1, ElementOfSeq, LenProperties
  <2>5. \A i \in DOMAIN items : h[items[i]] = ItemSize(c[i], fixed)
    BY <2>3, <2>4 DEF SizesOf
  <2> HIDE DEF h
  <2>6. [i \in DOMAIN items |-> h[items[i]]] = [i \in DOMAIN c |-> ItemSize(c[i], fixed)]
    BY <2>3, <2>5
  <2>7. Total([i \in DOMAIN c |-> ItemSize(c[i], fixed)]) = ItemSize(x.f, fixed)
    BY <2>2, ContentSized DEF c
  <2>8. QED
    BY <2>6, <2>7 DEF SumOf, h, items, SizesOf
<1>5. QED
  BY <1>3, <1>4

\* Items are as large as their leaves.
LEMMA LeavesSized ==
    ASSUME NEW who \in {"C", "C#"}, NEW fixed \in BOOLEAN
    PROVE  \A s \in Seq(AllItems(who)) :
              SumOf(SizesOf(who, fixed), Leaves(who, s)) = SumOf(SizesOf(who, fixed), s)
<1> DEFINE h == SizesOf(who, fixed)
<1>1. h \in [AllItems(who) -> Nat]
  BY SizesType
<1>2. \A x \in AllItems(who) : SumOf(h, Parts(who, x)) = h[x]
  BY PartsSized
<1> HIDE DEF h
<1>3. \A s \in Seq(AllItems(who)) : SumOf(h, Leaves(who, s)) = SumOf(h, s)
  BY <1>1, <1>2, LeavesSum
<1>4. QED
  BY <1>3 DEF h

\* Leaves that have as many bytes as there is room for.
FullLeaves(who, fixed) ==
    {m \in EndItems(who) : IsLeaf(m.f) /\ (field_is_string(m.f) => fixed = TRUE)}

\* A scalar, and a string in fixed mode, has exactly as many bytes as its size.
LEMMA FullLength ==
    ASSUME NEW who \in {"C", "C#"}, NEW fixed \in BOOLEAN, NEW big, NEW m \in FullLeaves(who, fixed)
    PROVE  Len(BytesFn(who, fixed, big)[m]) = ItemSize(m.f, fixed)
<1> DEFINE f == m.f
<1>1. m \in EndItems(who) /\ m \in AllItems(who) /\ IsLeaf(f) /\ (field_is_string(f) => fixed = TRUE)
  BY DEF FullLeaves, EndItems
<1>2. f \in Fields /\ ItemSize(f, fixed) \in Nat
  BY <1>1, AllItemsFacts DEF SizedFields
<1>3. Len(BytesFn(who, fixed, big)[m]) = LeafSize(who, fixed, m)
  BY <1>1, LeafFacts DEF BytesFn
<1>4. CASE field_is_string(f)
  <2>1. fixed = TRUE
    BY <1>1, <1>4
  <2>2. ItemSize(f, fixed) = f.array_len * SizeOf(f) + 0
    BY <1>2, <1>4, <2>1, StringSized
  <2>3. RawNumber(who, fixed, m) /\ RawOk(who, fixed, m)
    BY <1>1, <1>4, RawNumbers, RawFacts
  <2>4. Len(RawOf(who, fixed, m)) = f.array_len
    BY <2>1, <2>3 DEF RawOk
  <2>5. LeafSize(who, fixed, m) = 0 + f.array_len * SizeOf(f)
    BY <1>4, <2>1, <2>4 DEF LeafSize, PrefixOf
  <2>6. f.array_len \in Nat /\ SizeOf(f) \in {1, 2}
    BY <2>3 DEF RawNumber
  <2>7. f.array_len * SizeOf(f) \in Nat
    BY <2>6
  <2>8. QED
    BY <1>3, <2>2, <2>5, <2>7
<1>5. CASE ~field_is_string(f)
  <2>1. ~IsArray(f) /\ ~IsStruct(f)
    BY <1>1, <1>5 DEF IsLeaf
  <2>2. ItemSize(f, fixed) = 1 * SizeOf(f) + 0 /\ SizeOf(f) \in Nat
    BY <1>2, <1>5, <2>1, FieldSized
  <2>3. LeafSize(who, fixed, m) = SizeOf(f)
    BY <1>5 DEF LeafSize
  <2>4. QED
    BY <1>3, <2>2, <2>3
<1>6. QED
  BY <1>4, <1>5

\* If all the leaves are full, there are as many bytes as the items are large.
LEMMA FullBytes ==
    ASSUME NEW who \in {"C", "C#"}, NEW fixed \in BOOLEAN, NEW big, NEW s \in Seq(AllItems(who)),
           Leaves(who, s) \in Seq(FullLeaves(who, fixed))
    PROVE  Len(BytesOf(who, fixed, big, Leaves(who, s))) = SumOf(SizesOf(who, fixed), s)
<1> DEFINE E == EndItems(who)
           F == FullLeaves(who, fixed)
           g == BytesFn(who, fixed, big)
           h == [x \in E |-> ItemSize(x.f, fixed)]
           l == Leaves(who, s)
<1>1. F \in SUBSET E
  BY DEF FullLeaves
<1>2. \A m \in E : (IF IsLeaf(m.f) THEN LeafBytes(who, fixed, big, m) ELSE <<>>) \in Seq(Byte)
  BY LeafFacts DEF EndItems
<1>3. g \in [E -> Seq(Byte)]
  BY <1>2 DEF BytesFn
<1>4. h \in [E -> Nat]
  BY SizesType, AllItemsFacts DEF EndItems, SizedFields
<1>5. \A m \in F : Len(g[m]) = h[m]
  BY <1>1, FullLength
<1>6. LengthsSum(E, g)
  <2> HIDE DEF E, g
  <2>1. QED
    BY <1>3, SpreadLength
<1>7. Len(Spread(g, l)) = SumOf(h, l)
  <2> HIDE DEF E, F, g, h, l
  <2>1. l \in Seq(F)
    BY DEF l, F
  <2>2. QED
    BY <1>1, <1>4, <1>5, <1>6, <2>1 DEF LengthsSum
<1>8. SumOf(h, l) = SumOf(SizesOf(who, fixed), l)
  <2>1. l \in Seq(F)
    OBVIOUS
  <2> HIDE DEF l, F
  <2>2. \A i \in DOMAIN l : l[i] \in F
    BY <2>1, ElementOfSeq, LenProperties
  <2>3. \A i \in DOMAIN l : h[l[i]] = SizesOf(who, fixed)[l[i]]
    BY <1>1, <2>2 DEF SizesOf, EndItems
  <2> HIDE DEF h
  <2>4. [i \in DOMAIN l |-> h[l[i]]] = [i \in DOMAIN l |-> SizesOf(who, fixed)[l[i]]]
    BY <2>3
  <2>5. QED
    BY <2>4 DEF SumOf
<1>9. SumOf(SizesOf(who, fixed), l) = SumOf(SizesOf(who, fixed), s)
  BY LeavesSized
<1>10. QED
  BY <1>7, <1>8, <1>9 DEF BytesOf

\* A string of nothing has no units.
LEMMA NoText ==
    ASSUME NEW m \in AllItems("C#"), field_is_string(m.f), m.v = <<>>, NEW fixed \in BOOLEAN, fixed = TRUE
    PROVE  RawOf("C#", fixed, m) = Zeros(m.f.array_len) /\ m.f.array_len \in Nat
<1> DEFINE f == m.f
           n == f.array_len
           u == UnitsBy("C#", m)
<1>1. n \in Nat
  BY AllItemsFacts, StringTypes
<1>2. Cut(<<>>, n) = <<>>
  <2>1. <<>> \in Seq(Nat) /\ Len(<<>>) <= n
    BY <1>1
  <2> HIDE DEF n
  <2>2. QED
    BY <1>1, <2>1, CutElements
<1>3. GetBytes(<<>>) = <<>>
  <2>1. [i \in DOMAIN <<>> |-> IF <<>>[i] < Wide THEN <<(<<>>[i])>> ELSE <<Lead, Wide>>] = <<>>
    OBVIOUS
  <2>2. QED
    BY <2>1, FlatNone, Zenon DEF GetBytes
<1>4. Fitting(<<>>, n) = <<>>
  <2>1. <<>> \in Seq(Nat) /\ Len(GetBytes(<<>>)) <= n
    BY <1>1, <1>3
  <2> HIDE DEF n
  <2>2. QED
    BY <1>1, <2>1, FittingFits
<1>5. u = <<>>
  BY <1>2, <1>3, <1>4 DEF UnitsBy
<1>6. PaddedWith(0, <<>>, n) = <<>> \o Zeros(n - Len(<<>>))
  <2>1. <<>> \in Seq(Nat) /\ Len(<<>>) <= n
    BY <1>1
  <2> HIDE DEF n
  <2>2. QED
    BY <1>1, <2>1, Beginning
<1>7. n - Len(<<>>) = n
  BY <1>1
<1>8. Zeros(n) \in Seq(Byte)
  <2> HIDE DEF n
  <2>1. QED
    BY <1>1, ZerosFacts
<1>9. <<>> \o Zeros(n) = Zeros(n)
  BY <1>8, ConcatEmptySeq
<1>10. RawOf("C#", fixed, m) = PaddedWith(0, u, n)
  BY DEF RawOf
<1>11. QED
  BY <1>1, <1>5, <1>6, <1>7, <1>9, <1>10

\* The items that stand for no element of a list.
Filled == {x \in AllItems("C#") : x.fill = TRUE}

\* What is in such a slot is filled too.
LEMMA LevelsFilled ==
    ASSUME NEW items \in Seq(Filled), NEW level, Leveled("C#", items, level)
    PROVE  \A n \in Nat : level[n] \in Seq(Filled)
<1> DEFINE A == AllItems("C#")
           F == Filled
           g == PartsOf("C#")
           T == {n \in Nat : level[n] \in Seq(F)}
<1>1. g \in [A -> Seq(A)] /\ \A x \in A : g[x] = Parts("C#", x)
  BY PartsOfType
<1>2. F \in SUBSET A
  BY DEF Filled
<1>3. ASSUME NEW x \in F
      PROVE  g[x] \in Seq(F)
  <2> DEFINE p == Parts("C#", x)
  <2>1. x \in A /\ x.fill = TRUE /\ PartsOk("C#", x) /\ g[x] = p
    BY <1>1, PartsFacts DEF Filled
  <2>2. CASE IsEnd("C#", x)
    <3>1. p = <<x>>
      BY <2>1, <2>2 DEF PartsOk
    <3> HIDE DEF F, p, g
    <3>2. <<x>> \in Seq(F)
      OBVIOUS
    <3>3. QED
      BY <2>1, <3>1, <3>2
  <2>3. CASE ~IsEnd("C#", x)
    <3>1. p \in Seq(A) /\ \A i \in 1 .. Len(p) : p[i].fill = TRUE
      BY <2>1, <2>3 DEF PartsOk, TakenApart
    <3>2. \A i \in 1 .. Len(p) : p[i] \in F
      BY <3>1, ElementOfSeq DEF Filled
    <3> DEFINE n == Len(p)
    <3>3. n \in Nat /\ p = [i \in 1 .. n |-> p[i]]
      BY <3>1, LenProperties
    <3> HIDE DEF p, n, F
    <3>4. \A i \in 1 .. n : p[i] \in F
      BY <3>2 DEF n
    <3>5. p \in Seq(F)
      BY <3>3, <3>4, AsSequence
    <3>6. QED
      BY <2>1, <3>5 DEF p
  <2>4. QED
    BY <2>2, <2>3
<1>4. 0 \in T
  BY DEF Leveled
<1>5. ASSUME NEW n \in T, n \in Nat
      PROVE  n + 1 \in T
  <2>1. level[n + 1] = Spread(g, level[n]) /\ level[n] \in Seq(F)
    BY <1>5 DEF Leveled
  <2> HIDE DEF F, g, A
  <2>2. \A s \in Seq(F) : Spread(g, s) \in Seq(F)
    BY <1>1, <1>2, <1>3, SpreadWithin
  <2>3. level[n + 1] \in Seq(F)
    BY <2>1, <2>2
  <2>4. QED
    BY <1>5, <2>3
<1>6. Nat \subseteq T
  <2> HIDE DEF T
  <2>1. QED
    BY <1>4, <1>5, Induction
<1>7. QED
  BY <1>6

\* The leaves of a cleared slot are cleared.
LEMMA FilledLeaves ==
    ASSUME NEW x \in Filled
    PROVE  Leaves("C#", <<x>>) \in Seq(Filled)
<1>1. <<x>> \in Seq(Filled) /\ <<x>> \in Seq(AllItems("C#"))
  BY DEF Filled
<1> DEFINE s == <<x>>
           level == Expanded("C#", s)
<1>2. Leveled("C#", s, level)
  <2> HIDE DEF s
  <2>1. QED
    BY <1>1, Levels DEF s
<1>3. Depth \in Nat
  BY StructsAssumption, FS_CardinalityType DEF Depth, Parsed
<1>4. level[Depth] \in Seq(Filled)
  <2> HIDE DEF s, level
  <2>1. QED
    BY <1>1, <1>2, <1>3, LevelsFilled DEF s
<1>5. QED
  BY <1>4 DEF Leaves

\* The bytes of what is filled are zeros.
LEMMA ZeroLeaf ==
    ASSUME NEW fixed \in BOOLEAN, NEW big, NEW m \in FullLeaves("C#", fixed), m.fill = TRUE
    PROVE  BytesFn("C#", fixed, big)[m] \in Seq({0})
<1> DEFINE f == m.f
<1>1. m \in EndItems("C#") /\ m \in AllItems("C#") /\ IsLeaf(f) /\ (field_is_string(f) => fixed = TRUE)
  BY DEF FullLeaves, EndItems
<1>2. m.v = Void(f)
  BY <1>1, AllItemsFacts DEF ProperItem
<1>3. BytesFn("C#", fixed, big)[m] = LeafBytes("C#", fixed, big, m)
  BY <1>1 DEF BytesFn
<1>4. \A n \in Nat : Zeros(n) \in Seq({0})
  BY DEF Zeros
<1>5. CASE field_is_string(f)
  <2> DEFINE n == f.array_len
             k == SizeOf(f)
             z == Spread(NumOf(k, big), Zeros(n))
  <2>1. m.v = <<>> /\ fixed = TRUE
    BY <1>1, <1>2, <1>5 DEF Void, field_is_string
  <2>2. RawOf("C#", fixed, m) = Zeros(n) /\ n \in Nat
    BY <1>1, <1>5, <2>1, NoText
  <2>3. LeafBytes("C#", fixed, big, m) = <<>> \o z
    BY <1>5, <2>1, <2>2 DEF LeafBytes, StringBytes
  <2>4. RawNumber("C#", fixed, m)
    BY <1>1, <1>5, RawNumbers
  <2>5. k \in Nat
    <3>1. k \in {1, 2}
      BY <2>4 DEF RawNumber
    <3>2. QED
      BY <3>1
  <2>6. z = Zeros(n * k) /\ n * k \in Nat
    <3> HIDE DEF n, k
    <3>1. n * k \in Nat
      BY <2>2, <2>5
    <3>2. z = Zeros(n * k)
      BY <2>2, <2>5, ZerosSpread
    <3>3. QED
      BY <3>1, <3>2
  <2> HIDE DEF z, n, k
  <2>7. z \in Seq({0})
    BY <1>4, <2>6
  <2>8. <<>> \o z = z
    BY <2>7, ConcatEmptySeq
  <2>9. QED
    BY <1>3, <2>3, <2>7, <2>8
<1>6. CASE ~field_is_string(f)
  <2> DEFINE n == SizeOf(f)
  <2>1. ~IsArray(f) /\ ~IsStruct(f)
    BY <1>1, <1>6 DEF IsLeaf
  <2>2. m.v = 0
    BY <1>2, <2>1 DEF Void
  <2>3. n \in Nat
    BY <1>1, <2>1, ScalarValue, WidthsAreNat
  <2>4. ToUnsigned(0, n) = 0
    <3> HIDE DEF n
    <3>1. 0 \in 0 .. Values(n) - 1
      BY <2>3, ValuesType
    <3>2. (0 % Values(n)) = 0
      BY <2>3, <3>1, LowNumber
    <3>3. QED
      BY <3>2 DEF ToUnsigned
  <2>5. LeafBytes("C#", fixed, big, m) = NumBytes(0, n, big)
    BY <1>6, <2>2, <2>4 DEF LeafBytes, ScalarBytes
  <2> HIDE DEF n
  <2>6. NumBytes(0, n, big) = Zeros(n)
    BY <2>3, ZerosSpread
  <2>7. QED
    BY <1>3, <1>4, <2>3, <2>5, <2>6
<1>7. QED
  BY <1>5, <1>6

\* A cleared slot is as large as its struct, and what it consists of has as many bytes.
LEMMA FillBytes ==
    ASSUME NEW fixed \in BOOLEAN, NEW big, NEW x \in AllItems("C#"), x.fill = TRUE,
           \A i \in DOMAIN Leaves("C#", <<x>>) :
               field_is_string(Leaves("C#", <<x>>)[i].f) => fixed = TRUE
    PROVE  /\ BytesOf("C#", fixed, big, Leaves("C#", <<x>>)) = Zeros(ItemSize(x.f, fixed))
           /\ ItemSize(x.f, fixed) \in Nat
<1> DEFINE A == AllItems("C#")
           E == EndItems("C#")
           Z == FullLeaves("C#", fixed) \cap Filled
           F == FullLeaves("C#", fixed)
           g == BytesFn("C#", fixed, big)
           s == <<x>>
           l == Leaves("C#", s)
           n == ItemSize(x.f, fixed)
           b == BytesOf("C#", fixed, big, l)
<1>1. s \in Seq(A) /\ x \in Filled
  BY DEF Filled
<1>2. l \in Seq(E)
  BY <1>1, LeavesFacts DEF LeavesOk
<1>3. l \in Seq(Filled)
  BY <1>1, FilledLeaves
<1>4. n \in Nat
  BY AllItemsFacts DEF SizedFields
<1>5. ASSUME NEW i \in DOMAIN l
      PROVE  l[i] \in Z
  <2>1. l[i] \in E /\ l[i] \in Filled
    <3> HIDE DEF l, E
    <3>1. QED
      BY <1>2, <1>3, <1>5, ElementOfSeq, LenProperties
  <2>2. IsLeaf(l[i].f)
    BY <2>1 DEF EndItems, IsEnd, IsNull, Filled
  <2>3. field_is_string(l[i].f) => fixed = TRUE
    BY <1>5
  <2>4. QED
    BY <2>1, <2>2, <2>3 DEF FullLeaves
<1>6. l \in Seq(Z)
  <2> DEFINE k == Len(l)
  <2> HIDE DEF l
  <2>1. k \in Nat /\ DOMAIN l = 1 .. k /\ l = [i \in 1 .. k |-> l[i]]
    BY <1>2, LenProperties
  <2> HIDE DEF k, Z
  <2>2. \A i \in 1 .. k : l[i] \in Z
    BY <1>5, <2>1
  <2>3. QED
    BY <2>1, <2>2, AsSequence
<1>7. l \in Seq(F)
  <2>1. Z \subseteq F
    OBVIOUS
  <2> HIDE DEF Z, F
  <2>2. Seq(Z) \subseteq Seq(F)
    BY <2>1, SeqMonotonic
  <2>3. QED
    BY <1>6, <2>2
<1>8. Len(b) = SumOf(SizesOf("C#", fixed), s)
  <2> HIDE DEF s
  <2>1. QED
    BY <1>1, <1>7, FullBytes
<1>9. SumOf(SizesOf("C#", fixed), s) = n
  <2>1. SizesOf("C#", fixed) \in [A -> Nat]
    BY SizesType
  <2>2. Additive(SizesOf("C#", fixed), A)
    BY <2>1, SumFacts
  <2>3. SizesOf("C#", fixed)[x] = n
    BY DEF SizesOf
  <2>4. QED
    BY <2>2, <2>3 DEF Additive
<1>10. b \in Seq({0})
  <2>1. \A m \in E : (IF IsLeaf(m.f) THEN LeafBytes("C#", fixed, big, m) ELSE <<>>) \in Seq(Byte)
    BY LeafFacts DEF EndItems
  <2>2. g \in [E -> Seq(Byte)]
    BY <2>1 DEF BytesFn
  <2>3. Z \in SUBSET E
    BY DEF FullLeaves
  <2>4. \A m \in Z : g[m] \in Seq({0})
    BY ZeroLeaf DEF Filled
  <2> HIDE DEF E, Z, g, l
  <2>5. \A t \in Seq(Z) : Spread(g, t) \in Seq({0})
    BY <2>2, <2>3, <2>4, SpreadWithin
  <2>6. QED
    BY <1>6, <2>5 DEF BytesOf, g
<1>11. b = Zeros(n)
  <2> HIDE DEF b, n
  <2>1. b \in Seq(Int) /\ Len(b) = n /\ \A i \in 1 .. n : b[i] = 0
    <3>1. {0} \subseteq Int
      OBVIOUS
    <3>2. Seq({0}) \subseteq Seq(Int)
      BY <3>1, SeqMonotonic
    <3>3. \A i \in 1 .. Len(b) : b[i] \in {0}
      BY <1>10, ElementOfSeq
    <3>4. QED
      BY <1>8, <1>9, <1>10, <3>2, <3>3
  <2>2. QED
    BY <1>4, <2>1, ZerosFacts
<1>12. QED
  BY <1>4, <1>11

-----------------------------------------------------------------------------
(* What is written, and what is left to write, is what is meant. *)

\* The bytes of items: of all their leaves.
Output(who, fixed, big, items) == BytesOf(who, fixed, big, Leaves(who, items))

IsOutput(who, fixed, big) ==
    /\ \A s \in Seq(AllItems(who)) : Output(who, fixed, big, s) \in Seq(Byte)
    /\ \A s, t \in Seq(AllItems(who)) :
          Output(who, fixed, big, s \o t) = Output(who, fixed, big, s) \o Output(who, fixed, big, t)
    /\ \A x \in AllItems(who) : Output(who, fixed, big, <<x>>) = Output(who, fixed, big, Parts(who, x))
    /\ \A s \in Seq(EndItems(who)) : Output(who, fixed, big, s) = BytesOf(who, fixed, big, s)
    /\ Output(who, fixed, big, <<>>) = <<>>

\* The output of items is that of their parts, and one after the other that of all.
LEMMA OutputFacts ==
    ASSUME NEW who \in {"C", "C#"}, NEW fixed \in BOOLEAN, NEW big
    PROVE  IsOutput(who, fixed, big)
<1> DEFINE A == AllItems(who)
           E == EndItems(who)
           g == BytesFn(who, fixed, big)
           L(s) == Leaves(who, s)
           O(s) == Output(who, fixed, big, s)
<1>1. LeavesOk(who) /\ Homomorphism(g, E, Byte)
  BY LeavesFacts, BytesFacts
<1>2. \A s : O(s) = Spread(g, L(s))
  BY DEF Output, BytesOf
<1>3. \A s \in Seq(A) : L(s) \in Seq(E)
  BY <1>1 DEF LeavesOk
<1>4. \A s, t \in Seq(A) : L(s \o t) = L(s) \o L(t)
  BY <1>1 DEF LeavesOk
<1>5. \A x \in A : L(<<x>>) = L(Parts(who, x))
  BY <1>1 DEF LeavesOk
<1>6. \A s \in Seq(E) : L(s) = s
  BY <1>1 DEF LeavesOk
<1> HIDE DEF A, E, g, L, O
<1>7. \A s \in Seq(A) : O(s) \in Seq(Byte)
  BY <1>1, <1>2, <1>3 DEF Homomorphism
<1>8. ASSUME NEW s \in Seq(A), NEW t \in Seq(A)
      PROVE  O(s \o t) = O(s) \o O(t)
  <2>1. Spread(g, L(s) \o L(t)) = Spread(g, L(s)) \o Spread(g, L(t))
    BY <1>1, <1>3 DEF Homomorphism
  <2>2. O(s \o t) = Spread(g, L(s) \o L(t)) /\ O(s) = Spread(g, L(s)) /\ O(t) = Spread(g, L(t))
    BY <1>2, <1>4
  <2>3. QED
    BY <2>1, <2>2
<1>9. \A x \in A : O(<<x>>) = O(Parts(who, x))
  BY <1>2, <1>5
<1>10. \A s \in Seq(E) : O(s) = Spread(g, s)
  BY <1>2, <1>6
<1>11. O(<<>>) = <<>>
  <2>1. <<>> \in Seq(E)
    OBVIOUS
  <2>2. QED
    BY <1>1, <1>10, <2>1 DEF Homomorphism
<1>12. QED
  BY <1>7, <1>8, <1>9, <1>10, <1>11 DEF IsOutput, A, E, O, BytesOf, g

\* Leaves that a writer does not give up at, for want of an object or of a shorter text.
WritableLeaves(who, fixed) ==
    {m \in EndItems(who) :
        /\ IsLeaf(m.f)
        /\ fixed = FALSE /\ who = "C#" /\ is_char_array(m.f) => Len(GetBytes(m.v)) <= m.f.array_len}

Wrote(who, fixed, big, meant, items, b) ==
    /\ items \in Seq(AllItems(who)) /\ b \in Seq(Byte)
    /\ b \o Output(who, fixed, big, items) = BytesOf(who, fixed, big, meant)
    /\ who = "C#" => \E done \in Seq(WritableLeaves(who, fixed)) : meant = done \o Leaves(who, items)

\* At the start all is left to write.
LEMMA WroteNothing ==
    ASSUME NEW who \in {"C", "C#"}, NEW fixed \in BOOLEAN, NEW big, NEW items \in Seq(AllItems(who))
    PROVE  Wrote(who, fixed, big, Leaves(who, items), items, <<>>)
<1> DEFINE l == Leaves(who, items)
           o == Output(who, fixed, big, items)
           W == WritableLeaves(who, fixed)
<1>1. IsOutput(who, fixed, big) /\ LeavesOk(who)
  BY OutputFacts, LeavesFacts
<1>2. o \in Seq(Byte)
  BY <1>1 DEF IsOutput
<1>3. l \in Seq(EndItems(who))
  BY <1>1 DEF LeavesOk
<1>4. o = BytesOf(who, fixed, big, l)
  BY DEF Output
<1> HIDE DEF l, o, W
<1>5. <<>> \o o = o /\ <<>> \o l = l /\ <<>> \in Seq(W) /\ <<>> \in Seq(Byte)
  BY <1>2, <1>3, ConcatEmptySeq
<1>6. \E done \in Seq(W) : l = done \o l
  BY <1>5
<1>7. QED
  BY <1>4, <1>5, <1>6 DEF Wrote, l, o, W

\* An item is replaced by what it consists of.
LEMMA WroteExpands ==
    ASSUME NEW who \in {"C", "C#"}, NEW fixed \in BOOLEAN, NEW big, NEW meant, NEW b,
           NEW x \in AllItems(who), NEW rest \in Seq(AllItems(who)),
           Wrote(who, fixed, big, meant, <<x>> \o rest, b),
           NEW parts \in Seq(AllItems(who)),
           Output(who, fixed, big, parts) = Output(who, fixed, big, <<x>>),
           who = "C#" => Leaves(who, parts) = Leaves(who, <<x>>)
    PROVE  Wrote(who, fixed, big, meant, parts \o rest, b)
<1> DEFINE A == AllItems(who)
           L(s) == Leaves(who, s)
           O(s) == Output(who, fixed, big, s)
           W == WritableLeaves(who, fixed)
           one == <<x>>
<1>1. IsOutput(who, fixed, big) /\ LeavesOk(who)
  BY OutputFacts, LeavesFacts
<1>2. one \in Seq(A)
  OBVIOUS
<1>3. \A s, t \in Seq(A) : O(s \o t) = O(s) \o O(t)
  BY <1>1 DEF IsOutput
<1>4. \A s, t \in Seq(A) : L(s \o t) = L(s) \o L(t)
  BY <1>1 DEF LeavesOk
<1>5. /\ b \in Seq(Byte) /\ b \o O(one \o rest) = BytesOf(who, fixed, big, meant)
      /\ who = "C#" => \E done \in Seq(W) : meant = done \o L(one \o rest)
  BY DEF Wrote
<1>6. O(parts) = O(one) /\ (who = "C#" => L(parts) = L(one))
  OBVIOUS
<1> HIDE DEF A, L, O, W, one
<1>7. parts \in Seq(A) /\ rest \in Seq(A) /\ parts \o rest \in Seq(A)
  BY Concatenated DEF A
<1>8. O(parts \o rest) = O(one \o rest)
  <2>1. O(parts \o rest) = O(parts) \o O(rest) /\ O(one \o rest) = O(one) \o O(rest)
    BY <1>2, <1>3, <1>7
  <2>2. QED
    BY <1>6, <2>1
<1>9. who = "C#" => L(parts \o rest) = L(one \o rest)
  <2>1. L(parts \o rest) = L(parts) \o L(rest) /\ L(one \o rest) = L(one) \o L(rest)
    BY <1>2, <1>4, <1>7
  <2>2. QED
    BY <1>6, <2>1
<1>10. who = "C#" => \E done \in Seq(W) : meant = done \o L(parts \o rest)
  BY <1>5, <1>9
<1>11. b \o O(parts \o rest) = BytesOf(who, fixed, big, meant)
  BY <1>5, <1>8
<1>12. QED
  BY <1>5, <1>7, <1>10, <1>11 DEF Wrote, A, O, L, W

\* The bytes of an item are written.
LEMMA WroteEmits ==
    ASSUME NEW who \in {"C", "C#"}, NEW fixed \in BOOLEAN, NEW big, NEW meant, NEW b,
           NEW x \in AllItems(who), NEW rest \in Seq(AllItems(who)),
           Wrote(who, fixed, big, meant, <<x>> \o rest, b),
           NEW bytes, bytes = Output(who, fixed, big, <<x>>),
           who = "C#" => Leaves(who, <<x>>) \in Seq(WritableLeaves(who, fixed))
    PROVE  Wrote(who, fixed, big, meant, rest, b \o bytes)
<1> DEFINE A == AllItems(who)
           E == EndItems(who)
           L(s) == Leaves(who, s)
           O(s) == Output(who, fixed, big, s)
           W == WritableLeaves(who, fixed)
           one == <<x>>
           whole == BytesOf(who, fixed, big, meant)
           o == O(rest)
           l == L(rest)
           k == L(one)
<1>1. IsOutput(who, fixed, big) /\ LeavesOk(who)
  BY OutputFacts, LeavesFacts
<1>2. one \in Seq(A) /\ rest \in Seq(A)
  OBVIOUS
<1>3. O(one \o rest) = bytes \o o /\ bytes \in Seq(Byte) /\ o \in Seq(Byte)
  <2>1. O(one \o rest) = O(one) \o O(rest) /\ O(one) \in Seq(Byte) /\ O(rest) \in Seq(Byte)
    BY <1>1, <1>2 DEF IsOutput
  <2>2. QED
    BY <2>1
<1>4. L(one \o rest) = k \o l /\ l \in Seq(E)
  BY <1>1, <1>2 DEF LeavesOk
<1>5. /\ b \in Seq(Byte) /\ b \o O(one \o rest) = whole
      /\ who = "C#" => \E done \in Seq(W) : meant = done \o L(one \o rest)
  BY DEF Wrote
<1>6. who = "C#" => k \in Seq(W)
  OBVIOUS
<1>7. W \subseteq E
  BY DEF WritableLeaves
<1> HIDE DEF A, E, L, O, W, one, whole, o, l, k
<1>8. b \o bytes \in Seq(Byte)
  BY <1>3, <1>5, Concatenated
<1>9. (b \o bytes) \o o = b \o (bytes \o o)
  <2>1. b \in Seq(Byte) /\ bytes \in Seq(Byte) /\ o \in Seq(Byte)
    BY <1>3, <1>5
  <2>2. \A s, t, u \in Seq(Byte) : (s \o t) \o u = s \o (t \o u)
    BY ConcatAssociative
  <2>3. QED
    BY <2>1, <2>2, Zenon
<1>10. (b \o bytes) \o o = whole
  BY <1>3, <1>5, <1>9
<1>11. ASSUME who = "C#"
       PROVE  \E done \in Seq(W) : meant = done \o l
  <2>1. PICK done \in Seq(W) : meant = done \o (k \o l)
    BY <1>4, <1>5, <1>11
  <2>2. k \in Seq(W) /\ done \o k \in Seq(W)
    BY <1>6, <1>11, Concatenated
  <2>3. Seq(W) \subseteq Seq(E)
    BY <1>7, SeqMonotonic
  <2>4. done \in Seq(E) /\ k \in Seq(E)
    BY <2>2, <2>3
  <2>5. (done \o k) \o l = done \o (k \o l)
    BY <1>4, <2>4, ConcatAssociative
  <2>6. meant = (done \o k) \o l
    BY <2>1, <2>5
  <2>7. QED
    BY <2>2, <2>6
<1>12. QED
  BY <1>2, <1>8, <1>10, <1>11 DEF Wrote, A, O, L, W, o, l, whole

\* All is written when nothing is left.
LEMMA WroteAll ==
    ASSUME NEW who \in {"C", "C#"}, NEW fixed \in BOOLEAN, NEW big, NEW meant, NEW b,
           Wrote(who, fixed, big, meant, <<>>, b)
    PROVE  /\ b = BytesOf(who, fixed, big, meant)
           /\ who = "C#" => meant \in Seq(WritableLeaves(who, fixed))
<1> DEFINE W == WritableLeaves(who, fixed)
<1>1. IsOutput(who, fixed, big) /\ LeavesOk(who)
  BY OutputFacts, LeavesFacts
<1>2. Output(who, fixed, big, <<>>) = <<>>
  BY <1>1 DEF IsOutput
<1>3. Leaves(who, <<>>) = <<>>
  <2>1. <<>> \in Seq(EndItems(who))
    OBVIOUS
  <2>2. QED
    BY <1>1, <2>1 DEF LeavesOk
<1>4. /\ b \in Seq(Byte) /\ b \o <<>> = BytesOf(who, fixed, big, meant)
      /\ who = "C#" => \E done \in Seq(W) : meant = done \o <<>>
  BY <1>2, <1>3 DEF Wrote
<1> HIDE DEF W
<1>5. b \o <<>> = b
  BY <1>4, ConcatEmptySeq
<1>6. who = "C#" => meant \in Seq(W)
  BY <1>4, ConcatEmptySeq
<1>7. QED
  BY <1>4, <1>5, <1>6 DEF W

\* What the writers replace an array or a struct by is what it consists of.
LEMMA CArrayParts ==
    ASSUME NEW x \in AllItems("C"), IsArray(x.f), ~field_is_string(x.f)
    PROVE  Elements(x.f, x.v) = Parts("C", x)
<1> DEFINE f == x.f
           v == x.v
           e == Element(f)
           n == f.array_len
           A == AllItems("C")
           some == Elements(f, Cut(v, n))
           absent == IF x.fill \/ IsStruct(f) THEN Cleared(e) ELSE Item(e, 0)
<1>1. f \in Fields /\ n \in Nat
  BY AllItemsFacts, FieldTypes
<1>2. v \in Seq(CValues(e)) /\ Len(v) = n
  <2>1. v \in CValues(f)
    BY AllItemsFacts DEF ProperItem, ValuesOf
  <2>2. QED
    BY <1>1, <2>1, ArrayValues
<1>3. Cut(v, n) = v
  <2> HIDE DEF n, v
  <2>1. QED
    BY <1>1, <1>2, CutElements
<1>4. Parts("C", x) = some \o [i \in 1 .. n - Len(v) |-> absent]
  BY <1>3 DEF Parts
<1>5. some \in Seq(A)
  <2>1. AreElements(f, Cut(v, n), some, A)
    BY GivenElements
  <2>2. QED
    BY <2>1 DEF AreElements
<1> HIDE DEF some, absent, A
<1>6. n - Len(v) = 0
  BY <1>1, <1>2
<1>7. [i \in 1 .. n - Len(v) |-> absent] = <<>>
  BY <1>6
<1>8. some \o <<>> = some
  BY <1>5, ConcatEmptySeq
<1>9. QED
  BY <1>3, <1>4, <1>7, <1>8 DEF some

\* A nested struct in C is replaced by its fields.
LEMMA CStructParts ==
    ASSUME NEW x \in AllItems("C"), ~IsArray(x.f), IsStruct(x.f)
    PROVE  FieldsOf(x.f.wire_type, x.v) = Parts("C", x)
<1>1. x.fill = FALSE
  BY AllItemsFacts DEF ProperItem
<1>2. QED
  BY <1>1 DEF Parts

\* So is one in C# that is not null.
LEMMA CsStructParts ==
    ASSUME NEW x \in AllItems("C#"), ~IsArray(x.f), IsStruct(x.f), x.fill = FALSE, x.v # <<>>
    PROVE  FieldsOf(x.f.wire_type, x.v[1]) = Parts("C#", x)
BY DEF Parts

\* A list of structs in C# is replaced by its elements and a cleared slot for each that is
\* missing.
LEMMA CsListParts ==
    ASSUME NEW x \in AllItems("C#"), IsArray(x.f), IsStruct(x.f)
    PROVE  LET count == Min({Len(x.v), x.f.array_len})
           IN  Elements(x.f, Cut(x.v, count)) \o
                  [i \in 1 .. x.f.array_len - count |->
                      [Item(Element(x.f), <<>>) EXCEPT !.fill = TRUE]] = Parts("C#", x)
<1> DEFINE f == x.f
           v == x.v
           e == Element(f)
           n == f.array_len
           count == Min({Len(v), n})
           slot == [Item(e, <<>>) EXCEPT !.fill = TRUE]
<1>1. f \in Fields /\ n \in Nat /\ ~field_is_string(f)
  BY AllItemsFacts, FieldTypes, StringTypes
<1>2. v \in Seq(CsValues(e)) /\ Len(v) \in Nat
  <2>1. v \in CsValues(f)
    BY AllItemsFacts DEF ProperItem, ValuesOf
  <2>2. v \in Seq(CsValues(e))
    BY <1>1, <2>1, ArrayValues
  <2>3. QED
    BY <2>2, LenProperties
<1> DEFINE l == Len(v)
<1>3. count \in {l, n} /\ count <= l /\ count <= n /\ count \in Nat
  <2>1. l \in Int /\ n \in Int
    BY <1>1, <1>2
  <2> HIDE DEF l, n
  <2>2. Min({l, n}) \in {l, n} /\ Min({l, n}) <= l /\ Min({l, n}) <= n
    BY <2>1, MinOfTwo
  <2>3. QED
    BY <1>1, <1>2, <2>2 DEF l
<1>4. Min({count, l}) = count
  <2>1. l \in Int /\ count \in Int
    BY <1>2, <1>3
  <2> HIDE DEF l, count
  <2>2. Min({count, l}) \in {count, l} /\ Min({count, l}) <= l /\ Min({count, l}) <= count
    BY <2>1, MinOfTwo
  <2>3. QED
    BY <1>3, <2>1, <2>2
<1>5. Min({n, l}) = count
  <2>1. {n, l} = {l, n}
    OBVIOUS
  <2>2. QED
    BY <2>1
<1>6. Cut(v, count) = SubSeq(v, 1, count) /\ Cut(v, n) = SubSeq(v, 1, count)
  BY <1>4, <1>5 DEF Cut
<1>7. Len(Cut(v, n)) = count
  <2> HIDE DEF count, n
  <2>1. Len(SubSeq(v, 1, count)) = count
    <3>1. 1 \in 1 .. Len(v) + 1 /\ count \in 0 .. Len(v)
      BY <1>2, <1>3
    <3>2. QED
      BY <1>2, <1>3, <3>1, SubSeqProperties
  <2>2. QED
    BY <1>6, <2>1
<1>8. slot = Cleared(e)
  <2>1. IsStruct(e) /\ ~IsArray(e)
    BY <1>1, ElementTypes
  <2>2. Void(e) = <<>>
    BY <2>1 DEF Void
  <2> HIDE DEF e
  <2>3. slot = [f |-> e, v |-> <<>>, fill |-> TRUE]
    BY FilledItem
  <2>4. Cleared(e) = [f |-> e, v |-> <<>>, fill |-> TRUE]
    BY <2>2, ClearedIs
  <2>5. QED
    BY <2>3, <2>4
<1>9. Parts("C#", x) = Elements(f, Cut(v, n)) \o [i \in 1 .. n - Len(Cut(v, n)) |-> Cleared(e)]
  BY <1>1 DEF Parts
<1> HIDE DEF count, slot
<1>10. Parts("C#", x) = Elements(f, Cut(v, count)) \o [i \in 1 .. n - count |-> slot]
  BY <1>6, <1>7, <1>8, <1>9
<1>11. QED
  BY <1>10 DEF count, slot

\* The elements of values one after the other.
LEMMA ElementsBoth ==
    ASSUME NEW f, NEW V, NEW s \in Seq(V), NEW t \in Seq(V)
    PROVE  Elements(f, s \o t) = Elements(f, s) \o Elements(f, t)
<1> DEFINE e(y) == Item(Element(f), y)
           I == {e(y) : y \in V}
           a == Elements(f, s)
           b == Elements(f, t)
           m == Len(s)
           n == Len(t)
<1>1. AreElements(f, s, a, I) /\ AreElements(f, t, b, I)
  BY SomeElements
<1>2. /\ a \in Seq(I) /\ Len(a) = m /\ \A i \in 1 .. m : a[i] = e(s[i])
      /\ b \in Seq(I) /\ Len(b) = n /\ \A i \in 1 .. n : b[i] = e(t[i])
  BY <1>1 DEF AreElements
<1>3. m \in Nat /\ n \in Nat
  BY LenProperties
<1>4. s \o t = [i \in 1 .. m + n |-> IF i <= m THEN s[i] ELSE t[i - m]]
  BY Joined
<1>5. Elements(f, s \o t) = [i \in 1 .. m + n |-> e(IF i <= m THEN s[i] ELSE t[i - m])]
  BY <1>4 DEF Elements
<1> HIDE DEF a, b, I
<1> HIDE DEF m, n, e
<1>6. a \o b = [i \in 1 .. m + n |-> IF i <= m THEN a[i] ELSE b[i - m]]
  <2>1. a \in Seq(I) /\ b \in Seq(I) /\ Len(a) = m /\ Len(b) = n
    BY <1>2
  <2>2. a \o b = [i \in 1 .. Len(a) + Len(b) |-> IF i <= Len(a) THEN a[i] ELSE b[i - Len(a)]]
    BY <2>1, Joined
  <2>3. QED
    BY <2>1, <2>2
<1>7. \A i \in 1 .. m + n : e(IF i <= m THEN s[i] ELSE t[i - m]) = IF i <= m THEN a[i] ELSE b[i - m]
  <2>1. ASSUME NEW i \in 1 .. m + n
        PROVE  e(IF i <= m THEN s[i] ELSE t[i - m]) = IF i <= m THEN a[i] ELSE b[i - m]
    <3>1. CASE i <= m
      <4>1. i \in 1 .. m
        BY <1>3, <3>1
      <4>2. QED
        BY <1>2, <3>1, <4>1
    <3>2. CASE ~(i <= m)
      <4>1. i - m \in 1 .. n
        BY <1>3, <3>2
      <4>2. QED
        BY <1>2, <3>2, <4>1
    <3>3. QED
      BY <3>1, <3>2
  <2>2. QED
    BY <2>1
<1>8. QED
  BY <1>5, <1>6, <1>7 DEF a, b

\* An array of scalars in C# is replaced by its elements and zeros.
LEMMA CsArrayParts ==
    ASSUME NEW x \in AllItems("C#"), IsArray(x.f), ~IsStruct(x.f), ~field_is_string(x.f), x.fill = FALSE
    PROVE  Elements(x.f, PaddedWith(0, x.v, x.f.array_len)) = Parts("C#", x)
<1> DEFINE f == x.f
           v == x.v
           e == Element(f)
           n == f.array_len
           c == Cut(v, n)
           k == n - Len(c)
           z == [i \in 1 .. k |-> 0]
<1>1. f \in Fields /\ n \in Nat
  BY AllItemsFacts, FieldTypes
<1>2. v \in Seq(Int)
  <2>1. v \in CsValues(f)
    BY AllItemsFacts DEF ProperItem, ValuesOf
  <2>2. QED
    BY <1>1, <2>1, ArrayValues
<1>3. c \in Seq(Int) /\ Len(c) \in Nat /\ Len(c) <= n
  BY <1>1, <1>2, CutFacts
<1>4. k \in Nat
  BY <1>1, <1>3
<1>5. z \in Seq(Int)
  <2> HIDE DEF k
  <2>1. QED
    BY <1>4, RepeatedFacts
<1>6. PaddedWith(0, v, n) = c \o z
  BY DEF PaddedWith
<1>7. Parts("C#", x) = Elements(f, c) \o [i \in 1 .. k |-> Item(e, 0)]
  BY DEF Parts
<1>8. Elements(f, z) = [i \in 1 .. k |-> Item(e, 0)]
  <2>1. DOMAIN z = 1 .. k /\ \A i \in 1 .. k : z[i] = 0
    OBVIOUS
  <2> HIDE DEF z, k
  <2>2. QED
    BY <2>1 DEF Elements
<1> HIDE DEF c, z
<1>9. Elements(f, c \o z) = Elements(f, c) \o Elements(f, z)
  BY <1>3, <1>5, ElementsBoth
<1>10. QED
  BY <1>6, <1>7, <1>8, <1>9

\* The message is one that the program may write; while the writer writes, what it has
\* written and what it has left to write are what the message means. In C# the leaves it
\* has written were writable.
MessageGiven == message \in MessagesOf(writer, struct)
MessageInv ==
    /\ MessageGiven
    /\ todo \in Seq(AllItems(writer))
    /\ wstatus = "written" => todo = <<>>
    /\ wstatus \in {"writing", "written"} /\ ~HasGap =>
          Wrote(writer, fixed_mode, big_endian, Meant, todo, buf)

\* What is meant does not change with the writing or reading of it.
LEMMA SameMeant ==
    ASSUME UNCHANGED choice
    PROVE  Meant' = Meant /\ HasGap' = HasGap /\ MessageGiven' = MessageGiven
<1>1. writer' = writer /\ struct' = struct /\ message' = message /\ fixed_mode' = fixed_mode
  BY DEF choice
<1>2. Meant' = Meant
  BY <1>1 DEF Meant
<1>3. HasGap' = HasGap
  BY <1>1, <1>2 DEF HasGap
<1>4. MessageGiven' = MessageGiven
  BY <1>1 DEF MessageGiven, MessagesOf
<1>5. QED
  BY <1>2, <1>3, <1>4

\* Where the writer is.
AtWork(who) ==
    /\ who \in {"C", "C#"} /\ writer = who /\ Work \in AllItems(who)
    /\ Tail(todo) \in Seq(AllItems(who)) /\ todo = <<Work>> \o Tail(todo)
    /\ fixed_mode \in BOOLEAN /\ big_endian \in BOOLEAN /\ wstatus = "writing"
    /\ buf \in Seq(Byte) /\ MessageGiven
    /\ ~HasGap => Wrote(who, fixed_mode, big_endian, Meant, <<Work>> \o Tail(todo), buf)

\* What a writer with something left to write has before it.
LEMMA AtItem ==
    ASSUME BufferInv, MessageInv, NEW who, Writes(who)
    PROVE  AtWork(who)
<1>1. who \in {"C", "C#"} /\ writer = who /\ todo # <<>> /\ todo = <<Work>> \o Tail(todo)
  BY NextItem
<1>2. fixed_mode \in BOOLEAN /\ big_endian \in BOOLEAN /\ buf \in Seq(Byte) /\ wstatus = "writing"
  BY DEF BufferInv, Chosen, Written, Bytes, Writes
<1>3. todo \in Seq(AllItems(who)) /\ MessageGiven
  BY <1>1 DEF MessageInv
<1>4. Work \in AllItems(who) /\ Tail(todo) \in Seq(AllItems(who))
  BY <1>1, <1>3, HeadTailProperties DEF Work
<1>5. ~HasGap => Wrote(who, fixed_mode, big_endian, Meant, todo, buf)
  BY <1>1, <1>2 DEF MessageInv
<1>6. ~HasGap => Wrote(who, fixed_mode, big_endian, Meant, <<Work>> \o Tail(todo), buf)
  BY <1>1, <1>5
<1>7. QED
  BY <1>1, <1>2, <1>3, <1>4, <1>6 DEF AtWork

\* The steps of a writer by what they do to its list.
LEMMA MovedMessage ==
    ASSUME BufferInv, MessageInv, NEW who, Writes(who), Unchanging, NEW items \in Seq(AllItems(who)),
           todo' = items, UNCHANGED wstatus,
           ~HasGap => Wrote(who, fixed_mode, big_endian, Meant, items, buf')
    PROVE  MessageInv'
<1>1. AtWork(who)
  BY AtItem
<1>2. UNCHANGED choice /\ writer' = who /\ fixed_mode' = fixed_mode /\ big_endian' = big_endian
  BY <1>1 DEF Unchanging, choice, AtWork
<1>3. Meant' = Meant /\ HasGap' = HasGap /\ MessageGiven' = MessageGiven
  BY <1>2, SameMeant
<1>4. MessageGiven' /\ wstatus' = "writing"
  BY <1>1, <1>3 DEF AtWork
<1>5. (~HasGap)' => Wrote(writer, fixed_mode, big_endian, Meant, todo, buf)'
  <2>1. Wrote(writer, fixed_mode, big_endian, Meant, todo, buf)'
           = Wrote(who, fixed_mode, big_endian, Meant, items, buf')
    BY <1>2, <1>3
  <2>2. QED
    BY <1>3, <2>1
<1>6. (todo \in Seq(AllItems(writer)))'
  BY <1>2
<1>7. QED
  BY <1>4, <1>5, <1>6 DEF MessageInv

\* An item is replaced by others that mean the same.
LEMMA ExpandsMessage ==
    ASSUME BufferInv, MessageInv, NEW who, Writes(who), Unchanging, NEW items \in Seq(AllItems(who)),
           Expands(items),
           Output(who, fixed_mode, big_endian, items) = Output(who, fixed_mode, big_endian, <<Work>>),
           who = "C#" => Leaves(who, items) = Leaves(who, <<Work>>)
    PROVE  MessageInv'
<1> DEFINE x == Work
           rest == Tail(todo)
           A == AllItems(who)
<1>1. AtWork(who)
  BY AtItem
<1>2. who \in {"C", "C#"} /\ fixed_mode \in BOOLEAN /\ x \in A /\ rest \in Seq(A)
      /\ (~HasGap => Wrote(who, fixed_mode, big_endian, Meant, <<x>> \o rest, buf))
  BY <1>1 DEF AtWork
<1>3. todo' = items \o rest /\ buf' = buf /\ UNCHANGED wstatus
  BY DEF Expands, Replace
<1>4. Output(who, fixed_mode, big_endian, items) = Output(who, fixed_mode, big_endian, <<x>>)
      /\ (who = "C#" => Leaves(who, items) = Leaves(who, <<x>>))
  OBVIOUS
<1>5. items \in Seq(A)
  OBVIOUS
<1> HIDE DEF x, rest
<1>6. ~HasGap => Wrote(who, fixed_mode, big_endian, Meant, items \o rest, buf)
  BY <1>2, <1>4, WroteExpands
<1>7. items \o rest \in Seq(A)
  <2> HIDE DEF A
  <2>1. QED
    BY <1>2, <1>5, Concatenated
<1> DEFINE more == items \o rest
<1> HIDE DEF more
<1>8. more \in Seq(A) /\ todo' = more /\ (~HasGap => Wrote(who, fixed_mode, big_endian, Meant, more, buf'))
  BY <1>3, <1>6, <1>7 DEF more
<1>9. QED
  BY <1>3, <1>8, MovedMessage

\* The bytes of an item are written.
LEMMA EmittedMessage ==
    ASSUME BufferInv, MessageInv, NEW who, Writes(who), Unchanging, NEW bytes, Emitted(bytes),
           ~HasGap => /\ bytes = Output(who, fixed_mode, big_endian, <<Work>>)
                      /\ who = "C#" => Leaves(who, <<Work>>) \in Seq(WritableLeaves(who, fixed_mode))
    PROVE  MessageInv'
<1> DEFINE x == Work
           rest == Tail(todo)
           A == AllItems(who)
<1>1. AtWork(who)
  BY AtItem
<1>2. who \in {"C", "C#"} /\ fixed_mode \in BOOLEAN /\ x \in A /\ rest \in Seq(A)
      /\ (~HasGap => Wrote(who, fixed_mode, big_endian, Meant, <<x>> \o rest, buf))
  BY <1>1 DEF AtWork
<1>3. todo' = rest /\ buf' = buf \o bytes /\ UNCHANGED wstatus
  BY DEF Emitted
<1>4. ~HasGap => /\ bytes = Output(who, fixed_mode, big_endian, <<x>>)
                 /\ who = "C#" => Leaves(who, <<x>>) \in Seq(WritableLeaves(who, fixed_mode))
  OBVIOUS
<1> HIDE DEF x, rest
<1>5. ~HasGap => Wrote(who, fixed_mode, big_endian, Meant, rest, buf \o bytes)
  BY <1>2, <1>4, WroteEmits
<1>6. rest \in Seq(A) /\ todo' = rest /\ (~HasGap => Wrote(who, fixed_mode, big_endian, Meant, rest, buf'))
  BY <1>2, <1>3, <1>5
<1>7. QED
  BY <1>3, <1>6, MovedMessage

\* A writer that gives up has nothing to show.
LEMMA GivesUpMessage ==
    ASSUME BufferInv, MessageInv, NEW who, Writes(who), Unchanging, NEW status, GivesUp(status),
           status \notin {"writing", "written"}
    PROVE  MessageInv'
<1>1. AtWork(who)
  BY AtItem
<1>2. UNCHANGED choice /\ wstatus' = status /\ todo' = <<>>
  BY DEF Unchanging, GivesUp
<1>3. MessageGiven'
  BY <1>1, <1>2, SameMeant DEF AtWork
<1>4. todo' \in Seq(AllItems(writer)')
  BY <1>2
<1>5. QED
  BY <1>2, <1>3, <1>4 DEF MessageInv

\* An item is replaced by its parts.
LEMMA PartsMessage ==
    ASSUME BufferInv, MessageInv, NEW who, Writes(who), Unchanging, Expands(Parts(who, Work))
    PROVE  MessageInv'
<1> DEFINE p == Parts(who, Work)
<1>1. AtWork(who)
  BY AtItem
<1>2. who \in {"C", "C#"} /\ fixed_mode \in BOOLEAN /\ Work \in AllItems(who)
  BY <1>1 DEF AtWork
<1>3. IsOutput(who, fixed_mode, big_endian) /\ LeavesOk(who) /\ PartsOk(who, Work)
  BY <1>2, OutputFacts, LeavesFacts, PartsFacts
<1>4. p \in Seq(AllItems(who))
  BY <1>3 DEF PartsOk
<1>5. Output(who, fixed_mode, big_endian, p) = Output(who, fixed_mode, big_endian, <<Work>>)
  BY <1>2, <1>3 DEF IsOutput
<1>6. Leaves(who, p) = Leaves(who, <<Work>>)
  BY <1>2, <1>3 DEF LeavesOk
<1>7. Expands(p)
  OBVIOUS
<1> HIDE DEF p
<1>8. QED
  BY <1>4, <1>5, <1>6, <1>7, ExpandsMessage

\* A leaf is written as its bytes.
LEMMA LeafOutput ==
    ASSUME NEW who \in {"C", "C#"}, NEW fixed \in BOOLEAN, NEW big, NEW x \in AllItems(who), IsLeaf(x.f)
    PROVE  /\ Output(who, fixed, big, <<x>>) = LeafBytes(who, fixed, big, x)
           /\ Leaves(who, <<x>>) = <<x>> /\ x \in EndItems(who)
<1> DEFINE E == EndItems(who)
           g == BytesFn(who, fixed, big)
           s == <<x>>
<1>1. x \in E
  BY DEF EndItems, IsEnd
<1>2. s \in Seq(E)
  BY <1>1
<1>3. IsOutput(who, fixed, big) /\ LeavesOk(who) /\ Homomorphism(g, E, Byte)
  BY OutputFacts, LeavesFacts, BytesFacts
<1> HIDE DEF s
<1>4. Output(who, fixed, big, s) = Spread(g, s) /\ Leaves(who, s) = s
  BY <1>2, <1>3 DEF IsOutput, LeavesOk, BytesOf
<1>5. Spread(g, <<x>>) = g[x]
  BY <1>1, <1>3 DEF Homomorphism
<1>6. g[x] = LeafBytes(who, fixed, big, x)
  BY <1>1 DEF BytesFn
<1>7. QED
  BY <1>1, <1>4, <1>5, <1>6 DEF s

\* The emitted C.
LEMMA CWriteArrayMessage ==
    ASSUME BufferInv, MessageInv, CWriteArray
    PROVE  MessageInv'
<1> DEFINE x == Work
           items == Elements(x.f, x.v)
<1>1. Writes("C") /\ Unchanging /\ IsArray(x.f) /\ (fixed_mode \/ ~field_is_string(x.f))
      /\ Expands(items)
  BY DEF CWriteArray
<1>2. AtWork("C")
  BY <1>1, AtItem
<1>3. x \in AllItems("C") /\ fixed_mode \in BOOLEAN
  BY <1>2 DEF AtWork
<1>4. CASE ~field_is_string(x.f)
  <2>1. items = Parts("C", x)
    <3> HIDE DEF x
    <3>1. QED
      BY <1>1, <1>3, <1>4, CArrayParts
  <2>2. QED
    BY <1>1, <2>1, PartsMessage
<1>5. CASE field_is_string(x.f)
  <2>1. fixed_mode = TRUE
    BY <1>1, <1>3, <1>5
  <2> HIDE DEF x
  <2>2. /\ items \in Seq(EndItems("C"))
        /\ BytesOf("C", fixed_mode, big_endian, items) = LeafBytes("C", fixed_mode, big_endian, x)
    BY <1>3, <1>5, <2>1, CArrayWritten
  <2>3. IsOutput("C", fixed_mode, big_endian)
    BY <1>3, OutputFacts
  <2>4. IsLeaf(x.f)
    BY <1>5 DEF IsLeaf
  <2>5. Output("C", fixed_mode, big_endian, <<x>>) = LeafBytes("C", fixed_mode, big_endian, x)
    BY <1>3, <2>4, LeafOutput
  <2> HIDE DEF items
  <2>6. Output("C", fixed_mode, big_endian, items) = Output("C", fixed_mode, big_endian, <<x>>)
    BY <2>2, <2>3, <2>5 DEF IsOutput
  <2>7. items \in Seq(AllItems("C"))
    <3>1. EndItems("C") \subseteq AllItems("C")
      BY DEF EndItems
    <3>2. Seq(EndItems("C")) \subseteq Seq(AllItems("C"))
      BY <3>1, SeqMonotonic
    <3>3. QED
      BY <2>2, <3>2
  <2>8. QED
    BY <1>1, <2>6, <2>7, ExpandsMessage DEF x
<1>6. QED
  BY <1>4, <1>5

\* The length and the characters of a string in variable mode.
LEMMA CWriteStringMessage ==
    ASSUME BufferInv, MessageInv, CWriteString
    PROVE  MessageInv'
<1> DEFINE x == Work
           text == TextOf(x.v)
           items == <<Item(Prefix(x.f), Len(text))>> \o Elements(x.f, text)
<1>1. Writes("C") /\ Unchanging /\ field_is_string(x.f) /\ ~fixed_mode /\ Expands(items)
  BY DEF CWriteString
<1>2. AtWork("C")
  BY <1>1, AtItem
<1>3. x \in AllItems("C") /\ fixed_mode \in BOOLEAN
  BY <1>2 DEF AtWork
<1>4. fixed_mode = FALSE
  BY <1>1, <1>3
<1> HIDE DEF x
<1>5. /\ items \in Seq(EndItems("C"))
      /\ BytesOf("C", fixed_mode, big_endian, items) = LeafBytes("C", fixed_mode, big_endian, x)
  BY <1>1, <1>3, <1>4, CTextWritten
<1>6. IsOutput("C", fixed_mode, big_endian)
  BY <1>3, OutputFacts
<1>7. IsLeaf(x.f)
  BY <1>1 DEF IsLeaf
<1>8. Output("C", fixed_mode, big_endian, <<x>>) = LeafBytes("C", fixed_mode, big_endian, x)
  BY <1>3, <1>7, LeafOutput
<1> HIDE DEF items
<1>9. Output("C", fixed_mode, big_endian, items) = Output("C", fixed_mode, big_endian, <<x>>)
  BY <1>5, <1>6, <1>8 DEF IsOutput
<1>10. items \in Seq(AllItems("C"))
  <2>1. EndItems("C") \subseteq AllItems("C")
    BY DEF EndItems
  <2>2. Seq(EndItems("C")) \subseteq Seq(AllItems("C"))
    BY <2>1, SeqMonotonic
  <2>3. QED
    BY <1>5, <2>2
<1>11. QED
  BY <1>1, <1>9, <1>10, ExpandsMessage DEF x

\* A nested struct.
LEMMA CWriteStructMessage ==
    ASSUME BufferInv, MessageInv, CWriteStruct
    PROVE  MessageInv'
<1> DEFINE x == Work
<1>1. Writes("C") /\ Unchanging /\ ~IsArray(x.f) /\ IsStruct(x.f)
      /\ Expands(FieldsOf(x.f.wire_type, x.v))
  BY DEF CWriteStruct
<1>2. AtWork("C")
  BY <1>1, AtItem
<1>3. x \in AllItems("C")
  BY <1>2 DEF AtWork
<1>4. FieldsOf(x.f.wire_type, x.v) = Parts("C", x)
  <2> HIDE DEF x
  <2>1. QED
    BY <1>1, <1>3, CStructParts
<1>5. QED
  BY <1>1, <1>4, PartsMessage

\* A leaf is written whole, or the writer gives up.
LEMMA LeafMessage ==
    ASSUME BufferInv, MessageInv, NEW who, Writes(who), Unchanging, IsLeaf(Work.f), NEW bytes, Emitted(bytes),
           bytes = LeafBytes(who, fixed_mode, big_endian, Work),
           fixed_mode = FALSE /\ who = "C#" /\ is_char_array(Work.f)
              => Len(GetBytes(Work.v)) <= Work.f.array_len
    PROVE  MessageInv'
<1> DEFINE x == Work
           W == WritableLeaves(who, fixed_mode)
<1>1. AtWork(who)
  BY AtItem
<1>2. x \in AllItems(who) /\ fixed_mode \in BOOLEAN /\ who \in {"C", "C#"}
  BY <1>1 DEF AtWork
<1>3. /\ Output(who, fixed_mode, big_endian, <<x>>) = LeafBytes(who, fixed_mode, big_endian, x)
      /\ Leaves(who, <<x>>) = <<x>> /\ x \in EndItems(who)
  <2>1. IsLeaf(x.f)
    OBVIOUS
  <2> HIDE DEF x
  <2>2. QED
    BY <1>2, <2>1, LeafOutput
<1>4. x \in W
  BY <1>3 DEF WritableLeaves
<1>5. <<x>> \in Seq(W)
  <2> HIDE DEF x, W
  <2>1. QED
    BY <1>4
<1>6. bytes = Output(who, fixed_mode, big_endian, <<x>>) /\ Leaves(who, <<x>>) \in Seq(W)
  BY <1>3, <1>5
<1>7. QED
  BY <1>6, EmittedMessage

\* A scalar, whole or as much of it as there is room for.
LEMMA CWriteScalarMessage ==
    ASSUME BufferInv, MessageInv, CWriteScalar
    PROVE  MessageInv'
<1> DEFINE x == Work
           bytes == buffers_write(x.v, CType(x.f), big_endian)
<1>1. Writes("C") /\ Unchanging /\ ~IsArray(x.f) /\ ~IsStruct(x.f) /\ (Emitted(bytes) \/ GivesUp("failed"))
  BY DEF CWriteScalar
<1>2. AtWork("C")
  BY <1>1, AtItem
<1>3. x \in AllItems("C")
  BY <1>2 DEF AtWork
<1>4. bytes = LeafBytes("C", fixed_mode, big_endian, x) /\ IsLeaf(x.f)
  <2> HIDE DEF x
  <2>1. bytes = ScalarBytes(x.f, x.v, big_endian)
    BY <1>1, <1>3, ScalarWritten
  <2>2. QED
    BY <1>1, <2>1 DEF LeafBytes, IsLeaf, field_is_string
<1>5. CASE Emitted(bytes)
  <2>1. fixed_mode = FALSE /\ "C" = "C#" /\ is_char_array(x.f) => Len(GetBytes(x.v)) <= x.f.array_len
    OBVIOUS
  <2> HIDE DEF bytes
  <2>2. QED
    BY <1>1, <1>4, <1>5, <2>1, LeafMessage
<1>6. CASE GivesUp("failed")
  BY <1>1, <1>6, GivesUpMessage
<1>7. QED
  BY <1>1, <1>5, <1>6

\* The emitted C#.
LEMMA CsWriteStringMessage ==
    ASSUME BufferInv, MessageInv, CsWriteString
    PROVE  MessageInv'
<1> DEFINE x == Work
           f == x.f
           n == f.array_len
           padded == PaddedWith(0, Encoded(x), n * SizeOf(f))
           text == bp_write(CsCount(x), Prefix(f).wire_type, big_endian) \o CsWhole(x)
<1>1. Writes("C#") /\ Unchanging /\ field_is_string(f)
  BY DEF CsWriteString
<1>2. AtWork("C#")
  BY <1>1, AtItem
<1>3. x \in AllItems("C#") /\ fixed_mode \in BOOLEAN /\ big_endian \in BOOLEAN
  BY <1>2 DEF AtWork
<1>4. \/ fixed_mode /\ CsEmit(padded)
      \/ GivesUp("failed") \/ GivesUp("thrown")
      \/ ~fixed_mode /\ ~CsTooLong(x) /\ CsEmit(text)
  <2>1. UnitBytes(x.v, n) = FlattenSeq([i \in 1 .. Len(Cut(x.v, n)) |-> bp_write(x.v[i], "int16_t", big_endian)])
    BY DEF UnitBytes
  <2>2. Encoded(x) = IF is_char_array(f) THEN GetBytes(Fitting(x.v, n)) ELSE UnitBytes(x.v, n)
    BY DEF Encoded
  <2>3. CsWhole(x) = IF is_char_array(f) THEN GetBytes(x.v) ELSE UnitBytes(x.v, n)
    BY DEF CsWhole
  <2>4. CsCount(x) = IF is_char_array(f) THEN Min({Len(CsWhole(x)), n})
                                        ELSE Len(UnitBytes(x.v, n)) \div 2
    BY <2>3 DEF CsCount
  <2>5. CsTooLong(x) <=> is_char_array(f) /\ Len(CsWhole(x)) > n
    BY DEF CsTooLong
  <2>6. QED
    BY <2>1, <2>2, <2>3, <2>4, <2>5 DEF CsWriteString
<1>5. IsLeaf(f)
  BY <1>1 DEF IsLeaf
<1>6. CASE fixed_mode /\ CsEmit(padded)
  <2>1. fixed_mode = TRUE /\ (Emitted(padded) \/ GivesUp("failed"))
    BY <1>3, <1>6 DEF CsEmit
  <2>2. padded = LeafBytes("C#", fixed_mode, big_endian, x)
    <3> HIDE DEF x
    <3>1. QED
      BY <1>1, <1>3, <2>1, CsFixedWritten
  <2> HIDE DEF padded
  <2>3. CASE Emitted(padded)
    BY <1>1, <1>5, <2>1, <2>2, <2>3, LeafMessage
  <2>4. CASE GivesUp("failed")
    BY <1>1, <2>4, GivesUpMessage
  <2>5. QED
    BY <2>1, <2>3, <2>4
<1>7. CASE ~fixed_mode /\ ~CsTooLong(x) /\ CsEmit(text)
  <2>1. fixed_mode = FALSE /\ (Emitted(text) \/ GivesUp("failed")) /\ ~CsTooLong(x)
    BY <1>3, <1>7 DEF CsEmit
  <2>2. text = LeafBytes("C#", fixed_mode, big_endian, x)
    <3> HIDE DEF x
    <3>1. QED
      BY <1>1, <1>3, <2>1, CsTextWritten
  <2>3. is_char_array(f) => Len(GetBytes(x.v)) <= n
    <3>1. ASSUME is_char_array(f)
          PROVE  Len(GetBytes(x.v)) <= n
      <4>1. x.v \in Seq(Nat) /\ n \in Nat
        <5>1. StringValue("C#", x)
          <6> HIDE DEF x
          <6>1. QED
            BY <1>1, <1>3, StringValues
        <5>2. f \in Fields
          BY <1>3, AllItemsFacts
        <5>3. QED
          BY <1>1, <5>1, <5>2, StringTypes DEF StringValue
      <4>2. GetBytes(x.v) \in Seq(Byte)
        BY <4>1, GetBytesFacts DEF Bytes
      <4>3. Len(GetBytes(x.v)) \in Nat
        BY <4>2, LenProperties
      <4>4. ~(Len(GetBytes(x.v)) > n)
        BY <2>1, <3>1 DEF CsTooLong, CsWhole
      <4>5. QED
        BY <4>1, <4>3, <4>4
    <3>2. QED
      BY <3>1
  <2> HIDE DEF text
  <2>4. CASE Emitted(text)
    BY <1>1, <1>5, <2>1, <2>2, <2>3, <2>4, LeafMessage
  <2>5. CASE GivesUp("failed")
    BY <1>1, <2>5, GivesUpMessage
  <2>6. QED
    BY <2>1, <2>4, <2>5
<1>8. CASE GivesUp("failed") \/ GivesUp("thrown")
  BY <1>1, <1>8, GivesUpMessage
<1>9. QED
  BY <1>4, <1>6, <1>7, <1>8

\* A list of structs.
LEMMA CsWriteListMessage ==
    ASSUME BufferInv, MessageInv, CsWriteList
    PROVE  MessageInv'
<1> DEFINE x == Work
           count == Min({Len(x.v), x.f.array_len})
           items == Elements(x.f, Cut(x.v, count)) \o
                       [i \in 1 .. x.f.array_len - count |->
                           [Item(Element(x.f), <<>>) EXCEPT !.fill = TRUE]]
<1>1. Writes("C#") /\ Unchanging /\ IsArray(x.f) /\ IsStruct(x.f) /\ Expands(items)
  BY DEF CsWriteList
<1>2. AtWork("C#")
  BY <1>1, AtItem
<1>3. x \in AllItems("C#")
  BY <1>2 DEF AtWork
<1>4. items = Parts("C#", x)
  <2> HIDE DEF x
  <2>1. QED
    BY <1>1, <1>3, CsListParts
<1>5. QED
  BY <1>1, <1>4, PartsMessage

\* An array of scalars.
LEMMA CsWriteArrayMessage ==
    ASSUME BufferInv, MessageInv, CsWriteArray
    PROVE  MessageInv'
<1> DEFINE x == Work
           items == Elements(x.f, PaddedWith(0, x.v, x.f.array_len))
<1>1. Writes("C#") /\ Unchanging /\ IsArray(x.f) /\ ~IsStruct(x.f) /\ ~field_is_string(x.f)
      /\ Expands(items)
  BY DEF CsWriteArray
<1>2. AtWork("C#")
  BY <1>1, AtItem
<1>3. x \in AllItems("C#")
  BY <1>2 DEF AtWork
<1>4. x.fill = FALSE
  <2>1. x \in CsItems
    BY <1>1, NextItem DEF Items
  <2>2. QED
    BY <1>1, <2>1, ItemFacts
<1>5. items = Parts("C#", x)
  <2> HIDE DEF x
  <2>1. QED
    BY <1>1, <1>3, <1>4, CsArrayParts
<1>6. QED
  BY <1>1, <1>5, PartsMessage

\* A nested struct, null or not.
LEMMA CsWriteStructMessage ==
    ASSUME BufferInv, MessageInv, CsWriteStruct
    PROVE  MessageInv'
<1> DEFINE x == Work
           items == FieldsOf(x.f.wire_type, x.v[1])
<1>1. Writes("C#") /\ Unchanging /\ ~IsArray(x.f) /\ IsStruct(x.f) /\ ~x.fill
      /\ ((x.v # <<>> /\ Expands(items)) \/ GivesUp("null"))
  BY DEF CsWriteStruct
<1>2. AtWork("C#")
  BY <1>1, AtItem
<1>3. x \in AllItems("C#")
  BY <1>2 DEF AtWork
<1>4. x.fill = FALSE
  BY <1>1, <1>3, AllItemsFacts
<1>5. CASE x.v # <<>> /\ Expands(items)
  <2>1. items = Parts("C#", x)
    <3> HIDE DEF x
    <3>1. QED
      BY <1>1, <1>3, <1>4, <1>5, CsStructParts
  <2>2. QED
    BY <1>1, <1>5, <2>1, PartsMessage
<1>6. CASE GivesUp("null")
  BY <1>1, <1>6, GivesUpMessage
<1>7. QED
  BY <1>1, <1>5, <1>6

\* A scalar of C#.
LEMMA CsWriteScalarMessage ==
    ASSUME BufferInv, MessageInv, CsWriteScalar
    PROVE  MessageInv'
<1> DEFINE x == Work
           bytes == CsWrite(x.v, x.f, big_endian)
<1>1. Writes("C#") /\ Unchanging /\ ~IsArray(x.f) /\ ~IsStruct(x.f) /\ (Emitted(bytes) \/ GivesUp("failed"))
  BY DEF CsWriteScalar, CsEmit
<1>2. AtWork("C#")
  BY <1>1, AtItem
<1>3. x \in AllItems("C#")
  BY <1>2 DEF AtWork
<1>4. bytes = LeafBytes("C#", fixed_mode, big_endian, x) /\ IsLeaf(x.f)
  <2> HIDE DEF x
  <2>1. bytes = ScalarBytes(x.f, x.v, big_endian)
    BY <1>1, <1>3, ScalarWritten
  <2>2. QED
    BY <1>1, <2>1 DEF LeafBytes, IsLeaf, field_is_string
<1>5. CASE Emitted(bytes)
  <2>1. ~is_char_array(x.f)
    BY <1>1 DEF is_char_array
  <2> HIDE DEF bytes
  <2>2. QED
    BY <1>1, <1>4, <1>5, <2>1, LeafMessage
<1>6. CASE GivesUp("failed")
  BY <1>1, <1>6, GivesUpMessage
<1>7. QED
  BY <1>1, <1>5, <1>6

\* What is in the middle is in all of it.
LEMMA InMiddle ==
    ASSUME NEW S, NEW s \in Seq(S), NEW l \in Seq(S), NEW t \in Seq(S), NEW i \in 1 .. Len(l)
    PROVE  l[i] \in ToSet(s \o (l \o t))
<1> DEFINE b == l \o t
           a == s \o b
           j == Len(s) + i
<1>1. Len(s) \in Nat /\ Len(l) \in Nat /\ Len(t) \in Nat
  BY LenProperties
<1>2. b \in Seq(S) /\ Len(b) = Len(l) + Len(t) /\ b[i] = l[i]
  BY <1>1, ConcatProperties
<1> HIDE DEF b
<1>3. a \in Seq(S) /\ Len(a) = Len(s) + Len(b)
  BY <1>2, ConcatProperties
<1>8. \A k \in 1 .. Len(s) + Len(b) : a[k] = IF k <= Len(s) THEN s[k] ELSE b[k - Len(s)]
  BY <1>2, ConcatProperties
<1>4. j \in 1 .. Len(s) + Len(b) /\ ~(j <= Len(s)) /\ j - Len(s) = i
  BY <1>1, <1>2
<1> HIDE DEF a, j
<1>5. a[j] = l[i] /\ j \in DOMAIN a
  BY <1>2, <1>3, <1>4, <1>8, LenProperties
<1>6. a[j] \in ToSet(a)
  BY <1>5 DEF ToSet
<1>7. QED
  BY <1>5, <1>6 DEF a, b

\* A cleared slot: its zeros are the bytes of the struct of zeros it means.
LEMMA FilledMessage ==
    ASSUME BufferInv, MessageInv, CsFill
    PROVE  MessageInv'
<1> DEFINE x == Work
           rest == Tail(todo)
           n == StructMaxSize(x.f.wire_type)
           l == Leaves("C#", <<x>>)
           A == AllItems("C#")
           E == EndItems("C#")
           W == WritableLeaves("C#", fixed_mode)
<1>1. Writes("C#") /\ Unchanging /\ x.fill /\ (Emitted(Zeros(n)) \/ GivesUp("thrown"))
  BY DEF CsFill, Zeros
<1>2. AtWork("C#")
  BY <1>1, AtItem
<1>3. x \in A /\ fixed_mode \in BOOLEAN /\ rest \in Seq(A)
      /\ (~HasGap => Wrote("C#", fixed_mode, big_endian, Meant, <<x>> \o rest, buf))
  BY <1>2 DEF AtWork
<1>4. x.fill = TRUE
  BY <1>1, <1>3, AllItemsFacts
<1>5. x.f \in Fields /\ IsStruct(x.f) /\ ~IsArray(x.f) /\ ItemSize(x.f, fixed_mode) \in Nat
  <2>1. x.f \in Fields /\ IsStruct(x.f) /\ ~IsArray(x.f)
    BY <1>1, FillItem
  <2>2. x.f \in SizedFields
    BY <1>3, AllItemsFacts
  <2>3. QED
    BY <1>3, <2>1, <2>2 DEF SizedFields
<1>6. ItemSize(x.f, fixed_mode) = n
  <2> DEFINE f == x.f
  <2> HIDE DEF x
  <2>1. ~field_is_string(f)
    BY <1>5 DEF field_is_string
  <2>2. ItemSize(f, fixed_mode) = 1 * MaxSize(f.wire_type, fixed_mode) + 0
        /\ MaxSize(f.wire_type, fixed_mode) \in Nat
    BY <1>3, <1>5, <2>1, FieldSized
  <2>3. n = MaxSize(f.wire_type, fixed_mode)
    BY DEF StructMaxSize, MaxSize
  <2> HIDE DEF n
  <2>4. QED
    BY <2>2, <2>3
<1>7. x \in Filled
  BY <1>3, <1>4 DEF Filled
<1> HIDE DEF x, rest, n
<1>8. <<x>> \in Seq(A) /\ LeavesOk("C#") /\ l \in Seq(Filled)
  BY <1>3, <1>7, LeavesFacts, FilledLeaves
<1>9. l \in Seq(E)
  BY <1>8 DEF LeavesOk
<1>10. \A i \in DOMAIN l : l[i].fill = TRUE /\ l[i] \in E /\ l[i] \in A /\ IsLeaf(l[i].f)
  <2>1. \A i \in DOMAIN l : l[i] \in Filled /\ l[i] \in E
    <3> HIDE DEF l, E
    <3>1. QED
      BY <1>8, <1>9, ElementOfSeq, LenProperties
  <2> HIDE DEF l
  <2>2. QED
    BY <2>1 DEF Filled, EndItems, IsEnd, IsNull
<1>11. ASSUME ~HasGap
       PROVE  \A i \in DOMAIN l : field_is_string(l[i].f) => fixed_mode = TRUE
  <2> DEFINE r == Leaves("C#", rest)
  <2>1. PICK done \in Seq(W) : Meant = done \o Leaves("C#", <<x>> \o rest)
    BY <1>3, <1>11 DEF Wrote
  <2>2. Leaves("C#", <<x>> \o rest) = l \o r /\ r \in Seq(E)
    BY <1>3, <1>8 DEF LeavesOk
  <2>3. done \in Seq(E)
    <3>1. W \subseteq E
      BY DEF WritableLeaves
    <3> HIDE DEF W, E
    <3>2. Seq(W) \subseteq Seq(E)
      BY <3>1, SeqMonotonic
    <3>3. QED
      BY <3>2
  <2>4. DOMAIN l = 1 .. Len(l)
    BY <1>9, LenProperties
  <2> HIDE DEF l, r, E
  <2>5. \A i \in DOMAIN l : l[i] \in ToSet(done \o (l \o r))
    BY <1>9, <2>2, <2>3, <2>4, InMiddle
  <2>6. \A i \in DOMAIN l : l[i] \in ToSet(Meant)
    BY <2>1, <2>2, <2>5
  <2>7. QED
    BY <1>3, <1>10, <1>11, <2>6 DEF HasGap
<1>12. ASSUME ~HasGap
       PROVE  /\ Zeros(n) = Output("C#", fixed_mode, big_endian, <<x>>)
              /\ l \in Seq(W)
  <2>1. BytesOf("C#", fixed_mode, big_endian, l) = Zeros(ItemSize(x.f, fixed_mode))
    BY <1>3, <1>4, <1>11, <1>12, FillBytes
  <2>2. Zeros(n) = Output("C#", fixed_mode, big_endian, <<x>>)
    BY <1>6, <2>1 DEF Output
  <2>3. \A i \in DOMAIN l : l[i] \in W
    <3>1. \A f : is_char_array(f) => field_is_string(f)
      BY DEF is_char_array, field_is_string
    <3>2. QED
      BY <1>10, <1>11, <1>12, <3>1 DEF WritableLeaves
  <2>4. l \in Seq(W)
    <3> DEFINE k == Len(l)
    <3> HIDE DEF l, W
    <3>1. k \in Nat /\ l = [i \in 1 .. k |-> l[i]] /\ \A i \in 1 .. k : l[i] \in W
      BY <1>9, <2>3, LenProperties
    <3> HIDE DEF k
    <3>2. QED
      BY <3>1, AsSequence
  <2>5. QED
    BY <2>2, <2>4
<1> DEFINE bytes == Zeros(n)
<1>13. ~HasGap => /\ bytes = Output("C#", fixed_mode, big_endian, <<Work>>)
                  /\ "C#" = "C#" => Leaves("C#", <<Work>>) \in Seq(WritableLeaves("C#", fixed_mode))
  BY <1>12 DEF x
<1> HIDE DEF bytes
<1>14. CASE Emitted(bytes)
  BY <1>1, <1>13, <1>14, EmittedMessage
<1>15. CASE GivesUp("thrown")
  BY <1>1, <1>15, GivesUpMessage
<1>16. QED
  BY <1>1, <1>14, <1>15 DEF bytes

\* The end of the writing.
LEMMA WriteEndsMessage ==
    ASSUME BufferInv, MessageInv, WriteEnds
    PROVE  MessageInv'
<1>1. /\ wstatus = "writing" /\ todo = <<>> /\ wstatus' = "written" /\ UNCHANGED choice
      /\ todo' = todo /\ buf' = buf
  BY DEF WriteEnds
<1>2. writer' = writer /\ fixed_mode' = fixed_mode /\ big_endian' = big_endian
  BY <1>1 DEF choice
<1>3. Meant' = Meant /\ HasGap' = HasGap /\ MessageGiven' = MessageGiven
  BY <1>1, SameMeant
<1>4. Wrote(writer, fixed_mode, big_endian, Meant, todo, buf)'
         = Wrote(writer, fixed_mode, big_endian, Meant, todo, buf)
  BY <1>1, <1>2, <1>3
<1>5. (todo \in Seq(AllItems(writer)))'
  BY <1>1, <1>2 DEF MessageInv
<1>6. QED
  BY <1>1, <1>3, <1>4, <1>5 DEF MessageInv

\* Delivering and reading change nothing of the writer.
LEMMA OthersMessage ==
    ASSUME MessageInv, UNCHANGED <<choice, writing>>
    PROVE  MessageInv'
<1>1. /\ UNCHANGED choice /\ wstatus' = wstatus /\ todo' = todo /\ buf' = buf
  BY DEF writing
<1>2. writer' = writer /\ fixed_mode' = fixed_mode /\ big_endian' = big_endian
  BY <1>1 DEF choice
<1>3. Meant' = Meant /\ HasGap' = HasGap /\ MessageGiven' = MessageGiven
  BY <1>1, SameMeant
<1>4. Wrote(writer, fixed_mode, big_endian, Meant, todo, buf)'
         = Wrote(writer, fixed_mode, big_endian, Meant, todo, buf)
  BY <1>1, <1>2, <1>3
<1>5. (todo \in Seq(AllItems(writer)))'
  BY <1>1, <1>2 DEF MessageInv
<1>6. QED
  BY <1>1, <1>3, <1>4, <1>5 DEF MessageInv

\* At the start nothing is written and the whole message is left.
LEMMA InitMessage == Init => MessageInv
<1> SUFFICES ASSUME Init
             PROVE  MessageInv
  OBVIOUS
<1>1. /\ fixed_mode \in BOOLEAN /\ struct \in DOMAIN Structs /\ writer \in {"C", "C#"}
      /\ message \in MessagesOf(writer, struct)
      /\ todo = FieldsOf(struct, message) /\ buf = <<>> /\ wstatus = "writing"
  BY DEF Init, MessagesOf
<1>2. AreFields(writer, struct, FieldsOf(struct, message))
  BY <1>1, MessageItems
<1>3. todo \in Seq(AllItems(writer))
  BY <1>1, <1>2 DEF AreFields
<1>4. Wrote(writer, fixed_mode, big_endian, Leaves(writer, todo), todo, <<>>)
  BY <1>1, <1>3, WroteNothing
<1>5. Meant = Leaves(writer, todo)
  BY <1>1 DEF Meant
<1>6. QED
  BY <1>1, <1>3, <1>4, <1>5 DEF MessageInv, MessageGiven

\* Every step keeps what is written and what is left one message.
LEMMA NextMessage ==
    ASSUME BufferInv, MessageInv, [Next]_vars
    PROVE  MessageInv'
<1>1. CASE Write
  BY <1>1, CWriteArrayMessage, CWriteStringMessage, CWriteStructMessage, CWriteScalarMessage,
     CsWriteStringMessage, CsWriteListMessage, FilledMessage, CsWriteArrayMessage,
     CsWriteStructMessage, CsWriteScalarMessage, WriteEndsMessage DEF Write
<1>2. CASE Deliver \/ DeliverCut \/ DeliverChanged
  <2>1. UNCHANGED <<choice, writing>>
    BY <1>2 DEF Deliver, DeliverCut, DeliverChanged, Sent
  <2>2. QED
    BY <2>1, OthersMessage
<1>3. CASE Read
  <2>1. UNCHANGED <<choice, writing>>
    BY <1>3 DEF Read, CReadStruct, CReadArray, CReadScalar, CReadString, CsReadStruct, CsReadArray,
                CsReadScalar, CsReadString, StreamRead, ReadEnds, Nested, Loop, StillReading
  <2>2. QED
    BY <2>1, OthersMessage
<1>4. CASE UNCHANGED vars
  <2>1. UNCHANGED <<choice, writing>>
    BY <1>4 DEF vars
  <2>2. QED
    BY <2>1, OthersMessage
<1>5. QED
  BY <1>1, <1>2, <1>3, <1>4 DEF Next

\* What a writer that ended has written: all of what is meant, and nothing but scalars and
\* strings, of C# in variable mode none too long for its array.
WholeWritten ==
    /\ writer \in {"C", "C#"} /\ fixed_mode \in BOOLEAN /\ big_endian \in BOOLEAN
    /\ buf \in Bytes
    /\ Meant \in Seq(EndItems(writer)) /\ Meant \in Seq(WritableLeaves(writer, fixed_mode))
    /\ buf = BytesOf(writer, fixed_mode, big_endian, Meant)

\* A writer that ended has written all of what is meant.
LEMMA MessageWritten ==
    ASSUME BufferInv, MessageInv, wstatus = "written", ~HasGap
    PROVE  WholeWritten
<1> DEFINE items == FieldsOf(struct, message)
<1>1. /\ writer \in {"C", "C#"} /\ fixed_mode \in BOOLEAN /\ big_endian \in BOOLEAN
      /\ struct \in DOMAIN Structs /\ message \in MessagesOf(writer, struct) /\ todo = <<>>
      /\ buf \in Bytes
  BY DEF BufferInv, Chosen, Written, MessageInv, MessageGiven
<1>2. Wrote(writer, fixed_mode, big_endian, Meant, <<>>, buf)
  BY <1>1 DEF MessageInv
<1>3. buf = BytesOf(writer, fixed_mode, big_endian, Meant)
      /\ (writer = "C#" => Meant \in Seq(WritableLeaves(writer, fixed_mode)))
  BY <1>1, <1>2, WroteAll
<1>4. AreFields(writer, struct, items)
  BY <1>1, MessageItems
<1>5. items \in Seq(AllItems(writer))
  BY <1>4 DEF AreFields
<1>6. LeavesOk(writer)
  BY <1>1, LeavesFacts
<1> HIDE DEF items
<1>7. Leaves(writer, items) \in Seq(EndItems(writer))
  BY <1>5, <1>6 DEF LeavesOk
<1>8. Meant \in Seq(EndItems(writer))
  BY <1>7 DEF Meant, items
<1>9. writer = "C" => EndItems(writer) \subseteq WritableLeaves(writer, fixed_mode)
  BY DEF EndItems, WritableLeaves, IsEnd, IsNull
<1>10. writer = "C" => Meant \in Seq(WritableLeaves(writer, fixed_mode))
  <2> DEFINE E == EndItems(writer)
             W == WritableLeaves(writer, fixed_mode)
             s == Meant
  <2>1. s \in Seq(E) /\ (writer = "C" => E \subseteq W)
    BY <1>8, <1>9
  <2> HIDE DEF E, W, s
  <2>2. writer = "C" => s \in Seq(W)
    BY <2>1, SeqMonotonic
  <2>3. QED
    BY <2>2 DEF E, W, s
<1>11. QED
  BY <1>1, <1>3, <1>8, <1>10 DEF WholeWritten

-----------------------------------------------------------------------------
(* The emitted size functions. *)

LengthsOf(who, fixed, big) == [m \in EndItems(who) |-> Len(BytesFn(who, fixed, big)[m])]

\* The bytes of leaves are as many as those of each of them.
LEMMA LeavesLength ==
    ASSUME NEW who \in {"C", "C#"}, NEW fixed \in BOOLEAN, NEW big, NEW s \in Seq(EndItems(who))
    PROVE  Len(BytesOf(who, fixed, big, s)) = SumOf(LengthsOf(who, fixed, big), s)
<1> DEFINE A == EndItems(who)
           g == BytesFn(who, fixed, big)
           h == LengthsOf(who, fixed, big)
<1>1. \A m \in A : m \in AllItems(who) /\ (IsLeaf(m.f) => LeafBytes(who, fixed, big, m) \in Seq(Byte))
  BY LeafFacts DEF EndItems
<1>2. g \in [A -> Seq(Byte)]
  <2>1. <<>> \in Seq(Byte)
    OBVIOUS
  <2>2. QED
    BY <1>1, <2>1 DEF BytesFn
<1>3. DOMAIN h = A /\ \A m \in A : h[m] = Len(g[m])
  BY DEF LengthsOf
<1>4. h = [m \in A |-> h[m]]
  BY DEF LengthsOf
<1>5. s \in Seq(A) /\ BytesOf(who, fixed, big, s) = Spread(g, s)
  BY DEF BytesOf
<1> HIDE DEF A, g, h
<1>6. \A m \in A : h[m] \in Nat
  BY <1>2, <1>3, LenProperties
<1>7. h \in [A -> Nat]
  BY <1>4, <1>6
<1>8. LengthsSum(A, g)
  BY <1>2, SpreadLength
<1>9. Len(Spread(g, s)) = SumOf(h, s)
  BY <1>3, <1>5, <1>7, <1>8 DEF LengthsSum
<1>10. QED
  BY <1>5, <1>9 DEF h

\* The sizes that the emitted functions add up.
CSize(f, v) == IF field_is_string(f)
               THEN length_prefix_size(f.array_len) + Len(TextOf(v)) * SizeOf(f)
               ELSE SizeOf(f)
CsSize(f, v) == IF is_char_array(f)
                THEN length_prefix_size(f.array_len) + Min({Len(GetBytes(v)), f.array_len})
                ELSE IF is_wchar_array(f)
                THEN length_prefix_size(f.array_len) + Min({Len(v), f.array_len}) * 2
                ELSE SizeOf(f)

\* A leaf in C is as long as the emitted size function counts.
LEMMA CLeafLength ==
    ASSUME NEW m \in EndItems("C"), NEW fixed \in BOOLEAN, fixed = FALSE, NEW big
    PROVE  LengthsOf("C", fixed, big)[m] = CSize(m.f, m.v)
<1>1. m \in AllItems("C") /\ IsLeaf(m.f)
  BY DEF EndItems, IsEnd, IsNull
<1>2. LengthsOf("C", fixed, big)[m] = Len(LeafBytes("C", fixed, big, m))
  BY <1>1 DEF LengthsOf, BytesFn
<1>3. Len(LeafBytes("C", fixed, big, m)) = LeafSize("C", fixed, m)
  BY <1>1, LeafFacts
<1>4. field_is_string(m.f) => Len(RawOf("C", fixed, m)) = Len(TextOf(m.v))
  <2> SUFFICES ASSUME field_is_string(m.f)
               PROVE  Len(RawOf("C", fixed, m)) = Len(TextOf(m.v))
    OBVIOUS
  <2> DEFINE v == m.v
  <2>1. StringValue("C", m)
    BY <1>1, StringValues
  <2>2. v \in Seq(Int)
    BY <2>1 DEF StringValue
  <2> HIDE DEF v
  <2>3. TextOf(v) \in Seq(Int)
    BY <2>2, TextFacts
  <2>4. DOMAIN TextOf(v) = 1 .. Len(TextOf(v)) /\ Len(TextOf(v)) \in Nat
    BY <2>3, LenProperties
  <2>5. RawOf("C", fixed, m) = [i \in 1 .. Len(TextOf(v)) |-> ToUnsigned(m.v[i], SizeOf(m.f))]
    BY <2>4 DEF RawOf, UnitsBy, v
  <2>6. Len(RawOf("C", fixed, m)) = Len(TextOf(v))
    BY <2>4, <2>5
  <2>7. QED
    BY <2>6 DEF v
<1>5. LeafSize("C", fixed, m) = CSize(m.f, m.v)
  BY <1>4, Zenon DEF LeafSize, CSize, PrefixOf
<1>6. QED
  BY <1>2, <1>3, <1>5

\* A leaf in C#, that could be written, is as long as SizeOfStruct counts.
LEMMA CsLeafLength ==
    ASSUME NEW fixed \in BOOLEAN, fixed = FALSE, NEW m \in WritableLeaves("C#", fixed), NEW big
    PROVE  LengthsOf("C#", fixed, big)[m] = CsSize(m.f, m.v)
<1> DEFINE f == m.f
           v == m.v
           n == f.array_len
<1>1. m \in AllItems("C#") /\ IsLeaf(m.f) /\ m \in EndItems("C#") /\ f \in Fields
      /\ (is_char_array(f) => Len(GetBytes(v)) <= n)
  BY AllItemsFacts DEF EndItems, WritableLeaves
<1>2. LengthsOf("C#", fixed, big)[m] = Len(LeafBytes("C#", fixed, big, m))
  BY <1>1 DEF LengthsOf, BytesFn
<1>3. Len(LeafBytes("C#", fixed, big, m)) = LeafSize("C#", fixed, m)
  BY <1>1, LeafFacts
<1>4. CASE ~field_is_string(f)
  <2>1. ~is_char_array(f) /\ ~is_wchar_array(f)
    BY <1>4 DEF field_is_string, is_char_array, is_wchar_array
  <2>2. QED
    BY <1>2, <1>3, <1>4, <2>1 DEF LeafSize, CsSize
<1>5. CASE field_is_string(f)
  <2> DEFINE raw == RawOf("C#", fixed, m)
             lp == length_prefix_size(n)
  <2>1. StringValue("C#", m)
    BY <1>1, <1>5, StringValues
  <2>2. v \in Seq(Nat)
    BY <2>1 DEF StringValue
  <2>3. /\ n \in Nat /\ (is_char_array(f) \/ is_wchar_array(f))
        /\ (is_char_array(f) => SizeOf(f) = 1) /\ (is_wchar_array(f) => SizeOf(f) = 2)
    BY <1>1, <1>5, StringTypes
  <2>4. lp \in Widths
    BY <1>1, PrefixTypes
  <2>5. ~(is_char_array(f) /\ is_wchar_array(f))
    BY DEF is_char_array, is_wchar_array
  <2>6. LeafSize("C#", fixed, m) = lp + Len(raw) * SizeOf(f)
    BY <1>5 DEF LeafSize, PrefixOf
  <2>7. raw = IF is_char_array(f) THEN GetBytes(Fitting(v, n)) ELSE Cut(v, n)
    BY DEF RawOf, UnitsBy
  <2>8. CsSize(f, v) = IF is_char_array(f) THEN lp + Min({Len(GetBytes(v)), n})
                       ELSE lp + Min({Len(v), n}) * 2
    BY <2>3 DEF CsSize
  <2> HIDE DEF f, v, n, raw, lp
  <2>9. CASE is_char_array(f)
    <3> DEFINE l == Len(GetBytes(v))
    <3>1. GetBytes(v) \in Bytes
      BY <2>2, GetBytesFacts
    <3>2. l \in Nat /\ l <= n
      BY <1>1, <2>9, <3>1, LenProperties DEF Bytes
    <3>3. Fitting(v, n) = v
      BY <2>2, <2>3, <3>2, FittingFits
    <3>4. Len(raw) = l
      BY <2>7, <2>9, <3>3
    <3> HIDE DEF l
    <3>5. l \in Int /\ n \in Int
      BY <2>3, <3>2
    <3>10. Min({l, n}) \in {l, n} /\ Min({l, n}) <= l /\ Min({l, n}) <= n
      BY <3>5, MinOfTwo
    <3>6. Min({l, n}) = l
      BY <2>3, <3>2, <3>5, <3>10
    <3>7. CsSize(f, v) = lp + l
      BY <2>8, <2>9, <3>6 DEF l
    <3>8. LeafSize("C#", fixed, m) = lp + l
      BY <2>3, <2>6, <2>9, <3>2, <3>4
    <3>9. QED
      BY <1>2, <1>3, <3>7, <3>8 DEF f, v
  <2>10. CASE ~is_char_array(f)
    <3> DEFINE l == Len(v)
               k == Len(Cut(v, n))
    <3>1. l \in Nat /\ l \in Int /\ n \in Int
      BY <2>2, <2>3, LenProperties
    <3>2. k \in Nat /\ k <= n /\ k <= l /\ (k = n \/ k = l)
      BY <2>2, <2>3, CutFacts
    <3>3. Len(raw) = k
      BY <2>7, <2>10
    <3>4. CsSize(f, v) = lp + Min({l, n}) * 2
      BY <2>8, <2>10
    <3> HIDE DEF l, k
    <3>5. Min({l, n}) \in {l, n} /\ Min({l, n}) <= l /\ Min({l, n}) <= n
      BY <3>1, MinOfTwo
    <3>6. Min({l, n}) = k
      BY <2>3, <3>1, <3>2, <3>5
    <3>7. SizeOf(f) = 2
      BY <2>3, <2>10
    <3>8. LeafSize("C#", fixed, m) = lp + k * 2
      BY <2>6, <3>3, <3>7
    <3>9. QED
      BY <1>2, <1>3, <3>4, <3>6, <3>8 DEF f, v
  <2>11. QED
    BY <2>9, <2>10
<1>6. QED
  BY <1>4, <1>5

\* The bytes of leaves are as many as a sum of sizes, if each of them is of its size.
LEMMA SameTotal ==
    ASSUME NEW A, NEW s \in Seq(A), NEW h, NEW z, \A m \in A : h[m] = z[m]
    PROVE  SumOf(h, s) = Total([i \in DOMAIN s |-> z[s[i]]])
<1>1. \A i \in DOMAIN s : s[i] \in A
  BY ElementOfSeq, LenProperties
<1>2. [i \in DOMAIN s |-> h[s[i]]] = [i \in DOMAIN s |-> z[s[i]]]
  BY <1>1
<1>3. QED
  BY <1>2 DEF SumOf

\* The size function of C is right.
LEMMA CActual ==
    ASSUME BufferInv, MessageInv, wstatus = "written", ~fixed_mode, writer = "C"
    PROVE  Len(buf) = size_fn(FieldsOf(struct, message))
<1> DEFINE s == Meant
           E == EndItems("C")
           h == LengthsOf("C", fixed_mode, big_endian)
           z == [m \in E |-> CSize(m.f, m.v)]
<1>1. struct \in DOMAIN Structs /\ message \in MessagesOf("C", struct)
  BY DEF BufferInv, Chosen, MessageInv, MessageGiven
<1>2. AreFields("C", struct, FieldsOf(struct, message))
  BY <1>1, MessageItems
<1>3. FieldsOf(struct, message) \in Seq(AllItems("C"))
  BY <1>2 DEF AreFields
<1>4. LeavesOk("C")
  BY LeavesFacts
<1>5. s \in Seq(E)
  BY <1>3, <1>4 DEF LeavesOk, Meant
<1>6. ~HasGap
  <2> SUFFICES ASSUME NEW leaf \in ToSet(Meant), leaf.fill
               PROVE  FALSE
    BY DEF HasGap
  <2>1. leaf \in E
    <3> HIDE DEF E
    <3>1. \A i \in DOMAIN s : s[i] \in E
      BY <1>5, ElementOfSeq, LenProperties
    <3>2. QED
      BY <3>1 DEF ToSet
  <2>2. leaf \in AllItems("C")
    BY <2>1 DEF EndItems
  <2>3. ProperItem("C", leaf) /\ leaf.fill \in BOOLEAN
    BY <2>2, AllItemsFacts
  <2>4. leaf.fill = TRUE
    BY <2>3
  <2>5. QED
    BY <2>3, <2>4 DEF ProperItem
<1>7. WholeWritten
  BY <1>6, MessageWritten
<1>8. PICK fixed \in BOOLEAN : fixed = FALSE
  OBVIOUS
<1>9. fixed_mode = fixed
  BY <1>7, <1>8 DEF WholeWritten
<1>10. buf = BytesOf("C", fixed_mode, big_endian, s) /\ fixed_mode \in BOOLEAN
  BY <1>7 DEF WholeWritten
<1>11. Len(buf) = SumOf(h, s)
  BY <1>5, <1>10, LeavesLength
<1>12. \A m \in E : h[m] = z[m]
  <2> SUFFICES ASSUME NEW m \in E
               PROVE  h[m] = z[m]
    OBVIOUS
  <2>1. LengthsOf("C", fixed, big_endian)[m] = CSize(m.f, m.v)
    BY <1>8, CLeafLength
  <2>2. QED
    BY <1>9, <2>1
<1>13. size_fn(FieldsOf(struct, message)) = Total([i \in DOMAIN s |-> CSize(s[i].f, s[i].v)])
  <2>1. s = Leaves("C", FieldsOf(struct, message))
    BY DEF Meant
  <2>2. QED
    BY <2>1, Zenon DEF size_fn, CSize
<1>14. [i \in DOMAIN s |-> CSize(s[i].f, s[i].v)] = [i \in DOMAIN s |-> z[s[i]]]
  <2>1. \A i \in DOMAIN s : s[i] \in E
    <3> HIDE DEF E, s
    <3>1. QED
      BY <1>5, ElementOfSeq, LenProperties
  <2>2. \A m \in E : z[m] = CSize(m.f, m.v)
    OBVIOUS
  <2> HIDE DEF E, s, z
  <2>3. QED
    BY <2>1, <2>2
<1> HIDE DEF E, s, z, h
<1>15. SumOf(h, s) = Total([i \in DOMAIN s |-> z[s[i]]])
  BY <1>5, <1>12, SameTotal
<1>16. QED
  BY <1>11, <1>13, <1>14, <1>15

\* SizeOfStruct of C# is right about full lists.
LEMMA CsActual ==
    ASSUME BufferInv, MessageInv, wstatus = "written", ~fixed_mode, writer = "C#", ~ShortList
    PROVE  Len(buf) = SizeOfStruct(FieldsOf(struct, message))
<1> DEFINE s == Meant
           W == WritableLeaves("C#", fixed_mode)
           h == LengthsOf("C#", fixed_mode, big_endian)
           z == [m \in W |-> CsSize(m.f, m.v)]
<1>1. ~HasGap
  BY DEF HasGap, ShortList
<1>2. WholeWritten
  BY <1>1, MessageWritten
<1>3. /\ s \in Seq(EndItems("C#")) /\ s \in Seq(W) /\ fixed_mode \in BOOLEAN
      /\ buf = BytesOf("C#", fixed_mode, big_endian, s)
  BY <1>2 DEF WholeWritten
<1>4. PICK fixed \in BOOLEAN : fixed = FALSE
  OBVIOUS
<1>5. fixed_mode = fixed
  BY <1>3, <1>4
<1>6. Len(buf) = SumOf(h, s)
  BY <1>3, LeavesLength
<1>7. \A m \in W : h[m] = z[m]
  <2> SUFFICES ASSUME NEW m \in W
               PROVE  h[m] = z[m]
    OBVIOUS
  <2>1. m \in WritableLeaves("C#", fixed)
    BY <1>5
  <2>2. LengthsOf("C#", fixed, big_endian)[m] = CsSize(m.f, m.v)
    BY <1>4, <2>1, CsLeafLength
  <2>3. QED
    BY <1>5, <2>2
<1>8. \A i \in DOMAIN s : s[i] \in W /\ ~s[i].fill /\ ~IsStruct(s[i].f)
  <2>1. \A i \in DOMAIN s : s[i] \in W
    <3> HIDE DEF W, s
    <3>1. QED
      BY <1>3, ElementOfSeq, LenProperties
  <2>2. \A i \in DOMAIN s : ~s[i].fill
    BY DEF ShortList, ToSet
  <2>3. \A m \in W : IsLeaf(m.f) /\ m.f \in Fields
    BY AllItemsFacts DEF WritableLeaves, EndItems
  <2>4. \A m \in W : ~IsStruct(m.f)
    BY <2>3, StringTypes DEF IsLeaf
  <2>5. QED
    BY <2>1, <2>2, <2>4
<1>9. SizeOfStruct(FieldsOf(struct, message))
         = Total([i \in DOMAIN s |-> IF s[i].fill \/ IsStruct(s[i].f) THEN 0 ELSE CsSize(s[i].f, s[i].v)])
  <2>1. s = Leaves("C#", FieldsOf(struct, message))
    BY DEF Meant
  <2>2. QED
    BY <2>1, Zenon DEF SizeOfStruct, CsSize
<1>10. [i \in DOMAIN s |-> IF s[i].fill \/ IsStruct(s[i].f) THEN 0 ELSE CsSize(s[i].f, s[i].v)]
          = [i \in DOMAIN s |-> z[s[i]]]
  <2>1. \A m \in W : z[m] = CsSize(m.f, m.v)
    OBVIOUS
  <2> HIDE DEF W, s, z
  <2>2. QED
    BY <1>8, <2>1
<1> HIDE DEF W, s, z, h
<1>11. SumOf(h, s) = Total([i \in DOMAIN s |-> z[s[i]]])
  BY <1>3, <1>7, SameTotal
<1>12. QED
  BY <1>6, <1>9, <1>10, <1>11

\* In variable mode the emitted size functions return, of any message, how many bytes its
\* writer writes: of C always, of C# if no list of it is short (buffers_gen_c.py and
\* buffers_gen_cs.py, the size functions).
THEOREM ActualSizes == Spec => []SizeIsActual
<1>1. Init => BufferInv /\ MessageInv
  BY InitBuffer, InitMessage
<1>2. BufferInv /\ MessageInv /\ [Next]_vars => (BufferInv /\ MessageInv)'
  BY NextBuffer, NextMessage
<1>3. BufferInv /\ MessageInv => SizeIsActual
  <2> SUFFICES ASSUME BufferInv, MessageInv, wstatus = "written", ~fixed_mode,
                      writer = "C#" => ~ShortList
               PROVE  Len(buf) = IF writer = "C" THEN size_fn(FieldsOf(struct, message))
                                 ELSE SizeOfStruct(FieldsOf(struct, message))
    BY DEF SizeIsActual
  <2>1. writer \in {"C", "C#"}
    BY DEF BufferInv, Chosen
  <2>2. CASE writer = "C"
    BY <2>2, CActual
  <2>3. CASE writer = "C#"
    BY <2>3, CsActual
  <2>4. QED
    BY <2>1, <2>2, <2>3
<1>4. QED
  BY <1>1, <1>2, <1>3, PTL DEF Spec

-----------------------------------------------------------------------------
(* What the readers make of a scalar. *)

\* As Shows, of any message: what reader r stored is what the leaf m means.
ShowsBy(who, fixed, r, stored, m) ==
    LET Bits(x) == ToUnsigned(x, SizeOf(m.f))
        text == IF r = "C" \/ fixed = TRUE THEN TextOf(UnitsBy(who, m)) ELSE UnitsBy(who, m)
    IN  IF field_is_string(m.f)
        THEN CASE r = "C" -> [i \in DOMAIN TextOf(stored) |-> Bits(stored[i])] = text
               [] r # "C" /\ is_char_array(m.f) -> stored = GetString(text)
               [] r # "C" /\ is_wchar_array(m.f) -> stored = text
        ELSE IF m.f.type \in {"char", "wchar_t"} THEN Bits(stored[1]) = Bits(m.v)
        ELSE stored = <<m.v>>

\* A value whose type is no character is what it is read as, and of a character are its
\* bits.
AsWritten(m, x) == IF m.f.type \in {"char", "wchar_t"}
                   THEN ToUnsigned(x, SizeOf(m.f)) = ToUnsigned(m.v, SizeOf(m.f))
                   ELSE x = m.v

\* The wire types of bool and of the characters.
LEMMA CharacterTypes ==
    ASSUME NEW f \in Fields, ~IsStruct(f)
    PROVE  /\ f.type = "bool" => SizeOf(f) = 1 /\ f.wire_type \notin ToSet(Signed)
           /\ f.type \in {"char", "wchar_t"} => f.wire_type \in ToSet(Signed) /\ SizeOf(f) \in {1, 2}
           /\ CType(f) = "bool" <=> f.type = "bool" /\ CType(f) = f.type
<1>1. Typed(f)
  BY FieldTypes
<1>2. "bool" \in DOMAIN SCALAR_TYPE_MAP /\ "char" \in DOMAIN SCALAR_TYPE_MAP /\ "wchar_t" \in DOMAIN SCALAR_TYPE_MAP
      /\ SCALAR_TYPE_MAP["bool"] = "uint8_t" /\ SCALAR_TYPE_MAP["char"] = "int8_t"
      /\ SCALAR_TYPE_MAP["wchar_t"] = "int16_t"
  BY DEF SCALAR_TYPE_MAP
<1>3. WIRE_TYPE_SIZES["uint8_t"] = 1 /\ WIRE_TYPE_SIZES["int8_t"] = 1 /\ WIRE_TYPE_SIZES["int16_t"] = 2
  BY DEF WIRE_TYPE_SIZES
<1>4. "uint8_t" \notin ToSet(Signed) /\ "int8_t" \in ToSet(Signed) /\ "int16_t" \in ToSet(Signed)
  BY DEF ToSet, Signed
<1>5. f.type = "bool" => f.wire_type = "uint8_t"
  BY <1>1, <1>2 DEF Typed
<1>6. f.type = "char" => f.wire_type = "int8_t"
  BY <1>1, <1>2 DEF Typed
<1>7. f.type = "wchar_t" => f.wire_type = "int16_t"
  BY <1>1, <1>2 DEF Typed
<1>8. f.wire_type # "bool"
  BY FieldTypes DEF WireType, WIRE_TYPE_SIZES
<1>9. CType(f) = "bool" <=> f.type = "bool" /\ CType(f) = f.type
  BY <1>8 DEF CType
<1>10. f.type = "bool" => SizeOf(f) = 1 /\ f.wire_type \notin ToSet(Signed)
  BY <1>3, <1>4, <1>5 DEF SizeOf
<1>11. f.type \in {"char", "wchar_t"} => f.wire_type \in ToSet(Signed) /\ SizeOf(f) \in {1, 2}
  BY <1>3, <1>4, <1>6, <1>7 DEF SizeOf
<1>12. QED
  BY <1>9, <1>10, <1>11

\* What both readers make of the bytes of a scalar.
ScalarRead(big, m) ==
    /\ AsWritten(m, buffers_read(ScalarBytes(m.f, m.v, big), CType(m.f), big))
    /\ AsWritten(m, CsRead(ScalarBytes(m.f, m.v, big), m.f, big))

\* Both readers make of a scalar's bytes what was written.
LEMMA ScalarNumber ==
    ASSUME NEW who \in {"C", "C#"}, NEW m \in AllItems(who), ~IsArray(m.f), ~IsStruct(m.f), NEW big
    PROVE  ScalarRead(big, m)
<1> DEFINE f == m.f
           v == m.v
           t == f.wire_type
           n == SizeOf(f)
           u == ToUnsigned(v, n)
           l == ScalarBytes(f, v, big)
           s == ToSigned(u, n)
           w == IF t \in ToSet(Signed) THEN s ELSE u
           c == buffers_read(l, CType(f), big)
           d == CsRead(l, f, big)
<1>1. v \in Int /\ Ranged(who, f, v) /\ t \in WireType /\ n \in Widths /\ n \in Nat
  BY ScalarValue, WidthsAreNat
<1>2. f \in Fields
  BY AllItemsFacts
<1>3. CType(f) \in DOMAIN SCALAR_TYPE_MAP /\ SCALAR_TYPE_MAP[CType(f)] = t
  BY <1>2, CTypes
<1>4. u \in 0 .. Values(n) - 1
  BY <1>1, CastFacts
<1>5. /\ f.type = "bool" => n = 1 /\ t \notin ToSet(Signed)
      /\ f.type \in {"char", "wchar_t"} => t \in ToSet(Signed) /\ n \in {1, 2}
      /\ CType(f) = "bool" <=> f.type = "bool" /\ CType(f) = f.type
  BY <1>2, CharacterTypes
<1>6. l = NumBytes(u, n, big)
  BY DEF ScalarBytes
<1>7. Len(l) = n
  BY <1>1, ScalarBytesFacts
<1>8. Ranged(who, f, v) /\ ~IsArray(f) => /\ f.type = "bool" => v \in {0, 1}
                                          /\ f.type \notin {"char", "wchar_t", "bool"}
                                                => v \in Least(t) .. Greatest(t)
  BY DEF Ranged
<1>9. n = WIRE_TYPE_SIZES[t]
  BY DEF SizeOf
<1> HIDE DEF t, n, u
<1>10. NumBytes(u, n, big) = l /\ read_unsigned(NumBytes(u, n, big), big) = u
  BY <1>1, <1>4, <1>6, ReadBack
<1>11. bp_read(NumBytes(u, n, big), t, big) = IF t \in ToSet(Signed) THEN ToSigned(u, n) ELSE u
  BY <1>1, <1>4, BpReadBack
<1>12. read_unsigned(l, big) = u /\ bp_read(l, t, big) = w
  BY <1>6, <1>10, <1>11
<1> HIDE DEF l
<1>13. c = IF CType(f) = "bool" THEN IF u # 0 THEN 1 ELSE 0 ELSE w
  BY <1>3, <1>7, <1>12 DEF buffers_read
<1>14. d = IF f.type = "bool" THEN IF w # 0 THEN 1 ELSE 0
           ELSE IF f.type \in {"char", "wchar_t"} THEN ToUnsigned(w, 2) ELSE w
  BY <1>12 DEF CsRead, t
<1>15. CASE f.type = "bool"
  <2>1. n = 1 /\ v \in {0, 1} /\ w = u
    BY <1>1, <1>5, <1>8, <1>15
  <2>2. v \in Byte
    BY <2>1, ByteBaseAssumption DEF Byte
  <2>3. u = v
    BY <2>1, <2>2, OneNumber DEF u
  <2>4. c = v
    BY <1>5, <1>13, <2>1, <2>3
  <2>5. d = v
    BY <1>14, <1>15, <2>1, <2>3
  <2>6. f.type \notin {"char", "wchar_t"}
    BY <1>15
  <2>7. QED
    BY <2>4, <2>5, <2>6 DEF ScalarRead, AsWritten, l
<1>16. CASE f.type \in {"char", "wchar_t"}
  <2>1. f.type # "bool" /\ w = s /\ n \in {1, 2}
    BY <1>5, <1>16
  <2>2. Signs(u, n)
    BY <1>1, <1>4, BitsOfSigned
  <2>3. ToUnsigned(ToUnsigned(ToSigned(u, n), 2), n) = u
    BY <1>4, <2>1, BitsOfWide
  <2>4. c = s /\ d = ToUnsigned(s, 2)
    BY <1>5, <1>13, <1>14, <1>16, <2>1
  <2>5. ToUnsigned(c, n) = u /\ ToUnsigned(d, n) = u
    BY <2>2, <2>3, <2>4 DEF Signs
  <2>6. QED
    BY <1>16, <2>5 DEF ScalarRead, AsWritten, l, u, n
<1>17. CASE f.type \notin {"char", "wchar_t", "bool"}
  <2>1. v \in Least(t) .. Greatest(t)
    BY <1>1, <1>8, <1>17
  <2>2. v \in Int /\ InBits(v, t, WIRE_TYPE_SIZES[t])
    BY <1>1, <2>1, BitsOfRanged
  <2>3. w = v
    BY <1>9, <2>2 DEF InBits, u
  <2>4. c = v /\ d = v
    BY <1>5, <1>13, <1>14, <1>17, <2>3
  <2>5. f.type \notin {"char", "wchar_t"}
    BY <1>17
  <2>6. QED
    BY <2>4, <2>5 DEF ScalarRead, AsWritten, l
<1>18. QED
  BY <1>15, <1>16, <1>17

\* What is as it was written shows it, to any reader.
LEMMA ScalarShown ==
    ASSUME NEW m, ~field_is_string(m.f), NEW x, AsWritten(m, x), NEW who, NEW fixed, NEW r
    PROVE  ShowsBy(who, fixed, r, <<x>>, m)
BY DEF ShowsBy, AsWritten

-----------------------------------------------------------------------------
(* What the readers make of a string. *)

\* Where the numbers of a string are, after lp bytes.
NumbersIn(b, lp, k, big, raw) ==
    /\ SubSeq(b, lp + 1, lp + Len(raw) * k) = Spread(NumOf(k, big), raw)
    /\ \A i \in 1 .. Len(raw) :
          SubSeq(b, lp + (i - 1) * k + 1, lp + (i - 1) * k + k) = NumBytes(raw[i], k, big)

\* Numbers are found after what is before them.
LEMMA NumbersFound ==
    ASSUME NEW a \in Seq(Byte), NEW k \in {1, 2}, NEW big, NEW raw \in Seq(Nat)
    PROVE  NumbersIn(a \o Spread(NumOf(k, big), raw), Len(a), k, big, raw)
<1> DEFINE g == NumOf(k, big)
           c == Spread(g, raw)
           lp == Len(a)
           n == Len(raw)
<1>1. k \in Nat /\ n \in Nat /\ lp \in Nat
  BY LenProperties
<1>2. c \in Seq(Byte) /\ Len(c) = n * k
  BY <1>1, NumsLength
<1>3. Chunks(g, k, raw)
  BY <1>1, Chunk
<1>4. \A i \in 1 .. n : g[raw[i]] = NumBytes(raw[i], k, big)
  <2> SUFFICES ASSUME NEW i \in 1 .. n
               PROVE  g[raw[i]] = NumBytes(raw[i], k, big)
    OBVIOUS
  <2>1. raw[i] \in Nat
    BY ElementOfSeq
  <2>2. QED
    BY <1>1, <2>1, NumOfLength
<1>5. n * k \in Nat /\ \A i \in 1 .. n : (i - 1) * k \in Nat /\ (i - 1) * k + k <= n * k
  <2>1. CASE k = 1
    BY <1>1, <2>1
  <2>2. CASE k = 2
    BY <1>1, <2>2
  <2>3. QED
    BY <2>1, <2>2
<1>6. \A i \in 1 .. n : SubSeq(c, (i - 1) * k + 1, (i - 1) * k + k) = NumBytes(raw[i], k, big)
  BY <1>3, <1>4 DEF Chunks
<1> DEFINE w == n * k
<1>7. w \in Nat /\ Len(c) = w
  BY <1>2, <1>5
<1> HIDE DEF c, g, n
<1>8. SubSeq(a \o c, lp + 1, lp + w) = c
  <2> HIDE DEF w
  <2>1. SubSeq(c, 1, Len(c)) = c
    BY <1>2, SubSeqFull
  <2>2. SubSeq(c, 0 + 1, 0 + w) = c
    BY <1>7, <2>1
  <2>3. 0 + w <= Len(c) /\ 0 \in Nat
    BY <1>7
  <2>4. SubSeq(a \o c, Len(a) + 0 + 1, Len(a) + 0 + w) = SubSeq(c, 0 + 1, 0 + w)
    BY <1>2, <1>7, <2>3, Window
  <2>5. QED
    BY <1>1, <1>7, <2>2, <2>4
<1>9. ASSUME NEW i \in 1 .. n
      PROVE  SubSeq(a \o c, lp + (i - 1) * k + 1, lp + (i - 1) * k + k) = NumBytes(raw[i], k, big)
  <2> DEFINE p == (i - 1) * k
  <2>1. p \in Nat /\ p + k <= Len(c)
    BY <1>5, <1>7
  <2>2. SubSeq(c, p + 1, p + k) = NumBytes(raw[i], k, big)
    BY <1>6
  <2> HIDE DEF p, w
  <2>3. SubSeq(a \o c, Len(a) + p + 1, Len(a) + p + k) = SubSeq(c, p + 1, p + k)
    BY <1>1, <1>2, <2>1, Window
  <2>4. SubSeq(a \o c, lp + p + 1, lp + p + k) = NumBytes(raw[i], k, big)
    BY <2>2, <2>3
  <2>5. QED
    BY <2>4 DEF p
<1>10. QED
  BY <1>8, <1>9 DEF NumbersIn, c, g, n, w

\* What the bytes of a string are, one after the other.
StringIn(who, fixed, big, m) ==
    LET f == m.f
        lp == PrefixOf(f, fixed)
        raw == RawOf(who, fixed, m)
        n == Len(raw)
        b == LeafBytes(who, fixed, big, m)
    IN  /\ raw \in Seq(Nat) /\ n \in Nat /\ n <= f.array_len /\ f.array_len \in Nat
        /\ \A i \in 1 .. n : raw[i] \in 0 .. Values(SizeOf(f)) - 1
        /\ SizeOf(f) \in {1, 2} /\ lp \in Nat
        /\ b \in Seq(Byte) /\ Len(b) = lp + n * SizeOf(f)
        /\ fixed = TRUE => lp = 0 /\ n = f.array_len
        /\ fixed = FALSE => lp \in Widths /\ n \in 0 .. Values(lp) - 1
                            /\ SubSeq(b, 1, lp) = NumBytes(n, lp, big)
        /\ NumbersIn(b, lp, SizeOf(f), big, raw)

\* Where the length and the units of a string are in its bytes.
LEMMA StringParts ==
    ASSUME NEW who \in {"C", "C#"}, NEW m \in AllItems(who), field_is_string(m.f),
           NEW fixed \in BOOLEAN, NEW big
    PROVE  StringIn(who, fixed, big, m)
<1> DEFINE f == m.f
           k == SizeOf(f)
           lp == PrefixOf(f, fixed)
           ls == length_prefix_size(f.array_len)
           raw == RawOf(who, fixed, m)
           n == Len(raw)
           b == LeafBytes(who, fixed, big, m)
           a == IF fixed = TRUE THEN <<>> ELSE NumBytes(n, ls, big)
           c == Spread(NumOf(k, big), raw)
<1>1. RawNumber(who, fixed, m)
  BY RawNumbers
<1>2. /\ raw \in Seq(Nat) /\ n \in Nat /\ n <= f.array_len /\ f.array_len \in Nat
      /\ k \in {1, 2} /\ ls \in Widths /\ \A i \in 1 .. n : raw[i] \in 0 .. Values(k) - 1
  BY <1>1 DEF RawNumber
<1>3. ls \in Nat
  BY <1>2, WidthsAreNat
<1>4. lp = IF fixed = TRUE THEN 0 ELSE ls
  BY DEF PrefixOf
<1>5. fixed = TRUE => n = f.array_len
  BY RawFacts DEF RawOk
<1>6. f \in SizedFields
  BY AllItemsFacts
<1>7. n \in 0 .. Values(ls) - 1
  BY <1>2, <1>6, PrefixHolds
<1>8. b = a \o c
  BY DEF LeafBytes, StringBytes
<1>9. IsLeaf(f)
  BY DEF IsLeaf
<1>10. b \in Seq(Byte) /\ Len(b) = LeafSize(who, fixed, m)
  BY <1>9, LeafFacts
<1>11. Len(b) = lp + n * k
  BY <1>10 DEF LeafSize
<1>12. k \in Nat
  BY <1>2
<1>13. c \in Seq(Byte) /\ Len(c) = n * k
  BY <1>2, <1>12, NumsLength
<1> HIDE DEF f, raw, n, c, ls, k
<1>14. a \in Seq(Byte) /\ Len(a) = lp
  <2>1. CASE fixed = TRUE
    BY <1>4, <2>1
  <2>2. CASE fixed = FALSE
    <3>1. n \in Int
      BY <1>2
    <3>2. NumBytes(n, ls, big) \in Seq(Byte) /\ Len(NumBytes(n, ls, big)) = ls
      BY <1>3, <3>1, NumBytesType DEF Bytes
    <3>3. QED
      BY <1>4, <2>2, <3>2
  <2>3. QED
    BY <2>1, <2>2
<1>15. fixed = FALSE => SubSeq(b, 1, lp) = NumBytes(n, lp, big)
  <2> SUFFICES ASSUME fixed = FALSE
               PROVE  SubSeq(b, 1, lp) = NumBytes(n, lp, big)
    OBVIOUS
  <2>1. a = NumBytes(n, ls, big) /\ lp = ls /\ Len(a) = ls
    BY <1>4, <1>14
  <2> HIDE DEF a, lp, b
  <2>2. 0 \in Nat /\ 0 + ls <= Len(a)
    BY <1>3, <2>1
  <2>3. SubSeq(a \o c, 0 + 1, 0 + ls) = SubSeq(a, 0 + 1, 0 + ls)
    BY <1>3, <1>13, <1>14, <2>2, Window
  <2>4. SubSeq(a, 1, Len(a)) = a
    BY <1>14, SubSeqFull
  <2>5. QED
    BY <1>3, <1>8, <2>1, <2>3, <2>4
<1>16. NumbersIn(b, lp, k, big, raw)
  <2> HIDE DEF a, lp, b
  <2>1. NumbersIn(a \o Spread(NumOf(k, big), raw), Len(a), k, big, raw)
    BY <1>2, <1>14, NumbersFound
  <2>2. QED
    BY <1>8, <1>14, <2>1 DEF c
<1>17. lp \in Nat /\ (fixed = TRUE => lp = 0) /\ (fixed = FALSE => lp = ls)
  BY <1>3, <1>4
<1> HIDE DEF a, lp, b
<1>18. fixed = FALSE => lp \in Widths /\ n \in 0 .. Values(lp) - 1
  BY <1>2, <1>7, <1>17
<1>19. QED
  BY <1>2, <1>5, <1>10, <1>11, <1>15, <1>16, <1>17, <1>18 DEF StringIn, f, raw, n, k, lp, b

\* What C makes of a number that is a character: it has the number's bits.
IsUnit(f, u, x) == x \in Int /\ ToUnsigned(x, SizeOf(f)) = u /\ (x = 0 <=> u = 0)

\* C reads the bytes of a unit as a character with its bits, zero as NUL.
LEMMA CUnitRead ==
    ASSUME NEW f \in Fields, field_is_string(f), NEW u \in 0 .. Values(SizeOf(f)) - 1, NEW big
    PROVE  IsUnit(f, u, buffers_read(NumBytes(u, SizeOf(f), big), f.type, big))
<1> DEFINE k == SizeOf(f)
           t == f.type
           l == NumBytes(u, k, big)
           s == ToSigned(u, k)
<1>1. t \in {"char", "wchar_t"} /\ k \in {1, 2} /\ ~IsStruct(f) /\ k = WIRE_TYPE_SIZES[f.wire_type]
  BY StringTypes DEF field_is_string, SizeOf
<1>2. f.wire_type \in ToSet(Signed)
  BY <1>1, CharacterTypes
<1>3. SCALAR_TYPE_MAP[t] = f.wire_type
  <2>1. Typed(f)
    BY FieldTypes
  <2>2. t \in DOMAIN SCALAR_TYPE_MAP
    BY <1>1 DEF SCALAR_TYPE_MAP
  <2>3. QED
    BY <2>1, <2>2 DEF Typed
<1>4. k \in Nat /\ k >= 1 /\ k \in Widths
  BY <1>1 DEF Widths
<1>5. u \in 0 .. Values(k) - 1
  OBVIOUS
<1> HIDE DEF k
<1>6. u \in Nat
  BY <1>4, <1>5, LowNumber
<1>7. Len(l) = k
  <2>1. u \in Int
    BY <1>6
  <2>2. QED
    BY <1>4, <2>1, NumBytesType
<1>8. read_unsigned(l, big) = u
  BY <1>4, <1>5, ReadBack
<1>9. t # "bool"
  BY <1>1
<1>10. buffers_read(l, t, big) = s
  BY <1>2, <1>3, <1>7, <1>8, <1>9 DEF buffers_read
<1>11. Signs(u, k)
  BY <1>4, <1>5, BitsOfSigned
<1>12. s \in Int /\ ToUnsigned(s, k) = u
  BY <1>11 DEF Signs
<1>13. PICK h \in Nat : h >= 1 /\ Values(k) = 2 * h /\ Values(k) \div 2 = h
  BY <1>4, HalfOfValues
<1>14. s = IF u >= h THEN u - Values(k) ELSE u
  BY <1>13 DEF ToSigned
<1> DEFINE w == Values(k)
<1>15. w = 2 * h /\ u \in 0 .. w - 1 /\ s = IF u >= h THEN u - w ELSE u
  BY <1>5, <1>13, <1>14
<1> HIDE DEF w, s
<1>16. s = 0 <=> u = 0
  BY <1>6, <1>13, <1>15
<1>17. QED
  BY <1>10, <1>12, <1>16 DEF IsUnit, k

\* What C stores of a string is the text that is meant.
CStored(f, raw, big) ==
    LET array == [i \in 1 .. Len(raw) |-> buffers_read(NumBytes(raw[i], SizeOf(f), big), f.type, big)]
    IN  IF Len(raw) < f.array_len THEN array \o <<0>> ELSE array

\* What C reads of a string shows what was meant by it.
LEMMA CStringShown ==
    ASSUME NEW who \in {"C", "C#"}, NEW m \in AllItems(who), field_is_string(m.f),
           NEW fixed \in BOOLEAN, NEW big
    PROVE  ShowsBy(who, fixed, "C", CStored(m.f, RawOf(who, fixed, m), big), m)
<1> DEFINE f == m.f
           raw == RawOf(who, fixed, m)
           n == Len(raw)
           k == SizeOf(f)
           array == [i \in 1 .. n |-> buffers_read(NumBytes(raw[i], k, big), f.type, big)]
           v == IF n < f.array_len THEN array \o <<0>> ELSE array
           text == TextOf(UnitsBy(who, m))
           shown == [i \in DOMAIN TextOf(v) |-> ToUnsigned(v[i], k)]
<1>1. f \in Fields
  BY AllItemsFacts
<1>2. RawNumber(who, fixed, m)
  BY RawNumbers
<1>3. raw \in Seq(Nat) /\ n \in Nat /\ \A i \in 1 .. n : raw[i] \in 0 .. Values(k) - 1
  BY <1>2 DEF RawNumber
<1>4. TextOf(raw) = text
  BY RawFacts DEF RawOk
<1>5. \A i \in 1 .. n : IsUnit(f, raw[i], array[i])
  BY <1>1, <1>3, CUnitRead
<1>6. array = [i \in 1 .. n |-> array[i]]
  OBVIOUS
<1> HIDE DEF f, raw, n, k, array, text
<1>7. array \in Seq(Int) /\ Len(array) = n
  <2>1. \A i \in 1 .. n : array[i] \in Int
    BY <1>5 DEF IsUnit
  <2>2. QED
    BY <1>3, <1>6, <2>1, AsSequence
<1>8. TextOf(array) = [i \in DOMAIN TextOf(raw) |-> array[i]]
  <2>1. Len(raw) = Len(array)
    BY <1>7 DEF n
  <2>2. \A i \in 1 .. Len(raw) : raw[i] = 0 <=> array[i] = 0
    BY <1>5 DEF IsUnit, n
  <2>3. QED
    BY <1>3, <1>7, <2>1, <2>2, TextAlike, SMTT(30)
<1>9. TextOf(v) = TextOf(array) /\ \A i \in 1 .. n : v[i] = array[i]
  <2>1. CASE n < f.array_len
    <3> DEFINE z == <<0>>
    <3>1. z \in Seq(Int) /\ \A i \in 1 .. Len(z) : z[i] = 0
      OBVIOUS
    <3>2. v = array \o z
      BY <2>1
    <3> HIDE DEF z, v
    <3>3. TextOf(array \o z) = TextOf(array)
      BY <1>7, <3>1, TextBefore
    <3>4. \A i \in 1 .. Len(array) : (array \o z)[i] = array[i]
      BY <1>7, <3>1, ConcatProperties
    <3>5. QED
      BY <1>7, <3>2, <3>3, <3>4
  <2>2. CASE ~(n < f.array_len)
    BY <2>2
  <2>3. QED
    BY <2>1, <2>2
<1> HIDE DEF v
<1>10. TextOf(raw) \in Seq(Nat) /\ Len(TextOf(raw)) \in Nat /\ Len(TextOf(raw)) <= n
  <2>1. TextOf(raw) \in Seq(Nat) /\ Len(TextOf(raw)) \in Nat /\ Len(TextOf(raw)) <= Len(raw)
    BY <1>3, TextFacts
  <2>2. QED
    BY <2>1 DEF n
<1>11. \A i \in 1 .. Len(TextOf(raw)) : TextOf(raw)[i] = raw[i]
  BY <1>3, TextElements
<1>12. DOMAIN TextOf(raw) = 1 .. Len(TextOf(raw))
  BY <1>10, LenProperties
<1>13. DOMAIN TextOf(v) = 1 .. Len(TextOf(raw))
  BY <1>8, <1>9, <1>12
<1>14. TextOf(raw) = [i \in 1 .. Len(TextOf(raw)) |-> TextOf(raw)[i]]
  BY <1>10, <1>12
<1>15. \A i \in 1 .. Len(TextOf(raw)) : ToUnsigned(v[i], k) = TextOf(raw)[i]
  <2> SUFFICES ASSUME NEW i \in 1 .. Len(TextOf(raw))
               PROVE  ToUnsigned(v[i], k) = TextOf(raw)[i]
    OBVIOUS
  <2>1. i \in 1 .. n
    BY <1>3, <1>10
  <2>2. v[i] = array[i] /\ ToUnsigned(array[i], k) = raw[i]
    BY <1>5, <1>9, <2>1 DEF IsUnit, k
  <2>3. QED
    BY <1>11, <2>2
<1>16. shown = text
  BY <1>4, <1>13, <1>14, <1>15
<1>17. v = CStored(f, raw, big)
  BY DEF v, array, n, k, CStored
<1>18. ShowsBy(who, fixed, "C", v, m)
  BY <1>16 DEF ShowsBy, text, k, f
<1>19. QED
  BY <1>17, <1>18 DEF f, raw

\* What C# makes of two bytes for each number are the numbers.
LEMMA UnitsReadBack ==
    ASSUME NEW raw \in Seq(Nat), \A i \in 1 .. Len(raw) : raw[i] \in 0 .. Values(2) - 1,
           big_endian \in BOOLEAN
    PROVE  Units(Spread(NumOf(2, big_endian), raw)) = raw
<1> DEFINE n == Len(raw)
           g == NumOf(2, big_endian)
           b == Spread(g, raw)
           t == "uint16_t"
<1>1. n \in Nat /\ 2 \in Nat /\ raw = [i \in 1 .. n |-> raw[i]]
  BY LenProperties
<1>2. b \in Seq(Byte) /\ Len(b) = n * 2
  BY <1>1, NumsLength
<1>3. Chunks(g, 2, raw)
  BY <1>1, Chunk
<1>4. t \notin ToSet(Signed)
  BY DEF ToSet, Signed
<1>5. \A i \in 1 .. n : raw[i] \in Nat /\ raw[i] \in 0 .. Values(2) - 1
  BY ElementOfSeq
<1>6. \A i \in 1 .. n : g[raw[i]] = NumBytes(raw[i], 2, big_endian)
  BY <1>1, <1>5, NumOfLength
<1>7. \A i \in 1 .. n : SubSeq(b, (i - 1) * 2 + 1, (i - 1) * 2 + 2) = NumBytes(raw[i], 2, big_endian)
  BY <1>3, <1>6 DEF Chunks
<1> HIDE DEF b, g, n, t
<1>8. Len(b) \div 2 = n
  BY <1>1, <1>2
<1>9. \A i \in 1 .. n :
         ToUnsigned(bp_read(SubSeq(b, 2 * i - 1, 2 * i), t, big_endian), 2) = raw[i]
  <2> SUFFICES ASSUME NEW i \in 1 .. n
               PROVE  ToUnsigned(bp_read(SubSeq(b, 2 * i - 1, 2 * i), t, big_endian), 2) = raw[i]
    OBVIOUS
  <2> DEFINE u == raw[i]
  <2>1. u \in 0 .. Values(2) - 1
    BY <1>5
  <2>2. 2 * i - 1 = (i - 1) * 2 + 1 /\ 2 * i = (i - 1) * 2 + 2
    BY <1>1
  <2>3. SubSeq(b, 2 * i - 1, 2 * i) = NumBytes(u, 2, big_endian)
    BY <1>7, <2>2
  <2> HIDE DEF u
  <2>4. bp_read(NumBytes(u, 2, big_endian), t, big_endian) = IF t \in ToSet(Signed) THEN ToSigned(u, 2) ELSE u
    BY <1>1, <2>1, BpReadBack
  <2>5. (u % Values(2)) = u
    BY <1>1, <2>1, LowNumber
  <2>6. QED
    BY <1>4, <2>3, <2>4, <2>5 DEF ToUnsigned, u
<1>10. Units(b) = [i \in 1 .. n |->
                     ToUnsigned(bp_read(SubSeq(b, 2 * i - 1, 2 * i), t, big_endian), 2)]
  BY <1>8 DEF Units, t
<1>11. Units(b) = raw
  BY <1>1, <1>9, <1>10
<1>12. QED
  BY <1>11 DEF b, g

\* What C# stores of a string is what is meant.
CsShown(who, m) ==
    \A r \in {"C#", "Stream"} :
        ShowsBy(who, fixed_mode, r,
                Decode(Spread(NumOf(SizeOf(m.f), big_endian), RawOf(who, fixed_mode, m)), m.f), m)

\* What C# reads of a string shows what was meant by it.
LEMMA CsStringShown ==
    ASSUME NEW who \in {"C", "C#"}, NEW m \in AllItems(who), field_is_string(m.f),
           fixed_mode \in BOOLEAN, big_endian \in BOOLEAN
    PROVE  CsShown(who, m)
<1> DEFINE f == m.f
           raw == RawOf(who, fixed_mode, m)
           n == Len(raw)
           k == SizeOf(f)
           U == UnitsBy(who, m)
           b == Spread(NumOf(k, big_endian), raw)
           text == IF fixed_mode = TRUE THEN TextOf(U) ELSE U
<1>1. f \in Fields
  BY AllItemsFacts
<1>2. RawNumber(who, fixed_mode, m)
  BY RawNumbers
<1>3. raw \in Seq(Nat) /\ n \in Nat /\ \A i \in 1 .. n : raw[i] \in 0 .. Values(k) - 1
  BY <1>2 DEF RawNumber
<1>4. TextOf(raw) = TextOf(U)
  BY RawFacts DEF RawOk
<1>5. fixed_mode = FALSE => raw = U
  BY DEF RawOf
<1>6. /\ is_char_array(f) \/ is_wchar_array(f)
      /\ is_char_array(f) => k = 1
      /\ is_wchar_array(f) => k = 2
  BY <1>1, StringTypes
<1>7. ~(is_char_array(f) /\ is_wchar_array(f))
  BY DEF is_char_array, is_wchar_array
<1> HIDE DEF f, raw, k, U
<1>8. ASSUME is_char_array(f)
      PROVE  Decode(b, f) = GetString(text)
  <2>1. k = 1
    BY <1>6, <1>8
  <2>2. raw \in Seq(Byte)
    <3>1. \A i \in 1 .. n : raw[i] \in Byte
      BY <1>3, <2>1, ValuesOfOne
    <3>2. raw = [i \in 1 .. n |-> raw[i]]
      BY <1>3
    <3> HIDE DEF n
    <3>3. QED
      BY <1>3, <3>1, <3>2, AsSequence
  <2>3. b = raw
    BY <2>1, <2>2, NumsOfBytes
  <2>4. QED
    BY <1>4, <1>5, <1>8, <2>3 DEF Decode
<1>9. ASSUME is_wchar_array(f)
      PROVE  Decode(b, f) = text
  <2>1. k = 2 /\ ~is_char_array(f)
    BY <1>6, <1>7, <1>9
  <2>2. \A i \in 1 .. Len(raw) : raw[i] \in 0 .. Values(2) - 1
    BY <1>3, <2>1
  <2>3. Units(b) = raw
    BY <1>3, <2>1, <2>2, UnitsReadBack
  <2>4. QED
    BY <1>4, <1>5, <2>1, <2>3 DEF Decode
<1> HIDE DEF b
<1>10. ASSUME NEW r \in {"C#", "Stream"}
       PROVE  ShowsBy(who, fixed_mode, r, Decode(b, f), m)
  <2>1. r # "C"
    OBVIOUS
  <2>2. CASE is_char_array(f)
    BY <1>7, <1>8, <2>1, <2>2 DEF ShowsBy, U, f
  <2>3. CASE is_wchar_array(f)
    BY <1>7, <1>9, <2>1, <2>3 DEF ShowsBy, U, f
  <2>4. QED
    BY <1>6, <2>2, <2>3
<1>11. QED
  BY <1>10 DEF CsShown, b, f, raw, k

-----------------------------------------------------------------------------
(* A reader in the middle of the bytes. *)

FieldsAre(who, s, t) ==
    /\ Len(FieldsIn(s)) = Len(s) /\ DOMAIN FieldsIn(s) = 1 .. Len(s)
    /\ FieldsIn(s) \in Seq(SizedFields)
    /\ FieldsIn(s \o t) = FieldsIn(s) \o FieldsIn(t)

\* The fields of items, one after the other.
LEMMA FieldsInFacts ==
    ASSUME NEW who, NEW s \in Seq(AllItems(who)), NEW t \in Seq(AllItems(who))
    PROVE  FieldsAre(who, s, t)
<1> DEFINE A == AllItems(who)
           F == SizedFields
<1>1. \A x \in A : x.f \in F
  BY AllItemsFacts
<1>2. s \in Seq(A) /\ t \in Seq(A)
  OBVIOUS
<1> HIDE DEF A, F
<1>3. /\ s = [i \in 1 .. Len(s) |-> s[i]] /\ t = [i \in 1 .. Len(t) |-> t[i]]
      /\ Len(s) \in Nat /\ Len(t) \in Nat /\ DOMAIN s = 1 .. Len(s) /\ DOMAIN t = 1 .. Len(t)
      /\ (\A i \in 1 .. Len(s) : s[i] \in A) /\ (\A i \in 1 .. Len(t) : t[i] \in A)
  BY <1>2
<1> DEFINE fs == FieldsIn(s)
           ft == FieldsIn(t)
           j == s \o t
           fj == FieldsIn(j)
<1>4. fs = [i \in 1 .. Len(s) |-> s[i].f] /\ ft = [i \in 1 .. Len(t) |-> t[i].f]
  BY <1>3 DEF FieldsIn
<1>5. fs \in Seq(F) /\ Len(fs) = Len(s) /\ ft \in Seq(F) /\ Len(ft) = Len(t)
  BY <1>1, <1>3, <1>4
<1>6. j = [i \in 1 .. Len(s) + Len(t) |-> IF i <= Len(s) THEN s[i] ELSE t[i - Len(s)]]
  BY <1>2, Joined
<1>7. fj = [i \in DOMAIN j |-> j[i].f]
  BY DEF FieldsIn
<1> HIDE DEF fs, ft, j, fj
<1>8. fs \o ft = [i \in 1 .. Len(fs) + Len(ft) |-> IF i <= Len(fs) THEN fs[i] ELSE ft[i - Len(fs)]]
  BY <1>5, Joined
<1>9. fs \o ft = [i \in 1 .. Len(s) + Len(t) |-> IF i <= Len(s) THEN fs[i] ELSE ft[i - Len(s)]]
  BY <1>5, <1>8
<1>10. fj = [i \in 1 .. Len(s) + Len(t) |-> j[i].f]
  BY <1>6, <1>7
<1>11. \A i \in 1 .. Len(s) + Len(t) : j[i].f = IF i <= Len(s) THEN fs[i] ELSE ft[i - Len(s)]
  <2> SUFFICES ASSUME NEW i \in 1 .. Len(s) + Len(t)
               PROVE  j[i].f = IF i <= Len(s) THEN fs[i] ELSE ft[i - Len(s)]
    OBVIOUS
  <2>1. CASE i <= Len(s)
    BY <1>3, <1>4, <1>6, <2>1
  <2>2. CASE ~(i <= Len(s))
    <3>1. i - Len(s) \in 1 .. Len(t)
      BY <1>3, <2>2
    <3>2. j[i] = t[i - Len(s)]
      BY <1>6, <2>2
    <3>3. QED
      BY <1>4, <2>2, <3>1, <3>2
  <2>3. QED
    BY <2>1, <2>2
<1>12. fj = fs \o ft
  BY <1>9, <1>10, <1>11
<1>13. QED
  BY <1>3, <1>4, <1>5, <1>12 DEF FieldsAre, fs, ft, j, fj, F

\* What is left to read of a message are the fields of what is left of it.
FieldsLeft(who, s) ==
    /\ FieldsIn(s) = <<>> <=> s = <<>>
    /\ s # <<>> => /\ Head(s) \in AllItems(who) /\ Tail(s) \in Seq(AllItems(who))
                   /\ s = <<Head(s)>> \o Tail(s)
                   /\ Head(FieldsIn(s)) = Head(s).f /\ Tail(FieldsIn(s)) = FieldsIn(Tail(s))

\* The first of what is left to read is the field of the first item.
LEMMA FieldsInBoth ==
    ASSUME NEW who, NEW s \in Seq(AllItems(who))
    PROVE  FieldsLeft(who, s)
<1> DEFINE A == AllItems(who)
           x == Head(s)
           t == Tail(s)
           fs == FieldsIn(s)
           ft == FieldsIn(t)
<1>1. s \in Seq(A)
  OBVIOUS
<1>2. FieldsAre(who, s, s)
  BY FieldsInFacts
<1>3. Len(fs) = Len(s) /\ fs \in Seq(SizedFields)
  BY <1>2 DEF FieldsAre
<1>4. fs = <<>> <=> s = <<>>
  <2> HIDE DEF fs, A
  <2>1. QED
    BY <1>1, <1>3, EmptySeq
<1>5. ASSUME s # <<>>
      PROVE  /\ x \in A /\ t \in Seq(A) /\ s = <<x>> \o t
             /\ Head(fs) = x.f /\ Tail(fs) = ft
  <2> HIDE DEF A
  <2>1. x \in A /\ t \in Seq(A) /\ s = <<x>> \o t
    BY <1>1, <1>5
  <2>10. DOMAIN s = 1 .. Len(s) /\ Len(s) \in Nat /\ Len(s) >= 1 /\ x = s[1]
    BY <1>1, <1>5
  <2>11. Len(t) = Len(s) - 1 /\ DOMAIN t = 1 .. Len(t) /\ \A i \in 1 .. Len(s) - 1 : t[i] = s[i + 1]
    BY <1>1, <1>5, HeadTailProperties, LenProperties
  <2>2. DOMAIN s = 1 .. Len(s) /\ Len(s) \in Nat /\ Len(s) >= 1
        /\ DOMAIN t = 1 .. Len(s) - 1 /\ (\A i \in 1 .. Len(s) - 1 : t[i] = s[i + 1]) /\ x = s[1]
    BY <2>10, <2>11
  <2>3. fs = [i \in 1 .. Len(s) |-> s[i].f]
    BY <2>2 DEF FieldsIn
  <2>4. ft = [i \in 1 .. Len(s) - 1 |-> t[i].f]
    BY <2>2 DEF FieldsIn
  <2> HIDE DEF fs, ft, t, x
  <2>13. fs # <<>> /\ Len(fs) >= 1
    BY <1>3, <1>4, <1>5, <2>2
  <2>14. Tail(fs) \in Seq(SizedFields) /\ Head(fs) = fs[1]
    BY <1>3, <2>13
  <2>15. Len(Tail(fs)) = Len(fs) - 1 /\ \A i \in 1 .. Len(fs) - 1 : Tail(fs)[i] = fs[i + 1]
    BY <1>3, <2>13, HeadTailProperties
  <2>5. Tail(fs) = [i \in 1 .. Len(fs) - 1 |-> fs[i + 1]] /\ Head(fs) = fs[1]
    <3> DEFINE w == Tail(fs)
               k == Len(fs) - 1
    <3>1. w \in Seq(SizedFields) /\ Len(w) = k /\ \A i \in 1 .. k : w[i] = fs[i + 1]
      BY <2>14, <2>15
    <3> HIDE DEF w, k
    <3>2. w = [i \in 1 .. k |-> w[i]]
      BY <3>1
    <3>3. w = [i \in 1 .. k |-> fs[i + 1]]
      BY <3>1, <3>2
    <3>4. QED
      BY <2>14, <3>3 DEF w, k
  <2>6. Head(fs) = x.f
    BY <2>2, <2>3, <2>5
  <2>7. \A i \in 1 .. Len(s) - 1 : fs[i + 1] = t[i].f
    BY <2>2, <2>3
  <2>8. Tail(fs) = ft
    BY <1>3, <2>4, <2>5, <2>7
  <2>9. QED
    BY <2>1, <2>6, <2>8
<1>6. QED
  BY <1>4, <1>5 DEF FieldsLeft

\* A reader that has read what is done, and has the rest before it.
Placed(who, fixed, big, meant, r, fs, p, os, done, rest) ==
    /\ fs = FieldsIn(rest) /\ meant = done \o Leaves(who, rest)
    /\ p = Len(BytesOf(who, fixed, big, done))
    /\ Len(os) = Len(done)
    /\ \A i \in 1 .. Len(done) : ShowsBy(who, fixed, r, os[i].v, done[i])
Follows(who, fixed, big, meant, r, fs, p, os) ==
    \E done \in Seq(EndItems(who)), rest \in Seq(AllItems(who)) :
        Placed(who, fixed, big, meant, r, fs, p, os, done, rest)

\* A reader that has read nothing has the whole message before it.
LEMMA FollowsStart ==
    ASSUME NEW who \in {"C", "C#"}, NEW fixed \in BOOLEAN, NEW big, NEW r, NEW s \in DOMAIN Structs,
           NEW m \in MessagesOf(who, s)
    PROVE  Follows(who, fixed, big, Leaves(who, FieldsOf(s, m)), r, Structs[s], 0, <<>>)
<1> DEFINE rest == FieldsOf(s, m)
           E == EndItems(who)
           A == AllItems(who)
           d == <<>>
           l == Leaves(who, rest)
<1>1. AreFields(who, s, rest)
  BY MessageItems
<1>2. rest \in Seq(A) /\ FieldsIn(rest) = Structs[s]
  BY <1>1 DEF AreFields
<1>3. LeavesOk(who)
  BY LeavesFacts
<1>4. l \in Seq(E)
  BY <1>2, <1>3 DEF LeavesOk
<1>5. Homomorphism(BytesFn(who, fixed, big), E, Byte)
  BY BytesFacts
<1>6. BytesOf(who, fixed, big, d) = <<>>
  BY <1>5 DEF Homomorphism, BytesOf
<1>7. d \in Seq(E) /\ Len(d) = 0 /\ Len(<<>>) = 0
  OBVIOUS
<1>8. l = d \o l
  <2> HIDE DEF E, l
  <2>1. QED
    BY <1>4, ConcatEmptySeq
<1> HIDE DEF l
<1>9. Placed(who, fixed, big, l, r, Structs[s], 0, <<>>, d, rest)
  <2>1. \A i \in 1 .. Len(d) : ShowsBy(who, fixed, r, <<>>[i].v, d[i])
    BY <1>7
  <2>2. l = d \o Leaves(who, rest)
    BY <1>8 DEF l
  <2> HIDE DEF rest, d
  <2>3. QED
    BY <1>2, <1>6, <1>7, <2>1, <2>2 DEF Placed
<1> HIDE DEF rest, d, E, A
<1>10. Follows(who, fixed, big, l, r, Structs[s], 0, <<>>)
  BY <1>2, <1>7, <1>9 DEF Follows, E, A
<1>11. QED
  BY <1>10 DEF l, rest

\* A reader that has nothing left to read has read all of it.
ReadAll(who, fixed, big, meant, r, p, os) ==
    /\ p = Len(BytesOf(who, fixed, big, meant)) /\ Len(os) = Len(meant)
    /\ \A i \in 1 .. Len(meant) : ShowsBy(who, fixed, r, os[i].v, meant[i])

\* One that has nothing left to read has read all of it.
LEMMA FollowsEnd ==
    ASSUME NEW who \in {"C", "C#"}, NEW fixed \in BOOLEAN, NEW big, NEW meant, NEW r, NEW p, NEW os,
           Follows(who, fixed, big, meant, r, <<>>, p, os)
    PROVE  ReadAll(who, fixed, big, meant, r, p, os)
<1> DEFINE E == EndItems(who)
           A == AllItems(who)
<1>1. PICK done \in Seq(E), rest \in Seq(A) : Placed(who, fixed, big, meant, r, <<>>, p, os, done, rest)
  BY DEF Follows
<1>2. FieldsLeft(who, rest)
  BY FieldsInBoth
<1>3. rest = <<>>
  BY <1>1, <1>2 DEF FieldsLeft, Placed
<1>4. LeavesOk(who)
  BY LeavesFacts
<1>5. <<>> \in Seq(E)
  OBVIOUS
<1>6. Leaves(who, <<>>) = <<>>
  BY <1>4, <1>5 DEF LeavesOk
<1>7. done \o <<>> = done
  <2> HIDE DEF E
  <2>1. QED
    BY ConcatEmptySeq
<1>8. meant = done
  BY <1>1, <1>3, <1>6, <1>7 DEF Placed
<1>9. QED
  BY <1>1, <1>8 DEF Placed, ReadAll

\* What is before a reader that has something left to read.
AtNext(who, fixed, big, meant, r, fs, p, os, done, x, rest) ==
    /\ done \in Seq(EndItems(who)) /\ x \in AllItems(who) /\ rest \in Seq(AllItems(who))
    /\ x.f = Head(fs) /\ Tail(fs) = FieldsIn(rest)
    /\ meant = done \o (Leaves(who, <<x>>) \o Leaves(who, rest))
    /\ p = Len(BytesOf(who, fixed, big, done)) /\ Len(os) = Len(done)
    /\ \A i \in 1 .. Len(done) : ShowsBy(who, fixed, r, os[i].v, done[i])

\* One that has fields left has an item before it.
LEMMA NextRead ==
    ASSUME NEW who \in {"C", "C#"}, NEW fixed, NEW big, NEW meant, NEW r, NEW fs,
           NEW p, NEW os, Follows(who, fixed, big, meant, r, fs, p, os), fs # <<>>
    PROVE  \E done, x, rest : AtNext(who, fixed, big, meant, r, fs, p, os, done, x, rest)
<1> DEFINE E == EndItems(who)
           A == AllItems(who)
<1>1. PICK done \in Seq(E), all \in Seq(A) : Placed(who, fixed, big, meant, r, fs, p, os, done, all)
  BY DEF Follows
<1>2. FieldsLeft(who, all)
  BY FieldsInBoth
<1> DEFINE x == Head(all)
           rest == Tail(all)
<1>3. /\ fs = FieldsIn(all) /\ meant = done \o Leaves(who, all)
      /\ p = Len(BytesOf(who, fixed, big, done)) /\ Len(os) = Len(done)
      /\ \A i \in 1 .. Len(done) : ShowsBy(who, fixed, r, os[i].v, done[i])
  BY <1>1 DEF Placed
<1>4. /\ x \in A /\ rest \in Seq(A) /\ all = <<x>> \o rest /\ Head(fs) = x.f
      /\ Tail(fs) = FieldsIn(rest)
  BY <1>2, <1>3 DEF FieldsLeft
<1>5. LeavesOk(who)
  BY LeavesFacts
<1> HIDE DEF x, rest
<1>6. <<x>> \in Seq(A)
  <2> HIDE DEF A
  <2>1. QED
    BY <1>4
<1>7. Leaves(who, all) = Leaves(who, <<x>>) \o Leaves(who, rest)
  BY <1>4, <1>5, <1>6 DEF LeavesOk
<1>8. AtNext(who, fixed, big, meant, r, fs, p, os, done, x, rest)
  BY <1>3, <1>4, <1>7 DEF AtNext
<1>9. QED
  BY <1>8

\* The loop over an array and the call of a nested read function leave the reader where
\* it is.
LEMMA FollowsOpens ==
    ASSUME NEW who \in {"C", "C#"}, NEW fixed, NEW big,
           NEW meant \in Seq(WritableLeaves(who, fixed)), NEW r, NEW fs,
           NEW p, NEW os, Follows(who, fixed, big, meant, r, fs, p, os), fs # <<>>, ~IsLeaf(Head(fs))
    PROVE  Follows(who, fixed, big, meant, r, Content(Head(fs)) \o Tail(fs), p, os)
<1> DEFINE E == EndItems(who)
           A == AllItems(who)
           W == WritableLeaves(who, fixed)
<1>1. PICK done, x, rest : AtNext(who, fixed, big, meant, r, fs, p, os, done, x, rest)
  BY NextRead
<1>2. /\ done \in Seq(E) /\ x \in A /\ rest \in Seq(A)
      /\ x.f = Head(fs) /\ Tail(fs) = FieldsIn(rest)
      /\ meant = done \o (Leaves(who, <<x>>) \o Leaves(who, rest))
      /\ p = Len(BytesOf(who, fixed, big, done)) /\ Len(os) = Len(done)
      /\ \A i \in 1 .. Len(done) : ShowsBy(who, fixed, r, os[i].v, done[i])
  BY <1>1 DEF AtNext
<1>3. LeavesOk(who)
  BY LeavesFacts
<1>4. <<x>> \in Seq(A)
  <2> HIDE DEF A
  <2>1. QED
    BY <1>2
<1>5. Leaves(who, <<x>>) \in Seq(E) /\ Leaves(who, rest) \in Seq(E)
      /\ Leaves(who, <<x>>) = Leaves(who, Parts(who, x))
  BY <1>2, <1>3, <1>4 DEF LeavesOk
<1>6. ~IsNull(who, x)
  <2> SUFFICES ASSUME IsNull(who, x)
               PROVE  FALSE
    OBVIOUS
  <2> DEFINE l == <<x>>
             t == Leaves(who, rest)
  <2>1. x \in E
    BY <1>2 DEF EndItems, IsEnd
  <2>2. l \in Seq(E)
    <3> HIDE DEF E
    <3>1. QED
      BY <2>1
  <2>3. Leaves(who, l) = l
    BY <1>3, <2>2 DEF LeavesOk
  <2>10. 1 \in 1 .. Len(l) /\ l[1] = x
    OBVIOUS
  <2>11. meant = done \o (l \o t)
    BY <1>2, <2>3, Zenon
  <2>12. t \in Seq(E)
    BY <1>5
  <2>4. meant = done \o (l \o t) /\ t \in Seq(E) /\ 1 \in 1 .. Len(l) /\ l[1] = x
    BY <2>10, <2>11, <2>12
  <2> HIDE DEF l, t, E, W
  <2>5. x \in ToSet(meant)
    BY <1>2, <2>2, <2>4, InMiddle
  <2>6. \A i \in DOMAIN meant : meant[i] \in W
    <3>1. meant \in Seq(W)
      BY DEF W
    <3>2. QED
      BY <3>1, ElementOfSeq, LenProperties
  <2>7. x \in W
    BY <2>5, <2>6 DEF ToSet
  <2>8. IsLeaf(x.f)
    BY <2>7 DEF W, WritableLeaves
  <2>9. QED
    BY <1>2, <2>8
<1>7. PartsOk(who, x)
  BY <1>2, PartsFacts
<1>8. TakenApart(who, x, Parts(who, x))
  BY <1>2, <1>6, <1>7 DEF PartsOk, IsEnd
<1> DEFINE parts == Parts(who, x)
           all == parts \o rest
<1>9. parts \in Seq(A) /\ FieldsIn(parts) = Content(x.f)
  BY <1>8 DEF TakenApart
<1> HIDE DEF parts
<1>10. FieldsAre(who, parts, rest)
  BY <1>2, <1>9, FieldsInFacts
<1>11. all \in Seq(A)
  <2> HIDE DEF A
  <2>1. QED
    BY <1>2, <1>9, Concatenated
<1>12. FieldsIn(all) = Content(Head(fs)) \o Tail(fs)
  BY <1>2, <1>9, <1>10 DEF FieldsAre
<1>13. Leaves(who, all) = Leaves(who, <<x>>) \o Leaves(who, rest)
  <2>1. Leaves(who, parts \o rest) = Leaves(who, parts) \o Leaves(who, rest)
    BY <1>2, <1>3, <1>9 DEF LeavesOk
  <2>2. QED
    BY <1>5, <2>1 DEF parts
<1> HIDE DEF all
<1>14. Placed(who, fixed, big, meant, r, Content(Head(fs)) \o Tail(fs), p, os, done, all)
  BY <1>2, <1>12, <1>13 DEF Placed
<1>15. QED
  BY <1>2, <1>11, <1>14 DEF Follows

\* At a scalar or a string, its bytes are before the reader; if it stores what shows
\* the leaf and goes on by as many bytes, it is at the next.
AtLeaf(who, fixed, big, meant, r, fs, p, os, x) ==
    LET b == BytesOf(who, fixed, big, meant)
        l == LeafBytes(who, fixed, big, x)
    IN  /\ x \in AllItems(who) /\ x.f = Head(fs)
        /\ b \in Seq(Byte) /\ l \in Seq(Byte) /\ p \in Nat /\ p + Len(l) <= Len(b)
        /\ \A i, n \in Nat : i + n <= Len(l) => SubSeq(b, p + i + 1, p + i + n) = SubSeq(l, i + 1, i + n)
        /\ \A y : ShowsBy(who, fixed, r, y.v, x)
                  => Follows(who, fixed, big, meant, r, Tail(fs), p + Len(l), Append(os, y))

\* At a scalar or a string, a reader follows the message to the leaf and past it.
LEMMA FollowsLeaf ==
    ASSUME NEW who \in {"C", "C#"}, NEW fixed \in BOOLEAN, NEW big, NEW meant, NEW r, NEW fs,
           NEW p, NEW O, NEW os \in Seq(O), Follows(who, fixed, big, meant, r, fs, p, os),
           fs # <<>>, IsLeaf(Head(fs))
    PROVE  \E x : AtLeaf(who, fixed, big, meant, r, fs, p, os, x)
<1> DEFINE E == EndItems(who)
           A == AllItems(who)
           g == BytesFn(who, fixed, big)
<1>1. PICK done, x, rest : AtNext(who, fixed, big, meant, r, fs, p, os, done, x, rest)
  BY NextRead
<1>2. /\ done \in Seq(E) /\ x \in A /\ rest \in Seq(A)
      /\ x.f = Head(fs) /\ Tail(fs) = FieldsIn(rest)
      /\ meant = done \o (Leaves(who, <<x>>) \o Leaves(who, rest))
      /\ p = Len(BytesOf(who, fixed, big, done)) /\ Len(os) = Len(done)
      /\ \A i \in 1 .. Len(done) : ShowsBy(who, fixed, r, os[i].v, done[i])
  BY <1>1 DEF AtNext
<1> DEFINE t == Leaves(who, rest)
           l == LeafBytes(who, fixed, big, x)
<1>3. LeavesOk(who)
  BY LeavesFacts
<1>4. x \in E /\ IsLeaf(x.f)
  BY <1>2 DEF EndItems, IsEnd
<1>5. <<x>> \in Seq(E) /\ t \in Seq(E) /\ Leaves(who, <<x>>) = <<x>>
  <2>1. <<x>> \in Seq(E)
    <3> HIDE DEF E
    <3>1. QED
      BY <1>4
  <2>2. QED
    BY <1>2, <1>3, <2>1 DEF LeavesOk
<1>6. meant = done \o (<<x>> \o t)
  BY <1>2, <1>5
<1>7. Homomorphism(g, E, Byte)
  BY BytesFacts
<1>8. g[x] = l
  BY <1>4 DEF BytesFn
<1>9. l \in Seq(Byte)
  BY <1>2, <1>4, LeafFacts
<1> DEFINE bd == Spread(g, done)
           bt == Spread(g, t)
           b == Spread(g, meant)
           one == <<x>>
<1>10. one \in Seq(E)
  BY <1>5
<1> HIDE DEF E, A, g, l, t, one
<1>11. bd \in Seq(Byte) /\ bt \in Seq(Byte) /\ Spread(g, one) = l
  BY <1>2, <1>4, <1>5, <1>7, <1>8 DEF Homomorphism, one
<1>12. one \o t \in Seq(E)
  BY <1>5, <1>10, Concatenated
<1>13. b = bd \o (l \o bt)
  <2>1. Spread(g, one \o t) = l \o bt
    BY <1>5, <1>7, <1>10, <1>11 DEF Homomorphism
  <2>2. Spread(g, done \o (one \o t)) = bd \o Spread(g, one \o t)
    BY <1>2, <1>7, <1>12 DEF Homomorphism
  <2>3. QED
    BY <1>6, <2>1, <2>2 DEF one
<1>14. BytesOf(who, fixed, big, meant) = b /\ p = Len(bd)
  BY <1>2 DEF BytesOf, g
<1>15. Spread(g, done \o one) = bd \o l /\ done \o one \in Seq(E) /\ Len(done \o one) = Len(done) + 1
  <2>1. Spread(g, done \o one) = bd \o Spread(g, one)
    BY <1>2, <1>7, <1>10 DEF Homomorphism
  <2>2. done \o one \in Seq(E) /\ Len(done \o one) = Len(done) + Len(one)
    BY <1>2, <1>10, Concatenated
  <2>3. Len(one) = 1
    BY DEF one
  <2>4. QED
    BY <1>11, <2>1, <2>2, <2>3
<1>16. meant = (done \o one) \o t
  <2>1. \A u, v, w \in Seq(E) : (u \o v) \o w = u \o (v \o w)
    BY ConcatAssociative, SMTT(30)
  <2>2. (done \o one) \o t = done \o (one \o t)
    BY <1>2, <1>5, <1>10, <2>1, Zenon
  <2>3. QED
    BY <1>6, <2>2 DEF one
<1> HIDE DEF bd, bt, b
<1> DEFINE c == l \o bt
<1>17. c \in Seq(Byte) /\ Len(c) = Len(l) + Len(bt) /\ Len(l) \in Nat /\ Len(bt) \in Nat
  BY <1>9, <1>11, Concatenated, LenProperties
<1> HIDE DEF c
<1>18. b \in Seq(Byte) /\ Len(b) = Len(bd) + Len(c) /\ Len(bd) \in Nat
  <2>1. bd \o c \in Seq(Byte) /\ Len(bd \o c) = Len(bd) + Len(c)
    BY <1>11, <1>17, Concatenated
  <2>2. QED
    BY <1>11, <1>13, <2>1, LenProperties DEF c
<1>19. p \in Nat /\ p + Len(l) <= Len(b)
  BY <1>14, <1>17, <1>18
<1>20. \A i, n \in Nat : i + n <= Len(l) => SubSeq(b, p + i + 1, p + i + n) = SubSeq(l, i + 1, i + n)
  <2> SUFFICES ASSUME NEW i \in Nat, NEW n \in Nat, i + n <= Len(l)
               PROVE  SubSeq(b, p + i + 1, p + i + n) = SubSeq(l, i + 1, i + n)
    OBVIOUS
  <2>1. i + n <= Len(c)
    BY <1>17
  <2>2. SubSeq(bd \o c, Len(bd) + i + 1, Len(bd) + i + n) = SubSeq(c, i + 1, i + n)
    BY <1>11, <1>17, <2>1, Window
  <2>3. SubSeq(l \o bt, i + 1, i + n) = SubSeq(l, i + 1, i + n)
    BY <1>9, <1>11, Window
  <2>4. QED
    BY <1>13, <1>14, <2>2, <2>3 DEF c
<1>21. ASSUME NEW y, ShowsBy(who, fixed, r, y.v, x)
       PROVE  Follows(who, fixed, big, meant, r, Tail(fs), p + Len(l), Append(os, y))
  <2> DEFINE d == done \o one
             o == Append(os, y)
  <2>1. Len(o) = Len(os) + 1 /\ (\A i \in 1 .. Len(os) : o[i] = os[i]) /\ o[Len(os) + 1] = y
    <3> DEFINE S == O \cup {y}
    <3>1. O \subseteq S /\ y \in S
      OBVIOUS
    <3> HIDE DEF S
    <3>2. os \in Seq(S)
      BY <3>1, SeqMonotonic
    <3>3. QED
      BY <3>1, <3>2, AppendProperties
  <2>2. Len(done) \in Nat /\ Len(os) = Len(done)
    BY <1>2, LenProperties
  <2>3. (\A i \in 1 .. Len(done) : d[i] = done[i]) /\ d[Len(done) + 1] = x
    <3>1. Len(one) = 1 /\ one[1] = x
      BY DEF one
    <3>2. \A k \in 1 .. Len(done) + Len(one) : d[k] = IF k <= Len(done) THEN done[k] ELSE one[k - Len(done)]
      BY <1>2, <1>10, ConcatProperties
    <3> HIDE DEF d
    <3>3. QED
      BY <2>2, <3>1, <3>2
  <2>4. d \in Seq(E) /\ Len(d) = Len(done) + 1 /\ BytesOf(who, fixed, big, d) = bd \o l
    BY <1>15 DEF BytesOf, g
  <2>5. Len(bd \o l) = p + Len(l)
    <3>1. Len(bd \o l) = Len(bd) + Len(l)
      BY <1>9, <1>11, Concatenated
    <3>2. QED
      BY <1>14, <3>1
  <2>6. meant = d \o Leaves(who, rest)
    BY <1>16 DEF t
  <2> HIDE DEF d, o
  <2>7. \A i \in 1 .. Len(d) : ShowsBy(who, fixed, r, o[i].v, d[i])
    <3> SUFFICES ASSUME NEW i \in 1 .. Len(d)
                 PROVE  ShowsBy(who, fixed, r, o[i].v, d[i])
      OBVIOUS
    <3>1. CASE i \in 1 .. Len(done)
      <4>1. o[i] = os[i] /\ d[i] = done[i]
        BY <2>1, <2>2, <2>3, <3>1
      <4>2. QED
        BY <1>2, <3>1, <4>1
    <3>2. CASE i = Len(done) + 1
      <4>1. o[i] = y /\ d[i] = x
        BY <2>1, <2>2, <2>3, <3>2
      <4>2. QED
        BY <1>21, <4>1
    <3>3. QED
      BY <2>2, <2>4, <3>1, <3>2
  <2>8. Placed(who, fixed, big, meant, r, Tail(fs), p + Len(l), o, d, rest)
    BY <1>2, <2>1, <2>2, <2>4, <2>5, <2>6, <2>7 DEF Placed
  <2>9. Follows(who, fixed, big, meant, r, Tail(fs), p + Len(l), o)
    BY <1>2, <2>4, <2>8 DEF Follows, E, A
  <2>10. QED
    BY <2>9 DEF o
<1>22. AtLeaf(who, fixed, big, meant, r, fs, p, os, x)
  BY <1>2, <1>9, <1>14, <1>18, <1>19, <1>20, <1>21 DEF AtLeaf, l, A
<1>23. QED
  BY <1>22

-----------------------------------------------------------------------------
(* The readers of what was written, whole or cut off. *)

\* Of this a reader is judged: a message that was written as it is meant, that came whole
\* or cut off. A stream is read in fixed mode only.
Judged(r) ==
    /\ wstatus = "written" /\ IsSpan(buf) /\ ~HasGap /\ intact \in {"whole", "cut"}
    /\ r = "Stream" => fixed_mode = TRUE /\ intact = "whole"
Begins(r) == Len(Span(r)) <= Len(buf) /\ Span(r) = SubSeq(buf, 1, Len(Span(r)))
Follow(r) == Follows(writer, fixed_mode, big_endian, Meant, r, fields[r], pos[r], out[r])
Understood(r) ==
    /\ rstatus[r] \in {"reading", "read", "refused"} /\ Begins(r)
    /\ rstatus[r] = "reading" => Follow(r)
    /\ rstatus[r] = "read" => Follow(r) /\ fields[r] = <<>>
    /\ rstatus[r] = "refused" => Len(Span(r)) < Len(buf)
LineInv ==
    /\ intact = "unsent" => filled = <<>> /\ \A r \in Readers : fields[r] = Structs[struct] /\ out[r] = <<>>
    /\ intact # "unsent" => wstatus = "written"
    /\ intact = "whole" => wire = buf
    /\ intact = "cut" => Len(wire) < Len(buf) /\ wire = SubSeq(buf, 1, Len(wire))
ReadersInv == LineInv /\ \A r \in Readers : Judged(r) => Understood(r)

\* One reader moves.
Alone(r) ==
    /\ UNCHANGED <<choice, writing, line>> /\ (r # "Stream" => filled' = filled)
    /\ \A q \in Readers \ {r} : /\ fields'[q] = fields[q] /\ pos'[q] = pos[q]
                                /\ out'[q] = out[q] /\ rstatus'[q] = rstatus[q]

SameGiven ==
    /\ fixed_mode' = fixed_mode /\ big_endian' = big_endian /\ writer' = writer /\ struct' = struct
    /\ buf' = buf /\ wstatus' = wstatus /\ wire' = wire /\ intact' = intact
    /\ Meant' = Meant /\ HasGap' = HasGap

\* A step of a reader changes nothing of what readers are judged of.
LEMMA SameJudged ==
    ASSUME UNCHANGED <<choice, writing, line>>
    PROVE  SameGiven /\ \A r : Judged(r)' = Judged(r)
<1>1. /\ UNCHANGED choice /\ fixed_mode' = fixed_mode /\ big_endian' = big_endian
      /\ writer' = writer /\ struct' = struct
      /\ buf' = buf /\ wstatus' = wstatus /\ wire' = wire /\ intact' = intact
  BY DEF choice, writing, line
<1>2. Meant' = Meant /\ HasGap' = HasGap
  BY <1>1, SameMeant
<1>3. SameGiven
  BY <1>1, <1>2 DEF SameGiven
<1>4. IsSpan(buf)' = IsSpan(buf)
  BY <1>1 DEF IsSpan
<1>5. \A r : Judged(r)' = Judged(r)
  BY <1>1, <1>2, <1>4 DEF Judged
<1>6. QED
  BY <1>3, <1>5

\* What does not touch a reader leaves it as it is.
LEMMA StaysUnderstood ==
    ASSUME NEW q, SameGiven, Understood(q), Span(q)' = Span(q),
           fields'[q] = fields[q], pos'[q] = pos[q], out'[q] = out[q], rstatus'[q] = rstatus[q]
    PROVE  Understood(q)'
<1>1. Follow(q)' = Follow(q)
  BY DEF Follow, SameGiven
<1>2. Begins(q)' = Begins(q)
  BY DEF Begins, SameGiven
<1>3. QED
  BY <1>1, <1>2 DEF Understood, SameGiven

\* The readers do not know of each other: one of them moves, the others stay.
LEMMA OneReads ==
    ASSUME ReadersInv, intact # "unsent", NEW r \in Readers, Alone(r), Judged(r) => Understood(r)'
    PROVE  ReadersInv'
<1>1. SameGiven /\ \A q : Judged(q)' = Judged(q)
  BY SameJudged DEF Alone
<1>2. LineInv'
  BY <1>1 DEF ReadersInv, LineInv, SameGiven
<1>3. ASSUME NEW q \in Readers, Judged(q)'
      PROVE  Understood(q)'
  <2>1. Judged(q)
    BY <1>1, <1>3
  <2>2. CASE q = r
    BY <2>1, <2>2
  <2>3. CASE q # r
    <3>1. fields'[q] = fields[q] /\ pos'[q] = pos[q] /\ out'[q] = out[q] /\ rstatus'[q] = rstatus[q]
      BY <2>3 DEF Alone
    <3>2. Span(q)' = Span(q)
      BY <1>1, <2>3 DEF Span, Alone, SameGiven
    <3>3. Understood(q)
      BY <2>1 DEF ReadersInv
    <3>4. QED
      BY <1>1, <3>1, <3>2, <3>3, StaysUnderstood
  <2>4. QED
    BY <2>2, <2>3
<1>4. QED
  BY <1>2, <1>3 DEF ReadersInv

\* A part of the first of it is a part of it.
LEMMA PrefixSlice ==
    ASSUME NEW S, NEW b \in Seq(S), NEW n \in 0 .. Len(b), NEW p \in Nat, NEW k \in Nat, p + k <= n
    PROVE  /\ SubSeq(SubSeq(b, 1, n), p + 1, p + k) = SubSeq(b, p + 1, p + k)
           /\ Len(SubSeq(b, 1, n)) = n
<1> DEFINE a == SubSeq(b, 1, n)
<1>1. a = [i \in 1 .. n |-> b[i]] /\ a \in Seq(S) /\ Len(a) = n /\ n \in Nat /\ n <= Len(b) /\ Len(b) \in Nat
  OBVIOUS
<1> HIDE DEF a
<1>2. SubSeq(a, p + 1, p + k) = [i \in 1 .. k |-> a[p + i]]
  BY <1>1
<1>3. SubSeq(b, p + 1, p + k) = [i \in 1 .. k |-> b[p + i]]
  BY <1>1
<1>4. \A i \in 1 .. k : a[p + i] = b[p + i]
  BY <1>1
<1>5. QED
  BY <1>1, <1>2, <1>3, <1>4 DEF a

\* A reader before a leaf: as far as they came, the bytes ahead are those of the leaf.
Facing(r, x) ==
    LET l == LeafBytes(writer, fixed_mode, big_endian, x)
    IN  /\ x \in AllItems(writer) /\ x.f = Field(r)
        /\ l \in Seq(Byte) /\ Len(l) \in Nat /\ Len(l) <= Len(buf)
        /\ Left(r) < Len(l) => Len(Span(r)) < Len(buf)
        /\ \A i, n \in Nat : i + n <= Len(l) /\ i + n <= Left(r) => Ahead(r, i, n) = SubSeq(l, i + 1, i + n)
        /\ \A y : ShowsBy(writer, fixed_mode, r, y.v, x)
                  => Follows(writer, fixed_mode, big_endian, Meant, r, Tail(fields[r]),
                             pos[r] + Len(l), Append(out[r], y))

\* A reader at a scalar or a string is before the bytes of a leaf of the message.
LEMMA FacesLeaf ==
    ASSUME BufferInv, MessageInv, NEW r \in Readers, Judged(r), Understood(r), Reads(r), IsLeaf(Field(r))
    PROVE  \E x : Facing(r, x)
<1>1. WholeWritten
  BY MessageWritten DEF Judged
<1>2. /\ writer \in {"C", "C#"} /\ fixed_mode \in BOOLEAN /\ big_endian \in BOOLEAN /\ buf \in Seq(Byte)
      /\ buf = BytesOf(writer, fixed_mode, big_endian, Meant)
  BY <1>1 DEF WholeWritten, Bytes
<1>3. Turn(r) /\ fields[r] # <<>> /\ rstatus[r] = "reading"
  BY DEF Reads, Turn
<1>4. /\ pos[r] \in Nat /\ Span(r) \in Bytes /\ Len(Span(r)) \in Nat
      /\ pos[r] <= Len(Span(r)) /\ Left(r) \in Nat /\ pos[r] + Left(r) = Len(Span(r))
  BY <1>3, NextField
<1>5. Follow(r) /\ Begins(r)
  BY <1>3 DEF Understood
<1>6. out[r] \in Seq(Leaf)
  BY DEF BufferInv, IsRead
<1>7. PICK x : AtLeaf(writer, fixed_mode, big_endian, Meant, r, fields[r], pos[r], out[r], x)
  <2> DEFINE fs == fields[r]
             p == pos[r]
             os == out[r]
  <2>1. fs # <<>> /\ IsLeaf(Head(fs)) /\ os \in Seq(Leaf)
        /\ Follows(writer, fixed_mode, big_endian, Meant, r, fs, p, os)
    BY <1>3, <1>5, <1>6 DEF Follow, Field
  <2> HIDE DEF fs, p, os
  <2>2. \E x : AtLeaf(writer, fixed_mode, big_endian, Meant, r, fs, p, os, x)
    BY <1>2, <2>1, FollowsLeaf
  <2>3. QED
    BY <2>2 DEF fs, p, os
<1> DEFINE l == LeafBytes(writer, fixed_mode, big_endian, x)
           p == pos[r]
           n == Len(Span(r))
<1>8. /\ x \in AllItems(writer) /\ x.f = Field(r)
      /\ l \in Seq(Byte) /\ p + Len(l) <= Len(buf)
      /\ \A i, k \in Nat : i + k <= Len(l) => SubSeq(buf, p + i + 1, p + i + k) = SubSeq(l, i + 1, i + k)
      /\ \A y : ShowsBy(writer, fixed_mode, r, y.v, x)
                => Follows(writer, fixed_mode, big_endian, Meant, r, Tail(fields[r]), p + Len(l), Append(out[r], y))
  BY <1>2, <1>7 DEF AtLeaf, Field
<1> HIDE DEF l
<1>9. Len(l) \in Nat /\ Len(buf) \in Nat
  BY <1>2, <1>8, LenProperties
<1>10. n <= Len(buf) /\ Span(r) = SubSeq(buf, 1, n)
  BY <1>5 DEF Begins
<1>11. p \in Nat /\ n \in Nat /\ Left(r) \in Nat /\ p + Left(r) = n
  BY <1>4
<1>12. ASSUME NEW i \in Nat, NEW k \in Nat, i + k <= Len(l), i + k <= Left(r)
       PROVE  Ahead(r, i, k) = SubSeq(l, i + 1, i + k)
  <2>1. Ahead(r, i, k) = SubSeq(Span(r), p + i + 1, p + i + k)
    BY DEF Ahead
  <2>2. SubSeq(buf, p + i + 1, p + i + k) = SubSeq(l, i + 1, i + k)
    BY <1>8, <1>12
  <2> HIDE DEF p, n
  <2> DEFINE q == p + i
  <2>3. q \in Nat /\ q + k <= n /\ n \in 0 .. Len(buf)
    BY <1>9, <1>10, <1>11, <1>12
  <2> HIDE DEF q
  <2>4. SubSeq(SubSeq(buf, 1, n), q + 1, q + k) = SubSeq(buf, q + 1, q + k)
    BY <1>2, <2>3, PrefixSlice
  <2>5. QED
    BY <1>10, <2>1, <2>2, <2>4 DEF q
<1>13. Left(r) < Len(l) => n < Len(buf)
  BY <1>8, <1>9, <1>11
<1>14. Len(l) <= Len(buf)
  BY <1>8, <1>9, <1>11
<1>15. Facing(r, x)
  BY <1>8, <1>9, <1>12, <1>13, <1>14 DEF Facing, l
<1>16. QED
  BY <1>15

\* A step of a reader moves that reader only.
LEMMA StillAlone ==
    ASSUME BufferInv, NEW r \in Readers, StillReading, NEW fs, NEW v, NEW n, NEW status,
           \/ Opens(r, fs) \/ Stored(r, v, n) \/ Stops(r, status)
           \/ UNCHANGED <<fields, pos, out>> /\ rstatus' = [rstatus EXCEPT ![r] = status]
    PROVE  Alone(r)
<1>1. DOMAIN fields = Readers /\ DOMAIN pos = Readers /\ DOMAIN out = Readers /\ DOMAIN rstatus = Readers
  BY DEF BufferInv, IsRead
<1>2. UNCHANGED <<choice, writing, line>> /\ filled' = filled
  BY DEF StillReading
<1>3. ASSUME NEW q \in Readers \ {r}
      PROVE  fields'[q] = fields[q] /\ pos'[q] = pos[q] /\ out'[q] = out[q] /\ rstatus'[q] = rstatus[q]
  <2>1. CASE Opens(r, fs)
    BY <1>1, <2>1 DEF Opens
  <2>2. CASE Stored(r, v, n)
    BY <1>1, <2>2 DEF Stored
  <2>3. CASE Stops(r, status)
    BY <1>1, <2>3 DEF Stops
  <2>4. CASE UNCHANGED <<fields, pos, out>> /\ rstatus' = [rstatus EXCEPT ![r] = status]
    BY <1>1, <2>4
  <2>5. QED
    BY <2>1, <2>2, <2>3, <2>4
<1>4. QED
  BY <1>2, <1>3 DEF Alone

\* What stays where it was while a reader reads.
SpanStays(r) == SameGiven /\ Span(r)' = Span(r) /\ Begins(r)' = Begins(r)

\* A reader, while it reads, is given no other bytes.
LEMMA SameSpan ==
    ASSUME StillReading, NEW r
    PROVE  SpanStays(r)
<1>1. UNCHANGED <<choice, writing, line>> /\ filled' = filled
  BY DEF StillReading
<1>2. SameGiven
  BY <1>1, SameJudged
<1>3. Span(r)' = Span(r)
  BY <1>1, <1>2 DEF Span, SameGiven
<1>4. Begins(r)' = Begins(r)
  BY <1>2, <1>3 DEF Begins, SameGiven
<1>5. QED
  BY <1>2, <1>3, <1>4 DEF SpanStays

\* A reader that goes on following the message is still understood.
LEMMA FollowsStill ==
    ASSUME NEW r, SpanStays(r), rstatus'[r] = rstatus[r], rstatus[r] = "reading", Understood(r),
           Follows(writer, fixed_mode, big_endian, Meant, r, fields'[r], pos'[r], out'[r])
    PROVE  Understood(r)'
<1>1. Follow(r)' = Follows(writer', fixed_mode', big_endian', Meant', r, fields'[r], pos'[r], out'[r])
  BY DEF Follow
<1>2. writer' = writer /\ fixed_mode' = fixed_mode /\ big_endian' = big_endian /\ Meant' = Meant
  BY DEF SpanStays, SameGiven
<1>3. Follow(r)'
  BY <1>1, <1>2
<1>4. Begins(r)'
  BY DEF SpanStays, Understood
<1>5. QED
  BY <1>3, <1>4 DEF Understood

\* It stores what shows the leaf, and goes on by as many bytes.
LEMMA StoresLeaf ==
    ASSUME BufferInv, NEW r \in Readers, Understood(r), Reads(r), StillReading, NEW x, Facing(r, x),
           NEW v, NEW n, n = Len(LeafBytes(writer, fixed_mode, big_endian, x)), Stored(r, v, n),
           ShowsBy(writer, fixed_mode, r, v, x)
    PROVE  Understood(r)'
<1> DEFINE y == [f |-> Field(r), v |-> v]
<1>1. DOMAIN fields = Readers /\ DOMAIN pos = Readers /\ DOMAIN out = Readers /\ DOMAIN rstatus = Readers
  BY DEF BufferInv, IsRead
<1>2. fields'[r] = Tail(fields[r]) /\ pos'[r] = pos[r] + n /\ out'[r] = Append(out[r], y) /\ rstatus'[r] = rstatus[r]
  BY <1>1 DEF Stored
<1>3. ShowsBy(writer, fixed_mode, r, y.v, x)
  OBVIOUS
<1> HIDE DEF y
<1>4. Follows(writer, fixed_mode, big_endian, Meant, r, Tail(fields[r]), pos[r] + n, Append(out[r], y))
  BY <1>3 DEF Facing
<1>5. Follows(writer, fixed_mode, big_endian, Meant, r, fields'[r], pos'[r], out'[r])
  BY <1>2, <1>4
<1>6. rstatus[r] = "reading"
  BY DEF Reads, Turn
<1>7. SpanStays(r)
  BY SameSpan
<1>8. QED
  BY <1>2, <1>5, <1>6, <1>7, FollowsStill

\* It refuses only when bytes of the leaf did not come.
LEMMA RefusesLeaf ==
    ASSUME BufferInv, NEW r \in Readers, Understood(r), StillReading, NEW x, Facing(r, x),
           Left(r) < Len(LeafBytes(writer, fixed_mode, big_endian, x)), Stops(r, "refused")
    PROVE  Understood(r)'
<1>1. rstatus'[r] = "refused"
  BY DEF Stops, BufferInv, IsRead
<1>2. SpanStays(r)
  BY SameSpan
<1>3. Len(Span(r)) < Len(buf)
  BY DEF Facing
<1>4. (Len(Span(r)) < Len(buf))' /\ Begins(r)'
  BY <1>2, <1>3 DEF SpanStays, SameGiven, Understood
<1>5. QED
  BY <1>1, <1>4 DEF Understood

\* It opens an array or a nested struct.
LEMMA OpensUnderstood ==
    ASSUME BufferInv, MessageInv, NEW r \in Readers, Nested(r) \/ Loop(r), Judged(r), Understood(r)
    PROVE  Understood(r)'
<1> DEFINE fs == fields[r]
           gs == Content(Head(fs)) \o Tail(fs)
           p == pos[r]
           os == out[r]
<1>1. Reads(r) /\ StillReading /\ rstatus[r] = "reading" /\ fs # <<>>
  BY DEF Nested, Loop, Reads, Turn
<1>2. ~IsLeaf(Head(fs))
  BY DEF Nested, Loop, IsLeaf, field_is_string, Field
<1>3. /\ fields' = [fields EXCEPT ![r] = Content(Field(r)) \o Tail(@)]
      /\ UNCHANGED <<pos, out, rstatus>>
  BY DEF Nested, Loop, Opens, Content
<1>4. fields'[r] = gs /\ pos'[r] = p /\ out'[r] = os /\ rstatus'[r] = rstatus[r]
  BY <1>3 DEF BufferInv, IsRead, Field
<1>5. WholeWritten
  BY MessageWritten DEF Judged
<1>6. writer \in {"C", "C#"} /\ Meant \in Seq(WritableLeaves(writer, fixed_mode))
  BY <1>5 DEF WholeWritten
<1>7. Follows(writer, fixed_mode, big_endian, Meant, r, fs, p, os)
  BY <1>1 DEF Understood, Follow
<1> HIDE DEF fs, p, os
<1>8. Follows(writer, fixed_mode, big_endian, Meant, r, gs, p, os)
  BY <1>1, <1>2, <1>6, <1>7, FollowsOpens
<1>9. Follows(writer, fixed_mode, big_endian, Meant, r, fields'[r], pos'[r], out'[r])
  BY <1>4, <1>8
<1>10. SpanStays(r)
  BY <1>1, SameSpan
<1>11. QED
  BY <1>1, <1>4, <1>9, <1>10, FollowsStill

\* It has nothing left to read.
LEMMA EndsUnderstood ==
    ASSUME BufferInv, NEW r \in Readers, ReadEnds(r), Understood(r)
    PROVE  Understood(r)'
<1>1. /\ rstatus[r] = "reading" /\ fields[r] = <<>> /\ StillReading
      /\ rstatus'[r] = "read" /\ fields'[r] = fields[r] /\ pos'[r] = pos[r] /\ out'[r] = out[r]
  BY DEF ReadEnds, Turn, BufferInv, IsRead
<1>2. SpanStays(r)
  BY <1>1, SameSpan
<1>3. Follow(r)' = Follow(r)
  BY <1>1, <1>2 DEF Follow, SpanStays, SameGiven
<1>4. Follow(r)' /\ Begins(r)' /\ (fields[r] = <<>>)'
  BY <1>1, <1>2, <1>3 DEF Understood, SpanStays
<1>5. QED
  BY <1>1, <1>4 DEF Understood

-----------------------------------------------------------------------------
(* A reader at a scalar. *)

\* What is before a reader at a scalar.
LEMMA FacesScalar ==
    ASSUME BufferInv, MessageInv, NEW r \in Readers, Judged(r), Understood(r), Reads(r),
           ~IsArray(Field(r)), ~IsStruct(Field(r))
    PROVE  \E x : /\ Facing(r, x) /\ ~field_is_string(x.f) /\ ScalarRead(big_endian, x)
                  /\ Len(LeafBytes(writer, fixed_mode, big_endian, x)) = SizeOf(Field(r))
                  /\ Left(r) >= SizeOf(Field(r)) =>
                        Ahead(r, 0, SizeOf(Field(r))) = ScalarBytes(x.f, x.v, big_endian)
<1> DEFINE k == SizeOf(Field(r))
<1>1. IsLeaf(Field(r))
  BY DEF IsLeaf
<1>2. PICK x : Facing(r, x)
  BY <1>1, FacesLeaf
<1> DEFINE l == LeafBytes(writer, fixed_mode, big_endian, x)
<1>3. /\ x \in AllItems(writer) /\ x.f = Field(r) /\ l \in Seq(Byte)
      /\ \A i, n \in Nat : i + n <= Len(l) /\ i + n <= Left(r) => Ahead(r, i, n) = SubSeq(l, i + 1, i + n)
  BY <1>2 DEF Facing
<1>4. writer \in {"C", "C#"}
  BY DEF BufferInv, Chosen
<1>5. ~field_is_string(x.f) /\ ~IsArray(x.f) /\ ~IsStruct(x.f)
  BY <1>3 DEF field_is_string
<1>6. ScalarRead(big_endian, x)
  BY <1>3, <1>4, <1>5, ScalarNumber
<1>7. l = ScalarBytes(x.f, x.v, big_endian)
  BY <1>5 DEF LeafBytes
<1>8. k \in Nat /\ Len(l) = k
  <2>1. x.v \in Int /\ SizeOf(x.f) \in Widths
    BY <1>3, <1>4, <1>5, ScalarValue
  <2>2. Len(ScalarBytes(x.f, x.v, big_endian)) = SizeOf(x.f)
    BY <2>1, ScalarBytesFacts
  <2>3. QED
    BY <1>3, <1>7, <2>1, <2>2, WidthsAreNat
<1>9. Turn(r)
  BY DEF Reads
<1>10. Left(r) \in Nat
  BY <1>9, NextField
<1> HIDE DEF l, k
<1>11. ASSUME Left(r) >= k
       PROVE  Ahead(r, 0, k) = l
  <2>1. 0 \in Nat /\ 0 + k <= Len(l) /\ 0 + k <= Left(r)
    BY <1>8, <1>10, <1>11
  <2>2. Ahead(r, 0, k) = SubSeq(l, 0 + 1, 0 + k)
    BY <1>3, <1>8, <2>1
  <2>3. SubSeq(l, 1, Len(l)) = l
    BY <1>3, SubSeqFull
  <2>4. QED
    BY <1>8, <2>2, <2>3
<1>12. QED
  BY <1>2, <1>5, <1>6, <1>7, <1>8, <1>11 DEF l, k

\* It reads the scalar, or refuses if it did not come.
LEMMA ScalarUnderstood ==
    ASSUME BufferInv, MessageInv, NEW r \in Readers, Judged(r), Understood(r),
           (r = "C" /\ CReadScalar) \/ CsReadScalar(r)
    PROVE  Understood(r)'
<1> DEFINE f == Field(r)
           k == SizeOf(f)
           c == IF r = "C" THEN buffers_read(Ahead(r, 0, k), CType(f), big_endian)
                           ELSE CsRead(Ahead(r, 0, k), f, big_endian)
<1>1. /\ Reads(r) /\ ~IsArray(f) /\ ~IsStruct(f) /\ StillReading
      /\ (Left(r) >= k /\ Stored(r, <<c>>, k)) \/ (Left(r) < k /\ Stops(r, "refused"))
  <2>1. CASE r = "C" /\ CReadScalar
    BY <2>1 DEF CReadScalar
  <2>2. CASE CsReadScalar(r)
    BY <2>2 DEF CsReadScalar
  <2>3. QED
    BY <2>1, <2>2
<1>2. PICK x : /\ Facing(r, x) /\ ~field_is_string(x.f) /\ ScalarRead(big_endian, x)
               /\ Len(LeafBytes(writer, fixed_mode, big_endian, x)) = k
               /\ Left(r) >= k => Ahead(r, 0, k) = ScalarBytes(x.f, x.v, big_endian)
  BY <1>1, FacesScalar
<1>3. x.f = f
  BY <1>2 DEF Facing
<1>4. CASE Left(r) < k /\ Stops(r, "refused")
  BY <1>1, <1>2, <1>4, RefusesLeaf
<1>5. CASE Left(r) >= k /\ Stored(r, <<c>>, k)
  <2>1. AsWritten(x, c)
    BY <1>2, <1>3, <1>5 DEF ScalarRead
  <2> HIDE DEF c, k
  <2>2. ShowsBy(writer, fixed_mode, r, <<c>>, x)
    BY <1>2, <2>1, ScalarShown
  <2>3. QED
    BY <1>1, <1>2, <1>5, <2>2, StoresLeaf
<1>6. QED
  BY <1>1, <1>4, <1>5

-----------------------------------------------------------------------------
(* A reader at a string. *)

\* What is before it: if all of it came, the length that was written, and as many
\* numbers.
AtString(r, x) ==
    LET f == Field(r)
        lp == PrefixSize(f)
        raw == RawOf(writer, fixed_mode, x)
        m == Len(raw)
        k == SizeOf(f)
    IN  /\ Facing(r, x) /\ x.f = f /\ x \in AllItems(writer) /\ f \in Fields
        /\ m \in Nat /\ f.array_len \in Nat /\ m <= f.array_len /\ k \in {1, 2} /\ lp \in Nat
        /\ m * k \in Nat /\ m <= m * k /\ lp + m * k < Values(4) \div 2
        /\ Len(LeafBytes(writer, fixed_mode, big_endian, x)) = lp + m * k
        /\ fixed_mode = TRUE => m = f.array_len
        /\ fixed_mode = FALSE /\ Left(r) >= lp =>
              /\ read_unsigned(Ahead(r, 0, lp), big_endian) = m
              /\ bp_read(Ahead(r, 0, lp), Prefix(f).wire_type, big_endian) = m
        /\ Left(r) >= lp + m * k =>
              /\ Ahead(r, lp, m * k) = Spread(NumOf(k, big_endian), raw)
              /\ \A i \in 1 .. m : Ahead(r, lp + (i - 1) * k, k) = NumBytes(raw[i], k, big_endian)

\* What is before a reader at a string.
LEMMA FacesString ==
    ASSUME BufferInv, MessageInv, NEW r \in Readers, Judged(r), Understood(r), Reads(r),
           field_is_string(Field(r))
    PROVE  \E x : AtString(r, x)
<1> DEFINE f == Field(r)
           lp == PrefixSize(f)
           k == SizeOf(f)
           t == Prefix(f).wire_type
<1>1. IsLeaf(f)
  BY DEF IsLeaf
<1>2. PICK x : Facing(r, x)
  BY <1>1, FacesLeaf
<1> DEFINE l == LeafBytes(writer, fixed_mode, big_endian, x)
           raw == RawOf(writer, fixed_mode, x)
           m == Len(raw)
           w == m * k
<1>3. /\ x \in AllItems(writer) /\ x.f = f /\ l \in Seq(Byte) /\ Len(l) \in Nat /\ Len(l) <= Len(buf)
      /\ \A i, n \in Nat : i + n <= Len(l) /\ i + n <= Left(r) => Ahead(r, i, n) = SubSeq(l, i + 1, i + n)
  BY <1>2 DEF Facing
<1>4. writer \in {"C", "C#"} /\ fixed_mode \in BOOLEAN /\ big_endian \in BOOLEAN /\ buf \in Bytes
  BY DEF BufferInv, Chosen, Written
<1>5. StringIn(writer, fixed_mode, big_endian, x)
  BY <1>3, <1>4, StringParts
<1>6. PrefixOf(f, fixed_mode) = lp
  BY <1>4 DEF PrefixOf, PrefixSize
<1>7. /\ raw \in Seq(Nat) /\ m \in Nat /\ m <= f.array_len /\ f.array_len \in Nat
      /\ k \in {1, 2} /\ lp \in Nat /\ Len(l) = lp + w
      /\ fixed_mode = TRUE => m = f.array_len
      /\ fixed_mode = FALSE => lp \in Widths /\ m \in 0 .. Values(lp) - 1
                               /\ SubSeq(l, 1, lp) = NumBytes(m, lp, big_endian)
      /\ NumbersIn(l, lp, k, big_endian, raw)
  BY <1>3, <1>5, <1>6 DEF StringIn
<1>8. /\ SubSeq(l, lp + 1, lp + w) = Spread(NumOf(k, big_endian), raw)
      /\ \A i \in 1 .. m :
            SubSeq(l, lp + (i - 1) * k + 1, lp + (i - 1) * k + k) = NumBytes(raw[i], k, big_endian)
  BY <1>7 DEF NumbersIn
<1>9. f \in Fields
  BY <1>3, AllItemsFacts
<1>10. Turn(r)
  BY DEF Reads
<1>11. Left(r) \in Nat
  BY <1>10, NextField
<1>12. Len(buf) < Values(4) \div 2 /\ Len(buf) \in Nat
  BY <1>4, LenProperties DEF Judged, IsSpan, Bytes
<1>13. Values(4) \div 2 \in Nat
  <2>1. PICK h \in Nat : h >= 1 /\ Values(4) = 2 * h /\ Values(4) \div 2 = h
    BY HalfOfValues
  <2>2. QED
    BY <2>1
<1> DEFINE half == Values(4) \div 2
<1> HIDE DEF f, lp, k, t, l, raw, m, half
<1>14. w \in Nat /\ m <= w
  <2>1. CASE k = 1
    BY <1>7, <2>1
  <2>2. CASE k = 2
    BY <1>7, <2>2
  <2>3. QED
    BY <1>7, <2>1, <2>2
<1>15. \A i \in 1 .. m : (i - 1) * k \in Nat /\ (i - 1) * k + k <= w
  <2>1. CASE k = 1
    BY <1>7, <2>1
  <2>2. CASE k = 2
    BY <1>7, <2>2
  <2>3. QED
    BY <1>7, <2>1, <2>2
<1> HIDE DEF w
<1>16. lp + w < half
  <2>1. Len(buf) < half /\ half \in Nat
    BY <1>12, <1>13 DEF half
  <2>2. QED
    BY <1>3, <1>7, <1>12, <2>1
<1>17. ASSUME fixed_mode = FALSE, Left(r) >= lp
       PROVE  read_unsigned(Ahead(r, 0, lp), big_endian) = m /\ bp_read(Ahead(r, 0, lp), t, big_endian) = m
  <2>1. 0 \in Nat /\ 0 + lp <= Len(l) /\ 0 + lp <= Left(r)
    BY <1>7, <1>11, <1>14, <1>17
  <2>2. Ahead(r, 0, lp) = SubSeq(l, 0 + 1, 0 + lp)
    BY <1>3, <1>7, <2>1
  <2>3. Ahead(r, 0, lp) = NumBytes(m, lp, big_endian)
    BY <1>7, <1>17, <2>2
  <2>4. lp \in Widths /\ lp \in Nat /\ m \in 0 .. Values(lp) - 1
    BY <1>7, <1>17
  <2>5. read_unsigned(NumBytes(m, lp, big_endian), big_endian) = m
    BY <1>4, <2>4, ReadBack
  <2>6. bp_read(NumBytes(m, lp, big_endian), t, big_endian) = IF t \in ToSet(Signed) THEN ToSigned(m, lp) ELSE m
    BY <1>4, <2>4, BpReadBack
  <2>7. t \notin ToSet(Signed)
    BY PrefixTypes DEF t
  <2>8. QED
    BY <2>3, <2>5, <2>6, <2>7
<1>18. ASSUME Left(r) >= lp + w
       PROVE  Ahead(r, lp, w) = Spread(NumOf(k, big_endian), raw)
  <2>1. lp + w <= Len(l) /\ lp + w <= Left(r)
    BY <1>7, <1>11, <1>14, <1>18
  <2>2. Ahead(r, lp, w) = SubSeq(l, lp + 1, lp + w)
    BY <1>3, <1>7, <1>14, <2>1
  <2>3. QED
    BY <1>8, <2>2
<1>19. ASSUME Left(r) >= lp + w, NEW i \in 1 .. m
       PROVE  Ahead(r, lp + (i - 1) * k, k) = NumBytes(raw[i], k, big_endian)
  <2> DEFINE p == (i - 1) * k
             q == lp + p
  <2>1. p \in Nat /\ p + k <= w
    BY <1>15
  <2>2. SubSeq(l, lp + p + 1, lp + p + k) = NumBytes(raw[i], k, big_endian)
    BY <1>8
  <2> HIDE DEF p
  <2>3. k \in Nat
    BY <1>7
  <2>4. q \in Nat /\ q + k <= Len(l) /\ q + k <= Left(r)
    BY <1>7, <1>11, <1>14, <1>19, <2>1, <2>3
  <2>5. SubSeq(l, q + 1, q + k) = NumBytes(raw[i], k, big_endian)
    BY <2>2
  <2> HIDE DEF q
  <2>6. Ahead(r, q, k) = SubSeq(l, q + 1, q + k)
    BY <1>3, <2>3, <2>4
  <2>7. Ahead(r, q, k) = NumBytes(raw[i], k, big_endian)
    BY <2>5, <2>6
  <2>8. QED
    BY <2>7 DEF q, p
<1>20. AtString(r, x)
  BY <1>2, <1>3, <1>7, <1>9, <1>14, <1>16, <1>17, <1>18, <1>19
     DEF AtString, f, lp, k, t, l, raw, m, w, half
<1>21. QED
  BY <1>20

\* C reads the string, or refuses if not all of it came.
LEMMA CStringUnderstood ==
    ASSUME BufferInv, MessageInv, Judged("C"), Understood("C"), CReadString
    PROVE  Understood("C")'
<1> DEFINE r == "C"
           f == Field(r)
           lp == PrefixSize(f)
           k == SizeOf(f)
           n == IF fixed_mode THEN f.array_len ELSE read_unsigned(Ahead(r, 0, lp), big_endian)
           array == [i \in 1 .. n |-> buffers_read(Ahead(r, lp + (i - 1) * k, k), f.type, big_endian)]
           v == IF n < f.array_len THEN array \o <<0>> ELSE array
<1>1. /\ Reads(r) /\ field_is_string(f) /\ StillReading
      /\ \/ Left(r) < lp /\ Stops(r, "refused")
         \/ Left(r) >= lp /\ (TooLong(n, f) \/ Left(r) < lp + n * k) /\ Stops(r, "refused")
         \/ Left(r) >= lp /\ ~TooLong(n, f) /\ Left(r) >= lp + n * k /\ Stored(r, v, lp + n * k)
  BY DEF CReadString
<1>2. r \in Readers
  BY DEF Readers
<1>3. PICK x : AtString(r, x)
  BY <1>1, <1>2, FacesString
<1> DEFINE raw == RawOf(writer, fixed_mode, x)
           m == Len(raw)
           l == LeafBytes(writer, fixed_mode, big_endian, x)
<1>4. /\ Facing(r, x) /\ x.f = f /\ x \in AllItems(writer) /\ f \in Fields
      /\ m \in Nat /\ f.array_len \in Nat /\ m <= f.array_len /\ k \in {1, 2} /\ lp \in Nat
      /\ m * k \in Nat
      /\ Len(l) = lp + m * k
      /\ fixed_mode = TRUE => m = f.array_len
      /\ fixed_mode = FALSE /\ Left(r) >= lp => read_unsigned(Ahead(r, 0, lp), big_endian) = m
      /\ Left(r) >= lp + m * k =>
            \A i \in 1 .. m : Ahead(r, lp + (i - 1) * k, k) = NumBytes(raw[i], k, big_endian)
  BY <1>3 DEF AtString
<1>5. writer \in {"C", "C#"} /\ fixed_mode \in BOOLEAN /\ big_endian \in BOOLEAN
  BY DEF BufferInv, Chosen
<1>6. Left(r) \in Nat
  BY <1>1, <1>2, NextField DEF Reads
<1> HIDE DEF f, lp, k, m, l, raw
<1>7. Left(r) >= lp => n = m
  BY <1>4, <1>5
<1> DEFINE w == m * k
<1>8. w \in Nat /\ Len(l) = lp + w
  BY <1>4
<1>9. TooLong(m, f) = FALSE
  BY <1>4 DEF TooLong
<1>10. CASE Left(r) < lp /\ Stops(r, "refused")
  <2>1. Left(r) < Len(l)
    <3> HIDE DEF w
    <3>1. QED
      BY <1>4, <1>6, <1>8, <1>10
  <2>2. QED
    BY <1>1, <1>2, <1>4, <1>10, <2>1, RefusesLeaf DEF l
<1>11. CASE Left(r) >= lp /\ (TooLong(n, f) \/ Left(r) < lp + n * k) /\ Stops(r, "refused")
  <2>1. n = m
    BY <1>7, <1>11
  <2>2. Left(r) < lp + m * k
    BY <1>9, <1>11, <2>1
  <2>3. Left(r) < Len(l)
    BY <1>8, <2>2
  <2>4. QED
    BY <1>1, <1>2, <1>4, <1>11, <2>3, RefusesLeaf DEF l
<1>12. CASE Left(r) >= lp /\ ~TooLong(n, f) /\ Left(r) >= lp + n * k /\ Stored(r, v, lp + n * k)
  <2>1. n = m
    BY <1>7, <1>12
  <2>2. Left(r) >= lp + m * k /\ Stored(r, v, lp + m * k)
    BY <1>12, <2>1
  <2>3. \A i \in 1 .. m : Ahead(r, lp + (i - 1) * k, k) = NumBytes(raw[i], k, big_endian)
    BY <1>4, <2>2
  <2>4. array = [i \in 1 .. m |-> buffers_read(NumBytes(raw[i], k, big_endian), f.type, big_endian)]
    <3> HIDE DEF n
    <3>1. QED
      BY <2>1, <2>3
  <2>5. v = CStored(f, raw, big_endian)
    <3> HIDE DEF n, array
    <3>1. QED
      BY <2>1, <2>4 DEF CStored, k, m
  <2> HIDE DEF v
  <2>6. ShowsBy(writer, fixed_mode, r, CStored(f, raw, big_endian), x)
    <3>1. field_is_string(x.f)
      BY <1>1, <1>4 DEF f
    <3>2. ShowsBy(writer, fixed_mode, "C", CStored(x.f, RawOf(writer, fixed_mode, x), big_endian), x)
      BY <1>4, <1>5, <3>1, CStringShown
    <3>3. QED
      BY <1>4, <3>2 DEF raw
  <2>7. Stored(r, v, Len(l)) /\ ShowsBy(writer, fixed_mode, r, v, x)
    BY <1>8, <2>2, <2>5, <2>6
  <2>8. QED
    BY <1>1, <1>2, <1>4, <2>7, StoresLeaf DEF l
<1>13. QED
  BY <1>1, <1>10, <1>11, <1>12

\* C# does, and throws nothing: the length and its product with the size of a unit are
\* ints.
LEMMA CsStringUnderstood ==
    ASSUME BufferInv, MessageInv, NEW r \in Readers, Judged(r), Understood(r), CsReadString(r)
    PROVE  Understood(r)'
<1> DEFINE f == Field(r)
           lp == PrefixSize(f)
           k == SizeOf(f)
           n == IF fixed_mode THEN f.array_len
                ELSE AsInt(bp_read(Ahead(r, 0, lp), Prefix(f).wire_type, big_endian))
           byteLen == AsInt(n * k)
<1>1. /\ r # "C" /\ Reads(r) /\ field_is_string(f) /\ StillReading
      /\ \/ Left(r) < lp /\ Stops(r, "refused")
         \/ Left(r) >= lp /\ (TooLong(n, f) \/ Left(r) < lp + byteLen) /\ Stops(r, "refused")
         \/ Left(r) >= lp /\ byteLen < 0 /\ Stops(r, "thrown")
         \/ /\ Left(r) >= lp /\ Left(r) >= lp + byteLen
            /\ Stored(r, Decode(Ahead(r, lp, byteLen), f), lp + byteLen)
  BY DEF CsReadString
<1>2. PICK x : AtString(r, x)
  BY <1>1, FacesString
<1> DEFINE raw == RawOf(writer, fixed_mode, x)
           m == Len(raw)
           l == LeafBytes(writer, fixed_mode, big_endian, x)
           half == Values(4) \div 2
           w == m * k
<1>3. /\ Facing(r, x) /\ x.f = f /\ x \in AllItems(writer) /\ f \in Fields
      /\ m \in Nat /\ f.array_len \in Nat /\ m <= f.array_len /\ k \in {1, 2} /\ lp \in Nat
      /\ w \in Nat /\ m <= w /\ lp + w < half
      /\ Len(l) = lp + w
      /\ fixed_mode = TRUE => m = f.array_len
      /\ fixed_mode = FALSE /\ Left(r) >= lp =>
            bp_read(Ahead(r, 0, lp), Prefix(f).wire_type, big_endian) = m
      /\ Left(r) >= lp + w => Ahead(r, lp, w) = Spread(NumOf(k, big_endian), raw)
  BY <1>2 DEF AtString
<1>4. writer \in {"C", "C#"} /\ fixed_mode \in BOOLEAN /\ big_endian \in BOOLEAN
  BY DEF BufferInv, Chosen
<1>5. Left(r) \in Nat
  BY <1>1, NextField DEF Reads
<1>6. half \in Nat
  <2>1. PICK h \in Nat : h >= 1 /\ Values(4) = 2 * h /\ Values(4) \div 2 = h
    BY HalfOfValues
  <2>2. QED
    BY <2>1
<1>7. m < half /\ w < half
  <2> HIDE DEF m, lp, half, w
  <2>1. QED
    BY <1>3, <1>6
<1>8. AsInt(m) = m /\ AsInt(w) = w
  <2>1. m \in Int /\ 0 <= m /\ m < Values(4) \div 2
    BY <1>3, <1>7
  <2>2. w \in Int /\ 0 <= w /\ w < Values(4) \div 2
    BY <1>3, <1>7
  <2> HIDE DEF m, w, half
  <2>3. AsInt(m) = m
    BY <2>1, AsIntFacts
  <2>4. AsInt(w) = w
    BY <2>2, AsIntFacts
  <2>5. QED
    BY <2>3, <2>4
<1> HIDE DEF f, lp, k, m, l, raw, half, w
<1>9. Left(r) >= lp => n = m
  BY <1>3, <1>4, <1>8
<1>10. TooLong(m, f) = FALSE
  BY <1>3 DEF TooLong
<1> HIDE DEF n
<1>11. Left(r) >= lp => byteLen = w
  BY <1>8, <1>9 DEF w
<1> HIDE DEF byteLen
<1>12. CASE Left(r) < lp /\ Stops(r, "refused")
  <2>1. Left(r) < Len(l)
    BY <1>3, <1>5, <1>12
  <2>2. QED
    BY <1>1, <1>3, <1>12, <2>1, RefusesLeaf DEF l
<1>13. CASE Left(r) >= lp /\ (TooLong(n, f) \/ Left(r) < lp + byteLen) /\ Stops(r, "refused")
  <2>1. n = m /\ byteLen = w
    BY <1>9, <1>11, <1>13
  <2>2. Left(r) < Len(l)
    BY <1>3, <1>10, <1>13, <2>1
  <2>3. QED
    BY <1>1, <1>3, <1>13, <2>2, RefusesLeaf DEF l
<1>14. CASE Left(r) >= lp /\ byteLen < 0 /\ Stops(r, "thrown")
  <2>1. byteLen >= 0
    BY <1>3, <1>11, <1>14
  <2>2. QED
    BY <1>3, <1>11, <1>14, <2>1
<1>15. CASE /\ Left(r) >= lp /\ Left(r) >= lp + byteLen
            /\ Stored(r, Decode(Ahead(r, lp, byteLen), f), lp + byteLen)
  <2> DEFINE v == Decode(Spread(NumOf(k, big_endian), raw), f)
  <2>1. byteLen = w
    BY <1>11, <1>15
  <2>2. Ahead(r, lp, byteLen) = Spread(NumOf(k, big_endian), raw)
    BY <1>3, <1>15, <2>1
  <2>3. Stored(r, v, Len(l))
    BY <1>3, <1>15, <2>1, <2>2
  <2>4. field_is_string(x.f)
    BY <1>1, <1>3 DEF f
  <2>5. CsShown(writer, x)
    BY <1>3, <1>4, <2>4, CsStringShown
  <2>6. r \in {"C#", "Stream"}
    BY <1>1 DEF Readers
  <2>7. ShowsBy(writer, fixed_mode, r, Decode(Spread(NumOf(SizeOf(x.f), big_endian), raw), x.f), x)
    BY <2>5, <2>6 DEF CsShown, raw
  <2>8. ShowsBy(writer, fixed_mode, r, v, x)
    BY <1>3, <2>7 DEF k
  <2> HIDE DEF v
  <2>9. QED
    BY <1>1, <1>3, <2>3, <2>8, StoresLeaf DEF l
<1>16. QED
  BY <1>1, <1>12, <1>13, <1>14, <1>15

-----------------------------------------------------------------------------
(* The line, and the stream. *)

\* In fixed mode every message of a struct has as many bytes as the size defined for it.
LEMMA StreamLength ==
    ASSUME BufferInv, MessageInv, wstatus = "written", ~HasGap, fixed_mode = TRUE
    PROVE  Len(buf) = StructMaxSize(struct)
<1> DEFINE items == FieldsOf(struct, message)
           h == SizesOf(writer, fixed_mode)
           F == FullLeaves(writer, fixed_mode)
           W == WritableLeaves(writer, fixed_mode)
<1>1. /\ writer \in {"C", "C#"} /\ fixed_mode \in BOOLEAN
      /\ struct \in DOMAIN Structs /\ message \in MessagesOf(writer, struct)
  BY DEF BufferInv, Chosen, MessageInv, MessageGiven
<1>2. WholeWritten
  BY MessageWritten
<1>3. buf = BytesOf(writer, fixed_mode, big_endian, Leaves(writer, items))
      /\ Leaves(writer, items) \in Seq(W)
  BY <1>2 DEF WholeWritten, Meant
<1>4. W \subseteq F
  BY DEF WritableLeaves, FullLeaves
<1>5. AreFields(writer, struct, items)
  BY <1>1, MessageItems
<1>6. items \in Seq(AllItems(writer))
  BY <1>5 DEF AreFields
<1>7. Rest(items, fixed_mode) = MaxSize(struct, fixed_mode)
  BY <1>1, FieldsSized
<1> HIDE DEF items
<1>8. Leaves(writer, items) \in Seq(F)
  <2> DEFINE l == Leaves(writer, items)
  <2>1. l \in Seq(W)
    BY <1>3
  <2> HIDE DEF W, F, l
  <2>2. l \in Seq(F)
    BY <1>4, <2>1, SeqMonotonic
  <2>3. QED
    BY <2>2 DEF l
<1>9. Len(buf) = SumOf(h, items)
  BY <1>1, <1>3, <1>6, <1>8, FullBytes
<1>10. SumOf(h, items) = Rest(items, fixed_mode)
  <2>1. \A i \in DOMAIN items : items[i] \in AllItems(writer)
    <3> DEFINE A == AllItems(writer)
    <3>1. items \in Seq(A)
      BY <1>6
    <3> HIDE DEF A
    <3>2. \A i \in DOMAIN items : items[i] \in A
      BY <3>1, ElementOfSeq, LenProperties
    <3>3. QED
      BY <3>2 DEF A
  <2>2. [i \in DOMAIN items |-> h[items[i]]] = ItemSizes(items, fixed_mode)
    BY <2>1 DEF SizesOf, ItemSizes
  <2>3. QED
    BY <2>2 DEF SumOf, Rest
<1>11. QED
  BY <1>7, <1>9, <1>10 DEF MaxSize, StructMaxSize

\* The bytes reach readers that have the whole message before them.
LEMMA SentUnderstood ==
    ASSUME BufferInv, MessageInv, ReadersInv, NEW n \in Nat, n <= Len(buf), NEW b, NEW how,
           b = SubSeq(buf, 1, n), Sent(b, how),
           (how = "whole" /\ b = buf) \/ (how = "cut" /\ n < Len(buf))
    PROVE  ReadersInv'
<1>1. /\ wstatus = "written" /\ intact = "unsent" /\ wire' = b /\ intact' = how
      /\ rstatus' = [r \in Readers |-> "reading"]
      /\ UNCHANGED <<choice, writing, fields, pos, out, filled>>
  BY DEF Sent
<1>2. /\ UNCHANGED choice /\ buf' = buf /\ wstatus' = wstatus /\ fields' = fields /\ pos' = pos
      /\ out' = out /\ filled' = filled
      /\ writer' = writer /\ fixed_mode' = fixed_mode /\ big_endian' = big_endian
  BY <1>1 DEF writing, choice
<1>3. Meant' = Meant
  BY <1>2, SameMeant
<1>4. filled = <<>> /\ \A r \in Readers : fields[r] = Structs[struct] /\ out[r] = <<>>
  BY <1>1 DEF ReadersInv, LineInv
<1>5. \A r \in Readers : pos[r] = 0
  BY <1>1 DEF BufferInv, Written
<1>6. buf \in Seq(Byte) /\ Len(buf) \in Nat
  BY LenProperties DEF BufferInv, Written, Bytes
<1>7. Len(b) = n
  BY <1>6
<1>8. LineInv'
  BY <1>1, <1>2, <1>6, <1>7 DEF LineInv
<1>9. ASSUME NEW r \in Readers
      PROVE  Understood(r)'
  <2>1. rstatus'[r] = "reading"
    BY <1>1
  <2>2. Follows(writer, fixed_mode, big_endian, Meant, r, Structs[struct], 0, <<>>)
    <3>1. /\ writer \in {"C", "C#"} /\ fixed_mode \in BOOLEAN
          /\ struct \in DOMAIN Structs /\ message \in MessagesOf(writer, struct)
      BY DEF BufferInv, Chosen, MessageInv, MessageGiven
    <3>2. Follows(writer, fixed_mode, big_endian, Leaves(writer, FieldsOf(struct, message)), r,
                  Structs[struct], 0, <<>>)
      BY <3>1, FollowsStart
    <3>3. QED
      BY <3>2 DEF Meant
  <2>3. Follow(r)' = Follows(writer', fixed_mode', big_endian', Meant', r, fields'[r], pos'[r], out'[r])
    BY DEF Follow
  <2>4. Follow(r)'
    BY <1>2, <1>3, <1>4, <1>5, <2>2, <2>3
  <2>5. Begins(r)'
    <3>1. CASE r = "Stream"
      <4>1. Span(r)' = <<>>
        BY <1>2, <1>4, <3>1 DEF Span
      <4>2. SubSeq(buf, 1, 0) = <<>>
        BY <1>6
      <4>3. QED
        BY <1>2, <1>6, <4>1, <4>2 DEF Begins
    <3>2. CASE r # "Stream"
      <4>1. Span(r)' = b
        BY <1>1, <3>2 DEF Span
      <4>2. QED
        BY <1>2, <1>6, <1>7, <4>1 DEF Begins
    <3>3. QED
      BY <3>1, <3>2
  <2>6. QED
    BY <2>1, <2>4, <2>5 DEF Understood
<1>10. QED
  BY <1>8, <1>9 DEF ReadersInv

\* They come whole, cut off, or changed; changed, nothing is judged.
LEMMA DeliveryUnderstood ==
    ASSUME BufferInv, MessageInv, ReadersInv, Deliver \/ DeliverCut \/ DeliverChanged
    PROVE  ReadersInv'
<1>1. buf \in Seq(Byte) /\ Len(buf) \in Nat
  BY LenProperties DEF BufferInv, Written, Bytes
<1>2. CASE Deliver
  <2> DEFINE n == Len(buf)
             how == "whole"
  <2>1. n \in Nat /\ n <= Len(buf) /\ buf = SubSeq(buf, 1, n) /\ Sent(buf, how) /\ how = "whole"
    BY <1>1, <1>2, SubSeqFull DEF Deliver
  <2> HIDE DEF n, how
  <2>2. QED
    BY <2>1, SentUnderstood
<1>3. CASE DeliverCut
  <2> DEFINE how == "cut"
  <2>1. PICK n \in 0 .. Len(buf) - 1 : Sent(SubSeq(buf, 1, n), how)
    BY <1>3 DEF DeliverCut
  <2> DEFINE b == SubSeq(buf, 1, n)
  <2>2. n \in Nat /\ n <= Len(buf) /\ n < Len(buf) /\ b = SubSeq(buf, 1, n) /\ Sent(b, how) /\ how = "cut"
    BY <1>1, <2>1
  <2> HIDE DEF b, how
  <2>3. QED
    BY <2>2, SentUnderstood
<1>4. CASE DeliverChanged
  <2>1. PICK b : Sent(b, "changed")
    BY <1>4 DEF DeliverChanged
  <2>2. wstatus' = "written" /\ intact' = "changed"
    BY <2>1 DEF Sent, writing
  <2>3. LineInv'
    BY <2>2 DEF LineInv
  <2>4. \A r : ~Judged(r)'
    BY <2>2 DEF Judged
  <2>5. QED
    BY <2>3, <2>4 DEF ReadersInv
<1>5. QED
  BY <1>2, <1>3, <1>4

\* The bytes a stream fills its buffer with are those of the message, as far as it goes.
LEMMA StreamUnderstood ==
    ASSUME BufferInv, MessageInv, ReadersInv, StreamRead
    PROVE  ReadersInv'
<1> DEFINE r == "Stream"
           max == StructMaxSize(struct)
<1>1. Turn(r) /\ r \in Readers /\ filled = <<>> /\ UNCHANGED <<choice, writing, line>>
  BY DEF StreamRead, Readers
<1>2. PICK n \in 0 .. Min({max, 2 * Len(wire)}) :
          /\ filled' = SubSeq(wire \o wire, 1, n)
          /\ \/ n < max /\ Stops(r, "refused")
             \/ n = max /\ UNCHANGED <<fields, pos, out, rstatus>>
  BY DEF StreamRead
<1>3. /\ fields \in [Readers -> Seq(Fields)] /\ rstatus \in [Readers -> Status]
      /\ wire \in Seq(Byte) /\ buf \in Seq(Byte) /\ Len(buf) \in Nat
  BY LenProperties DEF BufferInv, IsRead, Written, Bytes
<1>4. n \in Nat
  <2> DEFINE k == Min({max, 2 * Len(wire)})
  <2>1. n \in 0 .. k
    OBVIOUS
  <2> HIDE DEF k
  <2>2. QED
    BY <2>1
<1>5. Alone(r)
  <2>1. Stops(r, "refused") \/ UNCHANGED <<fields, pos, out, rstatus>>
    BY <1>2
  <2>2. \A q \in Readers \ {r} : /\ fields'[q] = fields[q] /\ pos'[q] = pos[q]
                                 /\ out'[q] = out[q] /\ rstatus'[q] = rstatus[q]
    BY <1>3, <2>1 DEF Stops
  <2>3. QED
    BY <1>1, <2>2 DEF Alone
<1>6. intact # "unsent"
  BY <1>1, NextField
<1>7. SameGiven
  BY <1>1, SameJudged
<1>8. ASSUME Judged(r)
      PROVE  Understood(r)'
  <2>1. wstatus = "written" /\ ~HasGap /\ fixed_mode = TRUE /\ intact = "whole"
    BY <1>8 DEF Judged
  <2>2. wire = buf /\ Understood(r)
    BY <1>1, <1>8, <2>1 DEF ReadersInv, LineInv
  <2>3. Len(buf) = max
    BY <2>1, StreamLength
  <2> HIDE DEF max
  <2>4. n <= Len(buf)
    BY <1>2, <1>3, <1>4, <2>3
  <2>5. filled' = SubSeq(buf, 1, n) /\ Len(filled') = n
    <3>1. 0 \in Nat /\ 0 + n <= Len(buf)
      BY <1>4, <2>4
    <3>2. SubSeq(buf \o buf, 0 + 1, 0 + n) = SubSeq(buf, 0 + 1, 0 + n)
      BY <1>3, <1>4, <3>1, Window
    <3>6. 0 + 1 = 1 /\ 0 + n = n
      BY <1>4
    <3>3. SubSeq(buf \o buf, 1, n) = SubSeq(buf, 1, n)
      BY <3>2, <3>6, Zenon
    <3>4. Len(SubSeq(buf, 1, n)) = n
      BY <1>3, <1>4, <2>4
    <3>5. QED
      BY <1>2, <2>2, <3>3, <3>4
  <2>6. Span(r)' = filled'
    BY DEF Span
  <2>7. Begins(r)'
    BY <1>7, <2>4, <2>5, <2>6 DEF Begins, SameGiven
  <2>8. rstatus[r] = "reading"
    BY <1>1 DEF Turn
  <2>9. CASE n < max /\ Stops(r, "refused")
    <3>1. rstatus'[r] = "refused"
      BY <1>1, <1>3, <2>9 DEF Stops
    <3>2. (Len(Span(r)) < Len(buf))'
      BY <1>7, <2>3, <2>5, <2>6, <2>9 DEF SameGiven
    <3>3. QED
      BY <2>7, <3>1, <3>2 DEF Understood
  <2>10. CASE UNCHANGED <<fields, pos, out, rstatus>>
    <3>1. Follow(r) /\ rstatus'[r] = "reading"
      BY <2>2, <2>8, <2>10 DEF Understood
    <3>2. Follow(r)' = Follow(r)
      BY <1>7, <2>10 DEF Follow, SameGiven
    <3>3. QED
      BY <2>7, <3>1, <3>2 DEF Understood
  <2>11. QED
    BY <1>2, <2>9, <2>10
<1>9. QED
  BY <1>1, <1>5, <1>6, <1>8, OneReads

\* Every step of a reader is understood.
LEMMA ReaderUnderstood ==
    ASSUME BufferInv, MessageInv, ReadersInv, NEW r \in Readers,
           (r = "C" /\ CMoves) \/ (r # "C" /\ CsMoves(r))
    PROVE  ReadersInv'
<1>1. CASE Nested(r) \/ Loop(r)
  <2>1. Turn(r) /\ StillReading
    BY <1>1 DEF Nested, Loop, Reads
  <2>2. PICK fs : Opens(r, fs)
    BY <1>1 DEF Nested, Loop
  <2>3. Alone(r)
    BY <2>1, <2>2, StillAlone
  <2>4. Judged(r) => Understood(r)'
    BY <1>1, OpensUnderstood DEF ReadersInv
  <2>5. intact # "unsent"
    BY <2>1, NextField
  <2>6. QED
    BY <2>3, <2>4, <2>5, OneReads
<1>2. CASE (r = "C" /\ CReadScalar) \/ (r # "C" /\ CsReadScalar(r))
  <2>1. Turn(r) /\ StillReading
    BY <1>2 DEF CReadScalar, CsReadScalar, Reads
  <2>2. (\E v, n : Stored(r, v, n)) \/ Stops(r, "refused")
    BY <1>2 DEF CReadScalar, CsReadScalar
  <2>3. Alone(r)
    BY <2>1, <2>2, StillAlone
  <2>4. Judged(r) => Understood(r)'
    BY <1>2, ScalarUnderstood DEF ReadersInv
  <2>5. intact # "unsent"
    BY <2>1, NextField
  <2>6. QED
    BY <2>3, <2>4, <2>5, OneReads
<1>3. CASE (r = "C" /\ CReadString) \/ (r # "C" /\ CsReadString(r))
  <2>1. Turn(r) /\ StillReading
    BY <1>3 DEF CReadString, CsReadString, Reads
  <2>2. (\E v, n : Stored(r, v, n)) \/ (\E status : Stops(r, status))
    BY <1>3 DEF CReadString, CsReadString
  <2>3. Alone(r)
    BY <2>1, <2>2, StillAlone
  <2>4. Judged(r) => Understood(r)'
    <3>1. CASE r = "C"
      <4>1. CReadString /\ "C" \in Readers
        BY <1>3, <3>1
      <4>2. Judged("C") => Understood("C")
        BY <4>1 DEF ReadersInv
      <4>3. Judged("C") => Understood("C")'
        BY <4>1, <4>2, CStringUnderstood
      <4>4. QED
        BY <3>1, <4>3
    <3>2. CASE r # "C"
      BY <1>3, <3>2, CsStringUnderstood DEF ReadersInv
    <3>3. QED
      BY <3>1, <3>2
  <2>5. intact # "unsent"
    BY <2>1, NextField
  <2>6. QED
    BY <2>3, <2>4, <2>5, OneReads
<1>4. CASE ReadEnds(r)
  <2> DEFINE status == "read"
  <2>1. Turn(r) /\ StillReading /\ UNCHANGED <<fields, pos, out>>
        /\ rstatus' = [rstatus EXCEPT ![r] = status]
    BY <1>4 DEF ReadEnds
  <2> HIDE DEF status
  <2>2. Alone(r)
    BY <2>1, StillAlone
  <2>3. Judged(r) => Understood(r)'
    BY <1>4, EndsUnderstood DEF ReadersInv
  <2>4. intact # "unsent"
    BY <2>1, NextField
  <2>5. QED
    BY <2>2, <2>3, <2>4, OneReads
<1>5. QED
  BY <1>1, <1>2, <1>3, <1>4
     DEF CMoves, CsMoves, CReadStruct, CReadArray, CsReadStruct, CsReadArray

\* While the message is being written nothing is judged.
LEMMA WriterUnderstood ==
    ASSUME ReadersInv, Write
    PROVE  ReadersInv'
<1>1. wstatus = "writing" /\ UNCHANGED choice /\ UNCHANGED line /\ UNCHANGED reading
  BY DEF Write, CWriteArray, CWriteString, CWriteStruct, CWriteScalar, CsWriteString,
         CsWriteList, CsFill, CsWriteArray, CsWriteStruct, CsWriteScalar, WriteEnds,
         Unchanging, Writes
<1>2. intact = "unsent" /\ filled = <<>> /\ \A r \in Readers : fields[r] = Structs[struct] /\ out[r] = <<>>
  BY <1>1 DEF ReadersInv, LineInv
<1>3. /\ intact' = intact /\ fields' = fields /\ out' = out /\ filled' = filled /\ struct' = struct
  BY <1>1 DEF line, reading, choice
<1>4. LineInv'
  BY <1>2, <1>3 DEF LineInv
<1>5. \A r \in Readers : ~Judged(r)'
  BY <1>2, <1>3 DEF Judged
<1>6. QED
  BY <1>4, <1>5 DEF ReadersInv

\* So is a step that changes nothing.
LEMMA StutterUnderstood ==
    ASSUME ReadersInv, UNCHANGED vars
    PROVE  ReadersInv'
<1>1. UNCHANGED <<choice, writing, line>> /\ fields' = fields /\ pos' = pos /\ out' = out
      /\ rstatus' = rstatus /\ filled' = filled
  BY DEF vars, reading
<1>2. SameGiven /\ \A r : Judged(r)' = Judged(r)
  BY <1>1, SameJudged
<1>3. LineInv'
  BY <1>1, <1>2 DEF ReadersInv, LineInv, SameGiven
<1>4. ASSUME NEW r \in Readers, Judged(r)'
      PROVE  Understood(r)'
  <2>1. Understood(r)
    BY <1>2, <1>4 DEF ReadersInv
  <2>2. Span(r)' = Span(r)
    BY <1>1, <1>2 DEF Span, SameGiven
  <2>3. QED
    BY <1>1, <1>2, <2>1, <2>2, StaysUnderstood
<1>5. QED
  BY <1>3, <1>4 DEF ReadersInv

\* At the start nothing has come.
LEMMA InitReaders == Init => ReadersInv
<1> SUFFICES ASSUME Init
             PROVE  ReadersInv
  OBVIOUS
<1>1. intact = "unsent" /\ filled = <<>>
      /\ fields = [r \in Readers |-> Structs[struct]] /\ out = [r \in Readers |-> <<>>]
  BY DEF Init
<1>2. LineInv
  BY <1>1 DEF LineInv
<1>3. \A r : ~Judged(r)
  BY <1>1 DEF Judged
<1>4. QED
  BY <1>2, <1>3 DEF ReadersInv

\* Every step keeps the readers with the message they read.
LEMMA NextReaders ==
    ASSUME BufferInv, MessageInv, ReadersInv, [Next]_vars
    PROVE  ReadersInv'
<1>1. CASE Write
  BY <1>1, WriterUnderstood
<1>2. CASE Deliver \/ DeliverCut \/ DeliverChanged
  BY <1>2, DeliveryUnderstood
<1>3. CASE Read
  <2>1. CMoves \/ (\E r \in {"C#", "Stream"} : CsMoves(r)) \/ StreamRead
    BY <1>3 DEF Read, CMoves, CsMoves, Readers
  <2>2. CASE CMoves
    <3> DEFINE r == "C"
    <3>1. r \in Readers /\ r = "C" /\ CMoves
      BY <2>2 DEF Readers
    <3> HIDE DEF r
    <3>2. QED
      BY <3>1, ReaderUnderstood
  <2>3. CASE \E r \in {"C#", "Stream"} : CsMoves(r)
    <3>1. PICK r \in {"C#", "Stream"} : CsMoves(r)
      BY <2>3
    <3>2. r \in Readers /\ r # "C"
      BY DEF Readers
    <3>3. QED
      BY <3>1, <3>2, ReaderUnderstood
  <2>4. CASE StreamRead
    BY <2>4, StreamUnderstood
  <2>5. QED
    BY <2>1, <2>2, <2>3, <2>4
<1>4. CASE UNCHANGED vars
  BY <1>4, StutterUnderstood
<1>5. QED
  BY <1>1, <1>2, <1>3, <1>4 DEF Next

-----------------------------------------------------------------------------
(* What arrives. *)

\* What shows a leaf of any message shows it of this one.
LEMMA SameShown ==
    ASSUME fixed_mode \in BOOLEAN, NEW r, NEW stored, NEW m, ShowsBy(writer, fixed_mode, r, stored, m)
    PROVE  Shows(r, stored, m)
<1>1. UnitsOf(m) = UnitsBy(writer, m)
  BY DEF UnitsOf, UnitsBy
<1> DEFINE text == IF r = "C" \/ fixed_mode THEN TextOf(UnitsOf(m)) ELSE UnitsOf(m)
           same == IF r = "C" \/ fixed_mode = TRUE THEN TextOf(UnitsBy(writer, m)) ELSE UnitsBy(writer, m)
<1>2. text = same
  BY <1>1
<1>3. IF field_is_string(m.f)
      THEN CASE r = "C" -> [i \in DOMAIN TextOf(stored) |-> ToUnsigned(stored[i], SizeOf(m.f))] = same
             [] r # "C" /\ is_char_array(m.f) -> stored = GetString(same)
             [] r # "C" /\ is_wchar_array(m.f) -> stored = same
      ELSE IF m.f.type \in {"char", "wchar_t"} THEN ToUnsigned(stored[1], SizeOf(m.f)) = ToUnsigned(m.v, SizeOf(m.f))
      ELSE stored = <<m.v>>
  BY DEF ShowsBy
<1> HIDE DEF text, same
<1>4. IF field_is_string(m.f)
      THEN CASE r = "C" -> [i \in DOMAIN TextOf(stored) |-> ToUnsigned(stored[i], SizeOf(m.f))] = text
             [] r # "C" /\ is_char_array(m.f) -> stored = GetString(text)
             [] r # "C" /\ is_wchar_array(m.f) -> stored = text
      ELSE IF m.f.type \in {"char", "wchar_t"} THEN ToUnsigned(stored[1], SizeOf(m.f)) = ToUnsigned(m.v, SizeOf(m.f))
      ELSE stored = <<m.v>>
  BY <1>2, <1>3
<1>5. QED
  BY <1>4 DEF Shows, text

\* A reader that read a message to its end found all of it.
ReadWhole(r) ==
    /\ pos[r] = Len(buf) /\ Len(out[r]) = Len(Meant)
    /\ \A i \in DOMAIN Meant : Shows(r, out[r][i].v, Meant[i])

\* A reader that ended has found every leaf of the message.
LEMMA ReadIsWhole ==
    ASSUME BufferInv, MessageInv, NEW r \in Readers, Judged(r), Understood(r), rstatus[r] = "read"
    PROVE  ReadWhole(r)
<1>1. WholeWritten
  BY MessageWritten DEF Judged
<1>2. /\ writer \in {"C", "C#"} /\ fixed_mode \in BOOLEAN /\ Meant \in Seq(EndItems(writer))
      /\ buf = BytesOf(writer, fixed_mode, big_endian, Meant)
  BY <1>1 DEF WholeWritten
<1>3. Follows(writer, fixed_mode, big_endian, Meant, r, <<>>, pos[r], out[r])
  BY DEF Understood, Follow
<1> DEFINE p == pos[r]
           os == out[r]
<1>4. ReadAll(writer, fixed_mode, big_endian, Meant, r, p, os)
  <2>1. Follows(writer, fixed_mode, big_endian, Meant, r, <<>>, p, os)
    BY <1>3
  <2> HIDE DEF p, os
  <2>2. QED
    BY <1>2, <2>1, FollowsEnd
<1>5. /\ p = Len(buf) /\ Len(os) = Len(Meant)
      /\ \A i \in 1 .. Len(Meant) : ShowsBy(writer, fixed_mode, r, os[i].v, Meant[i])
  BY <1>2, <1>4 DEF ReadAll
<1> HIDE DEF p, os
<1>6. DOMAIN Meant = 1 .. Len(Meant)
  BY <1>2, LenProperties
<1>7. \A i \in DOMAIN Meant : Shows(r, os[i].v, Meant[i])
  BY <1>2, <1>5, <1>6, SameShown
<1>8. QED
  BY <1>5, <1>7 DEF ReadWhole, p, os

\* A whole message is read, and found.
LEMMA Arrival ==
    ASSUME BufferInv, MessageInv, ReadersInv
    PROVE  RoundTrip
<1> SUFFICES ASSUME NEW r \in Readers, Finished(r), intact = "whole", IsSpan(buf), ~HasGap,
                    r = "Stream" => fixed_mode /\ Len(filled) = StructMaxSize(struct)
             PROVE  /\ rstatus[r] = "read" /\ pos[r] = Len(buf)
                    /\ Len(out[r]) = Len(Meant)
                    /\ \A i \in DOMAIN Meant : Shows(r, out[r][i].v, Meant[i])
  BY DEF RoundTrip
<1>1. wstatus = "written" /\ wire = buf
  BY DEF ReadersInv, LineInv
<1>2. fixed_mode \in BOOLEAN /\ Len(buf) \in Nat
  BY LenProperties DEF BufferInv, Chosen, Written, Bytes
<1>3. r = "Stream" => fixed_mode = TRUE
  BY <1>2
<1>4. Judged(r)
  BY <1>1, <1>3 DEF Judged
<1>5. Understood(r)
  BY <1>4 DEF ReadersInv
<1>6. rstatus[r] # "refused"
  <2>1. Len(Span(r)) = Len(buf)
    <3>1. CASE r = "Stream"
      <4>1. Len(buf) = StructMaxSize(struct)
        BY <1>1, <1>3, <3>1, StreamLength
      <4>2. QED
        BY <3>1, <4>1 DEF Span
    <3>2. CASE r # "Stream"
      BY <1>1, <3>2 DEF Span
    <3>3. QED
      BY <3>1, <3>2
  <2>2. QED
    BY <1>2, <1>5, <2>1 DEF Understood
<1>7. rstatus[r] = "read"
  BY <1>5, <1>6 DEF Understood, Finished
<1>8. ReadWhole(r)
  BY <1>4, <1>5, <1>7, ReadIsWhole
<1>9. QED
  BY <1>7, <1>8 DEF ReadWhole

\* A message that was cut off is not read: its last byte is where it did not come.
LEMMA Refusal ==
    ASSUME BufferInv, MessageInv, ReadersInv
    PROVE  CutIsRefused
<1> SUFFICES ASSUME NEW r \in {"C", "C#"}, Finished(r), intact = "cut", IsSpan(buf), ~HasGap
             PROVE  rstatus[r] = "refused"
  BY DEF CutIsRefused
<1>1. wstatus = "written" /\ Len(wire) < Len(buf) /\ r \in Readers /\ r # "Stream"
  BY DEF ReadersInv, LineInv, Readers
<1>2. Judged(r)
  BY <1>1 DEF Judged
<1>3. Understood(r)
  BY <1>1, <1>2 DEF ReadersInv
<1>4. ASSUME rstatus[r] = "read"
      PROVE  FALSE
  <2>1. ReadWhole(r)
    BY <1>1, <1>2, <1>3, <1>4, ReadIsWhole
  <2>2. pos[r] = Len(buf) /\ pos[r] <= Len(wire)
    BY <1>1, <2>1 DEF ReadWhole, BufferInv, IsRead, Span
  <2>3. Len(wire) \in Nat /\ Len(buf) \in Nat
    BY LenProperties DEF BufferInv, Written, Bytes
  <2>4. QED
    BY <1>1, <2>2, <2>3
<1>5. QED
  BY <1>3, <1>4 DEF Understood, Finished

MeaningInv == BufferInv /\ MessageInv /\ ReadersInv

\* The invariant of the writer, the line and the readers.
LEMMA MeaningHolds == Spec => []MeaningInv
<1>1. Init => MeaningInv
  BY InitBuffer, InitMessage, InitReaders DEF MeaningInv
<1>2. MeaningInv /\ [Next]_vars => MeaningInv'
  BY NextBuffer, NextMessage, NextReaders DEF MeaningInv
<1>3. QED
  BY <1>1, <1>2, PTL DEF Spec

\* What a writer in C or in C# wrote of a message, in either order of bytes and either
\* mode of strings, a reader in either language reads to the last byte and no further, and
\* finds in it, leaf by leaf, what the message means; and so does the reader of a stream in
\* fixed mode. This is for every set of structs the generators accept, every message whose
\* values are in the ranges of their types, and every room and width of a byte.
THEOREM MessagesArrive == Spec => []RoundTrip
<1>1. MeaningInv => RoundTrip
  BY Arrival DEF MeaningInv
<1>2. QED
  BY <1>1, MeaningHolds, PTL

\* Neither reader takes a message that was cut off for a shorter one.
THEOREM CutsRefused == Spec => []CutIsRefused
<1>1. MeaningInv => CutIsRefused
  BY Refusal DEF MeaningInv
<1>2. QED
  BY <1>1, MeaningHolds, PTL
=============================================================================

------------------------------ MODULE Messages ------------------------------
(***************************************************************************)
(* What a message means, how long the emitted size functions say it is,    *)
(* and the properties of the emitted readers and writers.                  *)
(*                                                                         *)
(* A message means the scalars and strings it consists of: its leaves. A   *)
(* list of work items (MessageBuffers) is taken apart all at once, again   *)
(* and again, so that the leaves are independent of the order in which the *)
(* writers and readers they judge go through it.                           *)
(***************************************************************************)
EXTENDS MessageBuffers

\* The values a field of a program may have. A character is any: it is written by
\* its low bytes. A string of C# is of units of two bytes, and is encoded.
Ranged(who, f, v) ==
    CASE f.type = "char" /\ (~IsArray(f) \/ who = "C#") -> TRUE
      [] f.type = "wchar_t" /\ ~IsArray(f) -> TRUE
      [] f.type = "wchar_t" /\ IsArray(f) /\ who = "C#" -> v \in 0 .. Values(2) - 1
      [] f.type = "bool" -> v \in {0, 1}
      [] OTHER -> v \in Least(f.wire_type) .. Greatest(f.wire_type)
InRange(who, f, v) ==
    IsStruct(f) \/ IF IsArray(f) THEN \A j \in DOMAIN v : Ranged(who, f, v[j])
                                 ELSE Ranged(who, f, v)

ASSUME RangesAssumption ==
    \A s \in DOMAIN Structs : \A i \in DOMAIN Structs[s] :
        /\ \A m \in CMessages[s] : InRange("C", Structs[s][i], m[i])
        /\ \A m \in CsMessages[s] : InRange("C#", Structs[s][i], m[i])

\* A slot of a list that has no element is a struct of zeros: what it consists of
\* is filled too.
Cleared(f) ==
    [Item(f, IF IsArray(f) \/ IsStruct(f) THEN <<>> ELSE 0) EXCEPT !.fill = TRUE]

\* What an item of a program consists of: an array of as many elements as are
\* declared, a struct of its fields. A string or a scalar is a leaf, and so is a
\* struct of C# that is null.
Parts(who, x) ==
    LET f == x.f
        name == f.wire_type
        given == Cut(x.v, f.array_len)
        absent == IF x.fill \/ IsStruct(f) THEN Cleared(Element(f)) ELSE Item(Element(f), 0)
    IN  IF IsArray(f) /\ ~field_is_string(f)
        THEN Elements(f, given) \o [i \in 1 .. f.array_len - Len(given) |-> absent]
        ELSE IF IsArray(f) \/ ~IsStruct(f) THEN <<x>>
        ELSE IF x.fill THEN [i \in DOMAIN Structs[name] |-> Cleared(Structs[name][i])]
        ELSE IF who = "C" THEN FieldsOf(name, x.v)
        ELSE IF x.v = <<>> THEN <<x>>
        ELSE FieldsOf(name, x.v[1])
Expand(who, items) == FlattenSeq([i \in DOMAIN items |-> Parts(who, items[i])])

\* No struct holds itself: so deep, everything is taken apart.
Depth == 2 * Cardinality(DOMAIN Structs) + 1
Expanded(who, items) ==
    LET level[n \in Nat] == IF n = 0 THEN items ELSE Expand(who, level[n - 1])
    IN  level
Leaves(who, items) == Expanded(who, items)[Depth]
Meant == Leaves(writer, FieldsOf(struct, message))

\* The units of a string: of a C program up to the NUL, of a C# program the
\* encoding of what fits of it.
UnitsOf(leaf) ==
    LET f == leaf.f
        v == leaf.v
    IN  IF writer = "C" THEN [i \in DOMAIN TextOf(v) |-> ToUnsigned(v[i], SizeOf(f))]
        ELSE IF is_char_array(f) THEN GetBytes(Fitting(v, f.array_len))
        ELSE Cut(v, f.array_len)

\* What reader r stored is what the leaf m means. To C, and in fixed mode to C#, a
\* string ends at a NUL in it. A char or wchar_t is the same character in both
\* languages if its bits on the wire are.
Shows(r, stored, m) ==
    LET Bits(x) == ToUnsigned(x, SizeOf(m.f))
        text == IF r = "C" \/ fixed_mode THEN TextOf(UnitsOf(m)) ELSE UnitsOf(m)
    IN  IF field_is_string(m.f)
        THEN CASE r = "C" -> [i \in DOMAIN TextOf(stored) |-> Bits(stored[i])] = text
               [] r # "C" /\ is_char_array(m.f) -> stored = GetString(text)
               [] r # "C" /\ is_wchar_array(m.f) -> stored = text
        ELSE IF m.f.type \in {"char", "wchar_t"} THEN Bits(stored[1]) = Bits(m.v)
        ELSE stored = <<m.v>>

\* C# leaves slots of a list empty whose struct has a string, in variable
\* mode: the slot is cleared at its largest size, and read at its smallest.
HasGap ==
    ~fixed_mode /\ \E leaf \in ToSet(Meant) : leaf.fill /\ field_is_string(leaf.f)

\* <struct>_size of C: the lengths of the strings are counted, nested structs
\* asked, the rest is known.
size_fn(items) ==
    LET leaves == Leaves("C", items)
        Size(f, v) == IF field_is_string(f)
                      THEN length_prefix_size(f.array_len) + Len(TextOf(v)) * SizeOf(f)
                      ELSE SizeOf(f)
    IN  Total([i \in DOMAIN leaves |-> Size(leaves[i].f, leaves[i].v)])

\* SizeOfStruct of C#: a struct that is null and a slot of a list that has no
\* element are not asked.
SizeOfStruct(items) ==
    LET leaves == Leaves("C#", items)
        Size(f, v) == IF is_char_array(f)
                      THEN length_prefix_size(f.array_len) + Min({Len(GetBytes(v)), f.array_len})
                      ELSE IF is_wchar_array(f)
                      THEN length_prefix_size(f.array_len) + Min({Len(v), f.array_len}) * 2
                      ELSE SizeOf(f)
    IN  Total([i \in DOMAIN leaves |->
                  IF leaves[i].fill \/ IsStruct(leaves[i].f) THEN 0
                  ELSE Size(leaves[i].f, leaves[i].v)])
ShortList == \E leaf \in ToSet(Meant) : leaf.fill

-----------------------------------------------------------------------------
\* A span of C# has no more bytes than an int counts.
IsSpan(b) == Len(b) < Values(4) \div 2

\* The emitted C and C#, each written for itself, speak one format: what either
\* of them writes, in either order of bytes and either mode of strings, both
\* of them read, to the last byte and no further, and find in it what was
\* written, cut to the declared lengths. A stream is read in fixed mode only.
RoundTrip ==
    \A r \in Readers :
        (/\ Finished(r) /\ intact = "whole" /\ IsSpan(buf) /\ ~HasGap
         /\ (r = "Stream" => fixed_mode /\ Len(filled) = StructMaxSize(struct)))
        => LET meant == Meant
           IN  /\ rstatus[r] = "read" /\ pos[r] = Len(buf)
               /\ Len(out[r]) = Len(meant)
               /\ \A i \in DOMAIN meant : Shows(r, out[r][i].v, meant[i])

\* A message that was cut off is refused, and not taken for a shorter one.
CutIsRefused ==
    \A r \in {"C", "C#"} :
        Finished(r) /\ intact = "cut" /\ IsSpan(buf) /\ ~HasGap => rstatus[r] = "refused"

\* In variable mode the emitted size functions say how many bytes the writer
\* will write, before it does. C# says so of full lists only: a list counts
\* the elements it has, but slots without one are written too.
SizeIsActual ==
    wstatus = "written" /\ ~fixed_mode /\ (writer = "C#" => ~ShortList) =>
        LET items == FieldsOf(struct, message)
        IN  Len(buf) = IF writer = "C" THEN size_fn(items) ELSE SizeOfStruct(items)
=============================================================================

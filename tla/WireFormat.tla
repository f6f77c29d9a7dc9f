----------------------------- MODULE WireFormat -----------------------------
(***************************************************************************)
(* What buffers_gen_c.py and buffers_gen_cs.py know of the wire: the types *)
(* a field may have, the width of enums and length prefixes, the sizes of  *)
(* structs, and the bytes of a scalar in both of the languages they emit.  *)
(*                                                                         *)
(* A field is what parse_field returns: its name, the type as written,     *)
(* the wire type, the array length or NoLen, and whether it is an enum.    *)
(* A byte has ByteBase values: 256 in the code, fewer in the instances,    *)
(* so that prefixes of several widths and every value of a scalar fit.     *)
(***************************************************************************)
EXTENDS Integers, SequencesExt

CONSTANT ByteBase

ASSUME ByteBaseAssumption == ByteBase \in Nat /\ ByteBase >= 2 /\ ByteBase % 2 = 0

Byte == 0 .. ByteBase - 1
NoLen == -1                    \* array_len = None
Error == -1                    \* error(): nothing is generated

WIRE_TYPE_SIZES ==
    [uint8_t |-> 1, uint16_t |-> 2, uint32_t |-> 4, uint64_t |-> 8,
     int8_t |-> 1, int16_t |-> 2, int32_t |-> 4, int64_t |-> 8,
     float |-> 4, double |-> 8]

SCALAR_TYPE_MAP ==
    [t \in DOMAIN WIRE_TYPE_SIZES \cup
           {"bool", "char", "short", "int", "long", "wchar_t", "size_t",
            "unsigned char", "unsigned short", "unsigned int", "unsigned long",
            "long long", "unsigned long long"} |->
        CASE t \in {"bool", "unsigned char"} -> "uint8_t"
          [] t = "char" -> "int8_t"
          [] t = "unsigned short" -> "uint16_t"
          [] t \in {"short", "wchar_t"} -> "int16_t"
          [] t \in {"size_t", "unsigned int", "unsigned long"} -> "uint32_t"
          [] t \in {"int", "long"} -> "int32_t"
          [] t = "unsigned long long" -> "uint64_t"
          [] t = "long long" -> "int64_t"
          [] OTHER -> t]

Unsigned == <<"uint8_t", "uint16_t", "uint32_t", "uint64_t">>
Signed == <<"int8_t", "int16_t", "int32_t", "int64_t">>

\* The values of a wire type of n bytes, and the two ends of its range.
Values(n) ==
    LET values[k \in Nat] == IF k = 0 THEN 1 ELSE ByteBase * values[k - 1]
    IN  values[n]
Least(t) == IF t \in ToSet(Signed) THEN -(Values(WIRE_TYPE_SIZES[t]) \div 2) ELSE 0
Greatest(t) == Least(t) + Values(WIRE_TYPE_SIZES[t]) - 1

\* The first of the types that holds both values, or else the last of them.
Narrowest(types, lo, hi) ==
    LET holds == {i \in 1 .. 3 : Least(types[i]) <= lo /\ hi <= Greatest(types[i])}
    IN  types[IF holds = {} THEN 4 ELSE Min(holds)]

\* Faulty: the signed types are looked at for their upper end only.
enum_wire_type_(min_val, max_val) ==
    IF min_val >= 0 THEN Narrowest(Unsigned, min_val, max_val)
                    ELSE Narrowest(Signed, 0, max_val)

enum_wire_type(min_val, max_val) ==
    IF min_val >= 0 THEN Narrowest(Unsigned, min_val, max_val)
                    ELSE Narrowest(Signed, min_val, max_val)

PrefixFits(array_len) == array_len <= Greatest("uint32_t")
length_prefix_type(array_len) == Narrowest(Unsigned, 0, array_len)
length_prefix_size(array_len) == WIRE_TYPE_SIZES[length_prefix_type(array_len)]

-----------------------------------------------------------------------------
(* Sizes of structs. *)

IsArray(f) == f.array_len # NoLen
is_char_array(f) == IsArray(f) /\ f.type = "char"
is_wchar_array(f) == IsArray(f) /\ f.type = "wchar_t"
field_is_string(f) == IsArray(f) /\ f.type \in {"char", "wchar_t"}

\* What parse_field and parse_header return: no type is unknown, but a struct may
\* hold itself.
WireType == DOMAIN WIRE_TYPE_SIZES
FieldRecord(names) ==
    [name : STRING, type : STRING, wire_type : WireType \cup names,
     array_len : Nat \cup {NoLen}, is_enum : BOOLEAN]
Parsed(structs) ==
    /\ IsFiniteSet(DOMAIN structs)
    /\ \A n \in DOMAIN structs : structs[n] \in Seq(FieldRecord(DOMAIN structs))

Plus(a, b) == IF Error \in {a, b} THEN Error ELSE a + b
Total(sizes) ==
    LET sum[i \in 0 .. Len(sizes)] == IF i = 0 THEN 0 ELSE Plus(sum[i - 1], sizes[i])
    IN  sum[Len(sizes)]

\* Faulty: the length prefix of a string is not counted.
wire_size_of_(f, element_size, fixed_mode) ==
    IF element_size = Error THEN Error
    ELSE (IF IsArray(f) THEN f.array_len ELSE 1) * element_size

\* The size of a field whose elements take element_size bytes.
wire_size_of(f, element_size, fixed_mode) ==
    LET prefixed == ~fixed_mode /\ field_is_string(f)
    IN  IF element_size = Error \/ (prefixed /\ ~PrefixFits(f.array_len))
        THEN Error
        ELSE (IF IsArray(f) THEN f.array_len ELSE 1) * element_size
             + (IF prefixed THEN length_prefix_size(f.array_len) ELSE 0)

\* visiting are the structs a size is asked from: to meet one again is a
\* circular reference.
struct_wire_size(name, structs, fixed_mode) ==
    LET size[visiting \in SUBSET DOMAIN structs] ==
            LET Element(t) ==
                    IF t \in DOMAIN WIRE_TYPE_SIZES THEN WIRE_TYPE_SIZES[t]
                    ELSE IF t \in visiting THEN Error
                    ELSE size[visiting \cup {t}][t]
            IN  [n \in DOMAIN structs |->
                    Total([i \in DOMAIN structs[n] |->
                        wire_size_of(structs[n][i], Element(structs[n][i].wire_type),
                                     fixed_mode)])]
    IN  size[{}][name]

compute_max_wire_size(structs, fixed_mode) ==
    LET sizes == {struct_wire_size(n, structs, fixed_mode) : n \in DOMAIN structs}
    IN  IF Error \in sizes THEN Error ELSE Max(sizes \cup {0})

-----------------------------------------------------------------------------
(* Scalars as the emitted C writes and reads them (buffers.c). *)

Order(bytes, big_endian) == IF big_endian THEN Reverse(bytes) ELSE bytes

\* (uint8_t)(value >> 8 * k), and the cast of a value to n unsigned bytes.
ByteAt(value, k) == (value \div Values(k)) % ByteBase
ToUnsigned(value, n) == value % Values(n)
ToSigned(value, n) ==
    IF value >= Values(n) \div 2 THEN value - Values(n) ELSE value

write_uint8_t(value) == <<value>>
write_uint16_t(value, big_endian) ==
    Order(<<ByteAt(value, 0), ByteAt(value, 1)>>, big_endian)
write_uint32_t(value, big_endian) ==
    Order(<<ByteAt(value, 0), ByteAt(value, 1), ByteAt(value, 2), ByteAt(value, 3)>>,
          big_endian)
write_uint64_t(value, big_endian) ==
    LET lo == write_uint32_t(ToUnsigned(value, 4), big_endian)
        hi == write_uint32_t(value \div Values(4), big_endian)
    IN  IF big_endian THEN hi \o lo ELSE lo \o hi

read_uint8_t(b) == b[1]
read_uint16_t(b, big_endian) ==
    LET le == Order(b, big_endian) IN le[2] * ByteBase + le[1]
read_uint32_t(b, big_endian) ==
    LET le == Order(b, big_endian)
    IN  le[4] * Values(3) + le[3] * Values(2) + le[2] * ByteBase + le[1]
read_uint64_t(b, big_endian) ==
    LET first == read_uint32_t(SubSeq(b, 1, 4), big_endian)
        last == read_uint32_t(SubSeq(b, 5, 8), big_endian)
    IN  IF big_endian THEN first * Values(4) + last ELSE last * Values(4) + first

write_unsigned(value, n, big_endian) ==
    CASE n = 1 -> write_uint8_t(value)
      [] n = 2 -> write_uint16_t(value, big_endian)
      [] n = 4 -> write_uint32_t(value, big_endian)
      [] n = 8 -> write_uint64_t(value, big_endian)
read_unsigned(b, big_endian) ==
    CASE Len(b) = 1 -> read_uint8_t(b)
      [] Len(b) = 2 -> read_uint16_t(b, big_endian)
      [] Len(b) = 4 -> read_uint32_t(b, big_endian)
      [] Len(b) = 8 -> read_uint64_t(b, big_endian)

\* buffers_write_<type> and buffers_read_<type>: signed types by way of the
\* unsigned ones, bool as 0 or 1, a float by its bits, the rest by alias.
buffers_write(value, c_type, big_endian) ==
    LET n == WIRE_TYPE_SIZES[SCALAR_TYPE_MAP[c_type]]
    IN  IF c_type = "bool" THEN write_uint8_t(IF value # 0 THEN 1 ELSE 0)
        ELSE write_unsigned(ToUnsigned(value, n), n, big_endian)
buffers_read(b, c_type, big_endian) ==
    LET value == read_unsigned(b, big_endian)
    IN  IF c_type = "bool" THEN IF value # 0 THEN 1 ELSE 0
        ELSE IF SCALAR_TYPE_MAP[c_type] \in ToSet(Signed)
        THEN ToSigned(value, Len(b))
        ELSE value

-----------------------------------------------------------------------------
(* Scalars as the emitted C# writes and reads them: a byte of the span, or *)
(* BinaryPrimitives of the .NET library, which takes any width.            *)

\* Faulty: the low byte first, whatever the order asked for.
bp_write_(value, wire_type, big_endian) ==
    LET n == WIRE_TYPE_SIZES[wire_type] IN [i \in 1 .. n |-> ByteAt(value, i - 1)]

bp_write(value, wire_type, big_endian) ==
    LET n == WIRE_TYPE_SIZES[wire_type]
    IN  [i \in 1 .. n |-> ByteAt(value, IF big_endian THEN n - i ELSE i - 1)]
bp_read(b, wire_type, big_endian) ==
    LET n == Len(b)
        value[i \in 0 .. n] ==
            IF i = 0 THEN 0
            ELSE value[i - 1] + b[i] * Values(IF big_endian THEN n - i ELSE i - 1)
    IN  IF wire_type \in ToSet(Signed) THEN ToSigned(value[n], n) ELSE value[n]

\* The casts of CS_NATIVE_TYPE_MAP. A C# char has two bytes and no sign: a
\* char of C is written as an sbyte and read with its sign extended.
CsWrite(value, f, big_endian) ==
    CASE f.type = "bool" -> bp_write(IF value # 0 THEN 1 ELSE 0, f.wire_type, big_endian)
      [] OTHER -> bp_write(ToUnsigned(value, WIRE_TYPE_SIZES[f.wire_type]),
                           f.wire_type, big_endian)
CsRead(b, f, big_endian) ==
    LET value == bp_read(b, f.wire_type, big_endian)
    IN  CASE f.type = "bool" -> IF value # 0 THEN 1 ELSE 0
          [] f.type \in {"char", "wchar_t"} -> ToUnsigned(value, 2)
          [] OTHER -> value
=============================================================================

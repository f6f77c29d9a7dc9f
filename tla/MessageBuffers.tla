--------------------------- MODULE MessageBuffers ---------------------------
(***************************************************************************)
(* The readers and writers that buffers_gen_c.py and buffers_gen_cs.py     *)
(* emit for the structs of a header, as they run: one of them writes a     *)
(* message into a buffer, the bytes go to the other end, whole or not, and *)
(* each of the readers reads them.                                         *)
(*                                                                         *)
(* The emitted code is a list of statements, one for each field, in which  *)
(* a nested struct is a call and an array a loop. `todo` is what is left   *)
(* to write, `fields` what is left to read: a nested struct or an array at *)
(* its head is replaced by what it consists of, a scalar or a string is    *)
(* written or read. One action is one emitted statement.                   *)
(*                                                                         *)
(* In C a struct is a sequence of field values and an array has its        *)
(* declared length; in C# a struct is a reference, <<>> if null and else   *)
(* <<values>>, and an array or a list may be shorter or longer. Characters *)
(* are their code units.                                                   *)
(***************************************************************************)
EXTENDS WireFormat

CONSTANTS
    Structs,      \* struct name -> sequence of fields
    CMessages,    \* struct name -> messages a C program may write
    CsMessages,   \* struct name -> messages a C# program may write
    Rooms         \* the sizes of the buffers written to

VARIABLES
    fixed_mode, big_endian,    \* the options both generators were given
    struct,                    \* the struct of the message
    writer, message, room,     \* who writes it, and the size of its buffer
    todo, buf, wstatus,        \* the writer
    wire, intact,              \* what reaches the readers, and whether it is all
    fields, pos, out, rstatus, \* the readers
    filled                     \* the buffer of the reader of a stream

choice == <<fixed_mode, big_endian, struct, writer, message, room>>
writing == <<todo, buf, wstatus>>
line == <<wire, intact>>
reading == <<fields, pos, out, rstatus, filled>>
vars == <<choice, writing, line, reading>>

Readers == {"C", "C#", "Stream"}
IsStruct(f) == f.wire_type \in DOMAIN Structs
StructMaxSize(name) == struct_wire_size(name, Structs, fixed_mode)
SizeOf(f) == WIRE_TYPE_SIZES[f.wire_type]

\* The structs are of a header for which the generators find sizes, and whose types are
\* written as the emitted code writes them; an enum has the wire type of its values.
Typed(f) ==
    /\ f.type \in DOMAIN SCALAR_TYPE_MAP => f.wire_type = SCALAR_TYPE_MAP[f.type]
    /\ f.type \in DOMAIN SCALAR_TYPE_MAP \/ f.is_enum \/ IsStruct(f)
    /\ f.is_enum => f.wire_type \in WireType

ASSUME StructsAssumption ==
    /\ Parsed(Structs) /\ DOMAIN Structs \cap WireType = {}
    /\ \A s \in DOMAIN Structs :
        /\ \A i \in DOMAIN Structs[s] : Typed(Structs[s][i])
        /\ \A fixed \in BOOLEAN : struct_wire_size(s, Structs, fixed) # Error

\* A message has a value for each field: of C whole arrays, of C# sequences of any
\* length. The structs in a message are themselves messages.
CValues(f) ==
    LET one == IF IsStruct(f) THEN CMessages[f.wire_type] ELSE Int
    IN  IF IsArray(f) THEN {v \in Seq(one) : Len(v) = f.array_len} ELSE one
CsValues(f) ==
    LET one == IF IsStruct(f) THEN {<<>>} \cup {<<m>> : m \in CsMessages[f.wire_type]}
               ELSE IF field_is_string(f) THEN Nat ELSE Int
    IN  IF IsArray(f) THEN Seq(one) ELSE one

ASSUME MessagesAssumption ==
    \A s \in DOMAIN Structs : \A i \in DOMAIN Structs[s] :
        /\ \A m \in CMessages[s] : m[i] \in CValues(Structs[s][i])
        /\ \A m \in CsMessages[s] : m[i] \in CsValues(Structs[s][i])

ASSUME RoomsAssumption == Rooms \subseteq Nat

\* Work items of the writer. A fill item is a slot of a list that has no
\* element.
Item(f, v) == [f |-> f, v |-> v, fill |-> FALSE]
FieldsOf(name, values) ==
    [i \in DOMAIN Structs[name] |-> Item(Structs[name][i], values[i])]
Element(f) == [f EXCEPT !.array_len = NoLen]
Elements(f, values) == [i \in DOMAIN values |-> Item(Element(f), values[i])]
Cut(s, n) == SubSeq(s, 1, Min({n, Len(s)}))
PaddedWith(x, s, n) == Cut(s, n) \o [i \in 1 .. n - Len(Cut(s, n)) |-> x]
Scalar(wt) == [name |-> wt, type |-> wt, wire_type |-> wt,
               array_len |-> NoLen, is_enum |-> FALSE]
Prefix(f) == Scalar(length_prefix_type(f.array_len))

\* The text of an array of characters: what is before the first NUL.
TextOf(a) == LET nul == {i \in DOMAIN a : a[i] = 0}
             IN  IF nul = {} THEN a ELSE SubSeq(a, 1, Min(nul) - 1)

\* Encoding.UTF8: a character below ByteBase / 2 is one byte, the one wide
\* character of the model two, and what is not UTF-8 reads as Replacement.
Wide == ByteBase \div 2
Lead == ByteBase - 1
Replacement == Values(2) - 1
GetBytes(chars) == FlattenSeq([i \in DOMAIN chars |->
                       IF chars[i] < Wide THEN <<chars[i]>> ELSE <<Lead, Wide>>])
GetString(b) ==
    LET After(i) == IF i < Len(b) THEN b[i + 1] ELSE 0
        Before(i) == IF i > 1 THEN b[i - 1] ELSE 0
        chars[i \in 0 .. Len(b)] ==
            IF i = 0 THEN <<>>
            ELSE IF b[i] < Wide THEN Append(chars[i - 1], b[i])
            ELSE IF b[i] = Lead /\ After(i) = Wide THEN Append(chars[i - 1], Wide)
            ELSE IF b[i] = Wide /\ Before(i) = Lead THEN chars[i - 1]
            ELSE Append(chars[i - 1], Replacement)
    IN  chars[Len(b)]

\* As many characters as fit in n bytes: EncodeUtf8 splits no character.
Fitting(chars, n) ==
    LET fits == {k \in 0 .. Len(chars) : Len(GetBytes(SubSeq(chars, 1, k))) <= n}
    IN  SubSeq(chars, 1, Max(fits))

Init ==
    /\ fixed_mode \in BOOLEAN /\ big_endian \in BOOLEAN
    /\ struct \in DOMAIN Structs
    /\ writer \in {"C", "C#"}
    /\ message \in IF writer = "C" THEN CMessages[struct] ELSE CsMessages[struct]
    /\ room \in Rooms
    /\ todo = FieldsOf(struct, message)
    /\ buf = <<>> /\ wstatus = "writing"
    /\ wire = <<>> /\ intact = "unsent"
    /\ fields = [r \in Readers |-> Structs[struct]]
    /\ pos = [r \in Readers |-> 0]
    /\ out = [r \in Readers |-> <<>>]
    /\ rstatus = [r \in Readers |-> "waiting"]
    /\ filled = <<>>

-----------------------------------------------------------------------------
(* Writing. *)

Writes(who) == wstatus = "writing" /\ writer = who /\ todo # <<>>
Work == Head(todo)
Replace(items) == todo' = items \o Tail(todo)
Unchanging == UNCHANGED <<choice, line, reading>>

\* Bytes written at once, or a writer that gives up with the status it
\* reports.
Emitted(bytes) ==
    buf' = buf \o bytes /\ todo' = Tail(todo) /\ UNCHANGED wstatus
GivesUp(status) ==
    wstatus' = status /\ todo' = <<>>
Expands(items) ==
    Replace(items) /\ UNCHANGED <<buf, wstatus>>

CType(f) == IF f.is_enum THEN f.wire_type ELSE f.type

\* The loop over all elements of an array, with no length before them.
CWriteArray ==
    LET f == Work.f IN
    /\ Writes("C") /\ IsArray(f)
    /\ (fixed_mode \/ ~field_is_string(f))
    /\ Expands(Elements(f, Work.v))
    /\ Unchanging

\* A string in variable mode: its length, counted up to the NUL or the end of
\* the array, and as many elements.
CWriteString ==
    LET f == Work.f
        text == TextOf(Work.v)
    IN
    /\ Writes("C") /\ field_is_string(f) /\ ~fixed_mode
    /\ Expands(<<Item(Prefix(f), Len(text))>> \o Elements(f, text))
    /\ Unchanging

\* The call of a nested struct's write function.
CWriteStruct ==
    /\ Writes("C") /\ ~IsArray(Work.f) /\ IsStruct(Work.f)
    /\ Expands(FieldsOf(Work.f.wire_type, Work.v))
    /\ Unchanging

\* One callback for each byte; the buffer's callback fails when it is full, and
\* the bytes before are written.
CWriteScalar ==
    LET f == Work.f
        bytes == buffers_write(Work.v, CType(f), big_endian)
    IN
    /\ Writes("C") /\ ~IsArray(f) /\ ~IsStruct(f)
    /\ \/ /\ Len(buf) + Len(bytes) <= room
          /\ Emitted(bytes)
       \/ /\ Len(buf) + Len(bytes) > room
          /\ buf' = buf \o SubSeq(bytes, 1, room - Len(buf))
          /\ GivesUp("failed")
    /\ Unchanging

\* C# looks at the room before it writes, and reports no bytes if it is short.
CsEmit(bytes) ==
    \/ /\ Len(buf) + Len(bytes) <= room
       /\ Emitted(bytes)
    \/ /\ Len(buf) + Len(bytes) > room
       /\ GivesUp("failed") /\ UNCHANGED buf

\* A string: encoded and filled up with zeros in fixed mode, and else a length
\* and the encoding. Encoder.Convert throws if not one character fits. Of
\* char[N] the bytes are counted, and cut to N before the room is looked at;
\* Encoding.GetBytes then throws, for less room than the whole string takes.
CsWriteString ==
    LET f == Work.f
        n == f.array_len
        units == FlattenSeq([i \in 1 .. Len(Cut(Work.v, n)) |->
                     bp_write(Work.v[i], "int16_t", big_endian)])
        encoded == IF is_char_array(f) THEN GetBytes(Fitting(Work.v, n)) ELSE units
        bytes == IF is_char_array(f) THEN GetBytes(Work.v) ELSE units
        count == IF is_char_array(f) THEN Min({Len(bytes), n}) ELSE Len(units) \div 2
        prefix == bp_write(count, Prefix(f).wire_type, big_endian)
        tooLong == is_char_array(f) /\ Len(bytes) > n
    IN
    /\ Writes("C#") /\ field_is_string(f)
    /\ \/ /\ fixed_mode /\ (Work.v = <<>> \/ encoded # <<>>)
          /\ CsEmit(PaddedWith(0, encoded, n * SizeOf(f)))
       \/ /\ fixed_mode /\ Work.v # <<>> /\ encoded = <<>>
          /\ GivesUp(IF Len(buf) + n * SizeOf(f) <= room THEN "thrown" ELSE "failed")
          /\ UNCHANGED buf
       \/ /\ ~fixed_mode /\ ~tooLong
          /\ CsEmit(prefix \o bytes)
       \/ /\ ~fixed_mode /\ tooLong
          /\ Len(buf) + Len(prefix) + n <= room
          /\ buf' = buf \o prefix /\ GivesUp("thrown")
       \/ /\ ~fixed_mode /\ tooLong
          /\ Len(buf) + Len(prefix) + n > room
          /\ GivesUp("failed") /\ UNCHANGED buf
    /\ Unchanging

\* A list of structs: its elements, at most as many as declared, and a fill
\* for each of the slots left.
CsWriteList ==
    LET f == Work.f
        count == Min({Len(Work.v), f.array_len})
    IN
    /\ Writes("C#") /\ IsArray(f) /\ IsStruct(f)
    /\ Expands(Elements(f, Cut(Work.v, count)) \o
               [i \in 1 .. f.array_len - count |-> [Item(Element(f), <<>>) EXCEPT !.fill = TRUE]])
    /\ Unchanging

\* A slot is cleared at the largest size of its struct; Slice throws if the
\* span is shorter.
CsFill ==
    LET n == StructMaxSize(Work.f.wire_type) IN
    /\ Writes("C#") /\ Work.fill
    /\ \/ /\ Len(buf) + n <= room
          /\ Emitted([i \in 1 .. n |-> 0])
       \/ /\ Len(buf) + n > room
          /\ GivesUp("thrown") /\ UNCHANGED buf
    /\ Unchanging

\* Faulty: the slots left of a short array are not written.
CsWriteArray_ ==
    LET f == Work.f IN
    /\ Writes("C#") /\ IsArray(f) /\ ~IsStruct(f) /\ ~field_is_string(f)
    /\ Expands(Elements(f, Cut(Work.v, f.array_len)))
    /\ Unchanging

\* An array of scalars: cut or filled up with zeros to its declared length.
CsWriteArray ==
    LET f == Work.f IN
    /\ Writes("C#") /\ IsArray(f) /\ ~IsStruct(f) /\ ~field_is_string(f)
    /\ Expands(Elements(f, PaddedWith(0, Work.v, f.array_len)))
    /\ Unchanging

\* A nested struct, which must not be null. A null element of a list is
\* not looked for: the call throws.
CsWriteStruct ==
    LET f == Work.f IN
    /\ Writes("C#") /\ ~IsArray(f) /\ IsStruct(f) /\ ~Work.fill
    /\ \/ /\ Work.v # <<>>
          /\ Expands(FieldsOf(f.wire_type, Work.v[1]))
       \/ /\ Work.v = <<>>
          /\ GivesUp("null") /\ UNCHANGED buf
    /\ Unchanging

CsWriteScalar ==
    LET f == Work.f IN
    /\ Writes("C#") /\ ~IsArray(f) /\ ~IsStruct(f)
    /\ CsEmit(CsWrite(Work.v, f, big_endian))
    /\ Unchanging

WriteEnds ==
    /\ wstatus = "writing" /\ todo = <<>>
    /\ wstatus' = "written"
    /\ UNCHANGED <<choice, todo, buf, line, reading>>

Write ==
    \/ CWriteArray \/ CWriteString \/ CWriteStruct \/ CWriteScalar
    \/ CsWriteString \/ CsWriteList \/ CsFill \/ CsWriteArray
    \/ CsWriteStruct \/ CsWriteScalar \/ WriteEnds

-----------------------------------------------------------------------------
(* The bytes reach the readers whole, cut off (another size was agreed on, *)
(* or a frame of another message came under this command), or with a byte  *)
(* that this writer would not write (a writer made from another header).   *)

Sent(b, how) ==
    /\ wstatus = "written" /\ intact = "unsent"
    /\ wire' = b /\ intact' = how
    /\ rstatus' = [r \in Readers |-> "reading"]
    /\ UNCHANGED <<choice, writing, fields, pos, out, filled>>
Deliver == Sent(buf, "whole")
DeliverCut == \E n \in 0 .. Len(buf) - 1 : Sent(SubSeq(buf, 1, n), "cut")
DeliverChanged ==
    \E i \in DOMAIN buf, b \in Byte : b # buf[i] /\ Sent([buf EXCEPT ![i] = b], "changed")

-----------------------------------------------------------------------------
(* Reading. The readers do not know of each other; they read in turn. *)

Turn(r) ==
    /\ rstatus[r] = "reading"
    /\ (r # "C" => rstatus["C"] # "reading")
    /\ (r = "Stream" => rstatus["C#"] # "reading")
Reads(r) == Turn(r) /\ fields[r] # <<>>
Field(r) == Head(fields[r])
Span(r) == IF r = "Stream" THEN filled ELSE wire
Left(r) == Len(Span(r)) - pos[r]
Ahead(r, from, n) == SubSeq(Span(r), pos[r] + from + 1, pos[r] + from + n)
StillReading == UNCHANGED <<choice, writing, line, filled>>

Opens(r, fs) ==
    /\ fields' = [fields EXCEPT ![r] = fs \o Tail(@)]
    /\ UNCHANGED <<pos, out, rstatus>>
Stored(r, leaf, n) ==
    /\ out' = [out EXCEPT ![r] = Append(@, [f |-> Field(r), v |-> leaf])]
    /\ pos' = [pos EXCEPT ![r] = @ + n]
    /\ fields' = [fields EXCEPT ![r] = Tail(@)]
    /\ UNCHANGED rstatus
Stops(r, status) ==
    /\ rstatus' = [rstatus EXCEPT ![r] = status]
    /\ fields' = [fields EXCEPT ![r] = <<>>]
    /\ UNCHANGED <<pos, out>>

\* The call of a nested read function, and the loop over an array.
Nested(r) ==
    /\ Reads(r) /\ ~IsArray(Field(r)) /\ IsStruct(Field(r))
    /\ Opens(r, Structs[Field(r).wire_type])
    /\ StillReading
Loop(r) ==
    /\ Reads(r) /\ IsArray(Field(r)) /\ ~field_is_string(Field(r))
    /\ Opens(r, [i \in 1 .. Field(r).array_len |-> Element(Field(r))])
    /\ StillReading
CReadStruct == Nested("C")
CReadArray == Loop("C")
CsReadStruct(r) == r # "C" /\ Nested(r)
CsReadArray(r) == r # "C" /\ Loop(r)

\* Faulty: what the callback returns is not looked at, and the end of the bytes
\* reads as zero.
CReadScalar_ ==
    LET f == Field("C") IN
    /\ Reads("C") /\ ~IsArray(f) /\ ~IsStruct(f)
    /\ \/ /\ Left("C") >= SizeOf(f)
          /\ Stored("C", <<buffers_read(Ahead("C", 0, SizeOf(f)), CType(f), big_endian)>>,
                    SizeOf(f))
       \/ /\ Left("C") < SizeOf(f)
          /\ Stored("C", <<0>>, Left("C"))
    /\ StillReading

\* One callback for each byte, and the end of the bytes is an error.
CReadScalar ==
    LET f == Field("C") IN
    /\ Reads("C") /\ ~IsArray(f) /\ ~IsStruct(f)
    /\ \/ /\ Left("C") >= SizeOf(f)
          /\ Stored("C", <<buffers_read(Ahead("C", 0, SizeOf(f)), CType(f), big_endian)>>,
                    SizeOf(f))
       \/ /\ Left("C") < SizeOf(f)
          /\ Stops("C", "refused")
    /\ StillReading

PrefixSize(f) == IF fixed_mode THEN 0 ELSE length_prefix_size(f.array_len)

\* Faulty: a length is not compared with the length of the array.
TooLong_(n, f) == FALSE
TooLong(n, f) == n > f.array_len

\* A string: all of the array in fixed mode, and else a length, which must not
\* exceed the array, as many elements, and a NUL if there is room for one.
\* What is stored is the part of the array that is written.
CReadString ==
    LET f == Field("C")
        lp == PrefixSize(f)
        n == IF fixed_mode THEN f.array_len
             ELSE read_unsigned(Ahead("C", 0, lp), big_endian)
        array == [i \in 1 .. n |->
                    buffers_read(Ahead("C", lp + (i - 1) * SizeOf(f), SizeOf(f)),
                                 f.type, big_endian)]
    IN
    /\ Reads("C") /\ field_is_string(f)
    /\ \/ /\ Left("C") < lp
          /\ Stops("C", "refused")
       \/ /\ Left("C") >= lp
          /\ (TooLong(n, f) \/ Left("C") < lp + n * SizeOf(f))
          /\ Stops("C", "refused")
       \/ /\ Left("C") >= lp
          /\ ~TooLong(n, f) /\ Left("C") >= lp + n * SizeOf(f)
          /\ Stored("C", IF n < f.array_len THEN array \o <<0>> ELSE array,
                    lp + n * SizeOf(f))
    /\ StillReading

CsReadScalar(r) ==
    LET f == Field(r) IN
    /\ r # "C" /\ Reads(r) /\ ~IsArray(f) /\ ~IsStruct(f)
    /\ \/ /\ Left(r) >= SizeOf(f)
          /\ Stored(r, <<CsRead(Ahead(r, 0, SizeOf(f)), f, big_endian)>>, SizeOf(f))
       \/ /\ Left(r) < SizeOf(f)
          /\ Stops(r, "refused")
    /\ StillReading

\* Faulty: a length is kept in two bytes.
AsInt_(n) == ToSigned(ToUnsigned(n, 2), 2)

\* (int) of an unsigned number of 32 bits, and of a product of ints.
AsInt(n) == ToSigned(ToUnsigned(n, 4), 4)

Units(b) == [i \in 1 .. Len(b) \div 2 |->
                ToUnsigned(bp_read(SubSeq(b, 2 * i - 1, 2 * i), "uint16_t", big_endian), 2)]
Decode(b, f) ==
    IF fixed_mode
    THEN IF is_char_array(f) THEN GetString(TextOf(b)) ELSE TextOf(Units(b))
    ELSE IF is_char_array(f) THEN GetString(b) ELSE Units(b)

\* A string of C#. The length is an int: one of 2^31 or more turns
\* negative, passes both comparisons, and makes Slice throw.
CsReadString(r) ==
    LET f == Field(r)
        lp == PrefixSize(f)
        n == IF fixed_mode THEN f.array_len
             ELSE AsInt(bp_read(Ahead(r, 0, lp), Prefix(f).wire_type, big_endian))
        byteLen == AsInt(n * SizeOf(f))
    IN
    /\ r # "C" /\ Reads(r) /\ field_is_string(f)
    /\ \/ /\ Left(r) < lp
          /\ Stops(r, "refused")
       \/ /\ Left(r) >= lp
          /\ (TooLong(n, f) \/ Left(r) < lp + byteLen)
          /\ Stops(r, "refused")
       \/ /\ Left(r) >= lp
          /\ ~TooLong(n, f) /\ Left(r) >= lp + byteLen
          /\ byteLen < 0
          /\ Stops(r, "thrown")
       \/ /\ Left(r) >= lp
          /\ ~TooLong(n, f) /\ Left(r) >= lp + byteLen
          /\ byteLen >= 0
          /\ Stored(r, Decode(Ahead(r, lp, byteLen), f), lp + byteLen)
    /\ StillReading

\* TryRead of a stream takes StructMaxSize bytes first, whatever the size of
\* the message, from a stream that holds another one after it; fewer are
\* refused. A stream may return fewer than it holds.
StreamRead ==
    /\ Turn("Stream") /\ pos["Stream"] = 0 /\ filled = <<>>
    /\ StructMaxSize(struct) > 0
    /\ \E n \in 0 .. Min({StructMaxSize(struct), 2 * Len(wire)}) :
        /\ filled' = SubSeq(wire \o wire, 1, n)
        /\ \/ /\ n < StructMaxSize(struct)
              /\ Stops("Stream", "refused")
           \/ /\ n = StructMaxSize(struct)
              /\ UNCHANGED <<fields, pos, out, rstatus>>
    /\ UNCHANGED <<choice, writing, line>>

ReadEnds(r) ==
    /\ Turn(r) /\ fields[r] = <<>>
    /\ rstatus' = [rstatus EXCEPT ![r] = "read"]
    /\ UNCHANGED <<fields, pos, out>> /\ StillReading

Read ==
    \/ CReadStruct \/ CReadArray \/ CReadScalar \/ CReadString
    \/ \E r \in {"C#", "Stream"} :
        /\ r = "Stream" => (filled # <<>> \/ StructMaxSize(struct) = 0)
        /\ CsReadStruct(r) \/ CsReadArray(r) \/ CsReadScalar(r) \/ CsReadString(r)
    \/ StreamRead
    \/ \E r \in Readers : ReadEnds(r)

Next == Write \/ Deliver \/ DeliverCut \/ DeliverChanged \/ Read

Spec == Init /\ [][Next]_vars

-----------------------------------------------------------------------------
\* What a struct consists of: itself, and the structs that those hold.
HeldBy ==
    [n \in DOMAIN Structs |->
        LET Holds(S) == n \in S /\ \A s \in S : \A i \in DOMAIN Structs[s] :
                            IsStruct(Structs[s][i]) => Structs[s][i].wire_type \in S
        IN  {s \in DOMAIN Structs : \A S \in SUBSET DOMAIN Structs : Holds(S) => s \in S}]

\* A string whose length may be 2^31 or more.
HugeString(f) == field_is_string(f) /\ f.array_len >= Values(2)
HasHugeString(name) == \E s \in HeldBy[name] : \E i \in DOMAIN Structs[s] : HugeString(Structs[s][i])

Finished(r) == rstatus[r] \in {"read", "refused", "thrown"}

\* Whatever bytes come, a C and a C# program decide alike whether they are a
\* message and where it ends, unless a length may be 2^31 or more.
ReadersAgree ==
    (Finished("C") /\ Finished("C#") /\ ~HasHugeString(struct)) =>
        \/ rstatus["C"] = "read" /\ rstatus["C#"] = "read" /\ pos["C"] = pos["C#"]
        \/ rstatus["C"] = "refused" /\ rstatus["C#"] = "refused"

\* A wchar_t array whose length, times two, may be no int of C#.
HugeWide(f) == is_wchar_array(f) /\ HugeString(f)

\* No writer writes past its room, no reader reads past the bytes it was given,
\* and what is read of a string, with its NUL, stays in the array it is for. (A C#
\* string has no array: if the product of its length and two wraps around, it may be
\* longer than declared.)
InBounds ==
    /\ Len(buf) <= room
    /\ \A r \in Readers :
        /\ pos[r] <= Len(Span(r))
        /\ \A i \in DOMAIN out[r] :
            LET leaf == out[r][i]
            IN  \/ r # "C" /\ HugeWide(leaf.f)
                \/ Len(leaf.v) <= IF IsArray(leaf.f) THEN leaf.f.array_len ELSE 1

\* The size the generators define for a struct is enough to write any message
\* of it: with that much room no writer, of either language, gives up a field for
\* want of room (`failed`). What else stops TryWrite - a null, a text of more bytes
\* than its array - does not depend on the room and is not spoken of here.
MaxSizeIsEnough ==
    room >= StructMaxSize(struct) => wstatus # "failed"
=============================================================================

------------------------------ MODULE Generator ------------------------------
(***************************************************************************)
(* A run of buffers_gen_c.py ("C") or buffers_gen_cs.py ("C#"): the header *)
(* is read and parsed, entry by entry and field by field, and the outputs  *)
(* are written one after the other. A person runs either of them; a build  *)
(* of the firmware runs the first (buffers_extra.py), whatever comes of    *)
(* it, and compiles what it finds in the two directories it names. A run   *)
(* by hand may write to those, to one of them or to neither.               *)
(*                                                                         *)
(* A header is what the regular expressions find in it:                    *)
(*   enums:   sequence of [name, entries], an entry being a literal (its   *)
(*            form and value) or none;                                     *)
(*   structs: sequence of [name, fields], a field being its name, its type *)
(*            as written, the same in lower case (key), its array length   *)
(*            and its form.                                                *)
(***************************************************************************)
EXTENDS WireFormat, FiniteSets

CONSTANTS
    Headers,      \* the headers that are written
    MaxRuns       \* the generators run that many times

None == "(none)"  \* no identifier
BadLen == -2      \* an array length that is not a number

Literal == [form : STRING, value : Int]
FieldText == [name : STRING, type : STRING, key : STRING, form : STRING,
              len : Nat \cup {NoLen, BadLen}]
Header == [enums : Seq([name : STRING, entries : Seq(Literal)]),
           structs : Seq([name : STRING, fields : Seq(FieldText)])]

\* A scalar type has no capitals: in lower case it is as it is written.
ASSUME HeaderAssumption ==
    /\ Headers \subseteq Header
    /\ \A h \in Headers : \A s \in ToSet(h.structs) :
        /\ s.name # None
        /\ \A f \in ToSet(s.fields) : f.type \in DOMAIN SCALAR_TYPE_MAP => f.key = f.type

VARIABLES
    header,                              \* the header file
    runs, tool, by, fixed_mode, gen_buffers,
    here,                                \* the options that name a directory of the
                                         \* build: "out_h", "out"
    phase,                               \* what the run is at
    text,                                \* the header it has read
    item, at,                            \* the enum or struct it parses, and the
                                         \* next entry or field, 0 before any
    current, values, known_enums,
    fields, structs,
    outs, files,                         \* the outputs to come, and all files
    torn,                                \* history: since a run wrote both files of
                                         \* the build, one ended between the two, or
                                         \* wrote one of the two only
    built                                \* what a build compiled, until the next run

run == <<tool, by, here, fixed_mode, gen_buffers, text>>
enum_vars == <<current, values, known_enums>>
struct_vars == <<fields, structs>>
parser == <<item, at, enum_vars, struct_vars>>
vars == <<header, runs, run, phase, parser, outs, files, torn, built>>

Files == {"h", "c", "buffers.h", "buffers.c", "cs", "Buffers.cs", "elsewhere"}
NoFile == <<>>                           \* not there, empty or partial
NotBuilt == <<>>
Running == {"enums", "structs", "open", "write"}
EmptyDict == [x \in {} |-> {}]
With(dict, key, value) == [x \in DOMAIN dict \cup {key} |-> IF x = key THEN value ELSE dict[x]]

\* Where an output goes: "elsewhere" is any file of another directory.
PathOf(option, file) == IF option \in here THEN file ELSE "elsewhere"
Outputs ==
    IF tool = "C"
    THEN <<PathOf("out_h", "h"), PathOf("out", "c")>> \o
         (IF gen_buffers THEN <<PathOf("out_h", "buffers.h"), PathOf("out", "buffers.c")>>
                         ELSE <<>>)
    ELSE <<PathOf("out", "cs")>> \o (IF gen_buffers THEN <<PathOf("out", "Buffers.cs")>> ELSE <<>>)

\* The run is to write both files of the build; of these it has written the .h and
\* not opened the .c.
Whole == tool = "C" /\ here = {"out_h", "out"}
BetweenTheTwo == Whole /\ phase = "open" /\ outs # <<>> /\ Head(outs) = "c"

Init ==
    /\ header \in Headers
    /\ runs = 0 /\ tool = "C" /\ by = "hand"
    /\ here = {} /\ fixed_mode = FALSE /\ gen_buffers = FALSE
    /\ phase = "idle" /\ text = header
    /\ item = 1 /\ at = 0
    /\ current = 0 /\ values = {} /\ known_enums = EmptyDict
    /\ fields = <<>> /\ structs = EmptyDict
    /\ outs = <<>> /\ files = [f \in Files |-> NoFile]
    /\ torn = FALSE /\ built = NotBuilt

\* main: the options, and the header as it is now, if it can be read.
Start(t, who, dirs, fixed, buffers) ==
    /\ phase = "idle" /\ runs < MaxRuns
    /\ runs' = runs + 1
    /\ tool' = t /\ by' = who /\ here' = dirs /\ fixed_mode' = fixed /\ gen_buffers' = buffers
    /\ text' = header /\ phase' \in {"enums", "io error"}
    /\ item' = 1 /\ at' = 0
    /\ current' = 0 /\ values' = {} /\ known_enums' = EmptyDict
    /\ fields' = <<>> /\ structs' = EmptyDict /\ outs' = <<>>
    /\ built' = NotBuilt
    /\ UNCHANGED <<header, files, torn>>
RunByHand ==
    \E fixed \in BOOLEAN, buffers \in BOOLEAN :
        \/ \E dirs \in SUBSET {"out_h", "out"} : Start("C", "hand", dirs, fixed, buffers)
        \/ \E dirs \in SUBSET {"out"} : Start("C#", "hand", dirs, fixed, buffers)
RunByBuild == Start("C", "build", {"out_h", "out"}, FALSE, TRUE)

\* error(), or an exception nobody catches: exit code 1, files left as they are. An
\* "io error", of a file that cannot be read or written, has the same exit code.
Fails == phase' = "error" /\ UNCHANGED <<parser, outs, files>>
Parsing == UNCHANGED <<header, runs, run, outs, files, torn, built>>

-----------------------------------------------------------------------------
(* parse_enums. *)

OpenEnum ==
    /\ phase = "enums" /\ item <= Len(text.enums) /\ at = 0
    /\ \/ /\ text.enums[item].name \in DOMAIN known_enums
          /\ Fails
       \/ /\ text.enums[item].name \notin DOMAIN known_enums
          /\ at' = 1 /\ current' = 0 /\ values' = {}
          /\ UNCHANGED <<phase, item, known_enums, struct_vars>>
    /\ Parsing

\* The literals that pass the regular expression and int(rhs, 0): a leading
\* zero and a blank after the minus pass the first and not the second.
IsLiteral(e) == e.form \in {"decimal", "hex"}

EnumEntry ==
    LET e == text.enums[item].entries[at]
        v == IF e.form = None THEN current ELSE e.value
    IN
    /\ phase = "enums" /\ at > 0 /\ at <= Len(text.enums[item].entries)
    /\ \/ /\ e.form # None /\ ~IsLiteral(e)
          /\ Fails
       \/ /\ e.form = None \/ IsLiteral(e)
          /\ values' = values \cup {v} /\ current' = v + 1
          /\ at' = at + 1
          /\ UNCHANGED <<phase, item, known_enums, struct_vars>>
    /\ Parsing

\* An enum without entries is not known.
CloseEnum ==
    /\ phase = "enums" /\ at > 0 /\ at = Len(text.enums[item].entries) + 1
    /\ known_enums' =
          IF values = {} THEN known_enums
          ELSE With(known_enums, text.enums[item].name,
                    enum_wire_type(Min(values), Max(values)))
    /\ item' = item + 1 /\ at' = 0
    /\ UNCHANGED <<phase, current, values, struct_vars>>
    /\ Parsing

EnumsParsed ==
    /\ phase = "enums" /\ item = Len(text.enums) + 1
    /\ phase' = "structs" /\ item' = 1
    /\ UNCHANGED <<at, enum_vars, struct_vars>>
    /\ Parsing

-----------------------------------------------------------------------------
(* parse_header: the structs. *)

all_struct_names == {text.structs[i].name : i \in DOMAIN text.structs}

OpenStruct ==
    /\ phase = "structs" /\ item <= Len(text.structs) /\ at = 0
    /\ \/ /\ text.structs[item].name \in DOMAIN structs
          /\ Fails
       \/ /\ text.structs[item].name \notin DOMAIN structs
          /\ at' = 1 /\ fields' = <<>>
          /\ UNCHANGED <<phase, item, enum_vars, structs>>
    /\ Parsing

\* The wire type of a field: a scalar, in whatever case it is written, before an
\* enum, before a struct, be it defined before or after.
resolve_type(f) ==
    IF f.key \in DOMAIN SCALAR_TYPE_MAP THEN SCALAR_TYPE_MAP[f.key]
    ELSE IF f.type \in DOMAIN known_enums THEN known_enums[f.type]
    ELSE IF f.type \in all_struct_names THEN f.type
    ELSE None

\* A pointer, a nested struct, a text that is no field.
BadField(f) == f.form # "plain" \/ f.len = BadLen

StructField ==
    LET f == text.structs[item].fields[at]
        wire_type == resolve_type(f)
    IN
    /\ phase = "structs" /\ at > 0 /\ at <= Len(text.structs[item].fields)
    /\ \/ /\ (BadField(f) \/ wire_type = None)
          /\ Fails
       \/ /\ ~BadField(f) /\ wire_type # None
          /\ fields' = Append(fields,
                [name |-> f.name, type |-> f.type, wire_type |-> wire_type,
                 array_len |-> f.len, is_enum |-> f.type \in DOMAIN known_enums])
          /\ at' = at + 1
          /\ UNCHANGED <<phase, item, enum_vars, structs>>
    /\ Parsing

\* Faulty: the last field is not compared.
Repeats_(fs) == \E i, j \in 1 .. Len(fs) - 1 : i # j /\ fs[i].name = fs[j].name

Repeats(fs) == \E i, j \in DOMAIN fs : i # j /\ fs[i].name = fs[j].name

CloseStruct ==
    /\ phase = "structs" /\ at > 0 /\ at = Len(text.structs[item].fields) + 1
    /\ \/ /\ Repeats(fields)
          /\ Fails
       \/ /\ ~Repeats(fields)
          /\ structs' = With(structs, text.structs[item].name, fields)
          /\ item' = item + 1 /\ at' = 0
          /\ UNCHANGED <<phase, enum_vars, fields>>
    /\ Parsing

StructsParsed ==
    /\ phase = "structs" /\ item = Len(text.structs) + 1
    /\ \/ /\ DOMAIN structs = {}
          /\ Fails
       \/ /\ DOMAIN structs # {}
          /\ phase' = "open" /\ outs' = Outputs
          /\ UNCHANGED <<parser, files>>
    /\ UNCHANGED <<header, runs, run, torn, built>>

-----------------------------------------------------------------------------
(* main: the outputs. *)

\* open(path, 'w') empties the file before its text is made, or raises.
OpenOutput ==
    /\ phase = "open" /\ outs # <<>>
    /\ \/ /\ files' = [files EXCEPT ![Head(outs)] = NoFile]
          /\ phase' = "write"
          /\ torn' = (torn \/ (Head(outs) \in {"h", "c"} /\ ~Whole))
       \/ /\ phase' = "io error"
          /\ torn' = (torn \/ BetweenTheTwo)
          /\ UNCHANGED files
    /\ UNCHANGED <<header, runs, run, parser, outs, built>>

\* Faulty: the first output is taken as it is, and its failure ignored.
SizesKnown_ == TRUE

\* The sizes are asked for in the text of the first output: there a circular
\* struct and a string too long for a prefix are found.
SizesKnown == compute_max_wire_size(structs, fixed_mode) # Error

\* The text is made, and written; a write that raises leaves the file empty, or a
\* part of it.
WriteOutput ==
    /\ phase = "write"
    /\ \/ /\ outs = Outputs /\ ~SizesKnown
          /\ Fails
       \/ /\ outs = Outputs => SizesKnown
          /\ phase' = "io error"
          /\ UNCHANGED <<parser, outs, files>>
       \/ /\ outs = Outputs => SizesKnown
          /\ files' = [files EXCEPT ![Head(outs)] = <<text, fixed_mode>>]
          /\ outs' = Tail(outs) /\ phase' = "open"
          /\ UNCHANGED parser
    /\ UNCHANGED <<header, runs, run, torn, built>>

Exit ==
    /\ phase = "open" /\ outs = <<>>
    /\ phase' = "ok"
    /\ torn' = (torn /\ ~Whole)
    /\ UNCHANGED <<header, runs, run, parser, outs, files, built>>

Kill ==
    /\ phase \in Running
    /\ phase' = "killed"
    /\ torn' = (torn \/ BetweenTheTwo)
    /\ UNCHANGED <<header, runs, run, parser, outs, files, built>>

\* Faulty: the build does not wait for the generator.
Compile_ ==
    /\ by = "build" /\ phase \in {"ok", "error", "io error", "open"}
    /\ built' = IF NoFile \in {files["h"], files["c"]} THEN NotBuilt
                ELSE <<files["h"], files["c"]>>
    /\ phase' = "idle"
    /\ UNCHANGED <<header, runs, run, parser, outs, files, torn>>

\* A run has ended. A build goes on with whatever it finds, and compiles if both
\* files are there; it ends with the generator if it is killed.
Compile ==
    /\ by = "build" /\ phase \in {"ok", "error", "io error"}
    /\ built' = IF NoFile \in {files["h"], files["c"]} THEN NotBuilt
                ELSE <<files["h"], files["c"]>>
    /\ phase' = "idle"
    /\ UNCHANGED <<header, runs, run, parser, outs, files, torn>>
Return ==
    /\ (by = "hand" /\ phase \in {"ok", "error", "io error"}) \/ phase = "killed"
    /\ phase' = "idle"
    /\ UNCHANGED <<header, runs, run, parser, outs, files, torn, built>>

Edit ==
    /\ header' \in Headers \ {header}
    /\ UNCHANGED <<runs, run, phase, parser, outs, files, torn, built>>

Next ==
    \/ RunByHand \/ RunByBuild
    \/ OpenEnum \/ EnumEntry \/ CloseEnum \/ EnumsParsed
    \/ OpenStruct \/ StructField \/ CloseStruct \/ StructsParsed
    \/ OpenOutput \/ WriteOutput \/ Exit
    \/ Kill \/ Compile \/ Return \/ Edit

Spec == Init /\ [][Next]_vars

-----------------------------------------------------------------------------
(* What the generators are meant to take, said of a header as a whole. *)

\* The value C gives the i-th entry of an enum: k is the last entry up to it
\* that has a literal, or 0 if none has.
LastLiteral(es, i, k) ==
    /\ k = 0 \/ es[k].form # None
    /\ \A j \in k + 1 .. i : es[j].form = None
ValueAfter(es, i, k) == IF k = 0 THEN i - 1 ELSE es[k].value + (i - k)
Enumerators(es) ==
    {ValueAfter(es, p[2], p[1]) :
        p \in {q \in (0 .. Len(es)) \X (1 .. Len(es)) :
                  q[1] <= q[2] /\ LastLiteral(es, q[2], q[1])}}

\* No type has more than 64 bits.
InRange(vs) ==
    \/ \A v \in vs : v >= 0 /\ v <= Greatest("uint64_t")
    \/ \A v \in vs : v >= Least("int64_t") /\ v <= Greatest("int64_t")
Holds(wire_type, vs) == \A v \in vs : Least(wire_type) <= v /\ v <= Greatest(wire_type)

IsScalar(f) == f.key \in DOMAIN SCALAR_TYPE_MAP
EnumNames(h) == {h.enums[i].name : i \in {j \in DOMAIN h.enums : h.enums[j].entries # <<>>}}
StructNames(h) == {h.structs[i].name : i \in DOMAIN h.structs}

EnumsWellFormed(h) ==
    /\ \A i, j \in DOMAIN h.enums :
        i < j /\ h.enums[i].entries # <<>> => h.enums[i].name # h.enums[j].name
    /\ \A i \in DOMAIN h.enums : \A e \in ToSet(h.enums[i].entries) :
        e.form = None \/ IsLiteral(e)
StructsWellFormed(h) ==
    /\ h.structs # <<>>
    /\ \A i, j \in DOMAIN h.structs : i # j => h.structs[i].name # h.structs[j].name
    /\ \A s \in ToSet(h.structs) :
        /\ \A i, j \in DOMAIN s.fields : i # j => s.fields[i].name # s.fields[j].name
        /\ \A f \in ToSet(s.fields) :
            /\ ~BadField(f)
            /\ IsScalar(f) \/ f.type \in EnumNames(h) \cup StructNames(h)

\* Structs each of which holds one of them have no size.
Circular(h) ==
    \E names \in SUBSET StructNames(h) :
        /\ names # {}
        /\ \A s \in ToSet(h.structs) : s.name \in names =>
            \E f \in ToSet(s.fields) :
                ~IsScalar(f) /\ f.type \notin EnumNames(h) /\ f.type \in names
\* In variable mode a string has a prefix of at most 32 bits.
PrefixesFit(h) ==
    \A s \in ToSet(h.structs) : \A f \in ToSet(s.fields) :
        f.type \in {"char", "wchar_t"} => PrefixFits(f.len)
WellFormed(h, fixed) ==
    /\ EnumsWellFormed(h) /\ StructsWellFormed(h) /\ ~Circular(h)
    /\ fixed \/ PrefixesFit(h)

\* A generator exits with 0 only if the header it has read has a meaning on the
\* wire, and with 1 only if it has none, however deep in the header the reason is -
\* or if a file could not be read or written.
ExitCode ==
    /\ phase = "ok" => WellFormed(text, fixed_mode)
    /\ phase = "error" => ~WellFormed(text, fixed_mode)

\* What is in a file was made from a header that has a meaning, whatever runs,
\* failures and interruptions there were before and after.
OutputsSound ==
    \A f \in Files : files[f] # NoFile => WellFormed(files[f][1], files[f][2])

\* The wire type a generator has chosen for a field that is an enum holds every
\* value that C gives the enum, if any type does; an enum whose name is that
\* of a scalar, case aside, is taken for the scalar.
EnumsFit ==
    phase \in {"open", "write", "ok"} =>
        \A i \in DOMAIN text.structs, j \in DOMAIN text.enums :
            LET s == text.structs[i]
                e == text.enums[j]
            IN  \A k \in DOMAIN s.fields :
                    /\ s.fields[k].type = e.name /\ ~IsScalar(s.fields[k])
                    /\ e.entries # <<>> /\ InRange(Enumerators(e.entries))
                    => Holds(structs[s.name][k].wire_type, Enumerators(e.entries))

\* What a build compiles was made in one run, from one header and in one mode of
\* strings, whatever headers, runs, failures and interruptions there were before: the
\* .h file is opened first, and what stops a run while either is open leaves that one
\* empty. But for this: since a run wrote both files, one was interrupted, or could not
\* open the .c, just between the two, or was told by --out and --out_h to write only one
\* of the two.
BuildOfOnePiece ==
    built # NotBuilt /\ ~torn => built[1] = built[2]
=============================================================================

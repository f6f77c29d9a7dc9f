--------------------------- MODULE Generator_proofs ---------------------------
(***************************************************************************)
(* Proofs about Generator, for any headers, any number of runs by hand and  *)
(* by the build, and any edits between them.                                *)
(*                                                                         *)
(* Between two runs the two C files of the build agree, or one of them is   *)
(* missing, if nothing is torn: a run that writes both opens the .h first,  *)
(* and a failure while the .c is open leaves that one empty.                *)
(* While it parses, a run knows of the enums, structs and fields it has     *)
(* passed all that the header says (EnumsRead, StructsRead), and it refuses *)
(* nothing but what makes the header meaningless.                           *)
(***************************************************************************)
EXTENDS Generator, WireFormat_proofs

\* If both files are there they were made in one run.
Agree == files["h"] # NoFile /\ files["c"] # NoFile => files["h"] = files["c"]

\* The .h file is of the run that is under way.
Made == files["h"] = <<text, fixed_mode>>

\* What is still to be written: both files of the protocol, the second, or neither.
Others(s, k) == \A i \in k .. Len(s) : s[i] \notin {"h", "c"}
BothLeft == Len(outs) >= 2 /\ outs[1] = "h" /\ outs[2] = "c" /\ Others(outs, 3)
SecondLeft == Len(outs) >= 1 /\ outs[1] = "c" /\ Others(outs, 2)
NeitherLeft == Others(outs, 1)

OfWhole ==
    /\ phase = "open" => \/ BothLeft /\ (torn \/ Agree)
                         \/ SecondLeft /\ Made
                         \/ NeitherLeft /\ Agree
    /\ phase = "write" => \/ BothLeft /\ files["h"] = NoFile
                          \/ SecondLeft /\ Made /\ files["c"] = NoFile
                          \/ NeitherLeft /\ Agree
OfOther ==
    /\ ~torn => Agree
    /\ phase = "write" /\ ~torn => Head(outs) \notin {"h", "c"}

Stage ==
    /\ phase \notin {"open", "write"} => torn \/ Agree
    /\ phase \in {"open", "write"} => IF Whole THEN OfWhole ELSE OfOther

Inv ==
    /\ DOMAIN files = Files
    /\ outs \in Seq(Files)
    /\ phase = "write" => outs # <<>>
    /\ Stage
    /\ phase # "idle" => built = NotBuilt
    /\ BuildOfOnePiece

-----------------------------------------------------------------------------
\* The outputs of a run, and what is left of them after the first.
LEMMA OutputsFacts ==
    /\ Outputs \in Seq(Files) /\ Outputs # <<>>
    /\ Whole => /\ Len(Outputs) >= 2 /\ Outputs[1] = "h" /\ Outputs[2] = "c"
                /\ Others(Outputs, 3)
<1>1. \A o, f : PathOf(o, f) \in {f, "elsewhere"}
  BY DEF PathOf
<1>2. /\ PathOf("out_h", "h") \in Files /\ PathOf("out", "c") \in Files
      /\ PathOf("out_h", "buffers.h") \in Files /\ PathOf("out", "buffers.c") \in Files
      /\ PathOf("out", "cs") \in Files /\ PathOf("out", "Buffers.cs") \in Files
  BY <1>1 DEF Files
<1>3. Whole => /\ PathOf("out_h", "h") = "h" /\ PathOf("out", "c") = "c"
               /\ PathOf("out_h", "buffers.h") = "buffers.h"
               /\ PathOf("out", "buffers.c") = "buffers.c"
  BY DEF Whole, PathOf
<1>4. ASSUME NEW x \in Files, NEW y \in Files, NEW r \in Seq(Files)
      PROVE  LET s == <<x, y>> \o r IN
             /\ s \in Seq(Files) /\ Len(s) = 2 + Len(r) /\ s[1] = x /\ s[2] = y
             /\ s # <<>> /\ Len(r) \in Nat
             /\ \A i \in 3 .. Len(s) : s[i] = r[i - 2] /\ i - 2 \in 1 .. Len(r)
  OBVIOUS
<1>5. ASSUME NEW x \in Files, NEW r \in Seq(Files)
      PROVE  <<x>> \o r \in Seq(Files) /\ <<x>> \o r # <<>>
  OBVIOUS
<1>6. ASSUME NEW x \in Files, NEW y \in Files
      PROVE  <<>> \in Seq(Files) /\ <<x>> \in Seq(Files) /\ <<x, y>> \in Seq(Files)
  OBVIOUS
<1>7. <<>> \in Seq(Files) /\ <<PathOf("out", "Buffers.cs")>> \in Seq(Files)
      /\ <<PathOf("out_h", "buffers.h"), PathOf("out", "buffers.c")>> \in Seq(Files)
  BY <1>2, <1>6
<1>8. CASE tool = "C"
  <2>1. PICK r \in {<<>>, <<PathOf("out_h", "buffers.h"), PathOf("out", "buffers.c")>>} :
            Outputs = <<PathOf("out_h", "h"), PathOf("out", "c")>> \o r
    BY <1>8 DEF Outputs
  <2>2. r \in Seq(Files)
    BY <1>7, <2>1
  <2>3. Whole => \A i \in 1 .. Len(r) : r[i] \notin {"h", "c"}
    <3>1. CASE r = <<>>
      BY <3>1
    <3>2. CASE r = <<PathOf("out_h", "buffers.h"), PathOf("out", "buffers.c")>>
      BY <1>3, <3>2
    <3>3. QED
      BY <2>1, <3>1, <3>2
  <2>4. /\ Outputs \in Seq(Files) /\ Len(Outputs) = 2 + Len(r) /\ Len(r) \in Nat
        /\ Outputs[1] = PathOf("out_h", "h") /\ Outputs[2] = PathOf("out", "c")
        /\ Outputs # <<>>
        /\ \A i \in 3 .. Len(Outputs) : Outputs[i] = r[i - 2] /\ i - 2 \in 1 .. Len(r)
    BY <1>2, <1>4, <2>1, <2>2
  <2>5. QED
    BY <1>3, <2>3, <2>4 DEF Others
<1>9. CASE tool # "C"
  <2>1. PICK r \in {<<>>, <<PathOf("out", "Buffers.cs")>>} :
            Outputs = <<PathOf("out", "cs")>> \o r
    BY <1>9 DEF Outputs
  <2>2. r \in Seq(Files)
    BY <1>7, <2>1
  <2>3. QED
    BY <1>2, <1>5, <1>9, <2>1, <2>2 DEF Whole
<1>10. QED
  BY <1>8, <1>9

\* What is left after one more output.
LEMMA LeftFacts ==
    ASSUME outs \in Seq(Files), outs # <<>>, outs' = Tail(outs)
    PROVE  /\ outs' \in Seq(Files) /\ Head(outs) \in Files
           /\ BothLeft => Head(outs) = "h" /\ SecondLeft'
           /\ SecondLeft => Head(outs) = "c" /\ NeitherLeft'
           /\ NeitherLeft => Head(outs) \notin {"h", "c"} /\ NeitherLeft'
<1>1. /\ Len(outs) \in Nat \ {0} /\ Head(outs) = outs[1] /\ outs[1] \in Files
      /\ outs' \in Seq(Files) /\ Len(outs') = Len(outs) - 1
      /\ \A i \in 1 .. Len(outs) - 1 : outs'[i] = outs[i + 1]
  OBVIOUS
<1>2. QED
  BY <1>1 DEF BothLeft, SecondLeft, NeitherLeft, Others

-----------------------------------------------------------------------------
\* Steps outside the writing of the outputs, of a run that is under way.
LEMMA ElseStep ==
    ASSUME Inv, phase \notin {"open", "write"}, phase' \notin {"open", "write", "idle"},
           UNCHANGED files, outs' \in Seq(Files), torn' = torn \/ torn',
           built' = NotBuilt
    PROVE  Inv'
BY DEF Inv, Stage, Agree, BuildOfOnePiece

\* A run begins, and reads the header.
LEMMA ReadStep ==
    ASSUME Inv,
           \/ RunByHand \/ RunByBuild
           \/ OpenEnum \/ EnumEntry \/ CloseEnum \/ EnumsParsed
           \/ OpenStruct \/ StructField \/ CloseStruct
    PROVE  Inv'
<1>1. CASE RunByHand \/ RunByBuild
  <2>1. /\ phase = "idle" /\ phase' \in {"enums", "io error"} /\ outs' = <<>>
        /\ UNCHANGED <<files, torn>> /\ built' = NotBuilt
    BY <1>1 DEF RunByHand, RunByBuild, Start
  <2>2. << >> \in Seq(Files)
    OBVIOUS
  <2>3. outs' \in Seq(Files)
    BY <2>1, <2>2, Zenon
  <2>4. QED
    BY <2>1, <2>3, ElseStep
<1>2. CASE \/ OpenEnum \/ EnumEntry \/ CloseEnum \/ EnumsParsed
           \/ OpenStruct \/ StructField \/ CloseStruct
  <2>1. Parsing
    BY <1>2 DEF OpenEnum, EnumEntry, CloseEnum, EnumsParsed, OpenStruct, StructField,
                CloseStruct
  <2>2. UNCHANGED <<files, outs, torn, built>>
    BY <2>1 DEF Parsing
  <2>3. phase \in {"enums", "structs"} /\ phase' \in {"enums", "structs", "error"}
    BY <1>2 DEF OpenEnum, EnumEntry, CloseEnum, EnumsParsed, OpenStruct, StructField,
                CloseStruct, Fails
  <2>4. outs \in Seq(Files) /\ built = NotBuilt
    BY <2>3 DEF Inv
  <2>5. QED
    BY <2>2, <2>3, <2>4, ElseStep
<1>3. QED
  BY <1>1, <1>2

\* The header is read: the outputs are all to come.
LEMMA ParsedStep ==
    ASSUME Inv, StructsParsed
    PROVE  Inv'
<1>1. UNCHANGED <<files, torn, built, tool, here>> /\ phase = "structs" /\ built = NotBuilt
  BY DEF StructsParsed, Fails, run, Inv
<1>2. CASE phase' = "error" /\ outs' = outs
  BY <1>1, <1>2, ElseStep DEF Inv
<1>3. CASE phase' = "open" /\ outs' = Outputs
  <2>1. outs' \in Seq(Files) /\ (Whole => BothLeft') /\ Whole' = Whole
    BY <1>1, <1>3, OutputsFacts DEF BothLeft, Others, Whole
  <2>2. torn' \/ Agree'
    BY <1>1 DEF Inv, Stage, Agree
  <2>3. Stage'
    BY <1>3, <2>1, <2>2 DEF Stage, OfWhole, OfOther
  <2>4. QED
    BY <1>1, <1>3, <2>1, <2>3 DEF Inv, BuildOfOnePiece
<1>4. QED
  BY <1>2, <1>3 DEF StructsParsed, Fails

\* An output is opened, and is empty, or it cannot be opened.
LEMMA OpenStep ==
    ASSUME Inv, OpenOutput
    PROVE  Inv'
<1>1. /\ outs # <<>> /\ outs \in Seq(Files) /\ phase = "open" /\ DOMAIN files = Files
      /\ UNCHANGED <<outs, built, text, fixed_mode, tool, here>> /\ built = NotBuilt
      /\ Whole' = Whole
  BY DEF OpenOutput, Inv, run, Whole
<1>2. /\ Head(outs) = outs[1] /\ outs[1] \in Files /\ Len(outs) \in Nat \ {0}
  BY <1>1
<1>3. "h" \in Files /\ "c" \in Files
  BY DEF Files
<1>4. CASE phase' = "io error" /\ torn' = (torn \/ BetweenTheTwo) /\ UNCHANGED files
  <2>1. torn' \/ Agree'
    <3>1. SecondLeft => Head(outs) = "c"
      BY <1>2 DEF SecondLeft
    <3>2. CASE Whole
      BY <1>1, <1>4, <3>1, <3>2 DEF Inv, Stage, OfWhole, Agree, BetweenTheTwo
    <3>3. CASE ~Whole
      BY <1>1, <1>4, <3>3 DEF Inv, Stage, OfOther, Agree
    <3>4. QED
      BY <3>2, <3>3
  <2>2. QED
    BY <1>1, <1>4, <2>1 DEF Inv, Stage, BuildOfOnePiece
<1>5. CASE /\ files' = [files EXCEPT ![Head(outs)] = NoFile] /\ phase' = "write"
           /\ torn' = (torn \/ (Head(outs) \in {"h", "c"} /\ ~Whole))
  <2>1. BothLeft' = BothLeft /\ SecondLeft' = SecondLeft /\ NeitherLeft' = NeitherLeft
    BY <1>1 DEF BothLeft, SecondLeft, NeitherLeft, Others
  <2>2. BothLeft => files'["h"] = NoFile
    BY <1>1, <1>2, <1>3, <1>5 DEF BothLeft
  <2>3. SecondLeft /\ Made => Made' /\ files'["c"] = NoFile
    BY <1>1, <1>2, <1>3, <1>5 DEF SecondLeft, Made
  <2>4. Head(outs) \notin {"h", "c"} /\ Agree => Agree'
    BY <1>1, <1>2, <1>3, <1>5 DEF Agree
  <2>5. NeitherLeft => Head(outs) \notin {"h", "c"}
    BY <1>1, <1>2 DEF NeitherLeft, Others
  <2>6. CASE Whole
    <3>1. \/ BothLeft
          \/ SecondLeft /\ Made
          \/ NeitherLeft /\ Agree
      BY <1>1, <2>6 DEF Inv, Stage, OfWhole
    <3>2. \/ BothLeft' /\ files'["h"] = NoFile
          \/ SecondLeft' /\ Made' /\ files'["c"] = NoFile
          \/ NeitherLeft' /\ Agree'
      BY <2>1, <2>2, <2>3, <2>4, <2>5, <3>1
    <3>3. Stage'
      BY <1>1, <1>5, <2>6, <3>2 DEF Stage, OfWhole
    <3>4. QED
      BY <1>1, <1>5, <3>3 DEF Inv, BuildOfOnePiece
  <2>7. CASE ~Whole
    <3>1. ASSUME ~torn'
          PROVE  Head(outs) \notin {"h", "c"} /\ Agree'
      BY <1>1, <1>5, <2>4, <2>7, <3>1 DEF Inv, Stage, OfOther
    <3>2. Stage'
      BY <1>1, <1>5, <2>7, <3>1 DEF Stage, OfOther
    <3>3. QED
      BY <1>1, <1>5, <3>2 DEF Inv, BuildOfOnePiece
  <2>8. QED
    BY <2>6, <2>7
<1>6. QED
  BY <1>4, <1>5 DEF OpenOutput

\* An output is written; or the run fails, with the output empty.
LEMMA WriteStep ==
    ASSUME Inv, WriteOutput
    PROVE  Inv'
<1>1. /\ phase = "write" /\ UNCHANGED <<torn, built, text, fixed_mode, tool, here>>
      /\ DOMAIN files = Files /\ outs \in Seq(Files) /\ outs # <<>> /\ built = NotBuilt
      /\ Whole' = Whole
  BY DEF WriteOutput, Inv, run, Whole
<1>2. CASE phase' \in {"error", "io error"} /\ UNCHANGED <<files, outs>>
  <2>1. torn \/ Agree
    BY <1>1 DEF Inv, Stage, OfWhole, OfOther, Agree
  <2>2. QED
    BY <1>1, <1>2, <2>1 DEF Inv, Stage, Agree, BuildOfOnePiece
<1>3. CASE /\ files' = [files EXCEPT ![Head(outs)] = <<text, fixed_mode>>]
           /\ outs' = Tail(outs) /\ phase' = "open"
  <2>1. "h" \in Files /\ "c" \in Files
    BY DEF Files
  <2>2. /\ outs' \in Seq(Files) /\ Head(outs) \in Files
        /\ BothLeft => Head(outs) = "h" /\ SecondLeft'
        /\ SecondLeft => Head(outs) = "c" /\ NeitherLeft'
        /\ NeitherLeft => Head(outs) \notin {"h", "c"} /\ NeitherLeft'
    BY <1>1, <1>3, LeftFacts
  <2>3. Head(outs) \notin {"h", "c"} /\ Agree => Agree'
    BY <1>1, <1>3, <2>1, <2>2 DEF Agree
  <2>4. CASE Whole
    <3>1. BothLeft => Made'
      BY <1>1, <1>3, <2>1, <2>2 DEF Made
    <3>2. SecondLeft /\ Made => Agree'
      BY <1>1, <1>3, <2>1, <2>2 DEF Made, Agree
    <3>3. BothLeft \/ (SecondLeft /\ Made) \/ (NeitherLeft /\ Agree)
      BY <1>1, <2>4 DEF Inv, Stage, OfWhole
    <3>4. Stage'
      BY <1>1, <1>3, <2>2, <2>3, <2>4, <3>1, <3>2, <3>3 DEF Stage, OfWhole
    <3>5. QED
      BY <1>1, <1>3, <2>2, <3>4 DEF Inv, BuildOfOnePiece
  <2>5. CASE ~Whole
    <3>1. ~torn => Agree'
      BY <1>1, <2>3, <2>5 DEF Inv, Stage, OfOther
    <3>2. Stage'
      BY <1>1, <1>3, <2>5, <3>1 DEF Stage, OfOther
    <3>3. QED
      BY <1>1, <1>3, <2>2, <3>2 DEF Inv, BuildOfOnePiece
  <2>6. QED
    BY <2>4, <2>5
<1>4. QED
  BY <1>2, <1>3 DEF WriteOutput, Fails

\* The run ends, or is interrupted; the build compiles what it finds.
LEMMA EndStep ==
    ASSUME Inv, Exit \/ Kill \/ Compile \/ Return \/ Edit \/ UNCHANGED vars
    PROVE  Inv'
<1>1. CASE Exit
  <2>1. /\ phase = "open" /\ phase' = "ok" /\ outs = <<>>
        /\ UNCHANGED <<outs, files, built>> /\ torn' = (torn /\ ~Whole) /\ built = NotBuilt
    BY <1>1 DEF Exit, Inv
  <2>2. ~BothLeft /\ ~SecondLeft
    BY <2>1 DEF BothLeft, SecondLeft
  <2>3. torn' \/ Agree
    BY <2>1, <2>2 DEF Inv, Stage, OfWhole, OfOther
  <2>4. QED
    BY <2>1, <2>3 DEF Inv, Stage, Agree, BuildOfOnePiece
<1>2. CASE Kill
  <2>1. /\ phase \in Running /\ phase' = "killed" /\ torn' = (torn \/ BetweenTheTwo)
        /\ UNCHANGED <<outs, files, built>> /\ built = NotBuilt
        /\ outs \in Seq(Files)
    BY <1>2 DEF Kill, Running, Inv
  <2>2. phase = "open" /\ Whole /\ SecondLeft => BetweenTheTwo
    BY <2>1 DEF SecondLeft, BetweenTheTwo
  <2>3. torn' \/ Agree
    <3>1. CASE phase \notin {"open", "write"}
      BY <2>1, <3>1 DEF Inv, Stage
    <3>2. CASE phase \in {"open", "write"} /\ ~Whole
      BY <2>1, <3>2 DEF Inv, Stage, OfOther
    <3>3. CASE phase = "open" /\ Whole
      BY <2>1, <2>2, <3>3 DEF Inv, Stage, OfWhole
    <3>4. CASE phase = "write" /\ Whole
      BY <2>1, <3>4 DEF Inv, Stage, OfWhole, Agree
    <3>5. QED
      BY <3>1, <3>2, <3>3, <3>4
  <2>4. QED
    BY <2>1, <2>3 DEF Inv, Stage, Agree, BuildOfOnePiece
<1>3. CASE Compile
  <2>1. /\ phase \in {"ok", "error", "io error"} /\ phase' = "idle"
        /\ UNCHANGED <<outs, files, torn>>
        /\ built' = IF NoFile \in {files["h"], files["c"]} THEN NotBuilt
                     ELSE <<files["h"], files["c"]>>
    BY <1>3 DEF Compile, parser
  <2>2. torn \/ Agree
    BY <2>1 DEF Inv, Stage
  <2>3. ~torn' /\ built' # NotBuilt => built'[1] = built'[2]
    BY <2>1, <2>2 DEF Agree
  <2>4. QED
    BY <2>1, <2>2, <2>3 DEF Inv, Stage, Agree, BuildOfOnePiece
<1>4. CASE Return
  <2>1. /\ phase \in {"ok", "error", "io error", "killed"} /\ phase' = "idle"
        /\ UNCHANGED <<outs, files, torn, built>>
    BY <1>4 DEF Return
  <2>2. QED
    BY <2>1 DEF Inv, Stage, Agree, BuildOfOnePiece
<1>5. CASE Edit \/ UNCHANGED vars
  <2>1. UNCHANGED <<phase, outs, files, torn, built, text, fixed_mode, tool, here>>
    BY <1>5 DEF Edit, vars, run
  <2>2. QED
    BY <2>1 DEF Inv, Stage, OfWhole, OfOther, Whole, Agree, Made, BothLeft, SecondLeft,
                NeitherLeft, Others, BuildOfOnePiece
<1>6. QED
  BY <1>1, <1>2, <1>3, <1>4, <1>5

\* Before the first run.
LEMMA InvInit ==
    ASSUME Init
    PROVE  Inv
<1>1. /\ files = [f \in Files |-> NoFile] /\ outs = <<>> /\ phase = "idle"
      /\ built = NotBuilt
  BY DEF Init
<1>2. "h" \in Files /\ "c" \in Files /\ <<>> \in Seq(Files)
  BY DEF Files
<1>3. QED
  BY <1>1, <1>2 DEF Inv, Stage, Agree, BuildOfOnePiece

\* What a build compiles is of one run, for any headers and any runs before, whether they
\* succeeded, refused the header, could not read or write a file or were interrupted - unless,
\* since a run wrote both files, one ended just between the two, or wrote one of the two only.
THEOREM OnePiece == Spec => []BuildOfOnePiece
<1>1. Inv /\ [Next]_vars => Inv'
  BY ReadStep, ParsedStep, OpenStep, WriteStep, EndStep DEF Next
<1>2. Inv => BuildOfOnePiece
  BY DEF Inv
<1>3. QED
  BY InvInit, <1>1, <1>2, PTL DEF Spec

-----------------------------------------------------------------------------
(***************************************************************************)
(* What is known of a header, and what the parser has read of it.          *)
(***************************************************************************)

\* A sequence and its elements.
Listed(s, n) == n \in Nat /\ Len(s) = n /\ DOMAIN s = 1 .. n /\ (s = <<>> <=> n = 0)

\* The scalars, and what is none of them.
LEMMA ScalarFacts ==
    /\ \A t \in DOMAIN SCALAR_TYPE_MAP : SCALAR_TYPE_MAP[t] \in WireType
    /\ WireType \subseteq DOMAIN SCALAR_TYPE_MAP
    /\ "char" \in DOMAIN SCALAR_TYPE_MAP /\ "wchar_t" \in DOMAIN SCALAR_TYPE_MAP
    /\ None \notin WireType
<1>1. \A t \in DOMAIN SCALAR_TYPE_MAP : SCALAR_TYPE_MAP[t] \in WireType
  BY DEF SCALAR_TYPE_MAP, WireType, WIRE_TYPE_SIZES
<1>2. WireType \subseteq DOMAIN SCALAR_TYPE_MAP
  BY DEF SCALAR_TYPE_MAP, WireType
<1>3. "char" \in DOMAIN SCALAR_TYPE_MAP /\ "wchar_t" \in DOMAIN SCALAR_TYPE_MAP
  BY DEF SCALAR_TYPE_MAP
<1>4. None \notin WireType
  BY DEF None, WireType, WIRE_TYPE_SIZES
<1>5. QED
  BY <1>1, <1>2, <1>3, <1>4

\* A sequence as it is indexed.
LEMMA ListedSeq == ASSUME NEW S, NEW s \in Seq(S) PROVE Listed(s, Len(s)) /\ \A i \in 1 .. Len(s) : s[i] \in S
BY DEF Listed

\* The parts of a header.
LEMMA HeaderFacts ==
    ASSUME NEW h \in Headers
    PROVE  /\ Listed(h.enums, Len(h.enums)) /\ Listed(h.structs, Len(h.structs))
           /\ \A i \in 1 .. Len(h.enums) :
                 /\ Listed(h.enums[i].entries, Len(h.enums[i].entries))
                 /\ \A k \in 1 .. Len(h.enums[i].entries) : h.enums[i].entries[k] \in Literal
           /\ \A i \in 1 .. Len(h.structs) :
                 /\ h.structs[i].name \in STRING /\ h.structs[i].name # None
                 /\ Listed(h.structs[i].fields, Len(h.structs[i].fields))
                 /\ \A k \in 1 .. Len(h.structs[i].fields) :
                       LET f == h.structs[i].fields[k]
                       IN  f \in FieldText /\ (f.type \in DOMAIN SCALAR_TYPE_MAP => f.key = f.type)
<1>1. /\ h.enums \in Seq([name : STRING, entries : Seq(Literal)])
      /\ h.structs \in Seq([name : STRING, fields : Seq(FieldText)])
  BY HeaderAssumption DEF Header
<1>2. ASSUME NEW i \in 1 .. Len(h.enums)
      PROVE  h.enums[i].entries \in Seq(Literal)
  <2>1. h.enums[i] \in [name : STRING, entries : Seq(Literal)]
    BY <1>1, ListedSeq
  <2>2. QED
    BY <2>1
<1>3. ASSUME NEW i \in 1 .. Len(h.structs)
      PROVE  h.structs[i].name \in STRING /\ h.structs[i].fields \in Seq(FieldText)
  <2>1. h.structs[i] \in [name : STRING, fields : Seq(FieldText)]
    BY <1>1, ListedSeq
  <2>2. QED
    BY <2>1
<1>4. ASSUME NEW i \in 1 .. Len(h.structs)
      PROVE  /\ h.structs[i].name # None
             /\ \A k \in 1 .. Len(h.structs[i].fields) :
                   LET f == h.structs[i].fields[k]
                   IN  f.type \in DOMAIN SCALAR_TYPE_MAP => f.key = f.type
  <2>1. DOMAIN h.structs = 1 .. Len(h.structs)
        /\ DOMAIN h.structs[i].fields = 1 .. Len(h.structs[i].fields)
    BY <1>1, <1>3
  <2>2. h.structs[i] \in ToSet(h.structs)
    BY <2>1 DEF ToSet
  <2>3. \A k \in 1 .. Len(h.structs[i].fields) : h.structs[i].fields[k] \in ToSet(h.structs[i].fields)
    BY <2>1 DEF ToSet
  <2>4. QED
    BY <2>2, <2>3, HeaderAssumption
<1>5. QED
  BY <1>1, <1>2, <1>3, <1>4, ListedSeq

\* The wire type of an enum, and the field made of its text.
EnumTyped(t, es) == t \in WireType /\ (InRange(Enumerators(es)) => Holds(t, Enumerators(es)))
TypeOf(h, known, f) ==
    IF IsScalar(f) THEN SCALAR_TYPE_MAP[f.key]
    ELSE IF f.type \in DOMAIN known THEN known[f.type]
    ELSE IF f.type \in StructNames(h) THEN f.type
    ELSE None
FieldRead(h, known, f) ==
    [name |-> f.name, type |-> f.type, wire_type |-> TypeOf(h, known, f),
     array_len |-> f.len, is_enum |-> f.type \in DOMAIN known]
GoodField(h, known, f) ==
    ~BadField(f) /\ (IsScalar(f) \/ f.type \in DOMAIN known \cup StructNames(h))

\* The first n enums, the first n fields of a struct, the first n structs are read.
EnumsRead(h, n, known) ==
    /\ \A i, j \in 1 .. n :
          i < j /\ h.enums[i].entries # <<>> => h.enums[i].name # h.enums[j].name
    /\ \A i \in 1 .. n : \A k \in 1 .. Len(h.enums[i].entries) :
          h.enums[i].entries[k].form = None \/ IsLiteral(h.enums[i].entries[k])
    /\ DOMAIN known = {h.enums[i].name : i \in {j \in 1 .. n : h.enums[j].entries # <<>>}}
    /\ \A i \in 1 .. n : h.enums[i].entries # <<>> =>
          EnumTyped(known[h.enums[i].name], h.enums[i].entries)
FieldsRead(h, known, fs, n, out) ==
    /\ out \in Seq(FieldRecord(StructNames(h))) /\ Len(out) = n
    /\ \A k \in 1 .. n : GoodField(h, known, fs[k]) /\ out[k] = FieldRead(h, known, fs[k])
Distinct(fs, n) == \A k, l \in 1 .. n : k # l => fs[k].name # fs[l].name
StructsRead(h, n, known, dict) ==
    /\ Distinct(h.structs, n)
    /\ DOMAIN dict = {h.structs[i].name : i \in 1 .. n}
    /\ \A i \in 1 .. n :
          LET s == h.structs[i]
          IN  Distinct(s.fields, Len(s.fields)) /\ FieldsRead(h, known, s.fields, Len(s.fields), dict[s.name])

HeaderRead(h, known, dict) ==
    /\ h \in Headers
    /\ EnumsRead(h, Len(h.enums), known)
    /\ StructsRead(h, Len(h.structs), known, dict)
    /\ DOMAIN dict # {}

-----------------------------------------------------------------------------
\* The wire types of the enums.
LEMMA KnownTypes ==
    ASSUME NEW h, NEW known, EnumsRead(h, Len(h.enums), known)
    PROVE  \A t \in DOMAIN known : known[t] \in WireType
<1>1. ASSUME NEW t \in DOMAIN known
      PROVE  known[t] \in WireType
  <2>1. PICK j \in 1 .. Len(h.enums) : h.enums[j].entries # <<>> /\ t = h.enums[j].name
    BY DEF EnumsRead
  <2>2. QED
    BY <2>1 DEF EnumsRead, EnumTyped
<1>2. QED
  BY <1>1

\* The names of a header that is read.
LEMMA NamesRead ==
    ASSUME NEW h, NEW known, NEW dict, HeaderRead(h, known, dict)
    PROVE  DOMAIN known = EnumNames(h) /\ DOMAIN dict = StructNames(h)
BY HeaderFacts DEF HeaderRead, EnumsRead, StructsRead, EnumNames, StructNames, Listed

\* All enums and all structs of a header are read: as they are meant,
LEMMA ReadIsWellFormed ==
    ASSUME NEW h, NEW known, NEW dict, HeaderRead(h, known, dict)
    PROVE  EnumsWellFormed(h) /\ StructsWellFormed(h)
<1>1. /\ Listed(h.enums, Len(h.enums)) /\ Listed(h.structs, Len(h.structs))
      /\ \A i \in 1 .. Len(h.enums) : Listed(h.enums[i].entries, Len(h.enums[i].entries))
      /\ \A i \in 1 .. Len(h.structs) : Listed(h.structs[i].fields, Len(h.structs[i].fields))
  BY HeaderFacts DEF HeaderRead
<1>2. DOMAIN known = EnumNames(h) /\ DOMAIN dict = StructNames(h)
  BY NamesRead
<1>3. EnumsWellFormed(h)
  <2>1. \A i, j \in DOMAIN h.enums :
           i < j /\ h.enums[i].entries # <<>> => h.enums[i].name # h.enums[j].name
    BY <1>1 DEF HeaderRead, EnumsRead, Listed
  <2>2. ASSUME NEW i \in DOMAIN h.enums, NEW e \in ToSet(h.enums[i].entries)
        PROVE  e.form = None \/ IsLiteral(e)
    <3>1. i \in 1 .. Len(h.enums)
      BY <1>1 DEF Listed
    <3>2. PICK k \in 1 .. Len(h.enums[i].entries) : e = h.enums[i].entries[k]
      BY <1>1, <3>1 DEF Listed, ToSet
    <3>3. QED
      BY <3>1, <3>2 DEF HeaderRead, EnumsRead
  <2>3. QED
    BY <2>1, <2>2 DEF EnumsWellFormed
<1>4. h.structs # <<>>
  BY <1>1 DEF HeaderRead, StructsRead, Listed
<1>5. \A i, j \in DOMAIN h.structs : i # j => h.structs[i].name # h.structs[j].name
  BY <1>1 DEF HeaderRead, StructsRead, Distinct, Listed
<1>6. ASSUME NEW i \in 1 .. Len(h.structs)
      PROVE  LET s == h.structs[i] IN
             /\ \A k, l \in DOMAIN s.fields : k # l => s.fields[k].name # s.fields[l].name
             /\ \A f \in ToSet(s.fields) :
                /\ ~BadField(f)
                /\ IsScalar(f) \/ f.type \in EnumNames(h) \cup StructNames(h)
  <2> DEFINE s == h.structs[i]
  <2>1. /\ Distinct(s.fields, Len(s.fields)) /\ Listed(s.fields, Len(s.fields))
        /\ \A k \in 1 .. Len(s.fields) : GoodField(h, known, s.fields[k])
    BY <1>1 DEF HeaderRead, StructsRead, FieldsRead
  <2> HIDE DEF s
  <2>2. \A k, l \in DOMAIN s.fields : k # l => s.fields[k].name # s.fields[l].name
    BY <2>1 DEF Distinct, Listed
  <2>3. ASSUME NEW f \in ToSet(s.fields)
        PROVE  ~BadField(f) /\ (IsScalar(f) \/ f.type \in EnumNames(h) \cup StructNames(h))
    <3>1. PICK k \in 1 .. Len(s.fields) : f = s.fields[k]
      BY <2>1 DEF Listed, ToSet
    <3>2. QED
      BY <1>2, <2>1, <3>1 DEF GoodField
  <2>4. QED
    BY <2>2, <2>3 DEF s
<1>7. QED
  BY <1>1, <1>3, <1>4, <1>5, <1>6 DEF StructsWellFormed, ToSet, Listed

\* What the sizes are asked of,
LEMMA ReadIsParsed ==
    ASSUME NEW h, NEW known, NEW dict, HeaderRead(h, known, dict)
    PROVE  Parsed(dict)
<1> DEFINE n == Len(h.structs)
           f == [i \in 1 .. n |-> h.structs[i].name]
<1>1. n \in Nat
  BY HeaderFacts DEF HeaderRead, Listed
<1>2. DOMAIN dict = StructNames(h) /\ DOMAIN dict = {h.structs[i].name : i \in 1 .. n}
  BY NamesRead DEF HeaderRead, StructsRead
<1>3. IsFiniteSet(DOMAIN dict)
  <2>1. f \in Surjection(1 .. n, DOMAIN dict)
    BY <1>2 DEF Surjection
  <2>2. IsFiniteSet(1 .. n)
    BY <1>1, FS_Interval
  <2> HIDE DEF f, n
  <2>3. QED
    BY <2>1, <2>2, FS_Surjection
<1>4. ASSUME NEW m \in DOMAIN dict
      PROVE  dict[m] \in Seq(FieldRecord(DOMAIN dict))
  BY <1>2 DEF HeaderRead, StructsRead, FieldsRead
<1>5. QED
  BY <1>3, <1>4 DEF Parsed

\* A field of a struct as it is written, f, and as it is read, g.
IsReadAs(h, f, g) ==
    /\ f.len \in Nat \cup {NoLen} /\ g.array_len = f.len /\ g.type = f.type
    /\ IsScalar(f) \/ f.type \in EnumNames(h) => g.wire_type \in WireType
    /\ ~IsScalar(f) /\ f.type \notin EnumNames(h) =>
          g.wire_type = f.type /\ f.type \notin WireType

\* A field that is read has the type that the header means.
LEMMA FieldIsRead ==
    ASSUME NEW h, NEW known, NEW dict, HeaderRead(h, known, dict),
           NEW i \in 1 .. Len(h.structs), NEW k \in 1 .. Len(h.structs[i].fields)
    PROVE  /\ Len(dict[h.structs[i].name]) = Len(h.structs[i].fields)
           /\ IsReadAs(h, h.structs[i].fields[k], dict[h.structs[i].name][k])
<1> DEFINE f == h.structs[i].fields[k]
           g == dict[h.structs[i].name][k]
<1>1. /\ Len(dict[h.structs[i].name]) = Len(h.structs[i].fields)
      /\ GoodField(h, known, f) /\ g = FieldRead(h, known, f)
  BY DEF HeaderRead, StructsRead, FieldsRead
<1>2. f \in FieldText /\ (f.type \in DOMAIN SCALAR_TYPE_MAP => f.key = f.type)
  BY HeaderFacts DEF HeaderRead
<1>3. DOMAIN known = EnumNames(h) /\ DOMAIN dict = StructNames(h)
  BY NamesRead
<1>4. f.type \in DOMAIN known => known[f.type] \in WireType
  BY KnownTypes DEF HeaderRead
<1> HIDE DEF f, g
<1>5. f.len \in Nat \cup {NoLen}
  BY <1>1, <1>2 DEF GoodField, BadField, FieldText
<1>6. g.array_len = f.len /\ g.type = f.type /\ g.wire_type = TypeOf(h, known, f)
  BY <1>1 DEF FieldRead
<1>7. IsScalar(f) => TypeOf(h, known, f) \in WireType
  BY ScalarFacts DEF TypeOf, IsScalar
<1>8. ~IsScalar(f) /\ f.type \in EnumNames(h) => TypeOf(h, known, f) \in WireType
  BY <1>3, <1>4 DEF TypeOf
<1>9. ~IsScalar(f) /\ f.type \notin EnumNames(h) => TypeOf(h, known, f) = f.type
  BY <1>1, <1>3 DEF TypeOf, GoodField
<1>10. ~IsScalar(f) => f.type \notin WireType
  BY <1>2, ScalarFacts DEF IsScalar
<1>11. QED
  BY <1>1, <1>5, <1>6, <1>7, <1>8, <1>9, <1>10 DEF f, g, IsReadAs

\* A field of s names the struct t.
Refers(h, s, t) ==
    \E f \in ToSet(s.fields) : ~IsScalar(f) /\ f.type \notin EnumNames(h) /\ f.type = t

\* A struct holds those that its fields name, unless they are scalars or enums.
LEMMA HeldRead ==
    ASSUME NEW h, NEW known, NEW dict, HeaderRead(h, known, dict),
           NEW i \in 1 .. Len(h.structs)
    PROVE  \A t : t \in Held(dict, h.structs[i].name) <=> Refers(h, h.structs[i], t)
<1> TAKE t
<1> DEFINE s == h.structs[i]  fs == dict[s.name]
<1>1. Listed(s.fields, Len(s.fields))
  BY HeaderFacts DEF HeaderRead
<1>2. \A f : f \in ToSet(s.fields) <=> \E k \in 1 .. Len(s.fields) : f = s.fields[k]
  BY <1>1 DEF ToSet, Listed
<1>3. ASSUME NEW k \in 1 .. Len(s.fields)
      PROVE  IsReadAs(h, s.fields[k], fs[k])
  BY FieldIsRead
<1>4. Len(fs) = Len(s.fields)
  BY DEF HeaderRead, StructsRead, FieldsRead
<1> HIDE DEF s, fs
<1>5. t \in {fs[k].wire_type : k \in 1 .. Len(fs)} \ WireType
      <=> \E k \in 1 .. Len(s.fields) :
             LET f == s.fields[k] IN ~IsScalar(f) /\ f.type \notin EnumNames(h) /\ f.type = t
  BY <1>3, <1>4 DEF IsReadAs
<1>6. QED
  <2>1. t \in Held(dict, s.name)
        <=> \E f \in ToSet(s.fields) : ~IsScalar(f) /\ f.type \notin EnumNames(h) /\ f.type = t
    BY <1>2, <1>5 DEF Held, fs
  <2>2. QED
    BY <2>1 DEF Refers, s

\* struct_wire_size finds a circle if the header has one,
LEMMA CircleRead ==
    ASSUME NEW h, NEW known, NEW dict, HeaderRead(h, known, dict)
    PROVE  HoldsItself(dict) <=> Circular(h)
<1>1. /\ DOMAIN dict = StructNames(h) /\ DOMAIN dict = {h.structs[i].name : i \in 1 .. Len(h.structs)}
      /\ Listed(h.structs, Len(h.structs))
  BY NamesRead, HeaderFacts DEF HeaderRead, StructsRead
<1>2. ASSUME NEW names \in SUBSET DOMAIN dict
      PROVE  (\A n \in names : Held(dict, n) \cap names # {})
             <=> \A s \in ToSet(h.structs) : s.name \in names =>
                    \E f \in ToSet(s.fields) :
                        ~IsScalar(f) /\ f.type \notin EnumNames(h) /\ f.type \in names
  <2>1. ASSUME NEW i \in 1 .. Len(h.structs)
        PROVE  Held(dict, h.structs[i].name) \cap names # {}
               <=> \E f \in ToSet(h.structs[i].fields) :
                      ~IsScalar(f) /\ f.type \notin EnumNames(h) /\ f.type \in names
    <3>1. \A t : t \in Held(dict, h.structs[i].name) <=> Refers(h, h.structs[i], t)
      BY HeldRead
    <3>2. QED
      BY <3>1 DEF Refers
  <2>2. \A s : s \in ToSet(h.structs) <=> \E i \in 1 .. Len(h.structs) : s = h.structs[i]
    BY <1>1 DEF ToSet, Listed
  <2>3. \A n \in names : \E i \in 1 .. Len(h.structs) : n = h.structs[i].name
    BY <1>1
  <2> DEFINE Inside(n) == Held(dict, n) \cap names # {}
             Names(s) == \E f \in ToSet(s.fields) :
                             ~IsScalar(f) /\ f.type \notin EnumNames(h) /\ f.type \in names
  <2>4. \A i \in 1 .. Len(h.structs) : Inside(h.structs[i].name) <=> Names(h.structs[i])
    BY <2>1
  <2> HIDE DEF Inside, Names
  <2>5. (\A n \in names : Inside(n)) <=> \A s \in ToSet(h.structs) : s.name \in names => Names(s)
    BY <2>2, <2>3, <2>4
  <2>6. QED
    BY <2>5 DEF Inside, Names
<1>3. QED
  BY <1>1, <1>2 DEF HoldsItself, Circular

\* and a string with no prefix.
LEMMA PrefixRead ==
    ASSUME NEW h, NEW known, NEW dict, HeaderRead(h, known, dict), NEW fixed \in BOOLEAN
    PROVE  Misfits(dict, fixed) <=> ~fixed /\ ~PrefixesFit(h)
<1>1. /\ DOMAIN dict = {h.structs[i].name : i \in 1 .. Len(h.structs)}
      /\ Listed(h.structs, Len(h.structs))
      /\ \A i \in 1 .. Len(h.structs) : Listed(h.structs[i].fields, Len(h.structs[i].fields))
  BY HeaderFacts DEF HeaderRead, StructsRead
<1>2. PrefixFits(NoLen)
  <2>1. Values(4) \in Nat /\ Values(4) >= 1
    BY ValuesType
  <2>2. Greatest("uint32_t") = Values(4) - 1
    <3> HIDE DEF Values
    <3>1. "uint32_t" \notin ToSet(Signed) /\ WIRE_TYPE_SIZES["uint32_t"] = 4
      BY DEF Signed, ToSet, WIRE_TYPE_SIZES
    <3>2. QED
      BY <2>1, <3>1 DEF Greatest, Least
  <2>3. QED
    BY <2>1, <2>2 DEF PrefixFits, NoLen
<1>3. ASSUME NEW i \in 1 .. Len(h.structs)
      PROVE  Len(dict[h.structs[i].name]) = Len(h.structs[i].fields)
  BY DEF HeaderRead, StructsRead, FieldsRead
<1>4. ASSUME NEW i \in 1 .. Len(h.structs), NEW k \in 1 .. Len(h.structs[i].fields)
      PROVE  LET f == h.structs[i].fields[k] IN
             Misfit(dict[h.structs[i].name][k], fixed)
             <=> ~fixed /\ f.type \in {"char", "wchar_t"} /\ ~PrefixFits(f.len)
  <2> DEFINE f == h.structs[i].fields[k]  g == dict[h.structs[i].name][k]
  <2>1. g.array_len = f.len /\ g.type = f.type
    BY FieldIsRead DEF IsReadAs
  <2> HIDE DEF f, g
  <2>2. Misfit(g, fixed) <=> ~fixed /\ f.type \in {"char", "wchar_t"} /\ ~PrefixFits(f.len)
    BY <1>2, <2>1 DEF Misfit, field_is_string, IsArray
  <2>3. QED
    BY <2>2 DEF f, g
<1>5. PrefixesFit(h) <=> \A i \in 1 .. Len(h.structs) : \A k \in 1 .. Len(h.structs[i].fields) :
                            LET f == h.structs[i].fields[k]
                            IN  f.type \in {"char", "wchar_t"} => PrefixFits(f.len)
  <2>1. \A s : s \in ToSet(h.structs) <=> \E i \in 1 .. Len(h.structs) : s = h.structs[i]
    BY <1>1 DEF ToSet, Listed
  <2>2. ASSUME NEW i \in 1 .. Len(h.structs)
        PROVE  \A f : f \in ToSet(h.structs[i].fields)
                      <=> \E k \in 1 .. Len(h.structs[i].fields) : f = h.structs[i].fields[k]
    BY <1>1 DEF ToSet, Listed
  <2> DEFINE Fits(f) == f.type \in {"char", "wchar_t"} => PrefixFits(f.len)
  <2>3. PrefixesFit(h) <=> \A s \in ToSet(h.structs) : \A f \in ToSet(s.fields) : Fits(f)
    BY Zenon DEF PrefixesFit
  <2> HIDE DEF Fits
  <2>4. ASSUME PrefixesFit(h), NEW i \in 1 .. Len(h.structs), NEW k \in 1 .. Len(h.structs[i].fields)
        PROVE  Fits(h.structs[i].fields[k])
    <3>1. h.structs[i] \in ToSet(h.structs)
      BY <2>1
    <3>2. h.structs[i].fields[k] \in ToSet(h.structs[i].fields)
      BY <2>2
    <3>3. QED
      BY <2>3, <2>4, <3>1, <3>2
  <2>5. ASSUME \A i \in 1 .. Len(h.structs) : \A k \in 1 .. Len(h.structs[i].fields) :
                  Fits(h.structs[i].fields[k]),
               NEW s \in ToSet(h.structs), NEW f \in ToSet(s.fields)
        PROVE  Fits(f)
    <3>1. PICK i \in 1 .. Len(h.structs) : s = h.structs[i]
      BY <2>1
    <3>2. PICK k \in 1 .. Len(h.structs[i].fields) : f = h.structs[i].fields[k]
      BY <2>2, <3>1
    <3>3. QED
      BY <2>5, <3>2
  <2>6. PrefixesFit(h) <=> \A i \in 1 .. Len(h.structs) : \A k \in 1 .. Len(h.structs[i].fields) :
                              Fits(h.structs[i].fields[k])
    BY <2>3, <2>4, <2>5
  <2>7. QED
    BY <2>6 DEF Fits
<1>6. Misfits(dict, fixed) <=> \E i \in 1 .. Len(h.structs) : \E k \in 1 .. Len(h.structs[i].fields) :
                                  Misfit(dict[h.structs[i].name][k], fixed)
  BY <1>1, <1>3 DEF Misfits
<1>7. QED
  BY <1>4, <1>5, <1>6

\* The sizes of a header that is read are known exactly if it has a meaning.
LEMMA SizesKnownMeans ==
    ASSUME NEW h, NEW known, NEW dict, HeaderRead(h, known, dict), NEW fixed \in BOOLEAN
    PROVE  compute_max_wire_size(dict, fixed) # Error <=> WellFormed(h, fixed)
<1>1. compute_max_wire_size(dict, fixed) = Error <=> HoldsItself(dict) \/ Misfits(dict, fixed)
  BY ReadIsParsed, SizesComputed
<1>2. EnumsWellFormed(h) /\ StructsWellFormed(h)
  BY ReadIsWellFormed
<1>3. HoldsItself(dict) <=> Circular(h)
  BY CircleRead
<1>4. Misfits(dict, fixed) <=> ~fixed /\ ~PrefixesFit(h)
  BY PrefixRead
<1>5. QED
  BY <1>1, <1>2, <1>3, <1>4 DEF WellFormed

-----------------------------------------------------------------------------
(***************************************************************************)
(* Reading enums.                                                          *)
(***************************************************************************)

\* The values of the first n entries, and the next one.
Valued(es, n) ==
    {v \in Int : \E i \in 1 .. n : \E k \in 0 .. i : LastLiteral(es, i, k) /\ v = ValueAfter(es, i, k)}
Bounded(vs) == vs = {} \/ \E lo, hi \in vs : \A v \in vs : lo <= v /\ v <= hi
NextAfter(es, n, next) ==
    next \in Int /\ \E k \in 0 .. n : LastLiteral(es, n, k) /\ next = ValueAfter(es, n + 1, k)
EntriesRead(es, n, next, vs) ==
    /\ n \in 0 .. Len(es)
    /\ \A k \in 1 .. n : es[k].form = None \/ IsLiteral(es[k])
    /\ vs = Valued(es, n) /\ (vs = {} <=> n = 0) /\ Bounded(vs)
    /\ NextAfter(es, n, next)

\* They are all that C gives a value.
LEMMA EnumeratorsAre ==
    ASSUME NEW es, Listed(es, Len(es)), \A k \in 1 .. Len(es) : es[k] \in Literal
    PROVE  Enumerators(es) = Valued(es, Len(es))
<1> DEFINE n == Len(es)
<1>1. n \in Nat
  BY DEF Listed
<1>2. ASSUME NEW i \in 1 .. n, NEW k \in 0 .. i
      PROVE  ValueAfter(es, i, k) \in Int
  <2>1. k # 0 => es[k].value \in Int
    BY <1>1 DEF Literal
  <2>2. QED
    BY <1>1, <2>1 DEF ValueAfter
<1> DEFINE Pairs == {q \in (0 .. n) \X (1 .. n) : q[1] <= q[2] /\ LastLiteral(es, q[2], q[1])}
<1>3. Enumerators(es) = {ValueAfter(es, p[2], p[1]) : p \in Pairs}
  BY DEF Enumerators
<1> HIDE DEF n
<1>4. ASSUME NEW p \in Pairs
      PROVE  ValueAfter(es, p[2], p[1]) \in Valued(es, n)
  <2>1. p[2] \in 1 .. n /\ p[1] \in 0 .. p[2] /\ LastLiteral(es, p[2], p[1])
    BY <1>1
  <2>2. QED
    BY <1>2, <2>1 DEF Valued
<1>5. ASSUME NEW v \in Valued(es, n)
      PROVE  \E p \in Pairs : v = ValueAfter(es, p[2], p[1])
  <2>1. PICK i \in 1 .. n : \E k \in 0 .. i : LastLiteral(es, i, k) /\ v = ValueAfter(es, i, k)
    BY DEF Valued
  <2>2. PICK k \in 0 .. i : LastLiteral(es, i, k) /\ v = ValueAfter(es, i, k)
    BY <2>1
  <2>3. <<k, i>> \in Pairs
    BY <1>1, <2>2
  <2>4. QED
    BY <2>2, <2>3
<1>6. QED
  BY <1>3, <1>4, <1>5 DEF n

\* Every entry gets the value that C gives it.
LEMMA EntryIsRead ==
    ASSUME NEW es, Listed(es, Len(es)), \A k \in 1 .. Len(es) : es[k] \in Literal,
           NEW n, n + 1 \in 1 .. Len(es), NEW next, NEW vs, EntriesRead(es, n, next, vs),
           NEW e, e = es[n + 1], e.form = None \/ IsLiteral(e),
           NEW v, v = IF e.form = None THEN next ELSE e.value
    PROVE  EntriesRead(es, n + 1, v + 1, vs \cup {v})
<1>1. n \in Nat /\ Len(es) \in Nat /\ n + 1 \in Nat
  BY DEF EntriesRead, Listed
<1>2. v \in Int
  BY DEF EntriesRead, NextAfter, Literal
<1>3. PICK k \in 0 .. n : LastLiteral(es, n, k) /\ next = ValueAfter(es, n + 1, k)
  BY DEF EntriesRead, NextAfter
<1>4. PICK m \in 0 .. n + 1 : LastLiteral(es, n + 1, m) /\ v = ValueAfter(es, n + 1, m)
  <2>1. CASE e.form = None
    <3>1. \A j \in k + 1 .. n + 1 : j \in k + 1 .. n \/ j = n + 1
      BY <1>1
    <3>2. LastLiteral(es, n + 1, k)
      BY <1>3, <2>1, <3>1 DEF LastLiteral
    <3>3. k \in 0 .. n + 1
      BY <1>1
    <3>4. QED
      BY <1>3, <2>1, <3>2, <3>3
  <2>2. CASE e.form # None
    <3>1. LastLiteral(es, n + 1, n + 1)
      BY <1>1, <2>2 DEF LastLiteral
    <3>2. ValueAfter(es, n + 1, n + 1) = e.value + ((n + 1) - (n + 1)) /\ e.value \in Int
      BY <1>1 DEF ValueAfter, Literal
    <3>3. n + 1 \in 0 .. n + 1 /\ v = ValueAfter(es, n + 1, n + 1)
      BY <1>1, <2>2, <3>2
    <3>4. QED
      BY <3>1, <3>3
  <2>3. QED
    BY <2>1, <2>2
<1>5. ASSUME NEW p \in 0 .. n + 1, LastLiteral(es, n + 1, p)
      PROVE  p = m
  <2>1. \A a, b \in 0 .. n + 1 :
           a < b /\ LastLiteral(es, n + 1, a) /\ LastLiteral(es, n + 1, b) => FALSE
    BY <1>1 DEF LastLiteral
  <2>2. p < m \/ m < p \/ p = m
    BY <1>1
  <2>3. QED
    BY <1>4, <1>5, <2>1, <2>2
<1>6. Valued(es, n + 1) = Valued(es, n) \cup {v}
  <2>1. \A i \in 1 .. n + 1 : i \in 1 .. n \/ i = n + 1
    BY <1>1
  <2>2. 1 .. n \subseteq 1 .. n + 1 /\ n + 1 \in 1 .. n + 1
    BY <1>1
  <2>3. QED
    BY <1>2, <1>4, <1>5, <2>1, <2>2 DEF Valued
<1>7. Bounded(vs \cup {v})
  <2>1. vs \subseteq Int
    BY DEF EntriesRead, Valued
  <2>2. CASE vs = {}
    BY <1>2, <2>2 DEF Bounded
  <2>3. CASE vs # {}
    <3>1. PICK lo \in vs, hi \in vs : \A x \in vs : lo <= x /\ x <= hi
      BY <2>3 DEF EntriesRead, Bounded
    <3> DEFINE a == IF v < lo THEN v ELSE lo
               b == IF v > hi THEN v ELSE hi
    <3>2. lo \in Int /\ hi \in Int /\ lo <= hi /\ a \in vs \cup {v} /\ b \in vs \cup {v}
      BY <2>1, <3>1
    <3>3. a <= lo /\ a <= v /\ hi <= b /\ v <= b /\ a \in Int /\ b \in Int
      BY <1>2, <3>2
    <3> HIDE DEF a, b
    <3>4. ASSUME NEW x \in vs \cup {v}
          PROVE  a <= x /\ x <= b
      <4>1. CASE x \in vs
        <5>1. x \in Int /\ lo <= x /\ x <= hi
          BY <2>1, <3>1, <4>1
        <5>2. QED
          BY <3>2, <3>3, <5>1
      <4>2. CASE x = v
        BY <3>3, <4>2
      <4>3. QED
        BY <4>1, <4>2
    <3>5. QED
      BY <3>2, <3>4 DEF Bounded
  <2>4. QED
    BY <2>2, <2>3
<1>8. NextAfter(es, n + 1, v + 1)
  <2>1. m # 0 => m \in 1 .. Len(es) /\ es[m].value \in Int
    BY <1>1 DEF Literal
  <2>2. ValueAfter(es, (n + 1) + 1, m) = ValueAfter(es, n + 1, m) + 1
    BY <1>1, <2>1 DEF ValueAfter
  <2>3. QED
    BY <1>2, <1>4, <2>2 DEF NextAfter
<1>9. \A j \in 1 .. n + 1 : es[j].form = None \/ IsLiteral(es[j])
  BY <1>1 DEF EntriesRead
<1>10. QED
  BY <1>1, <1>6, <1>7, <1>8, <1>9 DEF EntriesRead

\* The type chosen for an enum holds all of its values, if any does.
LEMMA TypeHolds ==
    ASSUME NEW vs \in SUBSET Int, vs # {}, Bounded(vs)
    PROVE  LET t == enum_wire_type(Min(vs), Max(vs))
           IN  t \in WireType /\ (InRange(vs) => Holds(t, vs))
<1> DEFINE lo == Min(vs)  hi == Max(vs)
<1>1. lo \in vs /\ \A v \in vs : lo <= v
  <2>1. \E x \in vs : \A y \in vs : x =< y
    BY DEF Bounded
  <2>2. QED
    BY <2>1, Zenon DEF Min
<1>2. hi \in vs /\ \A v \in vs : v <= hi
  <2>1. \E x \in vs : \A y \in vs : x >= y
    BY DEF Bounded
  <2>2. hi \in vs /\ \A y \in vs : hi >= y
    BY <2>1, Zenon DEF Max
  <2>3. QED
    BY <2>2
<1> HIDE DEF lo, hi
<1> DEFINE types == IF lo >= 0 THEN Unsigned ELSE Signed
           t == Narrowest(types, lo, hi)
<1>3. enum_wire_type(lo, hi) = t
  BY DEF enum_wire_type
<1>4. PICK i \in 1 .. 4 : /\ t = types[i] /\ types[i] \in WireType
                          /\ i # 4 => Least(types[i]) <= lo /\ hi <= Greatest(types[i])
  BY NarrowestFacts
<1> HIDE DEF t
<1>5. /\ Least("uint64_t") = 0 /\ Greatest("uint64_t") = Values(8) - 1
      /\ Least("int64_t") = -(Values(8) \div 2)
      /\ Greatest("int64_t") = -(Values(8) \div 2) + Values(8) - 1
      /\ Values(8) \in Nat
  <2>1. Values(8) \in Nat
    BY ValuesType
  <2> HIDE DEF Values
  <2>2. "uint64_t" \notin ToSet(Signed) /\ "int64_t" \in ToSet(Signed)
    BY DEF Signed, ToSet
  <2>3. WIRE_TYPE_SIZES["uint64_t"] = 8 /\ WIRE_TYPE_SIZES["int64_t"] = 8
    BY DEF WIRE_TYPE_SIZES
  <2>4. QED
    BY <2>1, <2>2, <2>3 DEF Least, Greatest
<1>6. ASSUME InRange(vs), i = 4
      PROVE  Least(t) <= lo /\ hi <= Greatest(t)
  <2>0. lo \in Int /\ hi \in Int /\ lo <= hi
    BY <1>1, <1>2
  <2>1. CASE lo >= 0
    <3>1. t = "uint64_t"
      BY <1>4, <1>6, <2>1 DEF Unsigned
    <3>2. hi <= Greatest("uint64_t") \/ hi <= Greatest("int64_t")
      BY <1>2, <1>6 DEF InRange
    <3>3. Greatest("int64_t") <= Greatest("uint64_t")
      BY <1>5
    <3>4. Greatest("uint64_t") \in Int /\ Greatest("int64_t") \in Int
      BY <1>5
    <3>5. QED
      BY <1>5, <2>0, <2>1, <3>1, <3>2, <3>3, <3>4
  <2>2. CASE ~(lo >= 0)
    <3>1. t = "int64_t"
      BY <1>4, <1>6, <2>2 DEF Signed
    <3>2. QED
      BY <1>1, <1>2, <1>6, <2>2, <3>1 DEF InRange
  <2>3. QED
    BY <2>1, <2>2
<1>7. ASSUME InRange(vs)
      PROVE  Holds(t, vs)
  <2>1. Least(t) <= lo /\ hi <= Greatest(t) /\ Least(t) \in Int /\ Greatest(t) \in Int
    BY <1>4, <1>6, <1>7, RangeType
  <2>2. QED
    BY <1>1, <1>2, <2>1 DEF Holds
<1>8. QED
  BY <1>3, <1>4, <1>7 DEF lo, hi

\* An enum is read to its end.
LEMMA EnumIsRead ==
    ASSUME NEW h \in Headers, NEW n, n \in 1 .. Len(h.enums), NEW known, EnumsRead(h, n - 1, known),
           h.enums[n].name \notin DOMAIN known, NEW next, NEW vs,
           EntriesRead(h.enums[n].entries, Len(h.enums[n].entries), next, vs)
    PROVE  EnumsRead(h, n, IF vs = {} THEN known
                           ELSE With(known, h.enums[n].name, enum_wire_type(Min(vs), Max(vs))))
<1> DEFINE es == h.enums[n].entries
           name == h.enums[n].name
           t == enum_wire_type(Min(vs), Max(vs))
           new == IF vs = {} THEN known ELSE With(known, name, t)
<1>1. /\ Len(h.enums) \in Nat /\ Listed(es, Len(es))
      /\ \A k \in 1 .. Len(es) : es[k] \in Literal
  BY HeaderFacts DEF Listed
<1>2. /\ vs = Enumerators(es) /\ (vs = {} <=> es = <<>>) /\ Bounded(vs) /\ vs \subseteq Int
      /\ \A k \in 1 .. Len(es) : es[k].form = None \/ IsLiteral(es[k])
  <2>1. Enumerators(es) = Valued(es, Len(es))
    <3> HIDE DEF es
    <3>1. QED
      BY <1>1, EnumeratorsAre
  <2>2. Valued(es, Len(es)) \subseteq Int
    BY DEF Valued
  <2>3. QED
    BY <1>1, <2>1, <2>2 DEF EntriesRead, Listed
<1>3. vs # {} => EnumTyped(t, es)
  BY <1>2, TypeHolds DEF EnumTyped
<1>4. \A i \in 1 .. n : i \in 1 .. n - 1 \/ i = n
  BY <1>1
<1>5. n \in 1 .. n /\ 1 .. n - 1 \subseteq 1 .. n /\ \A i \in 1 .. n - 1 : i < n /\ ~(n < i)
  BY <1>1
<1> HIDE DEF es, t
<1>6. \A i, j \in 1 .. n : i < j /\ h.enums[i].entries # <<>> => h.enums[i].name # h.enums[j].name
  <2>1. \A i \in 1 .. n - 1 : h.enums[i].entries # <<>> => h.enums[i].name # name
    BY DEF EnumsRead
  <2>2. QED
    BY <1>4, <1>5, <2>1 DEF EnumsRead
<1>7. \A i \in 1 .. n : \A k \in 1 .. Len(h.enums[i].entries) :
         h.enums[i].entries[k].form = None \/ IsLiteral(h.enums[i].entries[k])
  BY <1>2, <1>4 DEF EnumsRead, es
<1>8. DOMAIN new = {h.enums[i].name : i \in {j \in 1 .. n : h.enums[j].entries # <<>>}}
  <2>1. DOMAIN known = {h.enums[i].name : i \in {j \in 1 .. n - 1 : h.enums[j].entries # <<>>}}
    BY DEF EnumsRead
  <2>2. DOMAIN new = IF es = <<>> THEN DOMAIN known ELSE DOMAIN known \cup {name}
    BY <1>2 DEF With
  <2>3. QED
    BY <1>4, <1>5, <2>1, <2>2 DEF es
<1>9. ASSUME NEW i \in 1 .. n, h.enums[i].entries # <<>>
      PROVE  EnumTyped(new[h.enums[i].name], h.enums[i].entries)
  <2>1. CASE i = n
    <3>1. vs # {} /\ new[name] = t
      BY <1>2, <1>9, <2>1 DEF With, es
    <3>2. QED
      BY <1>3, <2>1, <3>1 DEF es
  <2>2. CASE i \in 1 .. n - 1
    <3>1. h.enums[i].name \in DOMAIN known /\ EnumTyped(known[h.enums[i].name], h.enums[i].entries)
      BY <1>9, <2>2 DEF EnumsRead
    <3>2. new[h.enums[i].name] = known[h.enums[i].name]
      BY <3>1 DEF With
    <3>3. QED
      BY <3>1, <3>2
  <2>3. QED
    BY <1>4, <2>1, <2>2
<1> HIDE DEF new
<1>10. EnumsRead(h, n, new)
  BY <1>6, <1>7, <1>8, <1>9 DEF EnumsRead
<1>11. QED
  BY <1>10 DEF new, t

-----------------------------------------------------------------------------
(***************************************************************************)
(* Reading structs.                                                        *)
(***************************************************************************)

\* A field with a type is read.
LEMMA FieldReadNext ==
    ASSUME NEW h \in Headers, NEW known, EnumsRead(h, Len(h.enums), known),
           NEW i \in 1 .. Len(h.structs), NEW n, n + 1 \in 1 .. Len(h.structs[i].fields), n \in Nat,
           NEW out, FieldsRead(h, known, h.structs[i].fields, n, out),
           NEW f, f = h.structs[i].fields[n + 1], ~BadField(f), TypeOf(h, known, f) # None
    PROVE  FieldsRead(h, known, h.structs[i].fields, n + 1, Append(out, FieldRead(h, known, f)))
<1> DEFINE fs == h.structs[i].fields
           g == FieldRead(h, known, f)
           new == Append(out, g)
<1>1. f \in FieldText
  BY HeaderFacts
<1>2. f.len \in Nat \cup {NoLen}
  BY <1>1 DEF BadField, FieldText
<1>3. f.type \in DOMAIN known => known[f.type] \in WireType
  BY KnownTypes
<1>4. TypeOf(h, known, f) \in WireType \cup StructNames(h)
  BY <1>3, ScalarFacts DEF TypeOf, IsScalar
<1>5. GoodField(h, known, f)
  BY DEF TypeOf, GoodField
<1>6. g \in FieldRecord(StructNames(h))
  BY <1>1, <1>2, <1>4 DEF FieldRead, FieldRecord, FieldText
<1>7. out \in Seq(FieldRecord(StructNames(h))) /\ Len(out) = n
  BY DEF FieldsRead
<1> HIDE DEF g
<1>8. /\ new \in Seq(FieldRecord(StructNames(h))) /\ Len(new) = n + 1
      /\ new[n + 1] = g /\ \A k \in 1 .. n : new[k] = out[k]
  BY <1>6, <1>7
<1>9. \A k \in 1 .. n + 1 : k \in 1 .. n \/ k = n + 1
  OBVIOUS
<1> HIDE DEF new
<1>10. \A k \in 1 .. n + 1 : GoodField(h, known, fs[k]) /\ new[k] = FieldRead(h, known, fs[k])
  BY <1>5, <1>8, <1>9 DEF FieldsRead, g
<1>11. QED
  BY <1>8, <1>10 DEF FieldsRead, new, g

\* A struct is read to its end.
LEMMA StructIsRead ==
    ASSUME NEW h \in Headers, NEW n, n \in 1 .. Len(h.structs), NEW known, NEW dict,
           StructsRead(h, n - 1, known, dict),
           h.structs[n].name \notin DOMAIN dict, NEW out,
           FieldsRead(h, known, h.structs[n].fields, Len(h.structs[n].fields), out),
           Distinct(h.structs[n].fields, Len(h.structs[n].fields))
    PROVE  StructsRead(h, n, known, With(dict, h.structs[n].name, out))
<1> DEFINE name == h.structs[n].name
           new == With(dict, name, out)
           Read(i, d) == LET s == h.structs[i] IN
                         /\ Distinct(s.fields, Len(s.fields))
                         /\ FieldsRead(h, known, s.fields, Len(s.fields), d[s.name])
<1>1. Len(h.structs) \in Nat
  BY HeaderFacts DEF Listed
<1>2. /\ \A i \in 1 .. n : i \in 1 .. n - 1 \/ i = n
      /\ n \in 1 .. n /\ 1 .. n - 1 \subseteq 1 .. n /\ n \notin 1 .. n - 1
  BY <1>1
<1>3. /\ Distinct(h.structs, n - 1)
      /\ DOMAIN dict = {h.structs[i].name : i \in 1 .. n - 1}
      /\ \A i \in 1 .. n - 1 : Read(i, dict)
  BY DEF StructsRead
<1>4. DOMAIN new = DOMAIN dict \cup {name} /\ new[name] = out
      /\ \A m \in DOMAIN dict : new[m] = dict[m]
  BY DEF With
<1> HIDE DEF new
<1>5. Distinct(h.structs, n)
  BY <1>2, <1>3 DEF Distinct
<1>6. DOMAIN new = {h.structs[i].name : i \in 1 .. n}
  BY <1>2, <1>3, <1>4
<1>7. ASSUME NEW i \in 1 .. n
      PROVE  Read(i, new)
  <2>1. CASE i = n
    BY <1>4, <2>1
  <2>2. CASE i \in 1 .. n - 1
    <3>1. h.structs[i].name \in DOMAIN dict
      BY <1>3, <2>2
    <3>2. new[h.structs[i].name] = dict[h.structs[i].name]
      BY <1>4, <3>1
    <3>3. QED
      BY <1>3, <2>2, <3>2
  <2>3. QED
    BY <1>2, <2>1, <2>2
<1>8. QED
  BY <1>5, <1>6, <1>7 DEF StructsRead, new

-----------------------------------------------------------------------------
(***************************************************************************)
(* What is refused.                                                        *)
(***************************************************************************)

\* An enum is refused for its name or for a literal only.
LEMMA RefusedEnum ==
    ASSUME NEW h \in Headers, NEW n \in 1 .. Len(h.enums), NEW known, EnumsRead(h, n - 1, known),
           \/ h.enums[n].name \in DOMAIN known
           \/ \E k \in 1 .. Len(h.enums[n].entries) :
                 h.enums[n].entries[k].form # None /\ ~IsLiteral(h.enums[n].entries[k])
    PROVE  \A fixed : ~WellFormed(h, fixed)
<1>1. /\ Listed(h.enums, Len(h.enums))
      /\ Listed(h.enums[n].entries, Len(h.enums[n].entries))
  BY HeaderFacts
<1>2. CASE h.enums[n].name \in DOMAIN known
  <2>1. PICK i \in 1 .. n - 1 : h.enums[i].entries # <<>> /\ h.enums[i].name = h.enums[n].name
    BY <1>2 DEF EnumsRead
  <2>2. i \in DOMAIN h.enums /\ n \in DOMAIN h.enums /\ i < n
    BY <1>1 DEF Listed
  <2>3. QED
    BY <2>1, <2>2 DEF WellFormed, EnumsWellFormed
<1>3. CASE \E k \in 1 .. Len(h.enums[n].entries) :
              h.enums[n].entries[k].form # None /\ ~IsLiteral(h.enums[n].entries[k])
  <2>1. PICK k \in 1 .. Len(h.enums[n].entries) :
              h.enums[n].entries[k].form # None /\ ~IsLiteral(h.enums[n].entries[k])
    BY <1>3
  <2>2. n \in DOMAIN h.enums /\ h.enums[n].entries[k] \in ToSet(h.enums[n].entries)
    BY <1>1 DEF Listed, ToSet
  <2>3. QED
    BY <2>1, <2>2 DEF WellFormed, EnumsWellFormed
<1>4. QED
  BY <1>2, <1>3

\* A struct is refused for its name or one of its fields only.
LEMMA RefusedStruct ==
    ASSUME NEW h \in Headers, NEW known, EnumsRead(h, Len(h.enums), known),
           NEW n \in 1 .. Len(h.structs), NEW dict, StructsRead(h, n - 1, known, dict),
           \/ h.structs[n].name \in DOMAIN dict
           \/ ~Distinct(h.structs[n].fields, Len(h.structs[n].fields))
           \/ \E k \in 1 .. Len(h.structs[n].fields) :
                 BadField(h.structs[n].fields[k]) \/ TypeOf(h, known, h.structs[n].fields[k]) = None
    PROVE  \A fixed : ~WellFormed(h, fixed)
<1> DEFINE s == h.structs[n]
<1>1. /\ Listed(h.structs, Len(h.structs)) /\ Listed(s.fields, Len(s.fields))
      /\ Listed(h.enums, Len(h.enums))
  BY HeaderFacts
<1>2. n \in DOMAIN h.structs /\ s \in ToSet(h.structs)
  BY <1>1 DEF Listed, ToSet
<1> SUFFICES ASSUME StructsWellFormed(h)
             PROVE  FALSE
  BY DEF WellFormed
<1>3. CASE s.name \in DOMAIN dict
  <2>1. PICK i \in 1 .. n - 1 : h.structs[i].name = s.name
    BY <1>3 DEF StructsRead
  <2>2. i \in DOMAIN h.structs /\ i # n
    BY <1>1 DEF Listed
  <2>3. QED
    BY <1>2, <2>1, <2>2 DEF StructsWellFormed
<1>4. CASE ~Distinct(s.fields, Len(s.fields))
  <2> HIDE DEF s
  <2>1. PICK k \in DOMAIN s.fields : \E l \in DOMAIN s.fields :
              k # l /\ s.fields[k].name = s.fields[l].name
    BY <1>1, <1>4 DEF Distinct, Listed
  <2>2. QED
    BY <1>2, <2>1 DEF StructsWellFormed
<1>5. CASE \E k \in 1 .. Len(s.fields) : BadField(s.fields[k]) \/ TypeOf(h, known, s.fields[k]) = None
  <2>1. PICK k \in 1 .. Len(s.fields) : BadField(s.fields[k]) \/ TypeOf(h, known, s.fields[k]) = None
    BY <1>5
  <2> DEFINE f == s.fields[k]
  <2>2. f \in ToSet(s.fields)
    BY <1>1 DEF Listed, ToSet
  <2>3. DOMAIN known = EnumNames(h)
    BY <1>1 DEF EnumsRead, EnumNames, Listed
  <2>4. f.type \in DOMAIN known => known[f.type] \in WireType
    BY KnownTypes
  <2>5. None \notin StructNames(h)
    BY <1>1, HeaderFacts DEF StructNames, Listed
  <2> HIDE DEF s, f
  <2>6. ~BadField(f) /\ (IsScalar(f) \/ f.type \in EnumNames(h) \cup StructNames(h))
    BY <1>2, <2>2 DEF StructsWellFormed
  <2>7. TypeOf(h, known, f) # None
    BY <2>3, <2>4, <2>5, <2>6, ScalarFacts DEF TypeOf, IsScalar
  <2>8. QED
    BY <2>1, <2>6, <2>7 DEF f
<1>6. QED
  BY <1>3, <1>4, <1>5

-----------------------------------------------------------------------------
(***************************************************************************)
(* What has been read, in every phase of a run.                            *)
(***************************************************************************)

AtEnum ==
    /\ item \in 1 .. Len(text.enums) + 1 /\ at \in Nat
    /\ EnumsRead(text, item - 1, known_enums) /\ structs = EmptyDict
    /\ at > 0 => /\ item <= Len(text.enums)
                 /\ text.enums[item].name \notin DOMAIN known_enums
                 /\ EntriesRead(text.enums[item].entries, at - 1, current, values)
AtStruct ==
    /\ EnumsRead(text, Len(text.enums), known_enums)
    /\ item \in 1 .. Len(text.structs) + 1 /\ at \in Nat
    /\ StructsRead(text, item - 1, known_enums, structs)
    /\ at > 0 => /\ item <= Len(text.structs) /\ at - 1 <= Len(text.structs[item].fields)
                 /\ text.structs[item].name \notin DOMAIN structs
                 /\ FieldsRead(text, known_enums, text.structs[item].fields, at - 1, fields)

ReadInv ==
    /\ header \in Headers /\ text \in Headers /\ fixed_mode \in BOOLEAN
    /\ phase = "enums" => AtEnum
    /\ phase = "structs" => AtStruct
    /\ phase \in {"open", "write", "ok"} => HeaderRead(text, known_enums, structs)
    /\ phase \in {"open", "write"} => outs = Outputs \/ SizesKnown
    /\ phase = "ok" => SizesKnown
    /\ phase = "error" => ~WellFormed(text, fixed_mode)
    /\ OutputsSound

\* A step that reads: it goes on, or refuses the header.
LEMMA GoesOn ==
    ASSUME ReadInv, Parsing,
           \/ phase' = "enums" /\ AtEnum'
           \/ phase' = "structs" /\ AtStruct'
           \/ phase' = "error" /\ ~WellFormed(text, fixed_mode)
    PROVE  ReadInv'
<1>1. UNCHANGED <<header, text, fixed_mode, files>>
  BY DEF Parsing, run
<1>2. OutputsSound'
  BY <1>1 DEF ReadInv, OutputsSound
<1>3. QED
  BY <1>1, <1>2 DEF ReadInv

\* A run begins.
LEMMA StartReads ==
    ASSUME ReadInv, RunByHand \/ RunByBuild
    PROVE  ReadInv'
<1>1. /\ phase' \in {"enums", "io error"} /\ text' = header /\ header' = header /\ files' = files
      /\ fixed_mode' \in BOOLEAN
      /\ item' = 1 /\ at' = 0 /\ known_enums' = EmptyDict /\ structs' = EmptyDict
  BY DEF RunByHand, RunByBuild, Start
<1>2. header \in Headers /\ Len(header.enums) \in Nat
  BY HeaderFacts DEF ReadInv, Listed
<1>3. EnumsRead(header, 0, EmptyDict)
  BY DEF EnumsRead, EmptyDict
<1>4. AtEnum'
  <2>1. text' = header /\ item' = 1 /\ at' = 0 /\ known_enums' = EmptyDict /\ structs' = EmptyDict
    BY <1>1
  <2>2. text'.enums = header.enums
    BY <2>1
  <2>3. item' \in 1 .. Len(text'.enums) + 1 /\ at' \in Nat /\ ~(at' > 0) /\ item' - 1 = 0
    BY <1>2, <2>1, <2>2
  <2>4. EnumsRead(text', item' - 1, known_enums')
    BY <1>3, <2>1, <2>3
  <2>5. QED
    BY <2>1, <2>3, <2>4 DEF AtEnum
<1>5. OutputsSound'
  BY <1>1 DEF ReadInv, OutputsSound
<1>6. QED
  BY <1>1, <1>2, <1>4, <1>5 DEF ReadInv

\* Enums are read entry by entry.
LEMMA EnumSteps ==
    ASSUME ReadInv, OpenEnum \/ EnumEntry \/ CloseEnum \/ EnumsParsed
    PROVE  ReadInv'
<1> DEFINE n == Len(text.enums)
           e == text.enums[item]
<1>1. /\ Parsing /\ UNCHANGED <<text, fixed_mode>> /\ text \in Headers
      /\ phase = "enums" /\ AtEnum
  BY DEF OpenEnum, EnumEntry, CloseEnum, EnumsParsed, Parsing, run, ReadInv
<1>2. /\ n \in Nat /\ Listed(text.enums, n)
      /\ \A i \in 1 .. n :
            /\ Listed(text.enums[i].entries, Len(text.enums[i].entries))
            /\ \A k \in 1 .. Len(text.enums[i].entries) : text.enums[i].entries[k] \in Literal
  BY <1>1, HeaderFacts DEF Listed
<1>3. item \in 1 .. n + 1 /\ at \in Nat /\ EnumsRead(text, item - 1, known_enums) /\ structs = EmptyDict
  BY <1>1 DEF AtEnum
<1>4. CASE OpenEnum
  <2>1. item \in 1 .. n /\ at = 0
    BY <1>2, <1>3, <1>4 DEF OpenEnum
  <2>2. CASE e.name \in DOMAIN known_enums /\ Fails
    <3>1. ~WellFormed(text, fixed_mode)
      BY <1>1, <1>3, <2>1, <2>2, RefusedEnum
    <3>2. QED
      BY <1>1, <2>2, <3>1, GoesOn DEF Fails
  <2>3. CASE /\ e.name \notin DOMAIN known_enums
             /\ at' = 1 /\ current' = 0 /\ values' = {}
             /\ UNCHANGED <<phase, item, known_enums, struct_vars>>
    <3>1. EntriesRead(e.entries, 0, 0, {})
      <4>1. Len(e.entries) \in Nat
        BY <1>2, <2>1 DEF Listed
      <4>2. Valued(e.entries, 0) = {}
        BY DEF Valued
      <4>3. NextAfter(e.entries, 0, 0)
        BY DEF NextAfter, LastLiteral, ValueAfter
      <4>4. QED
        BY <4>1, <4>2, <4>3 DEF EntriesRead, Bounded
    <3>2. AtEnum'
      BY <1>1, <1>3, <2>1, <2>3, <3>1 DEF AtEnum, struct_vars
    <3>3. QED
      BY <1>1, <2>3, <3>2, GoesOn
  <2>4. QED
    BY <1>4, <2>2, <2>3 DEF OpenEnum
<1>5. CASE EnumEntry
  <2> DEFINE es == e.entries
             x == es[at]
             v == IF x.form = None THEN current ELSE x.value
  <2>1. /\ at \in 1 .. Len(es) /\ item \in 1 .. n /\ e.name \notin DOMAIN known_enums
        /\ EntriesRead(es, at - 1, current, values)
    <3>1. at > 0 /\ at <= Len(text.enums[item].entries)
      BY <1>5 DEF EnumEntry
    <3>2. /\ item <= Len(text.enums) /\ text.enums[item].name \notin DOMAIN known_enums
          /\ EntriesRead(text.enums[item].entries, at - 1, current, values)
      BY <1>1, <3>1 DEF AtEnum
    <3>3. item \in 1 .. n
      BY <1>2, <1>3, <3>2
    <3>4. Len(es) \in Nat
      BY <1>2, <3>3 DEF Listed
    <3>5. QED
      BY <1>3, <3>1, <3>2, <3>3, <3>4
  <2>2. Listed(es, Len(es)) /\ \A k \in 1 .. Len(es) : es[k] \in Literal
    BY <1>2, <2>1
  <2>3. CASE x.form # None /\ ~IsLiteral(x) /\ Fails
    <3>1. ~WellFormed(text, fixed_mode)
      BY <1>1, <1>3, <2>1, <2>3, RefusedEnum
    <3>2. QED
      BY <1>1, <2>3, <3>1, GoesOn DEF Fails
  <2>4. CASE /\ x.form = None \/ IsLiteral(x)
             /\ values' = values \cup {v} /\ current' = v + 1
             /\ at' = at + 1
             /\ UNCHANGED <<phase, item, known_enums, struct_vars>>
    <3>1. EntriesRead(es, at, v + 1, values \cup {v})
      <4>1. at - 1 + 1 = at
        BY <2>1
      <4> HIDE DEF es
      <4>2. EntriesRead(es, at - 1 + 1, v + 1, values \cup {v})
        BY <2>1, <2>2, <2>4, <4>1, EntryIsRead
      <4>3. QED
        BY <4>1, <4>2
    <3>2. (at + 1) - 1 = at /\ at + 1 \in Nat /\ at + 1 > 0
      BY <2>1
    <3> HIDE DEF v, x
    <3>3. AtEnum'
      BY <1>1, <1>3, <2>1, <2>4, <3>1, <3>2 DEF AtEnum, struct_vars
    <3>4. QED
      BY <1>1, <2>4, <3>3, GoesOn
  <2>5. QED
    BY <1>5, <2>3, <2>4 DEF EnumEntry
<1>6. CASE CloseEnum
  <2> DEFINE new == IF values = {} THEN known_enums
                    ELSE With(known_enums, e.name, enum_wire_type(Min(values), Max(values)))
  <2>1. /\ item \in 1 .. n /\ e.name \notin DOMAIN known_enums /\ at = Len(e.entries) + 1
        /\ EntriesRead(e.entries, at - 1, current, values)
        /\ item' = item + 1 /\ at' = 0 /\ known_enums' = new
        /\ UNCHANGED <<phase, structs>>
    BY <1>1, <1>3, <1>6 DEF CloseEnum, AtEnum, struct_vars
  <2>2. at - 1 = Len(e.entries)
    BY <1>2, <2>1 DEF Listed
  <2>3. EnumsRead(text, item, new)
    BY <1>1, <1>3, <2>1, <2>2, EnumIsRead
  <2>4. item + 1 \in 1 .. n + 1 /\ (item + 1) - 1 = item
    BY <1>2, <2>1
  <2> HIDE DEF new
  <2>5. AtEnum'
    BY <1>1, <1>3, <2>1, <2>3, <2>4 DEF AtEnum
  <2>6. QED
    BY <1>1, <2>1, <2>5, GoesOn
<1>7. CASE EnumsParsed
  <2>1. /\ item = n + 1 /\ phase' = "structs" /\ item' = 1
        /\ UNCHANGED <<at, known_enums, structs>>
    BY <1>7 DEF EnumsParsed, struct_vars, enum_vars
  <2>2. at = 0
    BY <1>1, <1>2, <1>3, <2>1 DEF AtEnum
  <2>3. item - 1 = n
    BY <1>2, <2>1
  <2>4. StructsRead(text, 0, known_enums, EmptyDict)
    BY DEF StructsRead, Distinct, EmptyDict
  <2>5. Len(text.structs) \in Nat
    BY <1>1, HeaderFacts DEF Listed
  <2>6. AtStruct'
    BY <1>1, <1>3, <2>1, <2>2, <2>3, <2>4, <2>5 DEF AtStruct
  <2>7. QED
    BY <1>1, <2>1, <2>6, GoesOn
<1>8. QED
  BY <1>4, <1>5, <1>6, <1>7

\* Structs are read field by field.
LEMMA StructSteps ==
    ASSUME ReadInv, OpenStruct \/ StructField \/ CloseStruct
    PROVE  ReadInv'
<1> DEFINE n == Len(text.structs)
           s == text.structs[item]
<1>1. /\ Parsing /\ UNCHANGED <<text, fixed_mode>> /\ text \in Headers
      /\ phase = "structs" /\ AtStruct
  BY DEF OpenStruct, StructField, CloseStruct, Parsing, run, ReadInv
<1>2. /\ n \in Nat /\ Listed(text.structs, n)
      /\ \A i \in 1 .. n : Listed(text.structs[i].fields, Len(text.structs[i].fields))
  BY <1>1, HeaderFacts DEF Listed
<1>3. /\ item \in 1 .. n + 1 /\ at \in Nat
      /\ EnumsRead(text, Len(text.enums), known_enums)
      /\ StructsRead(text, item - 1, known_enums, structs)
  BY <1>1 DEF AtStruct
<1>4. CASE OpenStruct
  <2>1. item \in 1 .. n /\ at = 0
    BY <1>2, <1>3, <1>4 DEF OpenStruct
  <2>2. CASE s.name \in DOMAIN structs /\ Fails
    <3>1. ~WellFormed(text, fixed_mode)
      BY <1>1, <1>3, <2>1, <2>2, RefusedStruct
    <3>2. QED
      BY <1>1, <2>2, <3>1, GoesOn DEF Fails
  <2>3. CASE /\ s.name \notin DOMAIN structs
             /\ at' = 1 /\ fields' = <<>>
             /\ UNCHANGED <<phase, item, enum_vars, structs>>
    <3>1. FieldsRead(text, known_enums, s.fields, 0, <<>>)
      BY DEF FieldsRead
    <3>2. Len(s.fields) \in Nat
      BY <1>2, <2>1 DEF Listed
    <3>3. AtStruct'
      BY <1>1, <1>3, <2>1, <2>3, <3>1, <3>2 DEF AtStruct, enum_vars
    <3>4. QED
      BY <1>1, <2>3, <3>3, GoesOn
  <2>4. QED
    BY <1>4, <2>2, <2>3 DEF OpenStruct
<1>5. CASE StructField
  <2> DEFINE f == s.fields[at]
  <2>1. /\ at \in 1 .. Len(s.fields) /\ item \in 1 .. n /\ s.name \notin DOMAIN structs
        /\ FieldsRead(text, known_enums, s.fields, at - 1, fields)
    BY <1>1, <1>3, <1>5 DEF StructField, AtStruct
  <2>2. resolve_type(f) = TypeOf(text, known_enums, f)
    BY DEF resolve_type, TypeOf, IsScalar, all_struct_names, StructNames
  <2>3. CASE (BadField(f) \/ resolve_type(f) = None) /\ Fails
    <3>1. ~WellFormed(text, fixed_mode)
      BY <1>1, <1>3, <2>1, <2>2, <2>3, RefusedStruct
    <3>2. QED
      BY <1>1, <2>3, <3>1, GoesOn DEF Fails
  <2>4. CASE /\ ~BadField(f) /\ resolve_type(f) # None
             /\ fields' = Append(fields, FieldRead(text, known_enums, f))
             /\ at' = at + 1
             /\ UNCHANGED <<phase, item, enum_vars, structs>>
    <3>1. FieldsRead(text, known_enums, s.fields, at, fields')
      <4>1. at - 1 + 1 = at /\ at - 1 \in Nat
        BY <2>1
      <4>2. FieldsRead(text, known_enums, s.fields, at - 1 + 1, fields')
        BY <1>1, <1>3, <2>1, <2>2, <2>4, <4>1, FieldReadNext
      <4>3. QED
        BY <4>1, <4>2
    <3>2. (at + 1) - 1 = at /\ at + 1 \in Nat /\ at + 1 > 0 /\ at <= Len(s.fields)
      BY <2>1
    <3> HIDE DEF f
    <3>3. AtStruct'
      BY <1>1, <1>3, <2>1, <2>4, <3>1, <3>2 DEF AtStruct, enum_vars
    <3>4. QED
      BY <1>1, <2>4, <3>3, GoesOn
  <2>5. QED
    BY <1>5, <2>2, <2>3, <2>4 DEF StructField, FieldRead
<1>6. CASE CloseStruct
  <2>1. /\ item \in 1 .. n /\ s.name \notin DOMAIN structs /\ at = Len(s.fields) + 1
        /\ FieldsRead(text, known_enums, s.fields, at - 1, fields)
    BY <1>1, <1>3, <1>6 DEF CloseStruct, AtStruct
  <2>2. at - 1 = Len(s.fields)
    BY <1>2, <2>1 DEF Listed
  <2>3. Repeats(fields) <=> ~Distinct(s.fields, Len(s.fields))
    <3>1. /\ DOMAIN fields = 1 .. Len(s.fields)
          /\ \A k \in 1 .. Len(s.fields) : fields[k].name = s.fields[k].name
      <4> HIDE DEF s
      <4>1. FieldsRead(text, known_enums, s.fields, Len(s.fields), fields)
        BY <2>1, <2>2
      <4>2. fields \in Seq(FieldRecord(StructNames(text))) /\ Len(fields) = Len(s.fields)
        BY <4>1 DEF FieldsRead
      <4>3. ASSUME NEW k \in 1 .. Len(s.fields)
            PROVE  fields[k].name = s.fields[k].name
        <5>1. fields[k] = FieldRead(text, known_enums, s.fields[k])
          BY <4>1 DEF FieldsRead
        <5>2. QED
          BY <5>1 DEF FieldRead
      <4>4. QED
        BY <4>2, <4>3
    <3>2. QED
      BY <3>1 DEF Repeats, Distinct
  <2>4. CASE Repeats(fields) /\ Fails
    <3>1. ~WellFormed(text, fixed_mode)
      BY <1>1, <1>3, <2>1, <2>3, <2>4, RefusedStruct
    <3>2. QED
      BY <1>1, <2>4, <3>1, GoesOn DEF Fails
  <2>5. CASE /\ ~Repeats(fields)
             /\ structs' = With(structs, s.name, fields)
             /\ item' = item + 1 /\ at' = 0
             /\ UNCHANGED <<phase, enum_vars, fields>>
    <3>1. StructsRead(text, item, known_enums, structs')
      BY <1>1, <1>3, <2>1, <2>2, <2>3, <2>5, StructIsRead
    <3>2. item + 1 \in 1 .. n + 1 /\ (item + 1) - 1 = item
      BY <1>2, <2>1
    <3>3. AtStruct'
      BY <1>1, <1>3, <2>5, <3>1, <3>2 DEF AtStruct, enum_vars
    <3>4. QED
      BY <1>1, <2>5, <3>3, GoesOn
  <2>6. QED
    BY <1>6, <2>4, <2>5 DEF CloseStruct
<1>7. QED
  BY <1>4, <1>5, <1>6

\* All structs are read.
LEMMA ParsedReads ==
    ASSUME ReadInv, StructsParsed
    PROVE  ReadInv'
<1>1. /\ UNCHANGED <<header, text, fixed_mode>> /\ phase = "structs" /\ AtStruct
      /\ text \in Headers /\ item = Len(text.structs) + 1 /\ UNCHANGED Outputs
  BY DEF StructsParsed, run, ReadInv, Outputs, PathOf
<1>2. Len(text.structs) \in Nat /\ (text.structs = <<>> <=> Len(text.structs) = 0)
  BY <1>1, HeaderFacts DEF Listed
<1>3. item - 1 = Len(text.structs)
  BY <1>1, <1>2
<1>4. StructsRead(text, Len(text.structs), known_enums, structs)
  BY <1>1, <1>3 DEF AtStruct
<1>5. CASE DOMAIN structs = {} /\ Fails
  <2>1. Len(text.structs) = 0
    <3>1. DOMAIN structs = {text.structs[i].name : i \in 1 .. Len(text.structs)}
      BY <1>4 DEF StructsRead
    <3>2. 1 \notin 1 .. Len(text.structs)
      BY <1>5, <3>1
    <3>3. QED
      BY <1>2, <3>2
  <2>2. ~WellFormed(text, fixed_mode)
    BY <1>2, <2>1 DEF WellFormed, StructsWellFormed
  <2>3. phase' = "error" /\ UNCHANGED files
    BY <1>5 DEF Fails
  <2>4. OutputsSound'
    BY <2>3 DEF ReadInv, OutputsSound
  <2>5. QED
    BY <1>1, <2>2, <2>3, <2>4 DEF ReadInv
<1>6. CASE /\ DOMAIN structs # {} /\ phase' = "open" /\ outs' = Outputs
           /\ UNCHANGED <<parser, files>>
  <2>1. HeaderRead(text, known_enums, structs)
    BY <1>1, <1>4, <1>6 DEF HeaderRead, AtStruct
  <2>2. UNCHANGED <<known_enums, structs>>
    BY <1>6 DEF parser, enum_vars, struct_vars
  <2>3. OutputsSound'
    BY <1>6 DEF ReadInv, OutputsSound
  <2>4. QED
    BY <1>1, <1>6, <2>1, <2>2, <2>3 DEF ReadInv
<1>7. QED
  BY <1>5, <1>6 DEF StructsParsed

\* The outputs are made of a header with a meaning, or the first is not made.
LEMMA OutputSteps ==
    ASSUME ReadInv, Inv, OpenOutput \/ WriteOutput \/ Exit
    PROVE  ReadInv'
<1>1. /\ UNCHANGED <<header, text, fixed_mode, known_enums, structs>>
      /\ text \in Headers /\ fixed_mode \in BOOLEAN
      /\ HeaderRead(text, known_enums, structs) /\ UNCHANGED Outputs /\ UNCHANGED SizesKnown
      /\ outs = Outputs \/ SizesKnown
      /\ header \in Headers /\ OutputsSound
  <2>1. UNCHANGED <<header, text, fixed_mode, known_enums, structs, tool, here,
                     gen_buffers>>
    BY DEF OpenOutput, WriteOutput, Exit, Fails, run, parser, enum_vars, struct_vars
  <2>2. phase \in {"open", "write"}
    BY DEF OpenOutput, WriteOutput, Exit
  <2>3. UNCHANGED Outputs /\ UNCHANGED SizesKnown
    BY <2>1 DEF Outputs, PathOf, SizesKnown
  <2>4. QED
    BY <2>1, <2>2, <2>3 DEF ReadInv
<1>2. SizesKnown <=> WellFormed(text, fixed_mode)
  BY <1>1, SizesKnownMeans DEF SizesKnown
<1>3. DOMAIN files = Files
  BY DEF Inv
<1>4. CASE OpenOutput
  <2>1. /\ outs' = outs
        /\ \/ phase' = "write" /\ files' = [files EXCEPT ![Head(outs)] = NoFile]
           \/ phase' = "io error" /\ files' = files
    BY <1>4 DEF OpenOutput
  <2>2. OutputsSound'
    BY <1>1, <1>3, <2>1 DEF OutputsSound
  <2>3. QED
    BY <1>1, <2>1, <2>2 DEF ReadInv
<1>5. CASE WriteOutput
  <2>1. CASE ~SizesKnown /\ Fails
    <3>1. phase' = "error" /\ files' = files
      BY <2>1 DEF Fails
    <3>2. OutputsSound'
      BY <1>1, <3>1 DEF OutputsSound
    <3>3. QED
      BY <1>1, <1>2, <2>1, <3>1, <3>2 DEF ReadInv
  <2>2. CASE phase' = "io error" /\ files' = files
    <3>1. OutputsSound'
      BY <1>1, <2>2 DEF OutputsSound
    <3>2. QED
      BY <1>1, <2>2, <3>1 DEF ReadInv
  <2>3. CASE /\ outs = Outputs => SizesKnown
             /\ files' = [files EXCEPT ![Head(outs)] = <<text, fixed_mode>>]
             /\ outs' = Tail(outs) /\ phase' = "open"
    <3>1. SizesKnown
      BY <1>1, <2>3
    <3>2. OutputsSound'
      BY <1>1, <1>2, <1>3, <2>3, <3>1 DEF OutputsSound
    <3>3. QED
      BY <1>1, <2>3, <3>1, <3>2 DEF ReadInv
  <2>4. QED
    BY <1>5, <2>1, <2>2, <2>3 DEF WriteOutput
<1>6. CASE Exit
  <2>1. outs = <<>> /\ phase' = "ok" /\ files' = files
    BY <1>6 DEF Exit
  <2>2. SizesKnown
    BY <1>1, <2>1, OutputsFacts
  <2>3. OutputsSound'
    BY <1>1, <2>1 DEF OutputsSound
  <2>4. QED
    BY <1>1, <2>1, <2>2, <2>3 DEF ReadInv
<1>7. QED
  BY <1>4, <1>5, <1>6

\* A run is over, or a header is edited.
LEMMA OtherSteps ==
    ASSUME ReadInv, Kill \/ Compile \/ Return \/ Edit \/ UNCHANGED vars
    PROVE  ReadInv'
<1>1. CASE Kill \/ Compile \/ Return
  <2>1. phase' \in {"killed", "idle"} /\ UNCHANGED <<header, text, fixed_mode, files>>
    BY <1>1 DEF Kill, Compile, Return, run
  <2>2. OutputsSound'
    BY <2>1 DEF ReadInv, OutputsSound
  <2>3. QED
    BY <2>1, <2>2 DEF ReadInv
<1>2. CASE Edit \/ UNCHANGED vars
  <2>1. header' \in Headers
    BY <1>2 DEF Edit, vars, ReadInv
  <2>2. UNCHANGED <<run, phase, parser, outs, files>>
    BY <1>2 DEF Edit, vars
  <2>3. UNCHANGED <<AtEnum, AtStruct, OutputsSound, Outputs, SizesKnown, text, fixed_mode,
                    known_enums, structs, phase, outs>>
    BY <2>2 DEF AtEnum, AtStruct, OutputsSound, Outputs, PathOf, SizesKnown, run, parser, enum_vars,
                struct_vars
  <2>4. QED
    BY <2>1, <2>3 DEF ReadInv
<1>3. QED
  BY <1>1, <1>2

\* Nothing is read yet.
LEMMA ReadInvInit ==
    ASSUME Init
    PROVE  ReadInv
<1>1. /\ header \in Headers /\ text = header /\ phase = "idle" /\ fixed_mode = FALSE
      /\ files = [f \in Files |-> NoFile]
  BY DEF Init
<1>2. OutputsSound
  BY <1>1 DEF OutputsSound
<1>3. QED
  BY <1>1, <1>2 DEF ReadInv

\* What the inductive invariant says of the exit code, and of the types of the enums.
LEMMA ExitIsSound ==
    ASSUME ReadInv
    PROVE  ExitCode
<1>1. ASSUME phase = "ok"
      PROVE  WellFormed(text, fixed_mode)
  BY <1>1, SizesKnownMeans DEF ReadInv, SizesKnown
<1>2. QED
  BY <1>1 DEF ReadInv, ExitCode

\* A field that is an enum has the type chosen for it.
LEMMA EnumsAreRead ==
    ASSUME ReadInv
    PROVE  EnumsFit
<1> SUFFICES ASSUME phase \in {"open", "write", "ok"},
                    NEW i \in DOMAIN text.structs, NEW j \in DOMAIN text.enums,
                    NEW k \in DOMAIN text.structs[i].fields,
                    text.structs[i].fields[k].type = text.enums[j].name,
                    ~IsScalar(text.structs[i].fields[k]),
                    text.enums[j].entries # <<>>,
                    InRange(Enumerators(text.enums[j].entries))
             PROVE  Holds(structs[text.structs[i].name][k].wire_type,
                          Enumerators(text.enums[j].entries))
  BY Zenon DEF EnumsFit
<1> DEFINE s == text.structs[i]  f == s.fields[k]  e == text.enums[j]
<1>1. HeaderRead(text, known_enums, structs) /\ text \in Headers
  BY DEF ReadInv
<1>2. /\ i \in 1 .. Len(text.structs) /\ j \in 1 .. Len(text.enums)
      /\ k \in 1 .. Len(s.fields)
  BY <1>1, HeaderFacts DEF Listed
<1>3. structs[s.name][k].wire_type = TypeOf(text, known_enums, f)
  <2>1. FieldsRead(text, known_enums, s.fields, Len(s.fields), structs[s.name])
    BY <1>1, <1>2 DEF HeaderRead, StructsRead
  <2>2. structs[s.name][k] = FieldRead(text, known_enums, f)
    BY <1>2, <2>1 DEF FieldsRead
  <2>3. QED
    BY <2>2 DEF FieldRead
<1>4. e.name \in DOMAIN known_enums /\ EnumTyped(known_enums[e.name], e.entries)
  BY <1>1, <1>2 DEF HeaderRead, EnumsRead
<1>5. TypeOf(text, known_enums, f) = known_enums[e.name]
  BY <1>4 DEF TypeOf
<1>6. QED
  BY <1>3, <1>4, <1>5 DEF EnumTyped

\* What holds of every state of every run, whatever the headers are.
LEMMA Reads == Spec => []ReadInv
<1>1. Inv /\ [Next]_vars => Inv'
  BY ReadStep, ParsedStep, OpenStep, WriteStep, EndStep DEF Next
<1>2. ReadInv /\ Inv /\ [Next]_vars => ReadInv'
  BY StartReads, EnumSteps, StructSteps, ParsedReads, OutputSteps, OtherSteps DEF Next
<1>3. Init => Inv /\ ReadInv
  BY InvInit, ReadInvInit
<1>4. QED
  BY <1>1, <1>2, <1>3, PTL DEF Spec

\* The exit code tells a header with a meaning from one without, for any headers, any
\* number of enums, structs and fields, and any edits between the runs.
THEOREM ExitTells == Spec => []ExitCode
<1>1. ReadInv => ExitCode
  BY ExitIsSound
<1>2. QED
  BY Reads, <1>1, PTL

\* No file ever holds what was made of a header without a meaning.
THEOREM FilesAreSound == Spec => []OutputsSound
<1>1. ReadInv => OutputsSound
  BY DEF ReadInv
<1>2. QED
  BY Reads, <1>1, PTL

\* The wire type of an enum holds each of its values, for enums of any length.
THEOREM EnumTypesFit == Spec => []EnumsFit
<1>1. ReadInv => EnumsFit
  BY EnumsAreRead
<1>2. QED
  BY Reads, <1>1, PTL
=============================================================================

----------------------------- MODULE MCGenerator -----------------------------
(***************************************************************************)
(* Headers for TLC, one for each of the ways to be right or wrong. A byte  *)
(* has four values: uint8_t holds 0..3, int8_t -2..1, uint16_t 0..15, and  *)
(* the longest prefix of a string counts to 255.                           *)
(***************************************************************************)
EXTENDS Generator

NoLit == [form |-> None, value |-> 0]
Lit(v) == [form |-> "decimal", value |-> v]
Enum(name, entries) == [name |-> name, entries |-> entries]
Struct(name, fs) == [name |-> name, fields |-> fs]
Fld(name, type) == [name |-> name, type |-> type, key |-> type, len |-> NoLen, form |-> "plain"]
Arr(name, type, len) == [Fld(name, type) EXCEPT !.len = len]
H(es, ss) == [enums |-> es, structs |-> ss]
Plain == Struct("m", <<Fld("a", "int")>>)
Uses(type) == Struct("m", <<Fld("a", type), Fld("b", "bool")>>)
Body(f) == H(<<>>, <<Struct("m", <<f>>)>>)
EnumsOf(entries) == H(<<Enum("e", entries)>>, <<Uses("e")>>)

Good ==
    {EnumsOf(<<NoLit, NoLit>>),                     \* 0, 1
     EnumsOf(<<Lit(3), NoLit>>),                    \* 3, 4: one past a byte
     EnumsOf(<<Lit(-2), NoLit, Lit(1)>>),           \* all of int8_t
     EnumsOf(<<Lit(1), Lit(-3)>>),                  \* one below it
     EnumsOf(<<Lit(-1), Lit(2)>>),                  \* one above it
     EnumsOf(<<Lit(0), Lit(70000)>>),               \* more than 64 bits
     H(<<Enum("e", <<>>), Enum("e", <<Lit(4)>>)>>, <<Uses("e")>>),
     H(<<Enum("Long", <<Lit(300)>>)>>,
       <<Struct("m", <<[Fld("a", "Long") EXCEPT !.key = "long"]>>)>>),
     H(<<>>, <<Struct("m", <<Fld("a", "n"), Arr("b", "n", 2)>>), Struct("n", <<>>)>>)}
Bad ==
    {H(<<>>, <<>>),
     EnumsOf(<<[form |-> "octal", value |-> 1]>>),
     EnumsOf(<<[form |-> "name", value |-> 1]>>),
     H(<<Enum("e", <<NoLit>>), Enum("e", <<NoLit>>)>>, <<Plain>>),
     H(<<Enum("e", <<>>)>>, <<Uses("e")>>),
     H(<<>>, <<Plain, Plain>>),
     H(<<>>, <<Struct("m", <<Fld("a", "int"), Fld("a", "bool")>>)>>),
     H(<<>>, <<Plain, Uses("unknown")>>),
     Body([Fld("a", "int") EXCEPT !.form = "pointer"]),
     Body(Arr("a", "int", BadLen)),
     Body(Fld("a", "m")),
     H(<<>>, <<Struct("m", <<Fld("a", "n")>>), Struct("n", <<Arr("b", "m", 2)>>)>>)}
OnlyFixed == {Body(Arr("a", "char", 256))}

AllHeaders == Good \cup Bad \cup OnlyFixed

\* Edits that make a header right, parsed wrong, circular, right in fixed mode.
Edited == {EnumsOf(<<NoLit, NoLit>>), Body(Arr("a", "int", BadLen)), Body(Fld("a", "m"))}
          \cup OnlyFixed

\* One that is right, one that is refused in the text of the first output.
FewHeaders == {EnumsOf(<<NoLit, NoLit>>), Body(Fld("a", "m"))}

\* The C outputs of two runs go to one place; of the few headers there may be three
\* runs, the third one of the build, and into any directories.
TwoRunsOrFew ==
    \/ runs <= 2 /\ (tool = "C" => Whole \/ here = {}) /\ (runs = 2 => header = text)
    \/ /\ runs = 3 => by = "build"
       /\ {header, text} \subseteq FewHeaders
       /\ \A f \in Files : files[f] # NoFile => files[f][1] \in FewHeaders

\* A run has read the header as it is, and none is edited after the last.
EditsBetweenRuns == header # text => phase = "idle" /\ runs < MaxRuns /\ header \in Edited
=============================================================================

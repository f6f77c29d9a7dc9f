----------------------------- MODULE MCMessages -----------------------------
(***************************************************************************)
(* Headers and messages for TLC. A byte has four values: a length prefix   *)
(* of a string has one byte up to char[3], two up to char[15], four from   *)
(* char[16] on; the characters 0 and 1 are ASCII, 2 is not.                *)
(***************************************************************************)
EXTENDS Messages

F(type, array_len) ==
    [name |-> "f", type |-> type, array_len |-> array_len, is_enum |-> FALSE,
     wire_type |-> IF type \in DOMAIN SCALAR_TYPE_MAP THEN SCALAR_TYPE_MAP[type] ELSE type]
EnumField == [F("int8_t", NoLen) EXCEPT !.type = "mode_t", !.is_enum = TRUE]

Header ==
    [pair |-> <<F("uint16_t", NoLen), F("short", NoLen)>>,
     mode |-> <<EnumField, F("bool", 2)>>,
     name |-> <<F("char", 3), F("char", NoLen)>>,
     note |-> <<F("wchar_t", 4), F("uint8_t", NoLen)>>,
     list |-> <<F("pair", 2), F("uint8_t", NoLen)>>,
     names |-> <<F("name", 2), F("uint8_t", NoLen)>>,
     rows |-> <<F("list", 2)>>,
     nest |-> <<F("name", NoLen), F("uint64_t", NoLen), F("nop", NoLen)>>,
     huge |-> <<F("char", 16)>>,
     tag |-> <<F("char", 1), F("uint16_t", NoLen)>>,
     real |-> <<F("float", NoLen), F("wchar_t", NoLen)>>,
     nop |-> <<>>]

InC ==
    [pair |-> {<<7, -3>>, <<15, 6>>},
     mode |-> {<<-2, <<1, 0>>>>},
     name |-> {<<<<1, 0, -1>>, 1>>, <<<<-1, -2, 1>>, -1>>, <<<<-2, 1, 0>>, 1>>},
     note |-> {<<<<6, 1, 0, 3>>, 3>>, <<<<-5, 1, 2, 3>>, 1>>},
     list |-> {<<<<<<7, -3>>, <<15, 6>>>>, 3>>, <<<<<<15, 6>>, <<7, -3>>>>, 0>>},
     names |-> {<<<<<<<<1, 0, -1>>, 1>>, <<<<-1, -2, 1>>, -1>>>>, 3>>},
     rows |-> {<<<<<<<<<<7, -3>>, <<15, 6>>>>, 3>>, <<<<<<15, 6>>, <<7, -3>>>>, 0>>>>>>},
     nest |-> {<<<<<<-2, 1, 0>>, 1>>, 27000, <<>>>>},
     huge |-> {<<<<1>> \o [i \in 1 .. 15 |-> 0]>>},
     tag |-> {<<<<1>>, 7>>},
     real |-> {<<177, -3>>},
     nop |-> {<<>>}]

InCs ==
    [pair |-> {<<7, -3>>, <<2, 4>>},
     mode |-> {<<-2, <<1>>>>, <<1, <<0, 1, 1>>>>},
     name |-> {<<<<1, 1>>, 1>>, <<<<1, 2, 1>>, 2>>, <<<<>>, 0>>, <<<<1, 2>>, 1>>, <<<<1, 0, 1>>, 1>>},
     note |-> {<<<<6, 1>>, 3>>, <<<<6, 0, 1>>, 2>>, <<<<5, 4, 3, 2, 1>>, 1>>},
     list |-> {<<<<>>, 3>>, <<<<<<<<7, -3>>>>>>, 2>>,
               <<<<<<<<7, -3>>>>, <<<<2, 4>>>>, <<<<7, -3>>>>>>, 1>>, <<<<<<>>>>, 1>>},
     names |-> {<<<<>>, 3>>, <<<<<<<<<<1, 1>>, 1>>>>>>, 2>>},
     rows |-> {<<<<<<<<<<<<<<7, -3>>>>>>, 2>>>>>>>>, <<<<<<>>, <<<<<<>>, 3>>>>>>>>},
     nest |-> {<<<<<<<<1, 1>>, 1>>>>, 27000, <<<<>>>>>>, <<<<<<<<1, 2>>, 1>>>>, 27000, <<>>>>},
     huge |-> {<<<<1, 2>>>>},
     tag |-> {<<<<1>>, 7>>, <<<<2>>, 7>>},
     real |-> {<<177, 13>>},
     nop |-> {<<>>}]

\* No room, too little for some, enough for all but the largest, enough.
SomeRooms == {0, 4, 6, 24}
=============================================================================

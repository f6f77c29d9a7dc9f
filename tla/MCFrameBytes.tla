----------------------------- MODULE MCFrameBytes -----------------------------
(***************************************************************************)
(* Instances of FrameBytes for TLC.  With two sequence numbers control is 4 *)
(* and the commands 1 and 2 are marked 5 and 6; with four of them control   *)
(* is 8, and command 1 is marked 9.                                         *)
(***************************************************************************)
EXTENDS FrameBytes

Msg(cmd, payload) ==
    [cmd |-> cmd, payload |-> [i \in DOMAIN payload |-> Plain(payload[i])]]

\* No payload holds a whole marker and no frame ends in the byte it is marked
\* with; markers occur in them nevertheless.
PlainMessages == {Msg(1, << >>), Msg(1, <<5, 1>>), Msg(2, <<5>>)}

\* No frame ends in a marker byte.
TextAtEnd == {Msg(1, <<5, 1>>), Msg(2, <<6, 0>>)}

\* Payloads of text, control markers and the frame's own marker in all orders.
AllMessages ==
    PlainMessages \cup TextAtEnd \cup {Msg(1, <<u, v>>) : u \in {0, 5}, v \in {4, 5}}

\* The payload ends in the byte that marks its frame.
MarkerAtEnd == {Msg(1, <<9>>)}

\* All messages and log text on a line without errors; on a line with errors, two
\* at most, the messages after which a reader finds the frames again, and no text.
Chosen ==
    \/ budget.faults = MaxFaults /\ budget.discards = MaxDiscards
    \/ /\ budget.texts = MaxTexts
       /\ budget.faults + budget.discards >= MaxFaults + MaxDiscards - 2
       /\ \A i \in DOMAIN sent :
             sent[i] \in IF reader = "library" THEN PlainMessages ELSE TextAtEnd

ChosenSpec == Init /\ [][Next /\ Chosen']_vars /\ Fairness

\* The line only ever loses bytes, and only of the last frame.
OnlyLosses == Fault => Len(line') < Len(line) /\ Len(sent) = MaxPut
LossSpec == Init /\ [][Next /\ OnlyLosses]_vars /\ Fairness

=============================================================================

----------------------------- MODULE MCEspSession -----------------------------
(***************************************************************************)
(* Instances of EspSession for TLC.                                        *)
(***************************************************************************)
EXTENDS EspSession, TLC

CONSTANTS PutsOfA, PutsOfB

\* How many messages Send takes, and how many DATA frames the board sends.
PutBound == [e \in End |-> IF e = A THEN PutsOfA ELSE PutsOfB]

\* Messages are numbered in the order they are sent: enough to tell any two
\* apart, and one behaviour for all the ways of choosing them.
Numbered ==
    /\ \A i \in DOMAIN accepted : accepted[i] = i
    /\ \A i \in DOMAIN sent[B] : sent[B][i] = i

\* More than one callback has something to do.
Overlapping ==
    \E c, d \in Callback : c # d /\ \A x \in {c, d} : x \in due \/ ~Idle(x)

\* Three messages, or two and one of the board, with the timer as it was set up and
\* one callback at a time; or two messages, with two callbacks and a
\* change of AckTimeout, or one callback and two changes.
EitherManyOrOverlapping ==
    /\ Numbered
    /\ Len(accepted) <= 2 \/ sent[B] = << >>
    /\ \/ ackTimeout = "timer" /\ changes = 0 /\ ~Overlapping
       \/ Len(accepted) <= 2 /\ sent[B] = << >> /\ (changes <= 1 \/ ~Overlapping)

\* The callbacks are alike, and nothing names one.
CallbackSymmetry == Permutations(Callback)

=============================================================================

--------------------------- MODULE MCFrameArqReset ---------------------------
(***************************************************************************)
(* Instances of FrameArqReset for TLC.                                     *)
(***************************************************************************)
EXTENDS FrameArqReset

CONSTANTS PutsOfA, PutsOfB

\* How many DATA frames each end sends.
PutBound == [e \in End |-> IF e = A THEN PutsOfA ELSE PutsOfB]

=============================================================================

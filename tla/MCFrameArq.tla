----------------------------- MODULE MCFrameArq -----------------------------
(***************************************************************************)
(* Instances of FrameArq for TLC.                                          *)
(***************************************************************************)
EXTENDS FrameArq

CONSTANTS PutsOfA, PutsOfB

\* How many DATA frames each end sends.
PutBound == [e \in End |-> IF e = A THEN PutsOfA ELSE PutsOfB]

=============================================================================

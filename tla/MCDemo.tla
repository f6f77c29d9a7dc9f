-------------------------------- MODULE MCDemo --------------------------------
(***************************************************************************)
(* Instances of Demo for TLC: three numbers for two pins, so that 2 is typed *)
(* for pin 0.                                                              *)
(***************************************************************************)
EXTENDS Demo

Numbers == 0 .. 2

=============================================================================

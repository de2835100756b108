------------------------------- MODULE MCRutp -------------------------------
(* Small instances of Rutp: three segments; numbers are cleaned up every   *)
(* second one, over a window the run does not reach (as 500 and 5000).     *)
EXTENDS Rutp

Different == [n \in Segs |-> n]
Either    == BOOLEAN
=============================================================================

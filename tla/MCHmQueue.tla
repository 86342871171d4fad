----------------------------- MODULE MCHmQueue ------------------------------
(* An instance of HmQueue for TLC.                                         *)
EXTENDS HmQueue

(* Of a limit of 2 the second statement takes more than all.               *)
MCSize == [s \in Statement |-> IF s = 2 THEN 3 ELSE 1]
=============================================================================

----------------------------- MODULE MCListener -----------------------------
(* Instances of Listener for TLC.                                          *)
EXTENDS Listener

CONSTANTS mf, lf, m1, m2   \* matchfull.json, league.json, match1.json, match2.json

MCOne == <<mf>>
MCTwo == <<lf, mf>>
MCOrder == <<mf, lf>>

MCTable == [f \in {mf, lf, m1, m2} |-> IF f = lf THEN "league" ELSE "match"]
=============================================================================

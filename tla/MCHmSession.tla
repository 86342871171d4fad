---------------------------- MODULE MCHmSession -----------------------------
(* Instances of HmSession for TLC.                                         *)
EXTENDS HmSession

CONSTANTS main, timer

rec(n, v, p) == [number |-> n, version |-> v, parts |-> p]

(* A league with two tournaments, saved twice with a match in between, the *)
(* second time with a third tournament.                                    *)
MCLeagueTwice ==
  [t \in {main} |-> << rec(1, 1, <<2, 3>>), rec(4, 1, << >>), rec(1, 2, <<2, 3, 5>>) >>]

(* The same match in two files.                                            *)
MCMatchTwice == [t \in {main} |-> << rec(1, 1, << >>), rec(1, 2, << >>) >>]

(* An incremental file of matches beside the flush of a file of markets.   *)
MCMatchAndMarket ==
  [t \in {main, timer} |-> IF t = main THEN << rec(1, 1, << >>) >> ELSE << rec(2, 1, << >>) >>]

(* A match file beside the flush of a league with a tournament.            *)
MCShared ==
  [t \in {main, timer} |-> IF t = main THEN << rec(1, 1, << >>), rec(1, 2, << >>) >>
                           ELSE << rec(2, 1, <<3>>) >>]
=============================================================================

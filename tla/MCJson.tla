------------------------------- MODULE MCJson -------------------------------
(* Texts for TLC: any short one, and longer ones that begin as a market    *)
(* with its "Id", as a league with its "Tournaments", as a market with an  *)
(* object for its "Odds".                                                  *)
EXTENDS Json

Member == <<"str", ":">>
Saved == <<"{">> \o Member \o <<"num", ",">> \o Member

MCBeginning ==
  { [text |-> << >>, room |-> 8],
    [text |-> Saved, room |-> 6],
    [text |-> Saved \o <<"[", "[">>, room |-> 4],
    [text |-> Saved \o <<"[", "{">> \o Member, room |-> 5],
    [text |-> Saved \o <<"{">> \o Member, room |-> 5] }
=============================================================================

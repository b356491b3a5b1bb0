------------------------------ MODULE MCRunway ------------------------------
EXTENDS Runway, TLC

CONSTANTS a, b

(* Two leaves one behind the other, that change their data for ever. *)
MCLeaves == {a, b}
MCBase == a :> 1 @@ b :> 7
MCCode == <<"load", "add", "flip", "back">>
=============================================================================

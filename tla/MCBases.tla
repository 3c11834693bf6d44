------------------------------ MODULE MCBases ------------------------------
(* A capital, a room between it and a free room, and a room of another       *)
(* player next to both of those.                                             *)
EXTENDS Bases, TLC

CONSTANTS capital, between, free, foreign

Map ==
  capital :> {between} @@ between :> {capital, free, foreign}
    @@ free :> {between, foreign} @@ foreign :> {between, free}
=============================================================================

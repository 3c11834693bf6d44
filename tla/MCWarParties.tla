--------------------------- MODULE MCWarParties ---------------------------
(* One or two bases next to one enemy room. *)
EXTENDS WarParties

CONSTANTS home, enemy

Reach == [b \in Bases |-> {enemy}]
=============================================================================

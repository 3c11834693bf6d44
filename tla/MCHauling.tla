----------------------------- MODULE MCHauling -----------------------------
(* Two haulers or a worker, a pile next to a source, its container and a     *)
(* tombstone in the base's room.                                             *)
EXTENDS Hauling

CONSTANTS h1, h2, h3, w, pile, container, grave

Base(storage, pickups, members) ==
  [storage |-> storage, pickups |-> pickups, creeps |-> members]

SomeBases ==
  {Base(TRUE, {pile}, {h1, h2}), Base(TRUE, {container, grave}, {h3}),
   Base(FALSE, {container}, {w})}
=============================================================================

----------------------------- MODULE MCBaseCore -----------------------------
(* Bases that have some of the parts each. *)
EXTENDS BaseCore

CONSTANTS t1, t2, e1, lab, source, sink, store, s1, w1, enemy, d1, d2

Bare ==
  [towers |-> {}, extensions |-> {}, labs |-> {}, links |-> FALSE, structures |-> {},
   walls |-> {}, hostiles |-> {}, distributors |-> {d1}, reserves |-> {"plenty"},
   capacity |-> 1]

Defended == [Bare EXCEPT !.towers = {t1, t2}, !.hostiles = {enemy}]
Repaired == [Bare EXCEPT !.towers = {t1}, !.structures = {s1}, !.walls = {w1},
                         !.reserves = {"empty", "low", "plenty"}]
Mended   == [Bare EXCEPT !.towers = {t1, t2}, !.structures = {s1}]
Walled   == [Bare EXCEPT !.towers = {t1, t2}, !.walls = {w1}]
Linked   == [Bare EXCEPT !.links = TRUE, !.reserves = {"plenty", "full"}]
Filled   == [Bare EXCEPT !.extensions = {e1}, !.labs = {lab}, !.distributors = {d1, d2},
                         !.reserves = {"plenty", "full"}]
Mixed    == [Bare EXCEPT !.towers = {t1}, !.extensions = {e1}, !.labs = {lab}, !.capacity = 2,
                         !.reserves = {"plenty", "full"}]

SomeHomes == {Defended, Repaired, Mended, Walled, Linked, Filled, Mixed}
OneSource == <<source>>
OneSink == <<sink>>
=============================================================================

----------------------------- MODULE MCIndustry -----------------------------
(* Bases with a booster, whose labs hold other compounds or none, and bases  *)
(* with a reactor that has something left over in its labs, and with a terminal. *)
EXTENDS Industry

CONSTANTS b1, b2, b3, r1, r2, r3, ko, lo, go, kh, d1, d2

Booster3 == <<b1, b2, b3>>
Reactor3 == <<r1, r2, r3>>

(* KO, LO, KH and GO, in the order of their parts in BOOSTS *)
SomeCompounds == <<ko, lo, kh, go>>
SomeEffects == <<"rangedAttack", "heal", "rangedHeal", "capacity", "damage">>
SomeEffectsOf ==
  [c \in {ko, lo, kh, go} |->
     CASE c = ko -> {"rangedAttack"} [] c = lo -> {"heal", "rangedHeal"}
       [] c = kh -> {"capacity"} [] c = go -> {"damage"}]

OneReactor == {Reactor3}

Some(c, n) == [mineral |-> c, amount |-> n]
Good == [energy |-> TRUE, space |-> TRUE, storage |-> TRUE]
NoEnergy == [Good EXCEPT !.energy = FALSE]
NoStorage == [Good EXCEPT !.storage = FALSE]
NoSpace == [NoStorage EXCEPT !.space = FALSE]

Bare ==
  [sites |-> {Booster3}, fragile |-> {}, troubles |-> {}, wish |-> << >>, terminal |-> None,
   reserves |-> {Good}, distributors |-> {d1},
   content |-> [s \in Spots |-> Nothing], powered |-> Spots,
   stored |-> [c \in {ko, lo, kh, go} |-> 0]]

(* The boosts of an attacker; tough is no effect. *)
Attack == [Bare EXCEPT !.wish = <<"tough", "heal", "damage">>,
                       !.distributors = {d1, d2},
                       !.troubles = {"restart"},
                       !.stored = [c \in {ko, lo, kh, go} |-> IF c \in {lo, go} THEN 2 ELSE 0]]

(* Labs that are loaded for others, or with too little *)
Full == [Bare EXCEPT !.wish = <<"heal", "damage", "rangedAttack">>, !.distributors = {d1, d2},
           !.troubles = {"death"},
           !.content[b1] = Some(lo, 2), !.content[b2] = Some(go, 2), !.content[b3] = Some(kh, 2),
           !.stored[ko] = 2]

Low == [Bare EXCEPT !.wish = <<"heal">>, !.content[b1] = Some(lo, 1), !.stored[lo] = 2,
                    !.troubles = {"death", "restart"}]

Fragile == [Bare EXCEPT !.wish = <<"heal">>, !.fragile = {b1}, !.stored[lo] = 4,
                        !.troubles = {"attack"}]

Late == [Bare EXCEPT !.wish = <<"heal">>, !.stored[lo] = 4,
                     !.troubles = {"cpu", "death", "restart"}]

(* A lab that holds too much, and too little once three returns are done     *)
Overfull == [Late EXCEPT !.content[b1] = Some(lo, 4), !.stored[lo] = 0,
                         !.troubles = {"death"}]

Busy == [Bare EXCEPT !.wish = <<"heal">>, !.stored[lo] = 2, !.powered = Spots \ {b1},
                     !.reserves = {Good, NoEnergy}, !.troubles = {"spawn", "storage"}]

Reacting == [Bare EXCEPT !.sites = {Reactor3}, !.content[r1] = Some(ko, 3),
                         !.content[r2] = Some(lo, 2), !.reserves = {Good, NoSpace},
                         !.troubles = {"storage", "restart", "death"}]

(* A terminal with an old order for KO, of which there is enough, too little *)
(* or none in the storage, and one that is asked for what no base has        *)
Selling == [Bare EXCEPT !.sites = {}, !.stored[ko] = 3, !.reserves = {Good, NoStorage, NoSpace},
              !.troubles = {"storage", "restart", "death"},
              !.terminal = [compound |-> ko, order |-> 4, goods |-> 1,
                            mostEnergy |-> 3, sources |-> TRUE, credits |-> TRUE]]

TwoTrips == [Selling EXCEPT !.distributors = {d1, d2}, !.terminal.mostEnergy = 1]

Scarce == [Selling EXCEPT !.stored[ko] = 2]

Stuck == [Selling EXCEPT !.terminal.credits = FALSE, !.stored[ko] = 0, !.terminal.order = 3, !.terminal.goods = 2]

Buying == [Selling EXCEPT !.terminal.sources = FALSE, !.terminal.mostEnergy = 1]

SomeHomes ==
  {Selling, TwoTrips, Scarce, Stuck, Buying, Attack, Full, Low, Fragile, Late, Overfull, Busy, Reacting}
=============================================================================

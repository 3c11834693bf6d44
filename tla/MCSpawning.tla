----------------------------- MODULE MCSpawning -----------------------------
(* Instances of the spawning system for TLC: a capital with spawns, and an   *)
(* outpost without any that is its neighbour.                                *)
EXTENDS Spawning

CONSTANTS capital, outpost, spawn1, spawn2, upgrader, builder, worker, claimer

Homes == spawn1 :> capital @@ spawn2 :> capital
Neighborhood == capital :> {outpost} @@ outpost :> {capital}

(* The capital's first upgrader is the most urgent request of all, its       *)
(* second the least.  The outpost's builders go through its own topic and    *)
(* need more energy than the capital always has.  Where they are graded, the *)
(* shared topic holds requests of two priorities.                            *)
TopicsOf == upgrader :> capital @@ builder :> outpost
DestsOf == upgrader :> capital @@ builder :> outpost
Roles == upgrader :> worker @@ builder :> worker
Priorities == upgrader :> 5 @@ builder :> 4
Decays == upgrader :> 3 @@ builder :> 0
Graded == upgrader :> 3 @@ builder :> 1
Wanted == upgrader :> {2} @@ builder :> {1}
WantedMore == upgrader :> {2} @@ builder :> {2}
Ttls == upgrader :> 1 @@ builder :> 2
Periods == upgrader :> 1 @@ builder :> 2
Levels == capital :> {1, 2} @@ outpost :> {1}
Energies == upgrader :> 1 @@ builder :> 2

(* The sort of the topics against insertion, one by one, behind everything   *)
(* that is not more urgent; and sorting once against sorting at every push.  *)
Samples ==
  UNION {[1..n -> [need : {upgrader, builder}, priority : {1, 2}]] : n \in 0..3}

Insert(q, r) ==
  InsertAt(q, Cardinality({i \in DOMAIN q : q[i].priority <= r.priority}) + 1, r)

Push(q, r) == SortByPriority(Append(q, r))

ASSUME SortAssumption ==
  \A q \in Samples :
    /\ SortByPriority(q) = FoldLeft(Insert, << >>, q)
    /\ \A rs \in Samples \ {<< >>} : SortByPriority(q \o rs) = FoldLeft(Push, q, rs)
=============================================================================

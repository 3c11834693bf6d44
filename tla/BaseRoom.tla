------------------------------ MODULE BaseRoom ------------------------------
(* What the processes of a base's primary room share: the stores of its      *)
(* structures, the energy in reserve in its storage and terminal, and the    *)
(* base's distributor topic, on which links, towers, extensions and labs ask *)
(* for hauls (src/os/kernel/base.ts, src/lib/topics.ts).                     *)
(*                                                                           *)
(* Energy comes in units.  A link has room for four of 200.  A tower without *)
(* any has 10 energy or less, with one less than 250, with two less than     *)
(* 500, and with three it is as good as full.  An extension and a lab have   *)
(* room for one.  Storage and terminal are one store here.                   *)
EXTENDS Integers, Sequences, FiniteSets

CONSTANTS
  Towers, Extensions, Labs,
  SourceLinks, SinkLinks,   \* sequences, in the order in which they are found
  StorageLink,
  Structures,               \* what base.damagedStructures may list
  Walls,                    \* walls and ramparts
  Hostiles,
  Distributors,
  Homes,                    \* the bases: what one has of all these
  None

LinkSet == {SourceLinks[i] : i \in DOMAIN SourceLinks}
             \cup {SinkLinks[i] : i \in DOMAIN SinkLinks} \cup {StorageLink}
Objects == Towers \cup Extensions \cup Labs \cup LinkSet

(* Nothing; less than 10000; enough; so much that nothing more fits.         *)
Reserves == {"empty", "low", "plenty", "full"}

ASSUME BaseRoomAssumption ==
  /\ Homes \subseteq
       [towers : SUBSET Towers, extensions : SUBSET Extensions, labs : SUBSET Labs,
        links : BOOLEAN, structures : SUBSET Structures, walls : SUBSET Walls,
        hostiles : SUBSET Hostiles, distributors : SUBSET Distributors,
        reserves : SUBSET Reserves, capacity : Nat \ {0}]
  /\ IsFiniteSet(LinkSet)
  /\ "storage" \notin Objects
  /\ None \notin Objects \cup Structures \cup Walls \cup {"storage"}

VARIABLES
  home,     \* the base; never changes
  content,  \* the units in an object
  reserve,  \* the energy in storage and terminal
  topic,    \* the requests for distributors
  calm      \* whether nothing gets in the way any more

room == <<home, content, reserve, topic, calm>>

StoreCapacity(o) == IF o \in LinkSet THEN 4 ELSE IF o \in Towers THEN 3 ELSE 1
Free(o) == StoreCapacity(o) - content[o]

(* What a distributor carries *)
Capacity == home.capacity

(* getStructureWithResource finds energy, getStructureForResource finds room *)
HasPickup == reserve # "empty"
HasDropoff == reserve # "full"

-----------------------------------------------------------------------------
(* A request: kind is the prefix of its task id ("tel" for a tower, "ext",   *)
(* "ll" and "lu" to load and unload a link, "lab"), object what it is about. *)
(* Made again every ttl ticks, in one tick two are open; last marks the one  *)
(* that is stale after it.                                                   *)
NewRequest(kind, o, amount) ==
  [kind |-> kind, object |-> o, amount |-> amount, last |-> FALSE]

(* MEMORY_HAUL_DROPOFF and MEMORY_HAUL_RESOURCE                              *)
Dropoff(task) == IF task.kind = "lu" THEN "storage" ELSE task.object
Resource(task) == IF task.kind = "lab" THEN "ore" ELSE "energy"

(* The order of the priorities.  That of a tower falls from 1.5 to 1.0 as it *)
(* fills; 1.4, the priority of an extension, is within its second quarter.   *)
Rank(r) ==
  CASE r.kind = "lu" -> 6
    [] r.kind = "ll" -> 5
    [] r.kind = "tel" -> r.amount
    [] r.kind = "ext" -> 3
    [] r.kind = "lab" -> 1

MostUrgent(rs) == {r \in rs : \A q \in rs : Rank(q) <= Rank(r)}

RequestsOf(kinds, o) == {r \in topic : r.kind \in kinds /\ r.object = o}
=============================================================================

---------------------------- MODULE Distributors ----------------------------
(* The distributors of a base: how many there are and who asks them to fill  *)
(* extensions (src/base/logistics.ts), and their behaviour tree              *)
(* (src/creeps/roles/distributor.ts) over the leaves of behavior/haul.ts and *)
(* behavior/movement.ts.  Left out are distances: a distributor is at its    *)
(* destination at once or in the first tick in which nothing blocks its way. *)
(* Left out are also boosts, the repair of roads on the way and structures   *)
(* that vanish.                                                              *)
EXTENDS BaseRoom, FiniteSetsExt, BehaviorTree

VARIABLES
  alive,   \* the distributors there are
  memory,  \* what they remember, and whether they are on the way
  cargo    \* what they carry

creeps == <<alive, memory, cargo>>

Resources == {"energy", "ore"}

Nodes == {"core_task_or_extensions", "pick_something", "unload_creep_if_needed",
          "move_and_unload", "load_creep_if_needed", "get_resource", "deliver"}

(* What a distributor remembers: the indices saved by its nodes, its task (a *)
(* request without amount) and the amount, MEMORY_DESTINATION, whether it    *)
(* moves.                                                                    *)
Fresh == [saved |-> [n \in Nodes |-> 0], task |-> None, amount |-> 0, dest |-> None,
          moving |-> FALSE]

Empty == [r \in Resources |-> 0]

Loaded(load) == {r \in Resources : load[r] > 0}
Space(s) == Capacity - s.cargo["energy"] - s.cargo["ore"]

-----------------------------------------------------------------------------
(* The leaves *)

(* clearTask *)
Forget(s) == [s EXCEPT !.task = None, !.amount = 0, !.dest = None]

(* pick_haul_task and storeHaulTask; among the most urgent the nearest.      *)
TakeTask(s) ==
  IF s.topic = {} THEN Ends(s, Failure)
  ELSE UNION {Ends([s EXCEPT !.task = [kind |-> r.kind, object |-> r.object],
                             !.amount = r.amount, !.topic = @ \ {r}], Success)
                : r \in MostUrgent(s.topic)}

(* What must be unloaded first: all of it before a link is unloaded.         *)
WrongToUnload(s) == IF s.task.kind = "lu" THEN Loaded(s.cargo) ELSE {}

ToUnload(s) == Loaded(s.cargo) \ (IF s.task.kind = "lu" THEN {} ELSE {Resource(s.task)})

(* check_if_unload_needed reads reserve.id also when there is no reserve.    *)
CheckUnload(s) ==
  IF ToUnload(s) = {} THEN Ends(s, Success)
  ELSE IF s.reserve = "full" THEN Ends(s, Thrown)
  ELSE Ends([s EXCEPT !.dest = "storage"], Failure)

(* moveToCreepMemory *)
Arrive(s) == [s EXCEPT !.moving = FALSE]

Move(s) ==
  IF s.blocked THEN Ends([s EXCEPT !.moving = TRUE], Running) \cup Ends(Arrive(s), Failure)
  ELSE IF s.moving THEN Ends(Arrive(s), Success)
  ELSE Ends(s, Success) \cup Ends([s EXCEPT !.moving = TRUE], Running)

(* empty_creep: one resource per tick, into the storage *)
Unload(s) ==
  IF ToUnload(s) = {} THEN Ends(s, Success)
  ELSE IF s.reserve = "full" THEN Ends(s, Failure)
  ELSE UNION {Ends([s EXCEPT !.cargo[r] = 0],
                   IF ToUnload(s) = {r} THEN Success ELSE Running) : r \in ToUnload(s)}

(* has_resource: half of what is asked will do.  Who loads energy loads all  *)
(* it can carry.                                                             *)
HasResource(s) ==
  LET used == s.cargo[Resource(s.task)]
      wanted == Min({s.amount, Capacity})
      asked == IF Resource(s.task) = "energy" THEN Capacity ELSE wanted
  IN  IF 2 * used > s.amount THEN Ends(s, Success)
      ELSE Ends([s EXCEPT !.amount = asked], IF used >= wanted THEN Success ELSE Failure)

(* What there is to load: the storage has as much as anybody carries.        *)
Stock(s) ==
  IF s.task.kind = "lu" THEN s.content[s.task.object]
  ELSE IF Resource(s.task) = "energy" /\ s.reserve = "empty" THEN 0 ELSE Capacity

(* loadCreep *)
Load(s) ==
  LET r == Resource(s.task)
      n == Min({s.amount, Space(s), Stock(s)})
      loaded == [s EXCEPT !.cargo[r] = @ + n]
  IN  IF Space(s) = 0 \/ s.cargo[r] >= n THEN Ends(s, Success)
      ELSE Ends(IF s.task.kind = "lu" THEN [loaded EXCEPT !.content[s.task.object] = @ - n]
                ELSE loaded, Running)

(* What object d takes of resource r *)
Room(s, d, r) ==
  IF (r = "ore") # (d \in Labs) THEN 0 ELSE StoreCapacity(d) - s.content[d]

(* The empty_creep of deliver: what does not fit stays with the creep.       *)
Deliver(s) ==
  LET Given(r, n) == [s EXCEPT !.cargo[r] = @ - n]
      Take(r) == Min({s.cargo[r], Room(s, s.dest, r)})
  IN  IF Loaded(s.cargo) = {} \/ (s.dest = "storage" /\ s.reserve = "full") THEN Ends(s, Success)
      ELSE UNION {
        IF s.dest = "storage" THEN Ends(Given(r, s.cargo[r]), Success)
        ELSE Ends([Given(r, Take(r)) EXCEPT !.content[s.dest] = @ + Take(r)], Success)
          : r \in Loaded(s.cargo)}

-----------------------------------------------------------------------------
(* The tree.  States are those it may be ticked in; of a task the moves need *)
(* where it leads only.                                                      *)
Kinds == {"lu", "ll", "tel", "ext", "lab"}

States ==
  [saved : [Nodes -> Nat], task : [kind : Kinds, object : Objects] \cup {None}, amount : Int,
   dest : Objects \cup {"storage", None}, moving : BOOLEAN, cargo : [Resources -> Int],
   content : [Objects -> Int], reserve : Reserves, blocked : BOOLEAN,
   topic : SUBSET [kind : Kinds, object : Objects, amount : Int, last : BOOLEAN]]

(* The leaves as nodes *)
ClearHaulTask == [s \in States |-> Ends(Forget(s), Success)]
PickHaulTask == [s \in States |-> TakeTask(s)]
ParkingLot == [s \in States |-> Ends(s, Failure)]
CheckIfUnloadNeeded == [s \in States |-> CheckUnload(s)]
MoveToDestination == [s \in States |-> Move(s)]
UnloadCreep == [s \in States |-> Unload(s)]
HasResourceAlready == [s \in States |-> HasResource(s)]
LoadResource == [s \in States |-> Load(s)]
UseMemoryDropoff == [s \in States |-> Ends([s EXCEPT !.dest = Dropoff(s.task)], Success)]
EmptyCreep == [s \in States |-> Deliver(s)]

SelectNextTaskOrPark ==
  [s \in States |->
     Tick(SelectorNode("pick_something", s) & PickHaulTask & ParkingLot)]

MoveAndUnload ==
  [s \in States |->
     Tick(SequenceNode("move_and_unload", s) & MoveToDestination & UnloadCreep)]

UnloadIfNeeded ==
  [s \in States |->
     Tick(SelectorNode("unload_creep_if_needed", s) & CheckIfUnloadNeeded & MoveAndUnload)]

GetResource ==
  [s \in States |->
     Tick(SequenceNode("get_resource", s) & MoveToDestination & LoadResource)]

LoadIfNeeded ==
  [s \in States |->
     Tick(SelectorNode("load_creep_if_needed", s) & HasResourceAlready & GetResource)]

DeliverTask ==
  [s \in States |->
     Tick(SequenceNode("deliver", s) & UseMemoryDropoff & MoveToDestination & EmptyCreep)]

Behavior ==
  [s \in States |->
     Tick(SequenceNode("core_task_or_extensions", s)
            & ClearHaulTask & SelectNextTaskOrPark & UnloadIfNeeded & LoadIfNeeded & DeliverTask)]

(* The state a distributor's tree is ticked in *)
View(c, blocked) ==
  [saved |-> memory[c].saved, task |-> memory[c].task, amount |-> memory[c].amount,
   dest |-> memory[c].dest, moving |-> memory[c].moving, cargo |-> cargo[c],
   content |-> content, topic |-> topic, reserve |-> reserve, blocked |-> blocked]

(* What the end of a round leaves in memory the next one clears first.       *)
Remembered(o) ==
  IF o.result # Running THEN Fresh
  ELSE [saved |-> o.state.saved, task |-> o.state.task, amount |-> o.state.amount,
        dest |-> o.state.dest, moving |-> o.state.moving]

DistributorRuns(c, blocked) ==
  /\ c \in alive /\ (calm => ~blocked)
  /\ UNCHANGED <<alive, home, reserve, calm>>
  /\ \E o \in Behavior[View(c, blocked)] :
       /\ memory' = [memory EXCEPT ![c] = Remembered(o)]
       /\ cargo' = [cargo EXCEPT ![c] = o.state.cargo]
       /\ content' = o.state.content /\ topic' = o.state.topic

-----------------------------------------------------------------------------
(* requestDistributor: one, or three while most of the energy for spawning   *)
(* is missing, and one more for two towers while there are hostiles.         *)
Unfilled == {e \in home.extensions : Free(e) > 0}

TooFew(alert) ==
  LET desired == IF 2 * Cardinality(Unfilled) > Cardinality(home.extensions) THEN 3 ELSE 1
      halves == IF alert THEN Cardinality(home.towers) ELSE 0
  IN  2 * Cardinality(alive) < 2 * desired + halves

DistributorSpawns(c, alert) ==
  /\ c \in home.distributors \ alive
  /\ TooFew(alert)
  /\ alive' = alive \cup {c}
  /\ UNCHANGED <<memory, cargo, room>>

DistributorDies(c) ==
  /\ ~calm /\ c \in alive
  /\ alive' = alive \ {c}
  /\ memory' = [memory EXCEPT ![c] = Fresh] /\ cargo' = [cargo EXCEPT ![c] = Empty]
  /\ UNCHANGED room

(* requestExtensionFilling, every ttl *)
FillExtension(e) ==
  /\ e \in home.extensions /\ HasPickup
  /\ \A r \in RequestsOf({"ext"}, e) : ~r.last
  /\ Free(e) > 0 \/ RequestsOf({"ext"}, e) # {}
  /\ topic' = (topic \ RequestsOf({"ext"}, e))
                \cup {[r EXCEPT !.last = TRUE] : r \in RequestsOf({"ext"}, e)}
                \cup (IF Free(e) > 0 THEN {NewRequest("ext", e, Free(e))} ELSE {})
  /\ UNCHANGED <<creeps, home, content, reserve, calm>>
=============================================================================

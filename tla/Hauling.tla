------------------------------ MODULE Hauling ------------------------------
(* Hauling in a base.  Its sources and its logistics process ask for loads   *)
(* on the base's hauler topic (base/source.ts, base/logistics.ts); haulers,  *)
(* or workers in a room without a storage, take the requests and run the     *)
(* behaviour trees of creeps/roles/hauler.ts and creeps/roles/worker.ts over *)
(* the leaves of creeps/behavior/haul.ts and movement.ts.                    *)
(*                                                                           *)
(* Energy comes in units; a creep carries Capacity of them.  A request is    *)
(* known by its pickup.  Time is left out: a request is open until the next  *)
(* ones for its pickup are made, ttl ticks later, and in that one tick the   *)
(* topic still holds it (expiring).  Creeps of a tick act one after another. *)
(* Left out are the priorities of requests, other resources than energy, a   *)
(* storage that is full, the PID that says how many creeps are wanted, the   *)
(* alert level of the base, the repair of roads on the way and boosts.       *)
EXTENDS Integers, FiniteSetsExt, BehaviorTree

CONSTANTS
  Haulers,     \* the haulers there may be
  Workers,     \* the workers there may be
  Piles,       \* dropped resources
  Containers,  \* the containers of the sources
  Graves,      \* tombstones and ruins
  Mortal,      \* the creeps that may be lost
  Bases,       \* the bases: whether one has a storage, its pickups and creeps
  Remote,      \* the pickups outside the base's room
  Capacity,    \* getCapacity of a creep, and avgHaulerCapacity
  MaxContent,  \* bound: units in a pickup
  MaxNeed,     \* bound: units the towers, extensions and spawns are short of
  None

Creeps == Haulers \cup Workers
Pickups == Piles \cup Containers \cup Graves
Structures == {"storage", "spawn", "site", "controller"}
Objects == Pickups \cup Structures

ASSUME HaulingAssumption ==
  /\ Bases \subseteq [storage : BOOLEAN, pickups : SUBSET Pickups, creeps : SUBSET Creeps]
  /\ Haulers \cap Workers = {}
  /\ Piles \cap Containers = {} /\ Graves \cap (Piles \cup Containers) = {}
  /\ None \notin Objects
  /\ Remote \subseteq Pickups /\ Mortal \subseteq Creeps
  /\ Capacity \in Nat \ {0} /\ MaxContent \in Nat /\ MaxNeed \in Nat

VARIABLES
  home,      \* the base; never changes
  alive,     \* the creeps there are
  memory,    \* Memory.creeps: what a creep remembers
  body,      \* where a creep is and what it carries
  content,   \* the units in a pickup
  open,      \* the requests in the hauler topic, by pickup
  expiring,  \* those of them with ttl = Game.time
  roster,    \* LogisticsRunnable.haulers
  need,      \* the units the towers, extensions and spawns are short of
  site,      \* whether there is an infrastructure site
  calm       \* whether nothing gets in the way any more

creeps == <<alive, memory, body>>
base == <<open, expiring, roster>>
room == <<home, content, need, site>>
vars == <<creeps, base, room, calm>>

-----------------------------------------------------------------------------
(* The ids under which composites save an index *)
Nodes == {"haul_task", "haul_energy", "pick_something", "dump_or_build_or_upgrade",
          "dump_energy", "build_construction_site", "upgrade_controller"}

(* What a creep remembers: the saved indices, its task, MEMORY_DESTINATION   *)
(* (dest), and the destination of the cached path whose keys are in memory   *)
(* (path; the path to a room is called by "room").  Its body has a place, of *)
(* which "inside" is anywhere in the base's room that is near no object, and *)
(* a cargo.                                                                  *)
Fresh == [saved |-> [n \in Nodes |-> 0], task |-> None, dest |-> None, path |-> None]

(* requestHaulers: haulers where there is a storage, workers elsewhere       *)
Wanted == home.creeps \cap (IF home.storage THEN Haulers ELSE Workers)

(* getStructureForResource, put into a request as its dropoff                *)
Dropoff == IF home.storage THEN "storage" ELSE None

Free(b) == Capacity - b.cargo

(* What Game.getObjectById may answer: an empty pile is gone, and so is an   *)
(* emptied tombstone in the end.                                             *)
Found(p, s) ==
  CASE p = None -> {FALSE}
    [] p \in Piles -> {s.content[p] > 0}
    [] p \in Graves -> {TRUE, s.content[p] > 0}
    [] OTHER -> {TRUE}

-----------------------------------------------------------------------------
(* The leaves.  A state is what a creep remembers, where it is, what it      *)
(* carries and what it shares with others; blocked says that it does not get *)
(* anywhere in this tick.                                                    *)

WrongForget(s) == [s EXCEPT !.dest = None]

(* clearTask *)
Forget(s) == [s EXCEPT !.task = None, !.dest = None]

(* getHaulTaskFromBaseTopic and storeHaulTask *)
TakeTask(s) ==
  LET Taken(p) == [s EXCEPT !.task = p]
      new == {p \in Pickups : s.open[p] > 0}
      old == {p \in Pickups : s.expiring[p] > 0}
  IN  IF new \cup old = {} THEN Ends(s, Failure)
      ELSE UNION ({Ends([Taken(p) EXCEPT !.open[p] = @ - 1], Success) : p \in new} \cup
                  {Ends([Taken(p) EXCEPT !.expiring[p] = @ - 1], Success) : p \in old})

(* parkingLot: the creep goes home, if it is not blocked, and has failed.    *)
Park(s) == Ends(IF s.blocked THEN s ELSE [s EXCEPT !.at = "inside"], Failure)

InRoom(place) == place \notin Remote

(* Whether a creep stands where a cached path ends *)
AtEnd(place, path) == place = path \/ (path = "room" /\ InRoom(place))

(* The end of a path *)
End(path) == IF path = "room" THEN "inside" ELSE path

(* updateCreepCachedPath: the path whose keys are in memory, wherever it     *)
(* leads, or, when there are none or the cache has lost it, the path to d.   *)
Paths(s, d) == {d} \cup ({s.path} \ {None})

NoPath(s) == [s EXCEPT !.path = None]

(* The rest of cachedMoveToPosition, for a creep out of range of d.  The way *)
(* takes one tick in which the creep is not blocked.  A blocked creep is     *)
(* tired, or it is stuck and makes do without the path, or it cannot move at *)
(* all.  At the end of a path that leads elsewhere moveByPath fails.  When   *)
(* no path to d can be found its keys stay, and they name a path as soon as  *)
(* another creep has found the one from there.                               *)
Walk(s, d) ==
  (IF s.blocked THEN Ends([s EXCEPT !.path = d], Failure) ELSE {}) \cup
  UNION {
    IF AtEnd(s.at, path) THEN Ends(NoPath(s), Failure)
    ELSE IF ~s.blocked THEN Ends([s EXCEPT !.path = path, !.at = End(path)], Running)
    ELSE Ends([s EXCEPT !.path = path], Running)
           \cup Ends(NoPath(s), Running) \cup Ends(NoPath(s), Failure)
      : path \in Paths(s, d)}

WrongArrival(s, d, found) ==
  IF d = None \/ ~found THEN Ends(NoPath(s), Failure)
  ELSE IF s.at = d THEN Ends(s, Success)
  ELSE Walk(s, d)

(* cachedMoveToMemoryObjectId *)
MoveTo(s, d, found) ==
  IF d = None \/ ~found THEN Ends(NoPath(s), Failure)
  ELSE IF s.at = d THEN Ends(NoPath(s), Success)
  ELSE Walk(s, d)

(* cachedMoveToRoom; a creep that is in the room keeps its path.             *)
MoveHome(s) == IF InRoom(s.at) THEN Ends(s, Success) ELSE Walk(s, "room")

Loaded(s, n) ==
  [s EXCEPT !.cargo = @ + n, !.content[s.task] = @ - n]

WrongLoad(s, found) ==
  LET n == Min({Free(s), s.content[s.task]})
  IN  IF ~found \/ n = 0 THEN Ends(s, Failure) ELSE Ends(Loaded(s, n), Running)

(* loadCreep.  The amount asked of a tombstone is what it held, which is no  *)
(* less than what it holds.                                                  *)
Load(s, found) ==
  LET p == s.task
      n == Min({Free(s), s.content[p]})
  IN  IF Free(s) = 0 THEN Ends(s, Success)
      ELSE IF ~found THEN Ends(s, Failure)
      ELSE IF p \in Graves /\ s.cargo >= n THEN Ends(s, Success)
      ELSE IF n = 0 THEN Ends(s, Success)
      ELSE Ends(Loaded(s, n), Running)

(* emptyCreep of haul.ts *)
Unload(s) ==
  IF Dropoff = None \/ s.cargo = 0 THEN Ends(s, Failure)
  ELSE Ends([s EXCEPT !.cargo = 0], Success)

(* selectDropoff of a worker: the dropoff of its task is forgotten by then,  *)
(* and there is no storage.                                                  *)
SelectDropoff(s) ==
  IF s.need > 0 THEN Ends([s EXCEPT !.dest = "spawn"], Success) ELSE Ends(s, Failure)

(* emptyToDestination; a full destination takes nothing.                     *)
Fill(s) ==
  LET n == Min({s.cargo, s.need})
  IN  IF s.cargo = 0 THEN Ends(s, Failure)
      ELSE Ends([s EXCEPT !.cargo = @ - n, !.need = @ - n], Success)

(* selectInfrastructureSites *)
SelectSite(s) ==
  IF s.site THEN Ends([s EXCEPT !.dest = "site"], Success) ELSE Ends(s, Failure)

Used(s) == [s EXCEPT !.cargo = @ - 1]

(* build; the site may be finished by it.                                    *)
Build(s) ==
  IF ~s.site \/ s.cargo = 0 THEN Ends(s, Success)
  ELSE UNION {Ends([Used(s) EXCEPT !.site = left], Running) : left \in BOOLEAN}

(* upgrade_controller *)
Upgrade(s) == IF s.cargo = 0 THEN Ends(s, Success) ELSE Ends(Used(s), Running)

Holds(s, condition) == Ends(s, IF condition THEN Success ELSE Failure)

-----------------------------------------------------------------------------
(* The trees, without setCommuteDuration, which only notes a number.  States *)
(* are those a tree may be ticked in.                                        *)
States ==
  [saved : [Nodes -> Nat], task : Pickups \cup {None}, dest : Structures \cup {None},
   path : Objects \cup {"room", None}, at : Objects \cup {"inside"}, cargo : 0..Capacity,
   content : [Pickups -> Nat], open : [Pickups -> Nat], expiring : [Pickups -> Nat],
   need : Nat, site : BOOLEAN, blocked : BOOLEAN]

(* The leaves as nodes *)
ClearHaulTask == [s \in States |-> Ends(Forget(s), Success)]
PickHaulTask == [s \in States |-> TakeTask(s)]
ParkingLot == [s \in States |-> Park(s)]
MoveToPickup == [s \in States |-> UNION {MoveTo(s, s.task, found) : found \in Found(s.task, s)}]
LoadResource == [s \in States |-> UNION {Load(s, found) : found \in Found(s.task, s)}]
MoveToDropoff == [s \in States |-> MoveTo(s, Dropoff, TRUE)]
EmptyCreep == [s \in States |-> Unload(s)]
MoveToHome == [s \in States |-> MoveHome(s)]
FailWhenEmpty == [s \in States |-> Holds(s, s.cargo > 0)]
PickDropoff == [s \in States |-> SelectDropoff(s)]
MoveToDestination == [s \in States |-> MoveTo(s, s.dest, s.dest # "site" \/ s.site)]
EmptyToDestination == [s \in States |-> Fill(s)]
SucceedWhenEmpty == [s \in States |-> Holds(s, s.cargo = 0)]
PickSite == [s \in States |-> SelectSite(s)]
BuildIt == [s \in States |-> Build(s)]
PickController == [s \in States |-> Ends([s EXCEPT !.dest = "controller"], Success)]
UpgradeIt == [s \in States |-> Upgrade(s)]

PickSomething ==
  [s \in States |->
     Tick(SelectorNode("pick_something", s) & PickHaulTask & ParkingLot)]

HaulTask ==
  [s \in States |->
     Tick(SequenceNode("haul_task", s)
            & ClearHaulTask & PickSomething & MoveToPickup & LoadResource
            & MoveToDropoff & EmptyCreep)]

DumpEnergy ==
  [s \in States |->
     Tick(SequenceNode("dump_energy", s)
            & FailWhenEmpty & PickDropoff & MoveToDestination & EmptyToDestination)]

BuildSite ==
  [s \in States |->
     Tick(SequenceNode("build_construction_site", s)
            & PickSite & MoveToDestination & BuildIt)]

UpgradeController ==
  [s \in States |->
     Tick(SequenceNode("upgrade_controller", s)
            & PickController & MoveToDestination & RepeatUntilSuccess(UpgradeIt))]

UseEnergy ==
  [s \in States |->
     Tick(SelectorNode("dump_or_build_or_upgrade", s)
            & RepeatUntilFailure(DumpEnergy) & SucceedWhenEmpty
            & BuildSite & SucceedWhenEmpty & UpgradeController)]

HaulEnergy ==
  [s \in States |->
     Tick(SequenceNode("haul_energy", s)
            & ClearHaulTask & MoveToHome & PickSomething
            & MoveToPickup & LoadResource & ClearHaulTask & UseEnergy)]

Behavior(c) == IF c \in Haulers THEN HaulTask ELSE HaulEnergy

-----------------------------------------------------------------------------
Init ==
  /\ home \in Bases
  /\ alive = {} /\ roster = {}
  /\ memory = [c \in Creeps |-> Fresh]
  /\ body = [c \in Creeps |-> [at |-> "inside", cargo |-> 0]]
  /\ content = [p \in Pickups |-> 0]
  /\ open = [p \in Pickups |-> 0] /\ expiring = open
  /\ need = 0 /\ site = FALSE /\ calm = FALSE

(* The state a creep's tree is ticked in *)
View(c, blocked) ==
  [saved |-> memory[c].saved, task |-> memory[c].task, dest |-> memory[c].dest,
   path |-> memory[c].path, at |-> body[c].at, cargo |-> body[c].cargo,
   content |-> content, open |-> open, expiring |-> expiring,
   need |-> need, site |-> site, blocked |-> blocked]

(* A run of a creep's process *)
CreepRuns(c, blocked) ==
  /\ c \in alive /\ (calm => ~blocked)
  /\ UNCHANGED <<alive, roster, home, calm>>
  /\ \E o \in Behavior(c)[View(c, blocked)] :
       LET s == o.state IN
       /\ memory' = [memory EXCEPT ![c] =
            [saved |-> s.saved, task |-> s.task, dest |-> s.dest, path |-> s.path]]
       /\ body' = [body EXCEPT ![c] = [at |-> s.at, cargo |-> s.cargo]]
       /\ content' = s.content /\ open' = s.open /\ expiring' = s.expiring
       /\ need' = s.need /\ site' = s.site

-----------------------------------------------------------------------------
(* The requests *)

(* What the creeps of cs that are on a task for p can still carry: so many   *)
(* units, each in its own place.                                             *)
Coming(p, cs) ==
  Cardinality(UNION {{c} \X (1..Free(body[c])) : c \in {d \in cs : memory[d].task = p}})

(* The whole loads in p that nobody of cs comes for *)
Loads(p, cs) ==
  LET untasked == content[p] - Coming(p, cs)
  IN  IF untasked < 0 THEN 0 ELSE untasked \div Capacity

(* The requests made a ttl ago are open for this tick still.                 *)
Ask(p, n) ==
  /\ UNCHANGED <<creeps, roster, room, calm>>
  /\ expiring[p] = 0 /\ n + open[p] > 0
  /\ open' = [open EXCEPT ![p] = n] /\ expiring' = [expiring EXCEPT ![p] = open[p]]

(* requestHauling of a source, which looks at the creeps there are           *)
RequestHauling(p) == p \in Containers /\ Ask(p, Loads(p, alive))

(* requestHaulDroppedResources, which looks at the roster                    *)
RequestDropped(p) == p \in Piles /\ Ask(p, Loads(p, roster))

(* requestHaulTombstonesAndRuins: one request, unless somebody comes         *)
RequestGrave(p) ==
  /\ p \in Graves
  /\ Ask(p, IF content[p] > 0 /\ \A c \in roster : memory[c].task # p THEN 1 ELSE 0)

Requests(p) == RequestHauling(p) \/ RequestDropped(p) \/ RequestGrave(p)

(* removeStale, in the tick after *)
RequestsExpire(p) ==
  /\ expiring[p] > 0
  /\ expiring' = [expiring EXCEPT ![p] = 0]
  /\ UNCHANGED <<creeps, open, roster, room, calm>>

(* updateHaulers *)
UpdateHaulers ==
  /\ roster # alive
  /\ roster' = alive
  /\ UNCHANGED <<creeps, open, expiring, room, calm>>

(* A global reset: the topics are lost, and the first run of the logistics   *)
(* process after it makes a new roster.                                      *)
GlobalReset ==
  /\ ~calm
  /\ open' = [p \in Pickups |-> 0] /\ expiring' = open'
  /\ roster' = alive
  /\ UNCHANGED <<creeps, room, calm>>

-----------------------------------------------------------------------------
(* Creeps and energy come and go *)
Spawns(c) ==
  /\ c \in Wanted \ (alive \cup roster) /\ memory[c] = Fresh
  /\ alive' = alive \cup {c}
  /\ body' = [body EXCEPT ![c] = [at |-> "inside", cargo |-> 0]]
  /\ UNCHANGED <<memory, base, room, calm>>

Dies(c) ==
  /\ ~calm /\ c \in alive \cap Mortal
  /\ alive' = alive \ {c}
  /\ UNCHANGED <<memory, body, base, room, calm>>

(* CreepManager's cleanup of the memory of dead creeps *)
MemoryExpires(c) ==
  /\ c \notin alive /\ memory[c] # Fresh
  /\ memory' = [memory EXCEPT ![c] = Fresh]
  /\ UNCHANGED <<alive, body, base, room, calm>>

(* Nobody knows the id of p. *)
Unknown(p) == open[p] + expiring[p] = 0 /\ \A c \in Creeps : memory[c].task # p

(* Miners fill the containers and drop what does not fit; a new pile, and a  *)
(* new tombstone, has an id of its own.                                      *)
Produced(p) ==
  /\ p \in home.pickups /\ content[p] < MaxContent
  /\ p \in Piles /\ content[p] = 0 => Unknown(p)
  /\ p \in Graves => content[p] = 0 /\ Unknown(p)
  /\ content' = [content EXCEPT ![p] = @ + 1]
  /\ UNCHANGED <<creeps, base, home, need, site, calm>>

Decays(p) ==
  /\ ~calm /\ p \notin Containers /\ content[p] > 0
  /\ content' = [content EXCEPT ![p] = IF p \in Graves THEN 0 ELSE @ - 1]
  /\ UNCHANGED <<creeps, base, home, need, site, calm>>

(* Spawning takes energy, and sites are planned. *)
EnergyUsed ==
  /\ ~home.storage /\ need < MaxNeed
  /\ need' = need + 1
  /\ UNCHANGED <<creeps, base, home, content, site, calm>>

SitePlanned ==
  /\ ~home.storage /\ ~site
  /\ site' = TRUE
  /\ UNCHANGED <<creeps, base, home, content, need, calm>>

(* From now on no creep is blocked or dies, nothing decays and the global is *)
(* not reset.                                                                *)
CalmsDown ==
  /\ ~calm
  /\ calm' = TRUE
  /\ UNCHANGED <<creeps, base, room>>

Next ==
  \/ \E c \in Creeps : \/ \E blocked \in BOOLEAN : CreepRuns(c, blocked)
                        \/ Spawns(c) \/ Dies(c) \/ MemoryExpires(c)
  \/ \E p \in Pickups : Requests(p) \/ RequestsExpire(p) \/ Produced(p) \/ Decays(p)
  \/ UpdateHaulers \/ GlobalReset \/ EnergyUsed \/ SitePlanned \/ CalmsDown

Spec == Init /\ [][Next]_vars

(* Processes and threads run again and again, and lost creeps are replaced.  *)
FairSpec ==
  /\ Spec
  /\ \A c \in Creeps :
       WF_vars(calm /\ (CreepRuns(c, FALSE) \/ Spawns(c) \/ MemoryExpires(c)))
  /\ \A p \in Pickups : WF_vars(calm /\ (Requests(p) \/ RequestsExpire(p)))
  /\ WF_vars(calm /\ UpdateHaulers)

-----------------------------------------------------------------------------
(* A creep whose tree is past the arrival at its pickup                      *)
HasFetched(c) == memory[c].saved["haul_task"] >= 3 \/ memory[c].saved["haul_energy"] >= 4

(* The keys of a path stay in memory when no path is found, when a creep     *)
(* comes home, and across ticks on their own, so they may lead to what has   *)
(* been given up.  They never do so with a creep that has been at its        *)
(* pickup: that arrival clears whatever was left, and until the round of its *)
(* tree is over it is led to what it may bring its load to, or not at all.   *)
PathsFollowed ==
  \A c \in alive : HasFetched(c) => memory[c].path \in {None} \cup Structures

(* When things have calmed down, a pickup with a load in it is fetched from, *)
(* whoever died, was lost or was asked twice before: the requests for it are *)
(* made again, and no task of a creep that has given it up keeps them away.  *)
PickupsFetched ==
  \A p \in Pickups : calm /\ content[p] >= Capacity ~> content[p] < Capacity

(* Where the tree of a creep that has fetched is taking it                   *)
Goal(c) ==
  LET At(n, i) == memory[c].saved[n] = i
  IN  IF At("haul_task", 4) THEN Dropoff
      ELSE IF At("dump_energy", 2) \/ At("build_construction_site", 1)
                \/ At("upgrade_controller", 1) THEN memory[c].dest
      ELSE None

(* A full creep that is done at its pickup, and is not misled                *)
BringsLoad(c) ==
  Free(body[c]) = 0 /\ HasFetched(c) /\ memory[c].path \in {None, Goal(c)}

(* When things have calmed down, such a creep goes on until it gives from    *)
(* its load: no index saved in a tree, stale path or vanished destination    *)
(* ends its round before, and sends it on with a full load to fetch more.    *)
(* Only a worker that could not get to one use of its energy and has turned  *)
(* to the next may be misled, and then ends its round.  A creep that is not  *)
(* full may be left with its cargo: another one takes the rest of its pile,  *)
(* and that ends the round.                                                  *)
LoadsDelivered ==
  [][\A c \in alive : calm /\ BringsLoad(c) => BringsLoad(c)' \/ Free(body'[c]) > 0]_vars
=============================================================================

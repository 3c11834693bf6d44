------------------------------ MODULE BaseCore ------------------------------
(* The core of a base: links, towers and distributors around one topic and   *)
(* one reserve of energy.  Links and extensions are to be supplied, towers   *)
(* are to have energy for their shots and repairs, and the distributors do   *)
(* all the carrying, by the priorities of the requests.                      *)
EXTENDS Links, Towers, Distributors

vars == <<room, haul, towers, lists, hits, enemies, creeps>>

Init ==
  /\ home \in Homes
  /\ content = [o \in Objects |-> 0]
  /\ reserve = "plenty"
  /\ topic = {} /\ calm = FALSE
  /\ haul = "due"
  /\ waits = home.towers
  /\ target = [t \in Towers |-> None]
  /\ damaged = << >> /\ secondary = << >>
  /\ hits = [o \in Structures \cup Walls \cup Hostiles |-> IF o \in Hostiles THEN 0 ELSE MaxHits]
  /\ healing = [h \in Hostiles |-> 0]
  /\ listed = [h \in Hostiles |-> None]
  /\ alive = {}
  /\ memory = [c \in Distributors |-> Fresh]
  /\ cargo = [c \in Distributors |-> Empty]

(* A distributor that picks a task in its next run.  Requests are open for   *)
(* ten ticks: when all goes well such a distributor runs before they expire. *)
Idle(c) == c \in alive /\ memory[c].saved["core_task_or_extensions"] = 0

Expire == calm /\ topic' # topic => \A c \in Distributors : ~Idle(c)

RequestExpires(r) ==
  /\ r.kind \in {"ext", "lab"}
  /\ topic' = topic \ {r}
  /\ Expire
  /\ UNCHANGED <<home, content, reserve, calm, haul, towers, lists, hits, enemies, creeps>>

-----------------------------------------------------------------------------
(* Each part with the others at rest *)
LinkStep ==
  /\ UNCHANGED <<towers, lists, hits, enemies, creeps>>
  /\ \/ \E cold \in SUBSET Senders : LinksRun(cold)
     \/ (HaulWaits /\ Expire) \/ ManagerRestarts
     \/ \E l \in LinkSet : SourceFills(l) \/ SinkUsed(l)

TowerStep ==
  /\ UNCHANGED <<haul, creeps>>
  /\ \/ \E t \in Towers : TowerRuns(t) \/ (TowerWaited(t) /\ Expire)
     \/ UpdateDamaged \/ UpdateSecondary \/ DefenseRuns
     \/ \E h \in Hostiles : TargetExpires(h) \/ HostileArrives(h) \/ HostileActs(h)
     \/ \E s \in Structures \cup Walls : Damage(s) \/ Rebuild(s)

DistributorStep ==
  /\ UNCHANGED <<haul, towers, lists, hits, enemies>>
  /\ \/ \E c \in Distributors :
          \/ \E blocked \in BOOLEAN : DistributorRuns(c, blocked)
          \/ DistributorSpawns(c, Present # {}) \/ DistributorDies(c)
     \/ \E e \in Extensions : FillExtension(e)

(* A reactor asks for a mineral, once at a time. *)
LabAsks(l) ==
  /\ l \in home.labs /\ Free(l) > 0 /\ RequestsOf({"lab"}, l) = {}
  /\ topic' = topic \cup {NewRequest("lab", l, Free(l))}
  /\ UNCHANGED <<home, content, reserve, calm>>

(* Spawns take energy and labs react. *)
Used(o) ==
  /\ ~calm /\ o \in home.extensions \cup home.labs /\ content[o] > 0
  /\ content' = [content EXCEPT ![o] = @ - 1]
  /\ UNCHANGED <<home, reserve, topic, calm>>

(* What haulers bring and terminals send *)
ReserveChanges ==
  /\ ~calm /\ reserve' \in home.reserves \ {reserve}
  /\ UNCHANGED <<home, content, topic, calm>>

(* From now on no creep is blocked or dies, nobody attacks or damages        *)
(* anything, the reserve is neither short nor full and the CPU is enough.    *)
CalmsDown ==
  /\ ~calm
  /\ calm' = TRUE /\ reserve' = "plenty"
  /\ UNCHANGED <<home, content, topic>>

RoomStep ==
  /\ UNCHANGED <<haul, towers, lists, hits, enemies, creeps>>
  /\ \/ \E l \in Labs : LabAsks(l)
     \/ \E o \in Extensions \cup Labs : Used(o)
     \/ ReserveChanges \/ CalmsDown

Next ==
  \/ LinkStep \/ TowerStep \/ DistributorStep \/ RoomStep
  \/ \E r \in topic : RequestExpires(r)

Spec == Init /\ [][Next]_vars

(* The processes and threads of the base run again and again, ttls and       *)
(* cooldowns pass, and lost distributors are replaced.                       *)
FairSpec ==
  /\ Spec
  /\ WF_vars(calm /\ UNCHANGED <<towers, lists, hits, enemies, creeps>> /\ LinksRun({}))
  /\ WF_vars(calm /\ UNCHANGED <<towers, lists, hits, enemies, creeps>> /\ HaulWaits /\ Expire)
  /\ \A t \in Towers :
       /\ WF_vars(calm /\ UNCHANGED <<haul, creeps>> /\ TowerRuns(t))
       /\ WF_vars(calm /\ UNCHANGED <<haul, creeps>> /\ TowerWaited(t) /\ Expire)
  /\ WF_vars(calm /\ UNCHANGED <<haul, creeps>> /\ UpdateDamaged)
  /\ WF_vars(calm /\ UNCHANGED <<haul, creeps>> /\ UpdateSecondary)
  /\ WF_vars(calm /\ UNCHANGED <<haul, creeps>> /\ DefenseRuns)
  /\ \A h \in Hostiles : WF_vars(calm /\ UNCHANGED <<haul, creeps>> /\ TargetExpires(h))
  /\ \A c \in Distributors :
       WF_vars(/\ calm /\ UNCHANGED <<haul, towers, lists, hits, enemies>>
               /\ DistributorRuns(c, FALSE) \/ DistributorSpawns(c, FALSE))
  /\ \A e \in Extensions :
       WF_vars(calm /\ UNCHANGED <<haul, towers, lists, hits, enemies>> /\ FillExtension(e))

-----------------------------------------------------------------------------
(* A distributor never carries two resources, although what it has left over *)
(* from one task comes along to the next and the reserve may be full when it *)
(* wants to be rid of it.  Only so does deliver, which gives away the last   *)
(* key of the store, give what was asked for.                                *)
NeverMixed ==
  \A c \in alive : Cardinality(Loaded(cargo[c])) <= 1

(* What is short of energy: a tower asks, an extension is not full, the      *)
(* controller's link is empty.                                               *)
Short(o) ==
  \/ o \in home.towers /\ NeedsEnergy(o)
  \/ o \in home.extensions /\ Free(o) > 0
  \/ home.links /\ o \in Range(SinkLinks) /\ content[o] = 0

(* When things have calmed down, whatever is short gets supplied: requests   *)
(* are made again for what nobody brought, lower priorities get their turn,  *)
(* and distributors that have lost a task start over.                        *)
Supplied ==
  \A o \in Towers \cup Extensions \cup Range(SinkLinks) : []<>(~calm \/ ~Short(o))

(* The towers of a base that could beat a hostile together do, although each *)
(* counts the powered ones at its own run and shoots at a list up to five    *)
(* ticks old.                                                                *)
Beatable(h) == h \in Present /\ healing[h] < Cardinality(home.towers)

HostilesBeaten == \A h \in Hostiles : []<>(~calm \/ ~Beatable(h))

(* What is damaged is repaired, although towers drop targets, entries taken  *)
(* from the shared lists are lost, and walls take their turn only after the  *)
(* other structures.                                                         *)
Worn(s) ==
  \/ s \in home.structures /\ Mendable(s)
  \/ s \in home.walls /\ hits[s] \in 1..(WallLimit - 1)

DamageRepaired ==
  \A s \in Structures \cup Walls : []<>(~calm \/ ~Worn(s) \/ \E h \in Hostiles : Beatable(h))
=============================================================================

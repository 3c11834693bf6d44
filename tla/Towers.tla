------------------------------- MODULE Towers -------------------------------
(* The towers of a base (src/base/tower.ts), what tells them what to shoot   *)
(* at (src/base/defense.ts) and what to repair (src/base/repair.ts).         *)
(*                                                                           *)
(* Healing comes in units of what one tower can beat: 600.  A wall is worth  *)
(* repairing below WallLimit and misses less than 100000 hits from there on. *)
EXTENDS BaseRoom, FiniteSets, SequencesExt

CONSTANTS
  MaxHits,      \* of a structure, a wall and a hostile; 0 is destroyed
  WallLimit,    \* defenseHitsLimit
  Healings      \* the units of healing there may be around a hostile, as counted here

ASSUME TowersAssumption == MaxHits \in Nat \ {0} /\ WallLimit \in 1..MaxHits /\ Healings \subseteq Nat

VARIABLES
  waits,      \* the towers with haulTTL >= 0
  target,     \* repairTarget
  damaged,    \* base.damagedStructures
  secondary,  \* base.damagedSecondaryStructures
  hits,       \* of structures, walls and hostiles
  healing,    \* the healing around a hostile
  listed      \* the healing in the request for a hostile in the target topic

towers == <<waits, target>>
lists == <<damaged, secondary>>
enemies == <<healing, listed>>

(* Below 500 energy a tower asks, below 250 it does not repair.              *)
RequestThreshold == 3
EmergencyReserve == 2

Repairable == home.structures \cup home.walls
Present == {h \in home.hostiles : hits[h] > 0}

-----------------------------------------------------------------------------
(* TowerRunnable.run asks first ...                                          *)
WrongNeedsEnergy(t) == content[t] < RequestThreshold - EmergencyReserve

NeedsEnergy(t) == content[t] < RequestThreshold

RequestEnergy(t) ==
  IF NeedsEnergy(t) /\ t \notin waits
  THEN /\ waits' = waits \cup {t}
       /\ topic' = IF HasPickup THEN topic \cup {NewRequest("tel", t, Free(t))} ELSE topic
  ELSE UNCHANGED <<waits, topic>>

(* ... and then does the first of these: shoot, ...                          *)
Powered == {t \in home.towers : content[t] > 0}

Targets == {h \in Hostiles : listed[h] # None /\ Cardinality(Powered) > listed[h]}

(* targets[0]: requests are in ascending order of their healing.             *)
FirstTargets == {h \in Targets : \A g \in Targets : listed[h] <= listed[g]}

(* An action of a tower takes a little of its energy.                        *)
Spends(t) == content' \in {content, [content EXCEPT ![t] = @ - 1]}

(* The first target may be gone, and a tower without energy does no harm.    *)
Shoots(t) ==
  \E h \in FirstTargets :
    IF h \in Present /\ content[t] > 0
    THEN Spends(t) /\ hits' = [hits EXCEPT ![h] = @ - 1]
    ELSE UNCHANGED <<content, hits>>

Attack(t) ==
  /\ Targets # {}
  /\ Shoots(t)
  /\ UNCHANGED <<target, lists>>

(* ... spare its energy or, in a low bucket, the CPU, ...                    *)
Spare(t) ==
  /\ Targets = {}
  /\ content[t] < EmergencyReserve \/ ~calm
  /\ UNCHANGED <<content, hits, target, lists>>

(* ... or repair.  A target is dropped after a while, when it is as good as  *)
(* new, and when it is gone.                                                 *)
Mendable(s) == hits[s] \in 1..(MaxHits - 1)

DropTarget(t) ==
  {None} \cup (IF target[t] # None /\ Mendable(target[t]) THEN {target[t]} ELSE {})

(* The first of base.damagedSecondaryStructures is left in the list when it  *)
(* misses 100000 hits, for the next tower, and when it is gone.              *)
NearlyDone(s) == hits[s] >= WallLimit

TakeSecondary ==
  IF secondary = << >> \/ hits[Head(secondary)] = 0 THEN [next |-> None, rest |-> secondary]
  ELSE [next |-> Head(secondary),
        rest |-> IF NearlyDone(Head(secondary)) THEN Tail(secondary) ELSE secondary]

(* With little energy in reserve nothing is repaired, and what was taken     *)
(* from the first list is not put back.                                      *)
Choose(t, kept) ==
  LET primary == kept = None /\ damaged # << >>
      aim == IF primary THEN Head(damaged) ELSE kept
      second == aim = None /\ reserve \notin {"empty", "low"}
  IN  /\ damaged' = IF primary THEN Tail(damaged) ELSE damaged
      /\ secondary' = IF second THEN TakeSecondary.rest ELSE secondary
      /\ target' = [target EXCEPT ![t] =
           IF reserve \in {"empty", "low"} THEN None
           ELSE IF second THEN TakeSecondary.next
           ELSE IF aim # None /\ hits[aim] = 0 THEN None ELSE aim]

Repair(t) ==
  /\ Targets = {} /\ content[t] >= EmergencyReserve
  /\ \E kept \in DropTarget(t) : Choose(t, kept)
  /\ LET aim == target'[t] IN
     IF aim # None /\ Mendable(aim)
     THEN Spends(t) /\ hits' = [hits EXCEPT ![aim] = @ + 1]
     ELSE UNCHANGED <<content, hits>>

TowerRuns(t) ==
  /\ t \in home.towers
  /\ RequestEnergy(t)
  /\ Attack(t) \/ Spare(t) \/ Repair(t)
  /\ UNCHANGED <<home, reserve, calm, enemies>>

WrongTowerWaited(t) ==
  /\ t \in waits
  /\ topic' = topic \ RequestsOf({"tel"}, t)
  /\ UNCHANGED <<home, content, reserve, calm, waits, target, lists, hits, enemies>>

(* haulTTL falls below 0, when the request is stale.                         *)
TowerWaited(t) ==
  /\ t \in waits
  /\ waits' = waits \ {t}
  /\ topic' = topic \ RequestsOf({"tel"}, t)
  /\ UNCHANGED <<home, content, reserve, calm, target, lists, hits, enemies>>

-----------------------------------------------------------------------------
(* RepairRunnable's two threads *)
UpdateDamaged ==
  /\ damaged' \in SetToSeqs({s \in home.structures : Mendable(s)})
  /\ UNCHANGED <<room, towers, secondary, hits, enemies>>

Weaker(s, w) == hits[s] < hits[w]

UpdateSecondary ==
  /\ secondary' = SetToSortSeq({w \in home.walls : hits[w] \in 1..(WallLimit - 1)}, Weaker)
  /\ UNCHANGED <<room, towers, damaged, hits, enemies>>

(* addHostilesToBaseTargetTopic *)
DefenseRuns ==
  /\ listed' = [h \in Hostiles |-> IF h \in Present THEN healing[h] ELSE listed[h]]
  /\ UNCHANGED <<room, towers, lists, hits, healing>>

(* A request is not made again when the hostile is gone or the process late. *)
TargetExpires(h) ==
  /\ listed[h] # None /\ (calm => h \notin Present)
  /\ listed' = [listed EXCEPT ![h] = None]
  /\ UNCHANGED <<room, towers, lists, hits, healing>>

-----------------------------------------------------------------------------
(* Hostiles come, are healed, move next to others and leave; what they hit   *)
(* is damaged and rebuilt.  A new object has an id of its own.               *)
HostileArrives(h) ==
  /\ ~calm /\ h \in home.hostiles \ Present /\ listed[h] = None
  /\ hits' = [hits EXCEPT ![h] = MaxHits]
  /\ \E n \in Healings : healing' = [healing EXCEPT ![h] = n]
  /\ UNCHANGED <<room, towers, lists, listed>>

HostileActs(h) ==
  /\ ~calm /\ h \in Present
  /\ \/ hits' = [hits EXCEPT ![h] = MaxHits] /\ UNCHANGED healing
     \/ hits' = [hits EXCEPT ![h] = 0] /\ UNCHANGED healing
     \/ \E n \in Healings : healing' = [healing EXCEPT ![h] = n] /\ UNCHANGED hits
  /\ UNCHANGED <<room, towers, lists, listed>>

Damage(s) ==
  /\ ~calm /\ s \in Repairable /\ hits[s] > 0
  /\ hits' = [hits EXCEPT ![s] = @ - 1]
  /\ UNCHANGED <<room, towers, lists, enemies>>

Known(s) == s \in Range(damaged) \cup Range(secondary) \cup Range(target)

Rebuild(s) ==
  /\ ~calm /\ s \in Repairable /\ hits[s] = 0 /\ ~Known(s)
  /\ hits' = [hits EXCEPT ![s] = 1]
  /\ UNCHANGED <<room, towers, lists, enemies>>
=============================================================================

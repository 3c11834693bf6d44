------------------------------ MODULE Boosters ------------------------------
(* Boosts: a spawn manager that asks for the boosts of the creep in its      *)
(* spawn (src/base/spawning.ts), the booster that has the labs loaded for it *)
(* (src/base/booster.ts), the base which learns from the booster where that  *)
(* is (src/base/runnable.ts), and the creep (src/creeps/behavior/boosts.ts). *)
(*                                                                           *)
(* updateBoosters looks up the mineral of a lab among the effects: it throws *)
(* when any lab is loaded, and no creep ever finds a lab for an action.  Its *)
(* thread is called before it throws and not due in the next tick, in which  *)
(* the booster runs again.                                                   *)
EXTENDS Labs, SequencesExt

CONSTANTS
  Effects,     \* the effects of boosts, a sequence in the order of BOOSTS
  EffectsOf    \* the effects of a compound

VARIABLES
  prepare,    \* whether the boosts of the creep in the spawn are on BOOST_PREP
  spawning,   \* whether there is a creep in the spawn
  spawnIn,    \* ticks until the spawn manager looks
  boosterIn,  \* ticks until the booster runs
  updated,    \* whether its thread ran less than five ticks before that
  published,  \* whether the base knows the position for boosts
  creep       \* BOOST_PHASE of a creep

boosting == <<prepare, spawning, spawnIn, boosterIn, updated, published, creep>>

Booster == {p \in processes : p.site = BoosterSpots /\ Intact(p)}

(* getLabByResource: the first one *)
LabByResource(c) == Head(SelectSeq(BoosterSpots, LAMBDA s : content[s].mineral = c))
EmptyLabs == SelectSeq(BoosterSpots, LAMBDA s : content[s].mineral = None)
LoadedLabs == {s \in Range(BoosterSpots) : content[s].mineral # None}

(* compounds[0] of a loaded effect *)
LoadedCompounds(e) ==
  SelectSeq(Compounds, LAMBDA c : e \in EffectsOf[c]
                                    /\ \E s \in LoadedLabs : content[s].mineral = c)
LoadedEffects == SelectSeq(Effects, LAMBDA e : LoadedCompounds(e) # << >>)
CompoundOf(e) == Head(LoadedCompounds(e))

PreparedNames(desired) ==
  {e \in Range(LoadedEffects) \cap Range(desired) :
     content[LabByResource(CompoundOf(e))].amount >= MinCompound}

(* getNeeds *)
NeedToLoad(desired) == SelectSeq(desired, LAMBDA e : e \notin PreparedNames(desired))
CouldUnload(desired) == SelectSeq(LoadedEffects, LAMBDA e : e \notin PreparedNames(desired))

FirstOf(q, n) == SubSeq(q, 1, Min({n, Len(q)}))

(* The tasks in the memory of the creeps of the base *)
AssignedTasks == {hauls[d] : d \in Distributors} \ {None}

(* requestMaterialsForLabs: all for the first empty lab, unless something is *)
(* already on the way there; the strongest compound of which there is enough *)
Materials(names) ==
  LET s == Head(EmptyLabs)
      enough(e) ==
        SelectSeq(Compounds, LAMBDA c : e \in EffectsOf[c] /\ stored[c] >= MinCompound)
  IN  IF EmptyLabs = << >> \/ \E r \in AssignedTasks : r.kind = "load" /\ r.spot = s THEN {}
      ELSE {NewRequest("load", s, Last(enough(e)), MaxCompound)
              : e \in {e \in Range(names) : enough(e) # << >>}}

(* requestUnloadOfLabs, unless a creep does it already *)
Unloads(names) ==
  LET unload(e) ==
        NewRequest("unload", LabByResource(CompoundOf(e)), CompoundOf(e),
                   content[LabByResource(CompoundOf(e))].amount)
      underway(q) ==
        \E r \in AssignedTasks :
          r.kind \in Unloading /\ r.spot = q.spot /\ r.mineral = q.mineral
  IN  IF ~reserve.space THEN {} ELSE {q \in {unload(e) : e \in Range(names)} : ~underway(q)}

(* sendHaulRequests *)
HaulRequests(desired) ==
  LET need == NeedToLoad(desired)
  IN  Materials(FirstOf(need, Len(EmptyLabs)))
        \cup Unloads(FirstOf(CouldUnload(desired), Len(need) - Len(EmptyLabs)))

(* rebalanceLabs *)
Returns(c) ==
  IF c.amount < MinCompound THEN c.amount
  ELSE IF c.amount > MaxCompound THEN c.amount - MaxCompound ELSE 0

Rebalance ==
  {NewRequest("return", s, content[s].mineral, Returns(content[s]))
     : s \in {s \in LoadedLabs : reserve.space /\ Returns(content[s]) > 0}}

(* requestEnergyForLabs; it throws when there is none.                       *)
Unpowered == Range(BoosterSpots) \ powered
EnergyRequests == {NewRequest("energy", s, None, 0) : s \in Unpowered}

(* The thread is due five ticks after it was last called.                    *)
WrongDue == TRUE
Due == ~updated

(* BaseRunnable.updateBoosters: the base learns what was published.          *)
UpdateBoosters == published' = (published \/ Due)

(* A run that throws is repeated in the next tick.                           *)
Throws(asked) ==
  /\ boosterIn' = 1
  /\ topic' = asked
  /\ UNCHANGED published

BoosterRuns ==
  LET desired == IF prepare THEN home.wish ELSE << >>
      asked == EnergyRequests \cup (IF prepare THEN HaulRequests(desired) ELSE Rebalance)
  IN  /\ Booster # {} /\ boosterIn = 0
      /\ prepare' = FALSE
      /\ \/ /\ Unpowered # {} /\ ~reserve.energy
            /\ Throws(topic) /\ UNCHANGED updated
         \/ /\ Unpowered = {} \/ reserve.energy
            /\ Due /\ LoadedLabs # {}
            /\ Throws(topic \cup EnergyRequests) /\ updated' = TRUE
         \/ /\ Unpowered = {} \/ reserve.energy
            /\ ~Due \/ LoadedLabs = {}
            /\ topic' = topic \cup asked
            /\ UpdateBoosters
            /\ boosterIn' = Interval /\ updated' = FALSE
      /\ UNCHANGED <<home, lab, stores, reserve, hauls, assigned, processes, calm,
                     spawning, spawnIn, creep>>

-----------------------------------------------------------------------------
(* handleActiveSpawning: boosts are asked for as long as the creep spawns.   *)
SpawnManagerRuns ==
  /\ spawnIn = 0 /\ home.wish # << >>
  /\ spawnIn' = Interval
  /\ prepare' = (prepare \/ spawning)
  /\ UNCHANGED <<labs, spawning, boosterIn, updated, published, creep>>

(* A creep is spawned, and the next one may follow. *)
SpawnStarts ==
  /\ home.wish # << >>
  /\ ~spawning /\ spawning' = TRUE
  /\ UNCHANGED <<labs, prepare, spawnIn, boosterIn, updated, published, creep>>

SpawnEnds ==
  /\ spawning /\ Trouble("spawn")
  /\ spawning' = FALSE
  /\ creep' = IF creep = None THEN "start" ELSE creep
  /\ UNCHANGED <<labs, prepare, spawnIn, boosterIn, updated, published>>

CreepDies ==
  /\ Trouble("spawn") /\ creep # None
  /\ creep' = None
  /\ UNCHANGED <<labs, prepare, spawning, spawnIn, boosterIn, updated, published>>

(* BOOST_PREP is shared by all bases, and requests on it go stale.           *)
PrepareLost ==
  /\ Trouble("spawn") /\ prepare
  /\ prepare' = FALSE
  /\ UNCHANGED <<labs, spawning, spawnIn, boosterIn, updated, published, creep>>

Ready == "done"

GetBoosted(there) ==
  /\ creep \in {"start", "move", "ready"} /\ (calm => there)
  /\ creep' = IF ~published THEN "done"
              ELSE IF creep = "ready" THEN Ready
              ELSE IF there THEN "ready" ELSE "move"
  /\ UNCHANGED <<labs, prepare, spawning, spawnIn, boosterIn, updated, published>>
=============================================================================

------------------------------ MODULE Industry ------------------------------
(* Labs and terminal of a base at work: LabsManager, a booster, reactors and *)
(* a terminal, which share the distributors.                                 *)
EXTENDS Boosters, ReactorLabs, Terminals

vars == <<labs, boosting, task, terminal>>

Init ==
  /\ home \in Homes
  /\ lab = [s \in Spots |-> IF \E site \in home.sites : s \in Range(site) THEN 1 ELSE 0]
  /\ content = home.content /\ powered = home.powered /\ stored = home.stored
  /\ reserve \in home.reserves
  /\ topic = {} /\ hauls = [d \in Distributors |-> None]
  /\ assigned = None /\ processes = {} /\ calm = (home.troubles = {})
  /\ prepare = FALSE /\ spawning = FALSE
  /\ spawnIn \in (IF home.wish = << >> THEN {0} ELSE 0..Interval - 1) /\ boosterIn = 0
  /\ updated = FALSE /\ published = FALSE /\ creep = None
  /\ task = [s \in Spots |-> None]
  /\ order = (IF HasTerminal THEN home.terminal.order ELSE 0)
  /\ goods = (IF HasTerminal THEN home.terminal.goods ELSE 0)
  /\ surplus = 0 /\ wanted = FALSE /\ held = FALSE

(* A new booster is due at once, and so is its thread.                       *)
ManagerRuns ==
  /\ AssignLabs
  /\ LET new == \E p \in processes' \ processes : p.site = BoosterSpots
     IN  /\ boosterIn' = IF new THEN 0 ELSE boosterIn
         /\ updated' = (updated /\ ~new)
  /\ UNCHANGED <<prepare, spawning, spawnIn, published, creep, task, terminal>>

(* Everything in the heap is lost: topics, processes and threads.  Memory    *)
(* and what creeps remember stay.                                            *)
Restarts ==
  /\ Trouble("restart")
  /\ topic' = {} /\ assigned' = None /\ processes' = {}
  /\ prepare' = FALSE /\ spawnIn' = 0 /\ boosterIn' = 0 /\ updated' = FALSE
  /\ published' = FALSE /\ wanted' = FALSE
  /\ UNCHANGED <<home, lab, stores, reserve, hauls, calm, spawning, creep, task,
                 order, goods, surplus, held>>

(* A tick has passed.  With enough CPU everything that is due has run, and a *)
(* distributor without a task has found none.                                *)
AllRan ==
  /\ home.wish # << >> => spawnIn # 0
  /\ Booster # {} => boosterIn # 0
  /\ topic # {} => \A d \in home.distributors : hauls[d] # None

Before(ticks) == IF ticks = 0 THEN 0 ELSE ticks - 1

(* A booster which is late may find its thread due again. *)
Tick ==
  /\ home.wish # << >> /\ (AllRan \/ Trouble("cpu"))
  /\ spawnIn' = Before(spawnIn) /\ boosterIn' = Before(boosterIn)
  /\ updated' \in (IF updated /\ boosterIn = 0 THEN BOOLEAN ELSE {updated})
  /\ topic' = AfterTick
  /\ UNCHANGED <<home, lab, stores, reserve, hauls, assigned, processes, calm,
                 prepare, spawning, published, creep, task, terminal>>

(* From now on the CPU is enough, no lab is destroyed, no distributor and no *)
(* boosted creep dies, no other base takes requests for boosts, and storage  *)
(* has energy and space.                                                     *)
CalmsDown ==
  /\ ~calm /\ calm' = TRUE
  /\ reserve' = [energy |-> TRUE, space |-> TRUE, storage |-> TRUE]
  /\ UNCHANGED <<home, lab, stores, topic, hauls, assigned, processes, boosting, task, terminal>>

LabStep ==
  /\ UNCHANGED <<boosting, task, terminal>>
  /\ \/ \E p \in processes : Terminates(p)
     \/ \E s \in Spots : LabDestroyed(s) \/ LabBuilt(s)
     \/ \E d \in Distributors : TakeTask(d) \/ Deliver(d) \/ DistributorDies(d)
     \/ \E r \in topic : RequestExpires(r)
     \/ ReserveChanges

BoostStep ==
  /\ UNCHANGED <<task, terminal>>
  /\ \/ SpawnManagerRuns \/ (BoosterRuns /\ (spawnIn # 0 \/ Trouble("cpu")))
     \/ SpawnStarts \/ SpawnEnds \/ CreepDies \/ PrepareLost
     \/ \E there \in BOOLEAN : GetBoosted(there)

ReactorStep ==
  /\ UNCHANGED <<boosting, terminal>>
  /\ \E p \in processes : ReactorRuns(p)

TerminalStep ==
  /\ UNCHANGED <<boosting, task>>
  /\ \/ \E orders, energy \in BOOLEAN : TerminalRuns(orders, energy)
     \/ \E d \in Distributors : DeliverOrder(d) \/ DeliverEnergy(d)
     \/ AskForResource \/ WantedExpires \/ EnergyArrives \/ Sold

Next ==
  \/ ManagerRuns \/ Restarts \/ Tick \/ CalmsDown
  \/ LabStep \/ BoostStep \/ ReactorStep \/ TerminalStep

Spec == Init /\ [][Next]_vars

(* The processes run again and again, labs are built, distributors do their  *)
(* hauls, and the boosted creep gets its turn.  A haul for an order is asked *)
(* for half of the time only, so that other hauls of the terminal come next. *)
TakesEnergy(d) == TakeTask(d) /\ hauls'[d] # None /\ hauls'[d].kind = "surplus"

FairSpec ==
  /\ Spec
  /\ WF_vars(calm /\ Tick) /\ WF_vars(calm /\ ManagerRuns)
  /\ WF_vars(calm /\ UNCHANGED <<task, terminal>> /\ SpawnManagerRuns)
  /\ WF_vars(calm /\ UNCHANGED <<task, terminal>> /\ spawnIn # 0 /\ BoosterRuns)
  /\ WF_vars(calm /\ UNCHANGED <<task, terminal>> /\ SpawnStarts)
  /\ WF_vars(calm /\ UNCHANGED <<task, terminal>> /\ GetBoosted(TRUE))
  /\ WF_vars(calm /\ UNCHANGED <<boosting, task, terminal>> /\ \E p \in processes : Terminates(p))
  /\ \A s \in Spots : WF_vars(calm /\ UNCHANGED <<boosting, task, terminal>> /\ LabBuilt(s))
  /\ \A d \in Distributors :
       /\ WF_vars(calm /\ UNCHANGED <<boosting, task, terminal>> /\ TakeTask(d))
       /\ WF_vars(calm /\ UNCHANGED <<boosting, task, terminal>> /\ Deliver(d))
  /\ \A site \in Reactors :
       WF_vars(/\ calm /\ UNCHANGED <<boosting, terminal>>
               /\ \E p \in processes : p.site = site /\ ReactorRuns(p))
  /\ WF_vars(calm /\ UNCHANGED <<boosting, task>> /\ \E energy \in BOOLEAN : TerminalRuns(TRUE, energy))
  /\ WF_vars(calm /\ UNCHANGED <<boosting, task>> /\ \E orders \in BOOLEAN : TerminalRuns(orders, TRUE))
  /\ \A d \in Distributors :
       /\ WF_vars(calm /\ UNCHANGED <<boosting, task>> /\ DeliverOrder(d))
       /\ WF_vars(calm /\ UNCHANGED <<boosting, task>> /\ DeliverEnergy(d))
  /\ SF_vars(calm /\ UNCHANGED <<boosting, task, terminal>> /\ \E d \in Distributors : TakesEnergy(d))

-----------------------------------------------------------------------------
(* The boosts of the creep in the spawn get loaded, all of them at once,     *)
(* although their requests are gone after one look, be it that of a run      *)
(* which throws, different compounds are sent to one lab, labs are unloaded  *)
(* and filled for one another, and a lab may be lost and built again.  They  *)
(* need not stay so: while a haul lasts, or a request of ten ticks is open,  *)
(* the next run has the same surplus returned once more, and the lab is left *)
(* with too little.                                                          *)
Total(c) ==
  stored[c] + MapThenSumSet(LAMBDA s : IF content[s].mineral = c THEN content[s].amount ELSE 0,
                            Range(BoosterSpots))

Wanted == {e \in Range(home.wish) \cap Range(Effects) :
             \E c \in Range(Compounds) : e \in EffectsOf[c] /\ Total(c) >= MinCompound}

LoadedFor(e) ==
  \E s \in Range(BoosterSpots) :
    /\ content[s].mineral # None /\ e \in EffectsOf[content[s].mineral]
    /\ content[s].amount >= MinCompound

BoostsLoaded == []<>(~calm \/ \A e \in Wanted : LoadedFor(e))


(* What the output lab of a reactor still holds gets back into the storage   *)
(* when its inputs are cleared, although the reactor throws while there is   *)
(* no space and starts over with its task when the processes are restarted.  *)
OutputsUnloaded ==
  \A site \in Reactors :
    []<>(~calm \/ site \notin home.sites \/ Foreign(site) # {} \/ content[site[1]] = Nothing
         \/ (task[site[1]] # None /\ task[site[1]].phase = "load" /\ task[site[1]].left = 0))

(* What a terminal has too much of gets back to the storage, unless a task   *)
(* holds it: also what came when the storage was full, and although requests *)
(* may send it to the terminal itself.                                       *)
SurplusReturned == []<>(~calm \/ held \/ surplus = 0)

(* An old sell order gets the goods it lacks or is cancelled, whatever other *)
(* hauls take and other players buy; but not if the storage has none and the *)
(* terminal more than is missing, which is then hauled to where it is.       *)
OrdersSettled ==
  []<>(~calm \/ ~Incomplete \/ (stored[Compound] = 0 /\ goods >= Missing))
=============================================================================

-------------------------------- MODULE Labs --------------------------------
(* The labs of a base and who keeps processes for them: LabsManager of       *)
(* src/base/labs.ts, which finds three labs at fixed places and starts a     *)
(* booster or a reactor for them.  Also what both share: what labs and       *)
(* storage hold, and the requests on the distributors' topic.                *)
(*                                                                           *)
(* A compound comes in steps, of which MinCompound stands for 500 and        *)
(* MaxCompound for 2000.  A lab has its energy when it has 1000.             *)
EXTENDS Integers, Sequences, FiniteSetsExt, Functions

CONSTANTS
  BoosterSpots,   \* the places of the three labs of the booster, a sequence
  Reactors,       \* those of each reactor; the lab of the output is first
  Compounds,      \* what labs may hold, a sequence: the weaker one first
  MinCompound, MaxCompound, LabCapacity,
  Trip,           \* what a distributor can carry
  Distributors,
  Homes,          \* the bases, and what happens in them
  None

Sites == {BoosterSpots} \cup Reactors
Spots == UNION {Range(site) : site \in Sites}
Amounts == 0..LabCapacity

(* Labs are destroyed, creeps die, storage and terminal run full and short,  *)
(* processes are restarted, the CPU is short, spawns pause and boosts are    *)
(* asked for elsewhere.                                                      *)
Troubles == {"attack", "death", "storage", "restart", "cpu", "spawn"}

Contents == [mineral : Range(Compounds) \cup {None}, amount : Amounts]

ASSUME LabsAssumption ==
  /\ \A site \in Sites : Len(site) = 3
  /\ MinCompound \in 1..MaxCompound /\ MaxCompound \in 1..LabCapacity
  /\ \A h \in Homes :
       /\ h.sites \subseteq Sites /\ h.fragile \subseteq Spots /\ h.troubles \subseteq Troubles
       /\ h.distributors \subseteq Distributors
       /\ h.content \in [Spots -> Contents]
       /\ h.stored \in [Range(Compounds) -> Nat]

VARIABLES
  home,       \* the base; never changes
  lab,        \* the lab at a place: 0 none, 1 the first one, 2 its successor
  content,    \* the compound in a lab
  powered,    \* the labs that have their energy
  stored,     \* the compounds in storage and terminal
  reserve,    \* whether these have energy, and space, and the storage has space
  topic,      \* the requests for distributors
  hauls,      \* the task of a distributor
  assigned,   \* boosterIds
  processes,  \* the processes of boosters and reactors
  calm        \* whether nothing gets in the way any more

Trouble(kind) == ~calm /\ kind \in home.troubles

stores == <<content, powered, stored>>
labs == <<home, lab, stores, reserve, topic, hauls, assigned, processes, calm>>

Nothing == [mineral |-> None, amount |-> 0]

(* What distributors are asked for: to "load" a lab with a compound or with  *)
(* "energy", to "unload" it for another compound, to "return" what it has    *)
(* too much or too little of, to unload a reactor ("react").  Module         *)
(* Terminals adds hauls without a lab: for an "order", and of "surplus".     *)
Unloading == {"unload", "return", "react"}

(* The ttl of a booster's requests: REQUEST_REBALANCE_TTL is twice the other  *)
(* ones, which are as long as it sleeps.                                     *)
Interval == 5
Ttl(kind) == IF kind = "return" THEN 2 * Interval ELSE Interval

NewRequest(kind, s, mineral, amount) ==
  [kind |-> kind, spot |-> s, mineral |-> mineral, amount |-> amount, ttl |-> Ttl(kind)]

(* UNLOAD_BOOST, HAUL_BOOST, HAUL_TERMINAL, HAUL_REACTION *)
Rank(r) ==
  CASE r.kind = "unload" -> 4
    [] r.kind \in {"energy", "load", "return"} -> 3
    [] r.kind \in {"order", "surplus"} -> 2
    [] r.kind = "react" -> 1

(* A request is open up to and in the tick its ttl names.                    *)
AfterTick == {[r EXCEPT !.ttl = @ - 1] : r \in {r \in topic : r.ttl > 0}}

-----------------------------------------------------------------------------
(* LabsManager *)
(* A process has a site and the ids of the labs it found there; it is known  *)
(* by the id of the first lab.                                               *)
Key(p) == <<p.site[1], p.ids[1]>>

Intact(p) == \A i \in 1..3 : lab[p.site[i]] = p.ids[i]

Found ==
  {[site |-> site, ids |-> [i \in 1..3 |-> lab[site[i]]]]
     : site \in {site \in home.sites : \A i \in 1..3 : lab[site[i]] # 0}}

(* reactorsIds are found anew; boosterIds stay when a lab is missing.        *)
AssignBasedOnPosition ==
  assigned' = IF \E p \in Found : p.site = BoosterSpots
              THEN CHOOSE p \in Found : p.site = BoosterSpots
              ELSE assigned

AssignLabs ==
  /\ AssignBasedOnPosition
  /\ processes' = processes \cup
       {p \in ({assigned'} \ {None}) \cup {q \in Found : q.site # BoosterSpots} :
          \A q \in processes : Key(q) # Key(p)}
  /\ UNCHANGED <<home, lab, stores, reserve, topic, hauls, calm>>

(* A reactor or booster whose lab is missing terminates in its next run.     *)
Terminates(p) ==
  /\ p \in processes /\ ~Intact(p)
  /\ processes' = processes \ {p}
  /\ UNCHANGED <<home, lab, stores, reserve, topic, hauls, assigned, calm>>

(* What was asked about a lab that is gone comes to nothing.                 *)
LabDestroyed(s) ==
  /\ Trouble("attack") /\ s \in home.fragile /\ lab[s] = 1
  /\ lab' = [lab EXCEPT ![s] = 0]
  /\ content' = [content EXCEPT ![s] = Nothing] /\ powered' = powered \ {s}
  /\ topic' = {r \in topic : r.spot # s}
  /\ hauls' = [d \in Distributors |->
                 IF hauls[d] # None /\ hauls[d].spot = s THEN None ELSE hauls[d]]
  /\ UNCHANGED <<home, stored, reserve, assigned, processes, calm>>

LabBuilt(s) ==
  /\ \E site \in home.sites : s \in Range(site)
  /\ lab[s] = 0
  /\ lab' = [lab EXCEPT ![s] = 2]
  /\ UNCHANGED <<home, stores, reserve, topic, hauls, assigned, processes, calm>>

(* Requests of reactors and terminals are open for 10 ticks or more: when    *)
(* all goes well a distributor without a task takes one before that, and the *)
(* return of energy is asked for again as soon as the request has expired.   *)
RequestExpires(r) ==
  /\ r \in topic /\ r.kind \in {"react", "order", "surplus"}
  /\ calm => r.kind # "surplus" /\ \A d \in home.distributors : hauls[d] # None
  /\ topic' = topic \ {r}
  /\ UNCHANGED <<home, lab, stores, reserve, hauls, assigned, processes, calm>>

-----------------------------------------------------------------------------
(* The distributors, as seen from the labs; module Distributors has the      *)
(* details.  One takes the most urgent request, and some time later it has   *)
(* done what it can.                                                         *)
TakeTask(d) ==
  /\ d \in home.distributors /\ hauls[d] = None
  /\ \E r \in topic :
       /\ \A q \in topic : Rank(q) <= Rank(r)
       /\ hauls' = [hauls EXCEPT ![d] = [r EXCEPT !.ttl = 0]] /\ topic' = topic \ {r}
  /\ UNCHANGED <<home, lab, stores, reserve, assigned, processes, calm>>

(* The compound a distributor moves; a lab takes no second one.              *)
Moved(r) ==
  LET c == content[r.spot]
  IN  CASE r.kind = "energy" -> 0
        [] r.kind \in Unloading ->
             IF c.mineral = r.mineral THEN Min({r.amount, Trip, c.amount}) ELSE 0
        [] r.kind = "load" ->
             IF c.mineral \in {None, r.mineral}
             THEN Min({r.amount, Trip, stored[r.mineral], LabCapacity - c.amount})
             ELSE 0

Holding(mineral, n) == IF n = 0 THEN Nothing ELSE [mineral |-> mineral, amount |-> n]

Deliver(d) ==
  /\ hauls[d] # None /\ hauls[d].spot \in Spots
  /\ hauls' = [hauls EXCEPT ![d] = None]
  /\ \E r \in {hauls[d]} : \E n \in {IF r.kind = "load" THEN Moved(r) ELSE -Moved(r)} :
       /\ r.kind \in Unloading => reserve.space
       /\ content' = IF n = 0 THEN content
                     ELSE [content EXCEPT ![r.spot] = Holding(r.mineral, @.amount + n)]
       /\ stored' = IF n = 0 THEN stored ELSE [stored EXCEPT ![r.mineral] = @ - n]
       /\ powered' = IF r.kind = "energy" /\ reserve.energy THEN powered \cup {r.spot}
                     ELSE powered
  /\ UNCHANGED <<home, lab, reserve, topic, assigned, processes, calm>>

DistributorDies(d) ==
  /\ Trouble("death") /\ hauls[d] # None
  /\ hauls' = [hauls EXCEPT ![d] = None]
  /\ UNCHANGED <<home, lab, stores, reserve, topic, assigned, processes, calm>>

(* What everything else in the base does to storage and terminal             *)
ReserveChanges ==
  /\ Trouble("storage")
  /\ reserve' \in home.reserves \ {reserve}
  /\ UNCHANGED <<home, lab, stores, topic, hauls, assigned, processes, calm>>
=============================================================================

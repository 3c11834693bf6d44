------------------------------ MODULE Spawning ------------------------------
(***************************************************************************)
(* How creeps are asked for and built: the processes that request creeps   *)
(* (src/base/logistics.ts, runnable.ts, room.ts, source.ts, mineral.ts,    *)
(* src/managers/war.ts, shards.ts), the topics that carry the requests and *)
(* the spawn manager of each base (src/base/spawning.ts).                  *)
(*                                                                         *)
(* A need is one kind of creep somebody keeps asking for.  Its requester   *)
(* counts the creeps that serve it, never the requests it has queued, and  *)
(* asks again whenever its thread is due; requests lapse instead.  A spawn *)
(* manager serves the topic of its base and, when nothing there is ready,  *)
(* or something elsewhere is more urgent, the topic shared by the shard.   *)
(* A base without spawns moves its requests to the shared topic.           *)
(*                                                                         *)
(* Time is relative: left and wait count down at every tick.  Energy is a  *)
(* level; level 0 is less than the 300 a spawn needs to be considered.     *)
(***************************************************************************)
EXTENDS Topics

CONSTANTS
  Bases, Spawns,
  BaseOf,       \* the base of each spawn
  Neighbors,    \* Base.neighbors
  Shard,        \* the key of the shared topic
  NoOrder,      \* "no creep was ordered by the last step"
  Needs,
  TopicOf,      \* where the requester of a need sends its requests
  DestOf,       \* the base a need's destination belongs to, Anyone or Nowhere
  Anyone,       \* the request names no destination room
  Nowhere,      \* its destination room is in no base
  RoleOf,
  PriorityOf,
  DecayOf,      \* what each creep there is takes off the priority
  Burst,        \* the needs whose missing creeps are requested all at once
  WantedOf,     \* the numbers of creeps its requester may want
  TtlOf,        \* how long its requests are valid
  PeriodOf,     \* the ttl of its requester's thread
  EnergyOf,     \* the energy level its creep needs
  EnergyLevels, \* the levels each base may have
  SpawnTtl,     \* the ttl of the spawn thread
  BuildTime,    \* ticks a spawn is busy with a creep
  MaxCreeps     \* bound: creeps counted per need

ASSUME SpawningAssumption ==
  /\ IsFiniteSet(Bases) /\ IsFiniteSet(Spawns)
  /\ BaseOf \in [Spawns -> Bases]
  /\ Neighbors \in [Bases -> SUBSET Bases]
  /\ Shard \notin Bases
  /\ TopicOf \in [Needs -> Bases \cup {Shard}]
  /\ DestOf \in [Needs -> Bases \cup {Anyone, Nowhere}]
  /\ PriorityOf \in [Needs -> Int] /\ DecayOf \in [Needs -> Nat]
  /\ Burst \subseteq Needs
  /\ WantedOf \in [Needs -> SUBSET Nat]
  /\ TtlOf \in [Needs -> Nat] /\ PeriodOf \in [Needs -> Nat \ {0}]
  /\ EnergyLevels \in [Bases -> SUBSET Nat] /\ EnergyOf \in [Needs -> Nat \ {0}]
  /\ SpawnTtl \in Nat \ {0} /\ BuildTime \in Nat
  /\ MaxCreeps \in Nat
  /\ NoOrder \notin [spawn : Spawns, ok : BOOLEAN,
                      request : [need : Needs, priority : Int, left : Int]]

Threads == Bases \cup Needs
Topic == Bases \cup {Shard}
EnergyStates == {e \in [Bases -> UNION {EnergyLevels[b] : b \in Bases}] :
                    \A b \in Bases : e[b] \in EnergyLevels[b]}

VARIABLES
  topics,   \* Topics.topics
  cleaned,  \* Topics.lastCleanup = Game.time
  wait,     \* ticks until the thread of a spawn manager or requester is due
  queue,    \* the spawns the running spawn thread still has to look at
  busy,     \* ticks until a spawn is done with its creep
  energy,   \* Room.energyAvailable of each base
  names,    \* roles with a creep ordered this tick: names are role_shard_time
  creeps,   \* living creeps that serve a need
  known,    \* how many of them the requester counts
  order     \* history: the request the last step took and what came of it

vars == <<topics, cleaned, wait, queue, busy, energy, names, creeps, known, order>>

Init ==
  /\ topics = [k \in Topic |-> << >>]
  /\ cleaned = FALSE
  /\ wait = [p \in Threads |-> 0]
  /\ queue = << >>
  /\ busy = [s \in Spawns |-> 0]
  /\ energy \in EnergyStates
  /\ names = {}
  /\ creeps = [n \in Needs |-> 0]
  /\ known = [n \in Needs |-> 0]
  /\ order = NoOrder

-----------------------------------------------------------------------------
(* Topics.getTopic drops the stale requests of every topic, once in a tick. *)
Current == IF cleaned THEN topics ELSE [k \in Topic |-> RemoveStale(topics[k])]

(* A spawn thread runs to its end before any other process does. *)
Idle == queue = << >>

Queued == UNION {ToSet(topics[k]) : k \in Topic}

(* createSpawnRequest for the i-th creep that is missing *)
NewRequest(n, i) ==
  [need |-> n, priority |-> PriorityOf[n] - DecayOf[n] * (known[n] + i - 1),
   left |-> TtlOf[n]]

(* A requester's thread runs and asks for the first k creeps it misses. *)
Ask(n, k) ==
  /\ Idle /\ wait[n] = 0
  /\ wait' = [wait EXCEPT ![n] = PeriodOf[n]]
  /\ topics' = [Current EXCEPT ![TopicOf[n]] =
                  AddRequests(@, [i \in 1..k |-> NewRequest(n, i)])]
  /\ cleaned' = TRUE
  /\ order' = NoOrder
  /\ UNCHANGED <<queue, busy, energy, names, creeps, known>>

(* requestHaulers, requestDistributor, requestUpgrader *)
RequestMissing(n) ==
  /\ n \in Burst
  /\ \E wanted \in WantedOf[n] : wanted > known[n] /\ Ask(n, wanted - known[n])

(* requestBuilder, requestRepairer, requestExplorer, requestMiners,          *)
(* requestHarvesters, requestReserver, sendReserver, sendHarassers           *)
RequestOne(n) ==
  /\ n \notin Burst
  /\ \E wanted \in WantedOf[n] : wanted > known[n] /\ Ask(n, 1)

(* The thread runs and finds creeps enough. *)
RequestNone(n) ==
  /\ Idle /\ wait[n] = 0
  /\ \E wanted \in WantedOf[n] : wanted <= known[n]
  /\ wait' = [wait EXCEPT ![n] = PeriodOf[n]]
  /\ order' = NoOrder
  /\ UNCHANGED <<topics, cleaned, queue, busy, energy, names, creeps, known>>

-----------------------------------------------------------------------------
SpawnsOf(b) == {s \in Spawns : BaseOf[s] = b}

WrongDrained(b) == [Current EXCEPT ![Shard] = Reverse(Current[b]), ![b] = << >>]

(* The requests of b move one by one, the most urgent first. *)
Drained(b) ==
  [Current EXCEPT ![Shard] = AddRequests(@, Reverse(Current[b])),
                  ![b] = << >>]

(* SpawnManager.spawning of a base that has no spawn *)
SendToShard(b) ==
  /\ Idle /\ wait[b] = 0 /\ SpawnsOf(b) = {}
  /\ wait' = [wait EXCEPT ![b] = SpawnTtl]
  /\ topics' = Drained(b)
  /\ cleaned' = TRUE
  /\ order' = NoOrder
  /\ UNCHANGED <<queue, busy, energy, names, creeps, known>>

(* SpawnManager.spawning of a base that has some: it looks at each in turn. *)
LookAtSpawns(b) ==
  /\ Idle /\ wait[b] = 0 /\ SpawnsOf(b) # {}
  /\ wait' = [wait EXCEPT ![b] = SpawnTtl]
  /\ queue' \in SetToSeqs(SpawnsOf(b))
  /\ order' = NoOrder
  /\ UNCHANGED <<topics, cleaned, busy, energy, names, creeps, known>>

(* isSpawnerEnergyReady *)
SpawnerReady(s) == busy[s] = 0 /\ energy[BaseOf[s]] > 0

(* A spawn that is busy or short of energy is left alone. *)
SkipSpawn(s) ==
  /\ ~SpawnerReady(s)
  /\ queue' = Tail(queue)
  /\ order' = NoOrder
  /\ UNCHANGED <<topics, cleaned, wait, busy, energy, names, creeps, known>>

(* isRequestEnergyReady *)
EnergyReady(b, r) == energy[b] >= EnergyOf[r.need]

(* getNextNeighborRequestFilter: the requests b may serve for others *)
CanServe(b, r) == DestOf[r.need] = Anyone \/ DestOf[r.need] \in Neighbors[b]

FirstServable(b, q) == First(Keep(q, {r \in ToSet(q) : CanServe(b, r)}))

(* A sequence of a request, if there is one and b has the energy for it *)
IfReady(b, q) == IF q # << >> /\ EnergyReady(b, Head(q)) THEN q ELSE << >>

(* The local request that is peeked at, if it is ready *)
ReadyLocal(b) == IfReady(b, Peek(Current[b]))

(* peekNextNeighborRequest reverses the array of the topic in place. *)
Peeked == Reverse(Current[Shard])

ReadyNeighbor(b) == IfReady(b, FirstServable(b, Peeked))

(* The neighbour's request must beat the local one by more than one. *)
PreferNeighbor(b) ==
  /\ ReadyNeighbor(b) # << >>
  /\ \A r \in ToSet(ReadyLocal(b)) : r.priority + 1 < Head(ReadyNeighbor(b)).priority

(* Whether spawnCreep succeeds: the name must be free, and where the energy  *)
(* is less than what the request was to wait for, getBodyParts may make do   *)
(* with a smaller body, unless that too costs more than there is.            *)
SpawnCreep(s, r) ==
  {ok \in BOOLEAN : /\ ok => RoleOf[r.need] \notin names
                    /\ ok \/ RoleOf[r.need] \in names \/ ~EnergyReady(BaseOf[s], r)}

(* createCreep: whatever spawnCreep answers, the request is gone. *)
CreateCreep(s, r) ==
  \E ok \in SpawnCreep(s, r) :
    /\ queue' = Tail(queue)
    /\ order' = [spawn |-> s, request |-> r, ok |-> ok]
    /\ IF ok
       THEN /\ busy' = [busy EXCEPT ![s] = BuildTime]
            /\ names' = names \cup {RoleOf[r.need]}
            /\ creeps' = [creeps EXCEPT ![r.need] = Min({@ + 1, MaxCreeps})]
       ELSE UNCHANGED <<busy, names, creeps>>
    /\ cleaned' = TRUE
    /\ UNCHANGED <<wait, energy, known>>

(* The topics after the neighbour's request was peeked at *)
AfterPeek == [Current EXCEPT ![Shard] = Peeked]

(* What was peeked at is not stale, so getNextRequest finds it. *)
ServeLocal(s) ==
  LET b    == BaseOf[s]
      take == TakeNext(Current[b])
  IN  /\ SpawnerReady(s) /\ ReadyLocal(b) # << >> /\ ~PreferNeighbor(b)
      /\ take.next # << >>
      /\ topics' = [AfterPeek EXCEPT ![b] = take.rest]
      /\ CreateCreep(s, Head(take.next))

(* getNextNeighborRequest reverses the array that the peek reversed. *)
ServeNeighbor(s) ==
  LET b      == BaseOf[s]
      again  == Reverse(Peeked)
      choice == Head(FirstServable(b, again))
  IN  /\ SpawnerReady(s) /\ PreferNeighbor(b)
      /\ topics' = [Current EXCEPT ![Shard] = TakeChoice(again, choice)]
      /\ CreateCreep(s, choice)

ServeNobody(s) ==
  LET b == BaseOf[s]
  IN  /\ SpawnerReady(s) /\ ReadyLocal(b) = << >> /\ ~PreferNeighbor(b)
      /\ topics' = AfterPeek
      /\ cleaned' = TRUE
      /\ queue' = Tail(queue)
      /\ order' = NoOrder
      /\ UNCHANGED <<wait, busy, energy, names, creeps, known>>

LookAtSpawn(s) ==
  /\ queue # << >> /\ s = Head(queue)
  /\ SkipSpawn(s) \/ ServeLocal(s) \/ ServeNeighbor(s) \/ ServeNobody(s)

-----------------------------------------------------------------------------
CountDown(n) == Max({n - 1, 0})

(* A tick ends: spawns build, a creep may die, energy changes. *)
TimePasses ==
  /\ cleaned' = FALSE
  /\ queue' = << >>
  /\ busy' = [s \in Spawns |-> CountDown(busy[s])]
  /\ energy' \in EnergyStates
  /\ names' = {}
  /\ \/ creeps' = creeps
     \/ \E n \in Needs : creeps[n] > 0 /\ creeps' = [creeps EXCEPT ![n] = @ - 1]
  /\ order' = NoOrder

(* Requests and threads wait for the next tick. *)
HeapAges ==
  /\ Idle
  /\ topics' = [k \in Topic |->
                  [i \in DOMAIN topics[k] |->
                     [topics[k][i] EXCEPT !.left = Max({@ - 1, -1})]]]
  /\ wait' = [p \in Threads |-> CountDown(wait[p])]

(* Every thread that was due has run, and the next tick begins with the      *)
(* CreepManager counting the creeps.                                         *)
Tick ==
  /\ \A p \in Threads : wait[p] > 0
  /\ TimePasses /\ HeapAges
  /\ known' = creeps'

(* The CPU of the tick, or of the next one's CreepManager, ran out. *)
ShortTick ==
  /\ TimePasses /\ HeapAges
  /\ known' \in {known, creeps'}

(* A global reset: topics, threads and counts live in the heap.  It may end  *)
(* a spawn thread midway.                                                    *)
GlobalReset ==
  /\ TimePasses
  /\ topics' = [k \in Topic |-> << >>]
  /\ wait' = [p \in Threads |-> 0]
  /\ known' = creeps'

Next ==
  \/ \E n \in Needs : RequestMissing(n) \/ RequestOne(n) \/ RequestNone(n)
  \/ \E b \in Bases : SendToShard(b) \/ LookAtSpawns(b)
  \/ \E s \in Spawns : LookAtSpawn(s)
  \/ Tick \/ ShortTick \/ GlobalReset

Spec == Init /\ [][Next]_vars

(* The program runs every tick: as some step is always possible, no stop is  *)
(* what weak fairness of Next says.  Resets end, and so does the shortage of *)
(* CPU: from then on a tick runs every thread that is due.                   *)
FairSpec ==
  /\ Spec
  /\ []<><<TRUE>>_vars
  /\ <>[][ShortTick => Tick]_vars
  /\ <>[][GlobalReset => Tick]_vars

-----------------------------------------------------------------------------
Copies(r, q) == Cardinality({i \in DOMAIN q : q[i] = r})
AllCopies(r, t) ==
  Cardinality(UNION {{k} \X {i \in DOMAIN t[k] : t[k][i] = r} : k \in Topic})

(* A creep is never built for a request that has lapsed, although neither    *)
(* the peeks nor getMessageOfMyChoice look at the ttl of what they return.   *)
NothingStaleIsBuilt == order # NoOrder => ~Stale(order.request)

(* A request is built at most once: its copy is gone from the topics.        *)
BuiltOnce ==
  [][order' # NoOrder => AllCopies(order'.request, topics') < AllCopies(order'.request, topics)]_vars

(* Within a tick a request leaves the topics only because it lapsed, because *)
(* it equals the one a spawn took, or in a reset: not in a drain, a sort, a  *)
(* reversal or a sweep.                                                      *)
NothingIsLost ==
  [][\A r \in Queued :
       AllCopies(r, topics') < AllCopies(r, topics) =>
         \/ Stale(r)
         \/ order' # NoOrder /\ r = order'.request
         \/ GlobalReset \/ HeapAges]_vars

(* The request the step takes comes from the topic of the shard. *)
FromShard == Copies(order'.request, topics'[Shard]) < Copies(order'.request, topics[Shard])

(* A base that serves its own topic serves the most urgent request there. *)
OwnUrgentFirst ==
  [][order' # NoOrder /\ ~FromShard =>
       \A r \in ToSet(topics[BaseOf[order'.spawn]]) :
         Stale(r) \/ r.priority <= order'.request.priority]_vars

(* The shard topic is served by priority: "Reverse message so we get higher  *)
(* priority first".                                                          *)
HigherPriorityFirst ==
  [][order' # NoOrder /\ FromShard =>
       \A r \in ToSet(topics[Shard]) :
         CanServe(BaseOf[order'.spawn], r) /\ ~Stale(r) => r.priority <= order'.request.priority]_vars

(* The first request for a need outranks every other request of the shard,  *)
(* and its creep can be built at any energy level its base has.              *)
MostUrgent(n) ==
  /\ TopicOf[n] \in Bases /\ SpawnsOf(TopicOf[n]) # {}
  /\ \A m \in Needs \ {n} : PriorityOf[m] < PriorityOf[n]
  /\ \A e \in EnergyLevels[TopicOf[n]] : e >= EnergyOf[n]
  /\ 0 \notin WantedOf[n]

(* Such a need gets a creep again and again, however creeps die and requests *)
(* lapse.                                                                    *)
UrgentNeedMet == \A n \in Needs : MostUrgent(n) => []<>(creeps[n] > 0)
=============================================================================

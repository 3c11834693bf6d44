----------------------------- MODULE WarParties -----------------------------
(* War parties.  The war manager (managers/war.ts) keeps the rooms to attack *)
(* and sends parties to them, at most one of a base at a time; each party is *)
(* a process (creeps/party/war.ts) that gathers creeps at the base, leads    *)
(* them to the room and ends when nothing is left there to attack, and       *)
(* delegates the places of its creeps to PartyRunnable (creeps/party/        *)
(* party.ts).  The invader and the buffer manager ask for attacks by what    *)
(* the scribe's journal says.  Manager and parties survive a global reset    *)
(* through Memory.war and Memory.proc.                                       *)
(*                                                                           *)
(* A party is called by its base, its target and a number that stands for    *)
(* the time in its id; a number is free again when no list names the party,  *)
(* so two are enough.                                                        *)
(* The way from a base to a room is a line of tiles: those up to Border are  *)
(* in the base's room, 0 is the muster point and the tiles before it are the *)
(* rest of the muster line; those from Front on are in the target room.      *)
(* Left out are the requests for reservers and harassers, which nothing here *)
(* waits for, and the creeps spawned for a party that has ended meanwhile.   *)
EXTENDS Integers, Sequences, FiniteSets

LOCAL Seqs == INSTANCE SequencesExt

CONSTANTS
  Bases,             \* the bases there may be
  Steady,            \* those of them that are never lost
  Rooms,             \* the rooms to attack
  Numbers,           \* what tells the parties of a base and a target apart
  InRange,           \* the rooms within BASE_ATTACK_RANGE of a base
  Beatable,          \* the rooms buildAttacker finds a body for
  AutoAttack,        \* config.autoAttack
  MaxBasesPerTarget, \* MAX_BASES_PER_TARGET
  PartySize,         \* MAX_PARTY_SIZE
  MaxPrevious,       \* MAX_PREVIOUS_POSITIONS
  Border, Front,     \* the last tile of the base's room, the first of the target's
  Last,              \* the tile the party is to reach in the target room
  Near,              \* the range beyond which a creep has strayed
  Edges,             \* the tiles at the edge of a room
  Walls,             \* the places of a formation that are walls
  PathFormation,     \* the formation there is a path to the target for
  MaxCreeps,         \* bound: creeps of a party
  Unseen             \* no journal entry

VARIABLES
  targets,    \* WarManager.targets
  restored,   \* FALSE as long as WarManager.warParties is null
  warParties, \* WarManager.warParties
  saved,      \* Memory.war
  aliased,    \* whether targets and Memory.war.targets are one array
  topic,      \* the events in the topic ATTACK_ROOM
  procs,      \* the war parties in the scheduler's processMap
  ended,      \* those of them that are terminated
  progress,   \* the state of a party, which it writes to Memory.proc
  creeps,     \* the tiles of the creeps of a party, in the order of Game.creeps
  journal,    \* Scribe.journal.rooms
  rooms,      \* what is to be found in the rooms
  held,       \* the bases that exist, with their primary room in view
  aggressive  \* the bases flagged aggressive

manager == <<targets, restored, warParties, saved, aliased>>
party == <<progress, creeps>>
world == <<rooms, held, aggressive>>
vars == <<manager, topic, procs, ended, party, journal, world>>

ASSUME SetsAssumption ==
  /\ Steady \subseteq Bases /\ InRange \in [Bases -> SUBSET Rooms]
  /\ Beatable \subseteq Rooms /\ AutoAttack \in BOOLEAN
  /\ \E m, n \in Numbers : m # n

ASSUME TilesAssumption ==
  /\ PartySize \in Nat \ {0} /\ MaxPrevious \in Nat /\ MaxPrevious >= PartySize
  /\ Border \in Nat /\ Front \in Nat /\ Last \in Nat /\ Border < Front /\ Front <= Last
  /\ MaxCreeps \in Nat /\ Near \in Nat /\ PathFormation \in {"single_file", "quad"}

-----------------------------------------------------------------------------
Party == [base : Bases, target : Rooms, number : Numbers]

Tile == (1 - PartySize)..Last

(* What a room holds: something to attack, or nothing.  A room in safe mode  *)
(* counts as bare.                                                           *)
Content == {"armed", "bare"}

(* Two of the statuses a request for a room can have (AttackStatus).         *)
Event == [status : {"requested", "completed"}, room : Rooms]

Phase == {"marshal", "en_route", "attack"}

(* A path is searched for a quad first, then for single file; until the next *)
(* search the formation is the single file of the marshalling.               *)
Formation == {"single_file", PathFormation}

RoomOf(x) == IF x <= Border THEN "base" ELSE IF x >= Front THEN "target" ELSE "between"

(* The fields of a new WarPartyRunnable that matter from one run to the next *)
(* (each run sets the formation anew): previousPositions is the muster line. *)
Beginning ==
  [phase |-> "marshal", position |-> 0, previousPositions |-> [i \in 1..PartySize |-> 1 - i]]

Init ==
  /\ targets = {} /\ restored = FALSE /\ warParties = {}
  /\ saved = [targets |-> {}, parties |-> {}] /\ aliased = FALSE
  /\ topic = {} /\ procs = {} /\ ended = {}
  /\ progress = [p \in Party |-> Beginning]
  /\ creeps = [p \in Party |-> <<>>]
  /\ journal = [r \in Rooms |-> Unseen]
  /\ rooms = [r \in Rooms |-> "armed"]
  /\ held = Bases /\ aggressive = {}

-----------------------------------------------------------------------------
(* PartyRunnable: places and formations.  Its position is always the first   *)
(* of previousPositions.                                                     *)

Without(s, x) ==
  IF \E i \in DOMAIN s : s[i] = x THEN Seqs!RemoveAt(s, CHOOSE i \in DOMAIN s : s[i] = x) ELSE s

(* (mutant) setPosition without the splice. *)
WrongSetPosition(s, x) ==
  [s EXCEPT !.position = x, !.previousPositions = <<x>> \o Without(@, x)]

(* setPosition: remember the last positions, each one once. *)
SetPosition(s, x) ==
  LET before == s.previousPositions
      kept == SubSeq(before, 1, IF Len(before) < MaxPrevious THEN Len(before) ELSE MaxPrevious - 1)
  IN  [s EXCEPT !.position = x,
                !.previousPositions = IF x = Head(before) THEN before ELSE <<x>> \o Without(kept, x)]

(* getCreepPosition: in single file creep i has the i-th of the previous     *)
(* positions, if there is one; the two by two tiles of a quad count as the   *)
(* one the party is at.                                                      *)
Place(formation, s, i) ==
  IF formation = "single_file" /\ i <= Len(s.previousPositions)
  THEN s.previousPositions[i] ELSE Head(s.previousPositions)

(* inPosition: a creep on an edge is ready, and a place that is a wall makes *)
(* the whole party ready.                                                    *)
InPosition(formation, s, at) ==
  LET ranked == {i \in DOMAIN at : i <= PartySize /\ at[i] \notin Edges}
  IN  \/ \E i \in ranked : Place(formation, s, i) \in Walls
      \/ \A i \in ranked : at[i] = Place(formation, s, i)

(* findClosestByRange looks only at the creeps in the room of the position,  *)
(* so a party none of whose creeps are in that room is not far from it.      *)
Strayed(s, at) ==
  LET here == {i \in DOMAIN at : RoomOf(at[i]) = RoomOf(s.position)}
  IN  here # {} /\ \A i \in here : at[i] - s.position \notin -Near..Near

(* roleAttacker: a creep moves towards the place its party gave it.  Tired   *)
(* creeps and crowded tiles are left out: inPosition waits for them.         *)
Moved(formation, s, at) ==
  [i \in DOMAIN at |-> LET place == Place(formation, s, i) IN
     IF at[i] < place THEN at[i] + 1 ELSE IF at[i] > place THEN at[i] - 1 ELSE at[i]]

-----------------------------------------------------------------------------
(* WarPartyRunnable: the three phases of a run.  They follow one another in  *)
(* the same run when the phase changes forward.                              *)

(* A path cached before a retreat may begin anywhere farther on, and the     *)
(* party, which is off it at the muster point, is put where it begins.       *)
OffPath(s) == IF s.position = 0 THEN 1..Last ELSE {}

(* On the path the party goes one tile on if the creeps are in position, or  *)
(* if it is on an edge.                                                      *)
OnPath(s, at, formation) ==
  IF s.position < Last /\ (InPosition(formation, s, at) \/ s.position \in Edges)
  THEN {s.position + 1} ELSE {s.position}

(* getNextPosition: the party stays if the way is blocked or there is none.  *)
(* The formation is that of the path, found now or before.                   *)
Advance(s, at, clear, formation) ==
  {SetPosition(s, x) :
     x \in IF clear THEN OnPath(s, at, formation) \union OffPath(s) ELSE {s.position}}

(* (mutant) The party waits for one creep more than it asks for. *)
WrongMarshal(s, at) ==
  IF InPosition("single_file", s, at) /\ Len(at) > PartySize THEN [s EXCEPT !.phase = "en_route"]
  ELSE IF at = <<>> THEN [s EXCEPT !.position = 0]
  ELSE SetPosition(s, 0)

(* phaseMarshal: wait at the muster point until MAX_PARTY_SIZE creeps are in *)
(* position.                                                                 *)
Marshal(s, at) ==
  IF InPosition("single_file", s, at) /\ Len(at) >= PartySize THEN [s EXCEPT !.phase = "en_route"]
  ELSE IF at = <<>> THEN [s EXCEPT !.position = 0]
  ELSE SetPosition(s, 0)

(* (mutant) A party whose creeps have arrived attacks, wherever its position *)
(* is.                                                                       *)
WrongEnRoute(s, at, clear, formation) ==
  IF at = <<>> \/ Strayed(s, at) THEN {[s EXCEPT !.phase = "marshal"]}
  ELSE IF \E i \in DOMAIN at : RoomOf(at[i]) = "target" THEN {[s EXCEPT !.phase = "attack"]}
  ELSE Advance(s, at, clear, formation)

(* phaseEnRoute: go to the target room, or back to marshalling when the      *)
(* creeps are gone or lost.                                                  *)
EnRoute(s, at, clear, formation) ==
  IF at = <<>> \/ Strayed(s, at) THEN {[s EXCEPT !.phase = "marshal"]}
  ELSE IF RoomOf(s.position) = "target" THEN {[s EXCEPT !.phase = "attack"]}
  ELSE Advance(s, at, clear, formation)

(* The party is beaten when none of it is left in the target room. *)
Beaten(s, at) ==
  (\A i \in DOMAIN at : RoomOf(at[i]) # "target") \/ Strayed(s, at)

(* phaseAttack and engage. *)
Attack(s, at, clear, formation, over) ==
  IF Beaten(s, at) THEN {[s EXCEPT !.phase = "marshal"]}
  ELSE IF over THEN {s}
  ELSE Advance(s, at, clear, formation)

(* What the phases make of the state s of a party with creeps at the tiles   *)
(* given. *)
AfterMarshal(s, at) == IF s.phase = "marshal" THEN Marshal(s, at) ELSE s

AfterEnRoute(s, at, clear, formation) ==
  IF s.phase = "en_route" THEN EnRoute(s, at, clear, formation) ELSE {s}

AfterAttack(s, at, clear, formation, over) ==
  IF s.phase = "attack" THEN Attack(s, at, clear, formation, over) ELSE {s}

Outcomes(s, at, clear, formation, over) ==
  UNION {AfterAttack(r, at, clear, formation, over) :
           r \in AfterEnRoute(AfterMarshal(s, at), at, clear, formation)}

-----------------------------------------------------------------------------
(* engage ends the attack when it finds no targets.                          *)
Over(p) == rooms[p.target] = "bare"

(* A run comes to nothing, and the party to no end, as long as the journal   *)
(* has no entry of the target or the base is unknown or out of view.         *)
Runs(p) == p \in procs \ ended /\ journal[p.target] # Unseen /\ p.base \in held

(* A party that goes on marshalling is in single file. *)
Kept(before, after, formation) ==
  IF before.phase = "marshal" /\ after.phase = "marshal" THEN "single_file" ELSE formation

(* WarPartyRunnable.run, and the creeps after it.  A party that is over, or  *)
(* whose base is not aggressive (any more), ends and kills its creeps; one   *)
(* just being spawned counts as killed.                                      *)
PartyRun(p, clear) ==
  /\ Runs(p)
  /\ \E formation \in Formation :
     \E s \in Outcomes(progress[p], creeps[p], clear, formation, Over(p)) :
       LET completed == s.phase = "attack" /\ Over(p)
           done == completed \/ p.base \notin aggressive
       IN  /\ progress' = [progress EXCEPT ![p] = s]
           /\ topic' = IF completed
                       THEN topic \union {[status |-> "completed", room |-> p.target]} ELSE topic
           /\ creeps' = [creeps EXCEPT ![p] = IF done THEN <<>>
                                             ELSE Moved(Kept(progress[p], s, formation), s, @)]
           /\ ended' = IF done THEN ended \union {p} ELSE ended
  /\ UNCHANGED <<manager, procs, journal, world>>

(* Without the party the creeps go on to the places they were given last.    *)
CreepsGoOn(p) ==
  /\ ~Runs(p)
  /\ \E formation \in Formation : creeps' = [creeps EXCEPT ![p] = Moved(formation, progress[p], @)]
  /\ UNCHANGED <<manager, topic, procs, ended, progress, journal, world>>

(* The next pass of the scheduler unregisters a terminated process. *)
Unregister(p) ==
  /\ p \in ended
  /\ procs' = procs \ {p} /\ ended' = ended \ {p}
  /\ UNCHANGED <<manager, topic, party, journal, world>>

(* MemoryManager.run deletes what no process has written for long. *)
MemoryExpires(p) ==
  /\ p \in saved.parties \ procs
  /\ progress' = [progress EXCEPT ![p] = Beginning]
  /\ UNCHANGED <<manager, topic, procs, ended, creeps, journal, world>>

-----------------------------------------------------------------------------
(* WarManager *)

(* What a base may be assigned to: the targets in range the journal says are *)
(* armed.                                                                    *)
Worthy(wanted, b) == {r \in wanted \intersect InRange[b] : journal[r] = "armed"}

AssignedTo(a, r) == {b \in held : a[b] = r}

(* The loop of updateWarParties gives a base its first target that does not  *)
(* have enough bases yet.  The order of the targets is left open.            *)
Assignments(wanted) ==
  {a \in [held -> Rooms \union {Unseen}] :
     /\ \A r \in Rooms : Cardinality(AssignedTo(a, r)) <= MaxBasesPerTarget
     /\ \A b \in held :
          \/ a[b] \in Worthy(wanted, b)
          \/ /\ a[b] = Unseen
             /\ \A r \in Worthy(wanted, b) : Cardinality(AssignedTo(a, r)) = MaxBasesPerTarget}

(* attack and sendWarParty: an aggressive base that has no party yet sends   *)
(* one, if its target can be beaten.                                         *)
Senders(a, list) ==
  {b \in held \intersect aggressive : a[b] \in Beatable /\ \A p \in list : p.base # b}

FreeNumbers(b, r, list) ==
  {n \in Numbers : [base |-> b, target |-> r, number |-> n] \notin procs \union list \union saved.parties}

NewParty(a, b, list) ==
  [base |-> b, target |-> a[b], number |-> CHOOSE n \in FreeNumbers(b, a[b], list) : TRUE]

Sendings(wanted, list) ==
  {{NewParty(a, b, list) : b \in Senders(a, list)} : a \in Assignments(wanted)}

(* restoreFromMemory, in the first run after a reset. *)
Listed == IF restored THEN warParties ELSE {p \in saved.parties : p.base \in held}
Wanted == IF restored THEN targets ELSE saved.targets
Registered == IF restored THEN procs ELSE procs \union Listed

(* (mutants) A terminated party that is still registered is forgotten too;   *)
(* no party is forgotten.                                                    *)
HastyAlive == {p \in Listed : p \in Registered \ ended}
WrongAlive == Listed

(* updateWarParties first forgets the parties that have no process.          *)
Alive == {p \in Listed : p \in Registered}
Updates(update) == update /\ AutoAttack /\ Wanted # {}

(* restoreFromMemory takes the array of Memory.war, and writeMemory puts the *)
(* one of the manager there; main.ts keeps Memory in the heap.               *)
Aliased(update) == aliased \/ ~restored \/ Updates(update)

Asked == {r \in Rooms : [status |-> "requested", room |-> r] \in topic}
Completed == {r \in Rooms : [status |-> "completed", room |-> r] \in topic}

(* consumeEvents: a room completed is no target any more, and loses its      *)
(* journal entry, and a target without an entry is dropped, so the order of  *)
(* the events makes no difference.  Until the first event after a reset      *)
(* there is no topic, and all targets stay; else they are a new array.       *)
ConsumeEvents(update) ==
  /\ journal' = [r \in Rooms |-> IF r \in Completed THEN Unseen ELSE journal[r]]
  /\ \/ /\ targets' = {r \in (Wanted \union Asked) \ Completed : journal[r] # Unseen}
        /\ aliased' = FALSE
     \/ topic = {} /\ targets' = Wanted /\ aliased' = Aliased(update)
  /\ topic' = {}

(* The rooms asked for are pushed onto the array of the targets, and so onto *)
(* that of Memory if it is the same, until a completed room has it replaced. *)
Pushed(update, consume) ==
  IF consume /\ Aliased(update)
  THEN {k \in SUBSET Asked : Completed = {} => k = Asked} ELSE {{}}

(* WarManager.run: restore, update the parties and consume the events, the   *)
(* last two if their threads are due, which they are in the first run.       *)
WarManagerRun(update, consume) ==
  LET list == IF update THEN Alive ELSE Listed
  IN  /\ ~restored => update /\ consume
      /\ \E sent \in IF Updates(update) THEN Sendings(Wanted, list) ELSE {{}},
            pushed \in Pushed(update, consume) :
           /\ restored' = TRUE /\ warParties' = list \union sent
           /\ procs' = Registered \union sent
           /\ progress' = [p \in Party |-> IF p \in Listed \union saved.parties THEN progress[p] ELSE Beginning]
           /\ creeps' = [p \in Party |-> IF p \in Listed \union saved.parties THEN creeps[p] ELSE <<>>]
           /\ saved' = IF Updates(update)
                       THEN [targets |-> Wanted \union pushed, parties |-> list \union sent]
                       ELSE [saved EXCEPT !.targets = @ \union pushed]
      /\ IF consume THEN ConsumeEvents(update)
         ELSE targets' = Wanted /\ aliased' = Aliased(update) /\ UNCHANGED <<topic, journal>>
      /\ UNCHANGED <<ended, world>>

(* InvaderManager.run and BufferManager.run ask for an attack on the rooms   *)
(* the journal says hold something to attack.                                *)
RequestAttack(r) ==
  /\ journal[r] = "armed"
  /\ topic' = topic \union {[status |-> "requested", room |-> r]}
  /\ UNCHANGED <<manager, procs, ended, party, journal, world>>

(* The scribe writes an entry of a room in view, which counts only towers    *)
(* and other key structures, and forgets old ones.                           *)
UpdateRoom(r) ==
  /\ journal' \in {[journal EXCEPT ![r] = c] : c \in {rooms[r], "bare"}}
  /\ UNCHANGED <<manager, topic, procs, ended, party, world>>

RemoveStaleEntry(r) ==
  /\ journal' = [journal EXCEPT ![r] = Unseen]
  /\ UNCHANGED <<manager, topic, procs, ended, party, world>>

-----------------------------------------------------------------------------
(* The creeps, the rooms and the bases. *)

(* requestCreeps asks for a creep in every run as long as there are fewer    *)
(* than MAX_PARTY_SIZE fresh ones.  The requests live on for a while, so the *)
(* spawns may make more than that.                                           *)
Spawned(p) ==
  /\ p \in procs \ ended /\ p.base \in held
  /\ Len(creeps[p]) < MaxCreeps
  /\ creeps' = [creeps EXCEPT ![p] = Append(@, Border)]
  /\ UNCHANGED <<manager, topic, procs, ended, progress, journal, world>>

CreepDies(p, i) ==
  /\ i \in DOMAIN creeps[p]
  /\ creeps' = [creeps EXCEPT ![p] = Seqs!RemoveAt(@, i)]
  /\ UNCHANGED <<manager, topic, procs, ended, progress, journal, world>>

RoomChanges(r) ==
  /\ \E c \in Content \ {rooms[r]} : rooms' = [rooms EXCEPT ![r] = c]
  /\ UNCHANGED <<manager, topic, procs, ended, party, journal, held, aggressive>>

(* A flag is set or taken away. *)
FlagChanges(b) ==
  /\ aggressive' = IF b \in aggressive THEN aggressive \ {b} ELSE aggressive \union {b}
  /\ UNCHANGED <<manager, topic, procs, ended, party, journal, rooms, held>>

(* A base is lost, and comes back or is founded again (module Bases).        *)
BaseChanges(b) ==
  /\ b \notin Steady
  /\ held' = IF b \in held THEN held \ {b} ELSE held \union {b}
  /\ UNCHANGED <<manager, topic, procs, ended, party, journal, rooms, aggressive>>

(* Memory is parsed anew in a tick that does not follow the last one.        *)
MemoryParsed ==
  /\ aliased /\ aliased' = FALSE
  /\ UNCHANGED <<targets, restored, warParties, saved, topic, procs, ended, party, journal, world>>

(* The heap is lost; Memory, with the journal unless that was cleared, and   *)
(* the world are not.                                                        *)
GlobalReset ==
  /\ restored' = FALSE /\ warParties' = {} /\ targets' = {} /\ aliased' = FALSE
  /\ topic' = {} /\ procs' = {} /\ ended' = {}
  /\ journal' \in {journal, [r \in Rooms |-> Unseen]}
  /\ UNCHANGED <<saved, progress, creeps, world>>

-----------------------------------------------------------------------------
Next ==
  \/ \E update, consume \in BOOLEAN : WarManagerRun(update, consume)
  \/ \E r \in Rooms : RequestAttack(r) \/ UpdateRoom(r) \/ RemoveStaleEntry(r) \/ RoomChanges(r)
  \/ \E b \in Bases : FlagChanges(b) \/ BaseChanges(b)
  \/ \E p \in Party :
       \/ \E clear \in BOOLEAN : PartyRun(p, clear)
       \/ Unregister(p) \/ MemoryExpires(p) \/ Spawned(p)
       \/ CreepsGoOn(p) \/ \E i \in 1..MaxCreeps : CreepDies(p, i)
  \/ MemoryParsed \/ GlobalReset

Spec == Init /\ [][Next]_vars

(* A party that makes requests. *)
Needy(p) == Len(creeps[p]) < PartySize /\ journal[p.target] # Unseen

(* The scheduler runs the processes again and again (module Scheduler), the  *)
(* spawns serve the requests (module Spawning), ways clear, and losses and   *)
(* resets end.                                                               *)
Fairness ==
  /\ WF_vars(WarManagerRun(TRUE, TRUE))
  /\ \A p \in Party :
       /\ WF_vars(PartyRun(p, TRUE))
       /\ WF_vars(Unregister(p)) /\ WF_vars(Needy(p) /\ Spawned(p))
  /\ <>[][~GlobalReset]_vars
  /\ <>[][\A p \in Party, i \in 1..MaxCreeps : ~CreepDies(p, i)]_vars

FairSpec == Spec /\ Fairness

-----------------------------------------------------------------------------
Progress ==
  [phase : Phase, position : Tile,
   previousPositions : UNION {[1..n -> Tile] : n \in 1..MaxPrevious}]

TypeOK ==
  /\ targets \subseteq Rooms
  /\ restored \in BOOLEAN /\ warParties \subseteq Party
  /\ saved.targets \subseteq Rooms /\ saved.parties \subseteq Party /\ aliased \in BOOLEAN
  /\ topic \subseteq Event
  /\ procs \subseteq Party /\ ended \subseteq procs
  /\ progress \in [Party -> Progress]
  /\ DOMAIN creeps = Party /\ \A p \in Party : creeps[p] \in Seq(Tile)
  /\ journal \in [Rooms -> Content \union {Unseen}] /\ rooms \in [Rooms -> Content]
  /\ held \subseteq Bases /\ aggressive \subseteq Bases

(* A base never has two war parties in the field, however resets, ends and   *)
(* the two threads of the manager fall together ("MAX_WAR_PARTIES_PER_BASE"). *)
OnePartyPerBase == \A p, q \in procs : p.base = q.base => p = q

(* A party attacks only where it was sent: its position is in the target     *)
(* room whenever it is in the attack phase, after a reset as well.           *)
AttacksTarget == \A p \in Party : progress[p].phase = "attack" => RoomOf(progress[p].position) = "target"

(* An aggressive base with an armed target in range that can be beaten does  *)
(* not stay idle.                                                            *)
TargetsAttacked ==
  \A b \in Bases :
    <>[](b \in held \intersect aggressive /\ Worthy(targets, b) \intersect Beatable # {})
      => []<>(\E p \in procs : p.base = b)

(* A party ends once nothing is left to attack, unless the journal loses its *)
(* target or its base is lost.                                               *)
AttacksEnd ==
  \A p \in Party :
    <>[](rooms[p.target] = "bare" /\ journal[p.target] # Unseen /\ p.base \in held)
      => []<>(p \notin procs \ ended)

(* Creeps gather at the base: when a party is marshalling at its muster      *)
(* point, the places of its creeps are in the base's room ("Tell creep to    *)
(* move to it's rally point position", party.ts).                            *)
RalliesAtBase ==
  \A p \in Party : \A i \in DOMAIN creeps[p] :
    progress[p].phase = "marshal" /\ progress[p].position = 0
      => RoomOf(Place("single_file", progress[p], i)) = "base"
=============================================================================

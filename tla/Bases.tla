------------------------------- MODULE Bases -------------------------------
(* The life of the bases of a shard.  The base manager (managers/bases.ts)   *)
(* keeps them in the heap and writes them to Memory; it starts a process per *)
(* base (base/runnable.ts), which starts the managers of the base and a      *)
(* process per room (base/room.ts), and which abandons a base that is lost.  *)
(* The remotes manager (base/remotes.ts, base/find_remotes.ts) hands rooms   *)
(* to the bases, expansion (lib/expand.ts) founds new ones, and both go by   *)
(* the journal the scribe keeps of the rooms (managers/scribe.ts).           *)
(*                                                                           *)
(* A base is called by its primary room, as in the code.  Time is abstract:  *)
(* the processes run in any order, and a base is "old" once it was added     *)
(* more than ABANDON_BASE_AFTER ticks ago.                                   *)
EXTENDS Integers, FiniteSets

CONSTANTS
  Rooms,           \* the rooms of the map
  Exits,           \* Game.map.describeExits: the rooms next to a room
  Controlled,      \* the rooms that have a controller
  Foes,            \* the controlled rooms another player owns
  HasSources,      \* the rooms that have energy sources
  Dangerous,       \* the rooms hostile creeps come and go in
  Start,           \* the rooms with a spawn when the bot first starts
  Steady,          \* the rooms always in view whose spawn and controller stay as they are
  Passes,          \* PASSES of lib/expand.ts
  RemotePasses,    \* the rounds of the loop in findRemotes
  MaxRemotes,      \* the most remotes desiredRemotes asks for
  MinCandidates,   \* pickExpansion gives up below this many candidates
  MaxSpawnless,    \* MAX_SPAWNLESS_BASES
  MaxColonies,     \* config.maxColonies
  Gcl,             \* Game.gcl.level
  Elsewhere,       \* the bases the other shards report
  Nobody, Me, Foe, \* the owners of a controller
  Unseen           \* no journal entry

VARIABLES
  bases,     \* BaseManager.bases
  saved,     \* Memory.bases
  aliased,   \* Memory.bases holds the objects of BaseManager.bases
  lost,      \* history: the bases given up that a reset may bring or brought back
  procs,     \* the processes of bases and rooms in the scheduler
  journal,   \* Scribe.journal.rooms
  baseCount, \* Scribe.globalBaseCount
  claimers,  \* the bases a claimer is asked for or on its way to
  owned,     \* the rooms whose controller is mine
  seized,    \* the lost rooms another player has claimed
  spawns     \* the rooms with a spawn of mine

world == <<owned, seized, spawns>>
memory == <<saved, aliased, lost>>
vars == <<bases, memory, procs, journal, baseCount, claimers, world>>

ASSUME RoomsAssumption ==
  /\ IsFiniteSet(Rooms) /\ Exits \in [Rooms -> SUBSET Rooms]
  /\ Foes \subseteq Controlled /\ Controlled \subseteq Rooms
  /\ Start \subseteq Steady /\ Steady \subseteq Rooms

ASSUME LimitsAssumption ==
  /\ Passes \in Nat /\ RemotePasses \in Nat /\ MaxRemotes \in Nat
  /\ Gcl \in Nat /\ Elsewhere \in Nat

-----------------------------------------------------------------------------
Base == DOMAIN bases

(* The rooms that can be a base of mine. *)
Homes == Controlled \ Foes

(* The process of a base and of a room.                                      *)
BaseProcess(b) == [kind |-> "base", of |-> b]
RoomProcess(r) == [kind |-> "room", of |-> r]
Process == [kind : {"base", "room"}, of : Rooms]

NewBase(r) == [rooms |-> {r}, old |-> FALSE]

(* BaseManager.addBase, called for rooms that are no base yet. *)
WithBases(known, new) ==
  [b \in DOMAIN known \union new |-> IF b \in DOMAIN known THEN known[b] ELSE NewBase(b)]

(* BaseManager.removeBase *)
Without(known, b) == [c \in DOMAIN known \ {b} |-> known[c]]

(* Memory.bases once the bases are known: its entries are the objects of the *)
(* bases themselves until Memory is parsed anew, but the bases that were     *)
(* given up stay in it until it is written again.  (Of a base just loaded    *)
(* only the array of rooms is shared, and resetRemotes starts a new one.)    *)
Remember(known) ==
  [b \in DOMAIN saved |-> IF aliased /\ b \in DOMAIN known THEN known[b] ELSE saved[b]]

(* The bases getBaseByRoom may find: those whose rooms include r. *)
BasesOf(known, r) == {b \in DOMAIN known : r \in known[b].rooms}

Init ==
  /\ bases = [b \in Start |-> NewBase(b)]
  /\ saved = [b \in {} |-> NewBase(b)] /\ aliased = FALSE /\ lost = {}
  /\ procs = {}
  /\ journal = [r \in Rooms |-> Unseen]
  /\ baseCount = -2
  /\ claimers = {}
  /\ owned = Start /\ spawns = Start /\ seized = {}

-----------------------------------------------------------------------------
(* lib/expand.ts: where to put the next base.                                *)

(* The rooms the bases hold, and what the journal says of the others.        *)
Held == UNION {bases[b].rooms : b \in Base}
Owned(r) == r \in Controlled /\ journal[r] # Unseen /\ journal[r].owner # Nobody
Unfit(r) == r \notin Controlled \/ journal[r] = Unseen

WrongTooClose(s) == {}

(* "If previous room was claimed, do not build as this room is too close to  *)
(* another base" *)
TooClose(s) == UNION {Exits[p] : p \in s.next \intersect s.claimed}

(* One pass of pickExpansion looks through every exit of the rooms found in  *)
(* the pass before. *)
Pass(s) ==
  LET exits == UNION {Exits[p] : p \in s.next}
      fresh == exits \ (s.claimed \union s.dismissed)
      taken == {r \in fresh : Owned(r)}
  IN  [next |-> exits \ s.seen,
       seen |-> s.seen \union exits,
       claimed |-> s.claimed \union taken,
       dismissed |-> s.dismissed \union taken
                       \union {r \in fresh : Unfit(r) \/ r \in TooClose(s)},
       candidates |-> s.candidates \union
                       {r \in fresh \ taken : ~Unfit(r) /\ \E p \in s.next \ s.claimed : r \in Exits[p]}]

Candidates ==
  LET after[n \in 0..Passes] ==
        IF n = 0 THEN [next |-> Held, seen |-> Held, claimed |-> Held,
                       dismissed |-> {}, candidates |-> {}]
        ELSE LET before == after[n - 1] IN Pass(before)
      end == after[Passes]
  IN  end.candidates \ (end.claimed \union end.dismissed)

Spawnless == {b \in Base : journal[b] # Unseen /\ ~journal[b].spawns}

(* expandBases founds a base at r; the origin it needs is left to chance. *)
Expand(r) ==
  /\ Cardinality(Spawnless) < MaxSpawnless
  /\ baseCount > 0 /\ baseCount < Gcl
  /\ Cardinality(Base) < MaxColonies
  /\ LET found == Candidates IN r \in found /\ Cardinality(found) >= MinCandidates
  /\ bases' = WithBases(bases, {r})

WrongMissing == {BaseProcess(b) : b \in Base \intersect spawns} \ procs

(* baseProcesses: the bases without a process. *)
Missing == {BaseProcess(b) : b \in Base} \ procs

(* Two bases hold a room that is the primary room of neither. *)
Share(known, a, b) == ~(known[a].rooms \intersect known[b].rooms \subseteq {a, b})

(* Memory.bases = Array.from(this.bases.entries()), which forgets the bases  *)
(* given up.  One that came back stays in doubt while it shares a room.      *)
Save ==
  /\ saved' = bases'
  /\ aliased' = TRUE
  /\ lost' = {b \in lost \intersect Base : \E a \in Base \ {b} : Share(bases, a, b)}

(* BaseManager.run: its threads start the missing processes and, if it is    *)
(* time to, expand, and then the bases are written to Memory.                *)
BaseManagerRun ==
  /\ procs' = procs \union Missing
  /\ bases' = bases
  /\ Save
  /\ UNCHANGED <<journal, baseCount, claimers, world>>

BaseManagerExpands(r) ==
  /\ procs' = procs \union Missing
  /\ Expand(r)
  /\ Save
  /\ UNCHANGED <<journal, baseCount, claimers, world>>

-----------------------------------------------------------------------------
(* BaseRunnable.run *)

WrongAbandons(b, claimed, fortified) ==
  bases[b].old /\ claimed /\ b \notin spawns /\ ~fortified

(* abandonBase gives up an old base that is out of sight or has no spawn or  *)
(* tower of mine and no level above 4.  A room nobody claimed has none of    *)
(* those, in sight or not; of a claimed one, fortified says that it has one  *)
(* of the last two.                                                          *)
Abandons(b, claimed, fortified) ==
  /\ bases[b].old
  /\ claimed => b \notin spawns /\ ~fortified

(* BaseManager.removeBase leaves Memory.bases as it is. *)
AbandonBase(b, abandons) ==
  /\ IF abandons THEN bases' = Without(bases, b) /\ lost' = lost \union {b}
                 ELSE bases' = bases /\ lost' = lost
  /\ UNCHANGED <<saved, aliased>>

WrongTerminate(p) == procs

(* A process whose base is gone ends: its run returns terminate(). *)
Terminate(p) == procs \ {p}

BaseEnds(b) ==
  /\ BaseProcess(b) \in procs /\ b \notin Base
  /\ procs' = Terminate(BaseProcess(b))
  /\ UNCHANGED <<bases, memory, journal, baseCount, claimers, world>>

(* Out of sight or never claimed: abandon it if it is time to, and ask for a *)
(* claimer in any case, unless one is on its way.                            *)
BaseUnclaimed(b, due) ==
  /\ BaseProcess(b) \in procs /\ b \in Base
  /\ b \notin owned
  /\ AbandonBase(b, due /\ Abandons(b, FALSE, FALSE))
  /\ claimers' = claimers \union {b}
  /\ UNCHANGED <<procs, journal, baseCount, world>>

(* A base in sight and claimed, by me or by another player, starts its       *)
(* managers and, if that is due as well, the processes of its rooms, even in *)
(* the run that abandons it: the run goes on with the object it has.         *)
BaseClaimed(b, due, fortified, starts) ==
  /\ BaseProcess(b) \in procs /\ b \in Base
  /\ b \in owned \union seized
  /\ AbandonBase(b, due /\ Abandons(b, TRUE, fortified))
  /\ procs' = IF starts THEN procs \union {RoomProcess(r) : r \in bases[b].rooms} ELSE procs
  /\ UNCHANGED <<journal, baseCount, claimers, world>>

-----------------------------------------------------------------------------
(* RemotesManager.run *)

(* checkCandidate: may base b mine r, and may the search go on through it?   *)
WrongTaken(b, r) == FALSE

Taken(b, r) == BasesOf(bases, r) \ {b} # {}

Passable(b, r, hostile) ==
  \/ Taken(b, r)
  \/ /\ journal[r] # Unseen
     /\ \/ r \notin HasSources \/ r \notin Controlled
        \/ journal[r].owner # Foe /\ r \notin hostile

Minable(b, r, hostile) ==
  /\ ~Taken(b, r)
  /\ journal[r] # Unseen
  /\ r \in HasSources /\ r \in Controlled
  /\ journal[r].owner # Foe /\ r \notin hostile

(* findRemotes: rounds of the search from the primary room. *)
Remotes(b, hostile) ==
  LET found[n \in 0..RemotePasses] ==
        IF n = 0 THEN {b}
        ELSE LET reached == found[n - 1]
             IN  reached \union {r \in UNION {Exits[p] : p \in reached} : Passable(b, r, hostile)}
  IN  {r \in found[RemotePasses] \ {b} : Minable(b, r, hostile)}

(* updateRemotes: forget the remotes and take as many as desired of those    *)
(* found.  The order of distance and sources is left open.                   *)
UpdateRemotes(b, desired, remotes, chosen) ==
  /\ desired > 0
  /\ chosen \subseteq remotes
  /\ \/ Cardinality(chosen) = desired
     \/ chosen = remotes /\ Cardinality(chosen) < desired
  /\ bases' = [bases EXCEPT ![b].rooms = {b} \union chosen]
  /\ saved' = Remember(bases')
  /\ UNCHANGED <<aliased, lost, procs, journal, baseCount, claimers, world>>

(* RoomRunnable.run: a room no base holds ends its process. *)
RoomEnds(r) ==
  /\ RoomProcess(r) \in procs /\ BasesOf(bases, r) = {}
  /\ procs' = Terminate(RoomProcess(r))
  /\ UNCHANGED <<bases, memory, journal, baseCount, claimers, world>>

-----------------------------------------------------------------------------
(* Scribe.run *)

(* A reservation counts as ownership: reserved are the rooms my reservers    *)
(* hold, which are or were remotes.                                          *)
OwnerOf(r, reserved) ==
  IF r \in owned \union reserved THEN Me ELSE IF r \in Foes \union seized THEN Foe ELSE Nobody

(* updateRoom for the rooms in view that have no entry or one older than     *)
(* JOURNAL_ENTRY_TTL.  The rooms owned are in view, and so may others be,    *)
(* through a creep or an observer.                                           *)
UpdateRooms(outdated, reserved) ==
  /\ journal' = [r \in Rooms |->
                   IF r \in outdated \/ (r \in owned \union Steady /\ journal[r] = Unseen)
                   THEN [owner |-> OwnerOf(r, reserved), spawns |-> r \in spawns] ELSE journal[r]]
  /\ UNCHANGED <<bases, memory, procs, baseCount, claimers, world>>

(* removeStaleJournalEntries, for a room long out of sight. *)
RemoveStaleEntry(r) ==
  /\ r \notin owned \union Steady
  /\ journal' = [journal EXCEPT ![r] = Unseen]
  /\ UNCHANGED <<bases, memory, procs, baseCount, claimers, world>>

(* updateBaseCount skips its first turn. *)
Count == IF baseCount = -2 THEN -1 ELSE Cardinality(Base) + Elsewhere

UpdateBaseCount ==
  /\ baseCount' = Count
  /\ UNCHANGED <<bases, memory, procs, journal, claimers, world>>

-----------------------------------------------------------------------------
(* The claimer of base b arrives (creeps/roles/reserver.ts): it dies if the  *)
(* base is gone, and the game lets it claim a free controller only while the *)
(* global control level allows one more.                                     *)
ClaimerArrives(b) ==
  /\ b \in claimers
  /\ claimers' = claimers \ {b}
  /\ IF b \in Base /\ b \notin owned \union seized \union Foes /\ Cardinality(owned) < Gcl
     THEN owned' = owned \union {b} ELSE owned' = owned
  /\ UNCHANGED <<bases, memory, procs, journal, baseCount, seized, spawns>>

ClaimerLost(b) ==
  /\ b \in claimers
  /\ claimers' = claimers \ {b}
  /\ UNCHANGED <<bases, memory, procs, journal, baseCount, world>>

GrowOld(b) ==
  /\ b \in Base \ Steady /\ ~bases[b].old
  /\ bases' = [bases EXCEPT ![b].old = TRUE]
  /\ saved' = [c \in DOMAIN saved |-> IF c = b THEN [saved[c] EXCEPT !.old = TRUE] ELSE saved[c]]
  /\ UNCHANGED <<aliased, lost, procs, journal, baseCount, claimers, world>>

SpawnBuilt(r) ==
  /\ r \in owned \ spawns
  /\ spawns' = spawns \union {r}
  /\ UNCHANGED <<bases, memory, procs, journal, baseCount, claimers, owned, seized>>

SpawnDestroyed(r) ==
  /\ r \in spawns \ Steady
  /\ spawns' = spawns \ {r}
  /\ UNCHANGED <<bases, memory, procs, journal, baseCount, claimers, owned, seized>>

ControllerLost(r) ==
  /\ r \in owned \ (Steady \union spawns)
  /\ owned' = owned \ {r}
  /\ UNCHANGED <<bases, memory, procs, journal, baseCount, claimers, seized, spawns>>

RoomTaken(r) ==
  /\ r \in Homes \ (Steady \union owned \union seized)
  /\ seized' = seized \union {r}
  /\ UNCHANGED <<bases, memory, procs, journal, baseCount, claimers, owned, spawns>>

RoomFreed(r) ==
  /\ r \in seized
  /\ seized' = seized \ {r}
  /\ UNCHANGED <<bases, memory, procs, journal, baseCount, claimers, owned, spawns>>

(* The constructor of BaseManager: the bases in Memory, and one for every    *)
(* spawn in a room that is not a base yet.                                   *)
Loaded == WithBases(saved, spawns)

(* A global reset: the heap is lost and the kernel built anew.  The journal  *)
(* comes back from Memory.scribe, unless that was cleared to save CPU.       *)
GlobalReset ==
  /\ bases' = Loaded
  /\ aliased' = FALSE
  /\ procs' = {}
  /\ journal' \in {journal, [r \in Rooms |-> Unseen]}
  /\ baseCount' = -2
  /\ UNCHANGED <<saved, lost, claimers, world>>

(* main.ts keeps the parsed Memory only from one tick to the next: a tick    *)
(* that was skipped makes it parse what was written.                         *)
MemoryParsed ==
  /\ aliased
  /\ aliased' = FALSE
  /\ UNCHANGED <<bases, saved, lost, procs, journal, baseCount, claimers, world>>

-----------------------------------------------------------------------------
BaseRun(b, due, fortified, starts) ==
  BaseEnds(b) \/ BaseUnclaimed(b, due) \/ BaseClaimed(b, due, fortified, starts)

(* desiredRemotes asks for none without a spawn, and at times with one: the  *)
(* remotes stay as they are.                                                 *)
RemotesRun(b) ==
  /\ b \in Base
  /\ b \in spawns
  /\ \E hostile \in SUBSET Dangerous :
       LET remotes == Remotes(b, hostile)
       IN  \E desired \in 0..MaxRemotes, chosen \in SUBSET remotes :
             UpdateRemotes(b, desired, remotes, chosen)

ScribeRun ==
  \/ \E outdated \in SUBSET (Rooms \ Steady),
        reserved \in SUBSET ((HasSources \intersect Homes) \ (owned \union seized)) :
       UpdateRooms(outdated, reserved)
  \/ \E r \in Rooms : RemoveStaleEntry(r)
  \/ UpdateBaseCount

Environment ==
  \/ \E r \in Rooms : \/ ClaimerArrives(r) \/ ClaimerLost(r) \/ GrowOld(r)
                      \/ SpawnBuilt(r) \/ SpawnDestroyed(r)
                      \/ ControllerLost(r) \/ RoomTaken(r) \/ RoomFreed(r)
  \/ GlobalReset
  \/ MemoryParsed

Next ==
  \/ BaseManagerRun
  \/ \E r \in Rooms : BaseManagerExpands(r)
  \/ \E b \in Rooms : \/ \E due, fortified, starts \in BOOLEAN : BaseRun(b, due, fortified, starts)
                      \/ RemotesRun(b)
                      \/ RoomEnds(b)
  \/ ScribeRun
  \/ Environment

Spec == Init /\ [][Next]_vars

(* The scheduler runs every process again and again, time passes, and global *)
(* resets end.  A base runs every 10 ticks, abandons every 50 and starts     *)
(* processes every 20, so every 100 ticks a run does both.                   *)
Fairness ==
  /\ WF_vars(BaseManagerRun)
  /\ \A b \in Homes : /\ WF_vars(\E fortified \in BOOLEAN : BaseRun(b, TRUE, fortified, TRUE))
                      /\ WF_vars(RoomEnds(b))
  /\ \A b \in Homes \ Steady : WF_vars(GrowOld(b))

FairSpec == Spec /\ Fairness /\ <>[][~GlobalReset]_vars

-----------------------------------------------------------------------------
BaseRecord == [rooms : SUBSET Rooms, old : BOOLEAN]
Entry == [owner : {Nobody, Me, Foe}, spawns : BOOLEAN]

TypeOK ==
  /\ Base \subseteq Rooms /\ \A b \in Base : bases[b] \in BaseRecord
  /\ DOMAIN saved \subseteq Rooms /\ \A b \in DOMAIN saved : saved[b] \in BaseRecord
  /\ aliased \in BOOLEAN /\ lost \subseteq Rooms
  /\ procs \subseteq Process
  /\ journal \in [Rooms -> Entry \union {Unseen}]
  /\ baseCount \in Nat \union {-2, -1}
  /\ claimers \subseteq Rooms
  /\ owned \subseteq Rooms /\ spawns \subseteq owned /\ seized \subseteq Rooms

(* Two bases mine the same remote only if one of them was given up and a     *)
(* global reset brought it back from Memory with the remotes it once had:    *)
(* any other room that two of them hold is the primary room of one.          *)
RemotesNotShared == \A a, b \in Base \ lost : a # b => ~Share(bases, a, b)

(* The rooms at most i exits away from the rooms the bases hold. *)
Reached(i) ==
  LET from[n \in 0..i] ==
        IF n = 0 THEN Held ELSE from[n - 1] \union UNION {Exits[p] : p \in from[n - 1]}
  IN  from[i]

(* Expansion takes no room next to one a base holds or the journal says is   *)
(* owned, in whatever order the search comes by them, unless that neighbour  *)
(* is as far away as the search goes.                                        *)
KeepsDistance ==
  [][\A r \in DOMAIN bases' \ Base :
       ~GlobalReset =>
         \A n \in Reached(Passes - 1) : r \in Exits[n] => n \notin Held /\ ~Owned(n)]_vars

(* The processes that ought to run: one per base, and one per room of a base *)
(* whose primary room is claimed.                                            *)
Wanted ==
  {BaseProcess(b) : b \in Base}
    \union {RoomProcess(r) : r \in UNION {bases[b].rooms : b \in Base \intersect owned}}

(* Whatever is lost in a reset or ends too early is started again.           *)
EverythingServed ==
  \A p \in {q \in Process : q.of \in Homes} : []<>(p \in procs \/ p \notin Wanted)

(* A process whose base is gone ends, or finds its base again.               *)
Needed(p) == IF p.kind = "room" THEN BasesOf(bases, p.of) # {} ELSE p.of \in Base
OrphansEnd == \A p \in {q \in Process : q.of \in Homes} : []<>(p \notin procs \/ Needed(p))

(* A base that stays unclaimed is given up, again each time expansion founds *)
(* it anew, and a base that is gone for good is gone from Memory.  (One that *)
(* another player builds up to level 5 is kept while it is in sight.)        *)
LostBasesEnd ==
  \A b \in Homes \ Steady :
    /\ <>[](b \notin owned \union seized) => []<>(b \notin Base)
    /\ <>[](b \notin Base) => <>[](b \notin DOMAIN saved)
=============================================================================

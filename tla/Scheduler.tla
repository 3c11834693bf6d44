------------------------------ MODULE Scheduler ------------------------------
(***************************************************************************)
(* The cooperative process scheduler: src/os/scheduler.ts and              *)
(* src/os/process.ts, driven once per game tick by src/os/kernel/ai.ts.    *)
(*                                                                         *)
(* A process object has an id, a priority (0 is the most urgent) and an    *)
(* adjusted priority that drops by one whenever the process is passed over *)
(* and that a completed run resets.  A tick sorts the process table once, then *)
(* visits in that order every process that was in it when the loop         *)
(* started, and unregisters the terminated ones after the loop.            *)
(*                                                                         *)
(* Time is relative: idle[p] is Game.time - lastRun and wait[p] is         *)
(* nextRun - Game.time, because the code only ever compares them.  The     *)
(* order of processes that tie on every sort key is left open (the code    *)
(* keeps the table's order), so the table is a set and the tick chooses    *)
(* the sequence it visits.                                                 *)
(***************************************************************************)
EXTENDS Integers, FiniteSets, SequencesExt

CONSTANTS
  Procs,        \* process objects
  Ids,          \* process ids: two objects may carry the same id
  IdOf,         \* the id of each object
  Priority,     \* Process.priority
  Skippable,    \* the objects whose canSkip() is true
  Unasked,      \* the ids whose registrants do not ask hasProcess first
  Boot,         \* what the AI constructor registers on a fresh global
  Faulty,       \* objects whose runnable may throw or exhaust the hard limit
  LowBucketMin, \* LOW_BUCKET_MIN_PRIORITY
  None,         \* "no process"
  MaxSleep,     \* bound: longest sleeping(n)
  IdleCap,      \* bound: idle saturates here ("never ran" is IdleCap too)
  MaxAge,       \* bound: the adjusted priority stops falling after MaxAge skips
  MaxStarved,   \* bound: consecutive ticks that begin without CPU
  MaxFaults     \* bound: runs that throw, kills and global resets

ASSUME SchedulerAssumption ==
  /\ IdOf \in [Procs -> Ids]
  /\ Priority \in [Procs -> Nat]
  /\ IsFiniteSet(Procs)
  /\ Skippable \subseteq Procs
  /\ Unasked \subseteq Ids
  /\ Faulty \subseteq Procs
  /\ Boot \subseteq Procs
  /\ \A p, q \in Boot : IdOf[p] = IdOf[q] => p = q
  /\ None \notin Procs
  /\ LowBucketMin \in Nat
  /\ MaxSleep \in Nat
  /\ IdleCap \in Nat \ {0}
  /\ MaxAge \in Nat
  /\ MaxStarved \in Nat
  /\ MaxFaults \in Nat

VARIABLES
  table,      \* processTable, as a set
  map,        \* processMap: id -> object
  status,     \* Process.status
  adjusted,   \* Process.adjustedPriority
  idle,       \* ticks since lastRun
  wait,       \* ticks until nextRun
  phase,      \* "between" ticks or "visiting" the table
  queue,      \* processes the loop of this tick has still to visit, in its order
  cur,        \* the process whose run() is on the stack
  toRemove,   \* terminated processes found by the loop
  outOfTime,  \* Game.cpu.getUsed() >= timeLimit
  lowBucket,  \* Game.cpu.bucket < 1000
  starved,    \* consecutive ticks that began without CPU or in a low bucket
  faults      \* runs that threw, kills and global resets so far

procVars == <<status, adjusted, idle, wait>>
tickVars == <<phase, queue, cur, toRemove, outOfTime, lowBucket>>
vars == <<table, map, procVars, tickVars, starved, faults>>

Statuses == {"running", "sleeping", "terminated"}

-----------------------------------------------------------------------------
(* Mutants: operators named Wrong... are mistakes one could make in the      *)
(* definition that follows them; they show which property would notice.      *)

WrongHasProcessIfLive(i) == map[i] # None /\ status[map[i]] # "terminated"

(* hasProcess(id) *)
HasProcess(i) == map[i] # None

WrongBeforeUnaged(p, q) == Priority[p] < Priority[q]

(* sortByAll(..., ['adjustedPriority', 'skippable', 'lastRun']): p strictly  *)
(* before q.  A longer idle time is a smaller lastRun.                       *)
Before(p, q) ==
  LET unskippableFirst == p \notin Skippable /\ q \in Skippable
      sameSkippable    == p \in Skippable <=> q \in Skippable
  IN  \/ adjusted[p] < adjusted[q]
      \/ adjusted[p] = adjusted[q] /\ unskippableFirst
      \/ adjusted[p] = adjusted[q] /\ sameSkippable /\ idle[p] > idle[q]

(* The orders the sorted table may have. *)
Sorted(ps) ==
  {s \in SetToSeqs(ps) : \A i, j \in DOMAIN s : i < j => ~Before(s[j], s[i])}

(* forEach takes the next process of the order sorted when the tick began.   *)
IsNext(p) == queue # <<>> /\ p = Head(queue)

(* The two early returns of the loop body. *)
PassedOver(p) ==
  \/ lowBucket /\ Priority[p] >= LowBucketMin
  \/ outOfTime /\ p \in Skippable

Skips(p) == Priority[p] - adjusted[p]

Older(n) == IF n < IdleCap THEN n + 1 ELSE n
Sooner(n) == IF n > 0 THEN n - 1 ELSE 0

-----------------------------------------------------------------------------
(* new Process(...) for every object; the constructor registers Boot. *)
FreshStatus == [p \in Procs |-> "running"]
FreshIdle == [p \in Procs |-> IdleCap]
Zeros == [p \in Procs |-> 0]
BootMap == [i \in Ids |->
  IF \E p \in Boot : IdOf[p] = i THEN CHOOSE p \in Boot : IdOf[p] = i ELSE None]

Init ==
  /\ table = Boot
  /\ map = BootMap
  /\ status = FreshStatus
  /\ adjusted = Priority
  /\ idle = FreshIdle
  /\ wait = Zeros
  /\ phase = "between"
  /\ queue = <<>>
  /\ cur = None
  /\ toRemove = {}
  /\ outOfTime = FALSE
  /\ lowBucket = FALSE
  /\ starved = 0
  /\ faults = 0

-----------------------------------------------------------------------------
(* tick: the time limit is recomputed and the table sorted.  The CPU used    *)
(* before the first process, and the bucket, are the environment's.          *)
BeginTick ==
  /\ phase = "between"
  /\ \E late, low \in BOOLEAN :
       /\ outOfTime' = late
       /\ lowBucket' = low
       /\ IF late \/ low THEN starved < MaxStarved /\ starved' = starved + 1
                         ELSE starved' = 0
  /\ phase' = "visiting"
  /\ queue' \in Sorted(table)
  /\ toRemove' = {}
  /\ UNCHANGED <<table, map, procVars, cur, faults>>

(* outOfTime(process): the process is passed over and ages. *)
WrongSkipUnaged(p) == UNCHANGED adjusted

Skip(p) ==
  adjusted' = [adjusted EXCEPT ![p] = IF Skips(p) < MaxAge THEN @ - 1 ELSE @]

PassOver(p) ==
  /\ phase = "visiting" /\ cur = None /\ IsNext(p)
  /\ PassedOver(p)
  /\ queue' = Tail(queue)
  /\ Skip(p)
  /\ UNCHANGED <<table, map, status, idle, wait, phase, cur, toRemove,
                 outOfTime, lowBucket, starved, faults>>

(* process.run() up to the call of the runnable: lastRun = Game.time. *)
StartRun(p) ==
  /\ phase = "visiting" /\ cur = None /\ IsNext(p)
  /\ ~PassedOver(p) /\ status[p] = "running"
  /\ queue' = Tail(queue)
  /\ cur' = p
  /\ idle' = [idle EXCEPT ![p] = 0]
  /\ UNCHANGED <<table, map, status, adjusted, wait, phase, toRemove,
                 outOfTime, lowBucket, starved, faults>>

(* A new Process(...) in the map and at the end of the table. *)
AddProcess(q) ==
  /\ table' = table \cup {q}
  /\ map' = [map EXCEPT ![IdOf[q]] = q]
  /\ status' = [status EXCEPT ![q] = "running"]
  /\ adjusted' = [adjusted EXCEPT ![q] = Priority[q]]
  /\ idle' = [idle EXCEPT ![q] = IdleCap]
  /\ wait' = [wait EXCEPT ![q] = 0]

WrongRegisterVisited(q) ==
  /\ cur # None /\ q \notin table
  /\ IdOf[q] \in Unasked \/ ~HasProcess(IdOf[q])
  /\ AddProcess(q)
  /\ queue' = Append(queue, q)
  /\ UNCHANGED <<phase, cur, toRemove, outOfTime, lowBucket, starved, faults>>

(* registerProcess(new Process(...)) by the running process, which asks      *)
(* hasProcess first unless it restores a war party or a defence party.  The  *)
(* loop of this tick does not visit what it adds.                            *)
Register(q) ==
  /\ cur # None /\ q \notin table
  /\ IdOf[q] \in Unasked \/ ~HasProcess(IdOf[q])
  /\ AddProcess(q)
  /\ UNCHANGED <<tickVars, starved, faults>>

(* CPU use only grows within a tick. *)
UseCpu == outOfTime' \in {outOfTime, TRUE}

ResetPriority == adjusted' = [adjusted EXCEPT ![cur] = Priority[cur]]

WrongSleepLonger(n) ==
  /\ status' = [status EXCEPT ![cur] = "sleeping"]
  /\ wait' = [wait EXCEPT ![cur] = n + 1]

SetSleeping(n) ==
  /\ status' = [status EXCEPT ![cur] = "sleeping"]
  /\ wait' = [wait EXCEPT ![cur] = n]

(* process.run() after the runnable returned running(), sleeping(n) or       *)
(* terminate().                                                              *)
FinishRun ==
  /\ cur # None
  /\ \/ status' = [status EXCEPT ![cur] = "running"] /\ wait' = [wait EXCEPT ![cur] = 0]
     \/ \E n \in 0..MaxSleep : SetSleeping(n)
     \/ status' = [status EXCEPT ![cur] = "terminated"] /\ UNCHANGED wait
  /\ ResetPriority
  /\ UseCpu
  /\ cur' = None
  /\ UNCHANGED <<table, map, idle, phase, queue, toRemove, lowBucket,
                 starved, faults>>

Fault == faults < MaxFaults /\ faults' = faults + 1

(* The runnable throws: the scheduler's catch logs it.  run() never reached  *)
(* the switch nor the reset of the adjusted priority.                        *)
ThrowRun ==
  /\ cur \in Faulty /\ Fault
  /\ UseCpu
  /\ cur' = None
  /\ UNCHANGED <<table, map, procVars, phase, queue, toRemove, lowBucket,
                 starved>>

(* A sleeping process whose time has come becomes running; it runs at the    *)
(* earliest in the next tick.                                                *)
Wake(p) ==
  /\ phase = "visiting" /\ cur = None /\ IsNext(p)
  /\ ~PassedOver(p) /\ status[p] = "sleeping"
  /\ queue' = Tail(queue)
  /\ status' = IF wait[p] = 0 THEN [status EXCEPT ![p] = "running"] ELSE status
  /\ UNCHANGED <<table, map, adjusted, idle, wait, phase, cur, toRemove,
                 outOfTime, lowBucket, starved, faults>>

(* A terminated process is noted for removal. *)
Collect(p) ==
  /\ phase = "visiting" /\ cur = None /\ IsNext(p)
  /\ ~PassedOver(p) /\ status[p] = "terminated"
  /\ queue' = Tail(queue)
  /\ toRemove' = toRemove \cup {p}
  /\ UNCHANGED <<table, map, procVars, phase, cur, outOfTime, lowBucket,
                 starved, faults>>

(* Game.time advances. *)
Age ==
  /\ idle' = [p \in Procs |-> Older(idle[p])]
  /\ wait' = [p \in Procs |-> Sooner(wait[p])]

WrongUnregisterInTime(rs) ==
  LET gone == IF outOfTime THEN {} ELSE rs
  IN  /\ table' = table \ gone
      /\ map' = [i \in Ids |-> IF \E p \in gone : IdOf[p] = i THEN None ELSE map[i]]

(* unregisterProcess for each of rs. *)
Unregister(rs) ==
  /\ table' = table \ rs
  /\ map' = [i \in Ids |-> IF \E p \in rs : IdOf[p] = i THEN None ELSE map[i]]

EndTick ==
  /\ phase = "visiting" /\ cur = None /\ queue = <<>>
  /\ Unregister(toRemove)
  /\ Age
  /\ phase' = "between"
  /\ toRemove' = {}
  /\ UNCHANGED <<status, adjusted, queue, cur, outOfTime, lowBucket,
                 starved, faults>>

(* The engine stops a script that exceeds the hard CPU limit in the middle of *)
(* a run: the rest of the tick, the removals included, does not happen, and  *)
(* the heap survives.                                                        *)
KillTick ==
  /\ cur \in Faulty /\ Fault
  /\ Age
  /\ phase' = "between"
  /\ cur' = None
  /\ queue' = <<>>
  /\ toRemove' = {}
  /\ UNCHANGED <<table, map, status, adjusted, outOfTime, lowBucket,
                 starved>>

(* A global reset: the heap is lost and src/main.ts constructs a new AI.     *)
GlobalReset ==
  /\ phase = "between" /\ Fault
  /\ table' = Boot
  /\ map' = BootMap
  /\ status' = FreshStatus
  /\ adjusted' = Priority
  /\ idle' = FreshIdle
  /\ wait' = Zeros
  /\ UNCHANGED <<tickVars, starved>>

Visit(p) == PassOver(p) \/ StartRun(p) \/ Wake(p) \/ Collect(p)

TickStep ==
  \/ BeginTick
  \/ \E p \in Procs : Visit(p)
  \/ FinishRun
  \/ ThrowRun
  \/ EndTick

Next ==
  \/ TickStep
  \/ \E q \in Procs : Register(q)
  \/ KillTick
  \/ GlobalReset

Spec == Init /\ [][Next]_vars

(* The game calls main's loop every tick and the scheduler's loop always     *)
(* makes progress; registrations, kills and resets need not happen.          *)
FairSpec == Spec /\ WF_vars(TickStep)

-----------------------------------------------------------------------------
TypeOK ==
  /\ table \subseteq Procs
  /\ map \in [Ids -> Procs \cup {None}]
  /\ status \in [Procs -> Statuses]
  /\ adjusted \in [Procs -> Int]
  /\ idle \in [Procs -> 0..IdleCap]
  /\ wait \in [Procs -> 0..MaxSleep]
  /\ phase \in {"between", "visiting"}
  /\ queue \in Seq(table)
  /\ cur \in Procs \cup {None}
  /\ toRemove \subseteq table
  /\ outOfTime \in BOOLEAN
  /\ lowBucket \in BOOLEAN
  /\ starved \in 0..MaxStarved
  /\ faults \in 0..MaxFaults

(* The map never leads to an object that has left the table, and an id whose *)
(* registrants ask hasProcess has one object, the one the map leads to: such *)
(* a manager never starts a second copy, even while the first is terminated  *)
(* and waits for its removal.  Of two objects with one unasked id the map    *)
(* holds the later, or none once either of them has been removed.            *)
RegistryConsistent ==
  /\ \A i \in Ids : map[i] # None => map[i] \in table /\ IdOf[map[i]] = i
  /\ \A p \in table : IdOf[p] \notin Unasked => map[IdOf[p]] = p

(* The order sorted once at the start of the tick stays right: what runs is  *)
(* at least as urgent, ages included, as everything the loop has still to    *)
(* visit, although the processes before it were aged, reset or registered.   *)
UrgentFirst ==
  cur # None => \A q \in Range(queue) : adjusted[cur] <= adjusted[q]

(* A registered process that wants to run runs again and again: no priority  *)
(* is starved.                                                               *)
NoStarvation ==
  \A p \in Procs : []<>(p \notin table \/ status[p] # "running" \/ idle[p] = 0)

(* A terminated process leaves the table, so its id can be used again,      *)
(* however late the ticks are.                                               *)
TerminatedLeaves ==
  \A p \in Procs : []<>(p \notin table \/ status[p] # "terminated")
=============================================================================

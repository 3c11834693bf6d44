--------------------------- MODULE SchedulerProofs ---------------------------
(***************************************************************************)
(* Proofs about the scheduler for any set of processes, ids, priorities    *)
(* and bounds: type correctness, the agreement of processTable and         *)
(* processMap, and the order in which the loop runs processes.             *)
(***************************************************************************)
EXTENDS Scheduler, FiniteSetTheorems, TLAPS

(* Between ticks no loop variable is in use; while a process runs it is in   *)
(* the table and the loop has already passed it.                             *)
LoopConsistent ==
  /\ phase = "between" => cur = None /\ queue = <<>> /\ toRemove = {}
  /\ cur # None => cur \in table

(* What the loop has still to visit: each process once, and in an order that *)
(* the present ages of those processes justify.                              *)
QueueOrdered ==
  /\ \A i, j \in 1..Len(queue) : i # j => queue[i] # queue[j]
  /\ \A i, j \in 1..Len(queue) : i < j => adjusted[queue[i]] <= adjusted[queue[j]]

(* The process on the stack is not visited again, and goes before the rest.  *)
CurBeforeQueue ==
  cur # None => \A i \in 1..Len(queue) : queue[i] # cur /\ adjusted[cur] <= adjusted[queue[i]]

Inv == TypeOK /\ LoopConsistent /\ QueueOrdered /\ CurBeforeQueue /\ RegistryConsistent

(* What the constructor registers has one object per id, so the map of a     *)
(* fresh global sends each id to its object.                                 *)
LEMMA BootMapCorrect ==
  /\ BootMap \in [Ids -> Procs \cup {None}]
  /\ \A p \in Boot : BootMap[IdOf[p]] = p
  /\ \A i \in Ids : BootMap[i] # None => BootMap[i] \in Boot /\ IdOf[BootMap[i]] = i
<1> DEFINE Holder(i) == CHOOSE p \in Boot : IdOf[p] = i
<1>1. \A i \in Ids : (\E p \in Boot : IdOf[p] = i)
                       => Holder(i) \in Boot /\ IdOf[Holder(i)] = i
  OBVIOUS
<1>2. \A i \in Ids : BootMap[i] = IF \E p \in Boot : IdOf[p] = i THEN Holder(i) ELSE None
  BY DEF BootMap
<1>3. BootMap \in [Ids -> Procs \cup {None}]
  BY <1>1, SchedulerAssumption DEF BootMap
<1>4. ASSUME NEW p \in Boot PROVE BootMap[IdOf[p]] = p
  <2>1. IdOf[p] \in Ids
    BY SchedulerAssumption
  <2>2. BootMap[IdOf[p]] = Holder(IdOf[p])
    BY <1>2, <2>1
  <2>3. Holder(IdOf[p]) \in Boot /\ IdOf[Holder(IdOf[p])] = IdOf[p]
    BY <1>1, <2>1
  <2> QED BY <2>2, <2>3, SchedulerAssumption
<1>5. ASSUME NEW i \in Ids, BootMap[i] # None
      PROVE  BootMap[i] \in Boot /\ IdOf[BootMap[i]] = i
  BY <1>1, <1>2, <1>5
<1> QED BY <1>3, <1>4, <1>5

(* A new Process has a status, a lastRun and a nextRun of the right type.    *)
LEMMA FreshTypes ==
  /\ FreshStatus \in [Procs -> Statuses]
  /\ FreshIdle \in [Procs -> 0..IdleCap]
  /\ Zeros \in [Procs -> 0..MaxSleep]
BY SchedulerAssumption DEF FreshStatus, FreshIdle, Zeros, Statuses

LEMMA InitInv == Init => Inv
<1> SUFFICES ASSUME Init PROVE Inv
  OBVIOUS
<1>1. TypeOK
  <2>1. map \in [Ids -> Procs \cup {None}]
    BY BootMapCorrect DEF Init
  <2>2. adjusted \in [Procs -> Int]
    BY SchedulerAssumption DEF Init
  <2>3. /\ status \in [Procs -> Statuses]
        /\ idle \in [Procs -> 0..IdleCap]
        /\ wait \in [Procs -> 0..MaxSleep]
    BY FreshTypes DEF Init
  <2>4. /\ table \subseteq Procs /\ queue \in Seq(table) /\ toRemove \subseteq table
        /\ phase \in {"between", "visiting"} /\ cur \in Procs \cup {None}
    BY SchedulerAssumption DEF Init
  <2>5. starved \in 0..MaxStarved /\ faults \in 0..MaxFaults
    BY SchedulerAssumption DEF Init
  <2>6. outOfTime \in BOOLEAN /\ lowBucket \in BOOLEAN
    BY Zenon DEF Init
  <2> QED
    BY <2>1, <2>2, <2>3, <2>4, <2>5, <2>6 DEF TypeOK
<1>2. LoopConsistent /\ QueueOrdered /\ CurBeforeQueue
  BY DEF Init, LoopConsistent, QueueOrdered, CurBeforeQueue
<1>3. RegistryConsistent
  BY BootMapCorrect DEF Init, RegistryConsistent
<1> QED BY <1>1, <1>2, <1>3 DEF Inv

(* Removing a set of registered objects keeps table and map in agreement.    *)
LEMMA UnregisterConsistent ==
  ASSUME TypeOK, RegistryConsistent, NEW rs \in SUBSET table, Unregister(rs)
  PROVE  /\ RegistryConsistent'
         /\ table' \subseteq table
         /\ map' \in [Ids -> Procs \cup {None}]
<1>1. \A i \in Ids : map'[i] = IF \E r \in rs : IdOf[r] = i THEN None ELSE map[i]
  BY DEF Unregister
<1>2. map' \in [Ids -> Procs \cup {None}]
  BY DEF Unregister, TypeOK
<1>3. ASSUME NEW p \in table', IdOf[p] \notin Unasked PROVE map'[IdOf[p]] = p
  <2>1. p \in table /\ p \notin rs /\ IdOf[p] \in Ids /\ map[IdOf[p]] = p
    BY <1>3, SchedulerAssumption DEF Unregister, TypeOK, RegistryConsistent
  <2>2. ~ \E r \in rs : IdOf[r] = IdOf[p]
    BY <1>3, <2>1 DEF RegistryConsistent
  <2> QED BY <1>1, <2>1, <2>2
<1>4. ASSUME NEW i \in Ids, map'[i] # None
      PROVE  map'[i] \in table' /\ IdOf[map'[i]] = i
  <2>1. map'[i] = map[i] /\ ~ \E r \in rs : IdOf[r] = i
    BY <1>1, <1>4
  <2>2. map[i] \in table /\ IdOf[map[i]] = i
    BY <1>4, <2>1 DEF RegistryConsistent
  <2> QED BY <2>1, <2>2 DEF Unregister
<1> QED BY <1>2, <1>3, <1>4 DEF Unregister, RegistryConsistent

LEMMA AgeTypes ==
  ASSUME TypeOK, Age
  PROVE  idle' \in [Procs -> 0..IdleCap] /\ wait' \in [Procs -> 0..MaxSleep]
<1>1. ASSUME NEW n \in 0..IdleCap PROVE Older(n) \in 0..IdleCap
  BY SchedulerAssumption DEF Older
<1>2. ASSUME NEW n \in 0..MaxSleep PROVE Sooner(n) \in 0..MaxSleep
  BY SchedulerAssumption DEF Sooner
<1> QED BY <1>1, <1>2 DEF Age, TypeOK

(* The sort yields an order of the whole table by the present ages.          *)
LEMMA SortedTable ==
  ASSUME TypeOK, NEW s \in Sorted(table)
  PROVE  /\ s \in Seq(table)
         /\ \A i, j \in 1..Len(s) : i # j => s[i] # s[j]
         /\ \A i, j \in 1..Len(s) : i < j => adjusted[s[i]] <= adjusted[s[j]]
<1> DEFINE n == Cardinality(table)
<1>1. n \in Nat
  BY SchedulerAssumption, FS_Subset, FS_CardinalityType DEF TypeOK
<1>2. s \in [1..n -> table] /\ \A i, j \in 1..n : i # j => s[i] # s[j]
  BY DEF Sorted, SetToSeqs
<1>3. \A i, j \in DOMAIN s : i < j => ~Before(s[j], s[i])
  BY DEF Sorted
<1> HIDE DEF n
<1>4. s \in Seq(table) /\ Len(s) = n
  BY <1>1, <1>2
<1>5. ASSUME NEW i \in 1..n, NEW j \in 1..n, i < j
      PROVE  adjusted[s[i]] <= adjusted[s[j]]
  <2>1. ~(adjusted[s[j]] < adjusted[s[i]])
    BY <1>2, <1>3, <1>5 DEF Before
  <2>2. adjusted[s[i]] \in Int /\ adjusted[s[j]] \in Int
    BY <1>2 DEF TypeOK
  <2> QED BY <2>1, <2>2
<1> QED BY <1>2, <1>4, <1>5

(* A visit takes the first of the queue off; the rest keeps its order.       *)
LEMMA VisitTakesHead ==
  ASSUME TypeOK, QueueOrdered, NEW p, IsNext(p), queue' = Tail(queue)
  PROVE  /\ p \in table
         /\ queue' \in Seq(table)
         /\ \A i \in 1..Len(queue') : queue'[i] # p /\ adjusted[p] <= adjusted[queue'[i]]
         /\ \A i, j \in 1..Len(queue') : i # j => queue'[i] # queue'[j]
         /\ \A i, j \in 1..Len(queue') :
              i < j => adjusted[queue'[i]] <= adjusted[queue'[j]]
<1>1. queue \in Seq(table) /\ queue # <<>> /\ p = queue[1]
  BY DEF TypeOK, IsNext
<1>2. p \in table /\ queue' \in Seq(table) /\ Len(queue') = Len(queue) - 1
  BY <1>1
<1>3. \A i \in 1..Len(queue') : queue'[i] = queue[i + 1] /\ i + 1 \in 1..Len(queue)
  BY <1>1, <1>2
<1>4. 1 \in 1..Len(queue)
  BY <1>1
<1>5. ASSUME NEW i \in 1..Len(queue')
      PROVE  queue'[i] # p /\ adjusted[p] <= adjusted[queue'[i]]
  BY <1>1, <1>3, <1>4 DEF QueueOrdered
<1>6. ASSUME NEW i \in 1..Len(queue'), NEW j \in 1..Len(queue')
      PROVE  /\ i # j => queue'[i] # queue'[j]
             /\ i < j => adjusted[queue'[i]] <= adjusted[queue'[j]]
  BY <1>3 DEF QueueOrdered
<1> QED BY <1>2, <1>5, <1>6

LEMMA NextInv == Inv /\ [Next]_vars => Inv'
<1> SUFFICES ASSUME Inv, [Next]_vars PROVE Inv'
  OBVIOUS
<1> USE SchedulerAssumption DEF Inv, Statuses
<1>1. CASE BeginTick
  <2>1. /\ queue' \in Seq(table)
        /\ \A i, j \in 1..Len(queue') : i # j => queue'[i] # queue'[j]
        /\ \A i, j \in 1..Len(queue') :
             i < j => adjusted[queue'[i]] <= adjusted[queue'[j]]
    BY <1>1, SortedTable DEF BeginTick
  <2>2. TypeOK'
    BY <1>1, <2>1 DEF BeginTick, TypeOK, procVars
  <2>3. (LoopConsistent /\ QueueOrdered /\ CurBeforeQueue)'
    BY <1>1, <2>1 DEF BeginTick, procVars, LoopConsistent, QueueOrdered, CurBeforeQueue
  <2>4. RegistryConsistent'
    BY <1>1 DEF BeginTick, RegistryConsistent
  <2> QED BY <2>2, <2>3, <2>4
<1>2. ASSUME NEW p \in Procs, IsNext(p), queue' = Tail(queue), cur = None,
             phase = "visiting", UNCHANGED <<table, map, phase>>,
             \A q \in table \ {p} : adjusted'[q] = adjusted[q]
      PROVE  /\ p \in table /\ queue' \in Seq(table)
             /\ QueueOrdered' /\ RegistryConsistent'
             /\ cur' = None => CurBeforeQueue' /\ LoopConsistent'
             /\ cur' = p /\ adjusted' = adjusted => CurBeforeQueue' /\ LoopConsistent'
  <2>1. /\ p \in table /\ queue' \in Seq(table)
        /\ \A i \in 1..Len(queue') : queue'[i] # p /\ adjusted[p] <= adjusted[queue'[i]]
        /\ \A i, j \in 1..Len(queue') : i # j => queue'[i] # queue'[j]
        /\ \A i, j \in 1..Len(queue') :
             i < j => adjusted[queue'[i]] <= adjusted[queue'[j]]
    BY <1>2, VisitTakesHead
  <2>2. \A i \in 1..Len(queue') : adjusted'[queue'[i]] = adjusted[queue'[i]]
    BY <1>2, <2>1
  <2>3. QueueOrdered'
    BY <2>1, <2>2 DEF QueueOrdered
  <2>4. RegistryConsistent'
    BY <1>2 DEF RegistryConsistent
  <2>5. ASSUME cur' = None PROVE CurBeforeQueue' /\ LoopConsistent'
    BY <1>2, <2>5 DEF CurBeforeQueue, LoopConsistent
  <2>6. ASSUME cur' = p, adjusted' = adjusted PROVE CurBeforeQueue' /\ LoopConsistent'
    BY <1>2, <2>1, <2>6 DEF CurBeforeQueue, LoopConsistent
  <2> QED BY <2>1, <2>3, <2>4, <2>5, <2>6
<1>3. ASSUME NEW p \in Procs, PassOver(p) PROVE Inv'
  <2>1. \A q \in table \ {p} : adjusted'[q] = adjusted[q]
    BY <1>3 DEF PassOver, Skip, TypeOK
  <2>2. /\ p \in table /\ queue' \in Seq(table) /\ QueueOrdered' /\ RegistryConsistent'
        /\ CurBeforeQueue' /\ LoopConsistent'
    BY <1>2, <1>3, <2>1 DEF PassOver
  <2>3. adjusted' \in [Procs -> Int]
    BY <1>3 DEF PassOver, Skip, Skips, TypeOK
  <2>4. UNCHANGED <<table, map, status, idle, wait, phase, cur, toRemove,
                    outOfTime, lowBucket, starved, faults>>
    BY <1>3 DEF PassOver
  <2>5. TypeOK'
    BY <2>2, <2>3, <2>4 DEF TypeOK
  <2> QED BY <2>2, <2>5
<1>4. ASSUME NEW p \in Procs, StartRun(p) PROVE Inv'
  <2>1. /\ p \in table /\ queue' \in Seq(table) /\ QueueOrdered' /\ RegistryConsistent'
        /\ CurBeforeQueue' /\ LoopConsistent'
    BY <1>2, <1>4 DEF StartRun
  <2>2. TypeOK'
    BY <1>4, <2>1 DEF StartRun, TypeOK
  <2> QED BY <2>1, <2>2
<1>5. ASSUME NEW p \in Procs, Wake(p) PROVE Inv'
  <2>1. /\ p \in table /\ queue' \in Seq(table) /\ QueueOrdered' /\ RegistryConsistent'
        /\ CurBeforeQueue' /\ LoopConsistent'
    BY <1>2, <1>5 DEF Wake
  <2>2. TypeOK'
    BY <1>5, <2>1 DEF Wake, TypeOK
  <2> QED BY <2>1, <2>2
<1>6. ASSUME NEW p \in Procs, Collect(p) PROVE Inv'
  <2>1. /\ p \in table /\ queue' \in Seq(table) /\ QueueOrdered' /\ RegistryConsistent'
        /\ CurBeforeQueue' /\ LoopConsistent'
    BY <1>2, <1>6 DEF Collect, procVars
  <2>2. TypeOK'
    BY <1>6, <2>1 DEF Collect, procVars, TypeOK
  <2> QED BY <2>1, <2>2
<1>7. CASE FinishRun
  <2>1. cur \in Procs /\ cur' = None /\ queue' = queue
    BY <1>7 DEF FinishRun, TypeOK
  <2>2. status' \in [Procs -> Statuses] /\ wait' \in [Procs -> 0..MaxSleep]
    <3>1. status \in [Procs -> Statuses] /\ wait \in [Procs -> 0..MaxSleep] /\ 0 \in 0..MaxSleep
      BY DEF TypeOK
    <3>2. \E s \in Statuses, n \in 0..MaxSleep :
            /\ status' = [status EXCEPT ![cur] = s]
            /\ wait' = [wait EXCEPT ![cur] = n] \/ wait' = wait
      BY <1>7, <3>1 DEF FinishRun, SetSleeping
    <3> QED BY ONLY <2>1, <3>1, <3>2
  <2>3. adjusted' = [adjusted EXCEPT ![cur] = Priority[cur]]
    BY <1>7 DEF FinishRun, ResetPriority
  <2>4. adjusted' \in [Procs -> Int]
    <3>1. Priority[cur] \in Int /\ adjusted \in [Procs -> Int]
      BY <2>1 DEF TypeOK
    <3> QED BY ONLY <3>1, <2>3
  <2>5. TypeOK'
    BY <1>7, <2>2, <2>4 DEF FinishRun, UseCpu, TypeOK
  <2>6. \A i \in 1..Len(queue) : adjusted'[queue[i]] = adjusted[queue[i]]
    <3>1. \A i \in 1..Len(queue) : queue[i] \in Procs /\ queue[i] # cur
      <4>1. cur # None
        BY <1>7 DEF FinishRun
      <4>2. queue \in Seq(table) /\ table \subseteq Procs
        BY DEF TypeOK
      <4>3. \A i \in 1..Len(queue) : queue[i] \in table
        BY ONLY <4>2
      <4> QED BY <4>1, <4>2, <4>3 DEF CurBeforeQueue
    <3>2. adjusted \in [Procs -> Int]
      BY DEF TypeOK
    <3> QED BY ONLY <2>3, <3>1, <3>2
  <2>7. QueueOrdered'
    BY <2>1, <2>6 DEF QueueOrdered
  <2>8. (LoopConsistent /\ CurBeforeQueue /\ RegistryConsistent)'
    BY <1>7 DEF FinishRun, LoopConsistent, CurBeforeQueue, RegistryConsistent
  <2> QED BY <2>5, <2>7, <2>8
<1>8. CASE ThrowRun
  <2>1. TypeOK'
    <3>1. faults' \in 0..MaxFaults
      BY <1>8 DEF ThrowRun, Fault, TypeOK
    <3>2. outOfTime' \in BOOLEAN
      BY <1>8, Zenon DEF ThrowRun, UseCpu, TypeOK
    <3> QED BY <1>8, <3>1, <3>2 DEF ThrowRun, procVars, TypeOK
  <2>2. (LoopConsistent /\ QueueOrdered /\ CurBeforeQueue /\ RegistryConsistent)'
    BY <1>8 DEF ThrowRun, procVars, LoopConsistent, QueueOrdered, CurBeforeQueue,
                RegistryConsistent
  <2> QED BY <2>1, <2>2
<1>9. CASE EndTick
  <2>1. Unregister(toRemove) /\ toRemove \in SUBSET table
    BY <1>9 DEF EndTick, TypeOK
  <2>2. RegistryConsistent' /\ table' \subseteq table /\ map' \in [Ids -> Procs \cup {None}]
    BY <2>1, UnregisterConsistent
  <2>3. idle' \in [Procs -> 0..IdleCap] /\ wait' \in [Procs -> 0..MaxSleep]
    BY <1>9, AgeTypes DEF EndTick
  <2>4. queue' = <<>> /\ cur' = None /\ toRemove' = {}
    BY <1>9 DEF EndTick
  <2>5. TypeOK'
    BY <1>9, <2>2, <2>3, <2>4 DEF EndTick, TypeOK
  <2>6. LoopConsistent' /\ QueueOrdered' /\ CurBeforeQueue'
    BY <2>4 DEF LoopConsistent, QueueOrdered, CurBeforeQueue
  <2> QED BY <2>2, <2>5, <2>6
<1>10. ASSUME NEW q \in Procs, Register(q) PROVE Inv'
  <2>1. /\ IdOf[q] \in Ids /\ q \notin table
        /\ IdOf[q] \notin Unasked => map[IdOf[q]] = None
    BY <1>10 DEF Register, HasProcess
  <2>2. /\ table' = table \cup {q} /\ map' = [map EXCEPT ![IdOf[q]] = q]
        /\ adjusted' = [adjusted EXCEPT ![q] = Priority[q]]
        /\ UNCHANGED tickVars
    BY <1>10 DEF Register, AddProcess
  <2>3. queue' \in Seq(table')
    BY <2>2 DEF tickVars, TypeOK
  <2>4. TypeOK'
    BY <1>10, <2>1, <2>3 DEF Register, AddProcess, tickVars, TypeOK
  <2>5. LoopConsistent'
    BY <2>2 DEF tickVars, LoopConsistent
  <2>6. RegistryConsistent'
    <3>1. ASSUME NEW i \in Ids, map'[i] # None
          PROVE  map'[i] \in table' /\ IdOf[map'[i]] = i
      BY <2>1, <2>2, <3>1 DEF TypeOK, RegistryConsistent
    <3>2. ASSUME NEW p \in table', IdOf[p] \notin Unasked PROVE map'[IdOf[p]] = p
      <4>1. CASE p = q
        BY <2>1, <2>2, <4>1 DEF TypeOK
      <4>2. CASE p # q
        <5>1. p \in table /\ IdOf[p] \in Ids /\ map[IdOf[p]] = p /\ p # None
          BY <2>2, <3>2, <4>2 DEF TypeOK, RegistryConsistent
        <5>2. IdOf[p] # IdOf[q]
          BY <2>1, <3>2, <5>1
        <5> QED BY <2>1, <2>2, <5>1, <5>2 DEF TypeOK
      <4> QED BY <4>1, <4>2
    <3> QED BY <3>1, <3>2 DEF RegistryConsistent
  <2>7. queue' = queue /\ cur' = cur /\ cur \in table
    BY <1>10, <2>2 DEF Register, tickVars, LoopConsistent
  <2>8. \A p \in table : adjusted'[p] = adjusted[p]
    BY <2>1, <2>2 DEF TypeOK
  <2>9. \A i \in 1..Len(queue) : queue[i] \in table
    BY DEF TypeOK
  <2>10. QueueOrdered' /\ CurBeforeQueue'
    BY <2>7, <2>8, <2>9 DEF QueueOrdered, CurBeforeQueue
  <2> QED BY <2>4, <2>5, <2>6, <2>10
<1>11. CASE KillTick
  <2>1. idle' \in [Procs -> 0..IdleCap] /\ wait' \in [Procs -> 0..MaxSleep]
    BY <1>11, AgeTypes DEF KillTick
  <2>2. queue' = <<>> /\ cur' = None /\ toRemove' = {}
    BY <1>11 DEF KillTick
  <2>3. TypeOK'
    <3>1. faults' \in 0..MaxFaults
      BY <1>11 DEF KillTick, Fault, TypeOK
    <3> QED BY <1>11, <2>1, <2>2, <3>1 DEF KillTick, TypeOK
  <2>4. (LoopConsistent /\ QueueOrdered /\ CurBeforeQueue /\ RegistryConsistent)'
    BY <1>11, <2>2 DEF KillTick, LoopConsistent, QueueOrdered, CurBeforeQueue,
                       RegistryConsistent
  <2> QED BY <2>3, <2>4
<1>12. CASE GlobalReset
  <2>1. queue = <<>> /\ toRemove = {} /\ cur = None
    BY <1>12 DEF GlobalReset, LoopConsistent
  <2>2. TypeOK'
    <3>1. map' \in [Ids -> Procs \cup {None}]
      BY <1>12, BootMapCorrect DEF GlobalReset
    <3>2. adjusted' \in [Procs -> Int]
      BY <1>12 DEF GlobalReset
    <3>3. faults' \in 0..MaxFaults
      BY <1>12 DEF GlobalReset, Fault, TypeOK
    <3>4. queue' \in Seq(table')
      BY <1>12, <2>1 DEF GlobalReset, tickVars
    <3> QED
      BY <1>12, <2>1, <3>1, <3>2, <3>3, <3>4, FreshTypes DEF GlobalReset, tickVars, TypeOK
  <2>3. LoopConsistent' /\ QueueOrdered' /\ CurBeforeQueue'
    BY <1>12, <2>1 DEF GlobalReset, tickVars, LoopConsistent, QueueOrdered, CurBeforeQueue
  <2>4. RegistryConsistent'
    BY <1>12, BootMapCorrect DEF GlobalReset, RegistryConsistent
  <2> QED BY <2>2, <2>3, <2>4
<1>13. CASE UNCHANGED vars
  BY <1>13 DEF vars, procVars, tickVars, TypeOK, LoopConsistent, QueueOrdered,
               CurBeforeQueue, RegistryConsistent
<1> QED
  BY <1>1, <1>3, <1>4, <1>5, <1>6, <1>7, <1>8, <1>9, <1>10, <1>11, <1>12, <1>13
  DEF Next, TickStep, Visit

LEMMA InvHolds == Spec => []Inv
  BY InitInv, NextInv, PTL DEF Spec

(* Every variable keeps its type, whatever the processes do.                 *)
THEOREM TypeCorrect == Spec => []TypeOK
<1>1. Inv => TypeOK
  BY DEF Inv
<1> QED BY <1>1, InvHolds, PTL

(* processMap leads only to registered objects, and an id whose registrants  *)
(* ask hasProcess never has two (scheduler.ts registerProcess and            *)
(* unregisterProcess), whatever parties restored from Memory do with theirs. *)
THEOREM RegistryAgrees == Spec => []RegistryConsistent
<1>1. Inv => RegistryConsistent
  BY DEF Inv
<1> QED BY <1>1, InvHolds, PTL

(* The loop walks an order sorted once (scheduler.ts tick), and still never  *)
(* runs a process while a more urgent one waits in the same loop.            *)
THEOREM MostUrgentRuns == Spec => []UrgentFirst
<1>1. ASSUME Inv PROVE UrgentFirst
  <2>1. DOMAIN queue = 1..Len(queue)
    BY <1>1 DEF Inv, TypeOK
  <2> QED BY <1>1, <2>1 DEF Inv, CurBeforeQueue, UrgentFirst, Range
<1> QED BY <1>1, InvHolds, PTL
=============================================================================

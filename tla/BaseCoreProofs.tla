--------------------------- MODULE BaseCoreProofs ---------------------------
(* What holds of a base's core for any towers, links and labs, any number of *)
(* distributors of any capacity, and any steps of the others in between: no  *)
(* distributor ever carries two resources.                                   *)
(*                                                                           *)
(* It takes to know where in its tree each distributor is.  The rules for    *)
(* behaviour trees come first, as in HaulingProofs; then the leaves, and the *)
(* composites from the bottom up, each with the outcomes it may have; then   *)
(* the invariant, which every process of the base keeps.                     *)
EXTENDS BaseCore, FiniteSetTheorems, TLAPS

(* An outcome of composite id after k children: it is in Out, or the         *)
(* composite passed on to child k in a state of G whose saved index is due   *)
(* later, or now.                                                            *)
InTurn(n, id, stop, k, G, Out) ==
  \/ n \in Out
  \/ /\ n = [state |-> n.state, result |-> Passed, id |-> id, stop |-> stop, next |-> k]
     /\ n.state \in G /\ n.state.saved[id] >= k

(* All outcomes after k children *)
Turn(ns, id, stop, k, G, Out) == \A n \in ns : InTurn(n, id, stop, k, G, Out)

(* What an outcome o of child k must be: in Out where it ends the composite, *)
(* with the index saved where it is running, and otherwise a state of G in   *)
(* which the next child is due.                                              *)
AfterOk(o, id, stop, k, G, Out) ==
  /\ o = [state |-> o.state, result |-> o.result]
  /\ o.result # Passed
  /\ o.result \in {stop, Thrown} => o \in Out
  /\ o.result \notin {stop, Thrown} /\ o.result = Running =>
       [state |-> Saving(id, k, o.state), result |-> Running] \in Out
  /\ o.result \notin {stop, Thrown, Running} =>
       /\ Saving(id, k + 1, o.state) \in G
       /\ Saving(id, k + 1, o.state).saved[id] = k + 1

(* Child k, ticked in a state of G in which it is due, has such outcomes. *)
Serves(child, id, stop, k, G, Out) ==
  \A s \in G : s.saved[id] = k =>
    \A o \in child[Saving(id, 0, s)] : AfterOk(o, id, stop, k, G, Out)

(* Out holds results only, no composite that passed on. *)
Results(Out) == \A o \in Out : o.result # Passed

(* The index saved under id is a number. *)
Counts(G, id) == \A s \in G : s.saved[id] \in Nat

(* A composite whose saved index may be any starts with no child passed. *)
LEMMA StartRule ==
  ASSUME NEW id, NEW stop, NEW s, NEW G, NEW Out, s \in G, s.saved[id] \in Nat
  PROVE  Turn(Composite(id, stop, s), id, stop, 0, G, Out)
BY DEF Turn, InTurn, Composite

(* A child that serves takes its turn. *)
LEMMA ChildRule ==
  ASSUME NEW id, NEW stop, NEW k \in Nat, NEW i, i = k + 1,
         NEW G, NEW Out, NEW ns, NEW child,
         Turn(ns, id, stop, k, G, Out), Serves(child, id, stop, k, G, Out),
         Results(Out), Counts(G, id)
  PROVE  Turn(ns & child, id, stop, i, G, Out)
<1>1. SUFFICES ASSUME NEW n \in ns, NEW m \in TickChild(n, child)
               PROVE  InTurn(m, id, stop, k + 1, G, Out)
  BY DEF Turn, &
<1>2. InTurn(n, id, stop, k, G, Out)
  BY DEF Turn
<1>3. CASE n \in Out
  <2>1. n.result # Passed
    BY <1>3 DEF Results
  <2> QED
    BY <2>1, <1>3, <1>1 DEF TickChild, InTurn
<1>4. CASE n \notin Out
  <2>1. /\ n = [state |-> n.state, result |-> Passed, id |-> id, stop |-> stop, next |-> k]
        /\ n.state \in G /\ n.state.saved[id] >= k /\ n.state.saved[id] \in Nat
    BY <1>4, <1>2 DEF InTurn, Counts
  <2>2. CASE n.state.saved[id] # k
    <3>1. m = [n EXCEPT !.next = @ + 1]
      BY <1>1, <2>1, <2>2 DEF TickChild
    <3> QED
      BY <3>1, <2>1, <2>2 DEF InTurn
  <2>3. CASE n.state.saved[id] = k
    <3>1. PICK o \in child[Saving(id, 0, n.state)] : m = AfterChild(n, o)
      BY <1>1, <2>1, <2>3 DEF TickChild
    <3>2. AfterOk(o, id, stop, k, G, Out)
      BY <2>1, <2>3 DEF Serves
    <3>3. CASE o.result \in {stop, Thrown}
      BY <3>1, <3>2, <3>3, <2>1 DEF AfterChild, AfterOk, InTurn
    <3>4. CASE o.result \notin {stop, Thrown} /\ o.result = Running
      <4>1. m = [o EXCEPT !.state = Saving(id, k, @)]
        BY <3>1, <3>4, <2>1 DEF AfterChild
      <4>2. m = [state |-> Saving(id, k, o.state), result |-> Running]
        BY <4>1, <3>2, <3>4 DEF AfterOk
      <4> QED
        BY <4>2, <3>2, <3>4 DEF AfterOk, InTurn
    <3>5. CASE o.result \notin {stop, Thrown, Running}
      <4>1. n.id = id /\ n.next = k
        BY <2>1
      <4>2. ASSUME NEW x, NEW s
            PROVE  [[n EXCEPT !.next = x] EXCEPT !.state = s] =
                     [state |-> s, result |-> Passed, id |-> id, stop |-> stop, next |-> x]
        <5>1. PICK y : n = [state |-> y, result |-> Passed, id |-> id, stop |-> stop, next |-> k]
          BY <2>1
        <5>2. [n EXCEPT !.next = x] =
                [state |-> y, result |-> Passed, id |-> id, stop |-> stop, next |-> x]
          BY <5>1
        <5>3. \A r : r = [state |-> y, result |-> Passed, id |-> id, stop |-> stop, next |-> x] =>
                     [r EXCEPT !.state = s] =
                       [state |-> s, result |-> Passed, id |-> id, stop |-> stop, next |-> x]
          OBVIOUS
        <5> QED
          BY <5>2, <5>3
      <4>3. m = [[n EXCEPT !.next = @ + 1] EXCEPT !.state = Saving(n.id, n.next + 1, o.state)]
        BY <3>1, <3>5, <2>1 DEF AfterChild
      <4>4. m = [state |-> Saving(id, k + 1, o.state), result |-> Passed, id |-> id,
                 stop |-> stop, next |-> k + 1]
        BY <4>1, <4>2, <4>3
      <4> QED
        BY <4>4, <3>2, <3>5 DEF AfterOk, InTurn
    <3> QED
      BY <3>3, <3>4, <3>5
  <2> QED
    BY <2>2, <2>3
<1> QED
  BY <1>3, <1>4

(* When every child has had its turn, the outcomes are in Out, given that    *)
(* those are which no child stopped.                                         *)
LEMMA EndRule ==
  ASSUME NEW id, NEW stop, NEW k \in Nat, NEW G, NEW Out, NEW ns,
         Turn(ns, id, stop, k, G, Out), Results(Out),
         \A s \in G : s.saved[id] >= k =>
           [state |-> Saving(id, 0, s), result |-> IF stop = Failure THEN Success ELSE Failure] \in Out
  PROVE  \A o \in Tick(ns) : o \in Out
BY DEF Turn, InTurn, Tick, Exhausted, Results

-----------------------------------------------------------------------------
(* Leaves *)

(* What a task is *)
Tasks == [kind : Kinds, object : Objects]

(* No other index than that of id is different. *)
Beside(id, s, t) == \A n \in Nodes \ {id} : t.saved[n] = s.saved[n]

(* t is s after index i has been saved under id. *)
Saved(id, i, s, t) ==
  /\ t \in States /\ t.saved[id] = i /\ Beside(id, s, t)
  /\ t.task = s.task /\ t.dest = s.dest /\ t.cargo = s.cargo

(* Saving an index changes this index only. *)
LEMMA SavingIndex ==
  ASSUME NEW s \in States, NEW id \in Nodes, NEW i \in Nat
  PROVE  Saved(id, i, s, Saving(id, i, s))
<1>1. s.saved \in [Nodes -> Nat]
  BY DEF States
<1>2. [s.saved EXCEPT ![id] = i] \in [Nodes -> Nat]
  BY <1>1
<1>3. Saving(id, i, s) = [s EXCEPT !.saved = [s.saved EXCEPT ![id] = i]]
  BY DEF Saving
<1> QED
  BY <1>1, <1>2, <1>3 DEF States, Saved, Beside

(* An outcome of a leaf or tree: a state again, and not passed *)
Outcomes == [state : States, result : {Running, Success, Failure, Thrown}]

(* A leaf has no part in what is saved. *)
Did(o, s) == o \in Outcomes /\ o.state.saved = s.saved

(* A leaf that ends in one way *)
LEMMA Does ==
  ASSUME NEW s \in States, NEW t \in States, NEW r \in {Running, Success, Failure, Thrown},
         NEW o \in Ends(t, r), t.saved = s.saved
  PROVE  Did(o, s) /\ o.state = t /\ o.result = r
BY DEF Ends, Did, Outcomes

(* The least of some numbers *)
LEMMA MinOfTwo ==
  ASSUME NEW a \in Int, NEW b \in Int
  PROVE  Min({a, b}) \in Int
BY DEF Min

(* The least of three *)
LEMMA MinOfThree ==
  ASSUME NEW a \in Int, NEW b \in Int, NEW c \in Int
  PROVE  Min({a, b, c}) \in Int
<1>1. \E x \in {a, b, c} : \A y \in {a, b, c} : x <= y
  <2>1. CASE a <= b /\ a <= c
    BY <2>1
  <2>2. CASE b <= a /\ b <= c
    BY <2>2
  <2>3. CASE c <= a /\ c <= b
    BY <2>3
  <2> QED
    BY <2>1, <2>2, <2>3
<1>2. Min({a, b, c}) \in {a, b, c}
  BY <1>1 DEF Min
<1> QED
  BY <1>2

(* clear_haul_task *)
LEMMA Clearing ==
  ASSUME NEW s \in States, NEW o \in ClearHaulTask[s]
  PROVE  Did(o, s) /\ o.result = Success /\ o.state.cargo = s.cargo
<1>1. Forget(s) \in States
  <2> DEFINE t == [s EXCEPT !.task = None]
             u == [t EXCEPT !.amount = 0]
             v == [u EXCEPT !.dest = None]
  <2>1. t \in States
    BY DEF States
  <2>2. u \in States
    <3> HIDE DEF t
    <3> QED
      BY <2>1 DEF States
  <2>3. v \in States
    <3> HIDE DEF u
    <3> QED
      BY <2>2 DEF States
  <2> QED
    BY <2>3 DEF Forget
<1>2. Forget(s).saved = s.saved /\ Forget(s).cargo = s.cargo
  BY DEF Forget, States
<1> QED
  BY <1>1, <1>2, Does DEF ClearHaulTask

(* pick_haul_task *)
LEMMA Picking ==
  ASSUME NEW s \in States, NEW o \in PickHaulTask[s]
  PROVE  /\ Did(o, s) /\ o.result \in {Success, Failure} /\ o.state.cargo = s.cargo
         /\ o.result = Success => o.state.task \in Tasks
<1>1. o \in TakeTask(s)
  BY DEF PickHaulTask
<1>2. CASE s.topic = {}
  BY <1>1, <1>2, Does DEF TakeTask, Success, Failure
<1>3. CASE s.topic # {}
  <2>1. PICK r \in MostUrgent(s.topic) :
          o \in Ends([s EXCEPT !.task = [kind |-> r.kind, object |-> r.object],
                               !.amount = r.amount, !.topic = @ \ {r}], Success)
    BY <1>1, <1>3 DEF TakeTask
  <2> DEFINE t == [s EXCEPT !.task = [kind |-> r.kind, object |-> r.object],
                            !.amount = r.amount, !.topic = s.topic \ {r}]
  <2>2. r \in [kind : Kinds, object : Objects, amount : Int, last : BOOLEAN]
    BY DEF MostUrgent, States
  <2>3. t \in States /\ t.saved = s.saved /\ t.cargo = s.cargo /\ t.task \in Tasks
    BY <2>2 DEF States, Tasks
  <2> HIDE DEF t
  <2>4. o \in Ends(t, Success)
    BY <2>1 DEF t
  <2> QED
    BY <2>3, <2>4, Does DEF Success, Failure
<1> QED
  BY <1>2, <1>3

(* parking_lot *)
LEMMA Parking ==
  ASSUME NEW s \in States, NEW o \in ParkingLot[s]
  PROVE  Did(o, s) /\ o.result = Failure /\ o.state.cargo = s.cargo
BY Does DEF ParkingLot

(* check_if_unload_needed succeeds only when there is nothing to unload.     *)
LEMMA Checking ==
  ASSUME NEW s \in States, NEW o \in CheckIfUnloadNeeded[s]
  PROVE  /\ Did(o, s) /\ o.state.task = s.task /\ o.state.cargo = s.cargo
         /\ o.result \in {Success, Failure, Thrown}
         /\ o.result = Success => ToUnload(s) = {}
<1> DEFINE t == [s EXCEPT !.dest = "storage"]
<1>1. t \in States /\ t.saved = s.saved /\ t.task = s.task /\ t.cargo = s.cargo
  BY DEF States
<1>2. o \in CheckUnload(s)
  BY DEF CheckIfUnloadNeeded
<1>3. \/ o \in Ends(s, Success) /\ ToUnload(s) = {}
      \/ o \in Ends(s, Thrown) \/ o \in Ends(t, Failure)
  BY <1>2 DEF CheckUnload
<1> HIDE DEF t
<1> QED
  BY <1>1, <1>3, Does DEF Success, Failure, Thrown

(* A movement changes neither task nor load. *)
LEMMA Moving ==
  ASSUME NEW s \in States, NEW o \in MoveToDestination[s]
  PROVE  /\ Did(o, s) /\ o.state.task = s.task /\ o.state.cargo = s.cargo
         /\ o.state.dest = s.dest /\ o.result \in {Running, Success, Failure}
<1>1. Arrive(s) \in States /\ Arrive(s).saved = s.saved /\ Arrive(s).task = s.task
      /\ Arrive(s).cargo = s.cargo /\ Arrive(s).dest = s.dest
  BY DEF Arrive, States
<1>2. [s EXCEPT !.moving = TRUE] \in States
  BY DEF States
<1>3. o \in Move(s)
  BY DEF MoveToDestination
<1> DEFINE t == [s EXCEPT !.moving = TRUE]
<1>4. \/ o \in Ends(t, Running) \/ o \in Ends(Arrive(s), Failure)
      \/ o \in Ends(Arrive(s), Success) \/ o \in Ends(s, Success)
  BY <1>3 DEF Move
<1>5. t.saved = s.saved /\ t.task = s.task /\ t.cargo = s.cargo /\ t.dest = s.dest
  BY DEF States
<1> HIDE DEF t
<1>6. t \in States
  BY <1>2 DEF t
<1> QED
  BY <1>1, <1>4, <1>5, <1>6, Does

(* empty_creep before a load: it succeeds when nothing is left but what the  *)
(* task is about.                                                            *)
LEMMA Unloading ==
  ASSUME NEW s \in States, s.task \in Tasks, NEW o \in UnloadCreep[s]
  PROVE  /\ Did(o, s) /\ o.state.task = s.task /\ o.result \in {Running, Success, Failure}
         /\ Loaded(o.state.cargo) \subseteq Loaded(s.cargo)
         /\ o.result = Success => Loaded(o.state.cargo) \subseteq {Resource(s.task)}
<1>1. o \in Unload(s)
  BY DEF UnloadCreep
<1>2. Loaded(s.cargo) \subseteq ToUnload(s) \cup {Resource(s.task)}
  BY DEF ToUnload
<1>3. CASE o \in Ends(s, Success) /\ ToUnload(s) = {}
  BY <1>2, <1>3, Does
<1>4. CASE o \in Ends(s, Failure)
  BY <1>4, Does DEF Success, Failure
<1>5. CASE \E r \in ToUnload(s) :
             o \in Ends([s EXCEPT !.cargo[r] = 0],
                        IF ToUnload(s) = {r} THEN Success ELSE Running)
  <2>1. PICK r \in ToUnload(s) :
          o \in Ends([s EXCEPT !.cargo[r] = 0],
                     IF ToUnload(s) = {r} THEN Success ELSE Running)
    BY <1>5
  <2> DEFINE f == [s.cargo EXCEPT ![r] = 0]
             t == [s EXCEPT !.cargo = f]
  <2>2. s.cargo \in [Resources -> Int] /\ r \in Resources
    BY DEF States, ToUnload, Loaded
  <2>3. f \in [Resources -> Int]
    BY <2>2
  <2>4. t \in States /\ t.saved = s.saved /\ t.task = s.task /\ t.cargo = f
    BY <2>3 DEF States
  <2>5. Loaded(f) \subseteq Loaded(s.cargo) \ {r}
    BY <2>2 DEF Loaded
  <2> HIDE DEF t, f
  <2>6. o \in Ends(t, IF ToUnload(s) = {r} THEN Success ELSE Running)
    BY <2>1 DEF t, f
  <2>7. Did(o, s) /\ o.state = t /\ o.result = IF ToUnload(s) = {r} THEN Success ELSE Running
    BY <2>4, <2>6, Does
  <2> QED
    BY <1>2, <2>4, <2>5, <2>7 DEF Running, Success
<1> QED
  BY <1>1, <1>3, <1>4, <1>5 DEF Unload

(* has_resource notes how much there is to load. *)
LEMMA Having ==
  ASSUME BaseRoomAssumption, home \in Homes, NEW s \in States, s.task \in Tasks,
         NEW o \in HasResourceAlready[s]
  PROVE  /\ Did(o, s) /\ o.state.task = s.task /\ o.state.cargo = s.cargo
         /\ o.result \in {Success, Failure}
<1> DEFINE used == s.cargo[Resource(s.task)]
           wanted == Min({s.amount, Capacity})
           asked == IF Resource(s.task) = "energy" THEN Capacity ELSE wanted
           t == [s EXCEPT !.amount = asked]
<1>1. o \in HasResource(s)
  BY DEF HasResourceAlready
<1>2. \/ o \in Ends(s, Success)
      \/ o \in Ends(t, IF used >= wanted THEN Success ELSE Failure)
  BY <1>1 DEF HasResource
<1>3. Capacity \in Int
  BY DEF Capacity, BaseRoomAssumption
<1>4. asked \in Int
  <2>1. wanted \in Int
    BY <1>3, MinOfTwo DEF States
  <2> QED
    BY <1>3, <2>1
<1> HIDE DEF used, wanted, asked
<1>5. t \in States /\ t.saved = s.saved /\ t.task = s.task /\ t.cargo = s.cargo
  BY <1>4 DEF States
<1> HIDE DEF t
<1>6. CASE o \in Ends(s, Success)
  BY <1>6, Does DEF Success, Failure
<1>7. CASE o \in Ends(t, IF used >= wanted THEN Success ELSE Failure)
  <2>1. o \in Ends(t, Success) \/ o \in Ends(t, Failure)
    BY <1>7
  <2> QED
    BY <1>5, <2>1, Does DEF Success, Failure
<1> QED
  BY <1>2, <1>6, <1>7

(* What there is to load is a number. *)
LEMMA Stocked ==
  ASSUME BaseRoomAssumption, home \in Homes, NEW s \in States, s.task \in Tasks
  PROVE  /\ Resource(s.task) \in Resources /\ s.task.object \in Objects
         /\ Space(s) \in Int /\ Min({s.amount, Space(s), Stock(s)}) \in Int
<1>1. s.cargo["energy"] \in Int /\ s.cargo["ore"] \in Int
  BY DEF States, Resources
<1>2. Capacity \in Int
  BY DEF Capacity, BaseRoomAssumption
<1>3. Space(s) \in Int
  BY <1>1, <1>2 DEF Space
<1>4. s.task.object \in Objects /\ s.amount \in Int /\ s.content \in [Objects -> Int]
  BY DEF States, Tasks
<1>5. Stock(s) \in Int
  BY <1>2, <1>4 DEF Stock
<1>6. Min({s.amount, Space(s), Stock(s)}) \in Int
  BY <1>3, <1>4, <1>5, MinOfThree
<1> QED
  BY <1>3, <1>4, <1>6 DEF Resource, Resources

(* load_resource adds of what the task is about only. *)
LEMMA Loading ==
  ASSUME BaseRoomAssumption, home \in Homes, NEW s \in States, s.task \in Tasks,
         NEW o \in LoadResource[s]
  PROVE  /\ Did(o, s) /\ o.state.task = s.task /\ o.result \in {Running, Success}
         /\ Loaded(o.state.cargo) \subseteq Loaded(s.cargo) \cup {Resource(s.task)}
<1> DEFINE r == Resource(s.task)
           d == s.task.object
           n == Min({s.amount, Space(s), Stock(s)})
           f == [s.cargo EXCEPT ![r] = s.cargo[r] + n]
           g == [s.content EXCEPT ![d] = s.content[d] - n]
           t == [s EXCEPT !.cargo = f]
           u == [s EXCEPT !.cargo = f, !.content = g]
<1>1. r \in Resources /\ d \in Objects /\ n \in Int
  BY Stocked
<1>2. s.cargo \in [Resources -> Int] /\ s.content \in [Objects -> Int]
  BY DEF States
<1>3. o \in Load(s)
  BY DEF LoadResource
<1>4. o \in Ends(s, Success) \/ o \in Ends(t, Running) \/ o \in Ends(u, Running)
  BY <1>3 DEF Load
<1> HIDE DEF r, d, n
<1>5. f \in [Resources -> Int] /\ Loaded(f) \subseteq Loaded(s.cargo) \cup {r}
  <2>1. s.cargo[r] + n \in Int
    BY <1>1, <1>2
  <2>2. f \in [Resources -> Int]
    BY <1>2, <2>1
  <2>3. \A q \in Resources : q # r => f[q] = s.cargo[q]
    BY <1>2
  <2> QED
    BY <2>2, <2>3 DEF Loaded
<1>6. g \in [Objects -> Int]
  <2>1. s.content[d] - n \in Int
    BY <1>1, <1>2
  <2> QED
    BY <1>2, <2>1
<1> HIDE DEF f, g
<1>7. /\ t \in States /\ t.saved = s.saved /\ t.task = s.task /\ t.cargo = f
      /\ u \in States /\ u.saved = s.saved /\ u.task = s.task /\ u.cargo = f
  BY <1>5, <1>6 DEF States
<1> HIDE DEF t, u
<1>8. CASE o \in Ends(s, Success)
  BY <1>8, Does DEF Success, Running
<1>9. CASE o \in Ends(t, Running) \/ o \in Ends(u, Running)
  BY <1>5, <1>7, <1>9, Does DEF Success, Running, r
<1> QED
  BY <1>4, <1>8, <1>9

(* use_memory_dropoff *)
LEMMA UsingDropoff ==
  ASSUME BaseRoomAssumption, NEW s \in States, s.task \in Tasks, NEW o \in UseMemoryDropoff[s]
  PROVE  /\ Did(o, s) /\ o.state.task = s.task /\ o.state.cargo = s.cargo
         /\ o.result = Success /\ o.state.dest \in Objects \cup {"storage"}
<1> DEFINE d == Dropoff(s.task)
           t == [s EXCEPT !.dest = d]
<1>1. d \in Objects \cup {"storage"}
  BY DEF Dropoff, Tasks
<1>2. o \in Ends(t, Success)
  BY DEF UseMemoryDropoff
<1> HIDE DEF d
<1>3. t \in States /\ t.saved = s.saved /\ t.task = s.task /\ t.cargo = s.cargo /\ t.dest = d
  BY <1>1 DEF States
<1> HIDE DEF t
<1> QED
  BY <1>1, <1>2, <1>3, Does DEF Success

(* What an object takes is a number. *)
LEMMA RoomLeft ==
  ASSUME NEW s \in States, NEW d \in Objects, NEW r
  PROVE  Room(s, d, r) \in Int
<1>1. s.content[d] \in Int
  BY DEF States
<1>2. StoreCapacity(d) \in Int
  BY DEF StoreCapacity
<1> QED
  BY <1>1, <1>2 DEF Room

(* empty_creep at the end of a round adds nothing to a load. *)
LEMMA Delivering ==
  ASSUME NEW s \in States, s.dest \in Objects \cup {"storage"}, NEW o \in EmptyCreep[s]
  PROVE  /\ Did(o, s) /\ o.state.task = s.task /\ o.state.dest = s.dest /\ o.result = Success
         /\ Loaded(o.state.cargo) \subseteq Loaded(s.cargo)
<1> DEFINE Take(r) == Min({s.cargo[r], Room(s, s.dest, r)})
           f(r, n) == [s.cargo EXCEPT ![r] = s.cargo[r] - n]
           g(r) == [s.content EXCEPT ![s.dest] = s.content[s.dest] + Take(r)]
           t(r) == [s EXCEPT !.cargo = f(r, s.cargo[r])]
           u(r) == [s EXCEPT !.cargo = f(r, Take(r)), !.content = g(r)]
<1>1. o \in Deliver(s)
  BY DEF EmptyCreep
<1>2. \/ o \in Ends(s, Success)
      \/ \E r \in Loaded(s.cargo) : \/ o \in Ends(t(r), Success)
                                    \/ s.dest # "storage" /\ o \in Ends(u(r), Success)
  <2> DEFINE h(r) == [[s EXCEPT !.cargo[r] = @ - Take(r)] EXCEPT !.content[s.dest] = @ + Take(r)]
  <2>1. ASSUME NEW r
        PROVE  h(r) = u(r)
    <3> DEFINE n == Take(r)
               y == [s EXCEPT !.cargo = f(r, n)]
    <3>1. y.content = s.content
      BY DEF States
    <3>2. h(r) = [y EXCEPT !.content = [y.content EXCEPT ![s.dest] = y.content[s.dest] + n]]
      OBVIOUS
    <3> QED
      BY <3>1, <3>2
  <2>2. \/ o \in Ends(s, Success)
        \/ \E r \in Loaded(s.cargo) : \/ o \in Ends([s EXCEPT !.cargo[r] = @ - s.cargo[r]], Success)
                                      \/ s.dest # "storage" /\ o \in Ends(h(r), Success)
    BY <1>1, Zenon DEF Deliver
  <2> QED
    BY <2>1, <2>2
<1>3. s.cargo \in [Resources -> Int] /\ s.content \in [Objects -> Int]
  BY DEF States
<1>4. ASSUME NEW r \in Loaded(s.cargo), NEW n \in Int
      PROVE  f(r, n) \in [Resources -> Int] /\ Loaded(f(r, n)) \subseteq Loaded(s.cargo)
  <2>1. r \in Resources /\ s.cargo[r] \in Int
    BY <1>3 DEF Loaded
  <2>2. s.cargo[r] - n \in Int
    BY <2>1
  <2>3. f(r, n) \in [Resources -> Int]
    BY <1>3, <2>2
  <2>4. \A q \in Resources : q # r => f(r, n)[q] = s.cargo[q]
    BY <1>3
  <2> QED
    BY <2>3, <2>4 DEF Loaded
<1>5. CASE o \in Ends(s, Success)
  BY <1>5, Does DEF Success
<1>6. ASSUME NEW r \in Loaded(s.cargo), o \in Ends(t(r), Success)
      PROVE  /\ Did(o, s) /\ o.state.task = s.task /\ o.state.dest = s.dest /\ o.result = Success
             /\ Loaded(o.state.cargo) \subseteq Loaded(s.cargo)
  <2> DEFINE v == f(r, s.cargo[r])
             w == [s EXCEPT !.cargo = v]
  <2>1. s.cargo[r] \in Int
    BY <1>3 DEF Loaded
  <2>2. v \in [Resources -> Int] /\ Loaded(v) \subseteq Loaded(s.cargo)
    BY <1>4, <2>1
  <2>3. o \in Ends(w, Success)
    BY <1>6
  <2> HIDE DEF v
  <2>4. w \in States /\ w.saved = s.saved /\ w.task = s.task /\ w.dest = s.dest /\ w.cargo = v
    BY <2>2 DEF States
  <2> HIDE DEF w
  <2> QED
    BY <2>2, <2>3, <2>4, Does DEF Success
<1>7. ASSUME NEW r \in Loaded(s.cargo), o \in Ends(u(r), Success), s.dest # "storage"
      PROVE  /\ Did(o, s) /\ o.state.task = s.task /\ o.state.dest = s.dest /\ o.result = Success
             /\ Loaded(o.state.cargo) \subseteq Loaded(s.cargo)
  <2> DEFINE n == Take(r)
             v == f(r, n)
             x == [s.content EXCEPT ![s.dest] = s.content[s.dest] + n]
             w == [s EXCEPT !.cargo = v, !.content = x]
  <2>1. s.cargo[r] \in Int /\ s.dest \in Objects /\ s.content[s.dest] \in Int
    BY <1>3, <1>7 DEF Loaded
  <2>2. n \in Int
    BY <2>1, RoomLeft, MinOfTwo
  <2>3. o \in Ends(w, Success)
    BY <1>7
  <2> HIDE DEF n
  <2>4. v \in [Resources -> Int] /\ Loaded(v) \subseteq Loaded(s.cargo)
    BY <1>4, <2>2
  <2>5. x \in [Objects -> Int]
    <3>1. s.content[s.dest] + n \in Int
      BY <2>1, <2>2
    <3> QED
      BY <1>3, <3>1
  <2> HIDE DEF v, x
  <2>6. w \in States /\ w.saved = s.saved /\ w.task = s.task /\ w.dest = s.dest /\ w.cargo = v
    BY <2>4, <2>5 DEF States
  <2> HIDE DEF w
  <2> QED
    BY <2>3, <2>4, <2>6, Does DEF Success
<1> HIDE DEF t, u
<1> QED
  BY <1>2, <1>5, <1>6, <1>7

-----------------------------------------------------------------------------
(* Trees *)

(* What pick_something may lead to from s *)
PickOut(s) ==
  {o \in Outcomes :
     /\ o.result \in {Success, Failure} /\ o.state.cargo = s.cargo
     /\ Beside("pick_something", s, o.state)
     /\ o.result = Success => o.state.task \in Tasks}

(* The choice of a task changes no load. *)
LEMMA PickingSomething ==
  ASSUME NEW s \in States
  PROVE  \A o \in SelectNextTaskOrPark[s] : o \in PickOut(s)
<1> DEFINE id == "pick_something"
           G == {t \in States : Beside(id, s, t) /\ t.cargo = s.cargo}
           Out == PickOut(s)
           n0 == Composite(id, Success, s)
           n1 == n0 & PickHaulTask
           n2 == n1 & ParkingLot
<1>1. id \in Nodes
  BY DEF Nodes
<1>2. Results(Out) /\ Counts(G, id)
  BY <1>1 DEF Results, Counts, PickOut, Passed, Success, Failure, States
<1>3. ASSUME NEW k \in Nat, NEW t \in G,
             NEW o \in PickHaulTask[Saving(id, 0, t)] \cup ParkingLot[Saving(id, 0, t)]
      PROVE  AfterOk(o, id, Success, k, G, Out)
  <2> DEFINE r == Saving(id, 0, t)
             q == o.state
  <2>1. r \in States /\ Beside(id, s, r) /\ r.cargo = s.cargo
    BY <1>1, SavingIndex DEF Beside, Saved
  <2>2. /\ Did(o, r) /\ o.result \in {Success, Failure} /\ q.cargo = r.cargo
        /\ o.result = Success => q.task \in Tasks
    BY <1>3, <2>1, Picking, Parking DEF Success, Failure
  <2>3. o \in Outcomes /\ q \in States /\ Beside(id, s, q)
    BY <2>1, <2>2 DEF Did, Outcomes, Beside
  <2>4. Saving(id, k + 1, q) \in G /\ Saving(id, k + 1, q).saved[id] = k + 1
    BY <1>1, <2>1, <2>2, <2>3, SavingIndex DEF Beside, Saved
  <2>5. o \in Out /\ o.result # Running
    BY <2>1, <2>2, <2>3 DEF PickOut, Running, Success, Failure
  <2> HIDE DEF id, G, Out
  <2> QED
    BY <2>3, <2>4, <2>5 DEF AfterOk, Outcomes, Passed, Thrown, Running, Success, Failure
<1>4. Serves(PickHaulTask, id, Success, 0, G, Out) /\ Serves(ParkingLot, id, Success, 1, G, Out)
  BY <1>3 DEF Serves
<1>5. \A t \in G : [state |-> Saving(id, 0, t), result |-> Failure] \in Out
  BY <1>1, SavingIndex DEF PickOut, Outcomes, Beside, Saved, Success, Failure
<1>6. s \in G /\ s.saved[id] \in Nat
  BY <1>1 DEF Beside, States
<1> HIDE DEF G, Out, id
<1>7. Turn(n0, id, Success, 0, G, Out)
  BY <1>6, StartRule
<1>8. Turn(n1, id, Success, 1, G, Out)
  BY <1>2, <1>4, <1>7, ChildRule
<1>9. Turn(n2, id, Success, 2, G, Out)
  BY <1>2, <1>4, <1>8, ChildRule
<1>10. \A o \in Tick(n2) : o \in Out
  BY <1>2, <1>5, <1>9, EndRule DEF Success, Failure
<1> QED
  BY <1>10 DEF SelectNextTaskOrPark, SelectorNode, Out, id

(* What move_and_unload and get_resource may lead to from s: a success of    *)
(* the first leaves nothing but what the task is about.                      *)
CleanOut(s) ==
  {o \in Outcomes :
     /\ o.state.task = s.task /\ Beside("move_and_unload", s, o.state)
     /\ o.state.saved["move_and_unload"] \in 0..1
     /\ Loaded(o.state.cargo) \subseteq Loaded(s.cargo)
     /\ o.result = Success => Loaded(o.state.cargo) \subseteq {Resource(s.task)}}

(* move_and_unload, which is in progress at its first or second child *)
LEMMA Cleaning ==
  ASSUME NEW s \in States, s.task \in Tasks, s.saved["move_and_unload"] \in 0..1
  PROVE  \A o \in MoveAndUnload[s] : o \in CleanOut(s)
<1> DEFINE id == "move_and_unload"
           Clean(t) == Loaded(t.cargo) \subseteq {Resource(s.task)}
           Kept(t) == /\ t.task = s.task /\ Beside(id, s, t)
                      /\ Loaded(t.cargo) \subseteq Loaded(s.cargo)
           G == {t \in States : /\ Kept(t) /\ t.saved[id] \in 0..2
                                /\ t.saved[id] = 2 => Clean(t)}
           Out == CleanOut(s)
           n0 == Composite(id, Failure, s)
           n1 == n0 & MoveToDestination
           n2 == n1 & UnloadCreep
<1>1. id \in Nodes
  BY DEF Nodes
<1>2. Results(Out) /\ Counts(G, id)
  BY DEF Results, Counts, CleanOut, Outcomes, Passed, Running, Success, Failure, Thrown
<1>3. ASSUME NEW t \in G
      PROVE  Saving(id, 0, t) \in States /\ Kept(Saving(id, 0, t)) /\ Saving(id, 0, t).saved[id] = 0
  BY <1>1, <1>3, SavingIndex DEF Beside, Saved
<1>4. ASSUME NEW t \in G, NEW o, Did(o, Saving(id, 0, t)), NEW k \in 0..1,
             o.state.task = s.task, o.result # Thrown,
             Loaded(o.state.cargo) \subseteq Loaded(s.cargo),
             k = 1 /\ o.result = Success => Clean(o.state)
      PROVE  AfterOk(o, id, Failure, k, G, Out)
  <2> DEFINE r == Saving(id, 0, t)
             q == o.state
  <2>1. o \in Outcomes /\ q \in States /\ Kept(q) /\ q.saved[id] = 0
    BY <1>3, <1>4 DEF Did, Outcomes, Beside
  <2>2. /\ Saved(id, k, q, Saving(id, k, q)) /\ Saved(id, k + 1, q, Saving(id, k + 1, q))
        /\ k + 1 \in 0..2
    BY <1>1, <2>1, SavingIndex
  <2>3. o.result = Failure => o \in Out
    BY <2>1 DEF CleanOut, Success, Failure
  <2>4. o.result = Running => [state |-> Saving(id, k, q), result |-> Running] \in Out
    BY <2>1, <2>2 DEF CleanOut, Outcomes, Saved, Beside, Success, Running
  <2>5. o.result = Success => Saving(id, k + 1, q) \in G /\ Saving(id, k + 1, q).saved[id] = k + 1
    BY <1>4, <2>1, <2>2 DEF Saved, Beside
  <2> HIDE DEF id, G, Out
  <2> QED
    BY <1>4, <2>1, <2>3, <2>4, <2>5
    DEF AfterOk, Outcomes, Passed, Thrown, Running, Success, Failure
<1>5. Serves(MoveToDestination, id, Failure, 0, G, Out)
  <2> SUFFICES ASSUME NEW t \in G, t.saved[id] = 0, NEW o \in MoveToDestination[Saving(id, 0, t)]
               PROVE  AfterOk(o, id, Failure, 0, G, Out)
    BY DEF Serves
  <2>1. /\ Did(o, Saving(id, 0, t)) /\ o.state.task = s.task
        /\ Loaded(o.state.cargo) \subseteq Loaded(s.cargo)
        /\ o.result \in {Running, Success, Failure}
    BY <1>3, Moving
  <2> HIDE DEF id, G, Out
  <2> QED
    BY <1>4, <2>1 DEF Thrown, Running, Success, Failure
<1>6. Serves(UnloadCreep, id, Failure, 1, G, Out)
  <2> SUFFICES ASSUME NEW t \in G, t.saved[id] = 1, NEW o \in UnloadCreep[Saving(id, 0, t)]
               PROVE  AfterOk(o, id, Failure, 1, G, Out)
    BY DEF Serves
  <2>1. /\ Did(o, Saving(id, 0, t)) /\ o.state.task = s.task
        /\ Loaded(o.state.cargo) \subseteq Loaded(s.cargo)
        /\ o.result \in {Running, Success, Failure}
        /\ o.result = Success => Clean(o.state)
    BY <1>3, Unloading
  <2> HIDE DEF id, G, Out
  <2> QED
    BY <1>4, <2>1 DEF Thrown, Running, Success, Failure
<1>7. ASSUME NEW t \in G, t.saved[id] >= 2
      PROVE  [state |-> Saving(id, 0, t), result |-> Success] \in Out
  <2>1. Saving(id, 0, t).cargo = t.cargo
    BY <1>1, SavingIndex DEF Saved
  <2>2. t.saved[id] = 2
    BY <1>7
  <2>3. Clean(Saving(id, 0, t))
    BY <2>1, <2>2
  <2> QED
    BY <1>3, <2>3 DEF CleanOut, Outcomes
<1>8. s \in G /\ s.saved[id] \in Nat
  BY DEF Beside
<1> HIDE DEF G, Out, id
<1>9. Turn(n0, id, Failure, 0, G, Out)
  BY <1>8, StartRule
<1>10. Turn(n1, id, Failure, 1, G, Out)
  BY <1>2, <1>5, <1>9, ChildRule
<1>11. Turn(n2, id, Failure, 2, G, Out)
  BY <1>2, <1>6, <1>10, ChildRule
<1>12. \A o \in Tick(n2) : o \in Out
  BY <1>2, <1>7, <1>11, EndRule DEF Success, Failure
<1> QED
  BY <1>12 DEF MoveAndUnload, SequenceNode, Out, id

(* What unload_creep_if_needed may lead to from s *)
UnloadOut(s) ==
  {o \in Outcomes :
     /\ o.state.task = s.task
     /\ \A n \in Nodes \ {"unload_creep_if_needed", "move_and_unload"} :
          o.state.saved[n] = s.saved[n]
     /\ o.state.saved["move_and_unload"] \in 0..1
     /\ Loaded(o.state.cargo) \subseteq Loaded(s.cargo)
     /\ o.result = Success => Loaded(o.state.cargo) \subseteq {Resource(s.task)}}

(* unload_creep_if_needed does not succeed with anything left but what the   *)
(* task is about.                                                            *)
LEMMA UnloadingIfNeeded ==
  ASSUME NEW s \in States, s.task \in Tasks, s.saved["move_and_unload"] \in 0..1
  PROVE  \A o \in UnloadIfNeeded[s] : o \in UnloadOut(s)
<1> DEFINE id == "unload_creep_if_needed"
           Kept(t) == /\ t.task = s.task
                      /\ \A n \in Nodes \ {id, "move_and_unload"} : t.saved[n] = s.saved[n]
                      /\ t.saved["move_and_unload"] \in 0..1
                      /\ Loaded(t.cargo) \subseteq Loaded(s.cargo)
           G == {t \in States : Kept(t)}
           Out == UnloadOut(s)
           n0 == Composite(id, Success, s)
           n1 == n0 & CheckIfUnloadNeeded
           n2 == n1 & MoveAndUnload
<1>1. id \in Nodes /\ "move_and_unload" \in Nodes /\ id # "move_and_unload"
  BY DEF Nodes
<1>2. Results(Out) /\ Counts(G, id)
  BY <1>1
  DEF Results, Counts, UnloadOut, Outcomes, States, Passed, Running, Success, Failure, Thrown
<1>3. ASSUME NEW t \in States, Kept(t), NEW i \in Nat
      PROVE  /\ Saving(id, i, t) \in States /\ Kept(Saving(id, i, t))
             /\ Saving(id, i, t).saved[id] = i
  <2> DEFINE r == Saving(id, i, t)
  <2>1. Saved(id, i, t, r)
    BY <1>1, SavingIndex
  <2>2. \A n \in Nodes \ {id} : r.saved[n] = t.saved[n]
    BY <2>1 DEF Saved, Beside
  <2>3. r.saved["move_and_unload"] = t.saved["move_and_unload"]
    BY <1>1, <2>2
  <2>4. r \in States /\ r.saved[id] = i /\ r.task = t.task /\ r.cargo = t.cargo
    BY <2>1 DEF Saved
  <2> HIDE DEF r
  <2>5. r \in States /\ Kept(r) /\ r.saved[id] = i
    BY <1>3, <2>2, <2>3, <2>4
  <2> QED
    BY <2>5 DEF r
<1>4. ASSUME NEW o \in Outcomes, Kept(o.state), NEW k \in 0..1,
             o.result = Success => Loaded(o.state.cargo) \subseteq {Resource(s.task)}
      PROVE  AfterOk(o, id, Success, k, G, Out)
  <2> DEFINE q == o.state
  <2>1. q \in States /\ k \in Nat /\ k + 1 \in Nat
    BY DEF Outcomes
  <2>2. Saving(id, k + 1, q) \in G /\ Saving(id, k + 1, q).saved[id] = k + 1
    BY <1>3, <1>4, <2>1
  <2>3. [state |-> Saving(id, k, q), result |-> Running] \in Out
    BY <1>3, <1>4, <2>1 DEF UnloadOut, Outcomes, Success, Running
  <2>4. o \in Out
    BY <1>4 DEF UnloadOut
  <2> HIDE DEF id, G, Out
  <2> QED
    BY <2>2, <2>3, <2>4 DEF AfterOk, Outcomes, Passed, Thrown, Running, Success, Failure
<1>5. Serves(CheckIfUnloadNeeded, id, Success, 0, G, Out)
  <2> SUFFICES ASSUME NEW t \in G, t.saved[id] = 0,
                      NEW o \in CheckIfUnloadNeeded[Saving(id, 0, t)]
               PROVE  AfterOk(o, id, Success, 0, G, Out)
    BY DEF Serves
  <2> DEFINE r == Saving(id, 0, t)
  <2>1. r \in States /\ Kept(r)
    BY <1>3
  <2>2. /\ Did(o, r) /\ o.state.task = r.task /\ o.state.cargo = r.cargo
        /\ o.result = Success => ToUnload(r) = {}
    BY <2>1, Checking
  <2>3. Loaded(r.cargo) \subseteq ToUnload(r) \cup {Resource(r.task)}
    BY DEF ToUnload
  <2>4. o \in Outcomes /\ Kept(o.state)
    BY <2>1, <2>2 DEF Did
  <2>5. o.result = Success => Loaded(o.state.cargo) \subseteq {Resource(s.task)}
    BY <2>1, <2>2, <2>3
  <2> HIDE DEF id, G, Out
  <2> QED
    BY <1>4, <2>4, <2>5
<1>6. Serves(MoveAndUnload, id, Success, 1, G, Out)
  <2> SUFFICES ASSUME NEW t \in G, t.saved[id] = 1, NEW o \in MoveAndUnload[Saving(id, 0, t)]
               PROVE  AfterOk(o, id, Success, 1, G, Out)
    BY DEF Serves
  <2> DEFINE r == Saving(id, 0, t)
  <2>1. r \in States /\ Kept(r)
    BY <1>3
  <2>2. o \in CleanOut(r)
    BY <2>1, Cleaning
  <2>3. o \in Outcomes /\ Kept(o.state)
    BY <1>1, <2>1, <2>2 DEF CleanOut, Beside
  <2>4. o.result = Success => Loaded(o.state.cargo) \subseteq {Resource(s.task)}
    BY <2>1, <2>2 DEF CleanOut
  <2> HIDE DEF id, G, Out
  <2> QED
    BY <1>4, <2>3, <2>4
<1>7. ASSUME NEW t \in G
      PROVE  [state |-> Saving(id, 0, t), result |-> Failure] \in Out
  BY <1>3 DEF UnloadOut, Outcomes, Success, Failure
<1>8. s \in G /\ s.saved[id] \in Nat
  BY <1>1 DEF States
<1> HIDE DEF G, Out, id
<1>9. Turn(n0, id, Success, 0, G, Out)
  BY <1>8, StartRule
<1>10. Turn(n1, id, Success, 1, G, Out)
  BY <1>2, <1>5, <1>9, ChildRule
<1>11. Turn(n2, id, Success, 2, G, Out)
  BY <1>2, <1>6, <1>10, ChildRule
<1>12. \A o \in Tick(n2) : o \in Out
  BY <1>2, <1>7, <1>11, EndRule DEF Success, Failure
<1> QED
  BY <1>12 DEF UnloadIfNeeded, SelectorNode, Out, id

(* What get_resource and load_creep_if_needed may lead to from s *)
LoadOut(s) ==
  {o \in Outcomes :
     /\ o.state.task = s.task
     /\ \A n \in Nodes \ {"load_creep_if_needed", "get_resource"} : o.state.saved[n] = s.saved[n]
     /\ Loaded(o.state.cargo) \subseteq Loaded(s.cargo) \cup {Resource(s.task)}}

(* get_resource *)
LEMMA Getting ==
  ASSUME BaseRoomAssumption, home \in Homes, NEW s \in States, s.task \in Tasks
  PROVE  \A o \in GetResource[s] : o \in LoadOut(s)
<1> DEFINE id == "get_resource"
           Kept(t) == /\ t.task = s.task
                      /\ \A n \in Nodes \ {"load_creep_if_needed", id} : t.saved[n] = s.saved[n]
                      /\ Loaded(t.cargo) \subseteq Loaded(s.cargo) \cup {Resource(s.task)}
           G == {t \in States : Kept(t)}
           Out == LoadOut(s)
           n0 == Composite(id, Failure, s)
           n1 == n0 & MoveToDestination
           n2 == n1 & LoadResource
<1>1. id \in Nodes
  BY DEF Nodes
<1>2. Results(Out) /\ Counts(G, id)
  BY <1>1
  DEF Results, Counts, LoadOut, Outcomes, States, Passed, Running, Success, Failure, Thrown
<1>3. ASSUME NEW t \in States, Kept(t), NEW i \in Nat
      PROVE  /\ Saving(id, i, t) \in States /\ Kept(Saving(id, i, t))
             /\ Saving(id, i, t).saved[id] = i
  <2> DEFINE w == Saving(id, i, t)
  <2>1. Saved(id, i, t, w)
    BY <1>1, SavingIndex
  <2> HIDE DEF w
  <2>2. w \in States /\ Kept(w) /\ w.saved[id] = i
    BY <1>3, <2>1 DEF Saved, Beside
  <2> QED
    BY <2>2 DEF w
<1>4. ASSUME NEW t \in G, NEW k \in 0..1,
             NEW o \in MoveToDestination[Saving(id, 0, t)] \cup LoadResource[Saving(id, 0, t)]
      PROVE  AfterOk(o, id, Failure, k, G, Out)
  <2> DEFINE r == Saving(id, 0, t)
             q == o.state
  <2>1. r \in States /\ Kept(r)
    BY <1>3
  <2>2. /\ Did(o, r) /\ q.task = r.task
        /\ Loaded(q.cargo) \subseteq Loaded(r.cargo) \cup {Resource(r.task)}
    BY <2>1, Moving, Loading
  <2>3. o \in Outcomes /\ q \in States /\ Kept(q) /\ k \in Nat /\ k + 1 \in Nat
    BY <2>1, <2>2 DEF Did, Outcomes
  <2>4. Saving(id, k + 1, q) \in G /\ Saving(id, k + 1, q).saved[id] = k + 1
    <3> DEFINE j == k + 1
    <3>1. j \in Nat
      BY <2>3
    <3> HIDE DEF q, j
    <3>2. /\ Saving(id, j, q) \in States /\ Kept(Saving(id, j, q))
          /\ Saving(id, j, q).saved[id] = j
      BY <1>3, <2>3, <3>1
    <3>3. Saving(id, j, q) \in G
      BY <3>2
    <3> QED
      BY <3>2, <3>3 DEF q, j
  <2>5. o \in Out
    BY <2>3 DEF LoadOut
  <2>6. [state |-> Saving(id, k, q), result |-> Running] \in Out
    <3> DEFINE w == Saving(id, k, q)
    <3>1. w \in States /\ Kept(w)
      BY <1>3, <2>3
    <3> HIDE DEF w
    <3>2. [state |-> w, result |-> Running] \in Out
      BY <3>1 DEF LoadOut, Outcomes
    <3> QED
      BY <3>2 DEF w
  <2> HIDE DEF id, G, Out
  <2> QED
    BY <2>3, <2>4, <2>5, <2>6 DEF AfterOk, Outcomes, Passed, Thrown, Running, Success, Failure
<1>5. /\ Serves(MoveToDestination, id, Failure, 0, G, Out)
      /\ Serves(LoadResource, id, Failure, 1, G, Out)
  BY <1>4 DEF Serves
<1>6. ASSUME NEW t \in G
      PROVE  [state |-> Saving(id, 0, t), result |-> Success] \in Out
  BY <1>3 DEF LoadOut, Outcomes
<1>7. s \in G /\ s.saved[id] \in Nat
  BY <1>1 DEF States
<1> HIDE DEF G, Out, id
<1>8. Turn(n0, id, Failure, 0, G, Out)
  BY <1>7, StartRule
<1>9. Turn(n1, id, Failure, 1, G, Out)
  BY <1>2, <1>5, <1>8, ChildRule
<1>10. Turn(n2, id, Failure, 2, G, Out)
  BY <1>2, <1>5, <1>9, ChildRule
<1>11. \A o \in Tick(n2) : o \in Out
  BY <1>2, <1>6, <1>10, EndRule DEF Success, Failure
<1> QED
  BY <1>11 DEF GetResource, SequenceNode, Out, id

(* load_creep_if_needed adds of what the task is about only. *)
LEMMA LoadingIfNeeded ==
  ASSUME BaseRoomAssumption, home \in Homes, NEW s \in States, s.task \in Tasks
  PROVE  \A o \in LoadIfNeeded[s] : o \in LoadOut(s)
<1> DEFINE id == "load_creep_if_needed"
           Kept(t) == /\ t.task = s.task
                      /\ \A n \in Nodes \ {id, "get_resource"} : t.saved[n] = s.saved[n]
                      /\ Loaded(t.cargo) \subseteq Loaded(s.cargo) \cup {Resource(s.task)}
           G == {t \in States : Kept(t)}
           Out == LoadOut(s)
           n0 == Composite(id, Success, s)
           n1 == n0 & HasResourceAlready
           n2 == n1 & GetResource
<1>1. id \in Nodes
  BY DEF Nodes
<1>2. Results(Out) /\ Counts(G, id)
  BY <1>1
  DEF Results, Counts, LoadOut, Outcomes, States, Passed, Running, Success, Failure, Thrown
<1>3. ASSUME NEW t \in States, Kept(t), NEW i \in Nat
      PROVE  /\ Saving(id, i, t) \in States /\ Kept(Saving(id, i, t))
             /\ Saving(id, i, t).saved[id] = i
  <2> DEFINE w == Saving(id, i, t)
  <2>1. Saved(id, i, t, w)
    BY <1>1, SavingIndex
  <2> HIDE DEF w
  <2>2. w \in States /\ Kept(w) /\ w.saved[id] = i
    BY <1>3, <2>1 DEF Saved, Beside
  <2> QED
    BY <2>2 DEF w
<1>4. ASSUME NEW t \in G, NEW k \in 0..1,
             NEW o \in HasResourceAlready[Saving(id, 0, t)] \cup GetResource[Saving(id, 0, t)]
      PROVE  AfterOk(o, id, Success, k, G, Out)
  <2> DEFINE r == Saving(id, 0, t)
             q == o.state
  <2>1. r \in States /\ Kept(r)
    BY <1>3
  <2>2. /\ o \in Outcomes /\ q.task = r.task
        /\ \A n \in Nodes \ {id, "get_resource"} : q.saved[n] = r.saved[n]
        /\ Loaded(q.cargo) \subseteq Loaded(r.cargo) \cup {Resource(r.task)}
    <3>1. CASE o \in HasResourceAlready[r]
      BY <2>1, <3>1, Having DEF Did
    <3>2. CASE o \in GetResource[r]
      BY <2>1, <3>2, Getting DEF LoadOut
    <3> QED
      BY <3>1, <3>2
  <2>3. q \in States /\ Kept(q) /\ k \in Nat /\ k + 1 \in Nat
    <3>1. q \in States /\ k \in Nat /\ k + 1 \in Nat
      BY <2>2 DEF Outcomes
    <3> HIDE DEF r, q
    <3>2. Kept(q)
      BY <2>1, <2>2
    <3> QED
      BY <3>1, <3>2
  <2>4. Saving(id, k + 1, q) \in G /\ Saving(id, k + 1, q).saved[id] = k + 1
    <3> DEFINE j == k + 1
    <3>1. j \in Nat
      BY <2>3
    <3> HIDE DEF q, j
    <3>2. /\ Saving(id, j, q) \in States /\ Kept(Saving(id, j, q))
          /\ Saving(id, j, q).saved[id] = j
      BY <1>3, <2>3, <3>1
    <3>3. Saving(id, j, q) \in G
      BY <3>2
    <3> QED
      BY <3>2, <3>3 DEF q, j
  <2>5. o \in Out
    BY <2>2, <2>3 DEF LoadOut
  <2>6. [state |-> Saving(id, k, q), result |-> Running] \in Out
    <3> DEFINE w == Saving(id, k, q)
    <3>1. w \in States /\ Kept(w)
      BY <1>3, <2>3
    <3> HIDE DEF w
    <3>2. [state |-> w, result |-> Running] \in Out
      BY <3>1 DEF LoadOut, Outcomes
    <3> QED
      BY <3>2 DEF w
  <2> HIDE DEF id, G, Out
  <2> QED
    BY <2>2, <2>4, <2>5, <2>6 DEF AfterOk, Outcomes, Passed, Thrown, Running, Success, Failure
<1>5. /\ Serves(HasResourceAlready, id, Success, 0, G, Out)
      /\ Serves(GetResource, id, Success, 1, G, Out)
  BY <1>4 DEF Serves
<1>6. ASSUME NEW t \in G
      PROVE  [state |-> Saving(id, 0, t), result |-> Failure] \in Out
  BY <1>3 DEF LoadOut, Outcomes
<1>7. s \in G /\ s.saved[id] \in Nat
  BY <1>1 DEF States
<1> HIDE DEF G, Out, id
<1>8. Turn(n0, id, Success, 0, G, Out)
  BY <1>7, StartRule
<1>9. Turn(n1, id, Success, 1, G, Out)
  BY <1>2, <1>5, <1>8, ChildRule
<1>10. Turn(n2, id, Success, 2, G, Out)
  BY <1>2, <1>5, <1>9, ChildRule
<1>11. \A o \in Tick(n2) : o \in Out
  BY <1>2, <1>6, <1>10, EndRule DEF Success, Failure
<1> QED
  BY <1>11 DEF LoadIfNeeded, SelectorNode, Out, id

(* What deliver may lead to from s *)
DeliverOut(s) ==
  {o \in Outcomes :
     /\ o.state.task = s.task
     /\ Beside("deliver", s, o.state)
     /\ o.state.saved["deliver"] = 0 \/ o.state.dest # None
     /\ Loaded(o.state.cargo) \subseteq Loaded(s.cargo)}

(* deliver goes on after its first child only, so that it knows where to.    *)
LEMMA DeliveringTask ==
  ASSUME BaseRoomAssumption, NEW s \in States, s.task \in Tasks,
         s.saved["deliver"] = 0 \/ s.dest # None
  PROVE  \A o \in DeliverTask[s] : o \in DeliverOut(s)
<1> DEFINE id == "deliver"
           Kept(t) == /\ t.task = s.task /\ Beside(id, s, t)
                      /\ Loaded(t.cargo) \subseteq Loaded(s.cargo)
           Bound(t) == t.saved[id] = 0 \/ t.dest # None
           G == {t \in States : Kept(t) /\ Bound(t)}
           Out == DeliverOut(s)
           n0 == Composite(id, Failure, s)
           n1 == n0 & UseMemoryDropoff
           n2 == n1 & MoveToDestination
           n3 == n2 & EmptyCreep
<1>1. id \in Nodes
  BY DEF Nodes
<1>2. Results(Out) /\ Counts(G, id)
  BY <1>1
  DEF Results, Counts, DeliverOut, Outcomes, States, Passed, Running, Success, Failure, Thrown
<1>3. ASSUME NEW t \in States, Kept(t), NEW i \in Nat
      PROVE  /\ Saving(id, i, t) \in States /\ Kept(Saving(id, i, t))
             /\ Saving(id, i, t).saved[id] = i /\ Saving(id, i, t).dest = t.dest
  BY <1>1, <1>3, SavingIndex DEF Beside, Saved
<1>4. ASSUME NEW o \in Outcomes, Kept(o.state), o.state.saved[id] = 0, NEW k \in 0..2,
             k = 0 => o.result # Running,
             o.state.dest # None
      PROVE  AfterOk(o, id, Failure, k, G, Out)
  <2> DEFINE q == o.state
  <2>1. q \in States /\ k \in Nat /\ k + 1 \in Nat
    BY DEF Outcomes
  <2>2. Saving(id, k + 1, q) \in G /\ Saving(id, k + 1, q).saved[id] = k + 1
    BY <1>3, <1>4, <2>1
  <2>3. [state |-> Saving(id, k, q), result |-> Running] \in Out
    BY <1>3, <1>4, <2>1 DEF DeliverOut, Outcomes
  <2>4. o \in Out
    BY <1>4 DEF DeliverOut
  <2> HIDE DEF id, G, Out
  <2> QED
    BY <2>2, <2>3, <2>4 DEF AfterOk, Outcomes, Passed, Thrown, Running, Success, Failure
<1>5. Serves(UseMemoryDropoff, id, Failure, 0, G, Out)
  <2> SUFFICES ASSUME NEW t \in G, t.saved[id] = 0, NEW o \in UseMemoryDropoff[Saving(id, 0, t)]
               PROVE  AfterOk(o, id, Failure, 0, G, Out)
    BY DEF Serves
  <2> DEFINE r == Saving(id, 0, t)
  <2>1. r \in States /\ Kept(r) /\ r.saved[id] = 0
    BY <1>3
  <2>2. /\ Did(o, r) /\ o.state.task = r.task /\ o.state.cargo = r.cargo
        /\ o.result = Success /\ o.state.dest \in Objects \cup {"storage"}
    BY <2>1, UsingDropoff
  <2>3. o \in Outcomes /\ Kept(o.state) /\ o.state.saved[id] = 0
    BY <2>1, <2>2 DEF Did, Beside
  <2>4. o.state.dest # None
    BY <2>2 DEF BaseRoomAssumption
  <2> HIDE DEF id, G, Out
  <2> QED
    BY <1>4, <2>2, <2>3, <2>4 DEF Success, Running
<1>6. Serves(MoveToDestination, id, Failure, 1, G, Out)
  <2> SUFFICES ASSUME NEW t \in G, t.saved[id] = 1,
                      NEW o \in MoveToDestination[Saving(id, 0, t)]
               PROVE  AfterOk(o, id, Failure, 1, G, Out)
    BY DEF Serves
  <2> DEFINE r == Saving(id, 0, t)
  <2>1. r \in States /\ Kept(r) /\ r.saved[id] = 0 /\ r.dest # None
    BY <1>3
  <2>2. /\ Did(o, r) /\ o.state.task = r.task /\ o.state.cargo = r.cargo
        /\ o.state.dest = r.dest
    BY <2>1, Moving
  <2>3. o \in Outcomes /\ Kept(o.state) /\ o.state.saved[id] = 0
    BY <2>1, <2>2 DEF Did, Beside
  <2> HIDE DEF id, G, Out
  <2> QED
    BY <1>4, <2>1, <2>2, <2>3
<1>7. Serves(EmptyCreep, id, Failure, 2, G, Out)
  <2> SUFFICES ASSUME NEW t \in G, t.saved[id] = 2, NEW o \in EmptyCreep[Saving(id, 0, t)]
               PROVE  AfterOk(o, id, Failure, 2, G, Out)
    BY DEF Serves
  <2> DEFINE r == Saving(id, 0, t)
  <2>1. r \in States /\ Kept(r) /\ r.saved[id] = 0 /\ r.dest # None
    BY <1>3
  <2>2. r.dest \in Objects \cup {"storage"}
    BY <2>1 DEF States
  <2>3. /\ Did(o, r) /\ o.state.task = r.task /\ o.state.dest = r.dest
        /\ Loaded(o.state.cargo) \subseteq Loaded(r.cargo)
    BY <2>1, <2>2, Delivering
  <2>4. o \in Outcomes /\ Kept(o.state) /\ o.state.saved[id] = 0
    BY <2>1, <2>3 DEF Did, Beside
  <2> HIDE DEF id, G, Out
  <2> QED
    BY <1>4, <2>1, <2>3, <2>4
<1>8. ASSUME NEW t \in G
      PROVE  [state |-> Saving(id, 0, t), result |-> Success] \in Out
  BY <1>3 DEF DeliverOut, Outcomes
<1>9. s \in G /\ s.saved[id] \in Nat
  BY <1>1 DEF States, Beside
<1> HIDE DEF G, Out, id
<1>10. Turn(n0, id, Failure, 0, G, Out)
  BY <1>9, StartRule
<1>11. Turn(n1, id, Failure, 1, G, Out)
  BY <1>2, <1>5, <1>10, ChildRule
<1>12. Turn(n2, id, Failure, 2, G, Out)
  BY <1>2, <1>6, <1>11, ChildRule
<1>13. Turn(n3, id, Failure, 3, G, Out)
  BY <1>2, <1>7, <1>12, ChildRule
<1>14. \A o \in Tick(n3) : o \in Out
  BY <1>2, <1>8, <1>13, EndRule DEF Success, Failure
<1> QED
  BY <1>14 DEF DeliverTask, SequenceNode, Out, id

-----------------------------------------------------------------------------
(* The whole tree *)

(* A creep carries at most one resource. *)
Single(load) == \A q, r \in Loaded(load) : q = r

(* What a distributor remembers and carries when child i of the root is due: *)
(* from unloading on it has a task, to load it comes with nothing but what   *)
(* the task is about, and only deliver leaves an index of deliver behind.    *)
Fits(s, i) ==
  /\ Single(s.cargo)
  /\ s.saved["move_and_unload"] \in 0..1
  /\ i \in {2, 3, 4} => s.task \in Tasks
  /\ i = 3 => Loaded(s.cargo) \subseteq {Resource(s.task)}
  /\ i \in 0..3 => s.saved["deliver"] = 0
  /\ s.saved["deliver"] = 0 \/ s.dest # None

(* It fits the place in its tree. *)
InTree(s) ==
  /\ s.saved["core_task_or_extensions"] \in 0..5
  /\ Fits(s, s.saved["core_task_or_extensions"])

(* What a run of a distributor may lead to *)
RunOut ==
  {o \in Outcomes : Single(o.state.cargo) /\ (o.result = Running => InTree(o.state))}

(* To save an index of the root changes nothing that has to fit. *)
LEMMA Placing ==
  ASSUME NEW s \in States, NEW i \in Nat, NEW k, Fits(s, k)
  PROVE  LET t == Saving("core_task_or_extensions", i, s)
         IN  /\ t \in States /\ t.saved["core_task_or_extensions"] = i
             /\ Fits(t, k)
<1> DEFINE id == "core_task_or_extensions"
           t == Saving(id, i, s)
<1>1. /\ id \in Nodes /\ "deliver" \in Nodes \ {id} /\ "move_and_unload" \in Nodes \ {id}
  BY DEF Nodes
<1>2. Saved(id, i, s, t)
  BY <1>1, SavingIndex
<1> HIDE DEF t
<1>3. /\ t.saved["deliver"] = s.saved["deliver"]
      /\ t.saved["move_and_unload"] = s.saved["move_and_unload"]
      /\ t.task = s.task /\ t.dest = s.dest /\ t.cargo = s.cargo
      /\ t \in States /\ t.saved[id] = i
  BY <1>1, <1>2 DEF Saved, Beside
<1>4. Fits(t, k)
  BY <1>3 DEF Fits
<1> QED
  BY <1>3, <1>4 DEF t

(* A run keeps a distributor in its tree, or at its root, and never mixes.   *)
LEMMA Distributing ==
  ASSUME BaseRoomAssumption, home \in Homes, NEW s \in States, InTree(s)
  PROVE  \A o \in Behavior[s] : o \in RunOut
<1> DEFINE id == "core_task_or_extensions"
           G == {t \in States : InTree(t)}
           Out == RunOut
           n0 == Composite(id, Failure, s)
           n1 == n0 & ClearHaulTask
           n2 == n1 & SelectNextTaskOrPark
           n3 == n2 & UnloadIfNeeded
           n4 == n3 & LoadIfNeeded
           n5 == n4 & DeliverTask
<1>1. /\ "deliver" \in Nodes /\ "move_and_unload" \in Nodes
      /\ {"deliver", "move_and_unload"} \cap
           {"pick_something", "unload_creep_if_needed", "load_creep_if_needed",
            "get_resource"} = {}
  BY DEF Nodes
<1>2. Results(Out) /\ Counts(G, id)
  BY DEF Results, Counts, InTree, RunOut, Outcomes, Passed, Running, Success, Failure, Thrown
<1>3. ASSUME NEW t \in G
      PROVE  /\ Saving(id, 0, t) \in States /\ Fits(Saving(id, 0, t), t.saved[id])
             /\ Single(Saving(id, 0, t).cargo)
  <2>1. Saving(id, 0, t) \in States /\ Fits(Saving(id, 0, t), t.saved[id])
    BY Placing DEF InTree
  <2> QED
    BY <2>1 DEF Fits
<1>4. ASSUME NEW o \in Outcomes, NEW k \in 0..4, Single(o.state.cargo),
             o.result = Running => Fits(o.state, k),
             o.result = Success => Fits(o.state, k + 1)
      PROVE  AfterOk(o, id, Failure, k, G, Out)
  <2> DEFINE q == o.state
  <2>1. q \in States /\ o.result \in {Running, Success, Failure, Thrown}
        /\ o = [state |-> o.state, result |-> o.result]
    BY DEF Outcomes
  <2>2. k \in Nat /\ k + 1 \in Nat /\ k \in 0..5 /\ k + 1 \in 0..5
    OBVIOUS
  <2>3. o.result # Running => o \in Out
    BY <1>4 DEF RunOut
  <2>4. o.result = Running => [state |-> Saving(id, k, q), result |-> Running] \in Out
    <3> DEFINE w == Saving(id, k, q)
    <3>1. o.result = Running => w \in States /\ w.saved[id] = k /\ Fits(w, k)
      BY <1>4, <2>1, <2>2, Placing
    <3> HIDE DEF w
    <3>2. o.result = Running => [state |-> w, result |-> Running] \in Out
      BY <2>2, <3>1 DEF RunOut, Outcomes, InTree, Fits
    <3> QED
      BY <3>2 DEF w
  <2>5. o.result = Success => Saving(id, k + 1, q) \in G /\ Saving(id, k + 1, q).saved[id] = k + 1
    <3> DEFINE w == Saving(id, k + 1, q)
    <3>1. o.result = Success => w \in States /\ w.saved[id] = k + 1 /\ Fits(w, k + 1)
      BY <1>4, <2>1, <2>2, Placing
    <3> HIDE DEF w
    <3>2. o.result = Success => w \in G /\ w.saved[id] = k + 1
      BY <2>2, <3>1 DEF InTree
    <3> QED
      BY <3>2 DEF w
  <2> HIDE DEF id, G, Out
  <2> QED
    BY <2>1, <2>3, <2>4, <2>5 DEF AfterOk, Passed, Thrown, Running, Success, Failure
<1>5. Serves(ClearHaulTask, id, Failure, 0, G, Out)
  <2> SUFFICES ASSUME NEW t \in G, t.saved[id] = 0, NEW o \in ClearHaulTask[Saving(id, 0, t)]
               PROVE  AfterOk(o, id, Failure, 0, G, Out)
    BY DEF Serves
  <2> DEFINE r == Saving(id, 0, t)
             q == o.state
  <2>1. r \in States /\ Fits(r, 0)
    BY <1>3
  <2> HIDE DEF G, Out, id, r
  <2>2. o \in Outcomes /\ q.saved = r.saved /\ q.cargo = r.cargo /\ o.result = Success
    BY <2>1, Clearing DEF Did, r
  <2>3. Single(q.cargo) /\ Fits(q, 0 + 1)
    BY <2>1, <2>2 DEF Fits
  <2> QED
    BY <1>4, <2>2, <2>3 DEF Running, Success
<1>6. Serves(SelectNextTaskOrPark, id, Failure, 1, G, Out)
  <2> SUFFICES ASSUME NEW t \in G, t.saved[id] = 1,
                      NEW o \in SelectNextTaskOrPark[Saving(id, 0, t)]
               PROVE  AfterOk(o, id, Failure, 1, G, Out)
    BY DEF Serves
  <2> DEFINE r == Saving(id, 0, t)
             q == o.state
  <2>1. r \in States /\ Fits(r, 1)
    BY <1>3
  <2> HIDE DEF G, Out, id, r
  <2>2. o \in PickOut(r)
    BY <2>1, PickingSomething DEF r
  <2>3. /\ o \in Outcomes /\ q.cargo = r.cargo /\ o.result \in {Success, Failure}
        /\ q.saved["deliver"] = r.saved["deliver"]
        /\ q.saved["move_and_unload"] = r.saved["move_and_unload"]
        /\ o.result = Success => q.task \in Tasks
    BY <1>1, <2>2 DEF PickOut, Beside
  <2>4. Single(q.cargo) /\ (o.result = Success => Fits(q, 1 + 1))
    BY <2>1, <2>3 DEF Fits
  <2> QED
    BY <1>4, <2>3, <2>4 DEF Running, Success, Failure
<1>7. Serves(UnloadIfNeeded, id, Failure, 2, G, Out)
  <2> SUFFICES ASSUME NEW t \in G, t.saved[id] = 2, NEW o \in UnloadIfNeeded[Saving(id, 0, t)]
               PROVE  AfterOk(o, id, Failure, 2, G, Out)
    BY DEF Serves
  <2> DEFINE r == Saving(id, 0, t)
             q == o.state
  <2>1. r \in States /\ Fits(r, 2) /\ r.task \in Tasks
    BY <1>3 DEF Fits
  <2> HIDE DEF G, Out, id, r
  <2>2. o \in UnloadOut(r)
    BY <2>1, UnloadingIfNeeded DEF r, Fits
  <2>3. /\ o \in Outcomes /\ q.task = r.task
        /\ q.saved["deliver"] = r.saved["deliver"] /\ q.saved["move_and_unload"] \in 0..1
        /\ Loaded(q.cargo) \subseteq Loaded(r.cargo)
        /\ o.result = Success => Loaded(q.cargo) \subseteq {Resource(q.task)}
    BY <1>1, <2>2 DEF UnloadOut
  <2>4. Single(q.cargo)
    BY <2>1, <2>3 DEF Single, Fits
  <2>5. r.saved["deliver"] = 0
    BY <2>1 DEF Fits
  <2>6. Fits(q, 2) /\ (o.result = Success => Fits(q, 2 + 1))
    BY <2>1, <2>3, <2>4, <2>5 DEF Fits
  <2> QED
    BY <1>4, <2>3, <2>4, <2>6
<1>8. Serves(LoadIfNeeded, id, Failure, 3, G, Out)
  <2> SUFFICES ASSUME NEW t \in G, t.saved[id] = 3, NEW o \in LoadIfNeeded[Saving(id, 0, t)]
               PROVE  AfterOk(o, id, Failure, 3, G, Out)
    BY DEF Serves
  <2> DEFINE r == Saving(id, 0, t)
             q == o.state
  <2>1. r \in States /\ Fits(r, 3) /\ r.task \in Tasks
    BY <1>3 DEF Fits
  <2> HIDE DEF G, Out, id, r
  <2>2. o \in LoadOut(r)
    BY <2>1, LoadingIfNeeded DEF r
  <2>3. /\ o \in Outcomes /\ q.task = r.task
        /\ q.saved["deliver"] = r.saved["deliver"]
        /\ q.saved["move_and_unload"] = r.saved["move_and_unload"]
        /\ Loaded(q.cargo) \subseteq Loaded(r.cargo) \cup {Resource(r.task)}
    BY <1>1, <2>2 DEF LoadOut
  <2>4. Loaded(q.cargo) \subseteq {Resource(r.task)}
    BY <2>1, <2>3 DEF Fits
  <2>5. Single(q.cargo)
    BY <2>4 DEF Single
  <2>6. Fits(q, 3) /\ Fits(q, 3 + 1)
    BY <2>1, <2>3, <2>4, <2>5 DEF Fits
  <2> QED
    BY <1>4, <2>3, <2>5, <2>6
<1>9. Serves(DeliverTask, id, Failure, 4, G, Out)
  <2> SUFFICES ASSUME NEW t \in G, t.saved[id] = 4, NEW o \in DeliverTask[Saving(id, 0, t)]
               PROVE  AfterOk(o, id, Failure, 4, G, Out)
    BY DEF Serves
  <2> DEFINE r == Saving(id, 0, t)
             q == o.state
  <2>1. r \in States /\ Fits(r, 4) /\ r.task \in Tasks
    BY <1>3 DEF Fits
  <2> HIDE DEF G, Out, id, r
  <2>2. o \in DeliverOut(r)
    BY <2>1, DeliveringTask DEF r, Fits
  <2>3. /\ o \in Outcomes /\ q.task = r.task
        /\ q.saved["deliver"] = 0 \/ q.dest # None
        /\ q.saved["move_and_unload"] = r.saved["move_and_unload"]
        /\ Loaded(q.cargo) \subseteq Loaded(r.cargo)
    BY <1>1, <2>2 DEF DeliverOut, Beside
  <2>4. Single(q.cargo)
    BY <2>1, <2>3 DEF Single, Fits
  <2>5. Fits(q, 4) /\ Fits(q, 4 + 1)
    BY <2>1, <2>3, <2>4 DEF Fits
  <2> QED
    BY <1>4, <2>3, <2>4, <2>5
<1>10. ASSUME NEW t \in G
       PROVE  [state |-> Saving(id, 0, t), result |-> Success] \in Out
  BY <1>3 DEF RunOut, Outcomes, Success, Running
<1>11. s \in G /\ s.saved[id] \in Nat
  BY DEF InTree
<1> HIDE DEF G, Out, id
<1>12. Turn(n0, id, Failure, 0, G, Out)
  BY <1>11, StartRule
<1>13. Turn(n1, id, Failure, 1, G, Out)
  BY <1>2, <1>5, <1>12, ChildRule
<1>14. Turn(n2, id, Failure, 2, G, Out)
  BY <1>2, <1>6, <1>13, ChildRule
<1>15. Turn(n3, id, Failure, 3, G, Out)
  BY <1>2, <1>7, <1>14, ChildRule
<1>16. Turn(n4, id, Failure, 4, G, Out)
  BY <1>2, <1>8, <1>15, ChildRule
<1>17. Turn(n5, id, Failure, 5, G, Out)
  BY <1>2, <1>9, <1>16, ChildRule
<1>18. \A o \in Tick(n5) : o \in Out
  BY <1>2, <1>10, <1>17, EndRule DEF Success, Failure
<1> QED
  BY <1>18 DEF Behavior, SequenceNode, Out, id

-----------------------------------------------------------------------------
(* The transfers of the links *)

(* There are finitely many transfers. *)
LEMMA FewMoves ==
  ASSUME IsFiniteSet(LinkSet)
  PROVE  IsFiniteSet(Moves)
<1> DEFINE P == LinkSet \X LinkSet
           f == [p \in P |-> [from |-> p[1], to |-> p[2]]]
<1>1. IsFiniteSet(P)
  BY FS_Product
<1>2. f \in Surjection(P, Moves)
  <2>1. f \in [P -> Moves]
    BY DEF Moves
  <2>2. \A m \in Moves : \E p \in P : f[p] = m
    <3> SUFFICES ASSUME NEW m \in Moves PROVE \E p \in P : f[p] = m
      OBVIOUS
    <3>1. <<m.from, m.to>> \in P /\ m = [from |-> m.from, to |-> m.to]
      BY DEF Moves
    <3>2. f[<<m.from, m.to>>] = m
      BY <3>1
    <3> QED
      BY <3>1, <3>2
  <2> QED
    BY <2>1, <2>2 DEF Surjection
<1> QED
  BY <1>1, <1>2, FS_Surjection

(* What some transfers amount to is a number. *)
LEMMA CountingUnits ==
  ASSUME IsFiniteSet(LinkSet), content \in [Objects -> Int], NEW moves \in SUBSET Moves
  PROVE  Units(moves) \in Nat
<1> DEFINE g == [m \in moves |-> {m} \X (1..Amount(m))]
           parts == {{m} \X (1..Amount(m)) : m \in moves}
<1>1. IsFiniteSet(moves)
  BY FewMoves, FS_Subset
<1>2. g \in Surjection(moves, parts)
  BY DEF Surjection
<1>3. IsFiniteSet(parts)
  BY <1>1, <1>2, FS_Surjection
<1>4. ASSUME NEW p \in parts
      PROVE  IsFiniteSet(p)
  <2>1. PICK m \in moves : p = {m} \X (1..Amount(m))
    OBVIOUS
  <2>2. m.from \in Objects /\ m.to \in Objects
    BY DEF Moves, Objects
  <2>3. content[m.from] \in Int /\ Free(m.to) \in Int
    BY <2>2 DEF Free, StoreCapacity
  <2>4. Amount(m) \in Int
    BY <2>3, MinOfTwo DEF Amount
  <2>5. IsFiniteSet({m}) /\ IsFiniteSet(1..Amount(m))
    <3>1. IsFiniteSet({m})
      BY FS_Singleton
    <3> DEFINE n == Amount(m)
    <3>2. n \in Int
      BY <2>4
    <3> HIDE DEF n
    <3>3. IsFiniteSet(1..n)
      BY <3>2, FS_Interval
    <3> QED
      BY <3>1, <3>3 DEF n
  <2> QED
    BY <2>1, <2>5, FS_Product
<1> HIDE DEF parts
<1>5. IsFiniteSet(UNION parts)
  BY <1>3, <1>4, FS_UNION
<1> QED
  BY <1>5, FS_CardinalityType DEF Units, parts

-----------------------------------------------------------------------------
(* The inductive invariant *)

(* What a distributor may remember *)
Memories ==
  [saved : [Nodes -> Nat], task : Tasks \cup {None}, amount : Int,
   dest : Objects \cup {"storage", None}, moving : BOOLEAN]

Requests == [kind : Kinds, object : Objects, amount : Int, last : BOOLEAN]

RoomOK ==
  /\ home \in Homes /\ content \in [Objects -> Int]
  /\ reserve \in Reserves /\ topic \in SUBSET Requests

CreepsOK ==
  /\ alive \in SUBSET Distributors
  /\ memory \in [Distributors -> Memories]
  /\ cargo \in [Distributors -> [Resources -> Int]]

(* Every distributor is in its tree, those that are gone at the root of it.  *)
InTrees == \A c \in Distributors : InTree(View(c, FALSE))

Inv == RoomOK /\ CreepsOK /\ InTrees

(* A new distributor, and one that starts over, is in its tree when it       *)
(* carries one resource at most.                                             *)
LEMMA Starting ==
  ASSUME NEW s, s.saved = Fresh.saved, Single(s.cargo)
  PROVE  InTree(s)
<1>1. \A n \in Nodes : s.saved[n] = 0
  BY DEF Fresh
<1>2. {"core_task_or_extensions", "deliver", "move_and_unload"} \subseteq Nodes
  BY DEF Nodes
<1> QED
  BY <1>1, <1>2 DEF InTree, Fits

(* What a distributor remembers when it starts over *)
LEMMA Freshness == Fresh \in Memories
BY DEF Fresh, Memories

(* A distributor sees a state its tree may be ticked in. *)
LEMMA Viewing ==
  ASSUME Inv, NEW c \in Distributors, NEW blocked \in BOOLEAN
  PROVE  View(c, blocked) \in States /\ InTree(View(c, blocked))
<1>1. memory[c] \in Memories /\ cargo[c] \in [Resources -> Int]
  BY DEF Inv, CreepsOK
<1>2. View(c, blocked) \in States
  BY <1>1 DEF View, States, Memories, Tasks, Requests, Inv, RoomOK
<1>3. InTree(View(c, FALSE))
  BY DEF Inv, InTrees
<1> QED
  BY <1>2, <1>3 DEF InTree, Fits, View

(* What is in its tree stays there as long as neither what it remembers nor  *)
(* what it carries changes.                                                  *)
LEMMA Resting ==
  ASSUME Inv, UNCHANGED creeps
  PROVE  CreepsOK' /\ InTrees'
BY DEF Inv, CreepsOK, InTrees, InTree, Fits, View, creeps

-----------------------------------------------------------------------------
(* The steps *)

(* Links move energy and ask for hauls. *)
LEMMA LinksKeepInv ==
  ASSUME BaseRoomAssumption, Inv, LinkStep
  PROVE  Inv'
<1>1. CreepsOK' /\ InTrees'
  BY Resting DEF LinkStep
<1>2. RoomOK'
  <2> USE DEF RoomOK
  <2>1. StorageLink \in Objects /\ content[StorageLink] \in Int /\ Free(StorageLink) \in Int
    BY DEF Inv, Objects, LinkSet, Free, StoreCapacity
  <2>2. ASSUME NEW kind \in {"ll", "lu"}, NEW n \in Int
        PROVE  NewRequest(kind, StorageLink, n) \in Requests
    BY <2>1 DEF NewRequest, Requests, Kinds
  <2>3. CASE \E cold \in SUBSET Senders : LinksRun(cold)
    <3>1. PICK cold \in SUBSET Senders : LinksRun(cold)
      BY <2>3
    <3> DEFINE run == LinkRun(cold)
               moves == {m \in Moves : m \in run.moves /\ m.from \notin cold}
    <3>2. content' = AfterMoves(moves) /\ Haul(run) /\ UNCHANGED <<home, reserve>>
      BY <3>1 DEF LinksRun
    <3>3. moves \in SUBSET Moves
      OBVIOUS
    <3> HIDE DEF moves, run
    <3>4. AfterMoves(moves) \in [Objects -> Int]
      <4>1. ASSUME NEW o \in Objects
            PROVE  content[o] + Units({m \in moves : m.to = o})
                              - Units({m \in moves : m.from = o}) \in Int
        <5>1. content[o] \in Int /\ content \in [Objects -> Int]
          BY DEF Inv
        <5>2. /\ Units({m \in moves : m.to = o}) \in Nat
              /\ Units({m \in moves : m.from = o}) \in Nat
          <6>1. /\ {m \in moves : m.to = o} \in SUBSET Moves
                /\ {m \in moves : m.from = o} \in SUBSET Moves
            BY <3>3
          <6> QED
            BY <5>1, <6>1, CountingUnits DEF BaseRoomAssumption
        <5> QED
          BY <5>1, <5>2
      <4> QED
        BY <4>1 DEF AfterMoves
    <3>5. Min({Free(StorageLink), ReadyAmount}) \in Int
      BY <2>1, MinOfTwo DEF ReadyAmount
    <3>6. topic' \in SUBSET Requests
      <4>1. \/ AskHaul("ll", Min({Free(StorageLink), ReadyAmount}))
            \/ AskHaul("lu", content[StorageLink]) \/ UNCHANGED topic
        BY <3>2 DEF Haul
      <4> QED
        BY <4>1, <3>5, <2>1, <2>2 DEF AskHaul, Inv
    <3> QED
      BY <3>2, <3>4, <3>6 DEF Inv
  <2>4. CASE HaulWaits
    BY <2>4 DEF HaulWaits, Inv
  <2>5. CASE ManagerRestarts
    BY <2>5 DEF ManagerRestarts, room, Inv
  <2>6. CASE \E l \in LinkSet : SourceFills(l) \/ SinkUsed(l)
    BY <2>6 DEF SourceFills, SinkUsed, Inv
  <2> QED
    BY <2>3, <2>4, <2>5, <2>6 DEF LinkStep
<1> QED
  BY <1>1, <1>2 DEF Inv

(* Towers ask for energy and spend it. *)
LEMMA TowersKeepInv ==
  ASSUME BaseRoomAssumption, Inv, TowerStep
  PROVE  Inv'
<1>1. CreepsOK' /\ InTrees'
  BY Resting DEF TowerStep
<1>2. RoomOK'
  <2> USE DEF RoomOK
  <2>1. CASE \E t \in Towers : TowerRuns(t)
    <3>1. PICK t \in Towers : TowerRuns(t)
      BY <2>1
    <3>2. t \in Objects /\ content[t] \in Int
      BY DEF Inv, Objects
    <3>3. NewRequest("tel", t, Free(t)) \in Requests
      BY <3>2 DEF NewRequest, Requests, Kinds, Free, StoreCapacity
    <3>4. topic' \in SUBSET Requests
      BY <3>1, <3>3 DEF TowerRuns, RequestEnergy, Inv
    <3>5. content' \in {content, [content EXCEPT ![t] = @ - 1]}
      BY <3>1 DEF TowerRuns, Attack, Shoots, Spare, Repair, Spends
    <3>6. content' \in [Objects -> Int]
      BY <3>2, <3>5 DEF Inv
    <3> QED
      BY <3>1, <3>4, <3>6 DEF TowerRuns, Inv
  <2>2. CASE \E t \in Towers : TowerWaited(t)
    BY <2>2 DEF TowerWaited, Inv
  <2>3. CASE UNCHANGED room
    BY <2>3 DEF room, Inv
  <2> QED
    BY <2>1, <2>2, <2>3
    DEF TowerStep, UpdateDamaged, UpdateSecondary, DefenseRuns, TargetExpires, HostileArrives,
        HostileActs, Damage, Rebuild
<1> QED
  BY <1>1, <1>2 DEF Inv

(* A distributor that runs stays in its tree; the others are not touched.    *)
LEMMA RunsKeepInv ==
  ASSUME BaseRoomAssumption, Inv, NEW c \in Distributors, NEW blocked \in BOOLEAN,
         DistributorRuns(c, blocked)
  PROVE  Inv'
<1>1. PICK o \in Behavior[View(c, blocked)] :
        /\ memory' = [memory EXCEPT ![c] = Remembered(o)]
        /\ cargo' = [cargo EXCEPT ![c] = o.state.cargo]
        /\ content' = o.state.content /\ topic' = o.state.topic
  BY DEF DistributorRuns
<1>2. o \in RunOut
  BY Viewing, Distributing DEF Inv, RoomOK
<1>3. /\ o.state \in States /\ Single(o.state.cargo)
      /\ o.result = Running => InTree(o.state)
  BY <1>2 DEF RunOut, Outcomes
<1>4. RoomOK'
  BY <1>1, <1>3 DEF RoomOK, Inv, States, Requests, DistributorRuns
<1>5. Remembered(o) \in Memories
  BY <1>3, Freshness DEF Remembered, Memories, States, Tasks
<1>6. o.state.cargo \in [Resources -> Int]
  BY <1>3 DEF States
<1>7. CreepsOK'
  BY <1>1, <1>5, <1>6 DEF CreepsOK, Inv, DistributorRuns
<1>8. ASSUME NEW d \in Distributors
      PROVE  InTree(View(d, FALSE))'
  <2>1. CASE d = c
    <3>1. memory'[d] = Remembered(o) /\ cargo'[d] = o.state.cargo
      BY <1>1, <2>1 DEF Inv, CreepsOK
    <3>2. CASE o.result = Running
      BY <1>3, <3>1, <3>2 DEF Remembered, View, InTree, Fits
    <3>3. CASE o.result # Running
      BY <1>3, <3>1, <3>3, Starting DEF Remembered, View
    <3> QED
      BY <3>2, <3>3
  <2>2. CASE d # c
    <3>1. memory'[d] = memory[d] /\ cargo'[d] = cargo[d]
      BY <1>1, <2>2 DEF Inv, CreepsOK
    <3> QED
      BY <3>1 DEF Inv, InTrees, InTree, Fits, View
  <2> QED
    BY <2>1, <2>2
<1> QED
  BY <1>4, <1>7, <1>8 DEF Inv, InTrees

(* The other steps about distributors *)
LEMMA DistributorsKeepInv ==
  ASSUME BaseRoomAssumption, Inv, DistributorStep
  PROVE  Inv'
<1>1. CASE \E c \in Distributors, blocked \in BOOLEAN : DistributorRuns(c, blocked)
  BY <1>1, RunsKeepInv
<1>2. CASE \E c \in Distributors : DistributorSpawns(c, Present # {})
  BY <1>2
  DEF DistributorSpawns, Inv, RoomOK, CreepsOK, InTrees, InTree, Fits, View, room
<1>3. CASE \E c \in Distributors : DistributorDies(c)
  <2>1. PICK c \in Distributors : DistributorDies(c)
    BY <1>3
  <2>2. Empty \in [Resources -> Int] /\ Loaded(Empty) = {}
    BY DEF Empty, Loaded
  <2>3. RoomOK'
    BY <2>1 DEF DistributorDies, Inv, RoomOK, room
  <2>4. CreepsOK'
    BY <2>1, <2>2, Freshness DEF DistributorDies, Inv, CreepsOK
  <2>5. ASSUME NEW d \in Distributors
        PROVE  InTree(View(d, FALSE))'
    <3>1. CASE d = c
      <4>1. memory'[d] = Fresh /\ cargo'[d] = Empty
        BY <2>1, <3>1 DEF DistributorDies, Inv, CreepsOK
      <4> QED
        BY <2>2, <4>1, Starting DEF View, Single
    <3>2. CASE d # c
      <4>1. memory'[d] = memory[d] /\ cargo'[d] = cargo[d]
        BY <2>1, <3>2 DEF DistributorDies, Inv, CreepsOK
      <4> QED
        BY <4>1 DEF Inv, InTrees, InTree, Fits, View
    <3> QED
      BY <3>1, <3>2
  <2> QED
    BY <2>3, <2>4, <2>5 DEF Inv, InTrees
<1>4. CASE \E e \in Extensions : FillExtension(e)
  <2>1. PICK e \in Extensions : FillExtension(e)
    BY <1>4
  <2>2. e \in Objects /\ content[e] \in Int
    BY DEF Inv, RoomOK, Objects
  <2>3. NewRequest("ext", e, Free(e)) \in Requests
    BY <2>2 DEF NewRequest, Requests, Kinds, Free, StoreCapacity
  <2>4. \A r \in RequestsOf({"ext"}, e) : [r EXCEPT !.last = TRUE] \in Requests
    BY DEF RequestsOf, Inv, RoomOK, Requests
  <2>5. topic' \in SUBSET Requests
    BY <2>1, <2>3, <2>4 DEF FillExtension, Inv, RoomOK
  <2>6. RoomOK'
    BY <2>1, <2>5 DEF FillExtension, Inv, RoomOK
  <2>7. CreepsOK' /\ InTrees'
    BY <2>1, Resting DEF FillExtension
  <2> QED
    BY <2>6, <2>7 DEF Inv
<1> QED
  BY <1>1, <1>2, <1>3, <1>4 DEF DistributorStep

(* Labs ask; spawns, labs, haulers and terminals change what there is.       *)
LEMMA RoomKeepsInv ==
  ASSUME BaseRoomAssumption, Inv, RoomStep \/ \E r \in topic : RequestExpires(r)
  PROVE  Inv'
<1>1. CreepsOK' /\ InTrees'
  BY Resting DEF RoomStep, RequestExpires
<1>2. RoomOK'
  <2>1. CASE \E l \in Labs : LabAsks(l)
    <3>1. PICK l \in Labs : LabAsks(l)
      BY <2>1
    <3>2. l \in Objects /\ content[l] \in Int
      BY DEF Inv, RoomOK, Objects
    <3>3. NewRequest("lab", l, Free(l)) \in Requests
      BY <3>2 DEF NewRequest, Requests, Kinds, Free, StoreCapacity
    <3> QED
      BY <3>1, <3>3 DEF LabAsks, Inv, RoomOK
  <2>2. CASE \E o \in Extensions \cup Labs : Used(o)
    <3>1. PICK o \in Extensions \cup Labs : Used(o)
      BY <2>2
    <3>2. o \in Objects /\ content[o] \in Int
      BY DEF Inv, RoomOK, Objects
    <3>3. content' \in [Objects -> Int]
      BY <3>1, <3>2 DEF Used, Inv, RoomOK
    <3> QED
      BY <3>1, <3>3 DEF Used, Inv, RoomOK
  <2>3. CASE ReserveChanges
    <3>1. home.reserves \subseteq Reserves
      BY DEF Inv, RoomOK, BaseRoomAssumption
    <3> QED
      BY <2>3, <3>1 DEF ReserveChanges, Inv, RoomOK
  <2>4. CASE CalmsDown
    BY <2>4 DEF CalmsDown, Inv, RoomOK, Reserves
  <2>5. CASE \E r \in topic : RequestExpires(r)
    BY <2>5 DEF RequestExpires, Inv, RoomOK
  <2> QED
    BY <2>1, <2>2, <2>3, <2>4, <2>5 DEF RoomStep
<1> QED
  BY <1>1, <1>2 DEF Inv

(* A new base *)
LEMMA InitInv ==
  ASSUME BaseRoomAssumption, Init
  PROVE  Inv
<1>1. RoomOK
  BY DEF Init, RoomOK, Reserves
<1>2. CreepsOK
  BY Freshness DEF Init, CreepsOK, Empty
<1>3. \A c \in Distributors : memory[c] = Fresh /\ cargo[c] = Empty
  BY DEF Init
<1>4. Single(Empty)
  BY DEF Single, Loaded, Empty
<1>5. InTrees
  BY <1>3, <1>4, Starting DEF InTrees, View
<1> QED
  BY <1>1, <1>2, <1>5 DEF Inv

-----------------------------------------------------------------------------
(* The requests on the topic are about objects of the base, and whatever a   *)
(* distributor remembers and carries fits the place in its tree at which its *)
(* next run goes on, whoever ran in between.                                 *)
THEOREM StaysInTree == Spec => []Inv
<1>1. Init => Inv
  BY InitInv, BaseRoomAssumption
<1>2. Inv /\ [Next]_vars => Inv'
  <2>1. ASSUME Inv, UNCHANGED vars
        PROVE  Inv'
    <3>1. CreepsOK' /\ InTrees'
      BY <2>1, Resting DEF vars
    <3> QED
      BY <2>1, <3>1 DEF Inv, RoomOK, vars, room
  <2> QED
    BY <2>1, LinksKeepInv, TowersKeepInv, DistributorsKeepInv, RoomKeepsInv, BaseRoomAssumption
    DEF Next
<1> QED
  BY <1>1, <1>2, PTL DEF Spec

(* NeverMixed: no distributor ever carries two resources.                    *)
THEOREM CarriesOne == Spec => []NeverMixed
<1>1. Inv => NeverMixed
  <2> SUFFICES ASSUME Inv, NEW c \in alive
               PROVE  Cardinality(Loaded(cargo[c])) <= 1
    BY DEF NeverMixed
  <2>1. c \in Distributors
    BY DEF Inv, CreepsOK
  <2>2. Single(cargo[c])
    BY <2>1 DEF Inv, InTrees, InTree, Fits, View
  <2>3. CASE Loaded(cargo[c]) = {}
    BY <2>3, FS_EmptySet
  <2>4. CASE Loaded(cargo[c]) # {}
    <3>1. PICK r : Loaded(cargo[c]) = {r}
      BY <2>2, <2>4 DEF Single
    <3>2. Cardinality({r}) = 1
      BY FS_Singleton
    <3> QED
      BY <3>1, <3>2
  <2> QED
    BY <2>3, <2>4
<1> QED
  BY <1>1, StaysInTree, PTL
=============================================================================

--------------------------- MODULE HaulingProofs ---------------------------
(* What holds of hauling for any bases, pickups and creeps of any capacity:  *)
(* creeps follow paths to where they go, and a full load is delivered.       *)
(*                                                                           *)
(* The first part is a set of proof rules for behaviour trees: a child at a  *)
(* time, from the states a composite may be ticked in to the outcomes it may *)
(* have.  The second goes through the leaves, and the third up the two trees *)
(* by these rules; the index a composite saves is the place it goes on at,   *)
(* and what is known of the creep differs from place to place.  The last     *)
(* part is the invariant: each creep's memory fits its place in its tree.    *)
EXTENDS Hauling, FiniteSetTheorems, TLAPS

(* An outcome of composite id after k children: it is in Out, or the         *)
(* composite passed on to child k in a state of G whose saved index is due   *)
(* later, or now.                                                            *)
InTurn(n, id, stop, k, G, Out) ==
  \/ n \in Out
  \/ /\ n = [state |-> n.state, result |-> Passed, id |-> id, stop |-> stop, next |-> k]
     /\ n.state \in G /\ n.state.saved[id] >= k

(* All outcomes after k children *)
Turn(ns, id, stop, k, G, Out) == \A n \in ns : InTurn(n, id, stop, k, G, Out)

(* What an outcome o of child k must be: in Out where it ends the composite, *)
(* with the index saved where it is running, and otherwise a state of G in   *)
(* which the next child is due.                                              *)
AfterOk(o, id, stop, k, G, Out) ==
  /\ o = [state |-> o.state, result |-> o.result]
  /\ o.result # Passed
  /\ o.result \in {stop, Thrown} => o \in Out
  /\ o.result \notin {stop, Thrown} /\ o.result = Running =>
       [state |-> Saving(id, k, o.state), result |-> Running] \in Out
  /\ o.result \notin {stop, Thrown, Running} =>
       /\ Saving(id, k + 1, o.state) \in G
       /\ Saving(id, k + 1, o.state).saved[id] = k + 1

(* Child k, ticked in a state of G in which it is due, has such outcomes. *)
Serves(child, id, stop, k, G, Out) ==
  \A s \in G : s.saved[id] = k =>
    \A o \in child[Saving(id, 0, s)] : AfterOk(o, id, stop, k, G, Out)

(* Out holds results only, no composite that passed on. *)
Results(Out) == \A o \in Out : o.result # Passed

(* The index saved under id is a number. *)
Counts(G, id) == \A s \in G : s.saved[id] \in Nat

(* A composite whose saved index may be any starts with no child passed. *)
LEMMA StartRule ==
  ASSUME NEW id, NEW stop, NEW s, NEW G, NEW Out, s \in G, s.saved[id] \in Nat
  PROVE  Turn(Composite(id, stop, s), id, stop, 0, G, Out)
BY DEF Turn, InTurn, Composite

(* A child that serves takes its turn. *)
LEMMA ChildRule ==
  ASSUME NEW id, NEW stop, NEW k \in Nat, NEW G, NEW Out, NEW ns, NEW child,
         Turn(ns, id, stop, k, G, Out), Serves(child, id, stop, k, G, Out),
         Results(Out), Counts(G, id)
  PROVE  Turn(ns & child, id, stop, k + 1, G, Out)
<1>1. SUFFICES ASSUME NEW n \in ns, NEW m \in TickChild(n, child)
               PROVE  InTurn(m, id, stop, k + 1, G, Out)
  BY DEF Turn, &
<1>2. InTurn(n, id, stop, k, G, Out)
  BY DEF Turn
<1>3. CASE n \in Out
  <2>1. n.result # Passed
    BY <1>3 DEF Results
  <2> QED
    BY <2>1, <1>3, <1>1 DEF TickChild, InTurn
<1>4. CASE n \notin Out
  <2>1. /\ n = [state |-> n.state, result |-> Passed, id |-> id, stop |-> stop, next |-> k]
        /\ n.state \in G /\ n.state.saved[id] >= k /\ n.state.saved[id] \in Nat
    BY <1>4, <1>2 DEF InTurn, Counts
  <2>2. CASE n.state.saved[id] # k
    <3>1. m = [n EXCEPT !.next = @ + 1]
      BY <1>1, <2>1, <2>2 DEF TickChild
    <3> QED
      BY <3>1, <2>1, <2>2 DEF InTurn
  <2>3. CASE n.state.saved[id] = k
    <3>1. PICK o \in child[Saving(id, 0, n.state)] : m = AfterChild(n, o)
      BY <1>1, <2>1, <2>3 DEF TickChild
    <3>2. AfterOk(o, id, stop, k, G, Out)
      BY <2>1, <2>3 DEF Serves
    <3>3. CASE o.result \in {stop, Thrown}
      BY <3>1, <3>2, <3>3, <2>1 DEF AfterChild, AfterOk, InTurn
    <3>4. CASE o.result \notin {stop, Thrown} /\ o.result = Running
      <4>1. m = [o EXCEPT !.state = Saving(id, k, @)]
        BY <3>1, <3>4, <2>1 DEF AfterChild
      <4>2. m = [state |-> Saving(id, k, o.state), result |-> Running]
        BY <4>1, <3>2, <3>4 DEF AfterOk
      <4> QED
        BY <4>2, <3>2, <3>4 DEF AfterOk, InTurn
    <3>5. CASE o.result \notin {stop, Thrown, Running}
      <4>1. n.id = id /\ n.next = k
        BY <2>1
      <4>2. ASSUME NEW x, NEW s
            PROVE  [[n EXCEPT !.next = x] EXCEPT !.state = s] =
                     [state |-> s, result |-> Passed, id |-> id, stop |-> stop, next |-> x]
        <5>1. PICK y : n = [state |-> y, result |-> Passed, id |-> id, stop |-> stop, next |-> k]
          BY <2>1
        <5>2. [n EXCEPT !.next = x] =
                [state |-> y, result |-> Passed, id |-> id, stop |-> stop, next |-> x]
          BY <5>1
        <5>3. \A r : r = [state |-> y, result |-> Passed, id |-> id, stop |-> stop, next |-> x] =>
                     [r EXCEPT !.state = s] =
                       [state |-> s, result |-> Passed, id |-> id, stop |-> stop, next |-> x]
          OBVIOUS
        <5> QED
          BY <5>2, <5>3
      <4>3. m = [[n EXCEPT !.next = @ + 1] EXCEPT !.state = Saving(n.id, n.next + 1, o.state)]
        BY <3>1, <3>5, <2>1 DEF AfterChild
      <4>4. m = [state |-> Saving(id, k + 1, o.state), result |-> Passed, id |-> id,
                 stop |-> stop, next |-> k + 1]
        BY <4>1, <4>2, <4>3
      <4> QED
        BY <4>4, <3>2, <3>5 DEF AfterOk, InTurn
    <3> QED
      BY <3>3, <3>4, <3>5
  <2> QED
    BY <2>2, <2>3
<1> QED
  BY <1>3, <1>4

(* When every child has had its turn, the outcomes are in Out, given that    *)
(* those are which no child stopped.                                         *)
LEMMA EndRule ==
  ASSUME NEW id, NEW stop, NEW k \in Nat, NEW G, NEW Out, NEW ns,
         Turn(ns, id, stop, k, G, Out), Results(Out),
         \A s \in G : s.saved[id] >= k =>
           [state |-> Saving(id, 0, s), result |-> IF stop = Failure THEN Success ELSE Failure] \in Out
  PROVE  \A o \in Tick(ns) : o \in Out
BY DEF Turn, InTurn, Tick, Exhausted, Results

-----------------------------------------------------------------------------
(* Leaves *)

(* Everything but what is saved is the same in s and t. *)
SameButSaved(s, t) ==
  /\ t.task = s.task /\ t.dest = s.dest /\ t.path = s.path /\ t.at = s.at
  /\ t.cargo = s.cargo /\ t.content = s.content /\ t.open = s.open
  /\ t.expiring = s.expiring /\ t.need = s.need /\ t.site = s.site
  /\ t.blocked = s.blocked

(* No other index than that of id is saved. *)
Alone(id, s) == \A n \in Nodes \ {id} : s.saved[n] = 0

(* t is s after index i has been saved under id. *)
Saved(id, i, s, t) ==
  /\ t \in States /\ t.saved[id] = i
  /\ Alone(id, s) => Alone(id, t)
  /\ SameButSaved(s, t)

(* Saving an index changes this index only. *)
LEMMA SavingIndex ==
  ASSUME NEW s \in States, NEW id \in Nodes, NEW i \in Nat
  PROVE  /\ Saved(id, i, s, Saving(id, i, s))
         /\ \A n \in Nodes : n # id => Saving(id, i, s).saved[n] = s.saved[n]
<1>1. s.saved \in [Nodes -> Nat]
  BY DEF States
<1>2. [s.saved EXCEPT ![id] = i] \in [Nodes -> Nat]
  BY <1>1
<1>3. Saving(id, i, s) = [s EXCEPT !.saved = [s.saved EXCEPT ![id] = i]]
  BY DEF Saving
<1> QED
  BY <1>1, <1>2, <1>3 DEF States, SameButSaved, Saved, Alone

(* An outcome of a leaf or tree: a state again, and not passed *)
Outcomes == [state : States, result : {Running, Success, Failure}]

(* What a movement from s to d may lead to                                   *)
Moved(o, s, d) ==
  /\ o \in Outcomes
  /\ o.state.saved = s.saved /\ o.state.task = s.task /\ o.state.dest = s.dest
  /\ o.state.cargo = s.cargo /\ o.state.content = s.content
  /\ o.state.need = s.need /\ o.state.site = s.site /\ o.state.blocked = s.blocked
  /\ o.state.path \in {None, s.path, d}
  /\ ~s.blocked /\ o.result = Failure => o.state.path = None

(* A walk, by whatever path, never arrives in this tick.  When nothing       *)
(* blocks a creep that has no path to anywhere else it does not fail.        *)
LEMMA OnTheWay ==
  ASSUME NEW s \in States, NEW d \in Objects \cup {"room"}, NEW o \in Walk(s, d)
  PROVE  /\ Moved(o, s, d)
         /\ o.result # Success
         /\ ~s.blocked /\ s.path \in {None, d} /\ d # "room" /\ s.at # d => o.result = Running
<1>1. CASE s.blocked /\ o = [state |-> [s EXCEPT !.path = d], result |-> Failure]
  <2>1. [s EXCEPT !.path = d] \in States
    BY DEF States
  <2>2. o \in Outcomes
    BY <1>1, <2>1 DEF Outcomes
  <2> QED
    BY <1>1, <2>2 DEF Moved, States, Running, Success, Failure
<1>2. CASE \E path \in Paths(s, d) :
             o \in IF AtEnd(s.at, path) THEN Ends(NoPath(s), Failure)
                   ELSE IF ~s.blocked THEN Ends([s EXCEPT !.path = path, !.at = End(path)], Running)
                   ELSE Ends([s EXCEPT !.path = path], Running)
                          \cup Ends(NoPath(s), Running) \cup Ends(NoPath(s), Failure)
  <2>1. PICK path \in Paths(s, d) :
          o \in IF AtEnd(s.at, path) THEN Ends(NoPath(s), Failure)
                ELSE IF ~s.blocked THEN Ends([s EXCEPT !.path = path, !.at = End(path)], Running)
                ELSE Ends([s EXCEPT !.path = path], Running)
                       \cup Ends(NoPath(s), Running) \cup Ends(NoPath(s), Failure)
    BY <1>2
  <2>2. /\ path \in {d, s.path} /\ path \in Objects \cup {"room"}
        /\ s.path \in {None, d} => path = d
    BY <2>1 DEF Paths, States
  <2>3. CASE o = [state |-> NoPath(s), result |-> Failure] /\ (AtEnd(s.at, path) \/ s.blocked)
    <3>1. NoPath(s) \in States
      BY DEF States, NoPath
    <3>2. o \in Outcomes
      BY <2>3, <3>1 DEF Outcomes
    <3> QED
      BY <2>2, <2>3, <3>2 DEF Moved, NoPath, AtEnd, States, Running, Success, Failure
  <2>4. CASE o = [state |-> NoPath(s), result |-> Running]
    <3>1. NoPath(s) \in States
      BY DEF States, NoPath
    <3>2. o \in Outcomes
      BY <2>4, <3>1 DEF Outcomes
    <3> QED
      BY <2>4, <3>2 DEF Moved, NoPath, States, Running, Success, Failure
  <2>5. CASE o = [state |-> [s EXCEPT !.path = path], result |-> Running]
    <3>1. [s EXCEPT !.path = path] \in States
      BY <2>2 DEF States
    <3>2. o \in Outcomes
      BY <2>5, <3>1 DEF Outcomes
    <3> QED
      BY <2>2, <2>5, <3>2 DEF Moved, States, Running, Success, Failure
  <2>6. CASE o = [state |-> [s EXCEPT !.path = path, !.at = End(path)], result |-> Running]
    <3>1. [s EXCEPT !.path = path, !.at = End(path)] \in States
      BY <2>2 DEF States, End
    <3>2. o \in Outcomes
      BY <2>6, <3>1 DEF Outcomes
    <3> QED
      BY <2>2, <2>6, <3>2 DEF Moved, States, Running, Success, Failure
  <2> QED
    BY <2>1, <2>3, <2>4, <2>5, <2>6 DEF Ends
<1> QED
  BY <1>1, <1>2 DEF Walk, Ends

(* A movement that has arrived leaves no path behind. *)
LEMMA Approach ==
  ASSUME NEW s \in States, NEW d \in Objects \cup {None}, NEW found \in BOOLEAN,
         NEW o \in MoveTo(s, d, found)
  PROVE  /\ Moved(o, s, d)
         /\ o.result = Success => o.state.path = None /\ found
         /\ ~s.blocked /\ s.path \in {None, d} /\ d \notin {None, "room"} /\ found =>
              o.result # Failure
<1>1. NoPath(s) \in States
  BY DEF States, NoPath
<1>2. CASE o \in Ends(NoPath(s), Failure) /\ (d = None \/ ~found)
  <2>1. o \in Outcomes
    BY <1>2, <1>1 DEF Outcomes, Ends
  <2> QED
    BY <1>2, <2>1 DEF Moved, NoPath, Ends, States, Success, Failure
<1>3. CASE o \in Ends(NoPath(s), Success) /\ found
  <2>1. o \in Outcomes
    BY <1>3, <1>1 DEF Outcomes, Ends
  <2> QED
    BY <1>3, <2>1 DEF Moved, NoPath, Ends, States, Success, Failure
<1>4. CASE o \in Walk(s, d) /\ d # None /\ s.at # d
  <2>1. d \in Objects \cup {"room"}
    BY <1>4
  <2>2. /\ Moved(o, s, d) /\ o.result # Success
        /\ ~s.blocked /\ s.path \in {None, d} /\ d # "room" /\ s.at # d => o.result = Running
    BY <1>4, <2>1, OnTheWay
  <2> QED
    BY <1>4, <2>2 DEF Running, Success, Failure
<1> QED
  BY <1>2, <1>3, <1>4 DEF MoveTo

(* What else a leaf does to the state of a creep: it has no part in its way. *)
Did(o, s) ==
  /\ o \in Outcomes
  /\ o.state.saved = s.saved /\ o.state.path = s.path /\ o.state.blocked = s.blocked

(* A leaf that changes nothing *)
LEMMA Stays ==
  ASSUME NEW s \in States, NEW r \in {Running, Success, Failure}, NEW o \in Ends(s, r)
  PROVE  Did(o, s) /\ o.state = s /\ o.result = r
BY DEF Ends, Did, Outcomes

(* A leaf that ends in one way *)
LEMMA Does ==
  ASSUME NEW s \in States, NEW t \in States, NEW r \in {Running, Success, Failure},
         NEW o \in Ends(t, r), t.saved = s.saved, t.path = s.path, t.blocked = s.blocked
  PROVE  Did(o, s) /\ o.state = t /\ o.result = r
BY DEF Ends, Did, Outcomes

(* The lesser of two numbers *)
LEMMA MinOfTwo ==
  ASSUME NEW a \in Int, NEW b \in Int
  PROVE  Min({a, b}) \in {a, b} /\ Min({a, b}) <= a /\ Min({a, b}) <= b
BY DEF Min

(* clear_haul_task *)
LEMMA Clearing ==
  ASSUME NEW s \in States, NEW o \in ClearHaulTask[s]
  PROVE  Did(o, s) /\ o.result = Success /\ o.state.cargo = s.cargo
<1>1. Forget(s) \in States /\ Forget(s).saved = s.saved /\ Forget(s).path = s.path
      /\ Forget(s).blocked = s.blocked /\ Forget(s).cargo = s.cargo
  BY DEF Forget, States
<1> QED
  BY <1>1, Does DEF ClearHaulTask

(* pick_haul_task takes no load and no path. *)
LEMMA Picking ==
  ASSUME NEW s \in States, NEW o \in PickHaulTask[s]
  PROVE  Did(o, s) /\ o.result \in {Success, Failure} /\ o.state.cargo = s.cargo
<1>1. o \in TakeTask(s)
  BY DEF PickHaulTask
<1>2. CASE o \in Ends(s, Failure)
  BY <1>2, Stays DEF Running, Success, Failure
<1>3. ASSUME NEW p \in Pickups, s.open[p] > 0,
             o \in Ends([[s EXCEPT !.task = p] EXCEPT !.open[p] = @ - 1], Success)
      PROVE  Did(o, s) /\ o.result = Success /\ o.state.cargo = s.cargo
  <2> DEFINE t == [s EXCEPT !.task = p, !.open = [s.open EXCEPT ![p] = s.open[p] - 1]]
  <2>1. [s.open EXCEPT ![p] = s.open[p] - 1] \in [Pickups -> Nat]
    BY <1>3 DEF States
  <2>2. t \in States /\ t.saved = s.saved /\ t.path = s.path /\ t.blocked = s.blocked
        /\ t.cargo = s.cargo
    BY <2>1 DEF States
  <2>3. o \in Ends(t, Success)
    BY <1>3 DEF States
  <2> HIDE DEF t
  <2> QED
    BY <2>2, <2>3, Does
<1>4. ASSUME NEW p \in Pickups, s.expiring[p] > 0,
             o \in Ends([[s EXCEPT !.task = p] EXCEPT !.expiring[p] = @ - 1], Success)
      PROVE  Did(o, s) /\ o.result = Success /\ o.state.cargo = s.cargo
  <2> DEFINE t == [s EXCEPT !.task = p, !.expiring = [s.expiring EXCEPT ![p] = s.expiring[p] - 1]]
  <2>1. [s.expiring EXCEPT ![p] = s.expiring[p] - 1] \in [Pickups -> Nat]
    BY <1>4 DEF States
  <2>2. t \in States /\ t.saved = s.saved /\ t.path = s.path /\ t.blocked = s.blocked
        /\ t.cargo = s.cargo
    BY <2>1 DEF States
  <2>3. o \in Ends(t, Success)
    BY <1>4 DEF States
  <2> HIDE DEF t
  <2> QED
    BY <2>2, <2>3, Does
<1> QED
  BY <1>1, <1>2, <1>3, <1>4 DEF TakeTask

(* parking_lot fails. *)
LEMMA Parking ==
  ASSUME NEW s \in States, NEW o \in ParkingLot[s]
  PROVE  Did(o, s) /\ o.result = Failure /\ o.state.cargo = s.cargo
<1>1. o \in Ends(IF s.blocked THEN s ELSE [s EXCEPT !.at = "inside"], Failure)
  BY DEF ParkingLot, Park
<1>2. [s EXCEPT !.at = "inside"] \in States
  BY DEF States
<1> QED
  BY <1>1, <1>2, Does, Stays DEF States

(* What is found is a pickup. *)
LEMMA Finding ==
  ASSUME HaulingAssumption, NEW s \in States, NEW found \in Found(s.task, s)
  PROVE  found \in BOOLEAN /\ (found => s.task \in Pickups)
<1>1. CASE s.task = None
  <2>1. None \notin Piles /\ None \notin Graves
    BY DEF HaulingAssumption, Objects, Pickups
  <2>2. found = FALSE
    BY <1>1, <2>1, Zenon DEF Found
  <2> QED
    BY <2>2
<1>2. CASE s.task # None
  <2>1. s.task \in Pickups
    BY <1>2 DEF States
  <2>2. found \in {s.content[s.task] > 0, TRUE}
    <3>1. CASE s.task \in Piles
      BY <1>2, <3>1, Zenon DEF Found
    <3>2. CASE s.task \in Graves /\ s.task \notin Piles
      BY <1>2, <3>2, Zenon DEF Found
    <3>3. CASE s.task \notin Graves /\ s.task \notin Piles
      BY <1>2, <3>3, Zenon DEF Found
    <3> QED
      BY <3>1, <3>2, <3>3
  <2>3. (s.content[s.task] > 0) \in BOOLEAN
    OBVIOUS
  <2> QED
    BY <2>1, <2>2, <2>3
<1> QED
  BY <1>1, <1>2

(* load_resource: a full creep loads nothing and is done. *)
LEMMA Loading ==
  ASSUME HaulingAssumption, NEW s \in States, NEW o \in LoadResource[s]
  PROVE  /\ Did(o, s) /\ o.state.task = s.task
         /\ s.cargo = Capacity => o.state = s /\ o.result = Success
<1>1. PICK found \in Found(s.task, s) : o \in Load(s, found)
  BY DEF LoadResource
<1>2. Capacity \in Nat /\ s.cargo \in 0..Capacity /\ Free(s) \in Int
  BY DEF HaulingAssumption, States, Free
<1>3. CASE o \in Ends(s, Success) \/ (o \in Ends(s, Failure) /\ Free(s) # 0)
  BY <1>2, <1>3, Stays DEF Free
<1>4. ASSUME Free(s) # 0, found,
             o \in Ends(Loaded(s, Min({Free(s), s.content[s.task]})), Running)
      PROVE  Did(o, s) /\ o.state.task = s.task
  <2> DEFINE p == s.task
             n == Min({Free(s), s.content[p]})
             t == [s EXCEPT !.cargo = s.cargo + n, !.content = [s.content EXCEPT ![p] = s.content[p] - n]]
  <2>1. p \in Pickups
    BY <1>1, <1>4, Finding
  <2>2. p \in Pickups /\ s.content[p] \in Nat /\ s.content[p] \in Int
    BY <2>1 DEF States
  <2>3. n \in Int /\ 0 <= n /\ n <= Free(s) /\ n <= s.content[p]
    <3>1. 0 <= Free(s)
      BY <1>2 DEF Free
    <3>2. n \in {Free(s), s.content[p]} /\ n <= Free(s) /\ n <= s.content[p]
      BY <1>2, <2>2, MinOfTwo, Zenon
    <3> QED
      BY <1>2, <2>2, <3>1, <3>2
  <2> HIDE DEF n
  <2>4. [s.content EXCEPT ![p] = s.content[p] - n] \in [Pickups -> Nat]
    BY <2>2, <2>3 DEF States
  <2>5. s.cargo + n \in 0..Capacity
    BY <1>2, <2>3 DEF Free
  <2>6. t \in States /\ t.saved = s.saved /\ t.path = s.path /\ t.blocked = s.blocked
        /\ t.task = s.task
    BY <2>4, <2>5 DEF States
  <2>7. o \in Ends(Loaded(s, n), Running)
    BY <1>4 DEF n
  <2>8. Loaded(s, n) = t
    BY DEF Loaded, States
  <2> HIDE DEF t
  <2> QED
    BY <2>6, <2>7, <2>8, Does
<1> QED
  <2>1. found \in BOOLEAN
    BY <1>1, Finding
  <2> QED
    BY <1>1, <1>2, <1>3, <1>4, <2>1 DEF Load, Free

(* empty_creep: where there is a storage it takes all of a load. *)
LEMMA Emptying ==
  ASSUME HaulingAssumption, NEW s \in States, NEW o \in EmptyCreep[s]
  PROVE  /\ Did(o, s) /\ o.result \in {Success, Failure}
         /\ Dropoff # None /\ s.cargo # 0 => o.result = Success /\ o.state.cargo = 0
<1>1. o \in Unload(s)
  BY DEF EmptyCreep
<1>2. CASE o \in Ends(s, Failure) /\ (Dropoff = None \/ s.cargo = 0)
  BY <1>2, Stays
<1>3. CASE o \in Ends([s EXCEPT !.cargo = 0], Success)
  <2>1. [s EXCEPT !.cargo = 0] \in States
    BY DEF States, HaulingAssumption
  <2> QED
    BY <1>3, <2>1, Does DEF States
<1> QED
  BY <1>1, <1>2, <1>3 DEF Unload

(* fail_when_empty and succeed_when_empty *)
LEMMA Checking ==
  ASSUME NEW s \in States
  PROVE  /\ \A o \in FailWhenEmpty[s] :
              Did(o, s) /\ o.state = s /\ o.result = IF s.cargo > 0 THEN Success ELSE Failure
         /\ \A o \in SucceedWhenEmpty[s] :
              Did(o, s) /\ o.state = s /\ o.result = IF s.cargo = 0 THEN Success ELSE Failure
<1>1. ASSUME NEW P \in BOOLEAN, NEW o \in Holds(s, P)
      PROVE  Did(o, s) /\ o.state = s /\ o.result = IF P THEN Success ELSE Failure
  BY <1>1, Stays DEF Holds
<1>2. ASSUME NEW o \in FailWhenEmpty[s]
      PROVE  Did(o, s) /\ o.state = s /\ o.result = IF s.cargo > 0 THEN Success ELSE Failure
  <2>1. o \in Holds(s, s.cargo > 0)
    BY <1>2 DEF FailWhenEmpty
  <2>2. CASE s.cargo > 0
    BY <1>1, <2>1, <2>2 DEF Holds
  <2>3. CASE ~(s.cargo > 0)
    BY <1>1, <2>1, <2>3 DEF Holds
  <2> QED
    BY <2>2, <2>3
<1>3. ASSUME NEW o \in SucceedWhenEmpty[s]
      PROVE  Did(o, s) /\ o.state = s /\ o.result = IF s.cargo = 0 THEN Success ELSE Failure
  <2>1. o \in Holds(s, s.cargo = 0)
    BY <1>3 DEF SucceedWhenEmpty
  <2>2. CASE s.cargo = 0
    BY <1>1, <2>1, <2>2 DEF Holds
  <2>3. CASE s.cargo # 0
    BY <1>1, <2>1, <2>3 DEF Holds
  <2> QED
    BY <2>2, <2>3
<1> QED
  BY <1>2, <1>3

(* pick_dropoff *)
LEMMA PickingDropoff ==
  ASSUME NEW s \in States, NEW o \in PickDropoff[s]
  PROVE  /\ Did(o, s) /\ o.result \in {Success, Failure} /\ o.state.cargo = s.cargo
         /\ o.result = Success => o.state.dest = "spawn"
<1>1. [s EXCEPT !.dest = "spawn"] \in States
  BY DEF States, Structures
<1> QED
  BY <1>1, Does, Stays DEF PickDropoff, SelectDropoff, States, Success, Failure

(* empty_to_destination: who carries something does not fail. *)
LEMMA Filling ==
  ASSUME HaulingAssumption, NEW s \in States, NEW o \in EmptyToDestination[s]
  PROVE  /\ Did(o, s) /\ o.result \in {Success, Failure}
         /\ s.cargo # 0 => o.result = Success
<1> DEFINE n == Min({s.cargo, s.need})
           t == [s EXCEPT !.cargo = s.cargo - n, !.need = s.need - n]
<1>1. o \in Fill(s)
  BY DEF EmptyToDestination
<1>2. CASE o \in Ends(s, Failure) /\ s.cargo = 0
  BY <1>2, Stays
<1>3. CASE o \in Ends([s EXCEPT !.cargo = @ - n, !.need = @ - n], Success)
  <2>1. s.cargo \in 0..Capacity /\ s.need \in Nat /\ Capacity \in Nat
    BY DEF States, HaulingAssumption
  <2>2. n \in Int /\ 0 <= n /\ n <= s.cargo /\ n <= s.need
    <3>1. s.cargo \in Int /\ s.need \in Int
      BY <2>1
    <3>2. n \in {s.cargo, s.need} /\ n <= s.cargo /\ n <= s.need
      BY <3>1, MinOfTwo, Zenon
    <3> QED
      BY <2>1, <3>2
  <2> HIDE DEF n
  <2>5. s.cargo - n \in 0..Capacity /\ s.need - n \in Nat
    BY <2>1, <2>2
  <2>3. t \in States /\ t.saved = s.saved /\ t.path = s.path /\ t.blocked = s.blocked
    BY <2>5 DEF States
  <2>4. o \in Ends(t, Success)
    BY <1>3 DEF States
  <2> HIDE DEF t
  <2> QED
    BY <2>3, <2>4, Does
<1> QED
  BY <1>1, <1>2, <1>3 DEF Fill

(* pick_site *)
LEMMA PickingSite ==
  ASSUME NEW s \in States, NEW o \in PickSite[s]
  PROVE  /\ Did(o, s) /\ o.result \in {Success, Failure} /\ o.state.cargo = s.cargo
         /\ o.result = Success => o.state.dest = "site"
<1>1. [s EXCEPT !.dest = "site"] \in States
  BY DEF States, Structures
<1> QED
  BY <1>1, Does, Stays DEF PickSite, SelectSite, States, Success, Failure

(* pick_controller *)
LEMMA PickingController ==
  ASSUME NEW s \in States, NEW o \in PickController[s]
  PROVE  /\ Did(o, s) /\ o.result = Success /\ o.state.cargo = s.cargo
         /\ o.state.dest = "controller"
<1>1. [s EXCEPT !.dest = "controller"] \in States
  BY DEF States, Structures
<1> QED
  BY <1>1, Does DEF PickController, States

(* build: a creep that goes on building has given from its load. *)
LEMMA UsingOnSite ==
  ASSUME HaulingAssumption, NEW s \in States, NEW o \in BuildIt[s]
  PROVE  /\ Did(o, s) /\ o.state.dest = s.dest /\ o.result \in {Running, Success}
         /\ o.result = Running => o.state.cargo < Capacity
         /\ o.result = Success => ~s.site \/ s.cargo = 0
<1>1. o \in Build(s)
  BY DEF BuildIt
<1>2. s.cargo \in 0..Capacity /\ Capacity \in Nat
  BY DEF States, HaulingAssumption
<1>3. CASE o \in Ends(s, Success) /\ (~s.site \/ s.cargo = 0)
  BY <1>3, Stays DEF Running, Success, Failure
<1>4. ASSUME s.cargo # 0, NEW left \in BOOLEAN,
             o \in Ends([Used(s) EXCEPT !.site = left], Running)
      PROVE  Did(o, s) /\ o.state.dest = s.dest /\ o.result = Running /\ o.state.cargo < Capacity
  <2> DEFINE t == [s EXCEPT !.cargo = s.cargo - 1, !.site = left]
  <2>3. s.cargo - 1 \in 0..Capacity /\ s.cargo - 1 < Capacity
    BY <1>2, <1>4
  <2>1. t \in States /\ t.saved = s.saved /\ t.path = s.path /\ t.blocked = s.blocked
        /\ t.dest = s.dest /\ t.cargo < Capacity
    BY <2>3 DEF States
  <2>2. o \in Ends(t, Running)
    BY <1>4 DEF Used, States
  <2> HIDE DEF t
  <2> QED
    BY <2>1, <2>2, Does
<1> QED
  BY <1>1, <1>3, <1>4 DEF Build, Running, Success

(* upgrade_controller, likewise *)
LEMMA UsingOnController ==
  ASSUME HaulingAssumption, NEW s \in States, NEW o \in UpgradeIt[s]
  PROVE  /\ Did(o, s) /\ o.state.dest = s.dest /\ o.result \in {Running, Success}
         /\ o.result = Running => o.state.cargo < Capacity
         /\ o.result = Success => s.cargo = 0
<1>1. o \in Upgrade(s)
  BY DEF UpgradeIt
<1>2. s.cargo \in 0..Capacity /\ Capacity \in Nat
  BY DEF States, HaulingAssumption
<1>3. CASE o \in Ends(s, Success) /\ s.cargo = 0
  BY <1>3, Stays DEF Running, Success, Failure
<1>4. CASE o \in Ends(Used(s), Running) /\ s.cargo # 0
  <2> DEFINE t == [s EXCEPT !.cargo = s.cargo - 1]
  <2>1. t \in States /\ t.saved = s.saved /\ t.path = s.path /\ t.blocked = s.blocked
        /\ t.dest = s.dest /\ t.cargo < Capacity
    BY <1>2, <1>4 DEF States
  <2>2. o \in Ends(t, Running)
    BY <1>4 DEF Used, States
  <2> HIDE DEF t
  <2> QED
    BY <2>1, <2>2, Does DEF Running, Success
<1> QED
  BY <1>1, <1>3, <1>4 DEF Upgrade

-----------------------------------------------------------------------------
(* Trees *)

(* s and t differ in no saved index but that of id, and the creep stands as  *)
(* it stood.                                                                 *)
Beside(id, s, t) ==
  /\ \A n \in Nodes \ {id} : t.saved[n] = s.saved[n]
  /\ t.path = s.path /\ t.blocked = s.blocked /\ t.cargo = s.cargo

(* What pick_something may lead to from s *)
PickOut(s) ==
  {o \in Outcomes :
     /\ o.result \in {Success, Failure}
     /\ Beside("pick_something", s, o.state) /\ o.state.saved["pick_something"] = 0}

(* The choice of a task leaves the creep where it is. *)
LEMMA PickingSomething ==
  ASSUME NEW s \in States
  PROVE  \A o \in PickSomething[s] : o \in PickOut(s)
<1> DEFINE id == "pick_something"
           G == {t \in States : Beside(id, s, t)}
           Out == PickOut(s)
           n0 == Composite(id, Success, s)
           n1 == n0 & PickHaulTask
           n2 == n1 & ParkingLot
<1>1. id \in Nodes
  BY DEF Nodes
<1>2. Results(Out) /\ Counts(G, id)
  BY <1>1 DEF Results, Counts, PickOut, Passed, Success, Failure, States
<1>3. ASSUME NEW k \in Nat, NEW t \in G,
             NEW p \in PickHaulTask[Saving(id, 0, t)] \cup ParkingLot[Saving(id, 0, t)]
      PROVE  AfterOk(p, id, Success, k, G, Out)
  <2> DEFINE r == Saving(id, 0, t)
  <2>2. r \in States /\ r.saved[id] = 0 /\ Beside(id, s, r)
    BY <1>1, SavingIndex DEF Beside, SameButSaved, Saved
  <2>3. Did(p, r) /\ p.result \in {Success, Failure} /\ p.state.cargo = r.cargo
    BY <1>3, <2>2, Picking, Parking
  <2>4. p \in Outcomes /\ p.state \in States /\ Beside(id, s, p.state) /\ p.state.saved[id] = 0
    BY <2>2, <2>3 DEF Did, Outcomes, Beside
  <2>5. Saving(id, k + 1, p.state) \in G /\ Saving(id, k + 1, p.state).saved[id] = k + 1
    BY <1>1, <2>4, SavingIndex DEF Beside, SameButSaved, Saved
  <2>6. p \in Out /\ p.result # Running
    BY <2>3, <2>4 DEF PickOut, Running, Success, Failure
  <2> QED
    BY <2>4, <2>5, <2>6 DEF AfterOk, Outcomes, Passed, Thrown, Running, Success, Failure
<1>4. Serves(PickHaulTask, id, Success, 0, G, Out) /\ Serves(ParkingLot, id, Success, 1, G, Out)
  BY <1>3 DEF Serves
<1>5. \A t \in G : [state |-> Saving(id, 0, t), result |-> Failure] \in Out
  BY <1>1, SavingIndex DEF PickOut, Outcomes, Beside, SameButSaved, Saved
<1>6. s \in G /\ s.saved[id] \in Nat
  BY <1>1 DEF Beside, States
<1> HIDE DEF G, Out, id
<1>7. Turn(n0, id, Success, 0, G, Out)
  BY <1>6, StartRule
<1>8. Turn(n1, id, Success, 1, G, Out)
  BY <1>2, <1>4, <1>7, ChildRule
<1>9. Turn(n2, id, Success, 2, G, Out)
  BY <1>2, <1>4, <1>8, ChildRule
<1>10. \A o \in Tick(n2) : o \in Out
  BY <1>2, <1>5, <1>9, EndRule DEF Success, Failure
<1> QED
  BY <1>10 DEF PickSomething, SelectorNode, Out, id

(* Where a creep that has fetched may be led *)
Delivery == {None} \cup Structures

(* A creep with energy to use is in a movement to where its path leads, or   *)
(* has none.                                                                 *)
Led(s) ==
  s.path # None =>
    /\ s.path = s.dest
    /\ \/ s.saved["dump_energy"] = 2 \/ s.saved["build_construction_site"] = 1
       \/ s.saved["upgrade_controller"] = 1

(* The parts of the tree of a worker that use up its energy.  brings says    *)
(* that it is full, that nothing blocks its way and that it is not misled.   *)
Dumping(s) ==
  /\ Alone("dump_energy", s) /\ s.saved["dump_energy"] \in 0..4
  /\ s.saved["dump_energy"] = 2 => s.dest = "spawn"
  /\ s.path \in Delivery

(* The states in which dump_energy may be ticked *)
DumpIn(brings) ==
  {s \in States :
     /\ Dumping(s)
     /\ brings => ~s.blocked /\ Led(s) /\ (s.saved["dump_energy"] # 4 => s.cargo = Capacity)}

(* and what it may lead to *)
DumpOut(brings) ==
  {o \in Outcomes :
     /\ Dumping(o.state)
     /\ o.state.saved["dump_energy"] = IF o.result = Running THEN 2 ELSE 0
     /\ brings => /\ ~o.state.blocked /\ Led(o.state)
                  /\ o.result = Success \/ o.state.cargo = Capacity}

(* dump_energy runs only on its way to a spawn, and succeeds with a part of  *)
(* the load given.                                                           *)
LEMMA DumpingEnergy ==
  ASSUME HaulingAssumption, NEW brings \in BOOLEAN, NEW s \in DumpIn(brings)
  PROVE  \A o \in DumpEnergy[s] : o \in DumpOut(brings)
<1> DEFINE id == "dump_energy"
           G == DumpIn(brings)
           Out == DumpOut(brings)
           n0 == Composite(id, Failure, s)
           n1 == n0 & FailWhenEmpty
           n2 == n1 & PickDropoff
           n3 == n2 & MoveToDestination
           n4 == n3 & EmptyToDestination
<1>1. id \in Nodes
  BY DEF Nodes
<1>2. Results(Out) /\ Counts(G, id)
  BY <1>1 DEF Results, Counts, DumpOut, DumpIn, Outcomes, Passed, Running, Success, Failure, States
<1>3. ASSUME NEW t \in G
      PROVE  /\ Saved(id, 0, t, Saving(id, 0, t)) /\ Alone(id, Saving(id, 0, t))
             /\ Saving(id, 0, t) \in States
             /\ t.path \in Delivery
             /\ brings => t.path \in {None, t.dest} /\ (t.saved[id] # 2 => t.path = None)
  <2>1. t \in States /\ Alone(id, t) /\ t.path \in Delivery
    BY DEF DumpIn, Dumping, Led
  <2>2. brings => Led(t)
    BY DEF DumpIn
  <2>3. Saved(id, 0, t, Saving(id, 0, t))
    BY <1>1, <2>1, SavingIndex
  <2>4. brings => t.path \in {None, t.dest} /\ (t.saved[id] # 2 => t.path = None)
    BY <2>1, <2>2 DEF Led, Alone, Nodes
  <2> QED
    BY <2>1, <2>3, <2>4 DEF Saved
<1>4. Serves(FailWhenEmpty, id, Failure, 0, G, Out)
  <2> SUFFICES ASSUME NEW t \in G, t.saved[id] = 0, NEW o \in FailWhenEmpty[Saving(id, 0, t)]
               PROVE  AfterOk(o, id, Failure, 0, G, Out)
    BY DEF Serves
  <2> DEFINE r == Saving(id, 0, t)
             q == o.state
  <2>1. Did(o, r) /\ o.state = r /\ o.result = IF r.cargo > 0 THEN Success ELSE Failure
    BY <1>3, Checking
  <2>2. /\ o \in Outcomes /\ q \in States /\ Alone(id, q) /\ q.saved[id] = 0
        /\ q.path \in Delivery /\ (brings => q.path = None) /\ q.blocked = t.blocked /\ q.cargo = t.cargo
    BY <1>3, <2>1 DEF Did, DumpIn, Dumping, Saved, SameButSaved, Led
  <2>3. brings => ~q.blocked /\ q.cargo = Capacity /\ o.result = Success
    BY <2>1, <2>2 DEF DumpIn, HaulingAssumption
  <2>4. o.result = Failure => o \in Out
    BY <2>2, <2>3 DEF DumpOut, Dumping, Running, Success, Failure, Led
  <2>5. Saved(id, 1, q, Saving(id, 1, q))
    BY <1>1, <2>2, SavingIndex
  <2>6. Saving(id, 1, q) \in G /\ Saving(id, 1, q).saved[id] = 1
    BY <2>2, <2>3, <2>5 DEF DumpIn, Dumping, Saved, SameButSaved, Led
  <2>7. o.result # Running
    BY <2>1 DEF Running, Success, Failure
  <2> HIDE DEF id, G, Out
  <2> QED
    BY <2>2, <2>4, <2>6, <2>7 DEF AfterOk, Outcomes, Passed, Thrown, Running, Success, Failure
<1>5. Serves(PickDropoff, id, Failure, 1, G, Out)
  <2> SUFFICES ASSUME NEW t \in G, t.saved[id] = 1, NEW o \in PickDropoff[Saving(id, 0, t)]
               PROVE  AfterOk(o, id, Failure, 1, G, Out)
    BY DEF Serves
  <2> DEFINE r == Saving(id, 0, t)
             q == o.state
  <2>1. /\ Did(o, r) /\ o.result \in {Success, Failure} /\ o.state.cargo = r.cargo
        /\ o.result = Success => o.state.dest = "spawn"
    BY <1>3, PickingDropoff
  <2>2. /\ o \in Outcomes /\ q \in States /\ Alone(id, q) /\ q.saved[id] = 0
        /\ q.path \in Delivery /\ (brings => q.path = None) /\ q.blocked = t.blocked /\ q.cargo = t.cargo
    BY <1>3, <2>1 DEF Did, DumpIn, Dumping, Saved, SameButSaved, Outcomes, Alone, Led
  <2>3. brings => ~q.blocked /\ q.cargo = Capacity
    BY <2>2 DEF DumpIn
  <2>4. o.result = Failure => o \in Out
    BY <2>2, <2>3 DEF DumpOut, Dumping, Running, Failure, Led
  <2>5. Saved(id, 2, q, Saving(id, 2, q))
    BY <1>1, <2>2, SavingIndex
  <2>6. o.result = Success => Saving(id, 2, q) \in G /\ Saving(id, 2, q).saved[id] = 2
    BY <2>1, <2>2, <2>3, <2>5 DEF DumpIn, Dumping, Saved, SameButSaved, Led
  <2>7. o.result # Running
    BY <2>1 DEF Running, Success, Failure
  <2> HIDE DEF id, G, Out
  <2> QED
    BY <2>1, <2>2, <2>4, <2>6, <2>7 DEF AfterOk, Outcomes, Passed, Thrown, Running, Success, Failure
<1>6. Serves(MoveToDestination, id, Failure, 2, G, Out)
  <2> SUFFICES ASSUME NEW t \in G, t.saved[id] = 2, NEW o \in MoveToDestination[Saving(id, 0, t)]
               PROVE  AfterOk(o, id, Failure, 2, G, Out)
    BY DEF Serves
  <2> DEFINE r == Saving(id, 0, t)
             q == o.state
  <2>1. r.dest = "spawn" /\ r.path \in Delivery /\ (brings => r.path \in {None, r.dest}) /\ r.dest \in Objects /\ r.dest # None
    BY <1>3 DEF DumpIn, Dumping, HaulingAssumption, Objects, Structures, Saved, SameButSaved, Led
  <2>2. o \in MoveTo(r, r.dest, TRUE)
    BY <1>3, <2>1 DEF MoveToDestination
  <2>3. /\ Moved(o, r, r.dest)
        /\ o.result = Success => o.state.path = None
        /\ brings => ~r.blocked /\ o.result # Failure
    <3>1. r.dest # "room"
      BY <2>1
    <3>2. r \in States /\ (brings => ~r.blocked)
      BY <1>3 DEF DumpIn, Saved, SameButSaved
    <3> HIDE DEF r
    <3> QED
      BY <2>1, <2>2, <3>1, <3>2, Approach
  <2>4. /\ o \in Outcomes /\ q \in States /\ Alone(id, q) /\ q.saved[id] = 0
        /\ q.path \in Delivery /\ (brings => q.path \in {None, q.dest}) /\ q.dest = "spawn"
        /\ q.blocked = t.blocked /\ q.cargo = t.cargo
        /\ brings /\ o.result = Failure => q.path = None
    BY <1>3, <2>1, <2>3 DEF Moved, Outcomes, Saved, SameButSaved, Alone, DumpIn, Delivery, Structures
  <2>5. /\ brings => ~q.blocked /\ q.cargo = Capacity
        /\ brings => o.result # Failure
    BY <1>3, <2>3, <2>4 DEF DumpIn, Saved, SameButSaved
  <2>6. o.result = Failure => o \in Out
    BY <2>4, <2>5 DEF DumpOut, Dumping, Running, Failure, Led
  <2>7. Saved(id, 2, q, Saving(id, 2, q)) /\ Saved(id, 3, q, Saving(id, 3, q))
    BY <1>1, <2>4, SavingIndex
  <2>8. o.result = Running => [state |-> Saving(id, 2, q), result |-> Running] \in Out
    BY <2>4, <2>5, <2>7 DEF DumpOut, Dumping, Outcomes, Saved, SameButSaved, Led
  <2>9. o.result = Success => Saving(id, 3, q) \in G /\ Saving(id, 3, q).saved[id] = 3
    BY <2>3, <2>4, <2>5, <2>7 DEF DumpIn, Dumping, Saved, SameButSaved, Led
  <2>10. o.result \notin {Failure, Running} => o.result = Success
    BY <2>4 DEF Outcomes
  <2> HIDE DEF id, G, Out
  <2> QED
    BY <2>4, <2>6, <2>8, <2>9, <2>10 DEF AfterOk, Outcomes, Passed, Thrown, Running, Success, Failure
<1>7. Serves(EmptyToDestination, id, Failure, 3, G, Out)
  <2> SUFFICES ASSUME NEW t \in G, t.saved[id] = 3, NEW o \in EmptyToDestination[Saving(id, 0, t)]
               PROVE  AfterOk(o, id, Failure, 3, G, Out)
    BY DEF Serves
  <2> DEFINE r == Saving(id, 0, t)
             q == o.state
  <2>1. Did(o, r) /\ o.result \in {Success, Failure} /\ (r.cargo # 0 => o.result = Success)
    BY <1>3, Filling
  <2>2. /\ o \in Outcomes /\ q \in States /\ Alone(id, q) /\ q.saved[id] = 0
        /\ q.path \in Delivery /\ (brings => q.path = None) /\ q.blocked = t.blocked
    BY <1>3, <2>1 DEF Did, DumpIn, Dumping, Saved, SameButSaved, Outcomes, Alone, Led
  <2>3. brings => ~q.blocked /\ o.result = Success
    BY <1>3, <2>1, <2>2 DEF DumpIn, Saved, SameButSaved, HaulingAssumption
  <2>4. o.result = Failure => o \in Out
    BY <2>2, <2>3 DEF DumpOut, Dumping, Running, Failure, Led
  <2>5. Saved(id, 4, q, Saving(id, 4, q))
    BY <1>1, <2>2, SavingIndex
  <2>6. Saving(id, 4, q) \in G /\ Saving(id, 4, q).saved[id] = 4
    BY <2>2, <2>3, <2>5 DEF DumpIn, Dumping, Saved, SameButSaved, Led
  <2>7. o.result # Running
    BY <2>1 DEF Running, Success, Failure
  <2> HIDE DEF id, G, Out
  <2> QED
    BY <2>2, <2>4, <2>6, <2>7 DEF AfterOk, Outcomes, Passed, Thrown, Running, Success, Failure
<1>8. ASSUME NEW t \in G, t.saved[id] >= 4
      PROVE  [state |-> Saving(id, 0, t), result |-> Success] \in Out
  <2>1. brings => t.path = None /\ ~t.blocked
    BY <1>3, <1>8 DEF DumpIn, Dumping, Led
  <2> QED
    BY <1>3, <2>1
    DEF DumpOut, Dumping, Outcomes, Saved, SameButSaved, Running, Success, Failure, Led
<1>9. s.saved[id] \in Nat
  BY <1>2 DEF Counts
<1> HIDE DEF G, Out, id
<1>10. Turn(n0, id, Failure, 0, G, Out)
  BY <1>9, StartRule DEF G
<1>11. Turn(n1, id, Failure, 1, G, Out)
  BY <1>2, <1>4, <1>10, ChildRule
<1>12. Turn(n2, id, Failure, 2, G, Out)
  BY <1>2, <1>5, <1>11, ChildRule
<1>13. Turn(n3, id, Failure, 3, G, Out)
  BY <1>2, <1>6, <1>12, ChildRule
<1>14. Turn(n4, id, Failure, 4, G, Out)
  BY <1>2, <1>7, <1>13, ChildRule
<1>15. \A o \in Tick(n4) : o \in Out
  BY <1>2, <1>8, <1>14, EndRule
<1> QED
  BY <1>15 DEF DumpEnergy, SequenceNode, Out, id, DumpIn

(* The places in build_construction_site, what it may be ticked in and what  *)
(* it may lead to                                                            *)
Building(s) ==
  /\ Alone("build_construction_site", s) /\ s.saved["build_construction_site"] \in 0..3
  /\ s.saved["build_construction_site"] = 1 => s.dest = "site"
  /\ s.path \in Delivery

BuildIn(brings) ==
  {s \in States :
     /\ Building(s)
     /\ brings => /\ ~s.blocked /\ Led(s) /\ s.cargo = Capacity
                  /\ s.saved["build_construction_site"] # 3
                  /\ s.saved["build_construction_site"] = 2 => s.site}

BuildOut(brings) ==
  {o \in Outcomes :
     /\ Building(o.state)
     /\ IF o.result = Running
        THEN /\ o.state.saved["build_construction_site"] \in {1, 2}
             /\ o.state.saved["build_construction_site"] = 2 => o.state.cargo < Capacity
        ELSE o.state.saved["build_construction_site"] = 0
     /\ brings => /\ ~o.state.blocked /\ Led(o.state) /\ o.result # Success
                  /\ o.result = Failure => o.state.cargo = Capacity}

(* build_construction_site runs on its way to a site or after it has built;  *)
(* with a full creep, the site there and nothing in its way it does not      *)
(* succeed before.                                                           *)
LEMMA BuildingSite ==
  ASSUME HaulingAssumption, NEW brings \in BOOLEAN, NEW s \in BuildIn(brings)
  PROVE  \A o \in BuildSite[s] : o \in BuildOut(brings)
<1> DEFINE id == "build_construction_site"
           G == BuildIn(brings)
           Out == BuildOut(brings)
           n0 == Composite(id, Failure, s)
           n1 == n0 & PickSite
           n2 == n1 & MoveToDestination
           n3 == n2 & BuildIt
<1>1. id \in Nodes
  BY DEF Nodes
<1>2. Results(Out) /\ Counts(G, id)
  BY <1>1 DEF Results, Counts, BuildOut, BuildIn, Outcomes, Passed, Running, Success, Failure, States
<1>3. ASSUME NEW t \in G
      PROVE  /\ Saved(id, 0, t, Saving(id, 0, t)) /\ Alone(id, Saving(id, 0, t))
             /\ Saving(id, 0, t) \in States
             /\ t.path \in Delivery
             /\ brings => t.path \in {None, t.dest} /\ (t.saved[id] # 1 => t.path = None)
  <2>1. t \in States /\ Alone(id, t) /\ t.path \in Delivery
    BY DEF BuildIn, Building, Led
  <2>2. brings => Led(t)
    BY DEF BuildIn
  <2>3. Saved(id, 0, t, Saving(id, 0, t))
    BY <1>1, <2>1, SavingIndex
  <2>4. brings => t.path \in {None, t.dest} /\ (t.saved[id] # 1 => t.path = None)
    BY <2>1, <2>2 DEF Led, Alone, Nodes
  <2> QED
    BY <2>1, <2>3, <2>4 DEF Saved
<1>4. Serves(PickSite, id, Failure, 0, G, Out)
  <2> SUFFICES ASSUME NEW t \in G, t.saved[id] = 0, NEW o \in PickSite[Saving(id, 0, t)]
               PROVE  AfterOk(o, id, Failure, 0, G, Out)
    BY DEF Serves
  <2> DEFINE r == Saving(id, 0, t)
             q == o.state
  <2>1. /\ Did(o, r) /\ o.result \in {Success, Failure} /\ o.state.cargo = r.cargo
        /\ o.result = Success => o.state.dest = "site"
    BY <1>3, PickingSite
  <2>2. /\ o \in Outcomes /\ q \in States /\ Alone(id, q) /\ q.saved[id] = 0
        /\ q.path \in Delivery /\ (brings => q.path = None) /\ q.blocked = t.blocked /\ q.cargo = t.cargo
    BY <1>3, <2>1 DEF Did, BuildIn, Building, Saved, SameButSaved, Outcomes, Alone, Led
  <2>3. brings => ~q.blocked /\ q.cargo = Capacity
    BY <2>2 DEF BuildIn
  <2>4. o.result = Failure => o \in Out
    BY <2>2, <2>3 DEF BuildOut, Building, Running, Success, Failure, Led
  <2>5. Saved(id, 1, q, Saving(id, 1, q))
    BY <1>1, <2>2, SavingIndex
  <2>6. o.result = Success => Saving(id, 1, q) \in G /\ Saving(id, 1, q).saved[id] = 1
    BY <2>1, <2>2, <2>3, <2>5 DEF BuildIn, Building, Saved, SameButSaved, Led
  <2> HIDE DEF id, G, Out
  <2> QED
    BY <2>1, <2>2, <2>4, <2>6
    DEF AfterOk, Outcomes, Passed, Thrown, Running, Success, Failure
<1>5. Serves(MoveToDestination, id, Failure, 1, G, Out)
  <2> SUFFICES ASSUME NEW t \in G, t.saved[id] = 1, NEW o \in MoveToDestination[Saving(id, 0, t)]
               PROVE  AfterOk(o, id, Failure, 1, G, Out)
    BY DEF Serves
  <2> DEFINE r == Saving(id, 0, t)
             q == o.state
  <2>1. r.dest = "site" /\ r.path \in Delivery /\ (brings => r.path \in {None, r.dest}) /\ r.dest \in Objects /\ r.site \in BOOLEAN
    BY <1>3 DEF BuildIn, Building, Objects, Structures, Saved, SameButSaved, States, Led
  <2>2. o \in MoveTo(r, r.dest, r.site)
    BY <1>3, <2>1 DEF MoveToDestination
  <2>3. Moved(o, r, r.dest) /\ (o.result = Success => o.state.path = None /\ r.site)
    <3> HIDE DEF r
    <3> QED
      BY <1>3, <2>1, <2>2, Approach DEF r
  <2>4. /\ o \in Outcomes /\ q \in States /\ Alone(id, q) /\ q.saved[id] = 0
        /\ q.path \in Delivery /\ (brings => q.path \in {None, q.dest}) /\ q.dest = "site" /\ q.site = r.site
        /\ q.blocked = t.blocked /\ q.cargo = t.cargo
        /\ brings /\ o.result = Failure => q.path = None
    BY <1>3, <2>1, <2>3 DEF Moved, Outcomes, Saved, SameButSaved, Alone, BuildIn, Delivery, Structures
  <2>5. brings => ~q.blocked /\ q.cargo = Capacity
    BY <2>4 DEF BuildIn
  <2>6. o.result = Failure => o \in Out
    BY <2>4, <2>5 DEF BuildOut, Building, Running, Success, Failure, Led
  <2>7. Saved(id, 1, q, Saving(id, 1, q)) /\ Saved(id, 2, q, Saving(id, 2, q))
    BY <1>1, <2>4, SavingIndex
  <2>8. o.result = Running => [state |-> Saving(id, 1, q), result |-> Running] \in Out
    BY <2>4, <2>5, <2>7
    DEF BuildOut, Building, Outcomes, Saved, SameButSaved, Running, Success, Failure, Led
  <2>9. o.result = Success => Saving(id, 2, q) \in G /\ Saving(id, 2, q).saved[id] = 2
    BY <2>3, <2>4, <2>5, <2>7 DEF BuildIn, Building, Saved, SameButSaved, Led
  <2> HIDE DEF id, G, Out
  <2> QED
    BY <2>4, <2>6, <2>8, <2>9
    DEF AfterOk, Outcomes, Passed, Thrown, Running, Success, Failure
<1>6. Serves(BuildIt, id, Failure, 2, G, Out)
  <2> SUFFICES ASSUME NEW t \in G, t.saved[id] = 2, NEW o \in BuildIt[Saving(id, 0, t)]
               PROVE  AfterOk(o, id, Failure, 2, G, Out)
    BY DEF Serves
  <2> DEFINE r == Saving(id, 0, t)
             q == o.state
  <2>1. /\ Did(o, r) /\ o.result \in {Running, Success}
        /\ o.result = Running => q.cargo < Capacity
        /\ o.result = Success => ~r.site \/ r.cargo = 0
    BY <1>3, UsingOnSite
  <2>2. /\ o \in Outcomes /\ q \in States /\ Alone(id, q) /\ q.saved[id] = 0
        /\ q.path \in Delivery /\ (brings => q.path = None) /\ q.blocked = t.blocked
    BY <1>3, <2>1 DEF Did, BuildIn, Building, Saved, SameButSaved, Outcomes, Alone, Led
  <2>3. brings => ~q.blocked /\ o.result = Running
    BY <1>3, <2>1, <2>2 DEF BuildIn, Saved, SameButSaved, HaulingAssumption
  <2>4. Saved(id, 2, q, Saving(id, 2, q)) /\ Saved(id, 3, q, Saving(id, 3, q))
    BY <1>1, <2>2, SavingIndex
  <2>5. o.result = Running => [state |-> Saving(id, 2, q), result |-> Running] \in Out
    BY <2>1, <2>2, <2>3, <2>4
    DEF BuildOut, Building, Outcomes, Saved, SameButSaved, Running, Success, Failure, Led
  <2>6. o.result = Success => Saving(id, 3, q) \in G /\ Saving(id, 3, q).saved[id] = 3
    BY <2>2, <2>3, <2>4 DEF BuildIn, Building, Saved, SameButSaved, Running, Success, Led
  <2> HIDE DEF id, G, Out
  <2> QED
    BY <2>1, <2>2, <2>5, <2>6
    DEF AfterOk, Outcomes, Passed, Thrown, Running, Success, Failure
<1>7. ASSUME NEW t \in G, t.saved[id] >= 3
      PROVE  [state |-> Saving(id, 0, t), result |-> Success] \in Out
  <2>1. ~brings
    BY <1>7 DEF BuildIn, Building, Led
  <2> QED
    BY <1>3, <2>1
    DEF BuildOut, Building, Outcomes, Saved, SameButSaved, Running, Success, Failure, Led
<1>8. s.saved[id] \in Nat
  BY <1>2 DEF Counts
<1> HIDE DEF G, Out, id
<1>9. Turn(n0, id, Failure, 0, G, Out)
  BY <1>8, StartRule DEF G
<1>10. Turn(n1, id, Failure, 1, G, Out)
  BY <1>2, <1>4, <1>9, ChildRule
<1>11. Turn(n2, id, Failure, 2, G, Out)
  BY <1>2, <1>5, <1>10, ChildRule
<1>12. Turn(n3, id, Failure, 3, G, Out)
  BY <1>2, <1>6, <1>11, ChildRule
<1>13. \A o \in Tick(n3) : o \in Out
  BY <1>2, <1>7, <1>12, EndRule
<1> QED
  BY <1>13 DEF BuildSite, SequenceNode, Out, id, BuildIn

(* A repeater has the outcomes of its child, some of them as running. *)
LEMMA Repeating ==
  ASSUME NEW node, NEW s \in DOMAIN node, NEW until \in {Success, Failure},
         \A p \in node[s] : p \in Outcomes, NEW o \in Repeat(node, until)[s]
  PROVE  \E p \in node[s] :
           IF p.result = until THEN o = p ELSE o = [state |-> p.state, result |-> Running]
<1>1. PICK p \in node[s] :
        o = IF p.result \in {until, Thrown} THEN p ELSE [p EXCEPT !.result = Running]
  BY DEF Repeat
<1>2. p \in Outcomes
  BY <1>1
<1>3. p.result # Thrown /\ [p EXCEPT !.result = Running] = [state |-> p.state, result |-> Running]
  BY <1>2 DEF Outcomes, Thrown, Running, Success, Failure
<1> QED
  BY <1>1, <1>3

(* The places in upgrade_controller, and so on *)
Upgrading(s) ==
  /\ Alone("upgrade_controller", s) /\ s.saved["upgrade_controller"] \in 0..3
  /\ s.saved["upgrade_controller"] = 1 => s.dest = "controller"
  /\ s.path \in Delivery

UpgradeIn(brings) ==
  {s \in States :
     /\ Upgrading(s)
     /\ brings => /\ ~s.blocked /\ Led(s) /\ s.cargo = Capacity
                  /\ s.saved["upgrade_controller"] # 3}

UpgradeOut(brings) ==
  {o \in Outcomes :
     /\ Upgrading(o.state)
     /\ IF o.result = Running THEN o.state.saved["upgrade_controller"] \in {1, 2}
        ELSE o.state.saved["upgrade_controller"] = 0
     /\ brings => o.result = Running /\ Led(o.state)}

(* upgrade_controller runs on its way to the controller or at it. *)
LEMMA UpgradingController ==
  ASSUME HaulingAssumption, NEW brings \in BOOLEAN, NEW s \in UpgradeIn(brings)
  PROVE  \A o \in UpgradeController[s] : o \in UpgradeOut(brings)
<1> DEFINE id == "upgrade_controller"
           G == UpgradeIn(brings)
           Out == UpgradeOut(brings)
           n0 == Composite(id, Failure, s)
           n1 == n0 & PickController
           n2 == n1 & MoveToDestination
           n3 == n2 & RepeatUntilSuccess(UpgradeIt)
<1>1. id \in Nodes
  BY DEF Nodes
<1>2. Results(Out) /\ Counts(G, id)
  BY <1>1
  DEF Results, Counts, UpgradeOut, UpgradeIn, Outcomes, Passed, Running, Success, Failure, States
<1>3. ASSUME NEW t \in G
      PROVE  /\ Saved(id, 0, t, Saving(id, 0, t)) /\ Alone(id, Saving(id, 0, t))
             /\ Saving(id, 0, t) \in States
             /\ t.path \in Delivery
             /\ brings => t.path \in {None, t.dest} /\ (t.saved[id] # 1 => t.path = None)
  <2>1. t \in States /\ Alone(id, t) /\ t.path \in Delivery
    BY DEF UpgradeIn, Upgrading, Led
  <2>2. brings => Led(t)
    BY DEF UpgradeIn
  <2>3. Saved(id, 0, t, Saving(id, 0, t))
    BY <1>1, <2>1, SavingIndex
  <2>4. brings => t.path \in {None, t.dest} /\ (t.saved[id] # 1 => t.path = None)
    BY <2>1, <2>2 DEF Led, Alone, Nodes
  <2> QED
    BY <2>1, <2>3, <2>4 DEF Saved
<1>4. Serves(PickController, id, Failure, 0, G, Out)
  <2> SUFFICES ASSUME NEW t \in G, t.saved[id] = 0, NEW o \in PickController[Saving(id, 0, t)]
               PROVE  AfterOk(o, id, Failure, 0, G, Out)
    BY DEF Serves
  <2> DEFINE r == Saving(id, 0, t)
             q == o.state
  <2>1. Did(o, r) /\ o.result = Success /\ q.cargo = r.cargo /\ q.dest = "controller"
    BY <1>3, PickingController
  <2>2. /\ o \in Outcomes /\ q \in States /\ Alone(id, q) /\ q.saved[id] = 0
        /\ q.path \in Delivery /\ (brings => q.path = None) /\ q.blocked = t.blocked /\ q.cargo = t.cargo
    BY <1>3, <2>1 DEF Did, UpgradeIn, Upgrading, Saved, SameButSaved, Outcomes, Alone, Led
  <2>3. brings => ~q.blocked /\ q.cargo = Capacity
    BY <2>2 DEF UpgradeIn
  <2>4. Saved(id, 1, q, Saving(id, 1, q))
    BY <1>1, <2>2, SavingIndex
  <2>5. Saving(id, 1, q) \in G /\ Saving(id, 1, q).saved[id] = 1
    BY <2>1, <2>2, <2>3, <2>4 DEF UpgradeIn, Upgrading, Saved, SameButSaved, Led
  <2> HIDE DEF id, G, Out
  <2> QED
    BY <2>1, <2>2, <2>5 DEF AfterOk, Outcomes, Passed, Thrown, Running, Success, Failure
<1>5. Serves(MoveToDestination, id, Failure, 1, G, Out)
  <2> SUFFICES ASSUME NEW t \in G, t.saved[id] = 1, NEW o \in MoveToDestination[Saving(id, 0, t)]
               PROVE  AfterOk(o, id, Failure, 1, G, Out)
    BY DEF Serves
  <2> DEFINE r == Saving(id, 0, t)
             q == o.state
  <2>1. /\ r.dest = "controller" /\ r.path \in Delivery /\ (brings => r.path \in {None, r.dest})
        /\ r.dest \in Objects /\ r.dest # None
    BY <1>3
    DEF UpgradeIn, Upgrading, HaulingAssumption, Objects, Structures, Saved, SameButSaved, Led
  <2>2. o \in MoveTo(r, r.dest, TRUE)
    BY <1>3, <2>1 DEF MoveToDestination
  <2>3. /\ Moved(o, r, r.dest)
        /\ o.result = Success => o.state.path = None
        /\ brings => ~r.blocked /\ o.result # Failure
    <3>1. r.dest # "room"
      BY <2>1
    <3>2. r \in States /\ (brings => ~r.blocked)
      BY <1>3 DEF UpgradeIn, Saved, SameButSaved
    <3> HIDE DEF r
    <3> QED
      BY <2>1, <2>2, <3>1, <3>2, Approach
  <2>4. /\ o \in Outcomes /\ q \in States /\ Alone(id, q) /\ q.saved[id] = 0
        /\ q.path \in Delivery /\ (brings => q.path \in {None, q.dest}) /\ q.dest = "controller"
        /\ q.blocked = t.blocked /\ q.cargo = t.cargo
        /\ brings /\ o.result = Failure => q.path = None
    BY <1>3, <2>1, <2>3 DEF Moved, Outcomes, Saved, SameButSaved, Alone, UpgradeIn, Delivery, Structures
  <2>5. brings => ~q.blocked /\ q.cargo = Capacity /\ o.result # Failure
    BY <1>3, <2>3, <2>4 DEF UpgradeIn, Saved, SameButSaved
  <2>6. o.result = Failure => o \in Out
    BY <2>4, <2>5 DEF UpgradeOut, Upgrading, Running, Success, Failure, Led
  <2>7. Saved(id, 1, q, Saving(id, 1, q)) /\ Saved(id, 2, q, Saving(id, 2, q))
    BY <1>1, <2>4, SavingIndex
  <2>8. o.result = Running => [state |-> Saving(id, 1, q), result |-> Running] \in Out
    BY <2>4, <2>5, <2>7
    DEF UpgradeOut, Upgrading, Outcomes, Saved, SameButSaved, Running, Success, Failure, Led
  <2>9. o.result = Success => Saving(id, 2, q) \in G /\ Saving(id, 2, q).saved[id] = 2
    BY <2>3, <2>4, <2>5, <2>7 DEF UpgradeIn, Upgrading, Saved, SameButSaved, Led
  <2> HIDE DEF id, G, Out
  <2> QED
    BY <2>4, <2>6, <2>8, <2>9
    DEF AfterOk, Outcomes, Passed, Thrown, Running, Success, Failure
<1>6. Serves(RepeatUntilSuccess(UpgradeIt), id, Failure, 2, G, Out)
  <2> SUFFICES ASSUME NEW t \in G, t.saved[id] = 2,
                      NEW o \in RepeatUntilSuccess(UpgradeIt)[Saving(id, 0, t)]
               PROVE  AfterOk(o, id, Failure, 2, G, Out)
    BY DEF Serves
  <2> DEFINE r == Saving(id, 0, t)
             q == o.state
  <2>1. \A p \in UpgradeIt[r] :
          Did(p, r) /\ p.result \in {Running, Success} /\ (p.result = Success => r.cargo = 0)
    BY <1>3, UsingOnController
  <2>2. r \in DOMAIN UpgradeIt /\ \A p \in UpgradeIt[r] : p \in Outcomes
    BY <1>3, <2>1 DEF UpgradeIt, Did
  <2>3. PICK p \in UpgradeIt[r] :
          IF p.result = Success THEN o = p ELSE o = [state |-> p.state, result |-> Running]
    BY <2>2, Repeating DEF RepeatUntilSuccess
  <2>4. o \in Outcomes /\ q = p.state /\ o.result = p.result
    BY <2>1, <2>2, <2>3 DEF Outcomes
  <2>5. /\ q \in States /\ Alone(id, q) /\ q.saved[id] = 0
        /\ q.path \in Delivery /\ (brings => q.path = None) /\ q.blocked = t.blocked
    BY <1>3, <2>1, <2>4 DEF Did, UpgradeIn, Upgrading, Saved, SameButSaved, Outcomes, Alone, Led
  <2>6. o.result \in {Running, Success} /\ (brings => o.result = Running)
    BY <1>3, <2>1, <2>4 DEF UpgradeIn, Saved, SameButSaved, HaulingAssumption
  <2>7. Saved(id, 2, q, Saving(id, 2, q)) /\ Saved(id, 3, q, Saving(id, 3, q))
    BY <1>1, <2>5, SavingIndex
  <2>8. o.result = Running => [state |-> Saving(id, 2, q), result |-> Running] \in Out
    BY <2>5, <2>7
    DEF UpgradeOut, Upgrading, Outcomes, Saved, SameButSaved, Running, Success, Failure, Led
  <2>9. o.result = Success => Saving(id, 3, q) \in G /\ Saving(id, 3, q).saved[id] = 3
    BY <2>5, <2>6, <2>7 DEF UpgradeIn, Upgrading, Saved, SameButSaved, Running, Success, Led
  <2> HIDE DEF id, G, Out
  <2> QED
    BY <2>4, <2>6, <2>8, <2>9
    DEF AfterOk, Outcomes, Passed, Thrown, Running, Success, Failure
<1>7. ASSUME NEW t \in G, t.saved[id] >= 3
      PROVE  [state |-> Saving(id, 0, t), result |-> Success] \in Out
  <2>1. ~brings
    BY <1>7 DEF UpgradeIn, Upgrading, Led
  <2> QED
    BY <1>3, <2>1
    DEF UpgradeOut, Upgrading, Outcomes, Saved, SameButSaved, Running, Success, Failure, Led
<1>8. s.saved[id] \in Nat
  BY <1>2 DEF Counts
<1> HIDE DEF G, Out, id
<1>9. Turn(n0, id, Failure, 0, G, Out)
  BY <1>8, StartRule DEF G
<1>10. Turn(n1, id, Failure, 1, G, Out)
  BY <1>2, <1>4, <1>9, ChildRule
<1>11. Turn(n2, id, Failure, 2, G, Out)
  BY <1>2, <1>5, <1>10, ChildRule
<1>12. Turn(n3, id, Failure, 3, G, Out)
  BY <1>2, <1>6, <1>11, ChildRule
<1>13. \A o \in Tick(n3) : o \in Out
  BY <1>2, <1>7, <1>12, EndRule
<1> QED
  BY <1>13 DEF UpgradeController, SequenceNode, Out, id, UpgradeIn

(* Nothing is saved. *)
Clear(s) == \A n \in Nodes : s.saved[n] = 0

(* Nothing is saved when nothing is saved under one id and nothing else is.  *)
LEMMA NothingSaved ==
  ASSUME NEW s, NEW id \in Nodes
  PROVE  Clear(s) <=> Alone(id, s) /\ s.saved[id] = 0
BY DEF Clear, Alone

(* No other index has a part in where a creep is led. *)
LEMMA LedOn ==
  ASSUME NEW s \in States, NEW id \in Nodes, NEW i \in Nat,
         id \notin {"dump_energy", "build_construction_site", "upgrade_controller"}
  PROVE  Led(Saving(id, i, s)) <=> Led(s)
<1>1. /\ Saved(id, i, s, Saving(id, i, s))
      /\ \A n \in Nodes : n # id => Saving(id, i, s).saved[n] = s.saved[n]
  BY SavingIndex
<1> QED
  BY <1>1 DEF Led, Saved, SameButSaved, Nodes

(* Reading an index back clears it again. *)
LEMMA SavingTwice ==
  ASSUME NEW s \in States, NEW id \in Nodes, NEW i \in Nat, s.saved[id] = 0
  PROVE  Saving(id, 0, Saving(id, i, s)) = s /\ Saving(id, 0, s) = s
<1> DEFINE f == [s.saved EXCEPT ![id] = i]
           t == [s EXCEPT !.saved = f]
<1>1. s.saved \in [Nodes -> Nat] /\ f \in [Nodes -> Nat]
  BY DEF States
<1>2. [f EXCEPT ![id] = 0] = s.saved
  BY <1>1
<1>3. Saving(id, i, s) = t
  BY DEF Saving
<1>4. t.saved = f /\ t \in States
  BY <1>1 DEF States
<1>5. Saving(id, 0, t) = [t EXCEPT !.saved = [f EXCEPT ![id] = 0]]
  BY <1>4 DEF Saving
<1>6. [t EXCEPT !.saved = s.saved] = s /\ [s EXCEPT !.saved = s.saved] = s
  BY <1>1 DEF States
<1>7. Saving(id, 0, s) = [s EXCEPT !.saved = s.saved]
  <2>1. [s.saved EXCEPT ![id] = 0] = s.saved
    BY <1>1
  <2> QED
    BY <2>1 DEF Saving
<1> QED
  BY <1>2, <1>3, <1>5, <1>6, <1>7

(* The places in dump_or_build_or_upgrade: it holds one of its children at a *)
(* place in which that one may go on, or none of them is in progress.        *)
Using(s) ==
  LET u == s.saved["dump_or_build_or_upgrade"]
      r == Saving("dump_or_build_or_upgrade", 0, s)
  IN  /\ u \in 0..5
      /\ u = 0 => Dumping(r)
      /\ u = 2 => Building(r) /\ (r.saved["build_construction_site"] \in {2, 3} => r.cargo < Capacity)
      /\ u = 4 => Upgrading(r) /\ r.saved["upgrade_controller"] # 3
      /\ u \notin {0, 2, 4} => Alone("dump_or_build_or_upgrade", s)
      /\ s.path \in Delivery

UseIn(brings) ==
  {s \in States :
     /\ Using(s)
     /\ brings => /\ ~s.blocked /\ Led(s) /\ s.cargo = Capacity
                  /\ s.saved["dump_or_build_or_upgrade"] # 5}

UseOut(brings) ==
  {o \in Outcomes :
     /\ IF o.result = Running
        THEN Using(o.state) /\ o.state.saved["dump_or_build_or_upgrade"] # 5
        ELSE Clear(o.state) /\ o.state.path \in Delivery
     /\ brings => o.result = Running /\ Led(o.state)}

(* dump_or_build_or_upgrade: when it ends, nothing below it is saved; with a *)
(* full creep it does not end.                                               *)
LEMMA UsingEnergy ==
  ASSUME HaulingAssumption, NEW brings \in BOOLEAN, NEW s \in UseIn(brings)
  PROVE  \A o \in UseEnergy[s] : o \in UseOut(brings)
<1> DEFINE id == "dump_or_build_or_upgrade"
           G == UseIn(brings)
           Out == UseOut(brings)
           n0 == Composite(id, Success, s)
           n1 == n0 & RepeatUntilFailure(DumpEnergy)
           n2 == n1 & SucceedWhenEmpty
           n3 == n2 & BuildSite
           n4 == n3 & SucceedWhenEmpty
           n5 == n4 & UpgradeController
<1>1. id \in Nodes /\ "dump_energy" \in Nodes /\ "build_construction_site" \in Nodes
      /\ "upgrade_controller" \in Nodes
      /\ "dump_energy" # id /\ "build_construction_site" # id /\ "upgrade_controller" # id
  BY DEF Nodes
<1>2. Results(Out) /\ Counts(G, id)
  BY <1>1 DEF Results, Counts, UseOut, UseIn, Outcomes, Passed, Running, Success, Failure, States
<1>3. ASSUME NEW t \in G
      PROVE  /\ Saved(id, 0, t, Saving(id, 0, t)) /\ Saving(id, 0, t) \in States
             /\ brings => Led(Saving(id, 0, t))
  <2>1. t \in States /\ (brings => Led(t))
    BY DEF UseIn
  <2>2. Saved(id, 0, t, Saving(id, 0, t)) /\ (Led(Saving(id, 0, t)) <=> Led(t))
    BY <1>1, <2>1, SavingIndex, LedOn
  <2> QED
    BY <2>1, <2>2 DEF Saved
<1>4. ASSUME NEW q \in States, Clear(q), q.path \in Delivery,
             brings => ~q.blocked /\ q.cargo = Capacity /\ q.path = None,
             NEW i \in 1..5, brings => i # 5
      PROVE  Saving(id, i, q) \in G /\ Saving(id, i, q).saved[id] = i
  <2>1. Alone(id, q) /\ q.saved[id] = 0
    BY <1>1, <1>4, NothingSaved
  <2>2. Saved(id, i, q, Saving(id, i, q)) /\ Saving(id, 0, Saving(id, i, q)) = q
    BY <1>1, <2>1, SavingIndex, SavingTwice
  <2>3. Building(q) /\ Upgrading(q) /\ q.saved["build_construction_site"] = 0
        /\ q.saved["upgrade_controller"] = 0
    BY <1>1, <1>4, NothingSaved DEF Building, Upgrading
  <2> QED
    BY <1>4, <2>1, <2>2, <2>3 DEF UseIn, Using, Saved, SameButSaved, Led
<1>5. ASSUME NEW q \in States, Clear(q), q.path \in Delivery, ~brings, NEW result \in {Success, Failure}
      PROVE  [state |-> q, result |-> result] \in Out
  BY <1>5 DEF UseOut, Outcomes, Running, Success, Failure
<1>6. Serves(RepeatUntilFailure(DumpEnergy), id, Success, 0, G, Out)
  <2> SUFFICES ASSUME NEW t \in G, t.saved[id] = 0,
                      NEW o \in RepeatUntilFailure(DumpEnergy)[Saving(id, 0, t)]
               PROVE  AfterOk(o, id, Success, 0, G, Out)
    BY DEF Serves
  <2> DEFINE r == Saving(id, 0, t)
             q == o.state
  <2>1. r \in DumpIn(brings)
    BY <1>3 DEF UseIn, Using, DumpIn, Saved, SameButSaved
  <2>2. \A p \in DumpEnergy[r] : p \in DumpOut(brings)
    BY <2>1, DumpingEnergy
  <2>3. r \in DOMAIN DumpEnergy /\ \A p \in DumpEnergy[r] : p \in Outcomes
    BY <1>3, <2>2 DEF DumpEnergy, DumpOut
  <2>4. PICK p \in DumpEnergy[r] :
          IF p.result = Failure THEN o = p ELSE o = [state |-> p.state, result |-> Running]
    BY <2>3, Repeating DEF RepeatUntilFailure
  <2>5. p \in DumpOut(brings) /\ q = p.state /\ o.result = IF p.result = Failure THEN Failure ELSE Running
    BY <2>2, <2>4
  <2>6. /\ o \in Outcomes /\ q \in States /\ Dumping(q) /\ q.saved[id] = 0
        /\ o.result \in {Running, Failure}
    BY <1>1, <2>3, <2>4, <2>5 DEF DumpOut, Dumping, Outcomes, Alone
  <2>7. CASE o.result = Failure
    <3>1. /\ Clear(q) /\ q.path \in Delivery
          /\ brings => ~q.blocked /\ q.cargo = Capacity /\ q.path = None
      BY <1>1, <2>5, <2>6, <2>7, NothingSaved DEF DumpOut, Dumping, Led, Clear, Running, Success, Failure
    <3>2. Saving(id, 1, q) \in G /\ Saving(id, 1, q).saved[id] = 1
      BY <1>4, <2>6, <3>1
    <3> HIDE DEF id, G, Out
    <3> QED
      BY <2>6, <2>7, <3>2 DEF AfterOk, Outcomes, Passed, Thrown, Running, Success, Failure
  <2>8. CASE o.result = Running
    <3>1. Saved(id, 0, q, Saving(id, 0, q)) /\ Saving(id, 0, Saving(id, 0, q)) = q
      BY <1>1, <2>6, SavingIndex, SavingTwice
    <3>2. brings => Led(Saving(id, 0, q))
      BY <1>1, <2>5, <2>6, LedOn DEF DumpOut
    <3>3. [state |-> Saving(id, 0, q), result |-> Running] \in Out
      BY <2>6, <3>1, <3>2 DEF UseOut, Using, Outcomes, Saved, SameButSaved, Dumping
    <3> HIDE DEF id, G, Out
    <3> QED
      BY <2>6, <2>8, <3>3 DEF AfterOk, Outcomes, Passed, Thrown, Running, Success, Failure
  <2> QED
    BY <2>6, <2>7, <2>8
<1>7. ASSUME NEW k \in {1, 3}
      PROVE  Serves(SucceedWhenEmpty, id, Success, k, G, Out)
  <2> SUFFICES ASSUME NEW t \in G, t.saved[id] = k, NEW o \in SucceedWhenEmpty[Saving(id, 0, t)]
               PROVE  AfterOk(o, id, Success, k, G, Out)
    BY DEF Serves
  <2> DEFINE r == Saving(id, 0, t)
             q == o.state
  <2>1. Did(o, r) /\ q = r /\ o.result = IF r.cargo = 0 THEN Success ELSE Failure
    BY <1>3, Checking
  <2>2. /\ Alone(id, t) /\ t.path \in Delivery
        /\ brings => ~t.blocked /\ t.cargo = Capacity /\ t.path = None
    BY <1>7 DEF UseIn, Using, Led, Alone, Nodes
  <2>3. /\ o \in Outcomes /\ q \in States /\ Clear(q) /\ q.path \in Delivery
        /\ brings => ~q.blocked /\ q.cargo = Capacity /\ q.path = None
    BY <1>1, <1>3, <2>1, <2>2, NothingSaved DEF Did, Saved, SameButSaved
  <2>4. CASE o.result = Failure
    <3>1. Saving(id, k + 1, q) \in G /\ Saving(id, k + 1, q).saved[id] = k + 1
      <4>1. k + 1 \in 1..5 /\ k + 1 # 5
        BY <1>7
      <4> QED
        BY <1>4, <2>3, <4>1
    <3> HIDE DEF id, G, Out
    <3> QED
      BY <2>3, <2>4, <3>1 DEF AfterOk, Outcomes, Passed, Thrown, Running, Success, Failure
  <2>5. CASE o.result = Success
    <3>1. ~brings
      BY <2>1, <2>3, <2>5 DEF HaulingAssumption, Success, Failure
    <3>2. o \in Out
      BY <2>3, <2>5, <3>1 DEF UseOut, Running, Success
    <3> HIDE DEF id, G, Out
    <3> QED
      BY <2>3, <2>5, <3>2 DEF AfterOk, Outcomes, Passed, Thrown, Running, Success, Failure
  <2> QED
    BY <2>1, <2>4, <2>5
<1>8. Serves(BuildSite, id, Success, 2, G, Out)
  <2> SUFFICES ASSUME NEW t \in G, t.saved[id] = 2, NEW o \in BuildSite[Saving(id, 0, t)]
               PROVE  AfterOk(o, id, Success, 2, G, Out)
    BY DEF Serves
  <2> DEFINE r == Saving(id, 0, t)
             q == o.state
  <2>1. r \in BuildIn(brings)
    BY <1>3 DEF UseIn, Using, BuildIn, Saved, SameButSaved, States, HaulingAssumption
  <2>2. o \in BuildOut(brings)
    BY <2>1, BuildingSite
  <2>3. o \in Outcomes /\ q \in States /\ Building(q) /\ q.saved[id] = 0
    BY <1>1, <2>2 DEF BuildOut, Building, Outcomes, Alone
  <2>4. CASE o.result # Running
    <3>1. /\ Clear(q) /\ q.path \in Delivery
          /\ brings => ~q.blocked /\ q.cargo = Capacity /\ q.path = None /\ o.result # Success
      BY <1>1, <2>2, <2>3, <2>4, NothingSaved DEF BuildOut, Building, Led, Clear, Outcomes
    <3>2. Saving(id, 3, q) \in G /\ Saving(id, 3, q).saved[id] = 3
      BY <1>4, <2>3, <3>1
    <3>3. o.result = Success => o \in Out
      BY <2>3, <2>4, <3>1 DEF UseOut
    <3> HIDE DEF id, G, Out
    <3> QED
      BY <2>3, <2>4, <3>2, <3>3 DEF AfterOk, Outcomes, Passed, Thrown, Running, Success, Failure
  <2>5. CASE o.result = Running
    <3>1. Saved(id, 2, q, Saving(id, 2, q)) /\ Saving(id, 0, Saving(id, 2, q)) = q
      BY <1>1, <2>3, SavingIndex, SavingTwice
    <3>2. q.saved["build_construction_site"] \in {2, 3} => q.cargo < Capacity
      BY <2>2, <2>5 DEF BuildOut
    <3>3. brings => Led(Saving(id, 2, q))
      BY <1>1, <2>2, <2>3, LedOn DEF BuildOut
    <3>4. [state |-> Saving(id, 2, q), result |-> Running] \in Out
      BY <2>3, <3>1, <3>2, <3>3 DEF UseOut, Using, Outcomes, Saved, SameButSaved, Building
    <3> HIDE DEF id, G, Out
    <3> QED
      BY <2>3, <2>5, <3>4 DEF AfterOk, Outcomes, Passed, Thrown, Running, Success, Failure
  <2> QED
    BY <2>4, <2>5
<1>9. Serves(UpgradeController, id, Success, 4, G, Out)
  <2> SUFFICES ASSUME NEW t \in G, t.saved[id] = 4, NEW o \in UpgradeController[Saving(id, 0, t)]
               PROVE  AfterOk(o, id, Success, 4, G, Out)
    BY DEF Serves
  <2> DEFINE r == Saving(id, 0, t)
             q == o.state
  <2>1. r \in UpgradeIn(brings)
    BY <1>3 DEF UseIn, Using, UpgradeIn, Saved, SameButSaved
  <2>2. o \in UpgradeOut(brings)
    BY <2>1, UpgradingController
  <2>3. o \in Outcomes /\ q \in States /\ Upgrading(q) /\ q.saved[id] = 0
    BY <1>1, <2>2 DEF UpgradeOut, Upgrading, Outcomes, Alone
  <2>4. CASE o.result # Running
    <3>1. Clear(q) /\ q.path \in Delivery /\ ~brings
      BY <1>1, <2>2, <2>3, <2>4, NothingSaved DEF UpgradeOut, Upgrading
    <3>2. Saving(id, 5, q) \in G /\ Saving(id, 5, q).saved[id] = 5
      BY <1>4, <2>3, <3>1
    <3>3. o \in Out
      BY <2>3, <2>4, <3>1 DEF UseOut
    <3> HIDE DEF id, G, Out
    <3> QED
      BY <2>3, <2>4, <3>2, <3>3 DEF AfterOk, Outcomes, Passed, Thrown, Running, Success, Failure
  <2>5. CASE o.result = Running
    <3>1. Saved(id, 4, q, Saving(id, 4, q)) /\ Saving(id, 0, Saving(id, 4, q)) = q
      BY <1>1, <2>3, SavingIndex, SavingTwice
    <3>2. q.saved["upgrade_controller"] # 3
      BY <2>2, <2>5 DEF UpgradeOut
    <3>3. brings => Led(Saving(id, 4, q))
      BY <1>1, <2>2, <2>3, LedOn DEF UpgradeOut
    <3>4. [state |-> Saving(id, 4, q), result |-> Running] \in Out
      BY <2>3, <3>1, <3>2, <3>3 DEF UseOut, Using, Outcomes, Saved, SameButSaved, Upgrading
    <3> HIDE DEF id, G, Out
    <3> QED
      BY <2>3, <2>5, <3>4 DEF AfterOk, Outcomes, Passed, Thrown, Running, Success, Failure
  <2> QED
    BY <2>4, <2>5
<1>10. ASSUME NEW t \in G, t.saved[id] >= 5
       PROVE  [state |-> Saving(id, 0, t), result |-> Failure] \in Out
  <2>1. Alone(id, t) /\ t.path \in Delivery /\ ~brings
    BY <1>10 DEF UseIn, Using
  <2>2. Clear(Saving(id, 0, t)) /\ Saving(id, 0, t).path \in Delivery
    BY <1>1, <1>3, <2>1, NothingSaved DEF Saved, SameButSaved
  <2> QED
    BY <1>3, <1>5, <2>1, <2>2
<1>11. s.saved[id] \in Nat
  BY <1>2 DEF Counts
<1> HIDE DEF G, Out, id
<1>12. Turn(n0, id, Success, 0, G, Out)
  BY <1>11, StartRule DEF G
<1>13. Turn(n1, id, Success, 1, G, Out)
  BY <1>2, <1>6, <1>12, ChildRule
<1>14. Turn(n2, id, Success, 2, G, Out)
  BY <1>2, <1>7, <1>13, ChildRule
<1>15. Turn(n3, id, Success, 3, G, Out)
  BY <1>2, <1>8, <1>14, ChildRule
<1>16. Turn(n4, id, Success, 4, G, Out)
  BY <1>2, <1>7, <1>15, ChildRule
<1>17. Turn(n5, id, Success, 5, G, Out)
  BY <1>2, <1>9, <1>16, ChildRule
<1>18. \A o \in Tick(n5) : o \in Out
  BY <1>2, <1>10, <1>17, EndRule DEF Success, Failure
<1> QED
  BY <1>18 DEF UseEnergy, SelectorNode, Out, id, UseIn

-----------------------------------------------------------------------------
(* The tree of a hauler *)
HaulerOk(s) ==
  /\ Alone("haul_task", s) /\ s.saved["haul_task"] \in 0..6
  /\ s.saved["haul_task"] = 4 => s.path \in {None, Dropoff}
  /\ s.saved["haul_task"] \in {3, 5, 6} => s.path = None

(* A hauler that brings a load is past its pickup, and full until it has     *)
(* emptied itself.                                                           *)
HaulerIn(brings) ==
  {s \in States :
     /\ HaulerOk(s)
     /\ brings => /\ ~s.blocked /\ Dropoff = "storage" /\ s.saved["haul_task"] \in 3..6
                  /\ IF s.saved["haul_task"] = 6 THEN s.cargo < Capacity ELSE s.cargo = Capacity}

HaulerOut(brings) ==
  {o \in Outcomes :
     /\ HaulerOk(o.state)
     /\ IF o.result = Running THEN o.state.saved["haul_task"] \in {2, 3, 4}
        ELSE o.state.saved["haul_task"] = 0
     /\ brings => o.state.cargo < Capacity \/ o.state.saved["haul_task"] \in {3, 4}}

(* A tick of a hauler's tree: a full load past the pickup is given, or is on *)
(* its way to the dropoff.                                                   *)
LEMMA HaulingTask ==
  ASSUME HaulingAssumption, NEW brings \in BOOLEAN, NEW s \in HaulerIn(brings)
  PROVE  \A o \in HaulTask[s] : o \in HaulerOut(brings)
<1> DEFINE id == "haul_task"
           G == HaulerIn(brings)
           Out == HaulerOut(brings)
           n0 == Composite(id, Failure, s)
           n1 == n0 & ClearHaulTask
           n2 == n1 & PickSomething
           n3 == n2 & MoveToPickup
           n4 == n3 & LoadResource
           n5 == n4 & MoveToDropoff
           n6 == n5 & EmptyCreep
<1>1. id \in Nodes /\ "pick_something" \in Nodes /\ "pick_something" # id
  BY DEF Nodes
<1>2. Results(Out) /\ Counts(G, id)
  BY <1>1
  DEF Results, Counts, HaulerOut, HaulerIn, Outcomes, Passed, Running, Success, Failure, States
<1>3. ASSUME NEW t \in G
      PROVE  /\ Saved(id, 0, t, Saving(id, 0, t)) /\ Alone(id, Saving(id, 0, t))
             /\ Saving(id, 0, t) \in States
  <2>1. t \in States /\ Alone(id, t)
    BY DEF HaulerIn, HaulerOk
  <2> QED
    BY <1>1, <2>1, SavingIndex DEF Saved
<1>4. Serves(ClearHaulTask, id, Failure, 0, G, Out)
  <2> SUFFICES ASSUME NEW t \in G, t.saved[id] = 0, NEW o \in ClearHaulTask[Saving(id, 0, t)]
               PROVE  AfterOk(o, id, Failure, 0, G, Out)
    BY DEF Serves
  <2> DEFINE r == Saving(id, 0, t)
             q == o.state
  <2>1. Did(o, r) /\ o.result = Success
    BY <1>3, Clearing
  <2>2. /\ o \in Outcomes /\ q \in States /\ Alone(id, q) /\ q.saved[id] = 0
        /\ ~brings
    BY <1>3, <2>1 DEF Did, HaulerIn, HaulerOk, Saved, SameButSaved, Outcomes, Alone
  <2>3. Saved(id, 1, q, Saving(id, 1, q))
    BY <1>1, <2>2, SavingIndex
  <2>4. Saving(id, 1, q) \in G /\ Saving(id, 1, q).saved[id] = 1
    BY <2>2, <2>3 DEF HaulerIn, HaulerOk, Saved, SameButSaved
  <2> HIDE DEF id, G, Out
  <2> QED
    BY <2>1, <2>2, <2>4 DEF AfterOk, Outcomes, Passed, Thrown, Running, Success, Failure
<1>5. Serves(PickSomething, id, Failure, 1, G, Out)
  <2> SUFFICES ASSUME NEW t \in G, t.saved[id] = 1, NEW o \in PickSomething[Saving(id, 0, t)]
               PROVE  AfterOk(o, id, Failure, 1, G, Out)
    BY DEF Serves
  <2> DEFINE r == Saving(id, 0, t)
             q == o.state
  <2>1. o \in PickOut(r)
    BY <1>3, PickingSomething
  <2>2. /\ o \in Outcomes /\ q \in States /\ Alone(id, q) /\ q.saved[id] = 0
        /\ ~brings /\ o.result \in {Success, Failure}
    BY <1>1, <1>3, <2>1
    DEF PickOut, Beside, HaulerIn, HaulerOk, Saved, SameButSaved, Outcomes, Alone
  <2>3. Saved(id, 2, q, Saving(id, 2, q))
    BY <1>1, <2>2, SavingIndex
  <2>4. Saving(id, 2, q) \in G /\ Saving(id, 2, q).saved[id] = 2
    BY <2>2, <2>3 DEF HaulerIn, HaulerOk, Saved, SameButSaved
  <2>5. o \in Out
    BY <2>2 DEF HaulerOut, HaulerOk, Running, Success, Failure
  <2> HIDE DEF id, G, Out
  <2> QED
    BY <2>2, <2>4, <2>5 DEF AfterOk, Outcomes, Passed, Thrown, Running, Success, Failure
<1>6. Serves(MoveToPickup, id, Failure, 2, G, Out)
  <2> SUFFICES ASSUME NEW t \in G, t.saved[id] = 2, NEW o \in MoveToPickup[Saving(id, 0, t)]
               PROVE  AfterOk(o, id, Failure, 2, G, Out)
    BY DEF Serves
  <2> DEFINE r == Saving(id, 0, t)
             q == o.state
  <2>1. PICK found \in Found(r.task, r) : o \in MoveTo(r, r.task, found)
    BY <1>3 DEF MoveToPickup
  <2>2. found \in BOOLEAN /\ r.task \in Objects \cup {None}
    BY <1>3, Finding DEF States, Objects
  <2>3. Moved(o, r, r.task) /\ (o.result = Success => q.path = None)
    <3> HIDE DEF r
    <3> QED
      BY <1>3, <2>1, <2>2, Approach DEF r
  <2>4. /\ o \in Outcomes /\ q \in States /\ Alone(id, q) /\ q.saved[id] = 0
        /\ ~brings
    BY <1>3, <2>3 DEF Moved, Outcomes, HaulerIn, HaulerOk, Saved, SameButSaved, Alone
  <2>5. o.result = Failure => o \in Out
    BY <2>4 DEF HaulerOut, HaulerOk, Running, Success, Failure
  <2>6. Saved(id, 2, q, Saving(id, 2, q)) /\ Saved(id, 3, q, Saving(id, 3, q))
    BY <1>1, <2>4, SavingIndex
  <2>7. o.result = Running => [state |-> Saving(id, 2, q), result |-> Running] \in Out
    BY <2>4, <2>6 DEF HaulerOut, HaulerOk, Outcomes, Saved, SameButSaved
  <2>8. o.result = Success => Saving(id, 3, q) \in G /\ Saving(id, 3, q).saved[id] = 3
    BY <2>3, <2>4, <2>6 DEF HaulerIn, HaulerOk, Saved, SameButSaved
  <2> HIDE DEF id, G, Out
  <2> QED
    BY <2>4, <2>5, <2>7, <2>8 DEF AfterOk, Outcomes, Passed, Thrown, Running, Success, Failure
<1>7. Serves(LoadResource, id, Failure, 3, G, Out)
  <2> SUFFICES ASSUME NEW t \in G, t.saved[id] = 3, NEW o \in LoadResource[Saving(id, 0, t)]
               PROVE  AfterOk(o, id, Failure, 3, G, Out)
    BY DEF Serves
  <2> DEFINE r == Saving(id, 0, t)
             q == o.state
  <2>1. Did(o, r) /\ (r.cargo = Capacity => q = r /\ o.result = Success)
    BY <1>3, Loading
  <2>2. /\ o \in Outcomes /\ q \in States /\ Alone(id, q) /\ q.saved[id] = 0
        /\ q.path = None
    BY <1>3, <2>1 DEF Did, HaulerIn, HaulerOk, Saved, SameButSaved, Outcomes, Alone
  <2>3. brings => ~q.blocked /\ Dropoff = "storage" /\ q.cargo = Capacity /\ o.result = Success
    BY <1>3, <2>1 DEF HaulerIn, Saved, SameButSaved
  <2>4. o.result = Failure => o \in Out
    BY <2>2, <2>3 DEF HaulerOut, HaulerOk, Running, Success, Failure
  <2>5. Saved(id, 3, q, Saving(id, 3, q)) /\ Saved(id, 4, q, Saving(id, 4, q))
    BY <1>1, <2>2, SavingIndex
  <2>6. o.result = Running => [state |-> Saving(id, 3, q), result |-> Running] \in Out
    BY <2>2, <2>5 DEF HaulerOut, HaulerOk, Outcomes, Saved, SameButSaved
  <2>7. Saving(id, 4, q) \in G /\ Saving(id, 4, q).saved[id] = 4
    BY <2>2, <2>3, <2>5 DEF HaulerIn, HaulerOk, Saved, SameButSaved
  <2> HIDE DEF id, G, Out
  <2> QED
    BY <2>2, <2>4, <2>6, <2>7 DEF AfterOk, Outcomes, Passed, Thrown, Running, Success, Failure
<1>8. Serves(MoveToDropoff, id, Failure, 4, G, Out)
  <2> SUFFICES ASSUME NEW t \in G, t.saved[id] = 4, NEW o \in MoveToDropoff[Saving(id, 0, t)]
               PROVE  AfterOk(o, id, Failure, 4, G, Out)
    BY DEF Serves
  <2> DEFINE r == Saving(id, 0, t)
             q == o.state
  <2>1. o \in MoveTo(r, Dropoff, TRUE) /\ Dropoff \in Objects \cup {None}
    BY <1>3 DEF MoveToDropoff, Dropoff, Objects, Structures
  <2>2. /\ Moved(o, r, Dropoff) /\ (o.result = Success => q.path = None)
        /\ ~r.blocked /\ r.path \in {None, Dropoff} /\ Dropoff \notin {None, "room"} =>
             o.result # Failure
    <3> HIDE DEF r
    <3> QED
      BY <1>3, <2>1, Approach DEF r
  <2>3. /\ o \in Outcomes /\ q \in States /\ Alone(id, q) /\ q.saved[id] = 0
        /\ q.path \in {None, Dropoff}
    BY <1>3, <2>2 DEF Moved, Outcomes, HaulerIn, HaulerOk, Saved, SameButSaved, Alone
  <2>4. brings => /\ ~q.blocked /\ Dropoff = "storage" /\ q.cargo = Capacity
                  /\ o.result # Failure
    BY <1>3, <2>2
    DEF HaulerIn, HaulerOk, Saved, SameButSaved, Moved, HaulingAssumption, Objects, Structures
  <2>5. o.result = Failure => o \in Out
    BY <2>3, <2>4 DEF HaulerOut, HaulerOk, Running, Success, Failure
  <2>6. Saved(id, 4, q, Saving(id, 4, q)) /\ Saved(id, 5, q, Saving(id, 5, q))
    BY <1>1, <2>3, SavingIndex
  <2>7. o.result = Running => [state |-> Saving(id, 4, q), result |-> Running] \in Out
    BY <2>3, <2>6 DEF HaulerOut, HaulerOk, Outcomes, Saved, SameButSaved
  <2>8. o.result = Success => Saving(id, 5, q) \in G /\ Saving(id, 5, q).saved[id] = 5
    BY <2>2, <2>3, <2>4, <2>6 DEF HaulerIn, HaulerOk, Saved, SameButSaved
  <2> HIDE DEF id, G, Out
  <2> QED
    BY <2>3, <2>5, <2>7, <2>8 DEF AfterOk, Outcomes, Passed, Thrown, Running, Success, Failure
<1>9. Serves(EmptyCreep, id, Failure, 5, G, Out)
  <2> SUFFICES ASSUME NEW t \in G, t.saved[id] = 5, NEW o \in EmptyCreep[Saving(id, 0, t)]
               PROVE  AfterOk(o, id, Failure, 5, G, Out)
    BY DEF Serves
  <2> DEFINE r == Saving(id, 0, t)
             q == o.state
  <2>1. /\ Did(o, r) /\ o.result \in {Success, Failure}
        /\ Dropoff # None /\ r.cargo # 0 => o.result = Success /\ q.cargo = 0
    BY <1>3, Emptying
  <2>2. /\ o \in Outcomes /\ q \in States /\ Alone(id, q) /\ q.saved[id] = 0
        /\ q.path = None
    BY <1>3, <2>1 DEF Did, HaulerIn, HaulerOk, Saved, SameButSaved, Outcomes, Alone
  <2>3. brings => /\ ~q.blocked /\ Dropoff = "storage" /\ q.cargo < Capacity
                  /\ o.result = Success
    BY <1>3, <2>1
    DEF HaulerIn, Saved, SameButSaved, Did, HaulingAssumption, Objects, Structures
  <2>4. o.result = Failure => o \in Out
    BY <2>2, <2>3 DEF HaulerOut, HaulerOk, Running, Success, Failure
  <2>5. Saved(id, 6, q, Saving(id, 6, q))
    BY <1>1, <2>2, SavingIndex
  <2>6. Saving(id, 6, q) \in G /\ Saving(id, 6, q).saved[id] = 6
    BY <2>2, <2>3, <2>5 DEF HaulerIn, HaulerOk, Saved, SameButSaved
  <2> HIDE DEF id, G, Out
  <2> QED
    BY <2>1, <2>2, <2>4, <2>6 DEF AfterOk, Outcomes, Passed, Thrown, Running, Success, Failure
<1>10. ASSUME NEW t \in G, t.saved[id] >= 6
       PROVE  [state |-> Saving(id, 0, t), result |-> Success] \in Out
  <2>1. t.path = None /\ (brings => t.cargo < Capacity)
    BY <1>10 DEF HaulerIn, HaulerOk
  <2> QED
    BY <1>3, <2>1
    DEF HaulerOut, HaulerOk, Outcomes, Saved, SameButSaved, Running, Success, Failure
<1>11. s.saved[id] \in Nat
  BY <1>2 DEF Counts
<1> HIDE DEF G, Out, id
<1>12. Turn(n0, id, Failure, 0, G, Out)
  BY <1>11, StartRule DEF G
<1>13. Turn(n1, id, Failure, 1, G, Out)
  BY <1>2, <1>4, <1>12, ChildRule
<1>14. Turn(n2, id, Failure, 2, G, Out)
  BY <1>2, <1>5, <1>13, ChildRule
<1>15. Turn(n3, id, Failure, 3, G, Out)
  BY <1>2, <1>6, <1>14, ChildRule
<1>16. Turn(n4, id, Failure, 4, G, Out)
  BY <1>2, <1>7, <1>15, ChildRule
<1>17. Turn(n5, id, Failure, 5, G, Out)
  BY <1>2, <1>8, <1>16, ChildRule
<1>18. Turn(n6, id, Failure, 6, G, Out)
  BY <1>2, <1>9, <1>17, ChildRule
<1>19. \A o \in Tick(n6) : o \in Out
  BY <1>2, <1>10, <1>18, EndRule
<1> QED
  BY <1>19 DEF HaulTask, SequenceNode, Out, id, HaulerIn

(* A worker that uses its energy is nowhere else in its tree. *)
LEMMA UsingOnly ==
  ASSUME NEW s \in States, Using(s)
  PROVE  s.saved["haul_task"] = 0 /\ s.saved["haul_energy"] = 0
<1> DEFINE id == "dump_or_build_or_upgrade"
           r == Saving(id, 0, s)
<1>1. \A n \in Nodes : n # id => r.saved[n] = s.saved[n]
  BY SavingIndex DEF Nodes
<1>2. CASE s.saved[id] = 0
  <2>1. Dumping(r)
    BY <1>2 DEF Using
  <2> QED
    BY <1>1, <2>1 DEF Dumping, Alone, Nodes
<1>3. CASE s.saved[id] = 2
  <2>1. Building(r)
    BY <1>3 DEF Using
  <2> QED
    BY <1>1, <2>1 DEF Building, Alone, Nodes
<1>4. CASE s.saved[id] = 4
  <2>1. Upgrading(r)
    BY <1>4 DEF Using
  <2> QED
    BY <1>1, <2>1 DEF Upgrading, Alone, Nodes
<1>5. CASE s.saved[id] \notin {0, 2, 4}
  BY <1>5 DEF Using, Alone, Nodes
<1> QED
  BY <1>2, <1>3, <1>4, <1>5

-----------------------------------------------------------------------------
(* The tree of a worker *)
WorkerOk(s) ==
  LET i == s.saved["haul_energy"]
      r == Saving("haul_energy", 0, s)
  IN  /\ i \in 0..7
      /\ i = 6 => Using(r) /\ r.saved["dump_or_build_or_upgrade"] # 5
      /\ i # 6 => Alone("haul_energy", s)
      /\ i \in {4, 5} => s.path = None

(* A worker that brings a load is full, past its pickup, and not misled. *)
WorkerIn(brings) ==
  {s \in States :
     /\ WorkerOk(s)
     /\ brings => /\ ~s.blocked /\ Led(s) /\ s.cargo = Capacity
                  /\ s.saved["haul_energy"] \in 4..6}

WorkerOut(brings) ==
  {o \in Outcomes :
     /\ WorkerOk(o.state)
     /\ IF o.result = Running THEN o.state.saved["haul_energy"] \in {1, 3, 4, 6}
        ELSE o.state.saved["haul_energy"] = 0
     /\ brings => o.state.saved["haul_energy"] = 6 /\ Led(o.state)}

(* A tick of a worker's tree: a full load past the pickup is being used. *)
LEMMA HaulingEnergy ==
  ASSUME HaulingAssumption, NEW brings \in BOOLEAN, NEW s \in WorkerIn(brings)
  PROVE  \A o \in HaulEnergy[s] : o \in WorkerOut(brings)
<1> DEFINE id == "haul_energy"
           G == WorkerIn(brings)
           Out == WorkerOut(brings)
           n0 == Composite(id, Failure, s)
           n1 == n0 & ClearHaulTask
           n2 == n1 & MoveToHome
           n3 == n2 & PickSomething
           n4 == n3 & MoveToPickup
           n5 == n4 & LoadResource
           n6 == n5 & ClearHaulTask
           n7 == n6 & UseEnergy
<1>1. /\ id \in Nodes /\ "pick_something" \in Nodes /\ "pick_something" # id
      /\ "dump_or_build_or_upgrade" \in Nodes /\ "dump_or_build_or_upgrade" # id
      /\ "dump_energy" \in Nodes
      /\ id \notin {"dump_energy", "build_construction_site", "upgrade_controller"}
  BY DEF Nodes
<1>2. Results(Out) /\ Counts(G, id)
  BY <1>1
  DEF Results, Counts, WorkerOut, WorkerIn, Outcomes, Passed, Running, Success, Failure, States
<1>3. ASSUME NEW t \in G
      PROVE  /\ Saved(id, 0, t, Saving(id, 0, t))
             /\ t.saved[id] # 6 => Alone(id, Saving(id, 0, t))
             /\ Saving(id, 0, t) \in States
  <2>1. t \in States /\ (t.saved[id] # 6 => Alone(id, t))
    BY DEF WorkerIn, WorkerOk
  <2> QED
    BY <1>1, <2>1, SavingIndex DEF Saved
<1>4. ASSUME NEW t \in G, t.saved[id] = 0, NEW o \in ClearHaulTask[Saving(id, 0, t)]
      PROVE  AfterOk(o, id, Failure, 0, G, Out)
  <2> DEFINE r == Saving(id, 0, t)
             q == o.state
  <2>1. Did(o, r) /\ o.result = Success
    BY <1>3, Clearing
  <2>2. /\ o \in Outcomes /\ q \in States /\ Alone(id, q) /\ q.saved[id] = 0
        /\ ~brings
    BY <1>3, <1>4, <2>1 DEF Did, WorkerIn, WorkerOk, Saved, SameButSaved, Outcomes, Alone
  <2>3. Saved(id, 1, q, Saving(id, 1, q))
    BY <1>1, <2>2, SavingIndex
  <2>4. Saving(id, 1, q) \in G /\ Saving(id, 1, q).saved[id] = 1
    BY <2>2, <2>3 DEF WorkerIn, WorkerOk, Saved, SameButSaved
  <2> HIDE DEF id, G, Out
  <2> QED
    BY <2>1, <2>2, <2>4 DEF AfterOk, Outcomes, Passed, Thrown, Running, Success, Failure
<1>5. ASSUME NEW t \in G, t.saved[id] = 1, NEW o \in MoveToHome[Saving(id, 0, t)]
      PROVE  AfterOk(o, id, Failure, 1, G, Out)
  <2> DEFINE r == Saving(id, 0, t)
             q == o.state
  <2>1. o \in IF InRoom(r.at) THEN Ends(r, Success) ELSE Walk(r, "room")
    BY <1>3 DEF MoveToHome, MoveHome
  <2>2. \/ Did(o, r) /\ q = r /\ o.result = Success
        \/ Moved(o, r, "room") /\ o.result # Success
    <3> HIDE DEF r
    <3> QED
      BY <1>3, <2>1, Stays, OnTheWay DEF r
  <2>3. /\ o \in Outcomes /\ q \in States /\ Alone(id, q) /\ q.saved[id] = 0
        /\ ~brings
    BY <1>3, <1>5, <2>2
    DEF Did, Moved, WorkerIn, WorkerOk, Saved, SameButSaved, Outcomes, Alone
  <2>4. o.result = Failure => o \in Out
    BY <2>3 DEF WorkerOut, WorkerOk, Running, Success, Failure
  <2>5. Saved(id, 1, q, Saving(id, 1, q)) /\ Saved(id, 2, q, Saving(id, 2, q))
    BY <1>1, <2>3, SavingIndex
  <2>6. o.result = Running => [state |-> Saving(id, 1, q), result |-> Running] \in Out
    BY <2>3, <2>5 DEF WorkerOut, WorkerOk, Outcomes, Saved, SameButSaved
  <2>7. Saving(id, 2, q) \in G /\ Saving(id, 2, q).saved[id] = 2
    BY <2>3, <2>5 DEF WorkerIn, WorkerOk, Saved, SameButSaved
  <2> HIDE DEF id, G, Out
  <2> QED
    BY <2>3, <2>4, <2>6, <2>7 DEF AfterOk, Outcomes, Passed, Thrown, Running, Success, Failure
<1>6. ASSUME NEW t \in G, t.saved[id] = 2, NEW o \in PickSomething[Saving(id, 0, t)]
      PROVE  AfterOk(o, id, Failure, 2, G, Out)
  <2> DEFINE r == Saving(id, 0, t)
             q == o.state
  <2>1. o \in PickOut(r)
    BY <1>3, <1>6, PickingSomething
  <2>2. /\ o \in Outcomes /\ q \in States /\ Alone(id, q) /\ q.saved[id] = 0
        /\ ~brings /\ o.result \in {Success, Failure}
    BY <1>1, <1>3, <1>6, <2>1
    DEF PickOut, Beside, WorkerIn, WorkerOk, Saved, SameButSaved, Outcomes, Alone
  <2>3. Saved(id, 3, q, Saving(id, 3, q))
    BY <1>1, <2>2, SavingIndex
  <2>4. Saving(id, 3, q) \in G /\ Saving(id, 3, q).saved[id] = 3
    BY <2>2, <2>3 DEF WorkerIn, WorkerOk, Saved, SameButSaved
  <2>5. o \in Out
    BY <2>2 DEF WorkerOut, WorkerOk, Running, Success, Failure
  <2> HIDE DEF id, G, Out
  <2> QED
    BY <2>2, <2>4, <2>5 DEF AfterOk, Outcomes, Passed, Thrown, Running, Success, Failure
<1>7. ASSUME NEW t \in G, t.saved[id] = 3, NEW o \in MoveToPickup[Saving(id, 0, t)]
      PROVE  AfterOk(o, id, Failure, 3, G, Out)
  <2> DEFINE r == Saving(id, 0, t)
             q == o.state
  <2>1. PICK found \in Found(r.task, r) : o \in MoveTo(r, r.task, found)
    BY <1>3, <1>7 DEF MoveToPickup
  <2>2. found \in BOOLEAN /\ r.task \in Objects \cup {None}
    BY <1>3, Finding DEF States, Objects
  <2>3. Moved(o, r, r.task) /\ (o.result = Success => q.path = None)
    <3> HIDE DEF r
    <3> QED
      BY <1>3, <2>1, <2>2, Approach DEF r
  <2>4. /\ o \in Outcomes /\ q \in States /\ Alone(id, q) /\ q.saved[id] = 0
        /\ ~brings
    BY <1>3, <1>7, <2>3 DEF Moved, Outcomes, WorkerIn, WorkerOk, Saved, SameButSaved, Alone
  <2>5. o.result = Failure => o \in Out
    BY <2>4 DEF WorkerOut, WorkerOk, Running, Success, Failure
  <2>6. Saved(id, 3, q, Saving(id, 3, q)) /\ Saved(id, 4, q, Saving(id, 4, q))
    BY <1>1, <2>4, SavingIndex
  <2>7. o.result = Running => [state |-> Saving(id, 3, q), result |-> Running] \in Out
    BY <2>4, <2>6 DEF WorkerOut, WorkerOk, Outcomes, Saved, SameButSaved
  <2>8. o.result = Success => Saving(id, 4, q) \in G /\ Saving(id, 4, q).saved[id] = 4
    BY <2>3, <2>4, <2>6 DEF WorkerIn, WorkerOk, Saved, SameButSaved
  <2> HIDE DEF id, G, Out
  <2> QED
    BY <2>4, <2>5, <2>7, <2>8 DEF AfterOk, Outcomes, Passed, Thrown, Running, Success, Failure
<1>8. ASSUME NEW t \in G, t.saved[id] = 4, NEW o \in LoadResource[Saving(id, 0, t)]
      PROVE  AfterOk(o, id, Failure, 4, G, Out)
  <2> DEFINE r == Saving(id, 0, t)
             q == o.state
  <2>1. Did(o, r) /\ (r.cargo = Capacity => q = r /\ o.result = Success)
    BY <1>3, Loading
  <2>2. /\ o \in Outcomes /\ q \in States /\ Alone(id, q) /\ q.saved[id] = 0
        /\ q.path = None
    BY <1>3, <1>8, <2>1 DEF Did, WorkerIn, WorkerOk, Saved, SameButSaved, Outcomes, Alone
  <2>3. brings => ~q.blocked /\ q.cargo = Capacity /\ o.result = Success
    BY <1>3, <2>1 DEF WorkerIn, Saved, SameButSaved
  <2>4. o.result = Failure => o \in Out
    BY <2>2, <2>3 DEF WorkerOut, WorkerOk, Running, Success, Failure
  <2>5. Saved(id, 4, q, Saving(id, 4, q)) /\ Saved(id, 5, q, Saving(id, 5, q))
    BY <1>1, <2>2, SavingIndex
  <2>6. o.result = Running => [state |-> Saving(id, 4, q), result |-> Running] \in Out
    BY <2>2, <2>3, <2>5
    DEF WorkerOut, WorkerOk, Outcomes, Saved, SameButSaved, Running, Success
  <2>7. Saving(id, 5, q) \in G /\ Saving(id, 5, q).saved[id] = 5
    BY <2>2, <2>3, <2>5 DEF WorkerIn, WorkerOk, Saved, SameButSaved, Led
  <2> HIDE DEF id, G, Out
  <2> QED
    BY <2>2, <2>4, <2>6, <2>7 DEF AfterOk, Outcomes, Passed, Thrown, Running, Success, Failure
<1>9. ASSUME NEW t \in G, t.saved[id] = 5, NEW o \in ClearHaulTask[Saving(id, 0, t)]
      PROVE  AfterOk(o, id, Failure, 5, G, Out)
  <2> DEFINE r == Saving(id, 0, t)
             q == o.state
             u == Saving(id, 6, q)
  <2>1. Did(o, r) /\ o.result = Success /\ q.cargo = r.cargo
    BY <1>3, Clearing
  <2>2. /\ o \in Outcomes /\ q \in States /\ Alone(id, q) /\ q.saved[id] = 0
        /\ q.path = None /\ (brings => ~q.blocked /\ q.cargo = Capacity)
    BY <1>3, <1>9, <2>1 DEF Did, WorkerIn, WorkerOk, Saved, SameButSaved, Outcomes, Alone
  <2>3. Saved(id, 6, q, u) /\ Saving(id, 0, u) = q
    BY <1>1, <2>2, SavingIndex, SavingTwice
  <2>4. Clear(q)
    BY <1>1, <2>2, NothingSaved
  <2>5. Using(q) /\ q.saved["dump_or_build_or_upgrade"] = 0
    <3>1. q.saved["dump_or_build_or_upgrade"] = 0
      BY <1>1, <2>4 DEF Clear
    <3>2. /\ Saved("dump_or_build_or_upgrade", 0, q, Saving("dump_or_build_or_upgrade", 0, q))
          /\ Saving("dump_or_build_or_upgrade", 0, q) = q
      BY <1>1, <2>2, <3>1, SavingIndex, SavingTwice
    <3>3. Dumping(q)
      BY <1>1, <2>2, <2>4, NothingSaved DEF Dumping, Delivery
    <3> QED
      BY <3>1, <3>2, <3>3 DEF Using, Dumping
  <2>6. u \in G /\ u.saved[id] = 6
    BY <2>2, <2>3, <2>5 DEF WorkerIn, WorkerOk, Saved, SameButSaved, Led
  <2> HIDE DEF id, G, Out
  <2> QED
    BY <2>1, <2>2, <2>6 DEF AfterOk, Outcomes, Passed, Thrown, Running, Success, Failure
<1>10. ASSUME NEW t \in G, t.saved[id] = 6, NEW o \in UseEnergy[Saving(id, 0, t)]
       PROVE  AfterOk(o, id, Failure, 6, G, Out)
  <2> DEFINE r == Saving(id, 0, t)
             q == o.state
  <2>1. r \in UseIn(brings)
    <3>1. t \in States /\ (brings => Led(t))
      BY DEF WorkerIn
    <3>2. brings => Led(r)
      BY <1>1, <3>1, LedOn
    <3> QED
      BY <1>3, <1>10, <3>2 DEF WorkerIn, WorkerOk, UseIn, Saved, SameButSaved
  <2>2. o \in UseOut(brings)
    BY <2>1, UsingEnergy
  <2>3. o \in Outcomes /\ q \in States
    BY <2>2 DEF UseOut, Outcomes
  <2>4. CASE o.result = Running
    <3>1. Using(q) /\ q.saved["dump_or_build_or_upgrade"] # 5
      BY <2>2, <2>4 DEF UseOut
    <3>2. q.saved[id] = 0
      BY <1>1, <2>3, <3>1, UsingOnly
    <3>3. Saved(id, 6, q, Saving(id, 6, q)) /\ Saving(id, 0, Saving(id, 6, q)) = q
      BY <1>1, <2>3, <3>2, SavingIndex, SavingTwice
    <3>4. brings => Led(Saving(id, 6, q))
      BY <1>1, <2>2, <2>3, LedOn DEF UseOut
    <3>5. [state |-> Saving(id, 6, q), result |-> Running] \in Out
      BY <2>3, <3>1, <3>3, <3>4 DEF WorkerOut, WorkerOk, Outcomes, Saved, SameButSaved
    <3> HIDE DEF id, G, Out
    <3> QED
      BY <2>3, <2>4, <3>5 DEF AfterOk, Outcomes, Passed, Thrown, Running, Success, Failure
  <2>5. CASE o.result # Running
    <3>1. Alone(id, q) /\ q.saved[id] = 0 /\ ~brings
      BY <1>1, <2>2, <2>5, NothingSaved DEF UseOut
    <3>2. o \in Out
      BY <2>3, <2>5, <3>1 DEF WorkerOut, WorkerOk
    <3>3. Saved(id, 7, q, Saving(id, 7, q))
      BY <1>1, <2>3, SavingIndex
    <3>4. Saving(id, 7, q) \in G /\ Saving(id, 7, q).saved[id] = 7
      BY <3>1, <3>3 DEF WorkerIn, WorkerOk, Saved, SameButSaved
    <3> HIDE DEF id, G, Out
    <3> QED
      BY <2>3, <2>5, <3>2, <3>4 DEF AfterOk, Outcomes, Passed, Thrown, Running, Success, Failure
  <2> QED
    BY <2>4, <2>5
<1>11. ASSUME NEW t \in G, t.saved[id] >= 7
       PROVE  [state |-> Saving(id, 0, t), result |-> Success] \in Out
  <2>1. t.saved[id] = 7 /\ ~brings
    BY <1>11 DEF WorkerIn, WorkerOk
  <2> QED
    BY <1>3, <2>1
    DEF WorkerOut, WorkerOk, Outcomes, Saved, SameButSaved, Running, Success, Failure
<1>12. s.saved[id] \in Nat
  BY <1>2 DEF Counts
<1> HIDE DEF G, Out, id
<1>13. Turn(n0, id, Failure, 0, G, Out)
  BY <1>12, StartRule DEF G
<1>14. Turn(n1, id, Failure, 1, G, Out)
  <2>1. Serves(ClearHaulTask, id, Failure, 0, G, Out)
    BY <1>4 DEF Serves
  <2> QED
    BY <1>2, <1>13, <2>1, ChildRule
<1>15. Turn(n2, id, Failure, 2, G, Out)
  <2>1. Serves(MoveToHome, id, Failure, 1, G, Out)
    BY <1>5 DEF Serves
  <2> QED
    BY <1>2, <1>14, <2>1, ChildRule
<1>16. Turn(n3, id, Failure, 3, G, Out)
  <2>1. Serves(PickSomething, id, Failure, 2, G, Out)
    BY <1>6 DEF Serves
  <2> QED
    BY <1>2, <1>15, <2>1, ChildRule
<1>17. Turn(n4, id, Failure, 4, G, Out)
  <2>1. Serves(MoveToPickup, id, Failure, 3, G, Out)
    BY <1>7 DEF Serves
  <2> QED
    BY <1>2, <1>16, <2>1, ChildRule
<1>18. Turn(n5, id, Failure, 5, G, Out)
  <2>1. Serves(LoadResource, id, Failure, 4, G, Out)
    BY <1>8 DEF Serves
  <2> QED
    BY <1>2, <1>17, <2>1, ChildRule
<1>19. Turn(n6, id, Failure, 6, G, Out)
  <2>1. Serves(ClearHaulTask, id, Failure, 5, G, Out)
    BY <1>9 DEF Serves
  <2> QED
    BY <1>2, <1>18, <2>1, ChildRule
<1>20. Turn(n7, id, Failure, 7, G, Out)
  <2>1. Serves(UseEnergy, id, Failure, 6, G, Out)
    BY <1>10 DEF Serves
  <2> QED
    BY <1>2, <1>19, <2>1, ChildRule
<1>21. \A o \in Tick(n7) : o \in Out
  BY <1>2, <1>11, <1>20, EndRule
<1> QED
  BY <1>21 DEF HaulEnergy, SequenceNode, Out, id, WorkerIn

-----------------------------------------------------------------------------
(* The invariant: what creeps remember fits the place in their tree at which *)
(* they go on.                                                               *)
TypeOK ==
  /\ home \in Bases /\ alive \subseteq Wanted
  /\ IsFiniteSet(alive) /\ roster \subseteq Creeps /\ IsFiniteSet(roster)
  /\ memory \in [Creeps -> [saved : [Nodes -> Nat], task : Pickups \cup {None},
                            dest : Structures \cup {None}, path : Objects \cup {"room", None}]]
  /\ body \in [Creeps -> [at : Objects \cup {"inside"}, cargo : 0..Capacity]]
  /\ content \in [Pickups -> Nat]
  /\ open \in [Pickups -> Nat] /\ expiring \in [Pickups -> Nat]
  /\ need \in Nat /\ site \in BOOLEAN /\ calm \in BOOLEAN

(* The places at which a tree may go on *)
InTree(c, s) ==
  IF c \in Haulers THEN HaulerOk(s) /\ s.saved["haul_task"] \in {0, 2, 3, 4}
  ELSE WorkerOk(s) /\ s.saved["haul_energy"] \in {0, 1, 3, 4, 6}

(* Each creep is at a place in its tree, whether it runs, waits or is dead.  *)
InTrees == \A c \in Creeps : InTree(c, View(c, FALSE))

Inv == TypeOK /\ InTrees

(* What places in a tree depend on *)
Like(s, t) ==
  t.saved = s.saved /\ t.task = s.task /\ t.dest = s.dest /\ t.path = s.path
    /\ t.cargo = s.cargo

(* States that are alike are so after an index has been read. *)
LEMMA LikeWhenSaved ==
  ASSUME NEW s \in States, NEW t \in States, Like(s, t), NEW id \in Nodes
  PROVE  /\ Like(Saving(id, 0, s), Saving(id, 0, t))
         /\ Saving(id, 0, s) \in States /\ Saving(id, 0, t) \in States
<1>1. Saving(id, 0, s).saved = [s.saved EXCEPT ![id] = 0]
      /\ Saving(id, 0, t).saved = [t.saved EXCEPT ![id] = 0]
  BY DEF Saving, States
<1>2. Saved(id, 0, s, Saving(id, 0, s)) /\ Saved(id, 0, t, Saving(id, 0, t))
  BY SavingIndex
<1> QED
  BY <1>1, <1>2 DEF Like, Saved, SameButSaved

(* They are at the same place of the use of energy, *)
LEMMA LikeUsing ==
  ASSUME NEW s \in States, NEW t \in States, Like(s, t), Using(s)
  PROVE  Using(t)
<1> DEFINE id == "dump_or_build_or_upgrade"
           r == Saving(id, 0, s)
           q == Saving(id, 0, t)
<1>1. Like(r, q)
  BY LikeWhenSaved DEF Nodes
<1>2. Alone(id, s) => Alone(id, t)
  BY DEF Like, Alone
<1>3. /\ Dumping(r) => Dumping(q)
      /\ Building(r) => Building(q)
      /\ Upgrading(r) => Upgrading(q)
  BY <1>1 DEF Like, Alone, Dumping, Building, Upgrading
<1> QED
  BY <1>1, <1>2, <1>3 DEF Like, Using

(* and at the same place of the whole tree. *)
LEMMA LikeInTree ==
  ASSUME NEW s \in States, NEW t \in States, Like(s, t), NEW c, InTree(c, s)
  PROVE  InTree(c, t)
<1> DEFINE id == "haul_energy"
<1>1. CASE c \in Haulers
  BY <1>1 DEF InTree, HaulerOk, Like, Alone
<1>2. CASE c \notin Haulers
  <2>1. Like(Saving(id, 0, s), Saving(id, 0, t))
        /\ Saving(id, 0, s) \in States /\ Saving(id, 0, t) \in States
    BY LikeWhenSaved DEF Nodes
  <2>2. Using(Saving(id, 0, s)) => Using(Saving(id, 0, t))
    BY <2>1, LikeUsing
  <2>3. Alone(id, s) => Alone(id, t)
    BY DEF Like, Alone
  <2> QED
    BY <1>2, <2>1, <2>2, <2>3 DEF InTree, WorkerOk, Like
<1> QED
  BY <1>1, <1>2

(* With nothing saved and no path, a creep is at the root of its tree. *)
LEMMA FreshInTree ==
  ASSUME NEW s \in States, Clear(s), s.path = None, NEW c
  PROVE  InTree(c, s)
<1>1. "haul_task" \in Nodes /\ "haul_energy" \in Nodes
  BY DEF Nodes
<1>2. Alone("haul_task", s) /\ Alone("haul_energy", s)
      /\ s.saved["haul_task"] = 0 /\ s.saved["haul_energy"] = 0
  BY <1>1, NothingSaved
<1> QED
  BY <1>2 DEF InTree, HaulerOk, WorkerOk

(* A tree is ticked in a state of its type. *)
LEMMA Viewing ==
  ASSUME TypeOK, NEW c \in Creeps, NEW blocked \in BOOLEAN
  PROVE  View(c, blocked) \in States /\ Like(View(c, FALSE), View(c, blocked))
BY DEF TypeOK, View, States, Like

(* Whatever a worker does, it is not in the tree of a hauler. *)
LEMMA NoHauler ==
  ASSUME NEW s \in States, WorkerOk(s)
  PROVE  s.saved["haul_task"] = 0
<1>1. CASE s.saved["haul_energy"] # 6
  BY <1>1 DEF WorkerOk, Alone, Nodes
<1>2. CASE s.saved["haul_energy"] = 6
  <2> DEFINE r == Saving("haul_energy", 0, s)
  <2>1. Using(r) /\ r \in States /\ r.saved["haul_task"] = s.saved["haul_task"]
    BY <1>2, SavingIndex DEF WorkerOk, Nodes, Saved
  <2> QED
    BY <2>1, UsingOnly
<1> QED
  BY <1>1, <1>2

(* Where a tree in state s is taking its creep, as Goal says of a creep's *)
GoalIn(s) ==
  LET At(n, i) == s.saved[n] = i
  IN  IF At("haul_task", 4) THEN Dropoff
      ELSE IF At("dump_energy", 2) \/ At("build_construction_site", 1)
                \/ At("upgrade_controller", 1) THEN s.dest
      ELSE None

(* What BringsLoad says of the state of a tree, but for the load *)
Brings(s) ==
  /\ s.saved["haul_task"] >= 3 \/ s.saved["haul_energy"] >= 4
  /\ s.path \in {None, GoalIn(s)}

(* A run keeps a creep in its tree.  A creep with a full load on its way to  *)
(* where it gives it is at such a place again, or is no longer full.         *)
LEMMA CreepRunning ==
  ASSUME HaulingAssumption, TypeOK, NEW c \in alive, InTree(c, View(c, FALSE)),
         NEW blocked \in BOOLEAN, NEW o \in Behavior(c)[View(c, blocked)]
  PROVE  /\ o.state \in States /\ InTree(c, o.state)
         /\ BringsLoad(c) /\ ~blocked =>
              o.state.cargo < Capacity \/ Brings(o.state)
<1> DEFINE s == View(c, blocked)
<1>1. c \in Creeps /\ c \in Wanted
  BY DEF TypeOK, Wanted, Creeps
<1>2. s \in States /\ InTree(c, s)
  BY <1>1, Viewing, LikeInTree
<1>3. s.saved = memory[c].saved /\ s.cargo = body[c].cargo /\ s.blocked = blocked
  BY DEF View
<1>4. BringsLoad(c) => s.cargo = Capacity /\ Brings(s)
  <2>1. /\ s.path = memory[c].path /\ s.dest = memory[c].dest
        /\ GoalIn(s) = Goal(c)
    BY DEF View, GoalIn, Goal
  <2> QED
    BY <1>2, <1>3, <2>1 DEF BringsLoad, HasFetched, Brings, Free, States, HaulingAssumption
<1>5. CASE c \in Haulers
  <2>1. HaulerOk(s) /\ s.saved["haul_task"] \in {0, 2, 3, 4} /\ s.saved["haul_energy"] = 0
    BY <1>2, <1>5 DEF InTree, HaulerOk, Alone, Nodes
  <2>2. Dropoff = "storage"
    BY <1>1, <1>5 DEF Wanted, HaulingAssumption, Dropoff
  <2>3. s \in HaulerIn(FALSE) /\ (BringsLoad(c) /\ ~blocked => s \in HaulerIn(TRUE))
    BY <1>2, <1>3, <1>4, <2>1, <2>2 DEF HaulerIn, Brings
  <2>4. o \in HaulerOut(FALSE) /\ (BringsLoad(c) /\ ~blocked => o \in HaulerOut(TRUE))
    BY <1>5, <2>3, HaulingTask DEF Behavior
  <2>5. o.state.saved["haul_task"] \in {3, 4} => Brings(o.state)
    BY <2>4 DEF HaulerOut, HaulerOk, Brings, GoalIn
  <2> QED
    BY <1>5, <2>4, <2>5 DEF HaulerOut, InTree, Outcomes
<1>6. CASE c \notin Haulers
  <2>1. WorkerOk(s) /\ s.saved["haul_energy"] \in {0, 1, 3, 4, 6}
    BY <1>2, <1>6 DEF InTree
  <2>2. s.saved["haul_task"] = 0
    BY <1>2, <2>1, NoHauler
  <2>3. s \in WorkerIn(FALSE) /\ (BringsLoad(c) /\ ~blocked => s \in WorkerIn(TRUE))
    <3>1. BringsLoad(c) => Led(s)
      BY <1>4, <2>2 DEF Brings, GoalIn, Led
    <3> QED
      BY <1>2, <1>3, <1>4, <2>1, <2>2, <3>1 DEF WorkerIn, Brings
  <2>4. o \in WorkerOut(FALSE) /\ (BringsLoad(c) /\ ~blocked => o \in WorkerOut(TRUE))
    BY <1>6, <2>3, HaulingEnergy DEF Behavior
  <2>5. o.state \in States /\ o.state.saved["haul_task"] = 0
    BY <2>4, NoHauler DEF WorkerOut, Outcomes
  <2>6. BringsLoad(c) /\ ~blocked => Brings(o.state)
    BY <2>4, <2>5 DEF WorkerOut, Led, Brings, GoalIn
  <2> QED
    BY <1>6, <2>4, <2>5, <2>6 DEF WorkerOut, InTree
<1> QED
  BY <1>5, <1>6

(* The creeps of a finite set can carry a finite number of units. *)
LEMMA LoadsToFetch ==
  ASSUME HaulingAssumption, TypeOK, NEW p \in Pickups, NEW cs \in SUBSET Creeps, IsFiniteSet(cs)
  PROVE  Loads(p, cs) \in Nat
<1> DEFINE all == UNION {{c} \X (1..Free(body[c])) : c \in {d \in cs : memory[d].task = p}}
<1>1. all \subseteq cs \X (1..Capacity)
  <2>1. ASSUME NEW c \in cs PROVE 1..Free(body[c]) \subseteq 1..Capacity
    BY DEF Free, TypeOK, HaulingAssumption
  <2> QED
    BY <2>1
<1>2. IsFiniteSet(cs \X (1..Capacity))
  <2>1. IsFiniteSet(1..Capacity)
    BY FS_Interval DEF HaulingAssumption
  <2> QED
    BY <2>1, FS_Product
<1>3. Cardinality(all) \in Nat
  BY <1>1, <1>2, FS_Subset, FS_CardinalityType
<1>4. Coming(p, cs) \in Nat
  BY <1>3 DEF Coming
<1>5. content[p] \in Nat /\ Capacity \in Nat \ {0}
  BY DEF TypeOK, HaulingAssumption
<1>6. ASSUME NEW n \in Nat PROVE n \div Capacity \in Nat
  BY <1>5, <1>6
<1> QED
  BY <1>4, <1>5, <1>6 DEF Loads

(* A creep is at a place in its tree in the next state too when its memory   *)
(* and its load stay, or when it is a new one.                               *)
LEMMA InTreeNext ==
  ASSUME home' = home, NEW c \in Creeps, NEW s, View(c, FALSE)' = s, InTree(c, s)
  PROVE  InTree(c, View(c, FALSE))'
BY DEF InTree, HaulerOk, Dropoff

(* So all of them are after a step that runs no creep. *)
LEMMA InTreesNext ==
  ASSUME Inv, TypeOK', home' = home,
         \A c \in Creeps : (memory'[c] = memory[c] /\ body'[c].cargo = body[c].cargo)
                             \/ memory'[c] = Fresh
  PROVE  InTrees'
<1> SUFFICES ASSUME NEW c \in Creeps
             PROVE  InTree(c, View(c, FALSE))'
  BY DEF InTrees
<1> DEFINE s == View(c, FALSE)
           t == View(c, FALSE)'
<1>1. s \in States /\ InTree(c, s)
  BY Viewing DEF Inv, InTrees
<1>2. t \in States
  BY DEF TypeOK, View, States
<1>3. CASE memory'[c] = memory[c] /\ body'[c].cargo = body[c].cargo
  <2>1. Like(s, t)
    BY <1>3 DEF Like, View
  <2>2. InTree(c, t)
    BY <1>1, <1>2, <2>1, LikeInTree
  <2> QED
    BY <2>2, InTreeNext
<1>4. CASE memory'[c] = Fresh
  <2>1. t.saved = Fresh.saved /\ t.path = Fresh.path
    BY <1>4 DEF View
  <2>2. Clear(t) /\ t.path = None
    BY <2>1 DEF Fresh, Clear
  <2>3. InTree(c, t)
    BY <1>2, <2>2, FreshInTree
  <2> QED
    BY <2>3, InTreeNext
<1> QED
  BY <1>3, <1>4

(* A run of a creep *)
LEMMA RunsStep ==
  ASSUME HaulingAssumption, Inv, NEW c \in Creeps, NEW blocked \in BOOLEAN,
         CreepRuns(c, blocked)
  PROVE  Inv'
<1> DEFINE v == View(c, blocked)
<1>1. /\ c \in alive /\ UNCHANGED <<alive, roster, home, calm>>
  BY DEF CreepRuns
<1>2. PICK o \in Behavior(c)[v] :
        /\ memory' = [memory EXCEPT ![c] =
             [saved |-> o.state.saved, task |-> o.state.task, dest |-> o.state.dest,
              path |-> o.state.path]]
        /\ body' = [body EXCEPT ![c] = [at |-> o.state.at, cargo |-> o.state.cargo]]
        /\ content' = o.state.content /\ open' = o.state.open /\ expiring' = o.state.expiring
        /\ need' = o.state.need /\ site' = o.state.site
  BY DEF CreepRuns
<1>3. o.state \in States /\ InTree(c, o.state)
  BY <1>1, CreepRunning DEF Inv, InTrees
<1>4. memory'[c] = [saved |-> o.state.saved, task |-> o.state.task, dest |-> o.state.dest,
                    path |-> o.state.path]
      /\ body'[c] = [at |-> o.state.at, cargo |-> o.state.cargo]
  BY <1>2 DEF Inv, TypeOK
<1>5. TypeOK'
  <2>1. memory'[c] \in [saved : [Nodes -> Nat], task : Pickups \cup {None},
                        dest : Structures \cup {None}, path : Objects \cup {"room", None}]
        /\ body'[c] \in [at : Objects \cup {"inside"}, cargo : 0..Capacity]
    BY <1>3, <1>4 DEF States
  <2>2. /\ content' \in [Pickups -> Nat] /\ open' \in [Pickups -> Nat]
        /\ expiring' \in [Pickups -> Nat] /\ need' \in Nat /\ site' \in BOOLEAN
    BY <1>2, <1>3 DEF States
  <2> QED
    BY <1>1, <1>2, <1>4, <2>1, <2>2 DEF Inv, TypeOK, Wanted
<1>6. ASSUME NEW d \in Creeps
      PROVE  InTree(d, View(d, FALSE))'
  <2> DEFINE t == View(d, FALSE)'
  <2>1. t \in States
    BY <1>5 DEF TypeOK, View, States
  <2>2. CASE d = c
    <3>1. Like(o.state, t)
      BY <1>4, <2>2 DEF Like, View
    <3>2. InTree(c, t)
      BY <1>3, <2>1, <3>1, LikeInTree
    <3> QED
      BY <1>1, <2>2, <3>2, InTreeNext
  <2>3. CASE d # c
    <3>1. memory'[d] = memory[d] /\ body'[d] = body[d]
      BY <1>2, <2>3 DEF Inv, TypeOK
    <3>2. Like(View(d, FALSE), t)
      BY <3>1 DEF Like, View
    <3>3. View(d, FALSE) \in States /\ InTree(d, View(d, FALSE))
      BY Viewing DEF Inv, InTrees
    <3>4. InTree(d, t)
      BY <2>1, <3>2, <3>3, LikeInTree
    <3> QED
      BY <1>1, <3>4, InTreeNext
  <2> QED
    BY <2>2, <2>3
<1> QED
  BY <1>5, <1>6 DEF Inv, InTrees

(* A round of requests *)
LEMMA RequestsStep ==
  ASSUME HaulingAssumption, Inv, NEW p \in Pickups,
         Requests(p) \/ RequestsExpire(p)
  PROVE  Inv'
<1>1. UNCHANGED <<creeps, roster, room, calm>>
      /\ open' \in [Pickups -> Nat] /\ expiring' \in [Pickups -> Nat]
  <2>1. ASSUME NEW n \in Nat, Ask(p, n)
        PROVE  UNCHANGED <<creeps, roster, room, calm>>
               /\ open' \in [Pickups -> Nat] /\ expiring' \in [Pickups -> Nat]
    BY <2>1 DEF Ask, Inv, TypeOK
  <2>2. CASE RequestHauling(p)
    <3>1. alive \subseteq Creeps /\ IsFiniteSet(alive)
      BY DEF Inv, TypeOK, Wanted, Creeps
    <3>2. Loads(p, alive) \in Nat
      BY <3>1, LoadsToFetch DEF Inv
    <3> QED
      BY <2>1, <2>2, <3>2 DEF RequestHauling
  <2>3. CASE RequestDropped(p)
    <3>1. roster \subseteq Creeps /\ IsFiniteSet(roster)
      BY DEF Inv, TypeOK
    <3>2. Loads(p, roster) \in Nat
      BY <3>1, LoadsToFetch DEF Inv
    <3> QED
      BY <2>1, <2>3, <3>2 DEF RequestDropped
  <2>4. CASE RequestGrave(p)
    BY <2>1, <2>4 DEF RequestGrave
  <2>5. CASE RequestsExpire(p)
    BY <2>5 DEF RequestsExpire, Inv, TypeOK
  <2> QED
    BY <2>2, <2>3, <2>4, <2>5 DEF Requests
<1>2. TypeOK'
  BY <1>1 DEF Inv, TypeOK, Wanted, creeps, room
<1> QED
  BY <1>1, <1>2, InTreesNext DEF Inv, creeps, room

(* What happens to creeps *)
LEMMA CreepsStep ==
  ASSUME HaulingAssumption, Inv, NEW c \in Creeps, Spawns(c) \/ Dies(c) \/ MemoryExpires(c)
  PROVE  Inv'
<1>1. IsFiniteSet(alive) /\ alive \subseteq Wanted
  BY DEF Inv, TypeOK
<1>2. CASE Spawns(c)
  <2>1. IsFiniteSet(alive') /\ alive' \subseteq Wanted
    BY <1>1, <1>2, FS_AddElement DEF Spawns
  <2>2. TypeOK'
    BY <1>2, <2>1 DEF Spawns, Inv, TypeOK, Wanted, base, room, HaulingAssumption
  <2>3. \A d \in Creeps : memory'[d] = memory[d]
                          /\ (body'[d].cargo = body[d].cargo \/ memory[d] = Fresh)
    BY <1>2 DEF Spawns, Inv, TypeOK
  <2> QED
    BY <1>2, <2>2, <2>3, InTreesNext DEF Spawns, room, Inv
<1>3. CASE Dies(c)
  <2>1. IsFiniteSet(alive') /\ alive' \subseteq Wanted
    BY <1>1, <1>3, FS_RemoveElement DEF Dies
  <2>2. TypeOK'
    BY <1>3, <2>1 DEF Dies, Inv, TypeOK, Wanted, base, room
  <2> QED
    BY <1>3, <2>2, InTreesNext DEF Dies, room, Inv
<1>4. CASE MemoryExpires(c)
  <2>1. Fresh \in [saved : [Nodes -> Nat], task : Pickups \cup {None},
                   dest : Structures \cup {None}, path : Objects \cup {"room", None}]
    BY DEF Fresh
  <2>2. memory' \in [Creeps -> [saved : [Nodes -> Nat], task : Pickups \cup {None},
                   dest : Structures \cup {None}, path : Objects \cup {"room", None}]]
    BY <1>4, <2>1 DEF MemoryExpires, Inv, TypeOK
  <2>3. TypeOK'
    BY <1>4, <2>2 DEF MemoryExpires, Inv, TypeOK, Wanted, base, room
  <2>4. \A d \in Creeps : memory'[d] = memory[d] \/ memory'[d] = Fresh
    BY <1>4 DEF MemoryExpires, Inv, TypeOK
  <2> QED
    BY <1>4, <2>3, <2>4, InTreesNext DEF MemoryExpires, room, Inv
<1> QED
  BY <1>2, <1>3, <1>4

(* Whatever else happens in the base *)
LEMMA BaseStep ==
  ASSUME HaulingAssumption, Inv,
         \/ \E p \in Pickups : Produced(p) \/ Decays(p)
         \/ UpdateHaulers \/ GlobalReset \/ EnergyUsed \/ SitePlanned \/ CalmsDown
  PROVE  Inv'
<1>1. UNCHANGED creeps /\ home' = home
  BY DEF Produced, Decays, UpdateHaulers, GlobalReset, EnergyUsed, SitePlanned, CalmsDown, room
<1>2. TypeOK'
  <2>1. CASE \E p \in Pickups : Produced(p) \/ Decays(p)
    BY <2>1 DEF Produced, Decays, Inv, TypeOK, Wanted, creeps, base
  <2>2. CASE UpdateHaulers \/ GlobalReset
    BY <2>2 DEF UpdateHaulers, GlobalReset, Inv, TypeOK, Wanted, Creeps, creeps, room
  <2>3. CASE EnergyUsed
    BY <2>3 DEF EnergyUsed, Inv, TypeOK, Wanted, creeps, base
  <2>4. CASE SitePlanned
    BY <2>4 DEF SitePlanned, Inv, TypeOK, Wanted, creeps, base
  <2>5. CASE CalmsDown
    BY <2>5 DEF CalmsDown, Inv, TypeOK, Wanted, creeps, base, room
  <2> QED
    BY <2>1, <2>2, <2>3, <2>4, <2>5
<1> QED
  BY <1>1, <1>2, InTreesNext DEF Inv, creeps

(* The invariant holds at first. *)
LEMMA AtFirst == HaulingAssumption /\ Init => Inv
<1> SUFFICES ASSUME HaulingAssumption, Init
             PROVE  Inv
  OBVIOUS
<1>1. TypeOK
  <2>1. IsFiniteSet({})
    BY FS_EmptySet
  <2>2. memory \in [Creeps -> [saved : [Nodes -> Nat], task : Pickups \cup {None},
                              dest : Structures \cup {None}, path : Objects \cup {"room", None}]]
    <3>1. Fresh \in [saved : [Nodes -> Nat], task : Pickups \cup {None},
                    dest : Structures \cup {None}, path : Objects \cup {"room", None}]
      BY DEF Fresh
    <3> QED
      BY <3>1 DEF Init
  <2>3. body \in [Creeps -> [at : Objects \cup {"inside"}, cargo : 0..Capacity]]
    BY DEF Init, HaulingAssumption
  <2> QED
    BY <2>1, <2>2, <2>3 DEF Init, TypeOK
<1>2. ASSUME NEW c \in Creeps
      PROVE  InTree(c, View(c, FALSE))
  <2>1. View(c, FALSE) \in States
    BY <1>1, Viewing
  <2>2. Clear(View(c, FALSE)) /\ View(c, FALSE).path = None
    BY DEF Init, View, Fresh, Clear
  <2> QED
    BY <2>1, <2>2, FreshInTree
<1> QED
  BY <1>1, <1>2 DEF Inv, InTrees

(* Each step keeps it. *)
LEMMA EachStep == HaulingAssumption /\ Inv /\ [Next]_vars => Inv'
<1> SUFFICES ASSUME HaulingAssumption, Inv, [Next]_vars
             PROVE  Inv'
  OBVIOUS
<1>1. CASE \E c \in Creeps, blocked \in BOOLEAN : CreepRuns(c, blocked)
  BY <1>1, RunsStep
<1>2. CASE \E c \in Creeps : Spawns(c) \/ Dies(c) \/ MemoryExpires(c)
  BY <1>2, CreepsStep
<1>3. CASE \E p \in Pickups : Requests(p) \/ RequestsExpire(p)
  BY <1>3, RequestsStep
<1>4. CASE \/ \E p \in Pickups : Produced(p) \/ Decays(p)
           \/ UpdateHaulers \/ GlobalReset \/ EnergyUsed \/ SitePlanned \/ CalmsDown
  BY <1>4, BaseStep
<1>5. CASE UNCHANGED vars
  <2>1. TypeOK'
    BY <1>5 DEF Inv, TypeOK, Wanted, vars, creeps, base, room
  <2> QED
    BY <1>5, <2>1, InTreesNext DEF Inv, vars, creeps, room
<1> QED
  BY <1>1, <1>2, <1>3, <1>4, <1>5 DEF Next

(* The state variables have their types; nobody carries less than nothing or *)
(* more than its capacity, no pickup holds and no topic counts less than     *)
(* nothing, and only creeps that are wanted in the base are there.           *)
THEOREM TypeCorrect == Spec => []TypeOK
<1>1. Init => Inv
  BY AtFirst, HaulingAssumption
<1>2. Inv /\ [Next]_vars => Inv'
  BY EachStep, HaulingAssumption
<1>3. Inv => TypeOK
  BY DEF Inv
<1> QED
  BY <1>1, <1>2, <1>3, PTL DEF Spec

-----------------------------------------------------------------------------
(* A creep that has been at its pickup is not led there again. *)
LEMMA Following ==
  ASSUME HaulingAssumption, Inv, NEW c \in alive, HasFetched(c)
  PROVE  memory[c].path \in {None} \cup Structures
<1> DEFINE s == View(c, FALSE)
<1>1. c \in Creeps /\ s \in States /\ InTree(c, s)
  BY Viewing DEF Inv, InTrees, TypeOK, Wanted, Creeps
<1>2. /\ memory[c].path = s.path
      /\ s.saved["haul_task"] >= 3 \/ s.saved["haul_energy"] >= 4
  BY DEF View, HasFetched
<1> HIDE DEF s
<1>3. CASE c \in Haulers
  <2>1. HaulerOk(s) /\ s.saved["haul_task"] \in {0, 2, 3, 4} /\ s.saved["haul_energy"] = 0
    BY <1>1, <1>3 DEF InTree, HaulerOk, Alone, Nodes
  <2> QED
    BY <1>2, <2>1 DEF HaulerOk, Dropoff, Structures
<1>4. CASE c \notin Haulers
  <2>1. WorkerOk(s) /\ s.saved["haul_energy"] \in {0, 1, 3, 4, 6} /\ s.saved["haul_task"] = 0
    BY <1>1, <1>4, NoHauler DEF InTree
  <2>2. CASE s.saved["haul_energy"] = 6
    <3> DEFINE r == Saving("haul_energy", 0, s)
    <3>1. Using(r) /\ r.path = s.path
      BY <1>1, <2>1, <2>2, SavingIndex DEF WorkerOk, Nodes, Saved, SameButSaved
    <3> QED
      BY <1>2, <3>1 DEF Using, Delivery
  <2>3. CASE s.saved["haul_energy"] # 6
    BY <1>2, <2>1, <2>3 DEF WorkerOk
  <2> QED
    BY <2>2, <2>3
<1> QED
  BY <1>3, <1>4

(* A creep that has been at its pickup, and has not begun another round of   *)
(* its tree, is never led by the keys of a path to a pickup or home: only to *)
(* what it may bring its load to.  Whatever keys no path, a way home or a    *)
(* lost task have left in its memory, the arrival has cleared them.          *)
THEOREM FollowsItsPath == Spec => []PathsFollowed
<1>1. Init => Inv
  BY AtFirst, HaulingAssumption
<1>2. Inv /\ [Next]_vars => Inv'
  BY EachStep, HaulingAssumption
<1>3. Inv => PathsFollowed
  BY Following, HaulingAssumption DEF PathsFollowed
<1> QED
  BY <1>1, <1>2, <1>3, PTL DEF Spec

-----------------------------------------------------------------------------
(* A base keeps its storage, or has none for good. *)
LEMMA HomeStays ==
  ASSUME [Next]_vars
  PROVE  home' = home
BY DEF Next, vars, CreepRuns, Requests, RequestHauling, RequestDropped, RequestGrave, Ask,
       RequestsExpire, UpdateHaulers, GlobalReset, Spawns, Dies, MemoryExpires, Produced,
       Decays, EnergyUsed, SitePlanned, CalmsDown, room

(* In a step of a calm base, the load of a full creep is on its way or given *)
(* from.                                                                     *)
LEMMA Delivering ==
  ASSUME HaulingAssumption, Inv, [Next]_vars, NEW c \in alive, calm, BringsLoad(c)
  PROVE  BringsLoad(c)' \/ Free(body'[c]) > 0
<1>1. c \in Creeps /\ body[c].cargo \in 0..Capacity /\ Capacity \in Nat
  BY DEF Inv, TypeOK, Wanted, Creeps, HaulingAssumption
<1>2. CASE memory'[c] = memory[c] /\ body'[c] = body[c]
  <2>1. home' = home
    BY HomeStays
  <2> QED
    BY <1>2, <2>1 DEF BringsLoad, HasFetched, Goal, Dropoff, Free
<1>3. ASSUME NEW d \in Creeps, NEW blocked \in BOOLEAN, CreepRuns(d, blocked)
      PROVE  BringsLoad(c)' \/ Free(body'[c]) > 0
  <2>1. CASE d # c
    <3>1. memory'[c] = memory[c] /\ body'[c] = body[c]
      BY <1>1, <1>3, <2>1 DEF CreepRuns, Inv, TypeOK
    <3> QED
      BY <1>2, <3>1
  <2>2. CASE d = c
    <3>1. ~blocked
      BY <1>3 DEF CreepRuns
    <3>2. PICK o \in Behavior(c)[View(c, blocked)] :
            /\ memory' = [memory EXCEPT ![c] =
                 [saved |-> o.state.saved, task |-> o.state.task, dest |-> o.state.dest,
                  path |-> o.state.path]]
            /\ body' = [body EXCEPT ![c] = [at |-> o.state.at, cargo |-> o.state.cargo]]
      BY <1>3, <2>2 DEF CreepRuns
    <3>3. /\ o.state \in States
          /\ o.state.cargo < Capacity \/ Brings(o.state)
      BY <1>1, <3>1, CreepRunning DEF Inv, InTrees
    <3>4. /\ memory'[c] = [saved |-> o.state.saved, task |-> o.state.task,
                           dest |-> o.state.dest, path |-> o.state.path]
          /\ body'[c].cargo = o.state.cargo
      BY <1>1, <3>2 DEF Inv, TypeOK
    <3>5. home' = home
      BY <1>3 DEF CreepRuns
    <3>6. /\ memory'[c].saved = o.state.saved /\ memory'[c].path = o.state.path
          /\ Goal(c)' = GoalIn(o.state)
      BY <3>4, <3>5 DEF Goal, GoalIn, Dropoff
    <3>7. o.state.cargo \in 0..Capacity
      BY <3>3 DEF States
    <3> QED
      BY <1>1, <3>3, <3>4, <3>7, <3>6 DEF BringsLoad, HasFetched, Brings, Free
  <2> QED
    BY <2>1, <2>2
<1>4. ASSUME NEW d \in Creeps, Spawns(d) \/ Dies(d) \/ MemoryExpires(d)
      PROVE  memory'[c] = memory[c] /\ body'[c] = body[c]
  BY <1>1, <1>4 DEF Spawns, Dies, MemoryExpires, Inv, TypeOK
<1>5. ASSUME \/ \E p \in Pickups : Requests(p) \/ RequestsExpire(p) \/ Produced(p) \/ Decays(p)
             \/ UpdateHaulers \/ GlobalReset \/ EnergyUsed \/ SitePlanned \/ CalmsDown
      PROVE  memory' = memory /\ body' = body
  BY <1>5 DEF Requests, RequestHauling, RequestDropped, RequestGrave, Ask, RequestsExpire,
              Produced, Decays, UpdateHaulers, GlobalReset, EnergyUsed, SitePlanned, CalmsDown,
              creeps
<1>6. CASE UNCHANGED vars
  BY <1>2, <1>6 DEF vars, creeps
<1> QED
  BY <1>2, <1>3, <1>4, <1>5, <1>6 DEF Next

(* Once nothing gets in its way any more, a full creep that is done at its   *)
(* pickup goes on in its tree until it gives from its load.                  *)
THEOREM DeliversLoads == Spec => LoadsDelivered
<1>1. Init => Inv
  BY AtFirst, HaulingAssumption
<1>2. Inv /\ [Next]_vars => Inv'
  BY EachStep, HaulingAssumption
<1>3. Inv /\ [Next]_vars =>
        [\A c \in alive : calm /\ BringsLoad(c) => BringsLoad(c)' \/ Free(body'[c]) > 0]_vars
  BY Delivering, HaulingAssumption
<1> QED
  BY <1>1, <1>2, <1>3, PTL DEF Spec, LoadsDelivered
=============================================================================

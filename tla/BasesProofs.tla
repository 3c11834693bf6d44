---------------------------- MODULE BasesProofs ----------------------------
(* What holds of the bases for every map and every limit: the types, that no *)
(* two bases mine the same remote, and that a new base keeps its distance.   *)
(*                                                                           *)
(* The invariant carries the separation for Memory.bases as well, because a  *)
(* global reset makes the saved bases the current ones, and with it that     *)
(* Memory holds the objects of the bases themselves, but for those given up, *)
(* until it is parsed anew.  The distance needs                              *)
(* no invariant but the types: it follows the passes of the search, by       *)
(* induction over their number.  That induction, and what it takes to unfold *)
(* a recursive function, is stated about sets and functions instead of       *)
(* operators, so that first-order provers can use it; it comes first.        *)
EXTENDS Bases, FiniteSetTheorems, WellFoundedInduction, TLAPS

(* The least number principle *)
LEMMA LeastNumber ==
  ASSUME NEW T \in SUBSET Nat, T # {}
  PROVE  \E m \in T : \A n \in T : m <= n
<1> DEFINE less == {p \in Nat \X Nat : p[1] < p[2]}
<1>1. IsWellFoundedOn(less, Nat)
  BY NatLessThanWellFounded, Zenon DEF OpToRel
<1>2. PICK m \in T : \A n \in T : <<n, m>> \notin less
  BY <1>1, WFMin, Zenon
<1> QED
  <2>1. \A x, y \in Nat : x < y => <<x, y>> \in less
    OBVIOUS
  <2> HIDE DEF less
  <2>2. m \in Nat /\ \A n \in T : n \in Nat
    OBVIOUS
  <2>3. ASSUME NEW n \in T PROVE m <= n
    <3>1. ~(n < m)
      BY <1>2, <2>1, <2>2
    <3> QED  BY <2>2, <3>1
  <2> QED  BY <2>3

(* A set that has 0 and with a number the next one has them all. *)
LEMMA Induction ==
  ASSUME NEW T, 0 \in T, \A n \in Nat : n \in T => n + 1 \in T
  PROVE  \A n \in Nat : n \in T
<1> DEFINE left == {n \in Nat : n \notin T}
<1>1. SUFFICES ASSUME left # {} PROVE FALSE
  OBVIOUS
<1>2. PICK m \in left : \A n \in left : m <= n
  <2> HIDE DEF left
  <2>1. left \in SUBSET Nat
    BY DEF left
  <2> QED  BY <1>1, <2>1, LeastNumber
<1>3. m # 0 /\ m - 1 \in Nat /\ m - 1 \notin left
  BY <1>2
<1> QED  BY <1>2, <1>3

(* f starts with b and goes on by step. *)
Iterates(f, S, b, step) ==
  f \in [Nat -> S] /\ f[0] = b /\ \A n \in Nat : f[n + 1] = step[n][f[n]]

(* A function of its last value and the argument defines a sequence. *)
LEMMA Iteration ==
  ASSUME NEW S, NEW b \in S, NEW step \in [Nat -> [S -> S]]
  PROVE  \E f : Iterates(f, S, b, step)
<1> DEFINE Upto(n, f) == /\ f \in [0..n -> S] /\ f[0] = b
                         /\ \A k \in 0..n : k < n => f[k + 1] = step[k][f[k]]
           T == {n \in Nat : \E f : Upto(n, f)}
<1>1. 0 \in T
  <2>1. Upto(0, [k \in 0..0 |-> b])
    OBVIOUS
  <2> QED  BY <2>1
<1>2. ASSUME NEW n \in Nat, n \in T PROVE n + 1 \in T
  <2>1. PICK f : Upto(n, f)
    BY <1>2
  <2> DEFINE g == [k \in 0..(n + 1) |-> IF k <= n THEN f[k] ELSE step[n][f[n]]]
  <2>2. Upto(n + 1, g)
    <3>1. step[n][f[n]] \in S
      BY <2>1
    <3>2. g \in [0..(n + 1) -> S] /\ g[0] = b
      BY <2>1, <3>1
    <3>3. ASSUME NEW k \in 0..(n + 1), k < n + 1 PROVE g[k + 1] = step[k][g[k]]
      <4>1. CASE k < n
        BY <2>1, <4>1
      <4>2. CASE k = n
        BY <2>1, <4>2
      <4> QED  BY <3>3, <4>1, <4>2
    <3> QED  BY <3>2, <3>3
  <2> QED
    <3> HIDE DEF Upto, g
    <3> QED  BY <2>2
<1>3. \A n \in Nat : \E f : Upto(n, f)
  <2> HIDE DEF Upto
  <2>1. \A n \in Nat : n \in T
    <3> HIDE DEF T
    <3> QED BY <1>1, <1>2, Induction
  <2> QED  BY <2>1
<1>4. ASSUME NEW m \in Nat, NEW n \in Nat, NEW f, NEW g, Upto(m, f), Upto(n, g)
      PROVE  \A k \in Nat : k <= m /\ k <= n => f[k] = g[k]
  <2> DEFINE E == {k \in Nat : k <= m /\ k <= n => f[k] = g[k]}
  <2>1. 0 \in E
    BY <1>4
  <2>2. ASSUME NEW k \in Nat, k \in E PROVE k + 1 \in E
    <3> SUFFICES ASSUME k + 1 <= m /\ k + 1 <= n PROVE f[k + 1] = g[k + 1]
      OBVIOUS
    <3>1. f[k] = g[k] /\ k \in 0..m /\ k \in 0..n /\ k < m /\ k < n
      BY <2>2
    <3> QED  BY <1>4, <3>1
  <2>3. \A k \in Nat : k \in E
    <3> HIDE DEF E
    <3> QED  BY <2>1, <2>2, Induction
  <2> QED  BY <2>3
<1> DEFINE F(n) == CHOOSE h : Upto(n, h)
           f == [n \in Nat |-> F(n)[n]]
<1>5. \A n \in Nat : Upto(n, F(n))
  <2> HIDE DEF Upto
  <2> QED  BY <1>3
<1> HIDE DEF F
<1>6. f \in [Nat -> S] /\ f[0] = b
  <2>1. \A n \in Nat : F(n)[n] \in S /\ F(0)[0] = b
    BY <1>5
  <2> QED  BY <2>1
<1>7. ASSUME NEW n \in Nat PROVE f[n + 1] = step[n][f[n]]
  <2>1. F(n + 1)[n + 1] = step[n][F(n + 1)[n]]
    <3>1. n + 1 \in Nat /\ n \in 0..(n + 1) /\ n < n + 1
      OBVIOUS
    <3> QED  BY <1>5, <3>1
  <2>2. F(n + 1)[n] = F(n)[n]
    <3> HIDE DEF Upto
    <3> QED  BY <1>4, <1>5
  <2>3. f[n + 1] = F(n + 1)[n + 1] /\ f[n] = F(n)[n]
    OBVIOUS
  <2> QED  BY <2>1, <2>2, <2>3
<1> HIDE DEF f
<1>8. Iterates(f, S, b, step)
  BY <1>6, <1>7 DEF Iterates
<1> QED  BY <1>8

-----------------------------------------------------------------------------

Table(known) ==
  /\ DOMAIN known \subseteq Rooms
  /\ \A b \in DOMAIN known : known[b] \in BaseRecord

(* No two bases but the exempt share a room. *)
Apart(known, exempt) == \A a, b \in DOMAIN known \ exempt : a # b => ~Share(known, a, b)

(* What Memory.bases holds while its entries are the objects of the bases *)
SavedObjects ==
  aliased => /\ \A b \in DOMAIN saved \intersect Base : saved[b] = bases[b]
             /\ DOMAIN saved \ Base \subseteq lost

Inv == TypeOK /\ Apart(bases, lost) /\ Apart(saved, lost) /\ SavedObjects

(* Founding bases in rooms that are none keeps the bases apart. *)
LEMMA Founding ==
  ASSUME NEW known, Table(known), NEW exempt, Apart(known, exempt), NEW new, new \subseteq Rooms
  PROVE  Table(WithBases(known, new)) /\ Apart(WithBases(known, new), exempt)
<1>1. /\ DOMAIN WithBases(known, new) = DOMAIN known \union new
      /\ \A b \in DOMAIN known \union new :
           WithBases(known, new)[b] = IF b \in DOMAIN known THEN known[b] ELSE NewBase(b)
  BY DEF WithBases
<1>2. \A b \in new \ DOMAIN known : /\ WithBases(known, new)[b] = NewBase(b)
                                    /\ WithBases(known, new)[b].rooms = {b}
  <2>1. \A b \in new \ DOMAIN known : WithBases(known, new)[b] = NewBase(b)
    BY <1>1
  <2>2. \A b : NewBase(b).rooms = {b}
    BY DEF NewBase
  <2> QED  BY <2>1, <2>2
<1>3. \A b \in DOMAIN known : WithBases(known, new)[b] = known[b]
  BY <1>1
<1>4. Table(WithBases(known, new))
  <2>1. \A b \in new : NewBase(b) \in BaseRecord
    BY DEF NewBase, BaseRecord
  <2> QED  BY <1>1, <1>2, <1>3, <2>1 DEF Table
<1>5. Apart(WithBases(known, new), exempt)
  <2> SUFFICES ASSUME NEW a \in DOMAIN WithBases(known, new) \ exempt,
                      NEW b \in DOMAIN WithBases(known, new) \ exempt, a # b
               PROVE  ~Share(WithBases(known, new), a, b)
    BY DEF Apart
  <2>1. CASE a \in DOMAIN known /\ b \in DOMAIN known
    BY <2>1, <1>3 DEF Apart, Share
  <2>2. CASE a \notin DOMAIN known
    BY <2>2, <1>1, <1>2 DEF Share
  <2>3. CASE b \notin DOMAIN known
    BY <2>3, <1>1, <1>2 DEF Share
  <2> QED  BY <2>1, <2>2, <2>3
<1> QED  BY <1>4, <1>5

(* Abandoning one keeps them apart, and it becomes one of the exempt. *)
LEMMA Abandoning ==
  ASSUME NEW known, Table(known), NEW exempt, Apart(known, exempt), NEW b
  PROVE  Table(Without(known, b)) /\ Apart(Without(known, b), exempt \union {b})
<1>1. /\ DOMAIN Without(known, b) = DOMAIN known \ {b}
      /\ \A c \in DOMAIN known \ {b} : Without(known, b)[c] = known[c]
  BY DEF Without
<1> QED  BY <1>1 DEF Table, Apart, Share

(* The remotes a base is given lie in no other base. *)
LEMMA RemotesAreFree ==
  ASSUME NEW b, NEW hostile, NEW r \in Remotes(b, hostile)
  PROVE  /\ r \in Controlled
         /\ \A c \in Base \ {b} : r \notin bases[c].rooms
<1>1. Minable(b, r, hostile)
  BY DEF Remotes
<1> QED  BY <1>1 DEF Minable, Taken, BasesOf, Base

LEMMA InitInv == Init => Inv
<1> SUFFICES ASSUME Init PROVE Inv
  OBVIOUS
<1>1. Start \subseteq Rooms
  BY RoomsAssumption
<1>2. /\ DOMAIN bases = Start /\ \A b \in Start : bases[b] \in BaseRecord /\ bases[b].rooms = {b}
      /\ DOMAIN saved = {} /\ aliased = FALSE /\ lost = {}
  BY <1>1 DEF Init, NewBase, BaseRecord
<1>3. TypeOK
  BY <1>1, <1>2 DEF Init, TypeOK, Base
<1>4. Apart(bases, lost) /\ Apart(saved, lost) /\ SavedObjects
  BY <1>2 DEF Apart, Share, SavedObjects
<1> QED  BY <1>3, <1>4 DEF Inv

LEMMA StepInv == Inv /\ [Next]_vars => Inv'
<1> SUFFICES ASSUME Inv, [Next]_vars PROVE Inv'
  OBVIOUS
<1> USE DEF Inv
<1>0. Table(bases) /\ Table(saved)
  BY DEF TypeOK, Table, Base
<1>t. ASSUME Table(bases'), Table(saved'), aliased' \in BOOLEAN, lost' \subseteq Rooms,
             procs' \subseteq Process, journal' \in [Rooms -> Entry \union {Unseen}],
             baseCount' \in Nat \union {-2, -1}, claimers' \subseteq Rooms,
             owned' \subseteq Rooms, spawns' \subseteq owned', seized' \subseteq Rooms,
             Apart(bases', lost'), Apart(saved', lost'), SavedObjects'
      PROVE  Inv'
  BY <1>t DEF TypeOK, Table, Apart, Share, Base
<1>u. ASSUME UNCHANGED <<bases, memory>>
      PROVE  /\ Table(bases') /\ Table(saved') /\ aliased' \in BOOLEAN /\ lost' \subseteq Rooms
             /\ Apart(bases', lost') /\ Apart(saved', lost') /\ SavedObjects'
  BY <1>0, <1>u DEF memory, SavedObjects, Base, TypeOK
<1>f. IsFiniteSet(Base)
  BY RoomsAssumption, FS_Subset DEF TypeOK
<1>p. \A b \in Rooms : BaseProcess(b) \in Process /\ RoomProcess(b) \in Process
  BY DEF BaseProcess, RoomProcess, Process
<1>m. procs \union Missing \subseteq Process
  BY <1>p DEF Missing, TypeOK
<1>s. ASSUME Save, Table(bases'), Apart(bases', lost'), lost \intersect Base \subseteq Base'
      PROVE  /\ Table(saved') /\ aliased' \in BOOLEAN /\ lost' \subseteq Rooms
             /\ Apart(saved', lost') /\ SavedObjects'
  BY <1>s DEF Save, SavedObjects, Base, TypeOK
<1>r. ASSUME Save PROVE Apart(bases, lost')
  <2> SUFFICES ASSUME NEW a \in Base \ lost', NEW b \in Base \ lost', a # b
               PROVE  ~Share(bases, a, b)
    BY DEF Apart, Base
  <2>1. CASE a \in lost
    <3>1. ~Share(bases, b, a)
      BY <1>r, <2>1 DEF Save
    <3> QED  BY <3>1 DEF Share
  <2>2. CASE b \in lost
    BY <1>r, <2>2 DEF Save
  <2>3. CASE a \notin lost /\ b \notin lost  BY <2>3 DEF Apart, Base
  <2> QED  BY <2>1, <2>2, <2>3
<1>1. CASE BaseManagerRun
  <2>1. bases' = bases /\ Save /\ procs' = procs \union Missing
        /\ UNCHANGED <<journal, baseCount, claimers, world>>
    BY <1>1 DEF BaseManagerRun
  <2>2. Table(bases') /\ Apart(bases', lost') /\ Base' = Base
    BY <1>0, <1>r, <2>1 DEF Base
  <2> QED  BY <1>s, <2>1, <2>2, <1>m, <1>t DEF TypeOK, world
<1>2. ASSUME NEW r \in Rooms, BaseManagerExpands(r) PROVE Inv'
  <2>1. bases' = WithBases(bases, {r}) /\ Save /\ procs' = procs \union Missing
        /\ UNCHANGED <<journal, baseCount, claimers, world>>
    BY <1>2 DEF BaseManagerExpands, Expand
  <2>2. Table(bases') /\ Apart(bases', lost') /\ Base \subseteq Base'
    BY <1>0, <1>r, <2>1, Founding DEF Base, WithBases
  <2> QED  BY <1>s, <2>1, <2>2, <1>m, <1>t DEF TypeOK, world
<1>3. ASSUME NEW b \in Rooms, BaseEnds(b) PROVE Inv'
  BY <1>u, <1>3, <1>t DEF BaseEnds, Terminate, TypeOK, world
<1>a. ASSUME NEW b \in Rooms, NEW abandons, AbandonBase(b, abandons)
      PROVE  /\ Table(bases') /\ Table(saved') /\ aliased' \in BOOLEAN /\ lost' \subseteq Rooms
             /\ Apart(bases', lost') /\ Apart(saved', lost') /\ SavedObjects'
  <2>1. CASE abandons
    <3>1. /\ bases' = Without(bases, b) /\ lost' = lost \union {b}
          /\ saved' = saved /\ aliased' = aliased
      BY <1>a, <2>1 DEF AbandonBase
    <3>2. Table(bases') /\ Apart(bases', lost')
      BY <1>0, <3>1, Abandoning
    <3>3. Apart(saved', lost')
      BY <3>1 DEF Apart
    <3>4. SavedObjects'
      BY <3>1 DEF SavedObjects, Without, Base
    <3> QED  BY <1>0, <3>1, <3>2, <3>3, <3>4 DEF TypeOK
  <2>2. CASE ~abandons
    BY <1>a, <1>u, <2>2 DEF AbandonBase, memory
  <2> QED  BY <2>1, <2>2
<1>4. ASSUME NEW b \in Rooms, NEW due \in BOOLEAN, NEW fortified \in BOOLEAN,
             NEW starts \in BOOLEAN,
             BaseUnclaimed(b, due) \/ BaseClaimed(b, due, fortified, starts)
      PROVE  Inv'
  <2>1. \E abandons : AbandonBase(b, abandons)
    BY <1>4 DEF BaseUnclaimed, BaseClaimed
  <2>2. bases[b].rooms \subseteq Rooms
    BY <1>0, <1>4 DEF BaseUnclaimed, BaseClaimed, Table, BaseRecord, Base
  <2>3. procs' \subseteq Process
    <3>1. procs' \subseteq procs \union {RoomProcess(r) : r \in bases[b].rooms}
      BY <1>4 DEF BaseUnclaimed, BaseClaimed
    <3> QED  BY <1>p, <2>2, <3>1 DEF TypeOK
  <2>4. claimers' \subseteq Rooms
    BY <1>4 DEF BaseUnclaimed, BaseClaimed, TypeOK
  <2> QED  BY <1>a, <1>4, <2>1, <2>3, <2>4, <1>t DEF BaseUnclaimed, BaseClaimed, TypeOK, world
<1>k. ASSUME DOMAIN bases' = Base, Table(bases'), Apart(bases', lost), lost' = lost,
             aliased' = aliased, saved' = Remember(bases')
      PROVE  Table(saved') /\ Apart(saved', lost') /\ SavedObjects'
  <2>1. DOMAIN saved' = DOMAIN saved
        /\ \A b \in DOMAIN saved :
             saved'[b] = IF aliased /\ b \in Base THEN bases'[b] ELSE saved[b]
    BY <1>k DEF Remember
  <2>2. Table(saved')
    BY <1>0, <1>k, <2>1 DEF Table, Base
  <2>3. CASE aliased
    <3>1. \A b \in DOMAIN saved \ lost : b \in Base /\ saved'[b] = bases'[b]
      BY <2>1, <2>3 DEF SavedObjects
    <3>2. Apart(saved', lost)
      BY <1>k, <2>1, <3>1 DEF Apart, Share
    <3>3. SavedObjects'
      BY <1>k, <2>1, <2>3 DEF SavedObjects, Base
    <3> QED  BY <1>k, <2>2, <3>2, <3>3
  <2>4. CASE ~aliased
    <3>1. Apart(saved', lost)
      BY <2>1, <2>4 DEF Apart, Share
    <3> QED  BY <1>k, <2>2, <2>4, <3>1 DEF SavedObjects
  <2> QED  BY <2>3, <2>4
<1>5. ASSUME NEW b \in Rooms, RemotesRun(b) PROVE Inv'
  <2>0. PICK hostile \in SUBSET Dangerous, desired \in 0..MaxRemotes :
          \E chosen \in SUBSET Remotes(b, hostile) :
            UpdateRemotes(b, desired, Remotes(b, hostile), chosen)
    BY <1>5 DEF RemotesRun
  <2>1. PICK chosen \in SUBSET Remotes(b, hostile) :
          UpdateRemotes(b, desired, Remotes(b, hostile), chosen)
    BY <2>0
  <2>2. /\ DOMAIN bases' = Base
        /\ bases'[b].rooms = {b} \union chosen /\ bases'[b].old = bases[b].old
        /\ bases'[b] \in BaseRecord
        /\ \A c \in Base \ {b} : bases'[c] = bases[c]
    <3>1. b \in Base /\ bases[b] \in BaseRecord
      BY <1>5, <1>0 DEF RemotesRun, Table, Base
    <3>2. chosen \subseteq Rooms
      BY RemotesAreFree, RoomsAssumption
    <3> QED  BY <2>1, <3>1, <3>2 DEF UpdateRemotes, BaseRecord, Base
  <2>3. Table(bases')
    BY <2>2, <1>0 DEF Table, Base
  <2>4. \A c \in Base \ {b} : bases'[b].rooms \intersect bases[c].rooms \subseteq {b}
    BY <2>2, RemotesAreFree
  <2>5. Apart(bases', lost)
    <3> SUFFICES ASSUME NEW a \in Base \ lost, NEW c \in Base \ lost, a # c
                 PROVE  ~Share(bases', a, c)
      BY <2>2 DEF Apart
    <3>1. CASE a = b  BY <3>1, <2>2, <2>4 DEF Share
    <3>2. CASE c = b  BY <3>2, <2>2, <2>4 DEF Share
    <3>3. CASE a # b /\ c # b  BY <3>3, <2>2 DEF Apart, Share, Base
    <3> QED  BY <3>1, <3>2, <3>3
  <2>6. /\ saved' = Remember(bases') /\ aliased' = aliased /\ lost' = lost
        /\ UNCHANGED <<procs, journal, baseCount, claimers, world>>
    BY <2>1 DEF UpdateRemotes
  <2>7. Table(saved') /\ Apart(saved', lost') /\ SavedObjects'
    BY <1>k, <2>2, <2>3, <2>5, <2>6 DEF Base
  <2> QED  BY <2>3, <2>5, <2>6, <2>7, <1>t DEF TypeOK, world
<1>6. ASSUME NEW r \in Rooms, RoomEnds(r) PROVE Inv'
  BY <1>u, <1>6, <1>t DEF RoomEnds, Terminate, TypeOK, world
<1>7. CASE ScribeRun
  <2>1. ASSUME NEW outdated, NEW reserved, UpdateRooms(outdated, reserved) PROVE Inv'
    <3>1. \A r \in Rooms : [owner |-> OwnerOf(r, reserved), spawns |-> r \in spawns] \in Entry
      BY DEF OwnerOf, Entry
    <3>2. journal' \in [Rooms -> Entry \union {Unseen}]
      BY <2>1, <3>1 DEF UpdateRooms, TypeOK
    <3> QED  BY <1>u, <2>1, <3>2, <1>t DEF UpdateRooms, TypeOK, world
  <2>2. ASSUME NEW r \in Rooms, RemoveStaleEntry(r) PROVE Inv'
    BY <1>u, <2>2, <1>t DEF RemoveStaleEntry, TypeOK, world
  <2>3. CASE UpdateBaseCount
    <3>1. Cardinality(Base) \in Nat
      BY <1>f, FS_CardinalityType
    <3>2. baseCount' \in Nat \union {-2, -1}
      BY <2>3, <3>1, LimitsAssumption DEF UpdateBaseCount, Count
    <3> QED  BY <1>u, <2>3, <3>2, <1>t DEF UpdateBaseCount, TypeOK, world
  <2> QED  BY <1>7, <2>1, <2>2, <2>3 DEF ScribeRun
<1>8. ASSUME NEW r \in Rooms, ClaimerArrives(r) \/ ClaimerLost(r) PROVE Inv'
  <2>1. claimers' \subseteq Rooms /\ owned' \subseteq Rooms /\ spawns' \subseteq owned'
        /\ seized' \subseteq Rooms
    BY <1>8 DEF ClaimerArrives, ClaimerLost, TypeOK, world
  <2> QED  BY <1>u, <1>8, <2>1, <1>t DEF ClaimerArrives, ClaimerLost, TypeOK, world
<1>9. ASSUME NEW b \in Rooms, GrowOld(b) PROVE Inv'
  <2>1. /\ DOMAIN bases' = DOMAIN bases
        /\ \A c \in DOMAIN bases : /\ bases'[c] \in BaseRecord /\ bases'[c].rooms = bases[c].rooms
                                    /\ bases'[c] = IF c = b THEN [bases[c] EXCEPT !.old = TRUE]
                                                            ELSE bases[c]
    BY <1>0, <1>9 DEF GrowOld, Table, BaseRecord
  <2>2. /\ DOMAIN saved' = DOMAIN saved
        /\ \A c \in DOMAIN saved : /\ saved'[c] \in BaseRecord /\ saved'[c].rooms = saved[c].rooms
                                    /\ saved'[c] = IF c = b THEN [saved[c] EXCEPT !.old = TRUE]
                                                            ELSE saved[c]
    BY <1>0, <1>9 DEF GrowOld, Table, BaseRecord
  <2>3. aliased' = aliased /\ lost' = lost
        /\ UNCHANGED <<procs, journal, baseCount, claimers, world>>
    BY <1>9 DEF GrowOld
  <2>4. Table(bases') /\ Apart(bases', lost') /\ Table(saved') /\ Apart(saved', lost')
    BY <1>0, <2>1, <2>2, <2>3 DEF Table, Apart, Share
  <2>5. SavedObjects'
    BY <2>1, <2>2, <2>3 DEF SavedObjects, Base
  <2> QED  BY <2>3, <2>4, <2>5, <1>t DEF TypeOK, world
<1>10. ASSUME NEW r \in Rooms, SpawnBuilt(r) \/ SpawnDestroyed(r) \/ ControllerLost(r)
                                \/ RoomTaken(r) \/ RoomFreed(r)
       PROVE  Inv'
  <2>1. /\ owned' \subseteq Rooms /\ spawns' \subseteq owned' /\ seized' \subseteq Rooms
        /\ UNCHANGED <<bases, memory, procs, journal, baseCount, claimers>>
    BY <1>10 DEF SpawnBuilt, SpawnDestroyed, ControllerLost, RoomTaken, RoomFreed, TypeOK
  <2> QED  BY <1>u, <2>1, <1>t DEF TypeOK
<1>11. CASE GlobalReset
  <2>1. /\ bases' = WithBases(saved, spawns) /\ aliased' = FALSE /\ procs' = {}
        /\ journal' \in {journal, [r \in Rooms |-> Unseen]} /\ baseCount' = -2
        /\ UNCHANGED <<saved, lost, claimers, world>>
    BY <1>11 DEF GlobalReset, Loaded
  <2>2. Table(bases') /\ Apart(bases', lost')
    BY <1>0, <2>1, Founding DEF TypeOK
  <2>3. SavedObjects'
    BY <2>1 DEF SavedObjects
  <2> QED  BY <1>0, <2>1, <2>2, <2>3, <1>t DEF TypeOK, world
<1>13. CASE MemoryParsed
  <2>1. SavedObjects'
    BY <1>13 DEF MemoryParsed, SavedObjects
  <2> QED  BY <1>0, <1>13, <2>1, <1>t DEF MemoryParsed, TypeOK, world
<1>12. CASE UNCHANGED vars
  BY <1>u, <1>12, <1>t DEF vars, world, TypeOK
<1> QED
  BY <1>1, <1>2, <1>3, <1>4, <1>5, <1>6, <1>7, <1>8, <1>9, <1>10, <1>11, <1>12, <1>13
  DEF Next, BaseRun, Environment

LEMMA Invariance == Spec => []Inv
BY InitInv, StepInv, PTL DEF Spec

(* The bases, what is saved of them, the processes and the journal keep      *)
(* their types, and a room has a spawn of mine only while it is mine.        *)
THEOREM TypeCorrect == Spec => []TypeOK
BY Invariance, PTL DEF Inv

(* However remotes, expansion, abandonment, resets and the parsing of Memory *)
(* interleave, two bases hold a room that is the primary room of neither     *)
(* only if one of them was given up and came back from a Memory it was still *)
(* in.                                                                       *)
THEOREM NeverShareRemotes == Spec => []RemotesNotShared
<1>1. Inv => RemotesNotShared
  BY DEF Inv, Apart, RemotesNotShared, Base
<1> QED  BY <1>1, Invariance, PTL

-----------------------------------------------------------------------------
(* Expansion.  The search for candidates and the rooms at a distance are     *)
(* recursive functions, which are unfolded first.                            *)

Search == [next : SUBSET Rooms, seen : SUBSET Rooms, claimed : SUBSET Rooms,
           dismissed : SUBSET Rooms, candidates : SUBSET Rooms]

Begin == [next |-> Held, seen |-> Held, claimed |-> Held, dismissed |-> {}, candidates |-> {}]

ExitsOf(R) == UNION {Exits[p] : p \in R}

(* The states of pickExpansion after each pass *)
Passed == CHOOSE after : after = [n \in 0..Passes |-> IF n = 0 THEN Begin ELSE Pass(after[n - 1])]

(* The rooms within each number of exits *)
Near(i) == CHOOSE from : from = [n \in 0..i |-> IF n = 0 THEN Held
                                                ELSE from[n - 1] \union ExitsOf(from[n - 1])]

(* The rooms the bases hold *)
LEMMA HeldType ==
  ASSUME TypeOK
  PROVE  Held \in SUBSET Rooms
BY DEF TypeOK, Held, BaseRecord

(* A pass of pickExpansion stays on the map. *)
LEMMA PassType ==
  ASSUME NEW s \in Search
  PROVE  Pass(s) \in Search
<1> DEFINE exits == UNION {Exits[p] : p \in s.next}
           fresh == exits \ (s.claimed \union s.dismissed)
           taken == {r \in fresh : Owned(r)}
           out == {r \in fresh : Unfit(r) \/ r \in TooClose(s)}
           found == {r \in fresh \ taken : ~Unfit(r) /\ \E p \in s.next \ s.claimed : r \in Exits[p]}
<1>1. /\ s.next \subseteq Rooms /\ s.seen \subseteq Rooms /\ s.claimed \subseteq Rooms
      /\ s.dismissed \subseteq Rooms /\ s.candidates \subseteq Rooms
  BY DEF Search
<1>2. exits \subseteq Rooms
  BY <1>1, RoomsAssumption
<1>3. Pass(s) = [next |-> exits \ s.seen, seen |-> s.seen \union exits,
                 claimed |-> s.claimed \union taken,
                 dismissed |-> s.dismissed \union taken \union out,
                 candidates |-> s.candidates \union found]
  BY DEF Pass
<1>4. taken \subseteq Rooms /\ out \subseteq Rooms /\ found \subseteq Rooms
  BY <1>2
<1> HIDE DEF exits, taken, out, found
<1> QED  BY <1>1, <1>2, <1>3, <1>4 DEF Search

(* The search starts with the rooms held and goes on pass by pass. *)
LEMMA PassedFacts ==
  ASSUME TypeOK
  PROVE  /\ Passed[0] = Begin
         /\ \A n \in 0..Passes : Passed[n] \in Search
         /\ \A n \in 0..Passes : n # 0 => Passed[n] = Pass(Passed[n - 1])
         /\ Candidates = Passed[Passes].candidates
                           \ (Passed[Passes].claimed \union Passed[Passes].dismissed)
<1>1. Begin \in Search
  BY HeldType DEF Begin, Search
<1> DEFINE step == [n \in Nat |-> [s \in Search |-> Pass(s)]]
<1>2. step \in [Nat -> [Search -> Search]]
  BY PassType
<1>3. \A n \in Nat : \A s \in Search : step[n][s] = Pass(s)
  OBVIOUS
<1> HIDE DEF step
<1>4. PICK f \in [Nat -> Search] : f[0] = Begin /\ \A n \in Nat : f[n + 1] = step[n][f[n]]
  <2>1. PICK f : Iterates(f, Search, Begin, step)
    BY <1>1, <1>2, Iteration
  <2> QED  BY <2>1 DEF Iterates
<1>5. Passes \in Nat
  BY LimitsAssumption
<1> DEFINE g == [n \in 0..Passes |-> f[n]]
<1>6. \A n \in 0..Passes : n # 0 => f[n] = Pass(f[n - 1]) /\ f[n - 1] \in Search
                                    /\ n - 1 \in 0..Passes
  <2> SUFFICES ASSUME NEW n \in 0..Passes, n # 0
               PROVE  f[n] = Pass(f[n - 1]) /\ f[n - 1] \in Search /\ n - 1 \in 0..Passes
    OBVIOUS
  <2>1. n - 1 \in Nat /\ n - 1 \in 0..Passes /\ (n - 1) + 1 = n
    BY <1>5
  <2>2. f[(n - 1) + 1] = step[n - 1][f[n - 1]] /\ f[n - 1] \in Search
    BY <1>4, <2>1
  <2> QED  BY <1>3, <2>1, <2>2
<1>7. g = [n \in 0..Passes |-> IF n = 0 THEN Begin ELSE Pass(g[n - 1])]
  BY <1>4, <1>6
<1> HIDE DEF g
<1>8. Passed = [n \in 0..Passes |-> IF n = 0 THEN Begin ELSE Pass(Passed[n - 1])]
  BY <1>7, Zenon DEF Passed
<1>9. Candidates = Passed[Passes].candidates
                     \ (Passed[Passes].claimed \union Passed[Passes].dismissed)
  BY Zenon DEF Candidates, Passed, Begin
<1>10. 0 \in 0..Passes /\ \A n \in 0..Passes : n # 0 => n - 1 \in 0..Passes
  BY <1>5
<1>11. /\ Passed[0] = Begin
       /\ \A n \in 0..Passes : n # 0 => Passed[n] = Pass(Passed[n - 1])
  BY <1>8, <1>10
<1>12. \A n \in 0..Passes : Passed[n] \in Search
  <2> DEFINE T == {n \in Nat : n \in 0..Passes => Passed[n] \in Search}
  <2>1. 0 \in T
    BY <1>1, <1>11
  <2>2. ASSUME NEW n \in Nat, n \in T PROVE n + 1 \in T
    <3> SUFFICES ASSUME n + 1 \in 0..Passes PROVE Passed[n + 1] \in Search
      OBVIOUS
    <3>1. n \in 0..Passes /\ (n + 1) - 1 = n /\ n + 1 # 0
      BY <1>5
    <3>2. Passed[n + 1] = Pass(Passed[n]) /\ Passed[n] \in Search
      BY <1>11, <2>2, <3>1
    <3> QED  BY <3>2, PassType
  <2>3. \A n \in Nat : n \in T
    <3> HIDE DEF T
    <3> QED  BY <2>1, <2>2, Induction
  <2> QED  BY <1>5, <2>3
<1> QED  BY <1>9, <1>11, <1>12

(* The rooms within i exits, one exit after the other *)
LEMMA NearFacts ==
  ASSUME TypeOK, NEW i \in Nat
  PROVE  /\ Reached(i) = Near(i)[i]
         /\ Near(i)[0] = Held
         /\ \A n \in 0..i : Near(i)[n] \in SUBSET Rooms
         /\ \A n \in 0..i : n # 0 => Near(i)[n] = Near(i)[n - 1] \union ExitsOf(Near(i)[n - 1])
<1> DEFINE step == [n \in Nat |-> [R \in SUBSET Rooms |-> R \union ExitsOf(R)]]
           N == Near(i)
<1>1. Held \in SUBSET Rooms
  BY HeldType
<1>2. \A R \in SUBSET Rooms : R \union ExitsOf(R) \in SUBSET Rooms
  BY RoomsAssumption DEF ExitsOf
<1>3. step \in [Nat -> [SUBSET Rooms -> SUBSET Rooms]]
  BY <1>2
<1>4. \A n \in Nat : \A R \in SUBSET Rooms : step[n][R] = R \union ExitsOf(R)
  OBVIOUS
<1> HIDE DEF step
<1>5. PICK f \in [Nat -> SUBSET Rooms] : f[0] = Held /\ \A n \in Nat : f[n + 1] = step[n][f[n]]
  <2>1. PICK f : Iterates(f, SUBSET Rooms, Held, step)
    BY <1>1, <1>3, Iteration
  <2> QED  BY <2>1 DEF Iterates
<1> DEFINE g == [n \in 0..i |-> f[n]]
<1>6. \A n \in 0..i : n # 0 => f[n] = f[n - 1] \union ExitsOf(f[n - 1]) /\ n - 1 \in 0..i
  <2> SUFFICES ASSUME NEW n \in 0..i, n # 0
               PROVE  f[n] = f[n - 1] \union ExitsOf(f[n - 1]) /\ n - 1 \in 0..i
    OBVIOUS
  <2>1. n - 1 \in Nat /\ n - 1 \in 0..i /\ (n - 1) + 1 = n
    OBVIOUS
  <2>2. f[(n - 1) + 1] = step[n - 1][f[n - 1]] /\ f[n - 1] \in SUBSET Rooms
    BY <1>5, <2>1
  <2> QED  BY <1>4, <2>1, <2>2
<1>7. g = [n \in 0..i |-> IF n = 0 THEN Held ELSE g[n - 1] \union ExitsOf(g[n - 1])]
  BY <1>5, <1>6
<1> HIDE DEF g
<1>8. N = [n \in 0..i |-> IF n = 0 THEN Held ELSE N[n - 1] \union ExitsOf(N[n - 1])]
  BY <1>7, Zenon DEF Near
<1>9. Reached(i) = N[i]
  BY Zenon DEF Reached, Near, ExitsOf
<1> HIDE DEF N
<1>10. /\ N[0] = Held
       /\ \A n \in 0..i : n # 0 => N[n] = N[n - 1] \union ExitsOf(N[n - 1])
  <2>1. 0 \in 0..i /\ \A n \in 0..i : n # 0 => n - 1 \in 0..i
    OBVIOUS
  <2> QED  BY <1>8, <2>1
<1>11. \A n \in 0..i : N[n] \in SUBSET Rooms
  <2> DEFINE T == {n \in Nat : n \in 0..i => N[n] \in SUBSET Rooms}
  <2>1. 0 \in T
    BY <1>1, <1>10
  <2>2. ASSUME NEW n \in Nat, n \in T PROVE n + 1 \in T
    <3> SUFFICES ASSUME n + 1 \in 0..i PROVE N[n + 1] \in SUBSET Rooms
      OBVIOUS
    <3>1. n \in 0..i /\ (n + 1) - 1 = n /\ n + 1 # 0
      OBVIOUS
    <3>2. N[n + 1] = N[n] \union ExitsOf(N[n]) /\ N[n] \in SUBSET Rooms
      BY <1>10, <2>2, <3>1
    <3> QED  BY <1>2, <3>2
  <2>3. \A n \in Nat : n \in T
    <3> HIDE DEF T
    <3> QED  BY <2>1, <2>2, Induction
  <2> QED  BY <2>3
<1> QED  BY <1>9, <1>10, <1>11 DEF N

(* What a pass changes: it claims the rooms that are owned and dismisses      *)
(* what is next to a claimed room of the pass before.                        *)
LEMMA PassFacts ==
  ASSUME NEW s \in Search
  PROVE  LET exits == ExitsOf(s.next)
             t == Pass(s)
         IN  /\ t.next = exits \ s.seen /\ t.seen = s.seen \union exits
             /\ s.claimed \subseteq t.claimed /\ t.claimed \subseteq s.claimed \union exits
             /\ s.dismissed \subseteq t.dismissed /\ t.dismissed \subseteq s.dismissed \union exits
             /\ \A r \in exits : Owned(r) => r \in t.claimed \union s.dismissed
             /\ \A r \in exits : r \in TooClose(s) => r \in t.claimed \union t.dismissed
BY DEF Pass, ExitsOf

(* The search in terms of distance: pass n sees the rooms within n exits.    *)
LEMMA SearchFacts ==
  ASSUME TypeOK, NEW M \in 0..Passes, NEW N, N[0] = Held,
         \A n \in 0..M : n # 0 => N[n] = N[n - 1] \union ExitsOf(N[n - 1])
  PROVE  \A n \in 0..M :
              /\ Passed[n].seen = N[n]
              /\ \A r \in Passed[n].next : r \in Held \/ Owned(r) => r \in Passed[n].claimed
              /\ \A r \in N[n] : \E k \in 0..n : r \in Passed[k].next
<1> DEFINE P(n) == /\ Passed[n].seen = N[n]
                   /\ ExitsOf(N[n]) \subseteq N[n] \union ExitsOf(Passed[n].next)
                   /\ Passed[n].dismissed \subseteq N[n]
                   /\ Passed[n].next \subseteq N[n]
                   /\ Held \subseteq Passed[n].claimed /\ Held \subseteq N[n]
                   /\ \A r \in Passed[n].next : r \in Held \/ Owned(r) => r \in Passed[n].claimed
                   /\ \A r \in N[n] : \E k \in 0..n : r \in Passed[k].next
           T == {n \in Nat : n \in 0..M => P(n)}
<1>1. M \in Nat /\ Passes \in Nat /\ \A n \in 0..M : n \in 0..Passes
  BY LimitsAssumption
<1>2. 0 \in T
  <2>1. Passed[0] = Begin
    BY PassedFacts
  <2>2. /\ Begin.seen = Held /\ Begin.next = Held /\ Begin.claimed = Held /\ Begin.dismissed = {}
    BY DEF Begin
  <2>3. P(0)
    BY <2>1, <2>2
  <2> QED  BY <2>3
<1>3. ASSUME NEW n \in Nat, n \in T PROVE n + 1 \in T
  <2> SUFFICES ASSUME n + 1 \in 0..M PROVE P(n + 1)
    OBVIOUS
  <2> DEFINE s == Passed[n]
             t == Passed[n + 1]
  <2>1. n \in 0..M /\ n \in 0..Passes /\ n + 1 \in 0..Passes /\ (n + 1) - 1 = n /\ n + 1 # 0
    BY <1>1
  <2>2. s \in Search /\ t = Pass(s)
    BY <2>1, PassedFacts
  <2>3. P(n)
    BY <1>3, <2>1
  <2>4. N[n + 1] = N[n] \union ExitsOf(N[n])
    BY <2>1
  <2>5. /\ t.next = ExitsOf(s.next) \ s.seen /\ t.seen = s.seen \union ExitsOf(s.next)
        /\ s.claimed \subseteq t.claimed
        /\ t.dismissed \subseteq s.dismissed \union ExitsOf(s.next)
        /\ \A r \in ExitsOf(s.next) : Owned(r) => r \in t.claimed \union s.dismissed
    BY <2>2, PassFacts
  <2>6. ExitsOf(s.next) \subseteq ExitsOf(N[n])
    BY <2>3 DEF ExitsOf
  <2>7. t.seen = N[n + 1] /\ t.next = N[n + 1] \ N[n] /\ N[n] \subseteq N[n + 1]
    BY <2>3, <2>4, <2>5, <2>6
  <2>8. ExitsOf(N[n + 1]) \subseteq N[n + 1] \union ExitsOf(t.next)
    <3>1. ExitsOf(N[n + 1]) = ExitsOf(N[n]) \union ExitsOf(t.next)
      BY <2>7 DEF ExitsOf
    <3> QED  BY <2>4, <3>1
  <2>9. t.dismissed \subseteq N[n + 1]
    BY <2>3, <2>4, <2>5, <2>6
  <2>10. \A r \in t.next : r \in Held \/ Owned(r) => r \in t.claimed
    BY <2>3, <2>5
  <2>11. \A r \in N[n + 1] : \E k \in 0..(n + 1) : r \in Passed[k].next
    <3> SUFFICES ASSUME NEW r \in N[n + 1] PROVE \E k \in 0..(n + 1) : r \in Passed[k].next
      OBVIOUS
    <3>1. CASE r \in N[n]
      <4>1. PICK k \in 0..n : r \in Passed[k].next
        BY <2>3, <3>1
      <4> QED  BY <4>1
    <3>2. CASE r \notin N[n]
      BY <2>7, <3>2
    <3> QED  BY <3>1, <3>2
  <2> QED  BY <2>3, <2>5, <2>7, <2>8, <2>9, <2>10, <2>11
<1>4. \A n \in Nat : n \in T
  <2> HIDE DEF T
  <2> QED  BY <1>2, <1>3, Induction
<1>5. \A n \in 0..M : P(n)
  BY <1>1, <1>4
<1> QED  BY <1>5

(* What is claimed or dismissed stays so. *)
LEMMA SearchGrows ==
  ASSUME TypeOK, NEW m \in 0..Passes
  PROVE  /\ Passed[m].claimed \subseteq Passed[Passes].claimed
         /\ Passed[m].dismissed \subseteq Passed[Passes].dismissed
<1> DEFINE P(n) == /\ Passed[m].claimed \subseteq Passed[n].claimed
                   /\ Passed[m].dismissed \subseteq Passed[n].dismissed
           T == {n \in Nat : m <= n /\ n <= Passes => P(n)}
<1>1. Passes \in Nat /\ m \in Nat /\ m <= Passes
  BY LimitsAssumption
<1>2. 0 \in T
  BY <1>1
<1>3. ASSUME NEW n \in Nat, n \in T PROVE n + 1 \in T
  <2> SUFFICES ASSUME m <= n + 1, n + 1 <= Passes PROVE P(n + 1)
    OBVIOUS
  <2>1. CASE m = n + 1
    BY <2>1
  <2>2. CASE m # n + 1
    <3>1. m <= n /\ n <= Passes /\ n \in 0..Passes /\ n + 1 \in 0..Passes
          /\ n + 1 # 0 /\ (n + 1) - 1 = n
      BY <1>1, <2>2
    <3>2. P(n)
      BY <1>3, <3>1
    <3>3. Passed[n] \in Search /\ Passed[n + 1] = Pass(Passed[n])
      BY <3>1, PassedFacts
    <3>4. /\ Passed[n].claimed \subseteq Passed[n + 1].claimed
          /\ Passed[n].dismissed \subseteq Passed[n + 1].dismissed
      BY <3>3, PassFacts
    <3> QED  BY <3>2, <3>4
  <2> QED  BY <2>1, <2>2
<1>4. \A n \in Nat : n \in T
  <2> HIDE DEF T
  <2> QED  BY <1>2, <1>3, Induction
<1> QED  BY <1>1, <1>4

(* A room the search ends up with is next to no room that is held or owned   *)
(* and not as far away as the search goes.                                   *)
LEMMA CandidatesKeepDistance ==
  ASSUME TypeOK, NEW r \in Candidates, NEW n \in Reached(Passes - 1), r \in Exits[n]
  PROVE  n \notin Held /\ ~Owned(n)
<1> DEFINE M == Passes - 1
<1>1. r \in Passed[Passes].candidates /\ r \notin Passed[Passes].claimed \union Passed[Passes].dismissed
  BY PassedFacts
<1>2. M \in Nat /\ M \in 0..Passes /\ Passes \in Nat
  <2>1. Passed[0].candidates = {}
    BY PassedFacts DEF Begin
  <2>2. Passes # 0
    BY <1>1, <2>1
  <2> QED  BY <2>2, LimitsAssumption
<1> HIDE DEF M
<1>3. /\ n \in Near(M)[M] /\ Near(M)[0] = Held
      /\ \A i \in 0..M : i # 0 => Near(M)[i] = Near(M)[i - 1] \union ExitsOf(Near(M)[i - 1])
  BY <1>2, NearFacts DEF M
<1>4. PICK k \in 0..M : n \in Passed[k].next
  <2>1. \A i \in 0..M : \A x \in Near(M)[i] : \E k \in 0..i : x \in Passed[k].next
    BY <1>2, <1>3, SearchFacts
  <2> QED  BY <1>2, <1>3, <2>1
<1>5. SUFFICES ASSUME n \in Held \/ Owned(n) PROVE FALSE
  OBVIOUS
<1>6. n \in Passed[k].claimed
  BY <1>2, <1>3, <1>4, <1>5, SearchFacts
<1>7. r \in ExitsOf(Passed[k].next) /\ r \in TooClose(Passed[k])
  BY <1>4, <1>6 DEF ExitsOf, TooClose
<1>8. k \in 0..Passes /\ k + 1 \in 0..Passes /\ k + 1 # 0 /\ (k + 1) - 1 = k
  BY <1>2 DEF M
<1>9. Passed[k] \in Search /\ Passed[k + 1] = Pass(Passed[k])
  BY <1>8, PassedFacts
<1>10. r \in Passed[k + 1].claimed \union Passed[k + 1].dismissed
  BY <1>7, <1>9, PassFacts
<1> QED  BY <1>1, <1>8, <1>10, SearchGrows

(* The only steps that found a base are expansion and the reload of Memory.  *)
LEMMA FoundsCandidates ==
  ASSUME Inv, [Next]_vars, ~GlobalReset, NEW r \in DOMAIN bases' \ Base
  PROVE  r \in Candidates
<1>1. ASSUME NEW q \in Rooms, BaseManagerExpands(q) PROVE r \in Candidates
  BY <1>1 DEF BaseManagerExpands, Expand, WithBases, Base
<1>2. ASSUME NEW b, NEW due, NEW fortified, NEW starts,
             BaseUnclaimed(b, due) \/ BaseClaimed(b, due, fortified, starts)
      PROVE  FALSE
  BY <1>2 DEF BaseUnclaimed, BaseClaimed, AbandonBase, Without, Base
<1>3. ASSUME NEW b \in Rooms, RemotesRun(b) \/ GrowOld(b) PROVE FALSE
  BY <1>3 DEF RemotesRun, UpdateRemotes, GrowOld, Base
<1>4. bases' # bases
  BY DEF Base
<1>5. ~BaseManagerRun /\ ~ScribeRun /\ ~MemoryParsed /\ ~UNCHANGED vars
  BY <1>4 DEF BaseManagerRun, MemoryParsed, ScribeRun, UpdateRooms, RemoveStaleEntry,
              UpdateBaseCount, vars
<1>6. \A b \in Rooms : /\ ~BaseEnds(b) /\ ~RoomEnds(b) /\ ~ClaimerArrives(b) /\ ~ClaimerLost(b)
                       /\ ~SpawnBuilt(b) /\ ~SpawnDestroyed(b) /\ ~ControllerLost(b)
                       /\ ~RoomTaken(b) /\ ~RoomFreed(b)
  BY <1>4 DEF BaseEnds, RoomEnds, ClaimerArrives, ClaimerLost, SpawnBuilt, SpawnDestroyed,
              ControllerLost, RoomTaken, RoomFreed
<1> QED  BY <1>1, <1>2, <1>3, <1>5, <1>6 DEF Next, BaseRun, Environment

(* Expansion founds no base next to a room that is held or owned, in         *)
(* whatever order pickExpansion comes by the rooms and for any number of     *)
(* passes over any map.                                                      *)
THEOREM ExpansionKeepsDistance == Spec => KeepsDistance
<1> DEFINE Keeps == \A r \in DOMAIN bases' \ Base :
                      ~GlobalReset =>
                        \A n \in Reached(Passes - 1) : r \in Exits[n] => n \notin Held /\ ~Owned(n)
<1>1. Inv /\ [Next]_vars => [Keeps]_vars
  BY FoundsCandidates, CandidatesKeepDistance DEF Inv
<1>2. KeepsDistance <=> [][Keeps]_vars
  BY PTL DEF KeepsDistance
<1> QED  BY <1>1, <1>2, Invariance, PTL DEF Spec
=============================================================================

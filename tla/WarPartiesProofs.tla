-------------------------- MODULE WarPartiesProofs --------------------------
(***************************************************************************)
(* Proofs about the war parties, for any bases, rooms and party size.      *)
(***************************************************************************)
EXTENDS WarParties, TLAPS

LOCAL Seqs == INSTANCE SequencesExt

Previous == {q \in Seq(Tile) : Len(q) \in 1..MaxPrevious}

LEMMA Constants ==
  /\ PartySize \in Nat \ {0} /\ MaxPrevious \in Nat /\ MaxPrevious >= PartySize
  /\ Border \in Nat /\ Front \in Nat /\ Last \in Nat /\ Border < Front /\ Front <= Last
  /\ MaxCreeps \in Nat /\ 0 \in Tile /\ Border \in Tile /\ Tile \subseteq Int
BY TilesAssumption DEF Tile

LEMMA PreviousType == Previous = UNION {[1..n -> Tile] : n \in 1..MaxPrevious}
<1>1. ASSUME NEW q \in Previous PROVE q \in UNION {[1..n -> Tile] : n \in 1..MaxPrevious}
  <2>1. q \in [1..Len(q) -> Tile] /\ Len(q) \in 1..MaxPrevious
    BY <1>1 DEF Previous
  <2> QED BY <2>1
<1>2. ASSUME NEW q \in UNION {[1..n -> Tile] : n \in 1..MaxPrevious} PROVE q \in Previous
  <2>1. PICK n \in 1..MaxPrevious : q \in [1..n -> Tile]
    BY <1>2
  <2>2. q \in Seq(Tile) /\ Len(q) = n
    BY <2>1, Constants
  <2> QED BY <2>1, <2>2 DEF Previous
<1> QED BY <1>1, <1>2

LEMMA ProgressType ==
  Progress = [phase : Phase, position : Tile, previousPositions : Previous]
BY PreviousType DEF Progress

LEMMA ConcatType ==
  ASSUME NEW S, NEW q \in Seq(S), NEW r \in Seq(S)
  PROVE  q \o r \in Seq(S) /\ Len(q \o r) = Len(q) + Len(r)
OBVIOUS

(* An entry is removed from a list.                                          *)
LEMMA RemoveAtType ==
  ASSUME NEW S, NEW q \in Seq(S), NEW i \in 1..Len(q)
  PROVE  Seqs!RemoveAt(q, i) \in Seq(S) /\ Len(Seqs!RemoveAt(q, i)) = Len(q) - 1
<1> DEFINE l == SubSeq(q, 1, i - 1)
<1> DEFINE r == SubSeq(q, i + 1, Len(q))
<1>1. l \in Seq(S) /\ Len(l) = i - 1
  OBVIOUS
<1>2. r \in Seq(S) /\ Len(r) = Len(q) - i
  OBVIOUS
<1>3. Len(q) \in Nat /\ i \in Nat
  OBVIOUS
<1>4. Seqs!RemoveAt(q, i) = l \o r
  BY DEF Seqs!RemoveAt
<1> HIDE DEF l, r
<1>5. l \o r \in Seq(S) /\ Len(l \o r) = Len(l) + Len(r)
  BY <1>1, <1>2, ConcatType
<1>6. Len(l) + Len(r) = Len(q) - 1
  BY <1>1, <1>2, <1>3
<1> QED BY <1>4, <1>5, <1>6

LEMMA WithoutType ==
  ASSUME NEW S, NEW q \in Seq(S), NEW x
  PROVE  Without(q, x) \in Seq(S) /\ Len(Without(q, x)) <= Len(q)
<1>1. CASE \E i \in DOMAIN q : q[i] = x
  <2>1. (CHOOSE i \in DOMAIN q : q[i] = x) \in 1..Len(q)
    BY <1>1
  <2> QED BY <1>1, <2>1, RemoveAtType DEF Without
<1>2. CASE ~ \E i \in DOMAIN q : q[i] = x
  BY <1>2 DEF Without
<1> QED BY <1>1, <1>2

LEMMA SetPositionType ==
  ASSUME NEW s \in Progress, NEW x \in Tile
  PROVE  /\ SetPosition(s, x) \in Progress
         /\ SetPosition(s, x).position = x /\ SetPosition(s, x).phase = s.phase
<1> DEFINE before == s.previousPositions
<1> DEFINE k == IF Len(before) < MaxPrevious THEN Len(before) ELSE MaxPrevious - 1
<1> DEFINE rest == Without(SubSeq(before, 1, k), x)
<1> DEFINE after == IF x = Head(before) THEN before ELSE <<x>> \o rest
<1>1. before \in Seq(Tile) /\ Len(before) \in 1..MaxPrevious /\ s.phase \in Phase
  BY ProgressType DEF Previous
<1>2. k \in 0..Len(before) /\ k + 1 \in 1..MaxPrevious
  BY <1>1, Constants
<1>3. SubSeq(before, 1, k) \in Seq(Tile) /\ Len(SubSeq(before, 1, k)) = k
  BY <1>1, <1>2
<1>4. rest \in Seq(Tile) /\ Len(rest) <= k
  BY <1>3, WithoutType
<1>5. SetPosition(s, x) = [s EXCEPT !.position = x, !.previousPositions = after]
  BY DEF SetPosition
<1> HIDE DEF rest
<1>6. <<x>> \o rest \in Seq(Tile) /\ Len(<<x>> \o rest) = 1 + Len(rest)
  BY <1>4
<1>7. Len(rest) \in Nat /\ k \in Nat /\ MaxPrevious \in Nat
  BY <1>1, <1>2, <1>4, Constants
<1> DEFINE head == <<x>> \o rest
<1> HIDE DEF k
<1>8. head \in Previous
  <2>1. head \in Seq(Tile) /\ Len(head) = 1 + Len(rest)
    BY <1>6
  <2> HIDE DEF head
  <2>2. Len(head) \in 1..MaxPrevious
    BY <1>2, <1>4, <1>7, <2>1
  <2> QED BY <2>1, <2>2 DEF Previous
<1>9. after \in Previous
  BY <1>1, <1>8 DEF Previous
<1> HIDE DEF after
<1>s. s \in [phase : Phase, position : Tile, previousPositions : Previous]
  BY ProgressType
<1> DEFINE e == [s EXCEPT !.position = x, !.previousPositions = after]
<1>10. e \in [phase : Phase, position : Tile, previousPositions : Previous]
  BY <1>s, <1>9
<1>11. e.position = x /\ e.phase = s.phase
  BY <1>s
<1> QED BY <1>5, <1>10, <1>11, ProgressType

-----------------------------------------------------------------------------
(* The phases of a run. *)

Attacking(s) == s.phase = "attack" => RoomOf(s.position) = "target"

LEMMA PhaseType ==
  ASSUME NEW s \in Progress, NEW f \in Phase
  PROVE  /\ [s EXCEPT !.phase = f] \in Progress
         /\ [s EXCEPT !.phase = f].phase = f /\ [s EXCEPT !.phase = f].position = s.position
<1>1. s \in [phase : Phase, position : Tile, previousPositions : Previous]
  BY ProgressType
<1>2. [s EXCEPT !.phase = f] \in [phase : Phase, position : Tile, previousPositions : Previous]
  BY <1>1
<1> QED BY <1>1, <1>2, ProgressType

LEMMA MarshalType ==
  ASSUME NEW s \in Progress, NEW at, s.phase = "marshal"
  PROVE  Marshal(s, at) \in Progress /\ Marshal(s, at).phase # "attack"
<1>1. s \in [phase : Phase, position : Tile, previousPositions : Previous]
  BY ProgressType
<1>2. [s EXCEPT !.phase = "en_route"] \in Progress /\ [s EXCEPT !.phase = "en_route"].phase = "en_route"
  BY PhaseType DEF Phase
<1>3. [s EXCEPT !.position = 0] \in [phase : Phase, position : Tile, previousPositions : Previous]
  BY <1>1, Constants
<1>4. [s EXCEPT !.position = 0] \in Progress /\ [s EXCEPT !.position = 0].phase = "marshal"
  BY <1>1, <1>3, ProgressType
<1>5. SetPosition(s, 0) \in Progress /\ SetPosition(s, 0).phase = "marshal"
  BY SetPositionType, Constants
<1> QED BY <1>2, <1>4, <1>5 DEF Marshal

LEMMA AdvanceType ==
  ASSUME NEW s \in Progress, NEW at, NEW clear, NEW formation, NEW r \in Advance(s, at, clear, formation)
  PROVE  /\ r \in Progress /\ r.phase = s.phase
         /\ RoomOf(s.position) = "target" => RoomOf(r.position) = "target"
<1>1. s.position \in Tile /\ s.position \in Int
  BY ProgressType, Constants
<1>2. PICK x \in OnPath(s, at, formation) \union OffPath(s) \union {s.position} : r = SetPosition(s, x)
  BY DEF Advance
<1>3. x \in Tile /\ (x = s.position \/ s.position = 0 \/ x = s.position + 1)
  <2>1. CASE x \in OffPath(s)
    BY <2>1, Constants DEF OffPath, Tile
  <2>2. CASE x = s.position + 1 /\ s.position < Last
    BY <1>1, <2>2, Constants DEF Tile
  <2> QED BY <1>1, <1>2, <2>1, <2>2 DEF OnPath
<1>4. r \in Progress /\ r.phase = s.phase /\ r.position = x
  BY <1>2, <1>3, SetPositionType
<1>5. ASSUME RoomOf(s.position) = "target" PROVE RoomOf(x) = "target"
  <2>1. s.position >= Front
    BY <1>1, <1>5, Constants DEF RoomOf
  <2>2. x \in Int /\ x >= Front /\ ~(x <= Border)
    BY <1>1, <1>3, <2>1, Constants
  <2> QED BY <2>2 DEF RoomOf
<1> QED BY <1>4, <1>5

LEMMA EnRouteType ==
  ASSUME NEW s \in Progress, NEW at, NEW clear, NEW formation, s.phase = "en_route",
         NEW r \in EnRoute(s, at, clear, formation)
  PROVE  r \in Progress /\ Attacking(r)
<1>1. CASE r = [s EXCEPT !.phase = "marshal"]
  BY <1>1, PhaseType DEF Phase, Attacking
<1>2. CASE RoomOf(s.position) = "target" /\ r = [s EXCEPT !.phase = "attack"]
  BY <1>2, PhaseType DEF Phase, Attacking
<1>3. CASE r \in Advance(s, at, clear, formation)
  BY <1>3, AdvanceType DEF Attacking
<1> QED BY <1>1, <1>2, <1>3 DEF EnRoute

LEMMA AttackType ==
  ASSUME NEW s \in Progress, NEW at, NEW clear, NEW formation, NEW over, s.phase = "attack", Attacking(s),
         NEW r \in Attack(s, at, clear, formation, over)
  PROVE  r \in Progress /\ Attacking(r)
<1>1. CASE r = [s EXCEPT !.phase = "marshal"]
  BY <1>1, PhaseType DEF Phase, Attacking
<1>2. CASE r = s
  BY <1>2
<1>3. CASE r \in Advance(s, at, clear, formation)
  BY <1>3, AdvanceType DEF Attacking
<1> QED BY <1>1, <1>2, <1>3 DEF Attack

(* A run keeps a party's state of its type, and the attack phase in the      *)
(* target room.                                                              *)
LEMMA OutcomesType ==
  ASSUME NEW s \in Progress, NEW at, NEW clear, NEW formation, NEW over, Attacking(s),
         NEW r \in Outcomes(s, at, clear, formation, over)
  PROVE  r \in Progress /\ Attacking(r)
<1> DEFINE t == AfterMarshal(s, at)
<1>1. t \in Progress /\ Attacking(t)
  BY MarshalType DEF AfterMarshal, Attacking
<1>2. PICK u \in AfterEnRoute(t, at, clear, formation) : r \in AfterAttack(u, at, clear, formation, over)
  BY DEF Outcomes
<1> HIDE DEF t
<1>3. u \in Progress /\ Attacking(u)
  BY <1>1, <1>2, EnRouteType DEF AfterEnRoute
<1> QED BY <1>2, <1>3, AttackType DEF AfterAttack

(* The creeps move along the line. *)
LEMMA MovedType ==
  ASSUME NEW s \in Progress, NEW at \in Seq(Tile), NEW formation
  PROVE  Moved(formation, s, at) \in Seq(Tile)
<1>1. ASSUME NEW i \in DOMAIN at PROVE Place(formation, s, i) \in Tile
  <2>1. s.previousPositions \in Seq(Tile) /\ Len(s.previousPositions) \in 1..MaxPrevious
    BY ProgressType DEF Previous
  <2>2. i \in Nat /\ i >= 1
    OBVIOUS
  <2>3. Head(s.previousPositions) \in Tile
    BY <2>1
  <2>4. i <= Len(s.previousPositions) => s.previousPositions[i] \in Tile
    BY <2>1, <2>2
  <2> QED BY <2>3, <2>4 DEF Place
<1> DEFINE place(i) == Place(formation, s, i)
<1> DEFINE next(i) == IF at[i] < place(i) THEN at[i] + 1 ELSE IF at[i] > place(i) THEN at[i] - 1 ELSE at[i]
<1>2. ASSUME NEW i \in DOMAIN at PROVE next(i) \in Tile
  <2>1. at[i] \in Tile /\ place(i) \in Tile
    BY <1>1
  <2> HIDE DEF place
  <2> QED BY <2>1, Constants DEF Tile
<1>3. Moved(formation, s, at) = [i \in DOMAIN at |-> next(i)]
  BY DEF Moved
<1>4. DOMAIN at = 1..Len(at) /\ Len(at) \in Nat
  OBVIOUS
<1> HIDE DEF next
<1>5. Moved(formation, s, at) \in [1..Len(at) -> Tile]
  BY <1>2, <1>3, <1>4
<1> QED BY <1>4, <1>5

LEMMA BeginningType == Beginning \in Progress /\ Beginning.phase = "marshal"
<1>1. [i \in 1..PartySize |-> 1 - i] \in [1..PartySize -> Tile]
  BY Constants DEF Tile
<1>2. PartySize \in 1..MaxPrevious
  BY Constants
<1>3. [i \in 1..PartySize |-> 1 - i] \in UNION {[1..n -> Tile] : n \in 1..MaxPrevious}
  BY <1>1, <1>2
<1> QED BY <1>3, Constants DEF Beginning, Progress, Phase

-----------------------------------------------------------------------------
(* The invariant.  The manager's list names every party in the field, and    *)
(* neither the list nor its copy in Memory has two parties of a base.        *)

Distinct(S) == \A p, q \in S : p.base = q.base => p = q

Register ==
  /\ restored = FALSE => procs = {}
  /\ restored = TRUE => procs \subseteq warParties
  /\ Distinct(warParties) /\ Distinct(saved.parties)

IInv == TypeOK /\ AttacksTarget /\ Register

LEMMA InitIInv == Init => IInv
<1> SUFFICES ASSUME Init PROVE IInv
  OBVIOUS
<1>1. TypeOK
  <2>1. progress \in [Party -> Progress]
    BY BeginningType DEF Init
  <2>2. DOMAIN creeps = Party /\ \A p \in Party : creeps[p] \in Seq(Tile)
    BY DEF Init
  <2> QED BY <2>1, <2>2 DEF Init, TypeOK, Content
<1>2. AttacksTarget
  BY BeginningType DEF Init, AttacksTarget
<1>3. Register
  BY DEF Init, Register, Distinct
<1> QED BY <1>1, <1>2, <1>3 DEF IInv

(* What the manager restores names every party in the field. *)
LEMMA RestoredType ==
  ASSUME TypeOK, Register
  PROVE  /\ Listed \subseteq Party /\ Distinct(Listed) /\ Wanted \subseteq Rooms
         /\ Registered \subseteq Listed /\ procs \subseteq Registered /\ Alive = Registered
<1>1. CASE restored = TRUE
  <2>1. Listed = warParties /\ Registered = procs /\ Wanted = targets
    BY <1>1 DEF Listed, Registered, Wanted
  <2> QED BY <1>1, <2>1 DEF TypeOK, Register, Alive
<1>2. CASE restored = FALSE
  <2>1. Listed = {p \in saved.parties : p.base \in held} /\ Wanted = saved.targets
    BY <1>2 DEF Listed, Wanted
  <2>2. procs = {} /\ Registered = Listed
    BY <1>2 DEF Registered, Register
  <2>3. Distinct(Listed)
    BY <2>1 DEF Register, Distinct
  <2> QED BY <2>1, <2>2, <2>3 DEF TypeOK, Alive
<1> QED BY <1>1, <1>2 DEF TypeOK

(* A base that sends a party has none yet, and there is a number for it.     *)
LEMMA SentType ==
  ASSUME TypeOK, Register, NEW sent \in Sendings(Wanted, Alive)
  PROVE  sent \subseteq Party /\ Distinct(Alive \union sent)
<1>1. PICK a \in Assignments(Wanted) : sent = {NewParty(a, b, Alive) : b \in Senders(a, Alive)}
  BY DEF Sendings
<1>2. ASSUME NEW b \in Senders(a, Alive)
      PROVE  NewParty(a, b, Alive) \in Party /\ NewParty(a, b, Alive).base = b
  <2>1. b \in Bases /\ a[b] \in Rooms /\ \A p \in Alive : p.base # b
    BY SetsAssumption DEF Senders, TypeOK
  <2>2. PICK m \in Numbers, n \in Numbers : m # n
    BY SetsAssumption
  <2> DEFINE q(k) == [base |-> b, target |-> a[b], number |-> k]
  <2>3. \A k \in Numbers : q(k).base = b /\ q(k).number = k
    OBVIOUS
  <2> HIDE DEF q
  <2>4. \A k \in Numbers : q(k) \notin procs \union Alive
    BY <2>1, <2>3, RestoredType
  <2>5. q(m) \notin saved.parties \/ q(n) \notin saved.parties
    BY <2>2, <2>3 DEF Register, Distinct
  <2>6. \E k \in Numbers : k \in FreeNumbers(b, a[b], Alive)
    BY <2>4, <2>5 DEF FreeNumbers, q
  <2>7. (CHOOSE n1 \in FreeNumbers(b, a[b], Alive) : TRUE) \in Numbers
    BY <2>6 DEF FreeNumbers
  <2> QED BY <2>1, <2>7 DEF NewParty, Party
<1>3. sent \subseteq Party
  BY <1>1, <1>2
<1>4. ASSUME NEW p \in Alive \union sent, NEW q \in Alive \union sent, p.base = q.base
      PROVE  p = q
  <2>1. CASE p \in Alive /\ q \in Alive
    BY <1>4, <2>1, RestoredType DEF Distinct
  <2>2. CASE p \in sent /\ q \in sent
    BY <1>1, <1>2, <1>4, <2>2
  <2>3. ASSUME NEW r \in Alive, NEW t \in sent PROVE r.base # t.base
    BY <1>1, <1>2 DEF Senders
  <2> QED BY <1>4, <2>1, <2>2, <2>3
<1> QED BY <1>3, <1>4 DEF Distinct
-----------------------------------------------------------------------------
(* One lemma per action that the invariant is not indifferent to. *)

LEMMA AliasedType == ASSUME TypeOK, NEW update \in BOOLEAN PROVE Aliased(update) \in BOOLEAN
BY DEF Aliased, Updates, TypeOK

LEMMA ConsumeType ==
  ASSUME TypeOK, Register, NEW update \in BOOLEAN, ConsumeEvents(update)
  PROVE  /\ targets' \subseteq Rooms /\ topic' = {} /\ aliased' \in BOOLEAN
         /\ journal' \in [Rooms -> Content \union {Unseen}]
<1>1. Asked \subseteq Rooms
  BY DEF Asked
<1>2. targets' \subseteq Rooms
  BY <1>1, RestoredType DEF ConsumeEvents
<1>3. journal' \in [Rooms -> Content \union {Unseen}]
  BY DEF ConsumeEvents, TypeOK
<1>4. aliased' \in BOOLEAN
  BY AliasedType DEF ConsumeEvents
<1> QED BY <1>2, <1>3, <1>4 DEF ConsumeEvents

LEMMA WarManagerStep ==
  ASSUME IInv, NEW update \in BOOLEAN, NEW consume \in BOOLEAN, WarManagerRun(update, consume)
  PROVE  IInv'
<1> DEFINE list == IF update THEN Alive ELSE Listed
<1>1. TypeOK /\ AttacksTarget /\ Register
  BY DEF IInv
<1>2. list \subseteq Party /\ Distinct(list) /\ Registered \subseteq list
  <2>1. Distinct(Registered)
    BY <1>1, RestoredType DEF Distinct
  <2> QED BY <1>1, <2>1, RestoredType
<1>3. PICK sent \in IF Updates(update) THEN Sendings(Wanted, list) ELSE {{}},
           pushed \in Pushed(update, consume) :
        /\ restored' = TRUE /\ warParties' = list \union sent
        /\ procs' = Registered \union sent
        /\ progress' = [p \in Party |-> IF p \in Listed \union saved.parties THEN progress[p] ELSE Beginning]
        /\ creeps' = [p \in Party |-> IF p \in Listed \union saved.parties THEN creeps[p] ELSE <<>>]
        /\ saved' = IF Updates(update)
                    THEN [targets |-> Wanted \union pushed, parties |-> list \union sent]
                    ELSE [saved EXCEPT !.targets = @ \union pushed]
  BY DEF WarManagerRun
<1>4. sent \subseteq Party /\ Distinct(list \union sent)
  <2>1. CASE Updates(update)
    <3>1. list = Alive /\ sent \in Sendings(Wanted, Alive)
      BY <1>3, <2>1 DEF Updates
    <3> QED BY <1>1, <3>1, SentType
  <2>2. CASE ~Updates(update)
    BY <1>2, <1>3, <2>2
  <2> QED BY <2>1, <2>2
<1>5. pushed \subseteq Rooms
  BY <1>3 DEF Pushed, Asked
<1> HIDE DEF list
<1>6. /\ targets' \subseteq Rooms /\ topic' \subseteq Event /\ aliased' \in BOOLEAN
      /\ journal' \in [Rooms -> Content \union {Unseen}]
  <2>1. CASE consume
    BY <1>1, <2>1, ConsumeType DEF WarManagerRun
  <2>2. CASE ~consume
    BY <1>1, <2>2, RestoredType, AliasedType DEF WarManagerRun, TypeOK
  <2> QED BY <2>1, <2>2
<1>7. saved'.targets \subseteq Rooms /\ saved'.parties \subseteq Party /\ Distinct(saved'.parties)
  <2>1. CASE Updates(update)
    BY <1>1, <1>2, <1>3, <1>4, <1>5, <2>1, RestoredType
  <2>2. CASE ~Updates(update)
    BY <1>1, <1>3, <1>5, <2>2 DEF TypeOK, Register
  <2> QED BY <2>1, <2>2
<1>8. procs' \subseteq Party /\ ended' \subseteq procs' /\ procs' \subseteq warParties'
  BY <1>1, <1>2, <1>3, <1>4, RestoredType DEF WarManagerRun, TypeOK
<1>9. progress' \in [Party -> Progress]
  BY <1>1, <1>3, BeginningType DEF TypeOK
<1>10. DOMAIN creeps' = Party /\ \A p \in Party : creeps'[p] \in Seq(Tile)
  <2>1. ASSUME NEW p \in Party PROVE creeps'[p] = creeps[p] \/ creeps'[p] = <<>>
    BY <1>3
  <2> QED BY <1>1, <1>3, <2>1 DEF TypeOK
<1>11. TypeOK'
  <2>1. rooms' \in [Rooms -> Content] /\ held' \subseteq Bases /\ aggressive' \subseteq Bases
    BY <1>1 DEF WarManagerRun, world, TypeOK
  <2> QED BY <1>2, <1>3, <1>4, <1>6, <1>7, <1>8, <1>9, <1>10, <2>1 DEF TypeOK
<1>12. AttacksTarget'
  BY <1>1, <1>3, BeginningType DEF AttacksTarget
<1>13. Register'
  BY <1>3, <1>4, <1>7, <1>8 DEF Register, Distinct
<1> QED BY <1>11, <1>12, <1>13 DEF IInv

LEMMA PartyStep ==
  ASSUME IInv, NEW p \in Party, NEW clear \in BOOLEAN, PartyRun(p, clear)
  PROVE  IInv'
<1>1. TypeOK /\ AttacksTarget /\ Register
  BY DEF IInv
<1>f. PICK formation \in Formation : \E s \in Outcomes(progress[p], creeps[p], clear, formation, Over(p)) :
        LET completed == s.phase = "attack" /\ Over(p)
            done == completed \/ p.base \notin aggressive
        IN  /\ progress' = [progress EXCEPT ![p] = s]
            /\ topic' = IF completed
                        THEN topic \union {[status |-> "completed", room |-> p.target]} ELSE topic
            /\ creeps' = [creeps EXCEPT ![p] = IF done THEN <<>>
                                              ELSE Moved(Kept(progress[p], s, formation), s, @)]
            /\ ended' = IF done THEN ended \union {p} ELSE ended
  BY DEF PartyRun
<1>2. PICK s \in Outcomes(progress[p], creeps[p], clear, formation, Over(p)) :
        LET completed == s.phase = "attack" /\ Over(p)
            done == completed \/ p.base \notin aggressive
        IN  /\ progress' = [progress EXCEPT ![p] = s]
            /\ topic' = IF completed
                        THEN topic \union {[status |-> "completed", room |-> p.target]} ELSE topic
            /\ creeps' = [creeps EXCEPT ![p] = IF done THEN <<>>
                                              ELSE Moved(Kept(progress[p], s, formation), s, @)]
            /\ ended' = IF done THEN ended \union {p} ELSE ended
  BY <1>f
<1>3. s \in Progress /\ Attacking(s)
  <2>1. progress[p] \in Progress /\ Attacking(progress[p])
    BY <1>1 DEF TypeOK, AttacksTarget, Attacking
  <2> QED BY <1>2, <2>1, OutcomesType
<1>4. progress' = [progress EXCEPT ![p] = s]
  BY <1>2
<1>5. progress' \in [Party -> Progress] /\ \A q \in Party : progress'[q] = IF q = p THEN s ELSE progress[q]
  BY <1>1, <1>3, <1>4 DEF TypeOK
<1>6. topic' \subseteq Event
  <2>1. [status |-> "completed", room |-> p.target] \in Event
    BY DEF Event, Party
  <2> QED BY <1>1, <1>2, <2>1 DEF TypeOK
<1>7. PICK f : creeps' = [creeps EXCEPT ![p] = <<>>] \/ creeps' = [creeps EXCEPT ![p] = Moved(f, s, @)]
  BY <1>2
<1>8. DOMAIN creeps' = Party /\ \A q \in Party : creeps'[q] \in Seq(Tile)
  <2>1. Moved(f, s, creeps[p]) \in Seq(Tile)
    BY <1>1, <1>3, MovedType DEF TypeOK
  <2>2. PICK q \in Seq(Tile) : creeps' = [creeps EXCEPT ![p] = q]
    <3>1. <<>> \in Seq(Tile)
      OBVIOUS
    <3>2. CASE creeps' = [creeps EXCEPT ![p] = <<>>]
      BY <3>1, <3>2
    <3>3. CASE creeps' = [creeps EXCEPT ![p] = Moved(f, s, @)]
      BY <2>1, <3>3
    <3> QED BY <1>7, <3>2, <3>3
  <2> QED BY <1>1, <2>2 DEF TypeOK
<1>9. ended' \subseteq procs'
  BY <1>1, <1>2 DEF PartyRun, Runs, TypeOK
<1>10. UNCHANGED <<targets, restored, warParties, saved, aliased, procs, journal, rooms, held, aggressive>>
  BY DEF PartyRun, manager, world
<1>11. TypeOK'
  BY <1>1, <1>5, <1>6, <1>8, <1>9, <1>10 DEF TypeOK
<1>12. AttacksTarget'
  BY <1>1, <1>3, <1>5 DEF AttacksTarget, Attacking
<1>13. Register'
  BY <1>1, <1>10 DEF Register, Distinct
<1> QED BY <1>11, <1>12, <1>13 DEF IInv
(* The creeps of a party move, come and go.                                  *)
LEMMA CreepsStep ==
  ASSUME IInv, NEW p \in Party, NEW q \in Seq(Tile), creeps' = [creeps EXCEPT ![p] = q],
         UNCHANGED <<manager, topic, procs, ended, progress, journal, world>>
  PROVE  IInv'
<1>1. TypeOK /\ AttacksTarget /\ Register
  BY DEF IInv
<1>2. UNCHANGED <<targets, restored, warParties, saved, aliased, topic, procs, ended, progress,
                  journal, rooms, held, aggressive>>
  BY DEF manager, world
<1>3. DOMAIN creeps' = Party /\ \A r \in Party : creeps'[r] \in Seq(Tile)
  BY <1>1 DEF TypeOK
<1>4. TypeOK'
  BY <1>1, <1>2, <1>3 DEF TypeOK
<1>5. AttacksTarget'
  BY <1>1, <1>2 DEF AttacksTarget
<1>6. Register'
  BY <1>1, <1>2 DEF Register, Distinct
<1> QED BY <1>4, <1>5, <1>6 DEF IInv

(* What a step does that touches neither the manager's lists nor the states  *)
(* and creeps of the parties.                                                *)
LEMMA OtherStep ==
  ASSUME IInv, UNCHANGED <<saved, progress, creeps>>,
         \/ UNCHANGED <<restored, warParties>> /\ procs' \subseteq procs
         \/ restored' = FALSE /\ warParties' = {} /\ procs' = {},
         targets' \subseteq targets, aliased' \in BOOLEAN, topic' \subseteq Event, ended' \subseteq procs',
         journal' \in [Rooms -> Content \union {Unseen}], rooms' \in [Rooms -> Content],
         held' \subseteq Bases, aggressive' \subseteq Bases
  PROVE  IInv'
<1>1. TypeOK /\ AttacksTarget /\ Register
  BY DEF IInv
<1>2. TypeOK'
  <2>1. restored' \in BOOLEAN /\ warParties' \subseteq Party /\ procs' \subseteq Party
    BY <1>1 DEF TypeOK
  <2> QED BY <1>1, <2>1 DEF TypeOK
<1>3. AttacksTarget'
  BY <1>1 DEF AttacksTarget
<1>4. Register'
  <2>1. CASE UNCHANGED <<restored, warParties>> /\ procs' \subseteq procs
    BY <1>1, <2>1 DEF Register, Distinct
  <2>2. CASE restored' = FALSE /\ warParties' = {} /\ procs' = {}
    BY <1>1, <2>2 DEF Register, Distinct
  <2> QED BY <2>1, <2>2
<1> QED BY <1>2, <1>3, <1>4 DEF IInv

LEMMA NextIInv == IInv /\ [Next]_vars => IInv'
<1> SUFFICES ASSUME IInv, [Next]_vars PROVE IInv'
  OBVIOUS
<1> USE DEF manager, party, world
<1>0. TypeOK /\ AttacksTarget /\ Register
  BY DEF IInv
<1>1. ASSUME NEW update \in BOOLEAN, NEW consume \in BOOLEAN, WarManagerRun(update, consume) PROVE IInv'
  BY <1>1, WarManagerStep
<1>2. ASSUME NEW p \in Party, NEW clear \in BOOLEAN, PartyRun(p, clear) PROVE IInv'
  BY <1>2, PartyStep
<1>3. ASSUME NEW p \in Party, CreepsGoOn(p) PROVE IInv'
  <2>1. PICK f : creeps' = [creeps EXCEPT ![p] = Moved(f, progress[p], creeps[p])]
    BY <1>3 DEF CreepsGoOn
  <2>2. Moved(f, progress[p], creeps[p]) \in Seq(Tile)
    BY <1>0, MovedType DEF TypeOK
  <2> QED BY <1>3, <2>1, <2>2, CreepsStep DEF CreepsGoOn
<1>4. ASSUME NEW p \in Party, Spawned(p) PROVE IInv'
  <2>1. Append(creeps[p], Border) \in Seq(Tile)
    BY <1>0, Constants DEF TypeOK
  <2> QED BY <1>4, <2>1, CreepsStep DEF Spawned
<1>5. ASSUME NEW p \in Party, NEW i \in 1..MaxCreeps, CreepDies(p, i) PROVE IInv'
  <2>1. creeps[p] \in Seq(Tile) /\ i \in 1..Len(creeps[p])
    BY <1>0, <1>5 DEF TypeOK, CreepDies
  <2>2. Seqs!RemoveAt(creeps[p], i) \in Seq(Tile)
    BY <2>1, RemoveAtType
  <2> QED BY <1>5, <2>2, CreepsStep DEF CreepDies
<1>6. ASSUME NEW p \in Party, MemoryExpires(p) PROVE IInv'
  <2>1. progress' \in [Party -> Progress] /\ \A q \in Party : progress'[q] = IF q = p THEN Beginning ELSE progress[q]
    BY <1>0, <1>6, BeginningType DEF MemoryExpires, TypeOK
  <2>2. TypeOK'
    BY <1>0, <1>6, <2>1 DEF MemoryExpires, TypeOK
  <2>3. AttacksTarget'
    BY <1>0, <2>1, BeginningType DEF AttacksTarget
  <2>4. Register'
    BY <1>0, <1>6 DEF MemoryExpires, Register, Distinct
  <2> QED BY <2>2, <2>3, <2>4 DEF IInv
<1>7. ASSUME NEW p \in Party, Unregister(p) PROVE IInv'
  BY <1>0, <1>7, OtherStep DEF Unregister, TypeOK
<1>8. ASSUME NEW r \in Rooms, RequestAttack(r) PROVE IInv'
  <2>1. [status |-> "requested", room |-> r] \in Event
    BY DEF Event
  <2> QED BY <1>0, <1>8, <2>1, OtherStep DEF RequestAttack, TypeOK
<1>9. ASSUME NEW r \in Rooms, UpdateRoom(r) PROVE IInv'
  <2>1. journal' \in [Rooms -> Content \union {Unseen}]
    BY <1>0, <1>9 DEF UpdateRoom, TypeOK, Content
  <2> QED BY <1>0, <1>9, <2>1, OtherStep DEF UpdateRoom, TypeOK
<1>10. ASSUME NEW r \in Rooms, RemoveStaleEntry(r) PROVE IInv'
  BY <1>0, <1>10, OtherStep DEF RemoveStaleEntry, TypeOK
<1>11. ASSUME NEW r \in Rooms, RoomChanges(r) PROVE IInv'
  BY <1>0, <1>11, OtherStep DEF RoomChanges, TypeOK
<1>12. ASSUME NEW b \in Bases, FlagChanges(b) PROVE IInv'
  BY <1>0, <1>12, OtherStep DEF FlagChanges, TypeOK
<1>13. ASSUME NEW b \in Bases, BaseChanges(b) PROVE IInv'
  BY <1>0, <1>13, OtherStep DEF BaseChanges, TypeOK
<1>14. ASSUME GlobalReset PROVE IInv'
  <2>1. journal' \in [Rooms -> Content \union {Unseen}]
    BY <1>0, <1>14 DEF GlobalReset, TypeOK
  <2> QED BY <1>0, <1>14, <2>1, OtherStep DEF GlobalReset, TypeOK
<1>15. ASSUME MemoryParsed PROVE IInv'
  BY <1>0, <1>15, OtherStep DEF MemoryParsed, TypeOK
<1>16. CASE UNCHANGED vars
  BY <1>0, <1>16, OtherStep DEF vars, TypeOK
<1> QED
  BY <1>1, <1>2, <1>3, <1>4, <1>5, <1>6, <1>7, <1>8, <1>9, <1>10, <1>11, <1>12, <1>13, <1>14, <1>15,
     <1>16
     DEF Next

-----------------------------------------------------------------------------
(* The lists, the parties and their creeps keep their types, whatever the    *)
(* managers, the creeps, the world and resets do; two numbers are enough to  *)
(* tell a new party from one Memory still knows.                             *)
THEOREM TypeCorrect == Spec => []TypeOK
<1>1. IInv => TypeOK
  BY DEF IInv
<1> QED BY InitIInv, NextIInv, <1>1, PTL DEF Spec

(* No base has two parties in the field: sendWarParty counts the parties of  *)
(* the manager's list, and the list names every party that has a process.    *)
THEOREM SendsOneParty == Spec => []OnePartyPerBase
<1>1. IInv => OnePartyPerBase
  <2> SUFFICES ASSUME IInv PROVE OnePartyPerBase
    OBVIOUS
  <2>1. procs \subseteq warParties /\ Distinct(warParties)
    BY DEF IInv, TypeOK, Register
  <2> QED BY <2>1 DEF OnePartyPerBase, Distinct
<1> QED BY InitIInv, NextIInv, <1>1, PTL DEF Spec

(* A party attacks in its target room only, also when it is restored.        *)
THEOREM StrikesTarget == Spec => []AttacksTarget
<1>1. IInv => AttacksTarget
  BY DEF IInv
<1> QED BY InitIInv, NextIInv, <1>1, PTL DEF Spec
=============================================================================

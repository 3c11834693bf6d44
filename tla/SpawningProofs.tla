--------------------------- MODULE SpawningProofs ---------------------------
(* What holds of spawning for any bases, spawns, needs and priorities: no    *)
(* creep is built for a request that has lapsed, a request is built once and *)
(* not lost, and a base serves the most urgent of its own requests.          *)
(*                                                                           *)
(* The first part is about the topics: what filtering, sorting, reversing    *)
(* and joining arrays does to the order of the requests and to how often     *)
(* each of them is there.                                                    *)
EXTENDS Spawning, FiniteSetTheorems, FunctionTheorems, SequenceTheorems, TLAPS

-----------------------------------------------------------------------------
(* Arranging positions *)

(* A strict total order on I, given by what comes before each element *)
Orders(before, I) ==
  /\ before \in [I -> SUBSET I]
  /\ \A i \in I : i \notin before[i]
  /\ \A i \in I : \A j \in before[i] : before[j] \subseteq before[i]
  /\ \A i, j \in I : i = j \/ i \in before[j] \/ j \in before[i]

(* at lists the elements of I in the order of before. *)
Lists(at, before, I) ==
  /\ at \in [1..Cardinality(I) -> I]
  /\ \A i \in I : \E k \in 1..Cardinality(I) : at[k] = i
  /\ \A k, m \in 1..Cardinality(I) : k < m <=> at[k] \in before[at[m]]

(* Counting what comes before puts every element at a place of its own. *)
LEMMA OrderListed ==
  ASSUME NEW I, IsFiniteSet(I), NEW before, Orders(before, I)
  PROVE  Lists([k \in 1..Cardinality(I) |-> CHOOSE i \in I : Cardinality(before[i]) = k - 1],
               before, I)
<1> DEFINE n == Cardinality(I)
           place == [i \in I |-> Cardinality(before[i]) + 1]
           at == [k \in 1..n |-> CHOOSE i \in I : Cardinality(before[i]) = k - 1]
<1>1. n \in Nat
  BY FS_CardinalityType
<1>2. \A i \in I : IsFiniteSet(before[i]) /\ Cardinality(before[i]) \in Nat
  <2> SUFFICES ASSUME NEW i \in I PROVE IsFiniteSet(before[i]) /\ Cardinality(before[i]) \in Nat
    OBVIOUS
  <2>1. before[i] \in SUBSET I
    BY DEF Orders
  <2> QED  BY <2>1, FS_Subset, FS_CardinalityType
<1>3. ASSUME NEW i \in I, NEW j \in before[i]
      PROVE  Cardinality(before[j]) < Cardinality(before[i])
  <2>1. j \in I /\ before[j] \in SUBSET before[i] /\ j \notin before[j]
    BY DEF Orders
  <2>2. /\ Cardinality(before[j]) <= Cardinality(before[i])
        /\ Cardinality(before[i]) = Cardinality(before[j]) => before[i] = before[j]
    BY <1>2, <2>1, FS_Subset
  <2> QED  BY <1>2, <2>1, <2>2
<1>4. ASSUME NEW i \in I PROVE Cardinality(before[i]) < n
  <2>1. before[i] \in SUBSET I /\ before[i] # I
    BY DEF Orders
  <2>2. /\ Cardinality(before[i]) <= n
        /\ n = Cardinality(before[i]) => I = before[i]
    BY <2>1, FS_Subset
  <2> QED  BY <1>1, <1>2, <2>1, <2>2
<1>5. place \in Injection(I, 1..n)
  <2>1. place \in [I -> 1..n]
    BY <1>1, <1>2, <1>4
  <2>2. ASSUME NEW i \in I, NEW j \in I, place[i] = place[j] PROVE i = j
    BY <1>2, <1>3, <2>2 DEF Orders
  <2> QED  BY <2>1, <2>2, Zenon DEF Injection, IsInjective
<1>6. place \in Surjection(I, 1..n)
  <2>1. IsFiniteSet(1..n) /\ Cardinality(1..n) = n
    BY <1>1, FS_Interval
  <2> HIDE DEF place
  <2> QED  BY <1>5, <2>1, FS_Injection
<1>7. \A k \in 1..n : at[k] \in I /\ Cardinality(before[at[k]]) = k - 1
  <2> SUFFICES ASSUME NEW k \in 1..n PROVE at[k] \in I /\ Cardinality(before[at[k]]) = k - 1
    OBVIOUS
  <2>1. PICK i \in I : place[i] = k
    BY <1>6 DEF Surjection
  <2>2. Cardinality(before[i]) = k - 1
    BY <1>1, <1>2, <2>1
  <2> QED  BY <2>2
<1>8. \A i \in I : place[i] \in 1..n /\ at[place[i]] = i
  <2> SUFFICES ASSUME NEW i \in I PROVE place[i] \in 1..n /\ at[place[i]] = i
    OBVIOUS
  <2>1. place[i] \in 1..n
    BY <1>5 DEF Injection
  <2>2. Cardinality(before[at[place[i]]]) = Cardinality(before[i]) /\ at[place[i]] \in I
    BY <1>1, <1>2, <1>7, <2>1
  <2>3. at[place[i]] \notin before[i] /\ i \notin before[at[place[i]]]
    BY <1>2, <1>3, <2>2
  <2> QED  BY <2>1, <2>2, <2>3 DEF Orders
<1>9. \A k, m \in 1..n : k < m <=> at[k] \in before[at[m]]
  <2> SUFFICES ASSUME NEW k \in 1..n, NEW m \in 1..n PROVE k < m <=> at[k] \in before[at[m]]
    OBVIOUS
  <2>1. /\ at[k] \in I /\ Cardinality(before[at[k]]) = k - 1
        /\ at[m] \in I /\ Cardinality(before[at[m]]) = m - 1
    BY <1>7
  <2>2. at[k] \in before[at[m]] => k < m
    BY <1>3, <1>1, <2>1
  <2>3. at[m] \in before[at[k]] => m < k
    BY <1>3, <1>1, <2>1
  <2>4. at[k] = at[m] => k = m
    BY <1>1, <2>1
  <2> HIDE DEF at
  <2> QED  BY <1>1, <2>1, <2>2, <2>3, <2>4 DEF Orders
<1>10. at \in [1..n -> I]
  BY <1>7
<1> HIDE DEF at
<1>11. \A i \in I : \E k \in 1..n : at[k] = i
  BY <1>8
<1> QED  BY <1>9, <1>10, <1>11 DEF Lists, at

(* at lists the positions of I in the order of before, and Arrange follows it *)
ArrangedAt(at, q, before, I) ==
  /\ Lists(at, before, I)
  /\ Arrange(q, before) = [k \in 1..Cardinality(I) |-> q[at[k]]]

(* Arrange puts the elements of q in the order of before. *)
LEMMA Arranged ==
  ASSUME NEW I, IsFiniteSet(I), NEW before, Orders(before, I), NEW q
  PROVE  \E at : ArrangedAt(at, q, before, I)
<1> DEFINE at == [k \in 1..Cardinality(I) |-> CHOOSE i \in I : Cardinality(before[i]) = k - 1]
<1>1. Lists(at, before, I)
  BY OrderListed
<1>2. DOMAIN before = I
  BY DEF Orders
<1>3. Arrange(q, before) = [k \in 1..Cardinality(I) |-> q[at[k]]]
  BY <1>2 DEF Arrange
<1> HIDE DEF at
<1> QED  BY <1>1, <1>3 DEF ArrangedAt

(* s consists of the elements of q at the positions I, each taken once: its  *)
(* k-th element is that at position at[k].                                   *)
Selects(s, q, at, I) ==
  /\ at \in [DOMAIN s -> I]
  /\ \A i \in I : \E k \in DOMAIN s : at[k] = i
  /\ \A k, m \in DOMAIN s : at[k] = at[m] => k = m
  /\ \A k \in DOMAIN s : s[k] = q[at[k]]

(* An arrangement of an array takes each of the positions I once. *)
LEMMA ArrangeSelects ==
  ASSUME NEW S, NEW q \in Seq(S), NEW I \in SUBSET DOMAIN q, NEW before, Orders(before, I)
  PROVE  /\ Arrange(q, before) \in Seq(S)
         /\ \E at : /\ Selects(Arrange(q, before), q, at, I)
                    /\ \A k, m \in DOMAIN Arrange(q, before) : k < m <=> at[k] \in before[at[m]]
<1>1. DOMAIN q = 1..Len(q) /\ Len(q) \in Nat /\ \A i \in DOMAIN q : q[i] \in S
  BY ElementOfSeq, LenProperties
<1>2. IsFiniteSet(I) /\ Cardinality(I) \in Nat
  <2>1. IsFiniteSet(DOMAIN q)
    BY <1>1, FS_Interval
  <2> QED  BY <2>1, FS_Subset, FS_CardinalityType
<1>3. PICK at : /\ Lists(at, before, I)
                /\ Arrange(q, before) = [k \in 1..Cardinality(I) |-> q[at[k]]]
  <2>1. \E at : ArrangedAt(at, q, before, I)
    BY <1>2, Arranged
  <2> QED  BY <2>1 DEF ArrangedAt
<1>4. at \in [1..Cardinality(I) -> I] /\ \A i \in I : i \notin before[i]
  BY <1>3 DEF Lists, Orders
<1>5. Arrange(q, before) \in [1..Cardinality(I) -> S]
  BY <1>1, <1>3, <1>4
<1>6. Arrange(q, before) \in Seq(S)
  BY <1>2, <1>5, SeqDef
<1>7. DOMAIN Arrange(q, before) = 1..Cardinality(I)
  BY <1>5
<1>8. ASSUME NEW k \in 1..Cardinality(I), NEW m \in 1..Cardinality(I), at[k] = at[m]
      PROVE  k = m
  BY <1>2, <1>3, <1>4, <1>8 DEF Lists
<1>9. Selects(Arrange(q, before), q, at, I)
  BY <1>3, <1>7, <1>8 DEF Selects, Lists
<1> QED  BY <1>3, <1>6, <1>7, <1>9 DEF Lists

(* What a filter leaves is in the order it was in. *)
LEMMA KeepSelects ==
  ASSUME NEW S, NEW q \in Seq(S), NEW wanted
  PROVE  /\ Keep(q, wanted) \in Seq(S)
         /\ \E at : /\ Selects(Keep(q, wanted), q, at, {i \in DOMAIN q : q[i] \in wanted})
                    /\ \A k, m \in DOMAIN Keep(q, wanted) : k < m <=> at[k] < at[m]
<1> DEFINE I == {i \in DOMAIN q : q[i] \in wanted}
           before == [i \in I |-> {j \in I : j < i}]
<1>1. DOMAIN q = 1..Len(q) /\ Len(q) \in Nat
  BY LenProperties
<1>2. Orders(before, I)
  BY <1>1 DEF Orders
<1>3. Keep(q, wanted) = Arrange(q, before)
  BY DEF Keep
<1>4. PICK at : /\ Selects(Arrange(q, before), q, at, I)
                /\ \A k, m \in DOMAIN Arrange(q, before) : k < m <=> at[k] \in before[at[m]]
  <2> HIDE DEF before
  <2> QED  BY <1>2, ArrangeSelects
<1>5. \A k \in DOMAIN Arrange(q, before) : at[k] \in I
  BY <1>4 DEF Selects
<1>6. \A i, j \in I : i \in before[j] <=> i < j
  OBVIOUS
<1>7. Arrange(q, before) \in Seq(S)
  <2> HIDE DEF before
  <2> QED  BY <1>2, ArrangeSelects
<1> HIDE DEF before, I
<1>8. \A k, m \in DOMAIN Keep(q, wanted) : k < m <=> at[k] < at[m]
  BY <1>3, <1>4, <1>5, <1>6
<1> QED  BY <1>3, <1>4, <1>7, <1>8 DEF I

(* Requests, and arrays in ascending order of priority *)
Prioritized(S) == \A r \in S : r.priority \in Int

InOrder(q) == \A i, j \in DOMAIN q : i < j => q[i].priority <= q[j].priority

(* A sorted array has the elements of the array, in order of priority. *)
LEMMA SortSelects ==
  ASSUME NEW S, Prioritized(S), NEW q \in Seq(S)
  PROVE  /\ SortByPriority(q) \in Seq(S)
         /\ \E at : Selects(SortByPriority(q), q, at, DOMAIN q)
         /\ InOrder(SortByPriority(q))
<1> DEFINE I == DOMAIN q
           before == [i \in I |-> {j \in I : \/ q[j].priority < q[i].priority
                                             \/ q[j].priority = q[i].priority /\ j < i}]
<1>1. DOMAIN q = 1..Len(q) /\ Len(q) \in Nat /\ \A i \in DOMAIN q : q[i].priority \in Int
  BY LenProperties, ElementOfSeq DEF Prioritized
<1>2. Orders(before, I)
  <2>1. before \in [I -> SUBSET I] /\ \A i \in I : i \notin before[i]
    BY <1>1
  <2>2. \A i \in I : \A j \in before[i] : before[j] \subseteq before[i]
    BY <1>1
  <2>3. \A i, j \in I : i = j \/ i \in before[j] \/ j \in before[i]
    BY <1>1
  <2> HIDE DEF before
  <2> QED  BY <2>1, <2>2, <2>3 DEF Orders
<1>3. SortByPriority(q) = Arrange(q, before)
  BY DEF SortByPriority
<1>4. \A i, j \in I : i \in before[j] => q[i].priority <= q[j].priority
  BY <1>1
<1> HIDE DEF before
<1>5. /\ Arrange(q, before) \in Seq(S)
      /\ \E at : /\ Selects(Arrange(q, before), q, at, I)
                 /\ \A k, m \in DOMAIN Arrange(q, before) : k < m <=> at[k] \in before[at[m]]
  BY <1>2, ArrangeSelects
<1>6. PICK at : /\ Selects(Arrange(q, before), q, at, I)
                /\ \A k, m \in DOMAIN Arrange(q, before) : k < m <=> at[k] \in before[at[m]]
  BY <1>5
<1>7. InOrder(SortByPriority(q))
  BY <1>3, <1>4, <1>6 DEF InOrder, Selects
<1> QED  BY <1>3, <1>5, <1>6, <1>7

-----------------------------------------------------------------------------
(* How often a request is in an array *)

PositionsOf(r, q) == {i \in DOMAIN q : q[i] = r}

(* A request is in an array as often as it has positions there. *)
LEMMA CopiesType ==
  ASSUME NEW S, NEW q \in Seq(S), NEW r
  PROVE  /\ Copies(r, q) = Cardinality(PositionsOf(r, q))
         /\ IsFiniteSet(PositionsOf(r, q))
         /\ Copies(r, q) \in Nat
         /\ Copies(r, q) = 0 <=> r \notin ToSet(q)
<1>1. DOMAIN q = 1..Len(q) /\ Len(q) \in Nat
  BY LenProperties
<1>2. IsFiniteSet(DOMAIN q)
  BY <1>1, FS_Interval
<1>3. PositionsOf(r, q) \in SUBSET DOMAIN q
  BY DEF PositionsOf
<1>4. IsFiniteSet(PositionsOf(r, q))
  BY <1>2, <1>3, FS_Subset
<1>5. Copies(r, q) = Cardinality(PositionsOf(r, q))
  BY DEF Copies, PositionsOf
<1>6. PositionsOf(r, q) = {} <=> r \notin ToSet(q)
  BY DEF PositionsOf, ToSet
<1> QED  BY <1>4, <1>5, <1>6, FS_CardinalityType, FS_EmptySet

(* A selection that takes every copy has as many. *)
LEMMA SelectedCopies ==
  ASSUME NEW S, NEW q \in Seq(S), NEW s \in Seq(S), NEW I, NEW at, NEW r,
         Selects(s, q, at, I), I \subseteq DOMAIN q, PositionsOf(r, q) \subseteq I
  PROVE  Copies(r, s) = Copies(r, q)
<1> DEFINE f == [k \in PositionsOf(r, s) |-> at[k]]
<1>1. f \in [PositionsOf(r, s) -> PositionsOf(r, q)]
  BY DEF Selects, PositionsOf
<1>2. \A i \in PositionsOf(r, q) : \E k \in PositionsOf(r, s) : f[k] = i
  BY DEF Selects, PositionsOf
<1>3. \A k, m \in PositionsOf(r, s) : f[k] = f[m] => k = m
  BY DEF Selects, PositionsOf
<1> HIDE DEF f
<1>4. f \in Bijection(PositionsOf(r, s), PositionsOf(r, q))
  BY <1>1, <1>2, <1>3, Zenon DEF Bijection, Injection, Surjection, IsInjective
<1>5. ExistsBijection(PositionsOf(r, s), PositionsOf(r, q))
  BY <1>4 DEF ExistsBijection
<1> QED  BY <1>5, CopiesType, FS_Bijection

(* _.filter and _.remove: what of q is wanted, in the order it was in *)
LEMMA KeepFacts ==
  ASSUME NEW S, NEW q \in Seq(S), NEW wanted
  PROVE  /\ Keep(q, wanted) \in Seq(S)
         /\ ToSet(Keep(q, wanted)) = ToSet(q) \cap wanted
         /\ \A r : Copies(r, Keep(q, wanted)) = IF r \in wanted THEN Copies(r, q) ELSE 0
         /\ Prioritized(S) /\ InOrder(q) => InOrder(Keep(q, wanted))
<1> DEFINE I == {i \in DOMAIN q : q[i] \in wanted}
           s == Keep(q, wanted)
<1>1. PICK at : /\ Selects(s, q, at, I)
                /\ \A k, m \in DOMAIN s : k < m <=> at[k] < at[m]
  BY KeepSelects
<1>2. s \in Seq(S)
  BY KeepSelects
<1> HIDE DEF s
<1>3. ToSet(s) = ToSet(q) \cap wanted
  BY <1>1 DEF Selects, ToSet
<1>4. ASSUME NEW r PROVE Copies(r, s) = IF r \in wanted THEN Copies(r, q) ELSE 0
  <2>1. CASE r \in wanted
    <3>1. PositionsOf(r, q) \subseteq I /\ I \subseteq DOMAIN q
      BY <2>1 DEF PositionsOf
    <3> QED  BY <1>1, <1>2, <2>1, <3>1, SelectedCopies
  <2>2. CASE r \notin wanted
    BY <1>2, <1>3, <2>2, CopiesType
  <2> QED  BY <2>1, <2>2
<1>5. ASSUME InOrder(q) PROVE InOrder(s)
  BY <1>1, <1>5 DEF InOrder, Selects
<1> QED  BY <1>2, <1>3, <1>4, <1>5 DEF s

(* _.sortBy *)
LEMMA SortFacts ==
  ASSUME NEW S, Prioritized(S), NEW q \in Seq(S)
  PROVE  /\ SortByPriority(q) \in Seq(S)
         /\ ToSet(SortByPriority(q)) = ToSet(q)
         /\ \A r : Copies(r, SortByPriority(q)) = Copies(r, q)
         /\ InOrder(SortByPriority(q))
<1> DEFINE s == SortByPriority(q)
<1>1. PICK at : Selects(s, q, at, DOMAIN q)
  BY SortSelects
<1>2. s \in Seq(S) /\ InOrder(s)
  BY SortSelects
<1> HIDE DEF s
<1>3. ToSet(s) = ToSet(q)
  BY <1>1 DEF Selects, ToSet
<1>4. ASSUME NEW r PROVE Copies(r, s) = Copies(r, q)
  <2>1. PositionsOf(r, q) \subseteq DOMAIN q
    BY DEF PositionsOf
  <2> QED  BY <1>1, <1>2, <2>1, SelectedCopies
<1> QED  BY <1>2, <1>3, <1>4 DEF s

(* The reversal of an array, and back *)
LEMMA ReverseFacts ==
  ASSUME NEW S, NEW q \in Seq(S)
  PROVE  /\ Reverse(q) \in Seq(S)
         /\ ToSet(Reverse(q)) = ToSet(q)
         /\ \A r : Copies(r, Reverse(q)) = Copies(r, q)
         /\ Reverse(Reverse(q)) = q
<1> DEFINE n == Len(q)
           at == [k \in 1..n |-> n - k + 1]
           s == Reverse(q)
<1>1. n \in Nat /\ DOMAIN q = 1..n /\ q \in [1..n -> S]
  BY LenProperties
<1>2. s \in [1..n -> S] /\ \A k \in 1..n : s[k] = q[n - k + 1]
  BY <1>1 DEF Reverse
<1>3. s \in Seq(S) /\ Len(s) = n
  <2>1. s \in Seq(S)
    BY <1>1, <1>2, SeqDef
  <2> QED  BY <1>1, <1>2, <2>1, LenProperties
<1>4. \A k \in 1..n : n - k + 1 \in 1..n /\ n - (n - k + 1) + 1 = k
  BY <1>1
<1>5. Reverse(s) = q
  <2> HIDE DEF s, n
  <2>1. Reverse(s) = [k \in 1..n |-> s[n - k + 1]]
    BY <1>3 DEF Reverse
  <2>2. \A k \in 1..n : s[n - k + 1] = q[k]
    BY <1>2, <1>4
  <2> QED  BY <1>1, <2>1, <2>2
<1>6. Selects(s, q, at, DOMAIN q)
  <2>1. \A i \in 1..n : at[n - i + 1] = i
    BY <1>4
  <2>2. at \in [1..n -> 1..n] /\ \A k, m \in 1..n : at[k] = at[m] => k = m
    BY <1>1
  <2>3. \A k \in 1..n : s[k] = q[at[k]]
    BY <1>2
  <2>4. DOMAIN s = 1..n
    BY <1>2
  <2> HIDE DEF at, s, n
  <2> QED  BY <1>1, <1>4, <2>1, <2>2, <2>3, <2>4 DEF Selects
<1> HIDE DEF s, n, at
<1>7. ToSet(s) = ToSet(q)
  BY <1>6 DEF Selects, ToSet
<1>8. ASSUME NEW r PROVE Copies(r, s) = Copies(r, q)
  <2>1. PositionsOf(r, q) \subseteq DOMAIN q
    BY DEF PositionsOf
  <2> QED  BY <1>3, <1>6, <2>1, SelectedCopies
<1> QED  BY <1>3, <1>5, <1>7, <1>8 DEF s

(* push, once for each of s *)
LEMMA ConcatFacts ==
  ASSUME NEW S, NEW q \in Seq(S), NEW s \in Seq(S)
  PROVE  /\ q \o s \in Seq(S)
         /\ ToSet(q \o s) = ToSet(q) \cup ToSet(s)
         /\ \A r : Copies(r, q \o s) = Copies(r, q) + Copies(r, s)
<1> DEFINE n == Len(q)
           m == Len(s)
           j == q \o s
<1>1. /\ n \in Nat /\ DOMAIN q = 1..n
      /\ m \in Nat /\ DOMAIN s = 1..m
  BY LenProperties
<1>2. /\ j \in Seq(S) /\ Len(j) = n + m
      /\ \A i \in 1..(n + m) : j[i] = IF i <= n THEN q[i] ELSE s[i - n]
  BY ConcatProperties
<1>3. DOMAIN j = 1..(n + m)
  BY <1>2, LenProperties
<1> HIDE DEF j, n, m
<1>4. ToSet(j) = ToSet(q) \cup ToSet(s)
  <2>1. \A i \in 1..n : i \in 1..(n + m) /\ j[i] = q[i]
    BY <1>1, <1>2
  <2>2. \A i \in 1..m : i + n \in 1..(n + m) /\ j[i + n] = s[i]
    BY <1>1, <1>2
  <2>3. \A i \in 1..(n + m) : (i \in 1..n /\ j[i] = q[i]) \/ (i - n \in 1..m /\ j[i] = s[i - n])
    BY <1>1, <1>2
  <2> QED  BY <1>1, <1>3, <2>1, <2>2, <2>3 DEF ToSet
<1>5. ASSUME NEW r PROVE Copies(r, j) = Copies(r, q) + Copies(r, s)
  <2> DEFINE late == {i \in PositionsOf(r, j) : i > n}
             f == [i \in PositionsOf(r, s) |-> i + n]
  <2>1. PositionsOf(r, j) = PositionsOf(r, q) \cup late
    BY <1>1, <1>2, <1>3 DEF PositionsOf
  <2>2. PositionsOf(r, q) \cap late = {}
    BY <1>1 DEF PositionsOf
  <2>3. f \in [PositionsOf(r, s) -> late]
    BY <1>1, <1>2, <1>3 DEF PositionsOf
  <2>4. \A i \in late : \E k \in PositionsOf(r, s) : f[k] = i
    <3> SUFFICES ASSUME NEW i \in late PROVE \E k \in PositionsOf(r, s) : f[k] = i
      OBVIOUS
    <3>1. i \in 1..(n + m) /\ i > n /\ j[i] = r
      BY <1>3 DEF PositionsOf
    <3>2. i - n \in PositionsOf(r, s) /\ (i - n) + n = i
      BY <1>1, <1>2, <3>1 DEF PositionsOf
    <3> QED  BY <3>2
  <2>5. \A i, k \in PositionsOf(r, s) : f[i] = f[k] => i = k
    BY <1>1 DEF PositionsOf
  <2>6. IsFiniteSet(PositionsOf(r, s)) /\ IsFiniteSet(PositionsOf(r, q))
    BY CopiesType
  <2> HIDE DEF f, late
  <2>7. f \in Bijection(PositionsOf(r, s), late)
    BY <2>3, <2>4, <2>5, Zenon DEF Bijection, Injection, Surjection, IsInjective
  <2>8. ExistsBijection(PositionsOf(r, s), late)
    BY <2>7 DEF ExistsBijection
  <2>9. IsFiniteSet(late) /\ Cardinality(late) = Cardinality(PositionsOf(r, s))
    BY <2>6, <2>8, FS_Bijection
  <2>10. Cardinality(PositionsOf(r, j))
           = Cardinality(PositionsOf(r, q)) + Cardinality(late) - Cardinality({})
    BY <2>1, <2>2, <2>6, <2>9, FS_Union
  <2>11. /\ Copies(r, j) = Cardinality(PositionsOf(r, j))
         /\ Copies(r, q) = Cardinality(PositionsOf(r, q)) /\ Copies(r, q) \in Nat
         /\ Copies(r, s) = Cardinality(PositionsOf(r, s)) /\ Copies(r, s) \in Nat
    BY <1>2, CopiesType
  <2> QED  BY <2>9, <2>10, <2>11, FS_EmptySet
<1> QED  BY <1>2, <1>4, <1>5 DEF j

(* The elements before position k *)
LEMMA PrefixFacts ==
  ASSUME NEW S, NEW q \in Seq(S), NEW k \in DOMAIN q
  PROVE  /\ SubSeq(q, 1, k - 1) \in Seq(S)
         /\ DOMAIN SubSeq(q, 1, k - 1) = {i \in DOMAIN q : i < k}
         /\ \A i \in DOMAIN q : i < k => SubSeq(q, 1, k - 1)[i] = q[i]
         /\ Copies(q[k], SubSeq(q, 1, k - 1)) < Copies(q[k], q)
         /\ \A r : (\A i \in DOMAIN q : i >= k => q[i] # r)
                     => Copies(r, SubSeq(q, 1, k - 1)) = Copies(r, q)
         /\ \A r : Copies(r, SubSeq(q, 1, k - 1)) <= Copies(r, q)
<1> DEFINE s == SubSeq(q, 1, k - 1)
<1>1. Len(q) \in Nat /\ DOMAIN q = 1..Len(q) /\ k \in 1..Len(q)
      /\ \A i \in 1..Len(q) : q[i] \in S
  BY LenProperties, ElementOfSeq
<1>2. s = [i \in 1..(k - 1) |-> q[i]]
  BY <1>1
<1>3. s \in Seq(S)
  BY <1>1, <1>2
<1>4. DOMAIN s = {i \in DOMAIN q : i < k} /\ \A i \in DOMAIN q : i < k => s[i] = q[i]
  BY <1>1, <1>2
<1> HIDE DEF s
<1>5. ASSUME NEW r
      PROVE  /\ PositionsOf(r, s) \in SUBSET PositionsOf(r, q)
             /\ Copies(r, s) <= Copies(r, q)
             /\ PositionsOf(r, s) # PositionsOf(r, q) => Copies(r, s) < Copies(r, q)
             /\ PositionsOf(r, s) = PositionsOf(r, q) => Copies(r, s) = Copies(r, q)
  <2>1. PositionsOf(r, s) \in SUBSET PositionsOf(r, q)
    BY <1>4 DEF PositionsOf
  <2>2. /\ IsFiniteSet(PositionsOf(r, q))
        /\ Copies(r, q) = Cardinality(PositionsOf(r, q)) /\ Copies(r, q) \in Nat
        /\ Copies(r, s) = Cardinality(PositionsOf(r, s)) /\ Copies(r, s) \in Nat
    BY <1>3, CopiesType
  <2>3. /\ Cardinality(PositionsOf(r, s)) <= Cardinality(PositionsOf(r, q))
        /\ Cardinality(PositionsOf(r, q)) = Cardinality(PositionsOf(r, s))
             => PositionsOf(r, q) = PositionsOf(r, s)
    BY <2>1, <2>2, FS_Subset
  <2> QED  BY <2>1, <2>2, <2>3
<1>6. Copies(q[k], s) < Copies(q[k], q)
  <2>1. k \in PositionsOf(q[k], q) /\ k \notin PositionsOf(q[k], s)
    BY <1>1, <1>4 DEF PositionsOf
  <2> QED  BY <1>5, <2>1
<1>7. ASSUME NEW r, \A i \in DOMAIN q : i >= k => q[i] # r
      PROVE  Copies(r, s) = Copies(r, q)
  <2>1. PositionsOf(r, s) = PositionsOf(r, q)
    BY <1>1, <1>4, <1>7 DEF PositionsOf
  <2> QED  BY <1>5, <2>1
<1> QED  BY <1>3, <1>4, <1>5, <1>6, <1>7 DEF s

-----------------------------------------------------------------------------
(* How often a request is in the topics together *)

Held(r, t) == UNION {{k} \X PositionsOf(r, t[k]) : k \in Topic}

(* A set that is not larger can be mapped into the other one to one. *)
LEMMA InjectionExists ==
  ASSUME NEW A, NEW B, IsFiniteSet(A), IsFiniteSet(B), Cardinality(A) <= Cardinality(B)
  PROVE  \E f : f \in Injection(A, B)
<1> DEFINE n == Cardinality(A)
           m == Cardinality(B)
<1>1. n \in Nat /\ m \in Nat /\ 1..n \subseteq 1..m
  BY FS_CardinalityType
<1>2. PICK g : g \in Bijection(1..n, A)
  BY FS_CardinalityType, Zenon DEF ExistsBijection
<1>3. PICK h : h \in Bijection(1..m, B)
  BY FS_CardinalityType, Zenon DEF ExistsBijection
<1> DEFINE place == Inverse(g, 1..n, A)
           f == [a \in A |-> h[place[a]]]
<1>4. place \in Bijection(A, 1..n)
  BY <1>2, Fun_BijInverse
<1> HIDE DEF place, n, m
<1>5. /\ place \in [A -> 1..n]
      /\ \A a, b \in A : place[a] = place[b] => a = b
  BY <1>4, Fun_BijectionProperties
<1>6. /\ h \in [1..m -> B]
      /\ \A a, b \in 1..m : h[a] = h[b] => a = b
  BY <1>3, Fun_BijectionProperties
<1>7. f \in [A -> B]
  BY <1>1, <1>5, <1>6
<1>8. \A a, b \in A : f[a] = f[b] => a = b
  BY <1>1, <1>5, <1>6
<1> HIDE DEF f
<1>9. f \in Injection(A, B)
  BY <1>7, <1>8, Fun_IsInj
<1> QED  BY <1>9

(* The places in the topics where a request is *)
LEMMA HeldFacts ==
  ASSUME NEW S, NEW t \in [Topic -> Seq(S)], NEW r
  PROVE  /\ AllCopies(r, t) = Cardinality(Held(r, t)) /\ AllCopies(r, t) \in Nat
         /\ IsFiniteSet(Held(r, t))
         /\ \A k, i : <<k, i>> \in Held(r, t) <=> k \in Topic /\ i \in PositionsOf(r, t[k])
         /\ \A x \in Held(r, t) :
               x = <<x[1], x[2]>> /\ x[1] \in Topic /\ x[2] \in PositionsOf(r, t[x[1]])
<1> DEFINE part == [k \in Topic |-> {k} \X PositionsOf(r, t[k])]
           parts == {part[k] : k \in Topic}
<1>1. IsFiniteSet(Topic)
  BY SpawningAssumption, FS_AddElement DEF Topic
<1>2. part \in Surjection(Topic, parts)
  <2>1. part \in [Topic -> parts] /\ \A p \in parts : \E k \in Topic : part[k] = p
    OBVIOUS
  <2> HIDE DEF part, parts
  <2> QED  BY <2>1, Fun_IsSurj
<1>3. IsFiniteSet(parts)
  <2> HIDE DEF part, parts
  <2> QED  BY <1>1, <1>2, FS_Surjection
<1>4. \A p \in parts : IsFiniteSet(p)
  <2>1. \A k \in Topic : IsFiniteSet({k} \X PositionsOf(r, t[k]))
    BY CopiesType, FS_Singleton, FS_Product
  <2> QED  BY <2>1
<1>5. IsFiniteSet(UNION parts)
  <2> HIDE DEF part, parts
  <2> QED  BY <1>3, <1>4, FS_UNION
<1>6. Held(r, t) = UNION parts
  BY DEF Held
<1>7. AllCopies(r, t) = Cardinality(Held(r, t))
  BY DEF AllCopies, Held, PositionsOf
<1>8. \A k, i : <<k, i>> \in Held(r, t) <=> k \in Topic /\ i \in PositionsOf(r, t[k])
  BY DEF Held
<1>9. \A x \in Held(r, t) :
         x = <<x[1], x[2]>> /\ x[1] \in Topic /\ x[2] \in PositionsOf(r, t[x[1]])
  BY DEF Held
<1> QED  BY <1>5, <1>6, <1>7, <1>8, <1>9, FS_CardinalityType

(* A request that is nowhere more often is not more often in the topics, and *)
(* less often if it is less often in one of them.                            *)
LEMMA CopiesPointwise ==
  ASSUME NEW S, NEW t \in [Topic -> Seq(S)], NEW u \in [Topic -> Seq(S)], NEW r,
         \A k \in Topic : Copies(r, t[k]) <= Copies(r, u[k])
  PROVE  /\ AllCopies(r, t) <= AllCopies(r, u)
         /\ (\E k \in Topic : Copies(r, t[k]) < Copies(r, u[k]))
              => AllCopies(r, t) < AllCopies(r, u)
<1> DEFINE A(k) == PositionsOf(r, t[k])
           B(k) == PositionsOf(r, u[k])
<1>1. \A k \in Topic : /\ IsFiniteSet(A(k)) /\ IsFiniteSet(B(k))
                       /\ Cardinality(A(k)) = Copies(r, t[k]) /\ Copies(r, t[k]) \in Nat
                       /\ Cardinality(B(k)) = Copies(r, u[k]) /\ Copies(r, u[k]) \in Nat
  BY CopiesType
<1>2. \A k \in Topic : \E f : f \in Injection(A(k), B(k))
  BY <1>1, InjectionExists
<1>3. \A k \in Topic : Copies(r, t[k]) < Copies(r, u[k])
         => \E x \in B(k) : \E f : f \in Injection(A(k), B(k) \ {x})
  <2> SUFFICES ASSUME NEW k \in Topic, Copies(r, t[k]) < Copies(r, u[k])
               PROVE  \E x \in B(k) : \E f : f \in Injection(A(k), B(k) \ {x})
    OBVIOUS
  <2>1. PICK x : x \in B(k)
    <3>1. Cardinality(B(k)) # 0
      BY <1>1
    <3> QED  BY <3>1, FS_EmptySet
  <2>2. IsFiniteSet(B(k) \ {x}) /\ Cardinality(B(k) \ {x}) = Cardinality(B(k)) - 1
    BY <1>1, <2>1, FS_RemoveElement
  <2>3. Cardinality(A(k)) <= Cardinality(B(k) \ {x})
    BY <1>1, <2>2
  <2>4. \E f : f \in Injection(A(k), B(k) \ {x})
    BY <1>1, <2>2, <2>3, InjectionExists
  <2> QED  BY <2>1, <2>4
<1>4. ASSUME NEW H \in SUBSET Held(r, u), NEW C \in [Topic -> SUBSET Nat],
             \A k \in Topic : C[k] \subseteq B(k) /\ \E f : f \in Injection(A(k), C[k]),
             \A k \in Topic : \A i \in C[k] : <<k, i>> \in H
      PROVE  AllCopies(r, t) <= Cardinality(H)
  <2> DEFINE inj == [k \in Topic |-> CHOOSE f : f \in Injection(A(k), C[k])]
             f == [x \in Held(r, t) |-> <<x[1], inj[x[1]][x[2]]>>]
  <2>1. \A k \in Topic : inj[k] \in Injection(A(k), C[k])
    BY <1>4
  <2> HIDE DEF inj
  <2>2. \A k \in Topic : /\ inj[k] \in [A(k) -> C[k]]
                         /\ \A i, j \in A(k) : inj[k][i] = inj[k][j] => i = j
    BY <2>1, Fun_InjectionProperties
  <2>3. \A x \in Held(r, t) : x = <<x[1], x[2]>> /\ x[1] \in Topic /\ x[2] \in A(x[1])
    BY HeldFacts
  <2>4. f \in [Held(r, t) -> H]
    BY <1>4, <2>2, <2>3
  <2>5. \A x, y \in Held(r, t) : f[x] = f[y] => x = y
    <3> SUFFICES ASSUME NEW x \in Held(r, t), NEW y \in Held(r, t), f[x] = f[y] PROVE x = y
      OBVIOUS
    <3>1. x[1] = y[1] /\ inj[x[1]][x[2]] = inj[y[1]][y[2]]
      OBVIOUS
    <3>2. x[2] = y[2]
      BY <2>2, <2>3, <3>1
    <3> QED  BY <2>3, <3>1, <3>2
  <2> HIDE DEF f
  <2>6. f \in Injection(Held(r, t), H)
    BY <2>4, <2>5, Fun_IsInj
  <2>7. IsFiniteSet(H)
    BY HeldFacts, FS_Subset
  <2>8. Cardinality(Held(r, t)) <= Cardinality(H)
    BY <2>6, <2>7, FS_Injection
  <2> QED  BY <2>8, HeldFacts
<1>5. \A k \in Topic : B(k) \in SUBSET Nat /\ \A i \in B(k) : <<k, i>> \in Held(r, u)
  <2>1. \A k \in Topic : DOMAIN u[k] \subseteq Nat
    BY LenProperties
  <2> QED  BY <2>1, HeldFacts DEF PositionsOf
<1>6. AllCopies(r, t) <= AllCopies(r, u)
  <2> DEFINE C == [k \in Topic |-> B(k)]
  <2>1. C \in [Topic -> SUBSET Nat] /\ \A k \in Topic : C[k] = B(k)
    BY <1>5
  <2> HIDE DEF C
  <2>2. \A k \in Topic : C[k] \subseteq B(k) /\ \E f : f \in Injection(A(k), C[k])
    BY <1>2, <2>1
  <2>3. \A k \in Topic : \A i \in C[k] : <<k, i>> \in Held(r, u)
    BY <1>5, <2>1
  <2>4. AllCopies(r, t) <= Cardinality(Held(r, u))
    BY <1>4, <2>1, <2>2, <2>3
  <2> QED  BY <2>4, HeldFacts
<1>7. ASSUME NEW j \in Topic, Copies(r, t[j]) < Copies(r, u[j])
      PROVE  AllCopies(r, t) < AllCopies(r, u)
  <2>1. PICK x \in B(j) : \E f : f \in Injection(A(j), B(j) \ {x})
    BY <1>3, <1>7
  <2> DEFINE C == [k \in Topic |-> IF k = j THEN B(k) \ {x} ELSE B(k)]
             H == Held(r, u) \ {<<j, x>>}
  <2>2. C \in [Topic -> SUBSET Nat]
        /\ \A k \in Topic : C[k] = IF k = j THEN B(k) \ {x} ELSE B(k)
    BY <1>5
  <2> HIDE DEF C
  <2>3. \A k \in Topic : C[k] \subseteq B(k) /\ \E f : f \in Injection(A(k), C[k])
    <3> SUFFICES ASSUME NEW k \in Topic
                 PROVE  C[k] \subseteq B(k) /\ \E f : f \in Injection(A(k), C[k])
      OBVIOUS
    <3>1. CASE k = j
      <4>1. C[j] = B(j) \ {x}
        BY <2>2
      <4>2. \E f : f \in Injection(A(j), C[j])
        BY <2>1, <4>1
      <4> QED  BY <3>1, <4>1, <4>2
    <3>2. CASE k # j
      <4>1. C[k] = B(k)
        BY <2>2, <3>2
      <4>2. \E f : f \in Injection(A(k), C[k])
        BY <1>2, <4>1
      <4> QED  BY <4>1, <4>2
    <3> QED  BY <3>1, <3>2
  <2>4. \A k \in Topic : \A i \in C[k] : <<k, i>> \in H
    BY <1>5, <2>2
  <2>5. H \in SUBSET Held(r, u)
    OBVIOUS
  <2>6. <<j, x>> \in Held(r, u)
    BY <1>5
  <2>7. Cardinality(H) = Cardinality(Held(r, u)) - 1
    BY <2>6, HeldFacts, FS_RemoveElement
  <2> HIDE DEF H
  <2>8. AllCopies(r, t) <= Cardinality(H)
    BY <1>4, <2>2, <2>3, <2>4, <2>5
  <2> QED  BY <2>7, <2>8, HeldFacts
<1> QED  BY <1>6, <1>7

(* What one topic loses to another is still in the topics. *)
LEMMA CopiesMoved ==
  ASSUME NEW S, NEW t \in [Topic -> Seq(S)], NEW u \in [Topic -> Seq(S)], NEW r,
         NEW a \in Topic, NEW b \in Topic, a # b,
         Copies(r, u[a]) + Copies(r, u[b]) = Copies(r, t[a]) + Copies(r, t[b]),
         \A k \in Topic : k # a /\ k # b => u[k] = t[k]
  PROVE  AllCopies(r, u) = AllCopies(r, t)
<1> DEFINE Rest(v) == {x \in Held(r, v) : x[1] # a /\ x[1] # b}
           Part(v, k) == {k} \X PositionsOf(r, v[k])
<1>1. ASSUME NEW v \in [Topic -> Seq(S)]
      PROVE  AllCopies(r, v) = Copies(r, v[a]) + Copies(r, v[b]) + Cardinality(Rest(v))
  <2>1. \A k \in Topic : IsFiniteSet(Part(v, k)) /\ Cardinality(Part(v, k)) = Copies(r, v[k])
    <3> SUFFICES ASSUME NEW k \in Topic
                 PROVE  IsFiniteSet(Part(v, k)) /\ Cardinality(Part(v, k)) = Copies(r, v[k])
      OBVIOUS
    <3>1. /\ IsFiniteSet(PositionsOf(r, v[k])) /\ Copies(r, v[k]) \in Nat
          /\ Copies(r, v[k]) = Cardinality(PositionsOf(r, v[k]))
      BY CopiesType
    <3>2. IsFiniteSet({k}) /\ Cardinality({k}) = 1
      BY FS_Singleton
    <3>3. /\ IsFiniteSet(Part(v, k))
          /\ Cardinality(Part(v, k)) = Cardinality({k}) * Cardinality(PositionsOf(r, v[k]))
      BY <3>1, <3>2, FS_Product
    <3> QED  BY <3>1, <3>2, <3>3
  <2>2. IsFiniteSet(Rest(v)) /\ Cardinality(Rest(v)) \in Nat
    <3>1. IsFiniteSet(Held(r, v)) /\ Rest(v) \in SUBSET Held(r, v)
      BY HeldFacts
    <3> QED  BY <3>1, FS_Subset, FS_CardinalityType
  <2>3. Held(r, v) = (Part(v, a) \cup Part(v, b)) \cup Rest(v)
    <3>1. \A x \in Held(r, v) : x = <<x[1], x[2]>> /\ x[1] \in Topic /\ x[2] \in PositionsOf(r, v[x[1]])
      BY HeldFacts
    <3>2. Part(v, a) \subseteq Held(r, v) /\ Part(v, b) \subseteq Held(r, v)
      BY DEF Held
    <3>3. \A x \in Held(r, v) : x[1] = a => x \in Part(v, a)
      BY <3>1
    <3>4. \A x \in Held(r, v) : x[1] = b => x \in Part(v, b)
      BY <3>1
    <3> QED  BY <3>2, <3>3, <3>4
  <2>4. Part(v, a) \cap Part(v, b) = {} /\ (Part(v, a) \cup Part(v, b)) \cap Rest(v) = {}
    OBVIOUS
  <2>5. Copies(r, v[a]) \in Nat /\ Copies(r, v[b]) \in Nat
    BY CopiesType
  <2>6. AllCopies(r, v) = Cardinality(Held(r, v)) /\ Cardinality({}) = 0
    BY HeldFacts, FS_EmptySet
  <2> HIDE DEF Rest, Part
  <2>7. /\ IsFiniteSet(Part(v, a) \cup Part(v, b))
        /\ Cardinality(Part(v, a) \cup Part(v, b)) = Copies(r, v[a]) + Copies(r, v[b])
    <3>1. /\ IsFiniteSet(Part(v, a) \cup Part(v, b))
          /\ Cardinality(Part(v, a) \cup Part(v, b))
               = Cardinality(Part(v, a)) + Cardinality(Part(v, b))
                   - Cardinality(Part(v, a) \cap Part(v, b))
      BY <2>1, FS_Union
    <3>2. Cardinality(Part(v, a) \cap Part(v, b)) = 0
      BY <2>4, <2>6
    <3>3. Cardinality(Part(v, a)) = Copies(r, v[a]) /\ Cardinality(Part(v, b)) = Copies(r, v[b])
      BY <2>1
    <3> QED  BY <2>5, <3>1, <3>2, <3>3
  <2>8. Cardinality((Part(v, a) \cup Part(v, b)) \cup Rest(v))
          = Cardinality(Part(v, a) \cup Part(v, b)) + Cardinality(Rest(v))
              - Cardinality((Part(v, a) \cup Part(v, b)) \cap Rest(v))
    BY <2>2, <2>7, FS_Union
  <2>9. Cardinality((Part(v, a) \cup Part(v, b)) \cap Rest(v)) = 0
    BY <2>4, <2>6
  <2>10. AllCopies(r, v) = Cardinality((Part(v, a) \cup Part(v, b)) \cup Rest(v))
    BY <2>3, <2>6
  <2> QED  BY <2>2, <2>5, <2>7, <2>8, <2>9, <2>10
<1>2. Rest(u) = Rest(t)
  <2>1. /\ \A x \in Held(r, t) : x = <<x[1], x[2]>> /\ x[1] \in Topic /\ x[2] \in PositionsOf(r, t[x[1]])
        /\ \A x \in Held(r, u) : x = <<x[1], x[2]>> /\ x[1] \in Topic /\ x[2] \in PositionsOf(r, u[x[1]])
    BY HeldFacts
  <2>2. /\ \A k, i : k \in Topic /\ i \in PositionsOf(r, t[k]) => <<k, i>> \in Held(r, t)
        /\ \A k, i : k \in Topic /\ i \in PositionsOf(r, u[k]) => <<k, i>> \in Held(r, u)
    BY HeldFacts
  <2>3. \A x \in Rest(u) : x \in Rest(t)
    BY <2>1, <2>2
  <2>4. \A x \in Rest(t) : x \in Rest(u)
    BY <2>1, <2>2
  <2> QED  BY <2>3, <2>4
<1>3. AllCopies(r, u) = Copies(r, u[a]) + Copies(r, u[b]) + Cardinality(Rest(u))
  BY <1>1
<1>4. AllCopies(r, t) = Copies(r, t[a]) + Copies(r, t[b]) + Cardinality(Rest(t))
  BY <1>1
<1> HIDE DEF Rest
<1> QED  BY <1>2, <1>3, <1>4

-----------------------------------------------------------------------------
(* The operations of the topics *)

LEMMA MaxIs ==
  ASSUME NEW S \in SUBSET Int, NEW m \in S, \A x \in S : m >= x
  PROVE  Max(S) = m
<1> DEFINE P(x) == x \in S /\ \A y \in S : x >= y
<1>1. P(m)
  OBVIOUS
<1>2. \A x : P(x) => x = m
  OBVIOUS
<1>3. Max(S) = CHOOSE x : P(x)
  BY DEF Max
<1> HIDE DEF P
<1> QED  BY <1>1, <1>2, <1>3

(* Math.max and Math.min of two numbers *)
LEMMA MaxMinOfTwo ==
  ASSUME NEW a \in Int, NEW b \in Int
  PROVE  /\ Max({a, b}) = IF a >= b THEN a ELSE b
         /\ Min({a, b}) = IF a <= b THEN a ELSE b
<1>1. CASE a >= b
  <2>1. Max({a, b}) = a
    BY <1>1, MaxIs
  <2>2. Min({a, b}) = b
    BY <1>1 DEF Min
  <2> QED  BY <1>1, <2>1, <2>2
<1>2. CASE ~(a >= b)
  <2>1. Max({a, b}) = b
    BY <1>2, MaxIs
  <2>2. Min({a, b}) = a
    BY <1>2 DEF Min
  <2> QED  BY <1>2, <2>1, <2>2
<1> QED  BY <1>1, <1>2

(* The array of a topic nobody has sent anything to *)
LEMMA EmptyFacts ==
  ASSUME NEW S
  PROVE  /\ << >> \in Seq(S) /\ ToSet(<< >>) = {} /\ InOrder(<< >>)
         /\ \A r : Copies(r, << >>) = 0
<1>1. << >> \in Seq(S) /\ ToSet(<< >>) = {}
  BY DEF ToSet
<1>2. \A r : Copies(r, << >>) = 0
  BY <1>1, CopiesType
<1>3. InOrder(<< >>)
  BY DEF InOrder
<1> QED  BY <1>1, <1>2, <1>3

(* addRequest: nothing is lost or doubled, and what is sorted stays sorted. *)
LEMMA AddRequestsFacts ==
  ASSUME NEW S, Prioritized(S), NEW q \in Seq(S), NEW rs \in Seq(S)
  PROVE  /\ AddRequests(q, rs) \in Seq(S)
         /\ ToSet(AddRequests(q, rs)) = ToSet(q) \cup ToSet(rs)
         /\ \A r : Copies(r, AddRequests(q, rs)) = Copies(r, q) + Copies(r, rs)
         /\ InOrder(q) => InOrder(AddRequests(q, rs))
<1>1. CASE rs = << >>
  <2>1. AddRequests(q, rs) = q
    BY <1>1 DEF AddRequests
  <2>2. ToSet(rs) = {} /\ \A r : Copies(r, rs) = 0 /\ Copies(r, q) \in Nat
    BY <1>1, EmptyFacts, CopiesType
  <2> QED  BY <2>1, <2>2
<1>2. CASE rs # << >>
  <2>1. AddRequests(q, rs) = SortByPriority(q \o rs)
    BY <1>2 DEF AddRequests
  <2>2. /\ q \o rs \in Seq(S)
        /\ ToSet(q \o rs) = ToSet(q) \cup ToSet(rs)
        /\ \A r : Copies(r, q \o rs) = Copies(r, q) + Copies(r, rs)
    BY ConcatFacts
  <2> QED  BY <2>1, <2>2, SortFacts
<1> QED  BY <1>1, <1>2

(* What getNextRequest pops is behind every other request that is not stale. *)
LEMMA TakeNextFacts ==
  ASSUME NEW S, NEW q \in Seq(S), TakeNext(q).next # << >>
  PROVE  \E k \in DOMAIN q :
           /\ ~Stale(q[k])
           /\ \A i \in DOMAIN q : ~Stale(q[i]) => i <= k
           /\ Head(TakeNext(q).next) = q[k]
           /\ TakeNext(q).rest = SubSeq(q, 1, k - 1)
<1> DEFINE fresh == {i \in DOMAIN q : ~Stale(q[i])}
           wanted == {r \in ToSet(q) : ~Stale(r)}
           s == Keep(q, wanted)
<1>1. fresh # {} /\ TakeNext(q) = [next |-> <<q[Max(fresh)]>>, rest |-> SubSeq(q, 1, Max(fresh) - 1)]
  BY DEF TakeNext
<1>2. fresh = {i \in DOMAIN q : q[i] \in wanted}
  BY DEF ToSet
<1>3. DOMAIN q = 1..Len(q) /\ Len(q) \in Nat
  BY LenProperties
<1>4. PICK at : /\ Selects(s, q, at, fresh)
                /\ \A k, m \in DOMAIN s : k < m <=> at[k] < at[m]
  <2>1. \E at : /\ Selects(s, q, at, {i \in DOMAIN q : q[i] \in wanted})
                /\ \A k, m \in DOMAIN s : k < m <=> at[k] < at[m]
    BY KeepSelects
  <2> HIDE DEF s, wanted, fresh
  <2> QED  BY <1>2, <2>1
<1>5. DOMAIN s = 1..Len(s) /\ Len(s) \in Nat
  BY KeepSelects, LenProperties
<1> HIDE DEF s, wanted
<1> DEFINE last == at[Len(s)]
<1>6. last \in fresh /\ \A i \in fresh : i <= last
  <2>1. Len(s) \in DOMAIN s
    BY <1>1, <1>4, <1>5 DEF Selects
  <2>2. \A k \in DOMAIN s : at[k] \in fresh
    BY <1>4 DEF Selects
  <2>3. \A k \in DOMAIN s : k < Len(s) => at[k] < at[Len(s)]
    BY <1>4, <2>1
  <2>4. \A i \in fresh : \E k \in DOMAIN s : at[k] = i
    BY <1>4 DEF Selects
  <2>5. \A i \in fresh : i \in Int
    BY <1>3
  <2> HIDE DEF fresh
  <2> QED  BY <1>5, <2>1, <2>2, <2>3, <2>4, <2>5
<1>7. Max(fresh) = last
  <2>1. fresh \in SUBSET Int
    BY <1>3
  <2> HIDE DEF fresh, last
  <2>2. \A i \in fresh : last >= i
    BY <1>6, <2>1
  <2> QED  BY <1>6, <2>1, <2>2, MaxIs
<1> HIDE DEF last, fresh
<1>8. TakeNext(q) = [next |-> <<q[last]>>, rest |-> SubSeq(q, 1, last - 1)]
  BY <1>1, <1>7
<1>9. Head(TakeNext(q).next) = q[last] /\ TakeNext(q).rest = SubSeq(q, 1, last - 1)
  <2> DEFINE taken == <<q[last]>>
             left == SubSeq(q, 1, last - 1)
  <2>1. TakeNext(q).next = taken /\ TakeNext(q).rest = left
    <3>1. TakeNext(q) = [next |-> taken, rest |-> left]
      BY <1>8
    <3> HIDE DEF taken, left
    <3> QED  BY <3>1
  <2> QED  BY <2>1
<1> QED  BY <1>6, <1>9 DEF fresh

(* _.find finds an element. *)
LEMMA FirstFacts ==
  ASSUME NEW S, NEW q \in Seq(S), First(q) # << >>
  PROVE  Head(First(q)) \in ToSet(q)
<1>1. q # << >> /\ First(q) = <<Head(q)>>
  BY DEF First
<1>2. Head(q) = q[1] /\ 1 \in DOMAIN q
  BY <1>1, EmptySeq, LenProperties
<1> QED  BY <1>1, <1>2 DEF ToSet

-----------------------------------------------------------------------------
(* The invariant *)

Request == [need : Needs, priority : Int, left : Nat \cup {-1}]

TypeOK ==
  /\ topics \in [Topic -> Seq(Request)]
  /\ cleaned \in BOOLEAN
  /\ wait \in [Threads -> Nat]
  /\ queue \in Seq(Spawns)
  /\ busy \in [Spawns -> Nat]
  /\ energy \in EnergyStates
  /\ names \subseteq {RoleOf[n] : n \in Needs}
  /\ creeps \in [Needs -> 0..MaxCreeps]
  /\ known \in [Needs -> 0..MaxCreeps]
  /\ order \in [spawn : Spawns, request : Request, ok : BOOLEAN] \cup {NoOrder}

(* Once the topics have been swept in a tick, nothing stale is added. *)
Swept == cleaned => \A k \in Topic : \A r \in ToSet(topics[k]) : ~Stale(r)

(* The topic of a base stays sorted.  That of the shard does not: a peek     *)
(* leaves it reversed.                                                       *)
Sorted == \A b \in Bases : InOrder(topics[b])

Inv == TypeOK /\ Swept /\ Sorted /\ NothingStaleIsBuilt

(* Requests can be sorted and aged. *)
LEMMA RequestFacts ==
  /\ Prioritized(Request)
  /\ \A r \in Request : r.need \in Needs /\ r.priority \in Int /\ r.left \in Int
BY DEF Prioritized, Request

(* The topics after the sweep that the first access in a tick makes *)
LEMMA CurrentFacts ==
  ASSUME Inv
  PROVE  /\ Current \in [Topic -> Seq(Request)]
         /\ \A k \in Topic : ToSet(Current[k]) = {r \in ToSet(topics[k]) : ~Stale(r)}
         /\ \A k \in Topic : \A r : Copies(r, Current[k]) <= Copies(r, topics[k])
         /\ \A k \in Topic : \A r : ~Stale(r) => Copies(r, Current[k]) = Copies(r, topics[k])
         /\ \A b \in Bases : InOrder(Current[b])
<1>1. \A k \in Topic : topics[k] \in Seq(Request)
  BY DEF Inv, TypeOK
<1>2. \A k \in Topic : \A r : Copies(r, topics[k]) \in Nat
  BY <1>1, CopiesType
<1>3. CASE cleaned
  <2>1. Current = topics
    BY <1>3 DEF Current
  <2>2. \A k \in Topic : \A r \in ToSet(topics[k]) : ~Stale(r)
    BY <1>3 DEF Inv, Swept
  <2>3. \A k \in Topic : ToSet(Current[k]) = {r \in ToSet(topics[k]) : ~Stale(r)}
    BY <2>1, <2>2
  <2>4. \A k \in Topic : \A r : Copies(r, Current[k]) <= Copies(r, topics[k])
    BY <1>2, <2>1
  <2> QED  BY <2>1, <2>3, <2>4 DEF Inv, TypeOK, Sorted
<1>4. CASE ~cleaned
  <2>1. Current = [k \in Topic |-> RemoveStale(topics[k])]
    BY <1>4 DEF Current
  <2> SUFFICES ASSUME NEW k \in Topic
               PROVE  /\ Current[k] \in Seq(Request)
                      /\ ToSet(Current[k]) = {r \in ToSet(topics[k]) : ~Stale(r)}
                      /\ \A r : Copies(r, Current[k]) <= Copies(r, topics[k])
                      /\ \A r : ~Stale(r) => Copies(r, Current[k]) = Copies(r, topics[k])
                      /\ k \in Bases => InOrder(Current[k])
    <3>1. \A b \in Bases : b \in Topic
      BY DEF Topic
    <3>2. DOMAIN Current = Topic /\ Current = [k \in Topic |-> Current[k]]
      BY <2>1
    <3> QED  BY <3>1, <3>2
  <2> DEFINE q == topics[k]
             wanted == {r \in ToSet(q) : ~Stale(r)}
  <2>2. Current[k] = Keep(q, wanted) /\ q \in Seq(Request)
    BY <1>1, <2>1 DEF RemoveStale
  <2>3. \A r : Copies(r, q) \in Nat /\ (Copies(r, q) = 0 <=> r \notin ToSet(q))
    BY <2>2, CopiesType
  <2>4. /\ Keep(q, wanted) \in Seq(Request)
        /\ ToSet(Keep(q, wanted)) = ToSet(q) \cap wanted
        /\ \A r : Copies(r, Keep(q, wanted)) = IF r \in wanted THEN Copies(r, q) ELSE 0
        /\ InOrder(q) => InOrder(Keep(q, wanted))
    BY <2>2, KeepFacts, RequestFacts
  <2>5. \A r : ~Stale(r) /\ r \notin wanted => Copies(r, q) = 0
    BY <2>3
  <2>6. k \in Bases => InOrder(q)
    BY DEF Inv, Sorted
  <2>7. ToSet(q) \cap wanted = wanted
    OBVIOUS
  <2> HIDE DEF q, wanted
  <2>8. \A r : Copies(r, Current[k]) <= Copies(r, q)
    BY <2>2, <2>3, <2>4
  <2>9. \A r : ~Stale(r) => Copies(r, Current[k]) = Copies(r, q)
    BY <2>2, <2>4, <2>5
  <2>10. ToSet(Current[k]) = wanted
    BY <2>2, <2>4, <2>7
  <2> QED  BY <2>2, <2>4, <2>6, <2>8, <2>9, <2>10 DEF q, wanted
<1> QED  BY <1>3, <1>4

(* The topic of the shard as a peek leaves it *)
LEMMA PeekedFacts ==
  ASSUME Inv
  PROVE  /\ Peeked \in Seq(Request)
         /\ ToSet(Peeked) = ToSet(Current[Shard])
         /\ \A r : Copies(r, Peeked) = Copies(r, Current[Shard])
         /\ Reverse(Peeked) = Current[Shard]
<1>1. Shard \in Topic
  BY DEF Topic
<1>2. Current[Shard] \in Seq(Request)
  BY <1>1, CurrentFacts
<1> QED  BY <1>2, ReverseFacts DEF Peeked

(* What a requester asks for *)
LEMMA AskFacts ==
  ASSUME Inv, NEW n \in Needs, NEW k \in Nat
  PROVE  /\ [i \in 1..k |-> NewRequest(n, i)] \in Seq(Request)
         /\ \A r \in ToSet([i \in 1..k |-> NewRequest(n, i)]) : ~Stale(r)
<1> DEFINE rs == [i \in 1..k |-> NewRequest(n, i)]
<1>1. /\ PriorityOf[n] \in Int /\ DecayOf[n] \in Nat /\ TtlOf[n] \in Nat
      /\ known[n] \in Nat
  BY SpawningAssumption DEF Inv, TypeOK
<1>2. ASSUME NEW i \in 1..k PROVE NewRequest(n, i) \in Request /\ ~Stale(NewRequest(n, i))
  <2>1. known[n] + i - 1 \in Int
    BY <1>1
  <2>2. PriorityOf[n] - DecayOf[n] * (known[n] + i - 1) \in Int
    BY <1>1, <2>1
  <2> QED  BY <1>1, <2>2 DEF NewRequest, Request, Stale
<1>3. rs \in [1..k -> Request]
  BY <1>2
<1>4. rs \in Seq(Request)
  BY <1>3, SeqDef
<1>5. \A r \in ToSet(rs) : ~Stale(r)
  BY <1>2 DEF ToSet
<1> QED  BY <1>4, <1>5

(* Where the requests of a base without spawns go *)
LEMMA DrainedFacts ==
  ASSUME Inv, NEW b \in Bases
  PROVE  /\ Drained(b) \in [Topic -> Seq(Request)]
         /\ Drained(b)[b] = << >>
         /\ \A k \in Topic : k # b /\ k # Shard => Drained(b)[k] = Current[k]
         /\ \A k \in Topic : \A r \in ToSet(Drained(b)[k]) : ~Stale(r)
         /\ \A r : Copies(r, Drained(b)[b]) + Copies(r, Drained(b)[Shard])
                     = Copies(r, Current[b]) + Copies(r, Current[Shard])
<1>1. b \in Topic /\ Shard \in Topic /\ b # Shard
  BY SpawningAssumption DEF Topic
<1>2. Current \in [Topic -> Seq(Request)]
  BY CurrentFacts
<1> DEFINE sent == Reverse(Current[b])
           joined == AddRequests(Current[Shard], sent)
<1>3. /\ sent \in Seq(Request)
      /\ ToSet(sent) = ToSet(Current[b])
      /\ \A r : Copies(r, sent) = Copies(r, Current[b])
  BY <1>1, <1>2, ReverseFacts
<1> HIDE DEF sent
<1>4. /\ joined \in Seq(Request)
      /\ ToSet(joined) = ToSet(Current[Shard]) \cup ToSet(sent)
      /\ \A r : Copies(r, joined) = Copies(r, Current[Shard]) + Copies(r, sent)
  BY <1>1, <1>2, <1>3, AddRequestsFacts, RequestFacts
<1>5. Drained(b) = [Current EXCEPT ![Shard] = joined, ![b] = << >>]
  BY <1>1, <1>2 DEF Drained, sent
<1> HIDE DEF joined
<1>6. /\ Drained(b) \in [Topic -> Seq(Request)]
      /\ Drained(b)[b] = << >> /\ Drained(b)[Shard] = joined
      /\ \A k \in Topic : k # b /\ k # Shard => Drained(b)[k] = Current[k]
  BY <1>1, <1>2, <1>4, <1>5, EmptyFacts
<1>7. \A k \in Topic : \A r \in ToSet(Current[k]) : ~Stale(r)
  BY CurrentFacts
<1>8. \A k \in Topic : \A r \in ToSet(Drained(b)[k]) : ~Stale(r)
  BY <1>1, <1>3, <1>4, <1>6, <1>7, EmptyFacts
<1>9. \A r : /\ Copies(r, Current[b]) \in Nat /\ Copies(r, Current[Shard]) \in Nat
             /\ Copies(r, << >>) = 0
  BY <1>1, <1>2, CopiesType, EmptyFacts
<1>10. \A r : Copies(r, Drained(b)[b]) + Copies(r, Drained(b)[Shard])
                = Copies(r, Current[b]) + Copies(r, Current[Shard])
  BY <1>3, <1>4, <1>6, <1>9
<1> QED  BY <1>6, <1>8, <1>10

(* The step takes one or more copies of r from topic j, and nothing else but *)
(* what is stale.                                                            *)
Taken(r, j) ==
  /\ r \in Request /\ r \in ToSet(Current[j])
  /\ topics' \in [Topic -> Seq(Request)]
  /\ \A k \in Topic : \A x : Copies(x, topics'[k]) <= Copies(x, Current[k])
  /\ \A k \in Topic : \A x : x # r /\ ~Stale(x) => Copies(x, topics'[k]) = Copies(x, Current[k])
  /\ Copies(r, topics'[j]) < Copies(r, Current[j])
  /\ \A b \in Bases : InOrder(topics'[b])

(* What is taken was valid, and nothing else that is valid is lost. *)
LEMMA TakenFacts ==
  ASSUME Inv, NEW j \in Topic, NEW r, Taken(r, j)
  PROVE  /\ ~Stale(r)
         /\ \A k \in Topic : \A x \in ToSet(topics'[k]) : ~Stale(x)
         /\ AllCopies(r, topics') < AllCopies(r, topics)
         /\ \A x : x # r /\ ~Stale(x) => AllCopies(x, topics) <= AllCopies(x, topics')
         /\ Copies(r, topics'[j]) < Copies(r, topics[j])
<1>1. /\ topics \in [Topic -> Seq(Request)]
      /\ Current \in [Topic -> Seq(Request)]
      /\ topics' \in [Topic -> Seq(Request)]
  BY CurrentFacts DEF Inv, TypeOK, Taken
<1>2. \A k \in Topic : \A x : /\ Copies(x, topics[k]) \in Nat
                              /\ Copies(x, Current[k]) \in Nat
                              /\ Copies(x, topics'[k]) \in Nat
                              /\ Copies(x, Current[k]) = 0 <=> x \notin ToSet(Current[k])
                              /\ Copies(x, topics'[k]) = 0 <=> x \notin ToSet(topics'[k])
  BY <1>1, CopiesType
<1>3. \A k \in Topic : \A x \in ToSet(Current[k]) : ~Stale(x)
  BY CurrentFacts
<1>4. ~Stale(r)
  BY <1>3 DEF Taken
<1>5. \A k \in Topic : \A x \in ToSet(topics'[k]) : ~Stale(x)
  BY <1>2, <1>3 DEF Taken
<1>6. \A k \in Topic : \A x : Copies(x, Current[k]) <= Copies(x, topics[k])
  BY CurrentFacts
<1>7. Copies(r, topics'[j]) < Copies(r, topics[j])
  <2>1. Copies(r, topics'[j]) < Copies(r, Current[j])
    BY DEF Taken
  <2>2. Copies(r, Current[j]) <= Copies(r, topics[j])
    BY <1>6
  <2>3. /\ Copies(r, topics[j]) \in Nat /\ Copies(r, Current[j]) \in Nat
        /\ Copies(r, topics'[j]) \in Nat
    BY <1>2
  <2> QED  BY <2>1, <2>2, <2>3
<1>8. AllCopies(r, topics') < AllCopies(r, topics)
  <2>1. ASSUME NEW k \in Topic PROVE Copies(r, topics'[k]) <= Copies(r, topics[k])
    <3>1. Copies(r, topics'[k]) <= Copies(r, Current[k])
      BY DEF Taken
    <3>2. Copies(r, Current[k]) <= Copies(r, topics[k])
      BY <1>6
    <3>3. /\ Copies(r, topics[k]) \in Nat /\ Copies(r, Current[k]) \in Nat
          /\ Copies(r, topics'[k]) \in Nat
      BY <1>2
    <3> QED  BY <3>1, <3>2, <3>3
  <2> QED  BY <1>1, <1>7, <2>1, CopiesPointwise
<1>9. ASSUME NEW x, x # r, ~Stale(x) PROVE AllCopies(x, topics) <= AllCopies(x, topics')
  <2>1. \A k \in Topic : Copies(x, topics[k]) = Copies(x, Current[k])
    BY <1>9, CurrentFacts
  <2>2. \A k \in Topic : Copies(x, topics[k]) <= Copies(x, topics'[k])
    BY <1>2, <1>9, <2>1 DEF Taken
  <2> QED  BY <1>1, <2>2, CopiesPointwise
<1> QED  BY <1>4, <1>5, <1>7, <1>8, <1>9

(* The request that a base takes from its own topic *)
LEMMA LocalFacts ==
  ASSUME Inv, NEW s \in Spawns, ServeLocal(s)
  PROVE  \E r : /\ CreateCreep(s, r)
                /\ Taken(r, BaseOf[s])
                /\ \A x \in ToSet(Current[BaseOf[s]]) : x.priority <= r.priority
<1> DEFINE b == BaseOf[s]
           q == Current[b]
           take == TakeNext(q)
           r == Head(take.next)
<1>1. b \in Bases /\ b \in Topic /\ Shard \in Topic /\ b # Shard
  BY SpawningAssumption DEF Topic
<1>2. Current \in [Topic -> Seq(Request)]
  BY CurrentFacts
<1>3. /\ CreateCreep(s, r) /\ take.next # << >>
      /\ topics' = [AfterPeek EXCEPT ![b] = take.rest]
  BY DEF ServeLocal
<1> HIDE DEF b
<1>4. q \in Seq(Request) /\ InOrder(q) /\ \A x \in ToSet(q) : ~Stale(x)
  BY <1>1, <1>2, CurrentFacts
<1>5. PICK k \in DOMAIN q : /\ \A i \in DOMAIN q : ~Stale(q[i]) => i <= k
                            /\ r = q[k]
                            /\ take.rest = SubSeq(q, 1, k - 1)
  BY <1>3, <1>4, TakeNextFacts
<1> DEFINE rest == SubSeq(q, 1, k - 1)
<1>6. /\ rest \in Seq(Request)
      /\ DOMAIN rest = {i \in DOMAIN q : i < k}
      /\ \A i \in DOMAIN q : i < k => rest[i] = q[i]
      /\ Copies(q[k], rest) < Copies(q[k], q)
      /\ \A x : (\A i \in DOMAIN q : i >= k => q[i] # x) => Copies(x, rest) = Copies(x, q)
      /\ \A x : Copies(x, rest) <= Copies(x, q)
  BY <1>4, PrefixFacts
<1>7. DOMAIN q = 1..Len(q) /\ Len(q) \in Nat /\ \A i \in DOMAIN q : q[i] \in Request
  BY <1>4, LenProperties, ElementOfSeq
<1>8. \A i \in DOMAIN q : q[i] \in ToSet(q)
  BY DEF ToSet
<1>9. r \in Request /\ r \in ToSet(q)
  BY <1>5, <1>7, <1>8
<1>10. topics' = [AfterPeek EXCEPT ![b] = rest]
  BY <1>3, <1>5
<1>11. Peeked \in Seq(Request) /\ \A x : Copies(x, Peeked) = Copies(x, Current[Shard])
  BY PeekedFacts
<1> HIDE DEF rest, take, r
<1>12. /\ topics' \in [Topic -> Seq(Request)]
       /\ topics'[b] = rest /\ topics'[Shard] = Peeked
       /\ \A c \in Topic : c # b /\ c # Shard => topics'[c] = Current[c]
  BY <1>1, <1>2, <1>6, <1>10, <1>11 DEF AfterPeek
<1>13. \A c \in Topic : \A x : Copies(x, Current[c]) \in Nat
  BY <1>2, CopiesType
<1>14. ASSUME NEW x, x # r, ~Stale(x) PROVE Copies(x, rest) = Copies(x, q)
  <2>1. ASSUME NEW i \in DOMAIN q, i >= k PROVE q[i] # x
    BY <1>5, <1>7, <1>14, <2>1
  <2> QED  BY <1>6, <2>1
<1>15. InOrder(rest)
  BY <1>4, <1>6 DEF InOrder
<1>16. \A x \in ToSet(q) : x.priority <= r.priority
  <2> SUFFICES ASSUME NEW i \in DOMAIN q PROVE q[i].priority <= r.priority
    BY DEF ToSet
  <2>1. ~Stale(q[i]) /\ i <= k /\ q[i].priority \in Int
    BY <1>4, <1>5, <1>7, <1>8, RequestFacts
  <2>2. CASE i < k
    BY <1>4, <1>5, <2>2 DEF InOrder
  <2>3. CASE i = k
    BY <1>5, <2>1, <2>3
  <2> QED  BY <1>7, <2>1, <2>2, <2>3
<1>17. Taken(r, b)
  <2>1. ASSUME NEW c \in Topic, NEW x PROVE Copies(x, topics'[c]) <= Copies(x, Current[c])
    <3>1. Copies(x, Current[c]) \in Nat
      BY <1>13
    <3>2. CASE c = b
      BY <1>6, <1>12, <3>2
    <3>3. CASE c = Shard
      <4>1. Copies(x, topics'[c]) = Copies(x, Current[c])
        BY <1>11, <1>12, <3>3
      <4> QED  BY <3>1, <4>1
    <3>4. CASE c # b /\ c # Shard
      <4>1. Copies(x, topics'[c]) = Copies(x, Current[c])
        BY <1>12, <3>4
      <4> QED  BY <3>1, <4>1
    <3> QED  BY <3>2, <3>3, <3>4
  <2>2. \A c \in Topic : \A x : x # r /\ ~Stale(x) => Copies(x, topics'[c]) = Copies(x, Current[c])
    BY <1>11, <1>12, <1>14
  <2>3. Copies(r, topics'[b]) < Copies(r, Current[b])
    BY <1>5, <1>6, <1>12
  <2>4. ASSUME NEW c \in Bases PROVE InOrder(topics'[c])
    <3>1. c \in Topic /\ c # Shard
      BY SpawningAssumption DEF Topic
    <3>2. InOrder(Current[c])
      BY CurrentFacts
    <3> QED  BY <1>12, <1>15, <3>1, <3>2
  <2> QED  BY <1>9, <1>12, <2>1, <2>2, <2>3, <2>4 DEF Taken
<1> QED  BY <1>3, <1>16, <1>17 DEF b, take, r

(* The request that a base takes from the topic of the shard *)
LEMMA NeighborFacts ==
  ASSUME Inv, NEW s \in Spawns, ServeNeighbor(s)
  PROVE  \E r : CreateCreep(s, r) /\ Taken(r, Shard)
<1> DEFINE b == BaseOf[s]
           q == Current[Shard]
           servable == {x \in ToSet(q) : CanServe(b, x)}
           found == Keep(q, servable)
           r == Head(FirstServable(b, Reverse(Peeked)))
           left == TakeChoice(q, r)
<1>1. Shard \in Topic /\ Shard \notin Bases
  BY SpawningAssumption DEF Topic
<1>2. Current \in [Topic -> Seq(Request)]
  BY CurrentFacts
<1>3. q \in Seq(Request) /\ Reverse(Peeked) = q
  BY <1>1, <1>2, PeekedFacts
<1>4. /\ CreateCreep(s, r)
      /\ topics' = [Current EXCEPT ![Shard] = TakeChoice(Reverse(Peeked), r)]
      /\ ReadyNeighbor(b) # << >>
  BY DEF ServeNeighbor, PreferNeighbor
<1>5. FirstServable(b, Peeked) # << >>
  BY <1>4 DEF ReadyNeighbor, IfReady
<1>6. found \in Seq(Request) /\ ToSet(found) = ToSet(q) \cap servable
  BY <1>3, KeepFacts
<1>7. First(found) # << >>
  <2> DEFINE some == {x \in ToSet(Peeked) : CanServe(b, x)}
  <2>1. Keep(Peeked, some) # << >>
    BY <1>5 DEF FirstServable, First
  <2>2. Keep(Peeked, some) \in Seq(Request) /\ ToSet(Keep(Peeked, some)) = ToSet(Peeked) \cap some
    BY PeekedFacts, KeepFacts
  <2>3. ToSet(Peeked) = ToSet(q)
    BY PeekedFacts
  <2>4. ToSet(found) = ToSet(Keep(Peeked, some))
    BY <1>6, <2>2, <2>3
  <2> HIDE DEF some, found, q
  <2>5. \A x \in Seq(Request) : x # << >> => x[1] \in ToSet(x)
    <3> SUFFICES ASSUME NEW x \in Seq(Request), x # << >> PROVE x[1] \in ToSet(x)
      OBVIOUS
    <3>1. 1 \in DOMAIN x
      BY EmptySeq, LenProperties
    <3> QED  BY <3>1 DEF ToSet
  <2>6. ToSet(<< >>) = {}
    BY EmptyFacts
  <2>7. found # << >>
    BY <2>1, <2>2, <2>4, <2>5, <2>6
  <2> QED  BY <2>7 DEF First
<1>8. r = Head(First(found))
  BY <1>3 DEF FirstServable
<1>9. r \in ToSet(q)
  <2> HIDE DEF r, found
  <2>1. r \in ToSet(found)
    BY <1>6, <1>7, <1>8, FirstFacts
  <2> QED  BY <1>6, <2>1
<1> HIDE DEF r, found, b
<1>10. r \in Request
  BY <1>3, <1>9, ElementOfSeq, LenProperties DEF ToSet
<1>11. /\ left \in Seq(Request)
       /\ \A x : Copies(x, left) = IF x \in ToSet(q) \ {r} THEN Copies(x, q) ELSE 0
  BY <1>3, KeepFacts DEF TakeChoice
<1>12. topics' = [Current EXCEPT ![Shard] = left]
  BY <1>3, <1>4
<1> HIDE DEF left
<1>13. /\ topics' \in [Topic -> Seq(Request)] /\ topics'[Shard] = left
       /\ \A c \in Topic : c # Shard => topics'[c] = Current[c]
  BY <1>1, <1>2, <1>11, <1>12
<1>14. \A c \in Topic : \A x : /\ Copies(x, Current[c]) \in Nat
                               /\ Copies(x, Current[c]) = 0 <=> x \notin ToSet(Current[c])
  BY <1>2, CopiesType
<1>15. Taken(r, Shard)
  <2>1. ASSUME NEW c \in Topic, NEW x PROVE Copies(x, topics'[c]) <= Copies(x, Current[c])
    <3>1. Copies(x, Current[c]) \in Nat
      BY <1>14
    <3>2. CASE c = Shard
      <4>1. Copies(x, topics'[c]) \in {Copies(x, Current[c]), 0}
        BY <1>11, <1>13, <3>2
      <4> QED  BY <3>1, <4>1
    <3>3. CASE c # Shard
      <4>1. Copies(x, topics'[c]) = Copies(x, Current[c])
        BY <1>13, <3>3
      <4> QED  BY <3>1, <4>1
    <3> QED  BY <3>2, <3>3
  <2>2. \A c \in Topic : \A x : x # r /\ ~Stale(x) => Copies(x, topics'[c]) = Copies(x, Current[c])
    BY <1>1, <1>11, <1>13, <1>14
  <2>3. Copies(r, topics'[Shard]) < Copies(r, Current[Shard])
    <3>1. Copies(r, topics'[Shard]) = 0
      BY <1>11, <1>13
    <3>2. Copies(r, Current[Shard]) \in Nat /\ Copies(r, Current[Shard]) # 0
      BY <1>1, <1>9, <1>14
    <3> QED  BY <3>1, <3>2
  <2>4. ASSUME NEW c \in Bases PROVE InOrder(topics'[c])
    <3>1. c \in Topic /\ c # Shard
      BY <1>1 DEF Topic
    <3>2. InOrder(Current[c])
      BY CurrentFacts
    <3> QED  BY <1>13, <3>1, <3>2
  <2> QED  BY <1>9, <1>10, <1>13, <2>1, <2>2, <2>3, <2>4 DEF Taken
<1> QED  BY <1>4, <1>15

-----------------------------------------------------------------------------
(* Every step keeps the invariant. *)

LEMMA CreateCreepType ==
  ASSUME Inv, NEW s \in Spawns, NEW r \in Request, queue # << >>, CreateCreep(s, r), ~Stale(r)
  PROVE  /\ queue' \in Seq(Spawns)
         /\ busy' \in [Spawns -> Nat]
         /\ names' \subseteq {RoleOf[n] : n \in Needs}
         /\ creeps' \in [Needs -> 0..MaxCreeps]
         /\ order' \in [spawn : Spawns, request : Request, ok : BOOLEAN]
         /\ order'.spawn = s /\ order'.request = r /\ order' # NoOrder
         /\ cleaned' = TRUE
         /\ UNCHANGED <<wait, energy, known>>
<1>1. PICK ok \in BOOLEAN :
      /\ queue' = Tail(queue)
      /\ order' = [spawn |-> s, request |-> r, ok |-> ok]
      /\ ok => /\ busy' = [busy EXCEPT ![s] = BuildTime]
               /\ names' = names \cup {RoleOf[r.need]}
               /\ creeps' = [creeps EXCEPT ![r.need] = Min({creeps[r.need] + 1, MaxCreeps})]
      /\ ~ok => UNCHANGED <<busy, names, creeps>>
      /\ cleaned' = TRUE
      /\ UNCHANGED <<wait, energy, known>>
  BY Zenon DEF CreateCreep, SpawnCreep
<1>2. ok \in BOOLEAN
  OBVIOUS
<1>3. queue' \in Seq(Spawns)
  BY <1>1, HeadTailProperties DEF Inv, TypeOK
<1>4. /\ order' \in [spawn : Spawns, request : Request, ok : BOOLEAN]
      /\ order'.spawn = s /\ order'.request = r
  BY <1>1, <1>2
<1>5. order' # NoOrder
  <2>1. Request \subseteq [need : Needs, priority : Int, left : Int]
    BY DEF Request
  <2>2. order' \in [spawn : Spawns, ok : BOOLEAN,
                    request : [need : Needs, priority : Int, left : Int]]
    BY <1>1, <1>2, <2>1
  <2> QED  BY <2>2, SpawningAssumption
<1>6. r.need \in Needs
  BY RequestFacts
<1>7. busy' \in [Spawns -> Nat] /\ names' \subseteq {RoleOf[n] : n \in Needs}
  <2>1. BuildTime \in Nat
    BY SpawningAssumption
  <2> QED  BY <1>1, <1>2, <1>6, <2>1 DEF Inv, TypeOK
<1>8. creeps' \in [Needs -> 0..MaxCreeps]
  <2>1. MaxCreeps \in Nat /\ creeps \in [Needs -> 0..MaxCreeps]
    BY SpawningAssumption DEF Inv, TypeOK
  <2>2. creeps[r.need] + 1 \in Int /\ MaxCreeps \in Int
    BY <1>6, <2>1
  <2>3. Min({creeps[r.need] + 1, MaxCreeps})
          = IF creeps[r.need] + 1 <= MaxCreeps THEN creeps[r.need] + 1 ELSE MaxCreeps
    BY <2>2, MaxMinOfTwo
  <2>4. Min({creeps[r.need] + 1, MaxCreeps}) \in 0..MaxCreeps
    BY <1>6, <2>1, <2>3
  <2> QED  BY <1>1, <1>2, <1>6, <2>1, <2>4
<1> QED  BY <1>1, <1>3, <1>4, <1>5, <1>7, <1>8

(* Building a creep for what was taken keeps the invariant. *)
LEMMA ServeInv ==
  ASSUME Inv, queue # << >>, NEW s \in Spawns, NEW j \in Topic, NEW r,
         CreateCreep(s, r), Taken(r, j)
  PROVE  Inv'
<1>1. r \in Request /\ ~Stale(r)
  BY TakenFacts DEF Taken
<1>2. /\ queue' \in Seq(Spawns)
      /\ busy' \in [Spawns -> Nat]
      /\ names' \subseteq {RoleOf[n] : n \in Needs}
      /\ creeps' \in [Needs -> 0..MaxCreeps]
      /\ order' \in [spawn : Spawns, request : Request, ok : BOOLEAN]
      /\ order'.request = r
      /\ cleaned' = TRUE
      /\ UNCHANGED <<wait, energy, known>>
  BY <1>1, CreateCreepType
<1>3. topics' \in [Topic -> Seq(Request)]
  BY DEF Taken
<1>4. TypeOK'
  BY <1>2, <1>3 DEF Inv, TypeOK
<1>5. Swept'
  BY TakenFacts DEF Swept
<1>6. Sorted'
  BY DEF Taken, Sorted
<1>7. NothingStaleIsBuilt'
  BY <1>1, <1>2 DEF NothingStaleIsBuilt
<1> QED  BY <1>4, <1>5, <1>6, <1>7 DEF Inv

(* What counting down leaves *)
LEMMA Counts ==
  ASSUME NEW n \in Int
  PROVE  CountDown(n) \in Nat /\ Max({n - 1, -1}) \in Int /\ (n \in Nat => Max({n - 1, -1}) \in Nat \cup {-1})
         /\ (n = -1 => Max({n - 1, -1}) = -1)
BY MaxMinOfTwo DEF CountDown

(* Waiting for the next tick makes requests older and changes nothing else. *)
LEMMA AgedFacts ==
  ASSUME Inv, HeapAges
  PROVE  /\ topics' \in [Topic -> Seq(Request)]
         /\ wait' \in [Threads -> Nat]
         /\ \A b \in Bases : InOrder(topics'[b])
<1> DEFINE aged(q) == [i \in DOMAIN q |-> [q[i] EXCEPT !.left = Max({q[i].left - 1, -1})]]
<1>1. topics' = [k \in Topic |-> aged(topics[k])] /\ wait' = [p \in Threads |-> CountDown(wait[p])]
  BY DEF HeapAges
<1>2. topics \in [Topic -> Seq(Request)] /\ wait \in [Threads -> Nat]
  BY DEF Inv, TypeOK
<1>3. ASSUME NEW q \in Seq(Request)
      PROVE  aged(q) \in Seq(Request) /\ (InOrder(q) => InOrder(aged(q)))
  <2>1. DOMAIN q = 1..Len(q) /\ Len(q) \in Nat /\ \A i \in DOMAIN q : q[i] \in Request
    BY LenProperties, ElementOfSeq
  <2>2. ASSUME NEW i \in DOMAIN q
        PROVE  aged(q)[i] \in Request /\ aged(q)[i].priority = q[i].priority
    <3>1. q[i] \in Request /\ q[i].left \in Int /\ q[i].left \in Nat \cup {-1}
      BY <2>1 DEF Request
    <3>2. Max({q[i].left - 1, -1}) \in Nat \cup {-1}
      BY <3>1, Counts
    <3> QED  BY <3>1, <3>2 DEF Request
  <2>3. aged(q) \in [1..Len(q) -> Request]
    BY <2>1, <2>2
  <2>4. aged(q) \in Seq(Request)
    BY <2>1, <2>3, SeqDef
  <2>5. DOMAIN aged(q) = DOMAIN q
    OBVIOUS
  <2>6. InOrder(q) => InOrder(aged(q))
    BY <2>2, <2>5 DEF InOrder
  <2> QED  BY <2>4, <2>6
<1> HIDE DEF aged
<1>4. topics' \in [Topic -> Seq(Request)]
  BY <1>1, <1>2, <1>3
<1>5. wait' \in [Threads -> Nat]
  <2>1. \A p \in Threads : CountDown(wait[p]) \in Nat
    <3>1. \A p \in Threads : wait[p] \in Int
      BY <1>2
    <3> QED  BY <3>1, Counts
  <2> QED  BY <1>1, <2>1
<1>6. ASSUME NEW b \in Bases PROVE InOrder(topics'[b])
  <2>1. b \in Topic /\ InOrder(topics[b])
    BY DEF Topic, Inv, Sorted
  <2> QED  BY <1>1, <1>2, <1>3, <2>1
<1> QED  BY <1>4, <1>5, <1>6

(* The end of a tick, with or without a reset *)
LEMMA TimeInv ==
  ASSUME Inv, TimePasses,
         topics' \in [Topic -> Seq(Request)], wait' \in [Threads -> Nat],
         \A b \in Bases : InOrder(topics'[b]),
         known' \in {known, creeps'}
  PROVE  Inv'
<1>1. /\ cleaned' = FALSE /\ queue' = << >>
      /\ busy' = [s \in Spawns |-> CountDown(busy[s])]
      /\ energy' \in EnergyStates /\ names' = {} /\ order' = NoOrder
      /\ \/ creeps' = creeps
         \/ \E n \in Needs : creeps[n] > 0 /\ creeps' = [creeps EXCEPT ![n] = @ - 1]
  BY DEF TimePasses
<1>2. /\ busy \in [Spawns -> Nat] /\ creeps \in [Needs -> 0..MaxCreeps]
      /\ known \in [Needs -> 0..MaxCreeps] /\ MaxCreeps \in Nat
  BY SpawningAssumption DEF Inv, TypeOK
<1>3. busy' \in [Spawns -> Nat]
  <2>1. \A s \in Spawns : busy[s] \in Int
    BY <1>2
  <2>2. \A s \in Spawns : CountDown(busy[s]) \in Nat
    BY <2>1, Counts
  <2> QED  BY <1>1, <2>2
<1>4. creeps' \in [Needs -> 0..MaxCreeps]
  <2>1. ASSUME NEW n \in Needs, creeps[n] > 0, creeps' = [creeps EXCEPT ![n] = @ - 1]
        PROVE  creeps' \in [Needs -> 0..MaxCreeps]
    <3>1. creeps[n] - 1 \in 0..MaxCreeps
      BY <1>2, <2>1
    <3> QED  BY <1>2, <2>1, <3>1
  <2> QED  BY <1>1, <1>2, <2>1
<1>5. known' \in [Needs -> 0..MaxCreeps]
  BY <1>2, <1>4
<1>6. queue' \in Seq(Spawns)
  BY <1>1
<1>7. TypeOK'
  BY <1>1, <1>3, <1>4, <1>5, <1>6 DEF TypeOK
<1>8. Swept' /\ Sorted' /\ NothingStaleIsBuilt'
  BY <1>1 DEF Swept, Sorted, NothingStaleIsBuilt
<1> QED  BY <1>7, <1>8 DEF Inv

(* A requester that asks adds requests and takes none. *)
LEMMA AskInv ==
  ASSUME Inv, NEW n \in Needs, NEW k \in Nat, Ask(n, k)
  PROVE  /\ Inv'
         /\ order' = NoOrder
         /\ topics' \in [Topic -> Seq(Request)]
         /\ \A j \in Topic : \A r : ~Stale(r) => Copies(r, topics[j]) <= Copies(r, topics'[j])
<1> DEFINE rs == [i \in 1..k |-> NewRequest(n, i)]
           j == TopicOf[n]
           q == AddRequests(Current[j], rs)
<1>1. j \in Topic /\ PeriodOf[n] \in Nat
  BY SpawningAssumption DEF Topic
<1>2. rs \in Seq(Request) /\ \A r \in ToSet(rs) : ~Stale(r)
  BY AskFacts
<1>3. /\ wait' = [wait EXCEPT ![n] = PeriodOf[n]]
      /\ topics' = [Current EXCEPT ![j] = AddRequests(@, rs)]
      /\ cleaned' = TRUE /\ order' = NoOrder
      /\ UNCHANGED <<queue, busy, energy, names, creeps, known>>
  BY DEF Ask
<1>4. /\ Current \in [Topic -> Seq(Request)]
      /\ \A i \in Topic : \A r \in ToSet(Current[i]) : ~Stale(r)
      /\ \A i \in Topic : \A r : ~Stale(r) => Copies(r, Current[i]) = Copies(r, topics[i])
      /\ \A b \in Bases : InOrder(Current[b])
  BY CurrentFacts
<1> HIDE DEF rs, j
<1>5. /\ q \in Seq(Request)
      /\ ToSet(q) = ToSet(Current[j]) \cup ToSet(rs)
      /\ \A r : Copies(r, q) = Copies(r, Current[j]) + Copies(r, rs)
      /\ InOrder(Current[j]) => InOrder(q)
  BY <1>1, <1>2, <1>4, AddRequestsFacts, RequestFacts
<1>6. topics' = [Current EXCEPT ![j] = q]
  BY <1>3
<1> HIDE DEF q
<1>7. /\ topics' \in [Topic -> Seq(Request)] /\ topics'[j] = q
      /\ \A i \in Topic : i # j => topics'[i] = Current[i]
  BY <1>1, <1>4, <1>5, <1>6
<1>8. TypeOK'
  <2>1. wait' \in [Threads -> Nat]
    BY <1>1, <1>3 DEF Inv, TypeOK
  <2> QED  BY <1>3, <1>7, <2>1 DEF Inv, TypeOK
<1>9. Swept'
  <2>1. \A i \in Topic : \A r \in ToSet(topics'[i]) : ~Stale(r)
    BY <1>2, <1>4, <1>5, <1>7
  <2> QED  BY <2>1 DEF Swept
<1>10. Sorted'
  <2>1. ASSUME NEW b \in Bases PROVE InOrder(topics'[b])
    <3>1. b \in Topic /\ InOrder(Current[b])
      BY <1>4 DEF Topic
    <3> QED  BY <1>5, <1>7, <3>1
  <2> QED  BY <2>1 DEF Sorted
<1>11. ASSUME NEW i \in Topic, NEW r, ~Stale(r)
       PROVE  Copies(r, topics[i]) <= Copies(r, topics'[i])
  <2>1. /\ Copies(r, Current[i]) = Copies(r, topics[i])
        /\ Copies(r, Current[i]) \in Nat /\ Copies(r, rs) \in Nat
    BY <1>2, <1>4, <1>11, CopiesType
  <2>2. CASE i = j
    <3>1. Copies(r, topics'[i]) = Copies(r, Current[i]) + Copies(r, rs)
      BY <1>5, <1>7, <2>2
    <3> QED  BY <2>1, <3>1
  <2>3. CASE i # j
    BY <1>7, <2>1, <2>3
  <2> QED  BY <2>2, <2>3
<1> QED  BY <1>3, <1>7, <1>8, <1>9, <1>10, <1>11 DEF Inv, NothingStaleIsBuilt

-----------------------------------------------------------------------------
(* What the action properties say of one step *)

Once == order' # NoOrder => AllCopies(order'.request, topics') < AllCopies(order'.request, topics)

Lost(r) == AllCopies(r, topics') < AllCopies(r, topics) =>
             \/ Stale(r)
             \/ order' # NoOrder /\ r = order'.request
             \/ GlobalReset \/ HeapAges

Own == order' # NoOrder /\ ~FromShard =>
         \A r \in ToSet(topics[BaseOf[order'.spawn]]) :
           Stale(r) \/ r.priority <= order'.request.priority

Steps == Inv' /\ Once /\ (\A r \in Queued : Lost(r)) /\ Own

(* A step that orders no creep and takes nothing but what is stale *)
LEMMA Harmless ==
  ASSUME Inv, Inv', order' = NoOrder,
         \A k \in Topic : \A r : ~Stale(r) => Copies(r, topics[k]) <= Copies(r, topics'[k])
  PROVE  Steps
<1>1. topics \in [Topic -> Seq(Request)] /\ topics' \in [Topic -> Seq(Request)]
  BY DEF Inv, TypeOK
<1>2. ASSUME NEW r, ~Stale(r) PROVE ~(AllCopies(r, topics') < AllCopies(r, topics))
  <2>1. AllCopies(r, topics) <= AllCopies(r, topics')
    BY <1>1, <1>2, CopiesPointwise
  <2>2. AllCopies(r, topics) \in Nat /\ AllCopies(r, topics') \in Nat
    BY <1>1, HeldFacts
  <2> QED  BY <2>1, <2>2
<1>3. \A r : Lost(r)
  BY <1>2 DEF Lost
<1> QED  BY <1>3 DEF Steps, Once, Own

(* A step that orders a creep *)
LEMMA Serving ==
  ASSUME Inv, queue # << >>, NEW s \in Spawns, NEW j \in Topic, NEW r,
         CreateCreep(s, r), Taken(r, j),
         j = Shard \/ \A x \in ToSet(topics[BaseOf[s]]) : Stale(x) \/ x.priority <= r.priority
  PROVE  Steps
<1>1. Inv'
  BY ServeInv
<1>2. r \in Request /\ ~Stale(r)
  BY TakenFacts DEF Taken
<1>3. order'.spawn = s /\ order'.request = r /\ order' # NoOrder
  BY <1>2, CreateCreepType
<1>4. Once
  BY <1>3, TakenFacts DEF Once
<1>5. ASSUME NEW x PROVE Lost(x)
  <2>1. topics \in [Topic -> Seq(Request)] /\ topics' \in [Topic -> Seq(Request)]
    BY <1>1 DEF Inv, TypeOK
  <2>2. AllCopies(x, topics) \in Nat /\ AllCopies(x, topics') \in Nat
    BY <2>1, HeldFacts
  <2>3. x # r /\ ~Stale(x) => AllCopies(x, topics) <= AllCopies(x, topics')
    BY TakenFacts
  <2>4. CASE x # r \/ Stale(x)
    BY <2>2, <2>3, <2>4 DEF Lost
  <2>5. CASE x = r
    BY <1>3, <2>5 DEF Lost
  <2> QED  BY <2>4, <2>5
<1>6. Own
  <2>1. j = Shard => FromShard
    BY <1>3, TakenFacts DEF FromShard
  <2> QED  BY <1>3, <2>1 DEF Own
<1> QED  BY <1>1, <1>4, <1>5, <1>6 DEF Steps

(* The heap after a start *)
LEMMA InitInv ==
  ASSUME Init
  PROVE  Inv
<1>1. /\ topics = [k \in Topic |-> << >>] /\ cleaned = FALSE
      /\ wait = [p \in Threads |-> 0] /\ queue = << >> /\ busy = [s \in Spawns |-> 0]
      /\ energy \in EnergyStates /\ names = {}
      /\ creeps = [n \in Needs |-> 0] /\ known = [n \in Needs |-> 0] /\ order = NoOrder
  BY DEF Init
<1>2. MaxCreeps \in Nat
  BY SpawningAssumption
<1>3. TypeOK
  <2>1. topics \in [Topic -> Seq(Request)] /\ queue \in Seq(Spawns)
    BY <1>1
  <2>2. creeps \in [Needs -> 0..MaxCreeps] /\ known \in [Needs -> 0..MaxCreeps]
    BY <1>1, <1>2
  <2>3. wait \in [Threads -> Nat] /\ busy \in [Spawns -> Nat]
    BY <1>1
  <2> QED  BY <1>1, <2>1, <2>2, <2>3 DEF TypeOK
<1>4. Swept /\ NothingStaleIsBuilt
  BY <1>1 DEF Swept, NothingStaleIsBuilt
<1>5. Sorted
  <2>1. \A b \in Bases : topics[b] = << >>
    BY <1>1 DEF Topic
  <2> QED  BY <2>1, EmptyFacts DEF Sorted
<1> QED  BY <1>3, <1>4, <1>5 DEF Inv

(* Steps that leave the topics as they are *)
LEMMA SameTopics ==
  ASSUME Inv, topics' = topics, cleaned' = cleaned, order' = NoOrder, TypeOK'
  PROVE  Steps
<1>1. Inv'
  BY DEF Inv, Swept, Sorted, NothingStaleIsBuilt
<1>2. \A k \in Topic : \A r : Copies(r, topics[k]) \in Nat
  BY CopiesType DEF Inv, TypeOK
<1>3. \A k \in Topic : \A r : ~Stale(r) => Copies(r, topics[k]) <= Copies(r, topics'[k])
  BY <1>2
<1> QED  BY <1>1, <1>3, Harmless

(* A base without spawns moves its requests. *)
LEMMA SendToShardSteps ==
  ASSUME Inv, NEW b \in Bases, SendToShard(b)
  PROVE  Steps
<1>1. /\ wait' = [wait EXCEPT ![b] = SpawnTtl]
      /\ topics' = Drained(b) /\ cleaned' = TRUE /\ order' = NoOrder
      /\ UNCHANGED <<queue, busy, energy, names, creeps, known>>
  BY DEF SendToShard
<1>2. /\ topics' \in [Topic -> Seq(Request)]
      /\ topics'[b] = << >>
      /\ \A k \in Topic : k # b /\ k # Shard => topics'[k] = Current[k]
      /\ \A k \in Topic : \A r \in ToSet(topics'[k]) : ~Stale(r)
      /\ \A r : Copies(r, topics'[b]) + Copies(r, topics'[Shard])
                  = Copies(r, Current[b]) + Copies(r, Current[Shard])
  BY <1>1, DrainedFacts
<1>3. b \in Topic /\ Shard \in Topic /\ b # Shard
  BY SpawningAssumption DEF Topic
<1>4. TypeOK'
  <2>1. SpawnTtl \in Nat
    BY SpawningAssumption
  <2> QED  BY <1>1, <1>2, <2>1 DEF Inv, TypeOK
<1>5. Sorted'
  <2>1. ASSUME NEW c \in Bases PROVE InOrder(topics'[c])
    <3>1. c \in Topic /\ c # Shard /\ InOrder(Current[c])
      BY CurrentFacts, SpawningAssumption DEF Topic
    <3> QED  BY <1>2, <3>1, EmptyFacts
  <2> QED  BY <2>1 DEF Sorted
<1>6. Inv'
  BY <1>1, <1>2, <1>4, <1>5 DEF Inv, Swept, NothingStaleIsBuilt
<1>7. ASSUME NEW r PROVE Lost(r)
  <2>1. SUFFICES ASSUME ~Stale(r) PROVE ~(AllCopies(r, topics') < AllCopies(r, topics))
    BY DEF Lost
  <2>2. topics \in [Topic -> Seq(Request)] /\ Current \in [Topic -> Seq(Request)]
    BY CurrentFacts DEF Inv, TypeOK
  <2>3. AllCopies(r, topics') = AllCopies(r, Current)
    <3> DEFINE u == topics'
    <3>1. /\ u \in [Topic -> Seq(Request)]
          /\ Copies(r, u[b]) + Copies(r, u[Shard]) = Copies(r, Current[b]) + Copies(r, Current[Shard])
          /\ \A k \in Topic : k # b /\ k # Shard => u[k] = Current[k]
      BY <1>2
    <3> HIDE DEF u
    <3>2. AllCopies(r, u) = AllCopies(r, Current)
      BY <1>3, <2>2, <3>1, CopiesMoved
    <3> QED  BY <3>2 DEF u
  <2>4. AllCopies(r, topics) <= AllCopies(r, Current)
    <3>1. \A k \in Topic : Copies(r, topics[k]) <= Copies(r, Current[k])
      <4>1. \A k \in Topic : Copies(r, Current[k]) = Copies(r, topics[k]) /\ Copies(r, topics[k]) \in Nat
        BY <2>1, <2>2, CurrentFacts, CopiesType
      <4> QED  BY <4>1
    <3> QED  BY <2>2, <3>1, CopiesPointwise
  <2>5. AllCopies(r, topics) \in Nat /\ AllCopies(r, Current) \in Nat
    BY <2>2, HeldFacts
  <2> QED  BY <2>3, <2>4, <2>5
<1> QED  BY <1>1, <1>6, <1>7 DEF Steps, Once, Own

(* One spawn of the running spawn thread *)
LEMMA LookAtSpawnSteps ==
  ASSUME Inv, NEW s \in Spawns, LookAtSpawn(s)
  PROVE  Steps
<1>1. queue # << >> /\ (SkipSpawn(s) \/ ServeLocal(s) \/ ServeNeighbor(s) \/ ServeNobody(s))
  BY DEF LookAtSpawn
<1>2. queue \in Seq(Spawns) /\ Tail(queue) \in Seq(Spawns)
  BY <1>1, HeadTailProperties DEF Inv, TypeOK
<1>3. BaseOf[s] \in Topic /\ Shard \in Topic
  BY SpawningAssumption DEF Topic
<1>4. CASE SkipSpawn(s)
  <2>1. TypeOK'
    BY <1>2, <1>4 DEF SkipSpawn, Inv, TypeOK
  <2> QED  BY <1>4, <2>1, SameTopics DEF SkipSpawn
<1>5. CASE ServeLocal(s)
  <2>1. PICK r : /\ CreateCreep(s, r) /\ Taken(r, BaseOf[s])
                 /\ \A x \in ToSet(Current[BaseOf[s]]) : x.priority <= r.priority
    BY <1>5, LocalFacts
  <2>2. \A x \in ToSet(topics[BaseOf[s]]) : Stale(x) \/ x \in ToSet(Current[BaseOf[s]])
    BY <1>3, CurrentFacts
  <2> QED  BY <1>1, <1>3, <2>1, <2>2, Serving
<1>6. CASE ServeNeighbor(s)
  <2>1. PICK r : CreateCreep(s, r) /\ Taken(r, Shard)
    BY <1>6, NeighborFacts
  <2> QED  BY <1>1, <1>3, <2>1, Serving
<1>7. CASE ServeNobody(s)
  <2>1. /\ topics' = [Current EXCEPT ![Shard] = Peeked] /\ cleaned' = TRUE
        /\ queue' = Tail(queue) /\ order' = NoOrder
        /\ UNCHANGED <<wait, busy, energy, names, creeps, known>>
    BY <1>7 DEF ServeNobody, AfterPeek
  <2>2. /\ Current \in [Topic -> Seq(Request)]
        /\ \A k \in Topic : ToSet(Current[k]) = {r \in ToSet(topics[k]) : ~Stale(r)}
        /\ \A k \in Topic : \A r : ~Stale(r) => Copies(r, Current[k]) = Copies(r, topics[k])
        /\ \A b \in Bases : InOrder(Current[b])
    BY CurrentFacts
  <2>3. /\ Peeked \in Seq(Request) /\ ToSet(Peeked) = ToSet(Current[Shard])
        /\ \A r : Copies(r, Peeked) = Copies(r, Current[Shard])
    BY PeekedFacts
  <2>4. /\ topics' \in [Topic -> Seq(Request)] /\ topics'[Shard] = Peeked
        /\ \A k \in Topic : k # Shard => topics'[k] = Current[k]
    BY <1>3, <2>1, <2>2, <2>3
  <2>5. TypeOK'
    BY <1>2, <2>1, <2>4 DEF Inv, TypeOK
  <2>6. Swept'
    BY <2>2, <2>3, <2>4 DEF Swept
  <2>7. Sorted'
    <3>1. \A b \in Bases : b \in Topic /\ b # Shard
      BY SpawningAssumption DEF Topic
    <3> QED  BY <2>2, <2>4, <3>1 DEF Sorted
  <2>8. Inv'
    BY <2>1, <2>5, <2>6, <2>7 DEF Inv, NothingStaleIsBuilt
  <2>9. ASSUME NEW k \in Topic, NEW r, ~Stale(r)
        PROVE  Copies(r, topics[k]) <= Copies(r, topics'[k])
    <3>1. Copies(r, topics'[k]) = Copies(r, topics[k])
      BY <2>2, <2>3, <2>4, <2>9
    <3>2. Copies(r, topics[k]) \in Nat
      BY CopiesType DEF Inv, TypeOK
    <3> QED  BY <3>1, <3>2
  <2> QED  BY <2>1, <2>8, <2>9, Harmless
<1> QED  BY <1>1, <1>4, <1>5, <1>6, <1>7

(* Every step *)
LEMMA NextSteps ==
  ASSUME Inv, Next
  PROVE  Steps
<1>1. ASSUME NEW n \in Needs, RequestMissing(n) \/ RequestOne(n) PROVE Steps
  <2>1. PICK k \in Nat : Ask(n, k)
    <3>1. known[n] \in Nat /\ \A w \in WantedOf[n] : w \in Nat
      BY SpawningAssumption DEF Inv, TypeOK
    <3>2. CASE RequestMissing(n)
      <4>1. PICK w \in WantedOf[n] : w > known[n] /\ Ask(n, w - known[n])
        BY <3>2 DEF RequestMissing
      <4>2. w - known[n] \in Nat
        BY <3>1, <4>1
      <4> QED  BY <4>1, <4>2
    <3>3. CASE RequestOne(n)
      BY <3>3 DEF RequestOne
    <3> QED  BY <1>1, <3>2, <3>3
  <2> QED  BY <2>1, AskInv, Harmless
<1>2. ASSUME NEW n \in Needs, RequestNone(n) PROVE Steps
  <2>1. /\ wait' = [wait EXCEPT ![n] = PeriodOf[n]] /\ order' = NoOrder
        /\ UNCHANGED <<topics, cleaned, queue, busy, energy, names, creeps, known>>
    BY <1>2 DEF RequestNone
  <2>2. TypeOK'
    BY <2>1, SpawningAssumption DEF Inv, TypeOK
  <2> QED  BY <2>1, <2>2, SameTopics
<1>3. ASSUME NEW b \in Bases, SendToShard(b) PROVE Steps
  BY <1>3, SendToShardSteps
<1>4. ASSUME NEW b \in Bases, LookAtSpawns(b) PROVE Steps
  <2>1. /\ wait' = [wait EXCEPT ![b] = SpawnTtl] /\ order' = NoOrder
        /\ queue' \in SetToSeqs(SpawnsOf(b))
        /\ UNCHANGED <<topics, cleaned, busy, energy, names, creeps, known>>
    BY <1>4 DEF LookAtSpawns
  <2>2. queue' \in Seq(Spawns)
    <3>1. IsFiniteSet(SpawnsOf(b)) /\ Cardinality(SpawnsOf(b)) \in Nat /\ SpawnsOf(b) \subseteq Spawns
      BY SpawningAssumption, FS_Subset, FS_CardinalityType DEF SpawnsOf
    <3>2. queue' \in [1..Cardinality(SpawnsOf(b)) -> SpawnsOf(b)]
      BY <2>1 DEF SetToSeqs
    <3> HIDE DEF SpawnsOf
    <3> QED  BY <3>1, <3>2, SeqDef
  <2>3. TypeOK'
    BY <2>1, <2>2, SpawningAssumption DEF Inv, TypeOK
  <2> QED  BY <2>1, <2>3, SameTopics
<1>5. ASSUME NEW s \in Spawns, LookAtSpawn(s) PROVE Steps
  BY <1>5, LookAtSpawnSteps
<1>6. ASSUME Inv', TimePasses, HeapAges \/ GlobalReset PROVE Steps
  BY <1>6 DEF TimePasses, Steps, Once, Lost, Own
<1>7. CASE Tick \/ ShortTick
  <2>1. TimePasses /\ HeapAges /\ known' \in {known, creeps'}
    BY <1>7 DEF Tick, ShortTick
  <2> QED  BY <1>6, <2>1, AgedFacts, TimeInv
<1>8. CASE GlobalReset
  <2>1. TimePasses /\ topics' = [k \in Topic |-> << >>] /\ wait' = [p \in Threads |-> 0]
        /\ known' = creeps'
    BY <1>8 DEF GlobalReset
  <2>2. topics' \in [Topic -> Seq(Request)] /\ wait' \in [Threads -> Nat]
    BY <2>1, EmptyFacts
  <2>3. \A b \in Bases : InOrder(topics'[b])
    BY <2>1, EmptyFacts DEF Topic
  <2> QED  BY <1>6, <1>8, <2>1, <2>2, <2>3, TimeInv
<1> QED  BY <1>1, <1>2, <1>3, <1>4, <1>5, <1>7, <1>8 DEF Next

(* No step *)
LEMMA Stuttering ==
  ASSUME Inv, UNCHANGED vars
  PROVE  Inv'
BY DEF Inv, TypeOK, Swept, Sorted, NothingStaleIsBuilt, vars

-----------------------------------------------------------------------------
(* The topics hold requests, threads wait, requesters count creeps and       *)
(* spawns are busy for as long as can be, and at most MaxCreeps are counted; *)
(* the topic of a base stays in ascending order of priority.                 *)
THEOREM TypeCorrect == Spec => [](TypeOK /\ Swept /\ Sorted)
<1>1. Inv /\ [Next]_vars => Inv'
  BY NextSteps, Stuttering DEF Steps
<1>2. Inv => TypeOK /\ Swept /\ Sorted
  BY DEF Inv
<1> QED  BY <1>1, <1>2, InitInv, PTL DEF Spec

(* No creep is built for a request that has lapsed, although neither the     *)
(* peeks nor getMessageOfMyChoice look at the ttl of what they return: the   *)
(* sweep of the tick's first access is enough.                               *)
THEOREM BuildsNothingStale == Spec => []NothingStaleIsBuilt
<1>1. Inv /\ [Next]_vars => Inv'
  BY NextSteps, Stuttering DEF Steps
<1>2. Inv => NothingStaleIsBuilt
  BY DEF Inv
<1> QED  BY <1>1, <1>2, InitInv, PTL DEF Spec

(* The request a creep is built for is gone from the topics: nobody builds   *)
(* the same one again.                                                       *)
THEOREM BuildsOnce == Spec => BuiltOnce
<1>1. Inv /\ [Next]_vars => Inv'
  BY NextSteps, Stuttering DEF Steps
<1>2. Inv /\ [Next]_vars => [Once]_vars
  BY NextSteps DEF Steps
<1>3. BuiltOnce <=> [][Once]_vars
  BY PTL DEF BuiltOnce, Once
<1> QED  BY <1>1, <1>2, <1>3, InitInv, PTL DEF Spec

(* No drain, sort, reversal, sweep or peek loses a request that is still     *)
(* valid.                                                                    *)
THEOREM LosesNothing == Spec => NothingIsLost
<1> DEFINE Kept == \A r \in Queued : Lost(r)
<1>1. Inv /\ [Next]_vars => Inv'
  BY NextSteps, Stuttering DEF Steps
<1>2. Inv /\ [Next]_vars => [Kept]_vars
  BY NextSteps DEF Steps
<1>3. NothingIsLost <=> [][Kept]_vars
  BY PTL DEF NothingIsLost, Lost
<1> QED  BY <1>1, <1>2, <1>3, InitInv, PTL DEF Spec

(* A base that serves its own topic serves the most urgent request there,    *)
(* which getNextRequest and the peek both take for the last one.             *)
THEOREM ServesOwnUrgentFirst == Spec => OwnUrgentFirst
<1>1. Inv /\ [Next]_vars => Inv'
  BY NextSteps, Stuttering DEF Steps
<1>2. Inv /\ [Next]_vars => [Own]_vars
  BY NextSteps DEF Steps
<1>3. OwnUrgentFirst <=> [][Own]_vars
  BY PTL DEF OwnUrgentFirst, Own
<1> QED  BY <1>1, <1>2, <1>3, InitInv, PTL DEF Spec
=============================================================================

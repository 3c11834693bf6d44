-------------------------- MODULE PathCacheProofs ---------------------------
(***************************************************************************)
(* Proofs about the path cache: the list and the map stay consistent and   *)
(* the cache implements LruCache, for any keys, size and expiry.           *)
(*                                                                         *)
(* The induction is over what an LRU list is without counting its links:   *)
(* next and prev mirror each other on the linked items (Chain), and the    *)
(* next item is the next one in the order of use (Sorted).                 *)
(***************************************************************************)
EXTENDS PathCache, FiniteSetTheorems, TLAPS

Links == [next : [Nodes -> Nodes \cup {Null}], prev : [Nodes -> Nodes \cup {Null}]]

Chain(l, S) ==
  /\ l.next[Head] = Null /\ l.prev[Tail] = Null
  /\ l.prev[Head] \in S \cup {Tail}
  /\ l.next[Tail] \in S \cup {Head}
  /\ \A n \in S : l.next[n] \in S \cup {Head} /\ l.prev[n] \in S \cup {Tail}
  /\ \A n \in S \cup {Head} : l.next[l.prev[n]] = n
  /\ \A n \in S \cup {Tail} : l.prev[l.next[n]] = n
  /\ \A n \in Items \ S : l.next[n] = Null /\ l.prev[n] = Null

TotalOrder(S, R) ==
  /\ R \subseteq S \X S
  /\ \A a \in S : <<a, a>> \notin R
  /\ \A a, b, c \in S : <<a, b>> \in R /\ <<b, c>> \in R => <<a, c>> \in R
  /\ \A a, b \in S : a # b => <<a, b>> \in R \/ <<b, a>> \in R

Sorted(l, S, R) ==
  /\ \A n \in S : l.next[n] = Head => \A m \in S \ {n} : <<m, n>> \in R
  /\ \A n \in S : l.next[n] \in S =>
       /\ <<n, l.next[n]>> \in R
       /\ \A m \in S : ~(<<n, m>> \in R /\ <<m, l.next[n]>> \in R)
  /\ \A n \in S : l.prev[n] = Tail => \A m \in S \ {n} : <<n, m>> \in R
  /\ l.next[Tail] = Head => S = {}

LruList(l, S, R) == Chain(l, S) /\ TotalOrder(S, R) /\ Sorted(l, S, R)

-----------------------------------------------------------------------------
(* PathCacheItem.add at the head.                                           *)
LEMMA AddFirstFields ==
  ASSUME NEW S \in SUBSET Items, NEW l \in Links, Chain(l, S), NEW n \in Items \ S
  PROVE  LET f == AddFirst(l, n) IN
         /\ f \in Links
         /\ f.next = [x \in Nodes |-> IF x = l.prev[Head] THEN n ELSE IF x = n THEN Head ELSE l.next[x]]
         /\ f.prev = [x \in Nodes |-> IF x = Head THEN n ELSE IF x = n THEN l.prev[Head] ELSE l.prev[x]]
         /\ l.prev[Head] \in S \cup {Tail} /\ l.prev[Head] # n
<1>1. l.prev[Head] \in S \cup {Tail} /\ l.prev[Head] # n /\ n \in Nodes /\ Head \in Nodes /\ n # Head
  BY CacheAssumption DEF Chain, Nodes
<1>2. l.prev[Head] \in Nodes
  BY <1>1 DEF Nodes
<1> QED BY <1>1, <1>2 DEF AddFirst, Links

LEMMA AddFirstChain ==
  ASSUME NEW S \in SUBSET Items, NEW l \in Links, Chain(l, S), NEW n \in Items \ S
  PROVE  AddFirst(l, n) \in Links /\ Chain(AddFirst(l, n), S \cup {n})
<1> DEFINE f == AddFirst(l, n)
<1> DEFINE first == l.prev[Head]
<1>1. /\ f \in Links
      /\ f.next = [x \in Nodes |-> IF x = first THEN n ELSE IF x = n THEN Head ELSE l.next[x]]
      /\ f.prev = [x \in Nodes |-> IF x = Head THEN n ELSE IF x = n THEN first ELSE l.prev[x]]
      /\ first \in S \cup {Tail} /\ first # n
  BY AddFirstFields
<1> HIDE DEF f
<1>2. l.next[first] = Head
  BY DEF Chain
<1>3. \A x \in S \cup {Tail} : l.next[x] = Head => x = first
  BY DEF Chain
<1> HIDE DEF first
<1>4. /\ f.next[Head] = Null /\ f.prev[Tail] = Null
      /\ f.prev[Head] \in S \cup {n, Tail}
      /\ f.next[Tail] \in S \cup {n, Head}
  BY <1>1, CacheAssumption DEF Chain, Nodes
<1>5. \A x \in S \cup {n} : f.next[x] \in S \cup {n, Head} /\ f.prev[x] \in S \cup {n, Tail}
  BY <1>1, CacheAssumption DEF Chain, Nodes
<1>6. \A x \in S \cup {n, Head} : f.next[f.prev[x]] = x
  <2>1. f.next[f.prev[Head]] = Head /\ f.next[f.prev[n]] = n
    BY <1>1, CacheAssumption DEF Nodes
  <2>2. ASSUME NEW x \in S PROVE f.next[f.prev[x]] = x
    <3>1. x # n /\ x # Head /\ x \in Nodes
      BY CacheAssumption DEF Nodes
    <3>2. f.prev[x] = l.prev[x] /\ l.prev[x] \in S \cup {Tail} /\ l.next[l.prev[x]] = x
      BY <1>1, <3>1 DEF Chain
    <3>3. l.prev[x] # first
      BY <1>2, <3>1, <3>2
    <3>4. l.prev[x] # n /\ l.prev[x] \in Nodes
      BY <3>2, CacheAssumption DEF Nodes
    <3> QED BY <1>1, <3>2, <3>3, <3>4
  <2> QED BY <2>1, <2>2
<1>7. \A x \in S \cup {n, Tail} : f.prev[f.next[x]] = x
  <2>1. f.prev[f.next[n]] = n /\ f.prev[f.next[first]] = first
    BY <1>1, CacheAssumption DEF Nodes
  <2>2. ASSUME NEW x \in S \cup {Tail}, x # first PROVE f.prev[f.next[x]] = x
    <3>1. x # n /\ x \in Nodes
      BY CacheAssumption DEF Nodes
    <3>2. f.next[x] = l.next[x] /\ l.next[x] \in S \cup {Head} /\ l.prev[l.next[x]] = x
      BY <1>1, <3>1, <2>2 DEF Chain
    <3>3. l.next[x] \in S /\ l.next[x] # n /\ l.next[x] # Head
      BY <3>2, <2>2, <1>3, CacheAssumption
    <3>4. l.next[x] \in Nodes
      BY <3>3 DEF Nodes
    <3> QED BY <1>1, <3>2, <3>3, <3>4
  <2> QED BY <2>1, <2>2
<1>8. \A x \in Items \ (S \cup {n}) : f.next[x] = Null /\ f.prev[x] = Null
  BY <1>1, CacheAssumption DEF Chain, Nodes
<1>9. Chain(f, S \cup {n})
  BY <1>4, <1>5, <1>6, <1>7, <1>8 DEF Chain
<1> QED BY <1>1, <1>9 DEF f

LEMMA AddFirstSorted ==
  ASSUME NEW S \in SUBSET Items, NEW l \in Links, NEW R, LruList(l, S, R), NEW n \in Items \ S
  PROVE  LruList(AddFirst(l, n), S \cup {n}, Newest(n, S, R))
<1> DEFINE f == AddFirst(l, n)
<1> DEFINE T == S \cup {n}
<1> DEFINE Q == Newest(n, S, R)
<1> DEFINE first == l.prev[Head]
<1> USE DEF LruList
<1>1. /\ f.next = [x \in Nodes |-> IF x = first THEN n ELSE IF x = n THEN Head ELSE l.next[x]]
      /\ f.prev = [x \in Nodes |-> IF x = Head THEN n ELSE IF x = n THEN first ELSE l.prev[x]]
      /\ first \in S \cup {Tail} /\ first # n
  BY AddFirstFields
<1>2. Chain(f, T)
  BY AddFirstChain
<1>3. \A x \in S \cup {Tail} : l.next[x] = Head <=> x = first
  BY DEF Chain
<1> HIDE DEF f, first
<1>4. Q = R \cup {<<m, n>> : m \in S}
  BY DEF Newest
<1>5. TotalOrder(T, Q)
  BY <1>4 DEF TotalOrder
<1>6. \A x \in T : x # n => x \in S /\ x \in Nodes /\ x # Head /\ x # Tail
  BY CacheAssumption DEF Nodes
<1>7. n \in Nodes /\ n # Head /\ n # Tail /\ Tail \in Nodes /\ Head \in Nodes /\ Head # Tail
  BY CacheAssumption DEF Nodes
<1>8. \A x \in T : f.next[x] = Head => x = n
  <2>1. ASSUME NEW x \in S, f.next[x] = Head PROVE FALSE
    BY <2>1, <1>1, <1>3, <1>6, <1>7
  <2> QED BY <2>1
<1>9. \A x \in T : f.next[x] \in T =>
        /\ <<x, f.next[x]>> \in Q
        /\ \A m \in T : ~(<<x, m>> \in Q /\ <<m, f.next[x]>> \in Q)
  <2> SUFFICES ASSUME NEW x \in T, f.next[x] \in T
               PROVE  /\ <<x, f.next[x]>> \in Q
                      /\ \A m \in T : ~(<<x, m>> \in Q /\ <<m, f.next[x]>> \in Q)
    OBVIOUS
  <2>1. x \in S
    BY <1>1, <1>7, <1>6
  <2>2. CASE x = first
    <3>1. f.next[x] = n /\ l.next[x] = Head
      BY <2>1, <2>2, <1>1, <1>3, <1>6
    <3>2. \A m \in S : m # x => <<m, x>> \in R
      BY <3>1, <2>1 DEF Sorted
    <3>3. \A m \in S : <<x, m>> \notin R
      BY <3>2, <2>1 DEF TotalOrder
    <3>4. \A m \in T : <<x, m>> \in Q => m = n
      BY <3>3, <2>1, <1>4 DEF TotalOrder
    <3>5. <<n, n>> \notin Q
      BY <1>4 DEF TotalOrder
    <3>6. <<x, n>> \in Q
      BY <2>1, <1>4
    <3> QED BY <3>1, <3>4, <3>5, <3>6
  <2>3. CASE x # first
    <3>1. f.next[x] = l.next[x] /\ l.next[x] \in S
      BY <2>1, <2>3, <1>1, <1>3, <1>6 DEF Chain
    <3>2. <<x, l.next[x]>> \in R /\ \A m \in S : ~(<<x, m>> \in R /\ <<m, l.next[x]>> \in R)
      BY <3>1, <2>1 DEF Sorted
    <3> QED BY <3>1, <3>2, <2>1, <1>4 DEF TotalOrder
  <2> QED BY <2>2, <2>3
<1>10. \A x \in T : f.prev[x] = Tail => \A m \in T \ {x} : <<x, m>> \in Q
  <2> SUFFICES ASSUME NEW x \in T, f.prev[x] = Tail, NEW m \in T \ {x} PROVE <<x, m>> \in Q
    OBVIOUS
  <2>1. CASE x = n
    <3>1. first = Tail
      BY <2>1, <1>1, <1>7
    <3>2. S = {}
      BY <3>1, <1>3 DEF Sorted
    <3> QED BY <3>2, <2>1
  <2>2. CASE x # n
    <3>1. l.prev[x] = Tail /\ x \in S
      BY <2>2, <1>1, <1>6
    <3> QED BY <3>1, <1>4 DEF Sorted
  <2> QED BY <2>1, <2>2
<1>11. f.next[Tail] = Head => T = {}
  BY <1>1, <1>3, <1>7
<1>12. Sorted(f, T, Q)
  <2>1. \A x \in T : f.next[x] = Head => \A m \in T \ {x} : <<m, x>> \in Q
    BY <1>8, <1>4
  <2> QED BY <2>1, <1>9, <1>10, <1>11 DEF Sorted
<1> QED BY <1>2, <1>5, <1>12 DEF f

-----------------------------------------------------------------------------
(* PathCacheItem.remove.                                                    *)
LEMMA UnlinkFields ==
  ASSUME NEW S \in SUBSET Items, NEW l \in Links, Chain(l, S), NEW n \in S, l.next[n] # n
  PROVE  LET f == Unlink(l, n)
             p == l.prev[n]
             q == l.next[n]
         IN  /\ f \in Links
             /\ f.next = [x \in Nodes |-> IF x = n THEN Null ELSE IF x = p THEN q ELSE l.next[x]]
             /\ f.prev = [x \in Nodes |-> IF x = n THEN Null ELSE IF x = q THEN p ELSE l.prev[x]]
             /\ p \in S \cup {Tail} /\ q \in S \cup {Head}
             /\ p # n /\ q # n
             /\ l.next[p] = n /\ l.prev[q] = n
<1> DEFINE p == l.prev[n]
<1> DEFINE q == l.next[n]
<1>1. p \in S \cup {Tail} /\ q \in S \cup {Head} /\ l.next[p] = n /\ l.prev[q] = n
  BY DEF Chain
<1>2. q # n
  OBVIOUS
<1>3. p # n
  BY <1>1, <1>2
<1>4. p \in Nodes /\ q \in Nodes /\ n \in Nodes
  BY <1>1 DEF Nodes
<1> QED BY <1>1, <1>2, <1>3, <1>4 DEF Unlink, Links

LEMMA UnlinkLruList ==
  ASSUME NEW S \in SUBSET Items, NEW l \in Links, NEW R, LruList(l, S, R), NEW n \in S
  PROVE  Unlink(l, n) \in Links /\ LruList(Unlink(l, n), S \ {n}, Without(n, R))
<1> DEFINE f == Unlink(l, n)
<1> DEFINE T == S \ {n}
<1> DEFINE Q == Without(n, R)
<1> DEFINE p == l.prev[n]
<1> DEFINE q == l.next[n]
<1>0. Chain(l, S) /\ l.next[n] # n
  BY DEF LruList, Sorted, TotalOrder
<1>1. /\ f \in Links
      /\ f.next = [x \in Nodes |-> IF x = n THEN Null ELSE IF x = p THEN q ELSE l.next[x]]
      /\ f.prev = [x \in Nodes |-> IF x = n THEN Null ELSE IF x = q THEN p ELSE l.prev[x]]
      /\ p \in T \cup {Tail} /\ q \in T \cup {Head}
      /\ l.next[p] = n /\ l.prev[q] = n
  BY <1>0, UnlinkFields
<1>2. \A x \in S : x \in Nodes /\ x # Head /\ x # Tail /\ x # Null
  BY CacheAssumption DEF Nodes
<1>3. Head \in Nodes /\ Tail \in Nodes /\ Head # Tail /\ Head # Null /\ Tail # Null /\ n # Null
  BY CacheAssumption DEF Nodes
<1>4. \A x \in S \cup {Tail} : l.next[x] = n => x = p
  BY DEF LruList, Chain
<1>5. \A x \in S \cup {Head} : l.prev[x] = n => x = q
  BY DEF LruList, Chain
<1>6. <<p, n>> \in R \/ p = Tail
  BY <1>1, <1>2 DEF LruList, Sorted
<1>7. <<n, q>> \in R \/ q = Head
  BY <1>1, <1>2 DEF LruList, Sorted
<1>8. /\ q = Head => \A m \in T : <<m, n>> \in R
      /\ p = Tail => \A m \in T : <<n, m>> \in R
  BY DEF LruList, Sorted
<1> HIDE DEF f, p, q
<1>9. Chain(f, T)
  <2>1. /\ f.next[Head] = Null /\ f.prev[Tail] = Null
        /\ f.prev[Head] \in T \cup {Tail}
        /\ f.next[Tail] \in T \cup {Head}
    BY <1>1, <1>2, <1>3, <1>4, <1>5 DEF LruList, Chain
  <2>2. ASSUME NEW x \in T PROVE f.next[x] \in T \cup {Head} /\ f.prev[x] \in T \cup {Tail}
    BY <1>1, <1>2, <1>3, <1>4, <1>5 DEF LruList, Chain
  <2>3. ASSUME NEW x \in T \cup {Head} PROVE f.next[f.prev[x]] = x
    <3>1. CASE x = q
      BY <3>1, <1>1, <1>2, <1>3
    <3>2. CASE x # q
      <4>1. f.prev[x] = l.prev[x] /\ l.prev[x] \in T \cup {Tail} /\ l.next[l.prev[x]] = x
        BY <3>2, <1>1, <1>2, <1>3, <1>5 DEF LruList, Chain
      <4>2. l.prev[x] # p /\ l.prev[x] \in Nodes /\ l.prev[x] # n
        BY <4>1, <1>1, <1>2, <1>3
      <4> QED BY <4>1, <4>2, <1>1
    <3> QED BY <3>1, <3>2
  <2>4. ASSUME NEW x \in T \cup {Tail} PROVE f.prev[f.next[x]] = x
    <3>1. CASE x = p
      BY <3>1, <1>1, <1>2, <1>3
    <3>2. CASE x # p
      <4>1. f.next[x] = l.next[x] /\ l.next[x] \in T \cup {Head} /\ l.prev[l.next[x]] = x
        BY <3>2, <1>1, <1>2, <1>3, <1>4 DEF LruList, Chain
      <4>2. l.next[x] # q /\ l.next[x] \in Nodes /\ l.next[x] # n
        BY <4>1, <1>1, <1>2, <1>3
      <4> QED BY <4>1, <4>2, <1>1
    <3> QED BY <3>1, <3>2
  <2>5. ASSUME NEW x \in Items \ T PROVE f.next[x] = Null /\ f.prev[x] = Null
    <3>1. x = n \/ (x \in Items \ S /\ x # p /\ x # q)
      BY <1>1, CacheAssumption
    <3>2. x \in Nodes
      BY DEF Nodes
    <3> QED BY <3>1, <3>2, <1>1 DEF LruList, Chain
  <2> QED BY <2>1, <2>2, <2>3, <2>4, <2>5 DEF Chain
<1>10. Q = {r \in R : r[1] # n /\ r[2] # n}
  BY DEF Without
<1>11. \A a, b \in T : <<a, b>> \in Q <=> <<a, b>> \in R
  BY <1>10
<1>12. TotalOrder(T, Q)
  <2>1. Q \subseteq T \X T
    BY <1>10 DEF LruList, TotalOrder
  <2> QED BY <2>1, <1>11 DEF LruList, TotalOrder
<1> HIDE DEF Q
<1>13. \A x \in T : f.next[x] = Head => \A m \in T \ {x} : <<m, x>> \in Q
  <2> SUFFICES ASSUME NEW x \in T, f.next[x] = Head, NEW m \in T \ {x} PROVE <<m, x>> \in R
    BY <1>11
  <2>1. CASE x = p
    <3>1. q = Head
      BY <2>1, <1>1, <1>2
    <3>2. <<m, n>> \in R
      BY <3>1, <1>8
    <3>3. l.next[x] = n
      BY <2>1, <1>1
    <3>4. ~(<<x, m>> \in R /\ <<m, n>> \in R)
      BY <3>3 DEF LruList, Sorted
    <3> QED BY <3>2, <3>4 DEF LruList, TotalOrder
  <2>2. CASE x # p
    BY <2>2, <1>1, <1>2 DEF LruList, Sorted
  <2> QED BY <2>1, <2>2
<1>14. \A x \in T : f.next[x] \in T =>
         /\ <<x, f.next[x]>> \in Q
         /\ \A m \in T : ~(<<x, m>> \in Q /\ <<m, f.next[x]>> \in Q)
  <2> SUFFICES ASSUME NEW x \in T, f.next[x] \in T
               PROVE  /\ <<x, f.next[x]>> \in R
                      /\ \A m \in T : ~(<<x, m>> \in R /\ <<m, f.next[x]>> \in R)
    BY <1>11
  <2>1. CASE x = p
    <3>1. f.next[x] = q /\ q \in T /\ <<x, n>> \in R /\ <<n, q>> \in R
      BY <2>1, <1>1, <1>2, <1>3, <1>6, <1>7
    <3>0. l.next[x] = n
      BY <2>1, <1>1
    <3>2. \A m \in S : ~(<<x, m>> \in R /\ <<m, n>> \in R)
      BY <3>0 DEF LruList, Sorted
    <3>3. \A m \in S : ~(<<n, m>> \in R /\ <<m, q>> \in R)
      BY <3>1 DEF LruList, Sorted, q
    <3> QED BY <3>1, <3>2, <3>3 DEF LruList, TotalOrder
  <2>2. CASE x # p
    <3>1. f.next[x] = l.next[x] /\ l.next[x] \in S
      BY <2>2, <1>1, <1>2
    <3> QED BY <3>1 DEF LruList, Sorted
  <2> QED BY <2>1, <2>2
<1>15. \A x \in T : f.prev[x] = Tail => \A m \in T \ {x} : <<x, m>> \in Q
  <2> SUFFICES ASSUME NEW x \in T, f.prev[x] = Tail, NEW m \in T \ {x} PROVE <<x, m>> \in R
    BY <1>11
  <2>1. CASE x = q
    <3>1. p = Tail
      BY <2>1, <1>1, <1>2
    <3>2. <<n, m>> \in R
      BY <3>1, <1>8
    <3>3. ~(<<n, m>> \in R /\ <<m, x>> \in R)
      BY <2>1 DEF LruList, Sorted, q
    <3> QED BY <3>2, <3>3 DEF LruList, TotalOrder
  <2>2. CASE x # q
    BY <2>2, <1>1, <1>2 DEF LruList, Sorted
  <2> QED BY <2>1, <2>2
<1>16. f.next[Tail] = Head => T = {}
  <2> SUFFICES ASSUME f.next[Tail] = Head, NEW m \in T PROVE FALSE
    OBVIOUS
  <2>1. p = Tail
    BY <1>1, <1>3 DEF LruList, Sorted
  <2>2. q = Head
    BY <2>1, <1>1, <1>3
  <2>3. <<n, m>> \in R /\ <<m, n>> \in R
    BY <2>1, <2>2, <1>8
  <2> QED BY <2>3 DEF LruList, TotalOrder
<1>17. Sorted(f, T, Q)
  BY <1>13, <1>14, <1>15, <1>16 DEF Sorted
<1> QED BY <1>1, <1>9, <1>12, <1>17 DEF LruList, f, Q

-----------------------------------------------------------------------------
(* The inductive invariant.                                                 *)

(* An item outside the list carries nothing over to its next use.           *)
GarbageIsBlank == \A n \in Items \ Linked : key[n] = NoPath /\ age[n] = 0

Inv == TypeOK /\ LruList(links, Linked, older) /\ MapMatchesList /\ GarbageIsBlank

LEMMA LinkedOfChain ==
  ASSUME NEW l \in Links, NEW S \in SUBSET Items, Chain(l, S)
  PROVE  {n \in Items : l.prev[n] # Null} = S
BY CacheAssumption DEF Chain

LEMMA CachedFinite == IsFiniteSet(Cached) /\ Cardinality(Cached) \in Nat
<1>1. Cached \subseteq Keys
  BY DEF Cached
<1> QED BY <1>1, FS_Subset, FS_CardinalityType, CacheAssumption

(* Under the invariant the map is a bijection from its keys to the list.    *)
LEMMA MapBijection ==
  ASSUME Inv
  PROVE  /\ links \in Links
         /\ Linked \in SUBSET Items
         /\ \A k \in Cached : k \in Keys /\ map[k] \in Linked /\ key[map[k]] = k
         /\ \A n \in Linked : n \in Items /\ key[n] \in Cached /\ map[key[n]] = n
         /\ \A n \in Items \ Linked : IsGarbage(n)
<1>1. links \in Links /\ Linked \in SUBSET Items
  BY DEF Inv, TypeOK, Links, Linked
<1>2. \A k \in Cached : k \in Keys /\ map[k] \in Linked /\ key[map[k]] = k
  BY DEF Inv, MapMatchesList, Cached
<1>3. \A n \in Linked : n \in Items /\ key[n] \in Cached /\ map[key[n]] = n
  BY <1>1, CacheAssumption DEF Inv, MapMatchesList, Cached
<1>4. ASSUME NEW n \in Items \ Linked, NEW k \in Keys PROVE map[k] # n
  <2>1. CASE k \in Cached
    BY <1>2, <2>1
  <2>2. CASE k \notin Cached
    BY <2>2, CacheAssumption DEF Cached
  <2> QED BY <2>1, <2>2
<1> QED BY <1>1, <1>2, <1>3, <1>4 DEF IsGarbage

LEMMA InitInv == Init => Inv
<1> SUFFICES ASSUME Init PROVE Inv
  OBVIOUS
<1>1. links.next = [n \in Nodes |-> IF n = Tail THEN Head ELSE Null]
      /\ links.prev = [n \in Nodes |-> IF n = Head THEN Tail ELSE Null]
      /\ links \in Links
      /\ Head \in Nodes /\ Tail \in Nodes
  BY CacheAssumption DEF Init, NoLink, Links, Nodes
<1>2. Linked = {}
  BY <1>1, CacheAssumption DEF Linked, Nodes
<1>3. Cached = {}
  BY DEF Init, Cached
<1>4. TypeOK
  BY <1>1, CacheAssumption DEF Init, TypeOK, Links
<1>5. Chain(links, {})
  BY <1>1, CacheAssumption DEF Chain, Nodes
<1>6. TotalOrder({}, older) /\ Sorted(links, {}, older)
  BY DEF Init, TotalOrder, Sorted
<1>7. MapMatchesList
  BY <1>2, <1>3, FS_EmptySet DEF Init, MapMatchesList
<1>8. GarbageIsBlank
  BY DEF Init, GarbageIsBlank
<1> QED BY <1>2, <1>4, <1>5, <1>6, <1>7, <1>8 DEF Inv, LruList

LEMMA HitInv ==
  ASSUME Inv, NEW k \in Keys, Hit(k)
  PROVE  Inv' /\ Linked' = Linked /\ Cached' = Cached
<1> DEFINE n == map[k]
<1> DEFINE l == Unlink(links, n)
<1> DEFINE S == Linked \ {n}
<1>1. n \in Linked /\ k \in Cached /\ key[n] = k /\ n \in Items
  BY MapBijection DEF Hit, Cached
<1>2. LruList(links, Linked, older) /\ links \in Links /\ Linked \in SUBSET Items
  BY MapBijection DEF Inv
<1>3. l \in Links /\ LruList(l, S, Without(n, older))
  BY <1>1, <1>2, UnlinkLruList
<1>4. S \in SUBSET Items /\ n \in Items \ S /\ S \cup {n} = Linked
  BY <1>1, <1>2
<1> HIDE DEF l, S
<1>5. links' = AddFirst(l, n) /\ older' = Newest(n, S, Without(n, older))
  BY DEF Hit, ToFront, l, S
<1>6. links' \in Links /\ LruList(links', Linked, older')
  BY <1>3, <1>4, <1>5, AddFirstChain, AddFirstSorted DEF LruList
<1>7. Linked' = Linked
  BY <1>2, <1>6, LinkedOfChain DEF Linked, LruList
<1>8. Cached' = Cached
  BY DEF Cached, Hit
<1>9. TypeOK'
  <2>1. older' \in SUBSET (Items \X Items)
    BY <1>2, <1>6 DEF LruList, TotalOrder
  <2>2. answer' \in [key : Keys, age : 0..Ttl]
    BY <1>1, CacheAssumption DEF Hit, Inv, TypeOK, IsExpired
  <2> QED BY <1>6, <2>1, <2>2 DEF Hit, Inv, TypeOK, Links
<1>10. MapMatchesList'
  BY <1>7, <1>8 DEF Inv, MapMatchesList, Hit
<1>11. GarbageIsBlank'
  BY <1>7 DEF Inv, GarbageIsBlank, Hit
<1> QED BY <1>6, <1>7, <1>8, <1>9, <1>10, <1>11 DEF Inv

LEMMA ExpireInv ==
  ASSUME Inv, NEW k \in Keys, Expire(k)
  PROVE  Inv' /\ Linked' = Linked \ {map[k]} /\ Cached' = Cached \ {k}
<1> DEFINE n == map[k]
<1>1. n \in Linked /\ k \in Cached /\ key[n] = k /\ n \in Items
  BY MapBijection DEF Expire, Cached
<1>2. LruList(links, Linked, older) /\ links \in Links /\ Linked \in SUBSET Items
  BY MapBijection DEF Inv
<1>3. links' \in Links /\ LruList(links', Linked \ {n}, older')
  BY <1>1, <1>2, UnlinkLruList DEF Expire
<1>4. Linked' = Linked \ {n}
  <2>1. Linked \ {n} \in SUBSET Items /\ Chain(links', Linked \ {n})
    BY <1>2, <1>3 DEF LruList
  <2> QED BY <1>3, <2>1, LinkedOfChain DEF Linked
<1>5. \A j \in Keys : map'[j] = IF j = k THEN Null ELSE map[j]
  BY DEF Expire, Forget, Inv, TypeOK
<1>6. Cached' = Cached \ {k}
  BY <1>5 DEF Cached
<1>7. Cardinality(Cached') = Cardinality(Cached) - 1 /\ Cardinality(Cached) \in Nat \ {0}
  BY <1>1, <1>6, CachedFinite, FS_RemoveElement, FS_EmptySet
<1>8. TypeOK'
  <2>1. older' \in SUBSET (Items \X Items)
    BY <1>2, <1>3 DEF LruList, TotalOrder
  <2>2. listCount' \in 0..MaxSize
    BY <1>7, CacheAssumption DEF Expire, Inv, TypeOK, MapMatchesList
  <2> QED BY <1>3, <2>1, <2>2, CacheAssumption DEF Expire, Forget, Inv, TypeOK, Links
<1>9. \A m \in Items : key'[m] = IF m = n THEN NoPath ELSE key[m]
  BY DEF Expire, Inv, TypeOK
<1>10. MapMatchesList'
  <2>1. listCount' = Cardinality(Cached')
    BY <1>7 DEF Expire, Inv, MapMatchesList
  <2>2. ASSUME NEW j \in Cached' PROVE map'[j] \in Linked' /\ key'[map'[j]] = j
    <3>1. j \in Cached /\ j # k /\ map'[j] = map[j] /\ map[j] \in Linked /\ key[map[j]] = j
      BY <1>5, <1>6, MapBijection
    <3>2. map[j] # n
      BY <1>1, <3>1
    <3> QED BY <1>2, <1>4, <1>9, <3>1, <3>2
  <2>3. ASSUME NEW m \in Linked' PROVE key'[m] \in Keys /\ map'[key'[m]] = m
    <3>1. m \in Linked /\ m # n /\ m \in Items /\ key'[m] = key[m]
      BY <1>2, <1>4, <1>9
    <3>2. key[m] \in Keys /\ map[key[m]] = m
      BY <3>1, MapBijection
    <3>3. key[m] # k
      BY <3>1, <3>2
    <3> QED BY <1>5, <3>1, <3>2, <3>3
  <2> QED BY <2>1, <2>2, <2>3 DEF MapMatchesList
<1>11. GarbageIsBlank'
  BY <1>2, <1>4, <1>9 DEF Inv, GarbageIsBlank, Expire, TypeOK
<1> QED BY <1>3, <1>4, <1>6, <1>8, <1>10, <1>11 DEF Inv

LEMMA InsertInv ==
  ASSUME Inv, NEW k \in Keys, Insert(k)
  PROVE  Inv' /\ Cached' = Cached \cup {k} /\ k \notin Cached
         /\ \E new \in Items \ Linked :
              /\ map' = [map EXCEPT ![k] = new]
              /\ older' = Newest(new, Linked, older)
<1> PICK new \in Items :
       /\ IsGarbage(new)
       /\ links' = AddFirst(links, new)
       /\ key' = [key EXCEPT ![new] = k]
       /\ map' = [map EXCEPT ![k] = new]
       /\ older' = Newest(new, Linked, older)
  BY DEF Insert
<1>1. new \in Items \ Linked
  BY DEF IsGarbage
<1>2. LruList(links, Linked, older) /\ links \in Links /\ Linked \in SUBSET Items
  BY MapBijection DEF Inv
<1>3. links' \in Links /\ LruList(links', Linked \cup {new}, older')
  BY <1>1, <1>2, AddFirstChain, AddFirstSorted DEF LruList
<1>4. Linked' = Linked \cup {new}
  <2>1. Linked \cup {new} \in SUBSET Items /\ Chain(links', Linked \cup {new})
    BY <1>2, <1>3 DEF LruList
  <2> QED BY <1>3, <2>1, LinkedOfChain DEF Linked
<1>5. \A j \in Keys : map'[j] = IF j = k THEN new ELSE map[j]
  BY DEF Inv, TypeOK
<1>6. Cached' = Cached \cup {k} /\ k \notin Cached
  BY <1>5, CacheAssumption DEF Cached, Insert
<1>7. Cardinality(Cached') = Cardinality(Cached) + 1
  BY <1>6, CachedFinite, FS_AddElement
<1>8. TypeOK'
  <2>1. older' \in SUBSET (Items \X Items)
    BY <1>2, <1>3 DEF LruList, TotalOrder
  <2>2. listCount' \in 0..MaxSize
    BY CacheAssumption DEF Insert, HasRoom, Inv, TypeOK
  <2>3. answer' \in [key : Keys, age : 0..Ttl]
    BY CacheAssumption DEF Insert
  <2> QED BY <1>3, <2>1, <2>2, <2>3 DEF Insert, Inv, TypeOK, Links
<1>9. \A m \in Items : key'[m] = IF m = new THEN k ELSE key[m]
  BY DEF Inv, TypeOK
<1>10. MapMatchesList'
  <2>1. listCount' = Cardinality(Cached')
    BY <1>7 DEF Insert, Inv, MapMatchesList
  <2>2. ASSUME NEW j \in Cached' PROVE map'[j] \in Linked' /\ key'[map'[j]] = j
    <3>1. CASE j = k
      BY <3>1, <1>4, <1>5, <1>9
    <3>2. CASE j # k
      <4>1. j \in Keys /\ map'[j] = map[j] /\ map[j] \in Linked /\ key[map[j]] = j
        BY <1>5, <1>6, <3>2, MapBijection
      <4> QED BY <1>1, <1>2, <1>4, <1>9, <4>1
    <3> QED BY <3>1, <3>2
  <2>3. ASSUME NEW m \in Linked' PROVE key'[m] \in Keys /\ map'[key'[m]] = m
    <3>1. CASE m = new
      BY <3>1, <1>5, <1>9
    <3>2. CASE m # new
      <4>1. m \in Linked /\ m \in Items /\ key'[m] = key[m] /\ key[m] \in Cached /\ map[key[m]] = m
        BY <1>2, <1>4, <1>9, <3>2, MapBijection
      <4>2. key[m] # k /\ key[m] \in Keys
        BY <1>6, <4>1 DEF Cached
      <4> QED BY <1>5, <4>1, <4>2
    <3> QED BY <3>1, <3>2
  <2> QED BY <2>1, <2>2, <2>3 DEF MapMatchesList
<1>11. GarbageIsBlank'
  BY <1>4, <1>9 DEF Inv, GarbageIsBlank, Insert
<1> QED BY <1>1, <1>3, <1>4, <1>6, <1>8, <1>10, <1>11 DEF Inv

LEMMA RecomputeInv ==
  ASSUME Inv, NEW k \in Keys, Recompute(k)
  PROVE  Inv' /\ Cached' = Cached /\ k \in Cached
         /\ \E new \in Items \ Linked :
              /\ map' = [map EXCEPT ![k] = new]
              /\ age' = [age EXCEPT ![map[k]] = 0]
              /\ older' = Newest(new, Linked \ {map[k]}, Without(map[k], older))
<1> DEFINE n == map[k]
<1> DEFINE l == Unlink(links, n)
<1> DEFINE S == Linked \ {n}
<1> PICK new \in Items :
       /\ IsGarbage(new)
       /\ links' = AddFirst(l, new)
       /\ key' = [key EXCEPT ![n] = NoPath, ![new] = k]
       /\ age' = [age EXCEPT ![n] = 0]
       /\ map' = [map EXCEPT ![k] = new]
       /\ older' = Newest(new, S, Without(n, older))
  BY DEF Recompute
<1>1. n \in Linked /\ k \in Cached /\ key[n] = k /\ n \in Items
  BY MapBijection DEF Recompute, Cached
<1>2. LruList(links, Linked, older) /\ links \in Links /\ Linked \in SUBSET Items
  BY MapBijection DEF Inv
<1>3. l \in Links /\ LruList(l, S, Without(n, older))
  BY <1>1, <1>2, UnlinkLruList
<1>4. S \in SUBSET Items /\ new \in Items \ S /\ new # n /\ new \notin Linked
  BY <1>1, <1>2 DEF IsGarbage
<1> HIDE DEF l
<1>5. links' \in Links /\ LruList(links', S \cup {new}, older')
  BY <1>3, <1>4, AddFirstChain, AddFirstSorted DEF LruList
<1>6. Linked' = S \cup {new}
  <2>1. S \cup {new} \in SUBSET Items /\ Chain(links', S \cup {new})
    BY <1>4, <1>5 DEF LruList
  <2> QED BY <1>5, <2>1, LinkedOfChain DEF Linked
<1>7. \A j \in Keys : map'[j] = IF j = k THEN new ELSE map[j]
  BY DEF Inv, TypeOK
<1>8. Cached' = Cached
  BY <1>1, <1>7, CacheAssumption DEF Cached
<1>9. \A m \in Items : key'[m] = IF m = new THEN k ELSE IF m = n THEN NoPath ELSE key[m]
  BY <1>4 DEF Inv, TypeOK
<1>10. TypeOK'
  <2>1. older' \in SUBSET (Items \X Items)
    BY <1>4, <1>5 DEF LruList, TotalOrder
  <2>2. answer' \in [key : Keys, age : 0..Ttl]
    BY CacheAssumption DEF Recompute
  <2>3. key' \in [Items -> Keys \cup {NoPath}]
    BY DEF Inv, TypeOK
  <2>4. 0 \in 0..(Ttl + 1)
    BY CacheAssumption
  <2>5. age' \in [Items -> 0..(Ttl + 1)]
    BY <2>4 DEF Inv, TypeOK
  <2> QED BY <1>5, <2>1, <2>2, <2>3, <2>5 DEF Recompute, Inv, TypeOK, Links
<1>11. MapMatchesList'
  <2>1. listCount' = Cardinality(Cached')
    BY <1>8 DEF Recompute, Inv, MapMatchesList
  <2>2. ASSUME NEW j \in Cached' PROVE map'[j] \in Linked' /\ key'[map'[j]] = j
    <3>1. CASE j = k
      <4>1. map'[j] = new /\ key'[new] = j
        BY <3>1, <1>7, <1>9
      <4> QED BY <1>6, <4>1
    <3>2. CASE j # k
      <4>1. j \in Keys /\ map'[j] = map[j] /\ map[j] \in Linked /\ key[map[j]] = j
        BY <1>7, <1>8, <3>2, MapBijection
      <4>2. map[j] # n /\ map[j] # new
        BY <1>1, <1>4, <3>2, <4>1
      <4>3. map[j] \in Linked' /\ map[j] \in Items
        BY <1>2, <1>6, <4>1, <4>2
      <4>4. key'[map[j]] = j
        BY <1>9, <4>1, <4>2, <4>3
      <4> QED BY <4>1, <4>3, <4>4
    <3> QED BY <3>1, <3>2
  <2>3. ASSUME NEW m \in Linked' PROVE key'[m] \in Keys /\ map'[key'[m]] = m
    <3>1. CASE m = new
      BY <3>1, <1>7, <1>9
    <3>2. CASE m # new
      <4>1. m \in Linked /\ m \in Items /\ m # n /\ key'[m] = key[m] /\ key[m] \in Keys /\ map[key[m]] = m
        BY <1>2, <1>6, <1>9, <3>2, MapBijection DEF Cached
      <4>2. key[m] # k
        BY <4>1
      <4> QED BY <1>7, <4>1, <4>2
    <3> QED BY <3>1, <3>2
  <2> QED BY <2>1, <2>2, <2>3 DEF MapMatchesList
<1>12. GarbageIsBlank'
  BY <1>2, <1>6, <1>9 DEF Inv, GarbageIsBlank, TypeOK
<1> QED BY <1>1, <1>4, <1>5, <1>6, <1>8, <1>10, <1>11, <1>12 DEF Inv

(* The item before the tail is the one used longest ago.                    *)
LEMMA TailIsOldest ==
  ASSUME Inv, Cached # {}, NEW new \in Items \ Linked
  PROVE  LET r == ToRemove(AddFirst(links, new)) IN
         /\ r \in Linked /\ r \in Items
         /\ \A m \in Linked \ {r} : <<r, m>> \in older
<1> DEFINE r == links.next[Tail]
<1>1. LruList(links, Linked, older) /\ links \in Links /\ Linked \in SUBSET Items
  BY MapBijection DEF Inv
<1>2. Linked # {}
  BY MapBijection
<1>3. r \in Linked /\ links.prev[r] = Tail
  BY <1>1, <1>2 DEF LruList, Chain, Sorted
<1>4. \A m \in Linked \ {r} : <<r, m>> \in older
  BY <1>1, <1>3 DEF LruList, Sorted
<1>5. links.prev[Head] # Tail
  BY <1>1, <1>3, CacheAssumption DEF LruList, Chain
<1>6. Tail \in Nodes /\ new # Tail
  BY CacheAssumption DEF Nodes
<1>9. AddFirst(links, new).next[Tail] = r
  BY <1>1, <1>5, <1>6 DEF AddFirst, Links
<1>10. ToRemove(AddFirst(links, new)) = r
  BY <1>9 DEF ToRemove
<1> QED BY <1>1, <1>3, <1>4, <1>10

LEMMA EvictInv ==
  ASSUME Inv, NEW k \in Keys, InsertAndEvict(k)
  PROVE  Inv'
         /\ \E new \in Items \ Linked, r \in Linked :
              /\ key[r] # k /\ k \notin Cached
              /\ \A m \in Linked \ {r} : <<r, m>> \in older
              /\ map' = [map EXCEPT ![k] = new, ![key[r]] = Null]
              /\ age' = [age EXCEPT ![r] = 0]
              /\ older' = Without(r, Newest(new, Linked, older))
              /\ Cached' = (Cached \ {key[r]}) \cup {k}
<1> DEFINE l(new) == AddFirst(links, new)
<1> DEFINE rem(new) == ToRemove(l(new))
<1> PICK new \in Items :
       /\ IsGarbage(new)
       /\ links' = Unlink(l(new), rem(new))
       /\ key' = [key EXCEPT ![new] = k, ![rem(new)] = NoPath]
       /\ age' = [age EXCEPT ![rem(new)] = 0]
       /\ map' = [map EXCEPT ![k] = new, ![key[rem(new)]] = Null]
       /\ older' = Without(rem(new), Newest(new, Linked, older))
  BY DEF InsertAndEvict
<1> DEFINE a == l(new)
<1> DEFINE r == rem(new)
<1> DEFINE S == Linked \cup {new}
<1>1. new \in Items \ Linked /\ k \notin Cached
  BY DEF IsGarbage, InsertAndEvict, Cached
<1>2. LruList(links, Linked, older) /\ links \in Links /\ Linked \in SUBSET Items
  BY MapBijection DEF Inv
<1>3. Cached # {}
  BY CachedFinite, FS_EmptySet, CacheAssumption DEF InsertAndEvict, HasRoom, Inv, MapMatchesList
<1>4. r \in Linked /\ r \in Items /\ \A m \in Linked \ {r} : <<r, m>> \in older
  BY <1>1, <1>3, TailIsOldest
<1>5. a \in Links /\ LruList(a, S, Newest(new, Linked, older))
  BY <1>1, <1>2, AddFirstChain, AddFirstSorted DEF LruList
<1> HIDE DEF l, rem, a, r
<1>6. S \in SUBSET Items /\ r \in S /\ r # new
  BY <1>1, <1>2, <1>4
<1>7. links' = Unlink(a, r) /\ older' = Without(r, Newest(new, Linked, older))
  BY DEF a, r
<1>8. links' \in Links /\ LruList(links', S \ {r}, older')
  BY <1>5, <1>6, <1>7, UnlinkLruList
<1>9. Linked' = S \ {r}
  <2>1. S \ {r} \in SUBSET Items /\ Chain(links', S \ {r})
    BY <1>6, <1>8 DEF LruList
  <2> QED BY <1>8, <2>1, LinkedOfChain DEF Linked
<1>10. key[r] \in Cached /\ key[r] \in Keys /\ map[key[r]] = r /\ key[r] # k
  BY <1>1, <1>4, MapBijection
<1>11. map' = [map EXCEPT ![k] = new, ![key[r]] = Null]
       /\ key' = [key EXCEPT ![new] = k, ![r] = NoPath]
       /\ age' = [age EXCEPT ![r] = 0]
  BY DEF r
<1>12. \A j \in Keys : map'[j] = IF j = k THEN new ELSE IF j = key[r] THEN Null ELSE map[j]
  BY <1>10, <1>11 DEF Inv, TypeOK
<1>13. \A m \in Items : key'[m] = IF m = new THEN k ELSE IF m = r THEN NoPath ELSE key[m]
  BY <1>4, <1>6, <1>11 DEF Inv, TypeOK
<1>14. Cached' = (Cached \ {key[r]}) \cup {k}
  BY <1>10, <1>12, CacheAssumption DEF Cached
<1>15. Cardinality(Cached') = Cardinality(Cached)
  <2>1. Cardinality(Cached \ {key[r]}) = Cardinality(Cached) - 1 /\ IsFiniteSet(Cached \ {key[r]})
    BY <1>10, CachedFinite, FS_RemoveElement
  <2>2. Cardinality((Cached \ {key[r]}) \cup {k}) = Cardinality(Cached \ {key[r]}) + 1
    BY <1>1, <2>1, FS_AddElement
  <2> QED BY <1>14, <2>1, <2>2, CachedFinite
<1>16. TypeOK'
  <2>1. older' \in SUBSET (Items \X Items)
    BY <1>6, <1>8 DEF LruList, TotalOrder
  <2>2. answer' \in [key : Keys, age : 0..Ttl]
    BY CacheAssumption DEF InsertAndEvict
  <2>3. map' \in [Keys -> Items \cup {Null}]
    BY <1>11 DEF Inv, TypeOK
  <2>4. key' \in [Items -> Keys \cup {NoPath}]
    BY <1>11 DEF Inv, TypeOK
  <2>5. 0 \in 0..(Ttl + 1)
    BY CacheAssumption
  <2>6. age' \in [Items -> 0..(Ttl + 1)]
    BY <1>11, <2>5 DEF Inv, TypeOK
  <2> QED BY <1>8, <2>1, <2>2, <2>3, <2>4, <2>6 DEF InsertAndEvict, Inv, TypeOK, Links
<1>17. MapMatchesList'
  <2>1. listCount' = Cardinality(Cached')
    BY <1>15 DEF InsertAndEvict, Inv, MapMatchesList
  <2>2. ASSUME NEW j \in Cached' PROVE map'[j] \in Linked' /\ key'[map'[j]] = j
    <3>1. CASE j = k
      <4>1. map'[j] = new /\ key'[new] = j
        BY <3>1, <1>12, <1>13
      <4> QED BY <1>6, <1>9, <4>1
    <3>2. CASE j # k
      <4>1. j \in Keys /\ j # key[r] /\ map'[j] = map[j] /\ map[j] \in Linked /\ key[map[j]] = j
        BY <1>12, <1>14, <3>2, MapBijection
      <4>2. map[j] # r /\ map[j] # new
        BY <1>1, <4>1
      <4>3. map[j] \in Linked' /\ map[j] \in Items
        BY <1>2, <1>9, <4>1, <4>2
      <4>4. key'[map[j]] = j
        BY <1>13, <4>1, <4>2, <4>3
      <4> QED BY <4>1, <4>3, <4>4
    <3> QED BY <3>1, <3>2
  <2>3. ASSUME NEW m \in Linked' PROVE key'[m] \in Keys /\ map'[key'[m]] = m
    <3>1. CASE m = new
      BY <3>1, <1>12, <1>13
    <3>2. CASE m # new
      <4>1. m \in Linked /\ m \in Items /\ m # r
        BY <1>2, <1>9, <3>2
      <4>2. key'[m] = key[m] /\ key[m] \in Cached /\ key[m] \in Keys /\ map[key[m]] = m
        BY <1>13, <3>2, <4>1, MapBijection
      <4>3. key[m] # k /\ key[m] # key[r]
        BY <1>1, <1>10, <4>1, <4>2
      <4> QED BY <1>12, <4>2, <4>3
    <3> QED BY <3>1, <3>2
  <2> QED BY <2>1, <2>2, <2>3 DEF MapMatchesList
<1>18. GarbageIsBlank'
  BY <1>2, <1>4, <1>9, <1>11, <1>13 DEF Inv, GarbageIsBlank, TypeOK
<1>19. Inv'
  BY <1>8, <1>9, <1>16, <1>17, <1>18 DEF Inv
<1> QED BY <1>1, <1>4, <1>7, <1>10, <1>11, <1>14, <1>19

LEMMA TickInv == Inv /\ Tick => Inv' /\ Linked' = Linked /\ Cached' = Cached
<1> SUFFICES ASSUME Inv, Tick PROVE Inv' /\ Linked' = Linked /\ Cached' = Cached
  OBVIOUS
<1>1. Linked' = Linked /\ Cached' = Cached
  BY DEF Tick, Linked, Cached
<1>2. age' \in [Items -> 0..(Ttl + 1)]
  BY CacheAssumption DEF Tick, Inv, TypeOK
<1>3. TypeOK'
  BY <1>2 DEF Tick, Inv, TypeOK
<1>4. LruList(links', Linked', older') /\ MapMatchesList'
  BY <1>1 DEF Tick, Inv, MapMatchesList
<1>5. GarbageIsBlank'
  BY <1>1 DEF Tick, Inv, GarbageIsBlank
<1> QED BY <1>1, <1>3, <1>4, <1>5 DEF Inv

LEMMA ResetInit == GlobalReset => Init'
BY DEF GlobalReset, Init

LEMMA InitInvPrimed == Init' => Inv'
BY InitInv, PTL

LEMMA UnchangedInv ==
  ASSUME Inv, UNCHANGED <<links, key, age, map, listCount, older>>,
         answer' \in [key : Keys, age : 0..Ttl] \cup {NoPath}
  PROVE  Inv'
<1>1. Linked' = Linked /\ Cached' = Cached
  BY DEF Linked, Cached
<1>2. TypeOK'
  BY DEF Inv, TypeOK
<1>3. LruList(links', Linked', older') /\ MapMatchesList'
  BY <1>1 DEF Inv, MapMatchesList
<1>4. GarbageIsBlank'
  BY <1>1 DEF Inv, GarbageIsBlank
<1> QED BY <1>2, <1>3, <1>4 DEF Inv

LEMMA StepInv == Inv /\ [Next]_vars => Inv'
<1> SUFFICES ASSUME Inv, [Next]_vars PROVE Inv'
  OBVIOUS
<1>1. ASSUME NEW k \in Keys, Hit(k) PROVE Inv'
  BY <1>1, HitInv
<1>2. ASSUME NEW k \in Keys, Expire(k) PROVE Inv'
  BY <1>2, ExpireInv
<1>3. ASSUME NEW k \in Keys, Recompute(k) PROVE Inv'
  BY <1>3, RecomputeInv
<1>4. ASSUME NEW k \in Keys, Insert(k) PROVE Inv'
  BY <1>4, InsertInv
<1>5. ASSUME NEW k \in Keys, InsertAndEvict(k) PROVE Inv'
  BY <1>5, EvictInv
<1>6. ASSUME NEW k \in Keys, Miss(k) PROVE Inv'
  BY <1>6, UnchangedInv DEF Miss
<1>7. CASE Tick
  BY <1>7, TickInv
<1>8. CASE GlobalReset
  BY <1>8, ResetInit, InitInvPrimed
<1>9. CASE UNCHANGED vars
  BY <1>9, UnchangedInv DEF vars, Inv, TypeOK
<1> QED BY <1>1, <1>2, <1>3, <1>4, <1>5, <1>6, <1>7, <1>8, <1>9 DEF Next

(* The cache keeps its invariant whatever paths the creeps ask for.         *)
THEOREM Invariance == Spec => []Inv
<1>1. Init => Inv
  BY InitInv
<1>2. Inv /\ [Next]_vars => Inv'
  BY StepInv
<1> QED BY <1>1, <1>2, PTL DEF Spec

(* The variables keep their types, and the count stays within maxSize       *)
(* (setCachedPath and getCachedPath).                                       *)
THEOREM TypeCorrect == Spec => []TypeOK
<1>1. Inv => TypeOK
  BY DEF Inv
<1> QED BY <1>1, Invariance, PTL

(* The hash map and the list hold the same items under their own keys, and  *)
(* listCount counts them, for any number of keys and any size: setCachedPath *)
(* and getCachedPath never change one without the others.                   *)
THEOREM MapAlwaysMatchesList == Spec => []MapMatchesList
<1>1. Inv => MapMatchesList
  BY DEF Inv
<1> QED BY <1>1, Invariance, PTL

(* The two directions of the list mirror each other after every             *)
(* PathCacheItem.add and remove, for any list.                              *)
THEOREM PointersAlwaysMirror == Spec => []PointersMirror
<1>1. Inv => PointersMirror
  <2> SUFFICES ASSUME Inv PROVE PointersMirror
    OBVIOUS
  <2>1. Chain(links, Linked)
    BY DEF Inv, LruList
  <2> QED BY <2>1 DEF Chain, PointersMirror, Nodes
<1> QED BY <1>1, Invariance, PTL

-----------------------------------------------------------------------------
(* The refinement: each step of the cache is a step of LruCache.            *)

LruAge == [k \in Keys |-> IF map[k] = Null THEN 0 ELSE age[map[k]]]
LruOlder == {p \in Cached \X Cached : <<map[p[1]], map[p[2]]>> \in older}

LEMMA OlderPairs ==
  \A a, b : <<a, b>> \in LruOlder <=> a \in Cached /\ b \in Cached /\ <<map[a], map[b]>> \in older
BY DEF LruOlder

LEMMA LruOlderType == LruOlder \subseteq Cached \X Cached
BY DEF LruOlder

LEMMA HitServes ==
  ASSUME Inv, NEW k \in Keys, Hit(k)
  PROVE  Lru!Serve(k)
<1>1. k \in Cached /\ map[k] \in Linked /\ key[map[k]] = k /\ Cached' = Cached /\ map' = map /\ age' = age
  BY HitInv, MapBijection DEF Hit, Cached
<1>2. LruAge' = LruAge /\ LruAge[k] <= Ttl /\ LruAge[k] = age[map[k]]
  BY <1>1, MapBijection, CacheAssumption DEF LruAge, Hit, IsExpired, Cached, Inv, TypeOK
<1>3. \A a, b \in Cached : a # b => map[a] # map[b]
  BY MapBijection
<1>4. \A a \in Cached : map[a] \in Linked
  BY MapBijection
<1>5. older' = Newest(map[k], Linked \ {map[k]}, Without(map[k], older))
  BY DEF Hit
<1>6. LruOlder' = Lru!Touch(k, Cached, LruOlder)
  <2>1. ASSUME NEW a \in Cached, NEW b \in Cached
        PROVE  <<a, b>> \in LruOlder' <=> <<a, b>> \in Lru!Touch(k, Cached, LruOlder)
    <3>1. <<a, b>> \in LruOlder' <=> <<map[a], map[b]>> \in older'
      BY <1>1 DEF LruOlder
    <3>2. <<map[a], map[b]>> \in older' <=>
            \/ map[a] # map[k] /\ map[b] # map[k] /\ <<map[a], map[b]>> \in older
            \/ map[a] # map[k] /\ map[b] = map[k]
      BY <1>4, <1>5 DEF Newest, Without
    <3>3. <<a, b>> \in Lru!Touch(k, Cached, LruOlder) <=>
            \/ a # k /\ b # k /\ <<a, b>> \in LruOlder
            \/ a # k /\ b = k
      BY DEF Lru!Touch, Lru!Without
    <3> QED BY <3>1, <3>2, <3>3, <1>1, <1>3 DEF LruOlder
  <2>2. LruOlder' \subseteq Cached \X Cached
    BY <1>1 DEF LruOlder
  <2>3. Lru!Touch(k, Cached, LruOlder) \subseteq Cached \X Cached
    BY <1>1, LruOlderType DEF Lru!Touch, Lru!Without
  <2> QED BY <2>1, <2>2, <2>3
<1>7. answer' = Lru!Path(k, LruAge[k])
  BY <1>1, <1>2 DEF Hit, Lru!Path
<1> QED BY <1>1, <1>2, <1>6, <1>7 DEF Lru!Serve, LruAge, LruOlder

LEMMA ExpireForgets ==
  ASSUME Inv, NEW k \in Keys, Expire(k)
  PROVE  Lru!Forget(k)
<1>1. k \in Cached /\ map[k] \in Linked /\ Cached' = Cached \ {k}
  BY ExpireInv, MapBijection DEF Expire, Cached
<1>2. \A j \in Keys : map'[j] = IF j = k THEN Null ELSE map[j]
  BY DEF Expire, Forget, Inv, TypeOK
<1>3. \A a, b \in Cached : a # b => map[a] # map[b]
  BY MapBijection
<1>4. LruAge[k] > Ttl
  BY <1>1 DEF LruAge, Expire, IsExpired
<1>5. LruAge' = [LruAge EXCEPT ![k] = 0]
  <2>1. \A n \in Items : age'[n] = IF n = map[k] THEN 0 ELSE age[n]
    BY DEF Expire, Inv, TypeOK
  <2>2. ASSUME NEW j \in Keys PROVE LruAge'[j] = IF j = k THEN 0 ELSE LruAge[j]
    <3>1. CASE j \in Cached /\ j # k
      <4>1. map'[j] = map[j] /\ map[j] # Null /\ map[j] # map[k] /\ map[j] \in Items
        BY <3>1, <1>1, <1>2, <1>3, MapBijection DEF Cached
      <4> QED BY <4>1, <2>1, <3>1 DEF LruAge
    <3>2. CASE j = k
      BY <3>2, <1>2 DEF LruAge
    <3>3. CASE j \notin Cached
      BY <3>3, <1>2, <1>1 DEF LruAge, Cached
    <3> QED BY <3>1, <3>2, <3>3
  <2> QED BY <2>2 DEF LruAge
<1>6. LruOlder' = Lru!Without(k, LruOlder)
  <2>1. older' = Without(map[k], older)
    BY DEF Expire
  <2>2. ASSUME NEW a \in Cached \ {k}, NEW b \in Cached \ {k}
        PROVE  <<a, b>> \in LruOlder' <=> <<a, b>> \in Lru!Without(k, LruOlder)
    <3>1. map'[a] = map[a] /\ map'[b] = map[b] /\ map[a] # map[k] /\ map[b] # map[k]
      BY <1>1, <1>2, <1>3, MapBijection
    <3> QED BY <1>1, <2>1, <3>1 DEF LruOlder, Without, Lru!Without
  <2>3. LruOlder' \subseteq (Cached \ {k}) \X (Cached \ {k})
    BY <1>1 DEF LruOlder
  <2>4. Lru!Without(k, LruOlder) \subseteq (Cached \ {k}) \X (Cached \ {k})
    BY LruOlderType DEF Lru!Without
  <2> QED BY <2>2, <2>3, <2>4
<1>7. answer' = NoPath
  BY DEF Expire
<1> QED BY <1>1, <1>4, <1>5, <1>6, <1>7 DEF Lru!Forget, LruAge, LruOlder

LEMMA RecomputeRefreshes ==
  ASSUME Inv, NEW k \in Keys, Recompute(k)
  PROVE  Lru!Refresh(k)
<1>0. PICK new \in Items \ Linked :
      /\ map' = [map EXCEPT ![k] = new]
      /\ age' = [age EXCEPT ![map[k]] = 0]
      /\ older' = Newest(new, Linked \ {map[k]}, Without(map[k], older))
  BY RecomputeInv
<1>1. k \in Cached /\ map[k] \in Linked /\ Cached' = Cached
  BY RecomputeInv, MapBijection
<1>2. \A j \in Keys : map'[j] = IF j = k THEN new ELSE map[j]
  BY <1>0 DEF Inv, TypeOK
<1>3. \A a, b \in Cached : a # b => map[a] # map[b]
  BY MapBijection
<1>4. \A a \in Cached : map[a] \in Linked /\ map[a] \in Items /\ map[a] # new
  BY <1>0, MapBijection
<1>5. LruAge[k] > Ttl
  BY <1>1 DEF LruAge, Recompute, IsExpired
<1>6. LruAge' = [LruAge EXCEPT ![k] = 0]
  <2>1. \A n \in Items : age'[n] = IF n = map[k] THEN 0 ELSE age[n]
    BY <1>0 DEF Inv, TypeOK
  <2>2. ASSUME NEW j \in Keys PROVE LruAge'[j] = IF j = k THEN 0 ELSE LruAge[j]
    <3>1. CASE j \in Cached /\ j # k
      <4>1. map'[j] = map[j] /\ map[j] # Null /\ map[j] # map[k] /\ map[j] \in Items
        BY <3>1, <1>1, <1>2, <1>3, MapBijection DEF Cached
      <4> QED BY <4>1, <2>1, <3>1 DEF LruAge
    <3>2. CASE j = k
      <4>1. map'[k] = new /\ age[new] = 0 /\ age'[new] = 0
        BY <1>0, <1>1, <1>2, <2>1 DEF Inv, GarbageIsBlank
      <4> QED BY <3>2, <4>1 DEF LruAge
    <3>3. CASE j \notin Cached
      BY <3>3, <1>2, <1>1 DEF LruAge, Cached
    <3> QED BY <3>1, <3>2, <3>3
  <2> QED BY <2>2 DEF LruAge
<1>7. LruOlder' = Lru!Touch(k, Cached, LruOlder)
  <2>1. ASSUME NEW a \in Cached, NEW b \in Cached
        PROVE  <<a, b>> \in LruOlder' <=> <<a, b>> \in Lru!Touch(k, Cached, LruOlder)
    <3>1. <<a, b>> \in LruOlder' <=> <<map'[a], map'[b]>> \in older'
      BY <1>1 DEF LruOlder
    <3>2. map'[a] = (IF a = k THEN new ELSE map[a]) /\ map'[b] = (IF b = k THEN new ELSE map[b])
      BY <1>2 DEF Cached
    <3>3. <<map'[a], map'[b]>> \in older' <=>
            \/ a # k /\ b # k /\ <<map[a], map[b]>> \in older
            \/ a # k /\ b = k
      <4>1. \A n, m : <<n, m>> \in older' <=>
              \/ n # map[k] /\ m # map[k] /\ <<n, m>> \in older
              \/ n \in Linked /\ n # map[k] /\ m = new
        BY <1>0 DEF Newest, Without
      <4>2. <<new, new>> \notin older /\ \A n \in Linked : <<n, new>> \notin older /\ <<new, n>> \notin older
        BY <1>0 DEF Inv, LruList, TotalOrder
      <4> QED BY <4>1, <4>2, <3>2, <1>3, <1>4, <1>1
    <3>4. <<a, b>> \in Lru!Touch(k, Cached, LruOlder) <=>
            \/ a # k /\ b # k /\ <<a, b>> \in LruOlder
            \/ a # k /\ b = k
      BY DEF Lru!Touch, Lru!Without
    <3> QED BY <3>1, <3>3, <3>4 DEF LruOlder
  <2>2. LruOlder' \subseteq Cached \X Cached
    BY <1>1 DEF LruOlder
  <2>3. Lru!Touch(k, Cached, LruOlder) \subseteq Cached \X Cached
    BY <1>1, LruOlderType DEF Lru!Touch, Lru!Without
  <2> QED BY <2>1, <2>2, <2>3
<1>8. answer' = Lru!Path(k, 0)
  BY DEF Recompute, Lru!Path
<1> QED BY <1>1, <1>5, <1>6, <1>7, <1>8 DEF Lru!Refresh, LruAge, LruOlder

LEMMA InsertLearns ==
  ASSUME Inv, NEW k \in Keys, Insert(k)
  PROVE  Lru!Learn(k)
<1>0. PICK new \in Items \ Linked :
      /\ map' = [map EXCEPT ![k] = new]
      /\ older' = Newest(new, Linked, older)
  BY InsertInv
<1>1. k \notin Cached /\ Cached' = Cached \cup {k} /\ Cardinality(Cached) < MaxSize
  BY InsertInv DEF Insert, HasRoom, Inv, MapMatchesList
<1>2. \A j \in Keys : map'[j] = IF j = k THEN new ELSE map[j]
  BY <1>0 DEF Inv, TypeOK
<1>3. \A a \in Cached : map[a] \in Linked /\ map[a] # new /\ a # k
  BY <1>0, <1>1, MapBijection
<1>4. LruAge' = LruAge
  <2>1. ASSUME NEW j \in Keys PROVE LruAge'[j] = LruAge[j]
    <3>1. CASE j = k
      <4>1. map[k] = Null /\ map'[k] = new /\ age[new] = 0 /\ age' = age
        BY <1>0, <1>2 DEF Inv, GarbageIsBlank, Insert
      <4> QED BY <3>1, <4>1 DEF LruAge
    <3>2. CASE j # k
      BY <3>2, <1>2 DEF LruAge, Insert
    <3> QED BY <3>1, <3>2
  <2> QED BY <2>1 DEF LruAge
<1>5. LruOlder' = Lru!Touch(k, Cached, LruOlder)
  <2>1. ASSUME NEW a \in Cached \cup {k}, NEW b \in Cached \cup {k}
        PROVE  <<a, b>> \in LruOlder' <=> <<a, b>> \in Lru!Touch(k, Cached, LruOlder)
    <3>1. <<a, b>> \in LruOlder' <=> <<map'[a], map'[b]>> \in older'
      BY <1>1 DEF LruOlder
    <3>2. map'[a] = (IF a = k THEN new ELSE map[a]) /\ map'[b] = (IF b = k THEN new ELSE map[b])
      BY <1>2 DEF Cached
    <3>3. <<map'[a], map'[b]>> \in older' <=>
            \/ a # k /\ b # k /\ <<map[a], map[b]>> \in older
            \/ a # k /\ b = k
      <4>1. \A n, m : <<n, m>> \in older' <=> <<n, m>> \in older \/ (n \in Linked /\ m = new)
        BY <1>0 DEF Newest
      <4>2. <<new, new>> \notin older /\ \A n \in Linked : <<n, new>> \notin older /\ <<new, n>> \notin older
        BY <1>0 DEF Inv, LruList, TotalOrder
      <4> QED BY <4>1, <4>2, <3>2, <1>3
    <3>4. <<a, b>> \in Lru!Touch(k, Cached, LruOlder) <=>
            \/ a # k /\ b # k /\ <<a, b>> \in LruOlder
            \/ a # k /\ b = k
      BY DEF Lru!Touch, Lru!Without
    <3> QED BY <3>1, <3>3, <3>4 DEF LruOlder
  <2>2. LruOlder' \subseteq (Cached \cup {k}) \X (Cached \cup {k})
    BY <1>1 DEF LruOlder
  <2>3. Lru!Touch(k, Cached, LruOlder) \subseteq (Cached \cup {k}) \X (Cached \cup {k})
    BY LruOlderType DEF Lru!Touch, Lru!Without
  <2> QED BY <2>1, <2>2, <2>3
<1>6. answer' = Lru!Path(k, 0)
  BY DEF Insert, Lru!Path
<1>7. answer' = Lru!Path(k, 0) /\ Cached' = Cached \cup {k}
  BY <1>1, <1>6
<1> QED BY <1>1, <1>4, <1>5, <1>7 DEF Lru!Learn, LruAge, LruOlder, Cardinality, Lru!Cardinality

LEMMA EvictReplaces ==
  ASSUME Inv, NEW k \in Keys, InsertAndEvict(k)
  PROVE  \E old \in Keys : Lru!Replace(k, old)
<1>0. PICK new \in Items \ Linked, r \in Linked :
      /\ key[r] # k /\ k \notin Cached
      /\ \A m \in Linked \ {r} : <<r, m>> \in older
      /\ map' = [map EXCEPT ![k] = new, ![key[r]] = Null]
      /\ age' = [age EXCEPT ![r] = 0]
      /\ older' = Without(r, Newest(new, Linked, older))
      /\ Cached' = (Cached \ {key[r]}) \cup {k}
  BY EvictInv
<1>a. PICK old \in Keys : old = key[r]
  BY <1>0 DEF Inv, MapMatchesList
<1> DEFINE T == (Cached \ {old}) \cup {k}
<1>1. old \in Keys /\ old \in Cached /\ map[old] = r /\ r \in Items /\ old # k /\ k \notin Cached
  BY <1>0, <1>a, MapBijection
<1>2. Cardinality(Cached) = MaxSize
  BY CacheAssumption DEF InsertAndEvict, HasRoom, Inv, MapMatchesList, TypeOK
<1>3. \A a, b \in Cached : a # b => map[a] # map[b]
  BY MapBijection
<1>4. \A a \in Cached : map[a] \in Linked /\ map[a] \in Items /\ map[a] # new
  BY <1>0, MapBijection
<1>5. Lru!Oldest(old)
  <2>1. ASSUME NEW o \in Cached \ {old} PROVE <<old, o>> \in LruOlder
    <3>1. map[o] \in Linked \ {r}
      BY <1>1, <1>3, <1>4
    <3> QED BY <1>0, <3>1, <1>1 DEF LruOlder
  <2> QED BY <2>1, <1>1 DEF Lru!Oldest, LruOlder
<1>6. \A j \in Keys : map'[j] = IF j = k THEN new ELSE IF j = old THEN Null ELSE map[j]
  BY <1>0, <1>a, <1>1 DEF Inv, TypeOK
<1>7. LruAge' = [LruAge EXCEPT ![old] = 0]
  <2>1. \A n \in Items : age'[n] = IF n = r THEN 0 ELSE age[n]
    BY <1>0 DEF Inv, TypeOK
  <2>2. ASSUME NEW j \in Keys PROVE LruAge'[j] = IF j = old THEN 0 ELSE LruAge[j]
    <3>1. CASE j = k
      <4>1. map[k] = Null /\ map'[k] = new /\ age'[new] = 0
        BY <1>0, <1>1, <1>6, <2>1 DEF Inv, GarbageIsBlank, Cached
      <4> QED BY <3>1, <4>1, <1>1 DEF LruAge
    <3>2. CASE j = old
      BY <3>2, <1>1, <1>6 DEF LruAge
    <3>3. CASE j # k /\ j # old /\ j \in Cached
      <4>1. map'[j] = map[j] /\ map[j] # Null /\ map[j] # r /\ map[j] \in Items
        BY <3>3, <1>1, <1>3, <1>4, <1>6 DEF Cached
      <4> QED BY <4>1, <2>1, <3>3 DEF LruAge
    <3>4. CASE j # k /\ j # old /\ j \notin Cached
      BY <3>4, <1>6 DEF LruAge, Cached
    <3> QED BY <3>1, <3>2, <3>3, <3>4
  <2> QED BY <1>1, <2>2 DEF LruAge
<1>8. LruOlder' = Lru!Touch(k, Cached \ {old}, Lru!Without(old, LruOlder))
  <2>1. ASSUME NEW a \in T, NEW b \in T
        PROVE  <<a, b>> \in LruOlder' <=>
               <<a, b>> \in Lru!Touch(k, Cached \ {old}, Lru!Without(old, LruOlder))
    <3>1. <<a, b>> \in LruOlder' <=> <<map'[a], map'[b]>> \in older'
      BY <1>0, <1>a, <1>1 DEF LruOlder
    <3>2. map'[a] = (IF a = k THEN new ELSE map[a]) /\ map'[b] = (IF b = k THEN new ELSE map[b])
      BY <1>1, <1>6 DEF Cached
    <3>3. a # old /\ b # old /\ (a # k => a \in Cached /\ map[a] # r) /\ (b # k => b \in Cached /\ map[b] # r)
      BY <1>1, <1>3
    <3>4. <<map'[a], map'[b]>> \in older' <=>
            \/ a # k /\ b # k /\ <<map[a], map[b]>> \in older
            \/ a # k /\ b = k
      <4>1. \A n, m : <<n, m>> \in older' <=>
              /\ n # r /\ m # r
              /\ <<n, m>> \in older \/ (n \in Linked /\ m = new)
        BY <1>0 DEF Newest, Without
      <4>2. <<new, new>> \notin older /\ \A n \in Linked : <<n, new>> \notin older /\ <<new, n>> \notin older
        BY <1>0 DEF Inv, LruList, TotalOrder
      <4>3. new # r
        BY <1>0
      <4> QED BY <4>1, <4>2, <4>3, <3>2, <3>3, <1>4
    <3>5. <<a, b>> \in Lru!Touch(k, Cached \ {old}, Lru!Without(old, LruOlder)) <=>
            \/ a # k /\ b # k /\ <<a, b>> \in LruOlder
            \/ a # k /\ b = k
      BY <3>3 DEF Lru!Touch, Lru!Without
    <3> QED BY <3>1, <3>3, <3>4, <3>5 DEF LruOlder
  <2>2. LruOlder' \subseteq T \X T
    BY <1>0, <1>a DEF LruOlder
  <2>3. Lru!Touch(k, Cached \ {old}, Lru!Without(old, LruOlder)) \subseteq T \X T
    BY LruOlderType DEF Lru!Touch, Lru!Without
  <2> HIDE DEF T
  <2> QED BY <2>1, <2>2, <2>3
<1>9. answer' = Lru!Path(k, 0) /\ Cached' = (Cached \ {old}) \cup {k} /\ old \in Keys
  BY <1>0, <1>a DEF InsertAndEvict, Lru!Path
<1>10. Lru!Replace(k, old)
  BY <1>1, <1>2, <1>5, <1>7, <1>8, <1>9 DEF Lru!Replace, LruAge, LruOlder, Cardinality, Lru!Cardinality
<1> QED BY <1>1, <1>10

LEMMA MissFails ==
  ASSUME NEW k \in Keys, Miss(k)
  PROVE  Lru!Fail(k)
<1>1. Cached' = Cached
  BY DEF Miss, Cached
<1>2. LruAge' = LruAge /\ LruOlder' = LruOlder
  BY <1>1 DEF Miss, LruAge, LruOlder
<1>3. k \notin Cached
  BY DEF Miss, Cached
<1> QED BY <1>1, <1>2, <1>3 DEF Miss, Lru!Fail, LruAge, LruOlder

LEMMA TickTicks ==
  ASSUME Inv, Tick
  PROVE  Lru!Tick
<1>1. Cached' = Cached /\ map' = map /\ older' = older /\ answer' = answer
  BY TickInv DEF Tick
<1>2. LruOlder' = LruOlder
  BY <1>1 DEF LruOlder
<1>3. \A n \in Items : age[n] \in Nat /\ age'[n] \in Nat /\ age'[n] >= age[n]
  BY CacheAssumption DEF Tick, Inv, TypeOK
<1>4. \A k \in Keys : LruAge'[k] \in Nat /\ LruAge'[k] >= LruAge[k]
  BY <1>1, <1>3 DEF LruAge, Inv, TypeOK
<1>5. LruAge' \in [Keys -> Nat]
  BY <1>4 DEF LruAge
<1> QED BY <1>1, <1>2, <1>4, <1>5 DEF Lru!Tick, LruAge, LruOlder

LEMMA InitEmpty == Init => Lru!Init
<1> SUFFICES ASSUME Init PROVE Lru!Init
  OBVIOUS
<1>1. Cached = {}
  BY DEF Init, Cached
<1> QED BY <1>1 DEF Init, Lru!Init

LEMMA ResetClears == GlobalReset => Lru!Clear
<1> SUFFICES ASSUME GlobalReset PROVE Lru!Clear
  OBVIOUS
<1>1. Cached' = {}
  BY DEF GlobalReset, Cached
<1>2. LruOlder' = {}
  BY <1>1 DEF LruOlder
<1>3. LruAge' = [k \in Keys |-> 0]
  BY DEF GlobalReset, LruAge
<1> QED BY <1>1, <1>2, <1>3 DEF GlobalReset, Lru!Clear, LruAge, LruOlder

(* The cache is an LRU cache with expiry, for any keys, size and ttl: the   *)
(* hash map, the pointers and the counter of PathCache implement LruCache.  *)
THEOREM CacheImplementsLru == Spec => ImplementsLru
<1>1. Init => Lru!Init
  BY InitEmpty
<1>2. Inv /\ [Next]_vars => [Lru!Next]_(Lru!vars)
  <2> SUFFICES ASSUME Inv, [Next]_vars PROVE [Lru!Next]_(Lru!vars)
    OBVIOUS
  <2>1. ASSUME NEW k \in Keys, Hit(k) PROVE Lru!Next
    BY <2>1, HitServes DEF Lru!Next
  <2>2. ASSUME NEW k \in Keys, Expire(k) PROVE Lru!Next
    BY <2>2, ExpireForgets DEF Lru!Next
  <2>3. ASSUME NEW k \in Keys, Recompute(k) PROVE Lru!Next
    BY <2>3, RecomputeRefreshes DEF Lru!Next
  <2>4. ASSUME NEW k \in Keys, Insert(k) PROVE Lru!Next
    BY <2>4, InsertLearns DEF Lru!Next
  <2>5. ASSUME NEW k \in Keys, InsertAndEvict(k) PROVE Lru!Next
    BY <2>5, EvictReplaces DEF Lru!Next
  <2>6. ASSUME NEW k \in Keys, Miss(k) PROVE Lru!Next
    BY <2>6, MissFails DEF Lru!Next
  <2>7. CASE Tick
    BY <2>7, TickTicks DEF Lru!Next
  <2>8. CASE GlobalReset
    BY <2>8, ResetClears DEF Lru!Next
  <2>9. CASE UNCHANGED vars
    <3>1. Cached' = Cached
      BY <2>9 DEF vars, Cached
    <3>2. LruAge' = LruAge /\ LruOlder' = LruOlder
      BY <2>9, <3>1 DEF vars, LruAge, LruOlder
    <3> QED BY <2>9, <3>1, <3>2 DEF vars, Lru!vars, LruAge, LruOlder
  <2> QED BY <2>1, <2>2, <2>3, <2>4, <2>5, <2>6, <2>7, <2>8, <2>9 DEF Next
<1> QED BY <1>1, <1>2, Invariance, PTL DEF Spec, ImplementsLru, Lru!Spec
=============================================================================

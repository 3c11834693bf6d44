----------------------------- MODULE PathCache ------------------------------
(***************************************************************************)
(* The path cache of the bot (src/lib/path_cache.ts): a hash map from the  *)
(* keys of an origin and a destination to items, and the same items in a   *)
(* doubly linked list from the most to the least recently used.  Items are *)
(* heap objects: an item in neither the list nor the map is garbage and    *)
(* may be allocated again.  The list runs from Head over prev to Tail.     *)
(*                                                                         *)
(* The path itself is abstracted to the key it was computed for.  The time *)
(* of an item is its age, which stops at Ttl + 1.  The statistics (hits,   *)
(* misses, expired) and saveToMemory and loadFromMemory, which nothing     *)
(* calls, are left out.                                                    *)
(***************************************************************************)
EXTENDS Integers, FiniteSets

CONSTANTS
  Keys,       \* pairs of an origin and a destination with its range
  Items,      \* the heap objects that may be items
  Head, Tail, \* the two ends of the list
  Null,
  MaxSize, Ttl,
  NoPath      \* the answer when there is no path

ASSUME CacheAssumption ==
  /\ MaxSize \in Nat \ {0}
  /\ Ttl \in Nat
  /\ Head \notin Items /\ Tail \notin Items /\ Head # Tail
  /\ Null \notin Items \cup {Head, Tail}
  /\ NoPath \notin Keys
  /\ IsFiniteSet(Keys)

VARIABLES
  links,      \* the next and prev fields of the items, the head and the tail
  key,        \* originId and goalId of an item
  age,        \* Game.time - time of an item
  map,        \* originGoalToPathMap
  listCount,
  answer,     \* history: what the last lookup answered
  older       \* history: <<a, b>> when item a was used longer ago than item b

vars == <<links, key, age, map, listCount, answer, older>>

Nodes == Items \cup {Head, Tail}

TypeOK ==
  /\ links \in [next : [Nodes -> Nodes \cup {Null}], prev : [Nodes -> Nodes \cup {Null}]]
  /\ key \in [Items -> Keys \cup {NoPath}]
  /\ age \in [Items -> 0..(Ttl + 1)]
  /\ map \in [Keys -> Items \cup {Null}]
  /\ listCount \in 0..MaxSize
  /\ answer \in [key : Keys, age : 0..Ttl] \cup {NoPath}
  /\ older \in SUBSET (Items \X Items)

Cached == {k \in Keys : map[k] # Null}
Linked == {n \in Items : links.prev[n] # Null}
IsGarbage(n) == n \notin Linked /\ \A k \in Keys : map[k] # n
IsExpired(n) == age[n] > Ttl

(* The order of use, which the code keeps nowhere but in the list.          *)
Without(n, order) == {p \in order : p[1] # n /\ p[2] # n}
Newest(n, others, order) == order \cup (others \X {n})

-----------------------------------------------------------------------------
(* The list                                                                 *)

AddFirst(l, n) ==
  [next |-> [l.next EXCEPT ![n] = Head, ![l.prev[Head]] = n],
   prev |-> [l.prev EXCEPT ![n] = l.prev[Head], ![Head] = n]]

WrongUnlink(l, n) ==
  [next |-> [l.next EXCEPT ![l.prev[n]] = l.next[n], ![n] = Null],
   prev |-> [l.prev EXCEPT ![n] = Null]]

Unlink(l, n) ==
  [next |-> [l.next EXCEPT ![l.prev[n]] = l.next[n], ![n] = Null],
   prev |-> [l.prev EXCEPT ![l.next[n]] = l.prev[n], ![n] = Null]]

ToFront(n) == AddFirst(Unlink(links, n), n)

WrongToRemove(l) == l.prev[Head]

(* What setCachedPath takes out when there are too many.                    *)
ToRemove(l) == l.next[Tail]

WrongHasRoom == listCount <= MaxSize

(* Whether one more keeps listCount within maxSize.                         *)
HasRoom == listCount < MaxSize

WrongForget(k) == map

Forget(k) == [map EXCEPT ![k] = Null]

NoLink == [n \in Nodes |-> Null]

Init ==
  /\ links = [next |-> [NoLink EXCEPT ![Tail] = Head], prev |-> [NoLink EXCEPT ![Head] = Tail]]
  /\ key = [n \in Items |-> NoPath]
  /\ age = [n \in Items |-> 0]
  /\ map = [k \in Keys |-> Null]
  /\ listCount = 0
  /\ answer = NoPath
  /\ older = {}

-----------------------------------------------------------------------------
(* getCachedPath on an item that is still good: it moves to the front.      *)
Hit(k) ==
  LET n == map[k] IN
  /\ n # Null
  /\ ~IsExpired(n)
  /\ links' = ToFront(n)
  /\ answer' = [key |-> key[n], age |-> age[n]]
  /\ older' = Newest(n, Linked \ {n}, Without(n, older))
  /\ UNCHANGED <<key, age, map, listCount>>

(* getCachedPath on an item that is too old: it is dropped, and the caller  *)
(* gets nothing.  So does getPath when the provider then finds no path.     *)
Expire(k) ==
  LET n == map[k] IN
  /\ n # Null
  /\ IsExpired(n)
  /\ links' = Unlink(links, n)
  /\ key' = [key EXCEPT ![n] = NoPath]
  /\ age' = [age EXCEPT ![n] = 0]
  /\ map' = Forget(k)
  /\ listCount' = listCount - 1
  /\ answer' = NoPath
  /\ older' = Without(n, older)

(* getPath on an item that is too old: it is dropped, and setCachedPath     *)
(* stores the path the provider finds in a new item.                        *)
Recompute(k) ==
  LET n == map[k] IN
  /\ n # Null
  /\ IsExpired(n)
  /\ \E new \in Items :
       /\ IsGarbage(new)
       /\ links' = AddFirst(Unlink(links, n), new)
       /\ key' = [key EXCEPT ![n] = NoPath, ![new] = k]
       /\ age' = [age EXCEPT ![n] = 0]
       /\ map' = [map EXCEPT ![k] = new]
       /\ older' = Newest(new, Linked \ {n}, Without(n, older))
  /\ answer' = [key |-> k, age |-> 0]
  /\ UNCHANGED listCount

(* getPath on a key the map does not know: setCachedPath stores the path,   *)
(* and drops the item before the tail when there are now too many.          *)
Insert(k) ==
  /\ map[k] = Null
  /\ HasRoom
  /\ \E new \in Items :
       /\ IsGarbage(new)
       /\ links' = AddFirst(links, new)
       /\ key' = [key EXCEPT ![new] = k]
       /\ map' = [map EXCEPT ![k] = new]
       /\ older' = Newest(new, Linked, older)
  /\ listCount' = listCount + 1
  /\ answer' = [key |-> k, age |-> 0]
  /\ UNCHANGED age

InsertAndEvict(k) ==
  /\ map[k] = Null
  /\ ~HasRoom
  /\ \E new \in Items :
       /\ IsGarbage(new)
       /\ LET added == AddFirst(links, new)
              toRemove == ToRemove(added)
          IN /\ links' = Unlink(added, toRemove)
             /\ key' = [key EXCEPT ![new] = k, ![toRemove] = NoPath]
             /\ age' = [age EXCEPT ![toRemove] = 0]
             /\ map' = [map EXCEPT ![k] = new, ![key[toRemove]] = Null]
             /\ older' = Without(toRemove, Newest(new, Linked, older))
  /\ answer' = [key |-> k, age |-> 0]
  /\ UNCHANGED listCount

(* The map does not know the key, and getCachedPath does not look further   *)
(* or the provider finds no path.                                           *)
Miss(k) ==
  /\ map[k] = Null
  /\ answer' = NoPath
  /\ UNCHANGED <<links, key, age, map, listCount, older>>

Tick ==
  /\ age' = [n \in Items |-> IF key[n] # NoPath /\ age[n] <= Ttl THEN age[n] + 1 ELSE age[n]]
  /\ UNCHANGED <<links, key, map, listCount, answer, older>>

(* The heap is lost: the AI is constructed again, with an empty cache.      *)
GlobalReset ==
  /\ links' = [next |-> [NoLink EXCEPT ![Tail] = Head], prev |-> [NoLink EXCEPT ![Head] = Tail]]
  /\ key' = [n \in Items |-> NoPath]
  /\ age' = [n \in Items |-> 0]
  /\ map' = [k \in Keys |-> Null]
  /\ listCount' = 0
  /\ answer' = NoPath
  /\ older' = {}

Next ==
  \/ \E k \in Keys : Hit(k) \/ Expire(k) \/ Recompute(k) \/ Insert(k) \/ InsertAndEvict(k) \/ Miss(k)
  \/ Tick
  \/ GlobalReset

Spec == Init /\ [][Next]_vars

-----------------------------------------------------------------------------
(* The map and the list hold the same items, each under its own key, and    *)
(* listCount counts them: no item is lost in one and left in the other.     *)
MapMatchesList ==
  /\ listCount = Cardinality(Cached)
  /\ \A k \in Cached : map[k] \in Linked /\ key[map[k]] = k
  /\ \A n \in Linked : key[n] \in Keys /\ map[key[n]] = n

(* The fields next and prev mirror each other, from the head to the tail.   *)
PointersMirror ==
  /\ links.next[Head] = Null /\ links.prev[Tail] = Null
  /\ \A n \in Nodes : links.prev[n] # Null => links.next[links.prev[n]] = n
  /\ \A n \in Nodes : links.next[n] # Null => links.prev[links.next[n]] = n

(* The cache is an LRU cache with expiry: the hash map, the pointers and    *)
(* the counter implement LruCache.                                          *)
Lru == INSTANCE LruCache WITH
  cached <- Cached,
  age <- [k \in Keys |-> IF map[k] = Null THEN 0 ELSE age[map[k]]],
  older <- {p \in Cached \X Cached : <<map[p[1]], map[p[2]]>> \in older}

ImplementsLru == Lru!Spec
=============================================================================

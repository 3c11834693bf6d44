------------------------------ MODULE LruCache ------------------------------
(***************************************************************************)
(* What the path cache promises to the creeps that ask it for paths, with  *)
(* no list, no hash map and no counter: a bounded set of keys, each with   *)
(* the age of its path, and the order in which they were last used.  A     *)
(* path that is too old is never handed out, and a key only leaves a cache *)
(* that has room for it when its path is too old.                          *)
(***************************************************************************)
EXTENDS Naturals, FiniteSets

CONSTANTS
  Keys,      \* pairs of an origin and a destination
  MaxSize,   \* keys the cache may hold
  Ttl,       \* a path older than this is not used
  NoPath     \* the answer when no path is known or found

VARIABLES
  cached,    \* keys the cache holds
  age,       \* ticks since the path of a cached key was computed
  older,     \* <<a, b>> when a was used longer ago than b
  answer     \* what the last lookup answered

vars == <<cached, age, older, answer>>

Path(k, a) == [key |-> k, age |-> a]

Init ==
  /\ cached = {}
  /\ age = [k \in Keys |-> 0]
  /\ older = {}
  /\ answer = NoPath

(* The recency order without k.                                             *)
Without(k, order) == {p \in order : p[1] # k /\ p[2] # k}

(* The recency order once k is used, among the keys that stay cached.       *)
Touch(k, others, order) == Without(k, order) \cup {<<o, k>> : o \in others \ {k}}

Oldest(k) == k \in cached /\ \A o \in cached \ {k} : <<k, o>> \in older

Serve(k) ==
  /\ k \in cached
  /\ age[k] <= Ttl
  /\ older' = Touch(k, cached, older)
  /\ answer' = Path(k, age[k])
  /\ UNCHANGED <<cached, age>>

Forget(k) ==
  /\ k \in cached
  /\ age[k] > Ttl
  /\ cached' = cached \ {k}
  /\ older' = Without(k, older)
  /\ age' = [age EXCEPT ![k] = 0]
  /\ answer' = NoPath

Refresh(k) ==
  /\ k \in cached
  /\ age[k] > Ttl
  /\ older' = Touch(k, cached, older)
  /\ age' = [age EXCEPT ![k] = 0]
  /\ answer' = Path(k, 0)
  /\ UNCHANGED cached

Learn(k) ==
  /\ k \notin cached
  /\ Cardinality(cached) < MaxSize
  /\ cached' = cached \cup {k}
  /\ older' = Touch(k, cached, older)
  /\ answer' = Path(k, 0)
  /\ UNCHANGED age

Replace(k, old) ==
  /\ k \notin cached
  /\ Cardinality(cached) = MaxSize
  /\ Oldest(old)
  /\ cached' = (cached \ {old}) \cup {k}
  /\ older' = Touch(k, cached \ {old}, Without(old, older))
  /\ age' = [age EXCEPT ![old] = 0]
  /\ answer' = Path(k, 0)

Fail(k) ==
  /\ k \notin cached
  /\ answer' = NoPath
  /\ UNCHANGED <<cached, age, older>>

Tick ==
  /\ age' \in [Keys -> Nat]
  /\ \A k \in Keys : age'[k] >= age[k]
  /\ UNCHANGED <<cached, older, answer>>

Clear ==
  /\ cached' = {}
  /\ age' = [k \in Keys |-> 0]
  /\ older' = {}
  /\ answer' = NoPath

Next ==
  \/ \E k \in Keys : Serve(k) \/ Forget(k) \/ Refresh(k) \/ Learn(k) \/ Fail(k)
  \/ \E k, old \in Keys : Replace(k, old)
  \/ Tick
  \/ Clear

Spec == Init /\ [][Next]_vars

=============================================================================

------------------------------- MODULE Topics -------------------------------
(***************************************************************************)
(* The priority queues of src/lib/topics.ts.  A topic is an array of       *)
(* requests, the most urgent one last.  A request is a record with a       *)
(* priority and the ticks it has left (ttl - Game.time); it is stale when  *)
(* fewer than zero are left.  A topic that was never created answers every *)
(* operation as an empty one does.                                         *)
(***************************************************************************)
EXTENDS Integers, Sequences, SequencesExt, FiniteSets

Stale(r) == r.left < 0

(* The elements of q at some positions, in the order in which before[i] are *)
(* the positions that come before i.                                        *)
Arrange(q, before) ==
  [k \in 1..Cardinality(DOMAIN before) |->
     q[CHOOSE i \in DOMAIN before : Cardinality(before[i]) = k - 1]]

(* topic.filter: what of q is wanted, in the order it is in                  *)
Keep(q, wanted) ==
  LET kept == {i \in DOMAIN q : q[i] \in wanted}
  IN  Arrange(q, [i \in kept |-> {j \in kept : j < i}])

(* _.sortBy(topic, 'priority') is stable: it leaves requests of the same     *)
(* priority in the order they are in.                                        *)
SortByPriority(q) ==
  Arrange(q, [i \in DOMAIN q |->
    {j \in DOMAIN q : \/ q[j].priority < q[i].priority
                      \/ q[j].priority = q[i].priority /\ j < i}])

WrongAddRequests(q, rs) == q \o rs

(* addRequest, addRequestV2, once for each of rs: push and sort the whole    *)
(* array again.  As the sort is stable, sorting once in the end is the same. *)
AddRequests(q, rs) == IF rs = << >> THEN q ELSE SortByPriority(q \o rs)

WrongRemoveStale(q) == Keep(q, {r \in ToSet(q) : r.left >= -1})
HastyRemoveStale(q) == Keep(q, {r \in ToSet(q) : r.left > 0})

(* removeStale keeps the requests with ttl >= Game.time. *)
RemoveStale(q) == Keep(q, {r \in ToSet(q) : ~Stale(r)})

(* _.find without a condition: a sequence of the first request, if any *)
First(q) == IF q = << >> THEN << >> ELSE <<Head(q)>>

(* peekNextRequest: a sequence of the last request, if there is one *)
Peek(q) == IF q = << >> THEN << >> ELSE <<Last(q)>>

(* getNextRequest pops from the end until it finds a request that is not     *)
(* stale: the request found, if any, and the array that is left.             *)
TakeNext(q) ==
  LET fresh == {i \in DOMAIN q : ~Stale(q[i])}
  IN  IF fresh = {} THEN [next |-> << >>, rest |-> << >>]
      ELSE [next |-> <<q[Max(fresh)]>>, rest |-> SubSeq(q, 1, Max(fresh) - 1)]

WrongTakeChoice(q, r) == q

(* getMessageOfMyChoice, after its chooser returned r: _.remove takes out    *)
(* every message that equals r field by field.                               *)
TakeChoice(q, r) == Keep(q, ToSet(q) \ {r})
=============================================================================

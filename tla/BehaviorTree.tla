---------------------------- MODULE BehaviorTree ----------------------------
(* The nodes of src/creeps/behavior/behaviortree.ts.  A tree is ticked once  *)
(* per run of its creep; a node that has to go on in the next tick is        *)
(* running, and the sequences and selectors above it save the index of the   *)
(* running child in the creep's memory, under their id.                      *)
(*                                                                           *)
(* A node is its tick: a function from the states it may be ticked in to the *)
(* sets of its outcomes, states with a result.  A state is a record; its     *)
(* field saved holds the index saved under an id, from 0, which is as good   *)
(* as none.                                                                  *)
EXTENDS Naturals

Running == "running"
Success == "success"
Failure == "failure"

(* The tick ended with an exception: no node above gets a result.            *)
Thrown == "thrown"

(* A child is done and the next one of the composite has its turn.           *)
Passed == "passed"

(* What ends in one way only *)
Ends(s, r) == {[state |-> s, result |-> r]}

(* setState, and clearState for index 0 *)
Saving(id, i, s) == [s EXCEPT !.saved[id] = i]

-----------------------------------------------------------------------------
(* A composite stops at the first child with the result stop.  Its children  *)
(* take part one by one, each in what the ones before it may have left: an   *)
(* outcome of the composite, or that it passed on, to child index next.  As  *)
(* long as it did, saved holds the index of the child that is due: at first  *)
(* what getState reads.                                                      *)
Composite(id, stop, s) ==
  {[state |-> s, result |-> Passed, id |-> id, stop |-> stop, next |-> 0]}

SequenceNode(id, s) == Composite(id, Failure, s)
SelectorNode(id, s) == Composite(id, Success, s)

(* What an outcome of child n.next means for composite n *)
AfterChild(n, o) ==
  IF o.result \in {n.stop, Thrown} THEN o
  ELSE IF o.result = Running THEN [o EXCEPT !.state = Saving(n.id, n.next, @)]
  ELSE [n EXCEPT !.next = @ + 1, !.state = Saving(n.id, n.next + 1, o.state)]

(* One more child, which is ticked if it is due; getState clears the index.  *)
TickChild(n, child) ==
  IF n.result # Passed THEN {n}
  ELSE IF n.state.saved[n.id] # n.next THEN {[n EXCEPT !.next = @ + 1]}
  ELSE {AfterChild(n, o) : o \in child[Saving(n.id, 0, n.state)]}

ns & child == UNION {TickChild(n, child) : n \in ns}

(* What n returns when no child stopped it *)
Exhausted(n) == IF n.stop = Failure THEN Success ELSE Failure

(* The outcomes of a composite that has all its children *)
Tick(ns) ==
  {IF n.result = Passed
   THEN [state |-> Saving(n.id, 0, n.state), result |-> Exhausted(n)]
   ELSE n : n \in ns}

-----------------------------------------------------------------------------
(* A repeater returns nothing but until and running. *)
Repeat(node, until) ==
  [s \in DOMAIN node |->
     {IF o.result \in {until, Thrown} THEN o ELSE [o EXCEPT !.result = Running]
        : o \in node[s]}]

RepeatUntilFailure(node) == Repeat(node, Failure)
RepeatUntilSuccess(node) == Repeat(node, Success)
=============================================================================

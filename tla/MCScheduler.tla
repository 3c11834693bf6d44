----------------------------- MODULE MCScheduler -----------------------------
(* Instances of the scheduler for TLC. *)
EXTENDS Scheduler, TLC

CONSTANTS p1, p2, p3, p4, idA, idB

(* p2 and p3 are two objects with one id: a manager's second attempt.  They  *)
(* are less urgent than p1, and not started in a low bucket.  p4 is a party  *)
(* registered a second time with the id of p1, without asking.               *)
FourProcs == {p1, p2, p3, p4}
FourIdOf == p1 :> idA @@ p2 :> idB @@ p3 :> idB @@ p4 :> idA
FourPriority == p1 :> 2 @@ p2 :> 3 @@ p3 :> 3 @@ p4 :> 2

(* The instance of os/scheduler.test.ts: two processes of one priority. *)
TwoProcs == {p1, p2}
TwoIdOf == p1 :> idA @@ p2 :> idB
TwoPriority == p1 :> 0 @@ p2 :> 0

(* "should execute skipped processes next tick" (os/scheduler.test.ts): of   *)
(* two processes of one priority, one that does not fail is never passed     *)
(* over in two ticks running.                                                *)
SkippedRunsNextTick == \A p \in Procs \ Faulty : Skips(p) <= 1
=============================================================================

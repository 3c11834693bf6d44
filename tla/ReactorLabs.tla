----------------------------- MODULE ReactorLabs -----------------------------
(* The reactors of a base (src/base/reactor.ts).  A task is taken over from  *)
(* TASK_REACTION, where there always is one, without its inputs, its amount  *)
(* and its output.  So a reactor is ready when both input labs are empty, no *)
(* reaction succeeds, and what is left to do is to unload the first lab.  A  *)
(* task that is cleared is written back by run: from its last phase it never *)
(* gets on.                                                                  *)
EXTENDS Labs

VARIABLE task   \* the memory of the reactor that has a lab as its first one

(* A task has a phase ("load", "react" or "unload") and the number of times  *)
(* left to load.  25 ticks allow up to three runs, 20 ticks or more apart:   *)
(* the first may come late and take more than its share of them.             *)
Tries == 3
NewTasks == {[phase |-> "load", left |-> n] : n \in 1..Tries}

Reactor(p) == p \in processes /\ p.site \in Reactors

(* unloadLab: a dropoff that is missing has no id either.  Requests of an    *)
(* earlier run may still be open beside the new ones.                        *)
UnloadLab(ss) ==
  topic' = IF reserve.space
           THEN {[r EXCEPT !.ttl = 0] : r \in topic}
                  \cup {NewRequest("react", s, content[s].mineral, content[s].amount) : s \in ss}
           ELSE topic

(* prepareInput, for both *)
Foreign(site) == {s \in {site[2], site[3]} : content[s].mineral # None}

(* runReaction with empty labs is not OK. *)
WrongAfterReaction == "react"
AfterReaction == "unload"

(* processTask.  A clear of the task, when it has no try left or is done, is *)
(* undone when run stores the task it was given back.                        *)
ProcessTask(site, t) ==
  LET Becomes(next) == task' = [task EXCEPT ![site[1]] = next]
      tried == [t EXCEPT !.left = @ - 1]
  IN  \/ /\ t.phase = "load" /\ t.left = 0
         /\ UNCHANGED <<task, topic>>
      \/ /\ t.phase = "load" /\ t.left > 0 /\ Foreign(site) # {}
         /\ Becomes(tried) /\ UnloadLab(Foreign(site))
      \/ /\ t.phase = "load" /\ t.left > 0 /\ Foreign(site) = {}
         /\ Becomes([tried EXCEPT !.phase = "react"]) /\ UNCHANGED topic
      \/ /\ t.phase = "react"
         /\ Becomes([t EXCEPT !.phase = AfterReaction]) /\ UNCHANGED topic
      \/ /\ t.phase = "unload" /\ content[site[1]] = Nothing
         /\ UNCHANGED <<task, topic>>
      \/ /\ t.phase = "unload" /\ content[site[1]] # Nothing
         /\ UnloadLab({site[1]}) /\ UNCHANGED task

ReactorRuns(p) ==
  /\ Reactor(p) /\ Intact(p)
  /\ \E t \in (IF task[p.site[1]] = None THEN NewTasks ELSE {task[p.site[1]]}) :
       ProcessTask(p.site, t)
  /\ UNCHANGED <<home, lab, stores, reserve, hauls, assigned, processes, calm>>
=============================================================================

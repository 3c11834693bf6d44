------------------------------- MODULE EventLog -------------------------------
(***************************************************************************)
(* What a stream of the event broker promises (src/lib/event_broker.ts and *)
(* its users): an append-only log and readers.  A reader attached to the   *)
(* log is handed, at every read, exactly the events published since it     *)
(* attached or last read, in the order of publication.  Nothing is said of *)
(* storage, offsets or compaction.                                         *)
(***************************************************************************)
EXTENDS Integers

CONSTANT Consumers

VARIABLES
  published,  \* number of events published; event n is the n-th one
  attached,   \* readers with a position in the log
  cursor,     \* the number of events a reader has been handed or has missed
  batch       \* the events of a reader's latest read

vars == <<published, attached, cursor, batch>>

(* The events after the a-th up to the b-th, in order. *)
Between(a, b) == [i \in 1..(b - a) |-> a + i]

Init ==
  /\ published = 0
  /\ attached = {}
  /\ cursor = [c \in Consumers |-> 0]
  /\ batch = [c \in Consumers |-> << >>]

Publish ==
  /\ published' = published + 1
  /\ UNCHANGED <<attached, cursor, batch>>

(* A reader starts at the end of the log. *)
Attach(c) ==
  /\ c \notin attached
  /\ attached' = attached \cup {c}
  /\ cursor' = [cursor EXCEPT ![c] = published]
  /\ UNCHANGED <<published, batch>>

Read(c) ==
  /\ c \in attached
  /\ batch' = [batch EXCEPT ![c] = Between(cursor[c], published)]
  /\ cursor' = [cursor EXCEPT ![c] = published]
  /\ UNCHANGED <<published, attached>>

Leave(c) ==
  /\ c \in attached
  /\ attached' = attached \ {c}
  /\ cursor' = [cursor EXCEPT ![c] = 0]
  /\ batch' = [batch EXCEPT ![c] = << >>]
  /\ UNCHANGED published

(* The log and its readers live in the heap. *)
Reset ==
  /\ published' = 0
  /\ attached' = {}
  /\ cursor' = [c \in Consumers |-> 0]
  /\ batch' = [c \in Consumers |-> << >>]

Next ==
  \/ Publish
  \/ \E c \in Consumers : Attach(c) \/ Read(c) \/ Leave(c)
  \/ Reset

Spec == Init /\ [][Next]_vars
=============================================================================

----------------------------- MODULE EventBroker -----------------------------
(***************************************************************************)
(* One stream of the event broker, src/lib/event_broker.ts, with the       *)
(* processes that publish to it and consume it.  The streams of a broker   *)
(* share nothing, and a stream that was never asked for is an empty one.   *)
(*                                                                         *)
(* A Consumer object is a position in the stream's array of events.  Every *)
(* 25 ticks src/os/kernel/ai.ts drops the events that all registered       *)
(* consumers have read and shifts their positions.  No process ever calls  *)
(* removeConsumer: when the owner of a consumer terminates, its position   *)
(* stays registered until another consumer takes its name.                 *)
(***************************************************************************)
EXTENDS Integers, Sequences

CONSTANTS
  Consumers,  \* Consumer objects
  Names,      \* consumer ids
  NameOf,     \* the id of each object
  None,       \* "no consumer"
  MaxEvents,  \* bound: events published between two resets
  MaxResets   \* bound: global resets

ASSUME BrokerAssumption ==
  /\ NameOf \in [Consumers -> Names]
  /\ None \notin Consumers
  /\ MaxEvents \in Nat
  /\ MaxResets \in Nat

VARIABLES
  events,     \* Stream.events: the n-th event published is the number n
  consumers,  \* Stream.consumers: id -> object
  offset,     \* Consumer.offset
  detached,   \* objects whose stream is null
  live,       \* objects whose owning process still runs
  published,  \* history: events published
  dropped,    \* history: events removed from the front of the array
  batch,      \* history: what each live object's latest getEvents returned
  resets      \* global resets so far

vars == <<events, consumers, offset, detached, live, published, dropped, batch, resets>>

Registered == {c \in Consumers : consumers[NameOf[c]] = c}

-----------------------------------------------------------------------------
(* new EventBroker(), new Stream() *)
Init ==
  /\ events = << >>
  /\ consumers = [n \in Names |-> None]
  /\ offset = [c \in Consumers |-> 0]
  /\ detached = {}
  /\ live = {}
  /\ published = 0
  /\ dropped = 0
  /\ batch = [c \in Consumers |-> << >>]
  /\ resets = 0

(* Stream.publish, by any process *)
Publish ==
  /\ published < MaxEvents
  /\ events' = Append(events, published + 1)
  /\ published' = published + 1
  /\ UNCHANGED <<consumers, offset, detached, live, dropped, batch, resets>>

WrongStartingOffset == 0

(* new Consumer(id, stream) starts at the end of the stream. *)
StartingOffset == Len(events)

(* Stream.addConsumer by a process's first run: a new Consumer at the end of *)
(* the stream takes its name, whoever had it.  The scheduler never runs two  *)
(* processes of one id, so no live consumer has the name.                    *)
AddConsumer(c) ==
  /\ \A d \in live : NameOf[d] # NameOf[c]
  /\ consumers' = [consumers EXCEPT ![NameOf[c]] = c]
  /\ offset' = [offset EXCEPT ![c] = StartingOffset]
  /\ detached' = detached \ {c}
  /\ live' = live \cup {c}
  /\ UNCHANGED <<events, published, dropped, batch, resets>>

WrongAdvance(c) == UNCHANGED offset

Advance(c) == offset' = [offset EXCEPT ![c] = Len(events)]

(* Consumer.getEvents by the owning process *)
GetEvents(c) ==
  /\ c \in live /\ c \notin detached
  /\ batch' = [batch EXCEPT ![c] = SubSeq(events, offset[c] + 1, Len(events))]
  /\ Advance(c)
  /\ UNCHANGED <<events, consumers, detached, live, published, dropped, resets>>

(* The owning process terminates, the consumer stays registered. *)
OwnerEnds(c) ==
  /\ c \in live
  /\ live' = live \ {c}
  /\ batch' = [batch EXCEPT ![c] = << >>]
  /\ UNCHANGED <<events, consumers, offset, detached, published, dropped, resets>>

(* Stream.removeConsumer: the entry of the name goes, the object is detached. *)
RemoveConsumer(c) ==
  /\ c \in live
  /\ consumers' = [consumers EXCEPT ![NameOf[c]] = None]
  /\ detached' = detached \cup {c}
  /\ live' = live \ {c}
  /\ batch' = [batch EXCEPT ![c] = << >>]
  /\ UNCHANGED <<events, offset, published, dropped, resets>>

(* The consumer whose offset is the minimum over the registered ones. *)
Slowest(c) == c \in Registered /\ \A d \in Registered : offset[c] <= offset[d]

WrongShift(m) == UNCHANGED offset

(* Consumer.shiftOffet for every registered consumer *)
Shift(m) ==
  offset' = [c \in Consumers |-> IF c \in Registered THEN offset[c] - m ELSE offset[c]]

WrongWorthwhile(m) == m > 1

Worthwhile(m) == m > 0

(* Stream.removeConsumed, called between the ticks of the scheduler *)
RemoveConsumed ==
  /\ \E c \in Consumers :
       /\ Slowest(c) /\ Worthwhile(offset[c])
       /\ events' = SubSeq(events, offset[c] + 1, Len(events))
       /\ dropped' = dropped + offset[c]
       /\ Shift(offset[c])
  /\ UNCHANGED <<consumers, detached, live, published, batch, resets>>

(* A global reset: the broker lives in the heap only. *)
GlobalReset ==
  /\ resets < MaxResets
  /\ resets' = resets + 1
  /\ events' = << >>
  /\ consumers' = [n \in Names |-> None]
  /\ offset' = [c \in Consumers |-> 0]
  /\ detached' = {}
  /\ live' = {}
  /\ published' = 0
  /\ dropped' = 0
  /\ batch' = [c \in Consumers |-> << >>]

Next ==
  \/ Publish
  \/ \E c \in Consumers :
       AddConsumer(c) \/ GetEvents(c) \/ OwnerEnds(c) \/ RemoveConsumer(c)
  \/ RemoveConsumed
  \/ GlobalReset

Spec == Init /\ [][Next]_vars

(* The scheduler runs every live owner again and again (no process is        *)
(* starved), each run reads, and the broker compacts every 25 ticks.         *)
FairSpec ==
  /\ Spec
  /\ WF_vars(RemoveConsumed)
  /\ \A c \in Consumers : WF_vars(GetEvents(c))

-----------------------------------------------------------------------------
TypeOK ==
  /\ events \in Seq(Nat)
  /\ consumers \in [Names -> Consumers \cup {None}]
  /\ offset \in [Consumers -> Nat]
  /\ detached \subseteq Consumers
  /\ live \subseteq Consumers
  /\ published \in Nat
  /\ dropped \in Nat
  /\ batch \in [Consumers -> Seq(Nat)]
  /\ resets \in Nat

(* Every consumer that will still be read, and every one that compaction     *)
(* counts, points into the array or just behind it, and a live consumer is   *)
(* never left out of a compaction's shift.                                   *)
OffsetsValid ==
  /\ live \subseteq Registered
  /\ \A c \in Registered : offset[c] \in 0..Len(events)

(* Each consumer sees every event published after it attached, once and in   *)
(* order, whatever is compacted, abandoned, replaced or reset meanwhile.     *)
Log == INSTANCE EventLog WITH
  attached <- live,
  cursor <- [c \in Consumers |-> IF c \in live THEN dropped + offset[c] ELSE 0]

RefinesEventLog == Log!Spec

(* Publication is bounded here, so both say what holds once it pauses.       *)
(* Again and again every live consumer has been handed everything.           *)
EverythingRead ==
  \A c \in Consumers : []<>(c \in live => dropped + offset[c] = published)

(* Again and again the array is empty, unless nobody is registered or the    *)
(* position of a terminated process pins it.                                 *)
Reclaimed ==
  []<>(events = << >> \/ Registered = {} \/ Registered \ live # {})
=============================================================================

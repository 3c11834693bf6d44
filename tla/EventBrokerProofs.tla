-------------------------- MODULE EventBrokerProofs --------------------------
(***************************************************************************)
(* Proofs about a stream of the event broker: type correctness, validity   *)
(* of the offsets, and that the stream with its compaction implements the  *)
(* log of EventLog, for any consumers, names and bounds.                   *)
(***************************************************************************)
EXTENDS EventBroker, SequenceTheorems, TLAPS

(* The array holds exactly the events that were published and not dropped.   *)
Content ==
  /\ dropped <= published
  /\ events = [i \in 1..(published - dropped) |-> dropped + i]

Inv == TypeOK /\ Content /\ OffsetsValid

LEMMA ContentLen ==
  ASSUME TypeOK, Content
  PROVE  Len(events) = published - dropped
<1>1. published - dropped \in Nat
  BY DEF TypeOK, Content
<1>2. DOMAIN events = 1..(published - dropped)
  BY DEF Content
<1>3. Len(events) \in Nat /\ DOMAIN events = 1..Len(events)
  BY LenProperties DEF TypeOK
<1> QED BY <1>1, <1>2, <1>3

(* The tail of the array from an offset on is that part of the log.          *)
LEMMA TailOfContent ==
  ASSUME TypeOK, Content, NEW o \in 0..Len(events)
  PROVE  /\ SubSeq(events, o + 1, Len(events))
              = [i \in 1..(published - (dropped + o)) |-> (dropped + o) + i]
         /\ SubSeq(events, o + 1, Len(events)) \in Seq(Nat)
         /\ Len(SubSeq(events, o + 1, Len(events))) = Len(events) - o
<1> DEFINE tail == SubSeq(events, o + 1, Len(events))
<1>1. Len(events) = published - dropped /\ Len(events) \in Nat
  BY ContentLen, LenProperties DEF TypeOK
<1>2. \A i \in (o + 1)..Len(events) : events[i] \in Nat
  BY <1>1, ElementOfSeq DEF TypeOK
<1>3. tail \in Seq(Nat) /\ Len(tail) = Len(events) - o
      /\ \A i \in 1..(Len(events) - o) : tail[i] = events[o + i]
  BY <1>1, <1>2, SubSeqProperties, Z3 DEF TypeOK
<1>4. \A i \in 1..(Len(events) - o) : tail[i] = (dropped + o) + i
  BY <1>1, <1>3 DEF Content, TypeOK
<1>5. tail = [i \in 1..(Len(events) - o) |-> (dropped + o) + i]
  BY <1>3, <1>4, LenProperties
<1>6. Len(events) - o = published - (dropped + o)
  BY <1>1 DEF TypeOK
<1> QED BY <1>3, <1>5, <1>6

LEMMA InitInv == Init => Inv
<1> SUFFICES ASSUME Init PROVE Inv
  OBVIOUS
<1>1. << >> \in Seq(Nat) /\ Len(<< >>) = 0
  BY EmptySeq
<1>2. TypeOK
  BY <1>1, BrokerAssumption DEF Init, TypeOK
<1>3. Content
  BY DEF Init, Content
<1>4. OffsetsValid
  BY <1>1, BrokerAssumption DEF Init, OffsetsValid, Registered
<1> QED BY <1>2, <1>3, <1>4 DEF Inv

(* A step that leaves the array and its history alone keeps Content.         *)
LEMMA ContentUnchanged ==
  ASSUME Content, UNCHANGED <<events, published, dropped>>
  PROVE  Content'
BY DEF Content

LEMMA PublishInv ==
  ASSUME Inv, Publish
  PROVE  Inv'
<1> USE DEF Inv
<1>1. events' \in Seq(Nat) /\ Len(events') = Len(events) + 1
      /\ \A i \in 1..Len(events) : events'[i] = events[i]
  BY AppendProperties DEF Publish, TypeOK
<1>last. events'[Len(events) + 1] = published + 1
  BY AppendProperties DEF Publish, TypeOK
<1>2. TypeOK'
  BY <1>1 DEF Publish, TypeOK
<1>3. Len(events) = published - dropped /\ Len(events) \in Nat
  BY ContentLen, LenProperties DEF TypeOK
<1>4. Content'
  <2>1. \A i \in 1..(Len(events) + 1) : events'[i] = dropped + i
    <3>1. dropped \in Nat /\ published \in Nat
      BY DEF TypeOK
    <3>2. ASSUME NEW i \in 1..Len(events) PROVE events'[i] = dropped + i
      <4>1. events'[i] = events[i] /\ i \in 1..(published - dropped)
        BY <1>1, <1>3
      <4> QED BY <4>1 DEF Content
    <3>3. events'[Len(events) + 1] = dropped + (Len(events) + 1)
      <4>1. dropped + (Len(events) + 1) = published + 1
        BY ONLY <1>3, <3>1
      <4> QED BY ONLY <1>last, <4>1
    <3>4. \A i \in 1..(Len(events) + 1) : i \in 1..Len(events) \/ i = Len(events) + 1
      BY <1>3
    <3> QED BY <3>2, <3>3, <3>4
  <2>2. events' = [i \in 1..(Len(events) + 1) |-> dropped + i]
    BY <1>1, <2>1, LenProperties
  <2>3. Len(events) + 1 = published' - dropped' /\ dropped' <= published'
        /\ dropped' = dropped
    BY <1>3 DEF Publish, TypeOK, Content
  <2> QED BY <2>2, <2>3 DEF Content
<1>5. OffsetsValid'
  BY <1>1, <1>3 DEF Publish, OffsetsValid, Registered
<1> QED BY <1>2, <1>4, <1>5

LEMMA AddConsumerInv ==
  ASSUME Inv, NEW c \in Consumers, AddConsumer(c)
  PROVE  Inv'
<1> USE BrokerAssumption DEF Inv
<1>1. Len(events) \in Nat
  BY LenProperties DEF TypeOK
<1>2. TypeOK'
  BY <1>1 DEF AddConsumer, StartingOffset, TypeOK
<1>3. Content'
  BY ContentUnchanged DEF AddConsumer
<1>4. Registered' \subseteq Registered \cup {c} /\ c \in Registered'
  BY DEF AddConsumer, Registered, TypeOK
<1>5. \A d \in live : d \in Registered'
  BY DEF AddConsumer, OffsetsValid, Registered, TypeOK
<1>6. \A d \in Registered' : offset'[d] \in 0..Len(events')
  BY <1>1, <1>4 DEF AddConsumer, StartingOffset, OffsetsValid, TypeOK
<1>7. OffsetsValid'
  BY <1>4, <1>5, <1>6 DEF AddConsumer, OffsetsValid
<1> QED BY <1>2, <1>3, <1>7

LEMMA GetEventsInv ==
  ASSUME Inv, NEW c \in Consumers, GetEvents(c)
  PROVE  Inv'
<1> USE DEF Inv
<1>1. Len(events) \in Nat
  BY LenProperties DEF TypeOK
<1>2. c \in Registered /\ offset[c] \in 0..Len(events)
  BY DEF GetEvents, OffsetsValid
<1>3. SubSeq(events, offset[c] + 1, Len(events)) \in Seq(Nat)
  BY <1>2, TailOfContent
<1>4. TypeOK'
  BY <1>1, <1>3 DEF GetEvents, Advance, TypeOK
<1>5. Content'
  BY ContentUnchanged DEF GetEvents
<1>6. OffsetsValid'
  BY <1>1 DEF GetEvents, Advance, OffsetsValid, Registered, TypeOK
<1> QED BY <1>4, <1>5, <1>6

LEMMA LeaveInv ==
  ASSUME Inv, NEW c \in Consumers, OwnerEnds(c) \/ RemoveConsumer(c)
  PROVE  Inv'
<1> USE BrokerAssumption DEF Inv
<1>1. TypeOK'
  <2>1. << >> \in Seq(Nat)
    BY EmptySeq
  <2>2. batch' \in [Consumers -> Seq(Nat)]
    BY <2>1 DEF OwnerEnds, RemoveConsumer, TypeOK
  <2>3. CASE OwnerEnds(c)
    BY <2>2, <2>3 DEF OwnerEnds, TypeOK
  <2>4. CASE RemoveConsumer(c)
    BY <2>2, <2>4 DEF RemoveConsumer, TypeOK
  <2> QED BY <2>3, <2>4
<1>2. Content'
  BY ContentUnchanged DEF OwnerEnds, RemoveConsumer
<1>3. CASE OwnerEnds(c)
  BY <1>1, <1>2, <1>3 DEF OwnerEnds, OffsetsValid, Registered
<1>4. CASE RemoveConsumer(c)
  <2>1. Registered' \subseteq Registered
    BY <1>4 DEF RemoveConsumer, Registered, TypeOK
  <2>2. \A d \in live' : d \in Registered'
    BY <1>4 DEF RemoveConsumer, OffsetsValid, Registered, TypeOK
  <2> QED BY <1>1, <1>2, <1>4, <2>1, <2>2 DEF RemoveConsumer, OffsetsValid
<1> QED BY <1>3, <1>4

LEMMA RemoveConsumedInv ==
  ASSUME Inv, RemoveConsumed
  PROVE  Inv'
<1> USE DEF Inv
<1> PICK c \in Consumers :
       /\ Slowest(c) /\ Worthwhile(offset[c])
       /\ events' = SubSeq(events, offset[c] + 1, Len(events))
       /\ dropped' = dropped + offset[c]
       /\ Shift(offset[c])
  BY DEF RemoveConsumed
<1>1. c \in Registered /\ offset[c] \in 0..Len(events)
      /\ \A d \in Registered : offset[c] <= offset[d]
  BY DEF Slowest, OffsetsValid
<1>2. Len(events) = published - dropped /\ Len(events) \in Nat
  BY ContentLen, LenProperties DEF TypeOK
<1>3. /\ events' = [i \in 1..(published - (dropped + offset[c]))
                      |-> (dropped + offset[c]) + i]
      /\ events' \in Seq(Nat)
      /\ Len(events') = Len(events) - offset[c]
  BY <1>1, TailOfContent
<1>4. \A d \in Consumers : offset'[d] = IF d \in Registered THEN offset[d] - offset[c]
                                                          ELSE offset[d]
  BY DEF Shift
<1>5. TypeOK'
  <2>1. offset' \in [Consumers -> Nat]
    <3>1. \A d \in Consumers : offset[d] \in Nat
      BY DEF TypeOK
    <3>2. ASSUME NEW d \in Registered PROVE offset[d] - offset[c] \in Nat
      <4>1. offset[d] \in Nat /\ offset[c] \in Nat /\ offset[c] <= offset[d]
        BY <1>1, <3>1 DEF Registered
      <4> QED BY ONLY <4>1
    <3> QED BY <3>1, <3>2 DEF Shift
  <2>2. dropped' \in Nat
    BY <1>1 DEF TypeOK
  <2> QED BY <1>3, <2>1, <2>2 DEF RemoveConsumed, TypeOK
<1>6. Content'
  <2>1. dropped' <= published' /\ published' = published
    BY <1>1, <1>2 DEF RemoveConsumed, TypeOK
  <2> QED BY <1>3, <2>1 DEF Content
<1>7. OffsetsValid'
  <2>1. Registered' = Registered /\ live' = live
    BY DEF RemoveConsumed, Registered
  <2>2. \A d \in Registered : offset'[d] \in 0..Len(events')
    <3> SUFFICES ASSUME NEW d \in Registered PROVE offset'[d] \in 0..Len(events')
      OBVIOUS
    <3>1. offset[d] \in 0..Len(events) /\ offset[c] \in 0..Len(events)
          /\ offset[c] <= offset[d]
      BY <1>1 DEF OffsetsValid
    <3>2. offset'[d] = offset[d] - offset[c]
      BY <1>4 DEF Registered
    <3>3. Len(events') = Len(events) - offset[c] /\ Len(events) \in Nat
      BY <1>2, <1>3
    <3> QED BY ONLY <3>1, <3>2, <3>3
  <2> QED BY <2>1, <2>2 DEF OffsetsValid
<1> QED BY <1>5, <1>6, <1>7

LEMMA ResetInv ==
  ASSUME Inv, GlobalReset
  PROVE  Inv'
<1> USE BrokerAssumption DEF Inv
<1>1. << >> \in Seq(Nat) /\ Len(<< >>) = 0
  BY EmptySeq
<1>2. TypeOK'
  BY <1>1 DEF GlobalReset, TypeOK
<1>3. Content'
  BY DEF GlobalReset, Content
<1>4. OffsetsValid'
  BY <1>1 DEF GlobalReset, OffsetsValid, Registered
<1> QED BY <1>2, <1>3, <1>4

LEMMA NextInv == Inv /\ [Next]_vars => Inv'
<1> SUFFICES ASSUME Inv, [Next]_vars PROVE Inv'
  OBVIOUS
<1>1. CASE UNCHANGED vars
  BY <1>1, ContentUnchanged DEF vars, Inv, TypeOK, OffsetsValid, Registered
<1> QED
  BY <1>1, PublishInv, AddConsumerInv, GetEventsInv, LeaveInv, RemoveConsumedInv,
     ResetInv DEF Next

LEMMA InvHolds == Spec => []Inv
BY InitInv, NextInv, PTL DEF Spec

(* Every variable keeps its type, for any number of consumers and events.    *)
THEOREM TypeCorrect == Spec => []TypeOK
<1>1. Inv => TypeOK
  BY DEF Inv
<1> QED BY <1>1, InvHolds, PTL

(* No compaction ever leaves a consumer that counts pointing outside the     *)
(* array, nor shifts the array under a live consumer (removeConsumed).       *)
THEOREM OffsetsAlwaysValid == Spec => []OffsetsValid
<1>1. Inv => OffsetsValid
  BY DEF Inv
<1> QED BY <1>1, InvHolds, PTL

-----------------------------------------------------------------------------
(* The initial state is an empty log without readers.                        *)
LEMMA InitRefines == Init => Log!Init
BY DEF Init, Log!Init

(* Every step is a step of the log or leaves the log as it is; compaction is *)
(* invisible.                                                                *)
LEMMA StepRefines == Inv /\ [Next]_vars => [Log!Next]_Log!vars
<1> DEFINE cursor == [c \in Consumers |-> IF c \in live THEN dropped + offset[c] ELSE 0]
<1> SUFFICES ASSUME Inv, [Next]_vars PROVE [Log!Next]_Log!vars
  OBVIOUS
<1> USE DEF Inv
<1>len. Len(events) = published - dropped /\ Len(events) \in Nat
  BY ContentLen, LenProperties DEF TypeOK
<1>1. CASE Publish
  <2>1. Log!Publish
    BY <1>1 DEF Publish, Log!Publish
  <2> QED BY <2>1 DEF Log!Next
<1>2. ASSUME NEW c \in Consumers, AddConsumer(c) PROVE [Log!Next]_Log!vars
  <2>1. c \notin live /\ live' = live \cup {c} /\ UNCHANGED <<published, batch, dropped>>
    BY <1>2 DEF AddConsumer
  <2>2. \A d \in Consumers : cursor'[d] = IF d = c THEN published ELSE cursor[d]
    BY <1>2, <1>len DEF AddConsumer, StartingOffset, TypeOK
  <2>3. cursor' = [cursor EXCEPT ![c] = published]
    BY <2>2
  <2>4. Log!Attach(c)
    BY <2>1, <2>3 DEF Log!Attach
  <2> QED BY <2>4 DEF Log!Next
<1>3. ASSUME NEW c \in Consumers, GetEvents(c) PROVE [Log!Next]_Log!vars
  <2>1. c \in live /\ UNCHANGED <<published, live, dropped>>
    BY <1>3 DEF GetEvents
  <2>2. offset[c] \in 0..Len(events)
    BY <2>1 DEF OffsetsValid
  <2>3. batch' = [batch EXCEPT ![c] = Log!Between(cursor[c], published)]
    BY <1>3, <2>1, <2>2, TailOfContent DEF GetEvents, Log!Between
  <2>4. \A d \in Consumers : cursor'[d] = IF d = c THEN published ELSE cursor[d]
    BY <1>3, <1>len DEF GetEvents, Advance, TypeOK
  <2>5. cursor' = [cursor EXCEPT ![c] = published]
    BY <2>4
  <2>6. Log!Read(c)
    BY <2>1, <2>3, <2>5 DEF Log!Read
  <2> QED BY <2>6 DEF Log!Next
<1>4. ASSUME NEW c \in Consumers, OwnerEnds(c) \/ RemoveConsumer(c)
      PROVE  [Log!Next]_Log!vars
  <2>1. c \in live /\ live' = live \ {c} /\ UNCHANGED <<published, dropped, offset>>
        /\ batch' = [batch EXCEPT ![c] = << >>]
    BY <1>4 DEF OwnerEnds, RemoveConsumer
  <2>2. cursor' = [cursor EXCEPT ![c] = 0]
    BY <2>1
  <2>3. Log!Leave(c)
    BY <2>1, <2>2 DEF Log!Leave
  <2> QED BY <2>3 DEF Log!Next
<1>5. CASE RemoveConsumed
  <2>1. UNCHANGED <<published, live, batch>>
    BY <1>5 DEF RemoveConsumed
  <2>2. PICK c \in Consumers : Slowest(c) /\ dropped' = dropped + offset[c] /\ Shift(offset[c])
    BY <1>5 DEF RemoveConsumed
  <2>3. \A d \in live : d \in Registered /\ d \in Consumers
    BY DEF OffsetsValid, TypeOK
  <2>4. \A d \in live : offset'[d] = offset[d] - offset[c]
    BY <2>2, <2>3 DEF Shift
  <2>5. \A d \in live : dropped' + offset'[d] = dropped + offset[d]
    BY <2>2, <2>3, <2>4 DEF TypeOK
  <2>6. cursor' = cursor
    BY <2>1, <2>5
  <2> QED BY <2>1, <2>6 DEF Log!vars
<1>6. CASE GlobalReset
  <2>1. Log!Reset
    BY <1>6 DEF GlobalReset, Log!Reset
  <2> QED BY <2>1 DEF Log!Next
<1>7. CASE UNCHANGED vars
  BY <1>7 DEF vars, Log!vars
<1> QED
  BY <1>1, <1>2, <1>3, <1>4, <1>5, <1>6, <1>7 DEF Next

(* The stream with offsets, compaction, replaced and abandoned consumers     *)
(* implements the log: every live consumer gets each event once, in order.   *)
THEOREM ImplementsEventLog == Spec => RefinesEventLog
<1> QED BY InitRefines, StepRefines, InvHolds, PTL DEF Spec, RefinesEventLog, Log!Spec
=============================================================================

------------------------------- MODULE Links -------------------------------
(* The link manager of a base (src/base/links.ts): energy goes from links at *)
(* sources to links at the controller and to the one at the storage, which   *)
(* distributors fill and empty on its requests.                              *)
EXTENDS BaseRoom, SequencesExt

VARIABLE
  haul       \* the sign of haulTTL: "held" is above 0, "due" is 0, "over" below

(* 600 energy *)
ReadyAmount == 3

CanTransfer(l) == content[l] >= ReadyAmount
CanReceive(l) == Free(l) >= ReadyAmount

NotEmpty(l) == content[l] > 0

(* The stack of links with energy, when those of cold have a cooldown: the   *)
(* storage link is on top, unless somebody is on the way to it.              *)
HasEnergy(cold) ==
  SelectSeq(SourceLinks, LAMBDA l : CanTransfer(l) /\ l \notin cold)
    \o IF NotEmpty(StorageLink) /\ haul # "held" THEN <<StorageLink>> ELSE << >>

(* A transfer *)
Moves == [from : LinkSet, to : LinkSet]

(* The state of the run: the stack and the transfers so far.                 *)
Transfer(run, sink) ==
  IF ~CanReceive(sink) \/ run.stack = << >> THEN run
  ELSE [stack |-> Front(run.stack),
        moves |-> run.moves \cup {[from |-> Last(run.stack), to |-> sink]}]

(* The storage link does not send to itself. *)
SkipSelf(run) ==
  IF CanReceive(StorageLink) /\ run.stack # << >> /\ Last(run.stack) = StorageLink
  THEN [run EXCEPT !.stack = Front(@)] ELSE run

LinkRun(cold) ==
  LET fed == FoldLeft(Transfer, [stack |-> HasEnergy(cold), moves |-> {}], SinkLinks)
  IN  Transfer(SkipSelf(fed), StorageLink)

(* link.transferEnergy by the amounts before the run; a cold link fails.     *)
Amount(m) == Min({content[m.from], Free(m.to)})

Units(moves) == Cardinality(UNION {{m} \X (1..Amount(m)) : m \in moves})

AfterMoves(moves) ==
  [o \in Objects |-> content[o] + Units({m \in moves : m.to = o})
                                - Units({m \in moves : m.from = o})]

(* emptyLink and fillLink *)
AskHaul(kind, amount) ==
  /\ topic' = topic \cup {NewRequest(kind, StorageLink, amount)}
  /\ haul' = "held"

(* What a run asks for: nobody sends and nobody is on the way.               *)
Haul(run) ==
  LET idle  == run.moves = {} /\ haul = "over"
      fill  == idle /\ run.stack = << >> /\ Free(StorageLink) > 0 /\ HasPickup
      empty == idle /\ Len(run.stack) > 1 /\ content[StorageLink] > 0 /\ HasDropoff
  IN  \/ fill /\ AskHaul("ll", Min({Free(StorageLink), ReadyAmount}))
      \/ empty /\ AskHaul("lu", content[StorageLink])
      \/ ~fill /\ ~empty /\ UNCHANGED <<topic, haul>>

Senders == Range(SourceLinks) \cup {StorageLink}

(* LinkManager.run *)
LinksRun(cold) ==
  /\ home.links
  /\ \E run \in {LinkRun(cold)} :
       /\ content' = AfterMoves({m \in Moves : m \in run.moves /\ m.from \notin cold})
       /\ Haul(run)
  /\ UNCHANGED <<home, reserve, calm>>

(* (mutant) haulTTL is not counted below 0, but waited for to be there.      *)
WrongHaulWaits ==
  /\ home.links
  /\ haul = "held" /\ haul' = "due"
  /\ topic' = topic \ RequestsOf({"ll", "lu"}, StorageLink)
  /\ UNCHANGED <<home, content, reserve, calm>>

(* haulTTL falls to 0 and below, when the request is stale.                  *)
HaulWaits ==
  /\ home.links
  /\ \/ haul = "held" /\ haul' = "due" /\ UNCHANGED topic
     \/ haul = "due" /\ haul' = "over" /\ topic' = topic \ RequestsOf({"ll", "lu"}, StorageLink)
  /\ UNCHANGED <<home, content, reserve, calm>>

(* After PROCESS_TTL, or when a link is gone, the process ends and the base  *)
(* starts a new one.  What the old one asked for counts as stale when the    *)
(* new one asks.                                                             *)
ManagerRestarts ==
  /\ home.links /\ ~calm
  /\ haul' = "due"
  /\ UNCHANGED room

(* Miners fill the links at sources and upgraders use those at the           *)
(* controller.                                                               *)
SourceFills(l) ==
  /\ home.links /\ l \in Range(SourceLinks) /\ Free(l) > 0
  /\ content' = [content EXCEPT ![l] = @ + 1]
  /\ UNCHANGED <<home, reserve, topic, calm, haul>>

SinkUsed(l) ==
  /\ home.links /\ l \in Range(SinkLinks) /\ content[l] > 0
  /\ content' = [content EXCEPT ![l] = @ - 1]
  /\ UNCHANGED <<home, reserve, topic, calm, haul>>
=============================================================================

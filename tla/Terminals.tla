------------------------------ MODULE Terminals ------------------------------
(* The terminal of a base (src/base/terminal.ts), as the code runs it.  It   *)
(* fills up old sell orders, which the game keeps, and sends energy it has   *)
(* too much of to the storage.  A task it takes over is held for ever:       *)
(* processTask looks for the details of what are the details already, and    *)
(* throws in each of its runs, before it counts down the time of the task.   *)
(* So nothing is sent, bought or sold.                                       *)
EXTENDS Labs

VARIABLES
  order,    \* what remains of a sell order for a compound; 0: there is none
  goods,    \* how much of the compound is in the terminal
  surplus,  \* its energy beyond MAX_TERMINAL_ENERGY
  wanted,   \* whether there is a request on the topic of the terminal
  held      \* whether terminalTask of the base is set

terminal == <<order, goods, surplus, wanted, held>>

HasTerminal == home.terminal # None
Compound == home.terminal.compound

(* It is true when another base has some; but the transfer is then asked of  *)
(* the topic of a base without an id, where nobody looks.                    *)
RequestResource == home.terminal.sources

BuyResource == home.terminal.credits /\ wanted' = TRUE

(* Whoever lacks a resource asks for a transfer, or else for a purchase.     *)
AskForResource ==
  /\ HasTerminal /\ ~RequestResource /\ BuyResource
  /\ UNCHANGED <<labs, order, goods, surplus, held>>

(* It lapses only when no run takes it over.                                 *)
WantedExpires ==
  /\ wanted /\ (held \/ ~calm)
  /\ wanted' = FALSE
  /\ UNCHANGED <<labs, order, goods, surplus, held>>

-----------------------------------------------------------------------------
(* haulOldSellOrders: order.amount is what the terminal has of the rest.     *)
Incomplete == order > goods
Missing == order - goods

(* getStructureWithResource, getStructureForResource: the storage first      *)
Pickup == IF stored[Compound] > 0 THEN "storage" ELSE "terminal"
Available == IF Pickup = "storage" THEN stored[Compound] ELSE goods

WrongDropoff == IF reserve.space THEN "terminal" ELSE None
Dropoff ==
  IF reserve.storage THEN "storage" ELSE IF reserve.space THEN "terminal" ELSE None

WrongCancelled(due) == FALSE
Cancelled(due) == due /\ Incomplete /\ Available < Missing

HaulOrder(due) ==
  IF due /\ Incomplete /\ ~Cancelled(due)
  THEN {NewRequest("order", Pickup, Compound, Missing)} ELSE {}

(* sendEnergyToStorage, in the run that takes over a task as well            *)
SendEnergy(due) ==
  IF due /\ ~held /\ surplus > 0 /\ Dropoff # None
  THEN {NewRequest("surplus", Dropoff, None, surplus)} ELSE {}

(* A run, in which the order thread or the return of energy may be due: the  *)
(* requests made before have expired by then.                                *)
TerminalRuns(orders, energy) ==
  /\ HasTerminal
  /\ order' = IF Cancelled(orders) THEN 0 ELSE order
  /\ topic' = {r \in topic : ~(orders /\ r.kind = "order") /\ ~(energy /\ r.kind = "surplus")}
                \cup HaulOrder(orders) \cup SendEnergy(energy)
  /\ held' = (held \/ wanted) /\ wanted' = (wanted /\ held)
  /\ UNCHANGED <<home, lab, stores, reserve, hauls, assigned, processes, calm, goods, surplus>>

-----------------------------------------------------------------------------
(* A distributor comes to the end of a haul from storage to terminal or back *)
(* or, for want of both, from the terminal to itself.                        *)
DeliverOrder(d) ==
  /\ hauls[d] # None /\ hauls[d].kind = "order"
  /\ hauls' = [hauls EXCEPT ![d] = None]
  /\ \E n \in {IF hauls[d].spot = "terminal" THEN 0
               ELSE Min({hauls[d].amount, Trip, stored[Compound]})} :
       /\ stored' = [stored EXCEPT ![Compound] = @ - n]
       /\ goods' = goods + n
  /\ UNCHANGED <<home, lab, content, powered, reserve, topic, assigned, processes, calm,
                 order, surplus, wanted, held>>

DeliverEnergy(d) ==
  /\ hauls[d] # None /\ hauls[d].kind = "surplus"
  /\ hauls[d].spot = "storage" => reserve.storage
  /\ hauls' = [hauls EXCEPT ![d] = None]
  /\ surplus' = IF hauls[d].spot = "terminal" THEN surplus
                ELSE surplus - Min({hauls[d].amount, Trip, surplus})
  /\ UNCHANGED <<home, lab, stores, reserve, topic, assigned, processes, calm,
                 order, goods, wanted, held>>

(* With the storage full haulers bring energy to the terminal.               *)
EnergyArrives ==
  /\ HasTerminal /\ Trouble("storage") /\ reserve.space /\ ~reserve.storage
  /\ surplus < home.terminal.mostEnergy /\ surplus' = surplus + 1
  /\ UNCHANGED <<labs, order, goods, wanted, held>>

(* Another player buys of the order.                                         *)
Sold ==
  /\ order > 0 /\ goods > 0
  /\ order' = order - 1 /\ goods' = goods - 1
  /\ UNCHANGED <<labs, surplus, wanted, held>>
=============================================================================

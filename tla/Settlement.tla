----------------------------- MODULE Settlement -----------------------------
(***************************************************************************)
(* What Dispatch promises about a worker.Delivery, with no worker, process *)
(* or queue in sight (worker.go, the comments on Delivery and Dispatch):   *)
(* one delivery is offered at a time; an offer is either refused, leaving  *)
(* the delivery untouched, or taken; a taken delivery is settled by        *)
(* calling exactly one of Ack, Nack and Requeue, once.                     *)
(***************************************************************************)
EXTENDS Naturals, Sequences, FiniteSets

CONSTANT Deliveries

VARIABLES
  phase,  \* phase[d]: where d is in its life
  calls   \* calls[d]: the callbacks of d called so far, in order

contractVars == <<phase, calls>>

Verdicts == {"ack", "nack", "requeue"}
Phases == {"new", "offered", "refused", "taken", "settled"}

ContractInit ==
  /\ phase = [d \in Deliveries |-> "new"]
  /\ calls = [d \in Deliveries |-> <<>>]

Offer(d) ==
  /\ phase[d] = "new"
  /\ \A e \in Deliveries : phase[e] # "offered"
  /\ phase' = [phase EXCEPT ![d] = "offered"]
  /\ UNCHANGED calls

Refuse(d) ==
  /\ phase[d] = "offered"
  /\ phase' = [phase EXCEPT ![d] = "refused"]
  /\ UNCHANGED calls

Take(d) ==
  /\ phase[d] = "offered"
  /\ phase' = [phase EXCEPT ![d] = "taken"]
  /\ UNCHANGED calls

SettleWith(d, v) ==
  /\ phase[d] = "taken"
  /\ phase' = [phase EXCEPT ![d] = "settled"]
  /\ calls' = [calls EXCEPT ![d] = Append(@, v)]

(* The circumstances under which the pool does the last three.  Dispatch   *)
(* refuses only because the context is done, takes nothing after that, and *)
(* a message goes back only if its process, or the engine, ends.           *)
Taken == {d \in Deliveries : phase[d] = "taken"}
SlotFree(n) == Cardinality(Taken) < n

RefuseOffer(d, stopping) == stopping /\ Refuse(d)
TakeOffer(d, stopping) == ~stopping /\ Take(d)
SettleTaken(d, v, excused) == (v = "requeue" => excused) /\ SettleWith(d, v)

ContractNext ==
  \E d \in Deliveries :
    \/ Offer(d)
    \/ Refuse(d)
    \/ Take(d)
    \/ \E v \in Verdicts : SettleWith(d, v)

ContractSpec == ContractInit /\ [][ContractNext]_contractVars
=============================================================================

----------------------------- MODULE PoolContract -----------------------------
(***************************************************************************)
(* What engine.Run may rely on in the pool it feeds (pool.go and the       *)
(* comments on Dispatch and Shutdown): Settlement, with the circumstances  *)
(* under which a message is refused, taken or given back, and a Shutdown   *)
(* that waits for what was taken.  Engine's pool is this; Pool does it.    *)
(***************************************************************************)
EXTENDS Settlement

CONSTANTS
  Slots,   \* the capacity of the pool
  Fits,    \* TRUE if the broker's window is no larger
  Patient  \* TRUE if no timer gives up on a message

VARIABLES
  stopping,  \* the run context is done
  stage,     \* consume, drain (in Shutdown) or returned
  lost       \* a handler process has failed

circumstances == <<stopping, stage, lost>>
poolContractVars == <<contractVars, circumstances>>

PoolContractInit ==
  /\ ContractInit
  /\ stopping = FALSE /\ stage = "consume" /\ lost = FALSE

Serve(d) ==
  /\ \/ stage = "consume" /\ Offer(d)
     \/ RefuseOffer(d, stopping)
     \/ (Fits => SlotFree(Slots)) /\ TakeOffer(d, stopping)
     \/ \E v \in Verdicts :
          SettleTaken(d, v, lost \/ stopping \/ stage # "consume")
  /\ UNCHANGED circumstances

Stop == stopping' = TRUE /\ UNCHANGED <<contractVars, stage, lost>>

Lose == lost' = TRUE /\ UNCHANGED <<contractVars, stopping, stage>>

Leave ==
  /\ stage = "consume" /\ \A d \in Deliveries : phase[d] # "offered"
  /\ stage' = "drain"
  /\ UNCHANGED <<contractVars, stopping, lost>>

Return ==
  /\ stage = "drain" /\ (Patient => Taken = {})
  /\ stage' = "returned"
  /\ UNCHANGED <<contractVars, stopping, lost>>

PoolContractNext ==
  \/ \E d \in Deliveries : Serve(d)
  \/ Stop \/ Lose \/ Leave \/ Return

PoolContractSpec ==
  PoolContractInit /\ [][PoolContractNext]_poolContractVars
=============================================================================

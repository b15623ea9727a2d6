-------------------------------- MODULE Pool --------------------------------
(***************************************************************************)
(* The pool of internal/worker/pool.go as internal/engine/engine.go and    *)
(* internal/bus/bus.go drive it: one goroutine (engine.Run) consumes       *)
(* messages, dispatches each to the least-loaded worker, and on leaving    *)
(* the consume loop runs Shutdown.  So Dispatch never overlaps another     *)
(* Dispatch or Shutdown, which Worker alone does not say.                  *)
(*                                                                         *)
(* The broker is modelled by what the engine asks of it with Qos: it has   *)
(* at most Prefetch deliveries unsettled.                                  *)
(***************************************************************************)
EXTENDS Worker

CONSTANTS
  Size,              \* len(p.workers)
  Prefetch,          \* the broker's window of unsettled deliveries
  GraceCoversSpawn   \* TRUE if the grace never ends between two processes

ASSUME PoolAssumption ==
  /\ Size \in Nat \ {0}
  /\ Workers = 1 .. Size
  /\ Prefetch \in Nat \ {0}
  /\ GraceCoversSpawn \in BOOLEAN

VARIABLES
  main,    \* the goroutine of engine.Run
  grace    \* the shutdown grace is over

poolVars == <<vars, main, grace>>

(* pc: in Consume, in leastLoaded, in the three stretches of Shutdown, or  *)
(* past it; w: the worker a loop is at; d: the delivery being placed;      *)
(* best, n: bestN's worker and value.                                      *)
MainStates == {"consume", "pick", "close", "await", "killed", "done"}

At(pc, w) == [main EXCEPT !.pc = pc, !.w = w]

PoolInit ==
  /\ WorkerInit
  /\ main = [pc |-> "consume", w |-> 1, d |-> None, best |-> 1, n |-> 0]
  /\ grace = FALSE

-----------------------------------------------------------------------------
(* Consuming                                                               *)

Unsettled == {d \in given : calls[d] = <<>>}

(* Dispatch has returned: the consume loop is at its select.               *)
AtSelect == main.pc = "consume" /\ caller.pc = "idle"

(* The select takes a delivery, even if the context is done too.           *)
Receive(d) ==
  /\ AtSelect
  /\ d \notin given
  /\ Cardinality(Unsettled) < Prefetch
  /\ main' = [At("pick", 1) EXCEPT !.d = d]
  /\ UNCHANGED <<vars, grace>>

(* Variants, as in Worker.                                                 *)
MostLoaded(w, n) == w = 1 \/ n > main.n
StoppedTooSoon(w) == ~live[w] /\ closing[w] /\ sup[w] # "init"

(* leastLoaded reads one worker's load per lock; a later worker wins only  *)
(* with a smaller load.  After the last one Dispatch enters the winner's.  *)
Beats(w, n) == w = 1 \/ n < main.n

LookAt(w) ==
  LET n    == Outstanding(w)
      best == IF Beats(w, n) THEN w ELSE main.best
  IN  /\ main.pc = "pick" /\ main.w = w
      /\ \/ /\ w < Size
            /\ main' = [At("pick", w + 1) EXCEPT
                          !.best = best, !.n = IF best = w THEN n ELSE @]
            /\ UNCHANGED vars
         \/ /\ w = Size
            /\ main' = [At("consume", 1) EXCEPT
                          !.d = None, !.best = 1, !.n = 0]
            /\ DispatchCall(best, main.d)
      /\ UNCHANGED grace

(* Consume returns: the context is done, or the AMQP channel closed (and   *)
(* an agent without inputs never consumes at all).                         *)
LeaveConsume ==
  /\ AtSelect
  /\ main' = At("close", 1)
  /\ UNCHANGED <<vars, grace>>

-----------------------------------------------------------------------------
(* Shutdown                                                                *)

CloseWorker(w) ==
  /\ main.pc = "close" /\ main.w = w
  /\ main' = IF w < Size THEN At("close", w + 1) ELSE At("await", 1)
  /\ BeginClose(w)
  /\ UNCHANGED grace

BetweenProcesses(w) == sup[w] \in {"settle", "spawn", "init", "backoff"}

(* context.WithTimeout(grace) expires.                                     *)
GraceEnds ==
  /\ main.pc \in {"await", "killed"} /\ ~grace
  /\ GraceCoversSpawn => \A w \in Workers : ~BetweenProcesses(w)
  /\ grace' = TRUE
  /\ UNCHANGED <<vars, main>>

(* w.stoppedCh is closed.                                                  *)
Stopped(w) == sup[w] = "stopped"

(* <-w.stoppedCh, in the select or after the kill: go to the next worker.  *)
WorkerStopped(w) ==
  /\ main.pc \in {"await", "killed"} /\ main.w = w
  /\ Stopped(w)
  /\ main' = IF w < Size THEN At("await", w + 1) ELSE At("done", 1)
  /\ UNCHANGED <<vars, grace>>

(* The grace is over (the select may see that first even if w stopped).    *)
KillWorker(w) ==
  /\ main.pc = "await" /\ main.w = w
  /\ grace
  /\ main' = At("killed", w)
  /\ Kill(w)
  /\ UNCHANGED grace

-----------------------------------------------------------------------------

MainStep ==
  \/ ctx /\ LeaveConsume
  \/ \E w \in Workers :
       LookAt(w) \/ CloseWorker(w) \/ WorkerStopped(w) \/ KillWorker(w)

(* Shutdown has returned and nothing is left to do.                        *)
Finished == main.pc = "done" /\ UNCHANGED poolVars

PoolNext ==
  \/ WorkerStep /\ UNCHANGED <<main, grace>>
  \/ CtxCancel /\ UNCHANGED <<main, grace>>
  \/ \E d \in Deliveries : Receive(d)
  \/ LeaveConsume
  \/ MainStep
  \/ GraceEnds
  \/ Finished

PoolSpec == PoolInit /\ [][PoolNext]_poolVars

FairPoolSpec ==
  /\ PoolSpec
  /\ WF_poolVars(MainStep)
  /\ WF_poolVars(GraceEnds)
  /\ EngineFairness

-----------------------------------------------------------------------------
(* Properties                                                              *)

(* The engine's goroutine and the grace timer keep their types, and the    *)
(* workers theirs (pool.go: the locals of leastLoaded and Shutdown).       *)
PoolTypeOK ==
  /\ TypeOK
  /\ main \in [pc : MainStates, w : Workers, d : Deliveries \cup {None},
               best : Workers, n : Nat]
  /\ grace \in BOOLEAN

(* The worker Dispatch was given has a free slot: with a window of Size *  *)
(* Cap unsettled deliveries some worker is below Cap when leastLoaded      *)
(* looks, and although its reads are spread over time the loads only fall  *)
(* meanwhile (pool.go:46-50).  So Dispatch only ever waits for a process.  *)
PickHasRoom ==
  caller.pc \in {"check", "asleep"} => Outstanding(caller.w) < Cap

(* When Shutdown returns (and the bus is about to close, engine.go:82) no  *)
(* worker runs a process or holds a message, and every delivery that was   *)
(* handed to Dispatch was settled or refused.  A message's timer is not    *)
(* waited for, so this is stated of an engine without a timeout.           *)
DrainedAtReturn ==
  main.pc = "done" =>
    /\ \A w \in Workers : sup[w] = "stopped" /\ ~alive[w]
    /\ \A d \in Deliveries : ~InSlot(d) /\ ~IsOwed(d)

(* What PoolContract sees of the engine's goroutine and of the handlers.   *)
Stage ==
  IF main.pc \in {"consume", "pick"} THEN "consume"
  ELSE IF main.pc = "done" THEN "returned" ELSE "drain"
Lost == faults > 0

Reception == INSTANCE PoolContract WITH
               phase <- PhaseOf, stopping <- ctx, stage <- Stage, lost <- Lost,
               Slots <- Size * Cap, Fits <- Prefetch <= Size * Cap,
               Patient <- ~HasTimeout

(* Refinement: the pool is what Engine takes it for.  It refuses a message *)
(* only because the context is done, gives one back only if a process      *)
(* failed or the engine is stopping, takes no more than it has slots if    *)
(* the broker's window fits them, and comes out of Shutdown empty unless a *)
(* timer has fired (pool.go:46-88, worker.go:410-464, engine.go:137-145).  *)
KeepsReception == Reception!PoolContractSpec

(* Shutdown returns, whatever the handlers do: those that overrun the      *)
(* grace are killed (pool.go:67-69).                                       *)
ShutdownReturns == main.pc = "close" ~> main.pc = "done"

(* Once the context is cancelled the engine reaches the end of Shutdown.   *)
CancelStops == ctx ~> main.pc = "done"
=============================================================================

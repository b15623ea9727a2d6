------------------------------- MODULE Worker -------------------------------
(***************************************************************************)
(* The workers of internal/worker/worker.go.  Each worker w runs           *)
(*   - a supervisor (run): spawn, readLoop, reap, settle, respawn;         *)
(*   - a writer goroutine per process (writeLoop): queue to stdin;         *)
(*   - a timer goroutine per message (armTimeout);                         *)
(* and one caller (the engine's consume goroutine) runs Dispatch.  One     *)
(* action is one critical section of w.mu, one channel operation or one    *)
(* pipe operation together with the local code that leads to it.           *)
(*                                                                         *)
(* This module leaves open which worker the caller picks and when          *)
(* beginClose and kill are called; Pool fixes both.                        *)
(***************************************************************************)
EXTENDS Handler

CONSTANTS
  Cap,         \* w.cap: messages a process may have in flight
  HasTimeout,  \* cfg.Timeout > 0
  Oversize,    \* deliveries whose deliver note WriteFrame refuses
  InitRefused  \* TRUE if the init note may fail while the process runs

ASSUME WorkerAssumption ==
  /\ Cap \in Nat \ {0}
  /\ HasTimeout \in BOOLEAN
  /\ Oversize \subseteq Deliveries
  /\ InitRefused \in BOOLEAN

VARIABLES
  sup,      \* sup[w]: where the supervisor of w is in run
  live,     \* live[w]: w.cur # nil
  gen,      \* gen[w]: the number of the newest proc of w
  stop,     \* stop[w]: that proc's stop channel is closed
  out,      \* out[w]: that proc's queue of notes for its writer
  msgs,     \* msgs[w]: w.msgs, the in-flight map
  nextID,   \* nextID[w]: w.nextID
  closing,  \* closing[w]: w.closing
  ctx,      \* the run context is cancelled
  caller,   \* the goroutine inside Dispatch
  given,    \* the deliveries passed to Dispatch so far
  owed,     \* callbacks a goroutine has taken on and not yet called
  calls,    \* calls[d]: the callbacks of d called so far
  published,\* the emits handed to the bus, each with the chain it carries
  unanswered \* messages with an emit whose emit_ack found the queue full

procVars == <<sup, live, gen, stop, out>>
slotVars == <<msgs, nextID>>
shutVars == <<closing, ctx>>
ledgerVars == <<given, owed, calls>>
emitVars == <<published, unanswered>>
engineVars == <<procVars, slotVars, shutVars, caller, ledgerVars, emitVars>>
vars == <<handlerVars, engineVars>>

-----------------------------------------------------------------------------

Verdicts == {"ack", "nack", "requeue"}

(* One entry of w.msgs.                                                    *)
Inflight == [d : Deliveries, picked : BOOLEAN]

(* A settle call some goroutine is about to make: it deleted the map entry *)
(* (or swapped the map) under w.mu and has released the lock.              *)
Owed == [by : {"reader", "timer", "caller"}, w : Workers,
         d : Deliveries, v : Verdicts]

(* The goroutine in Dispatch: where it is, its worker, its delivery, the   *)
(* id it registered and the number of the proc it sends to.                *)
Dispatching == [pc : {"check", "asleep", "send", "requeue"}, w : Workers,
                d : Deliveries, id : Nat, p : Nat]
Idle == [pc |-> "idle", w |-> None, d |-> None, id |-> 0, p |-> 0]

SupStates == {"spawn", "init", "backoff", "read", "wait",
              "settle", "settleStop", "stopped"}

-----------------------------------------------------------------------------
(* Variants: what a plausible mistake in the code would make of some of    *)
(* the operators below.  No action uses one; putting one in the place of   *)
(* its original breaks a property (README.md lists which).                 *)

OutCapShort == Cap - 1                         \* a queue smaller than cap
DeleteNothing(m, id) == m                      \* settle without deleting
AssumeThere(w, id) == TRUE                     \* reclaim without looking
SlotWithoutProcess(w) == Cardinality(DOMAIN msgs[w]) < Cap
SlotOneTooMany(w) == live[w] /\ Cardinality(DOMAIN msgs[w]) <= Cap
SameID(w) == nextID[w]                         \* nextID never moves
RecycledID(w) ==                               \* ids start over when idle
  IF DOMAIN msgs[w] = {} THEN 1 ELSE nextID[w] + 1
ArmedOnPickup(w, id) == HasTimeout /\ msgs[w][id].picked
AlwaysRequeue(m) == "requeue"
NewestChain(w, id) ==                          \* not the message's own
  IF msgs[w] = <<>> THEN None
  ELSE msgs[w][CHOOSE i \in DOMAIN msgs[w] :
                 \A j \in DOMAIN msgs[w] : j <= i].d
SleepThrough(w) == caller                      \* a missing Broadcast
BlockingAck(w, n) ==                           \* ackEmit without default
  /\ Len(out[w]) < Cap + 1
  /\ out' = [out EXCEPT ![w] =
               Append(@, [k |-> "emit_ack", id |-> n.id, d |-> n.d])]
  /\ UNCHANGED unanswered
ClosingOnly(w) == closing[w]                   \* the context forgotten
AskAgain(w) ==                                 \* kill without SIGKILL
  /\ stop' = IF live[w] THEN [stop EXCEPT ![w] = TRUE] ELSE stop
  /\ UNCHANGED <<handlerVars, sup, live, gen, out, slotVars, shutVars, caller,
                 ledgerVars, emitVars>>

-----------------------------------------------------------------------------

(* The queue of a proc: make(chan outNote, w.cap+1).                       *)
OutCap == Cap + 1

Outstanding(w) == Cardinality(DOMAIN msgs[w])
ShuttingDown(w) == closing[w] \/ ctx

(* delete(w.msgs, id), and the check that the entry is still there.        *)
Delete(m, id) == [i \in DOMAIN m \ {id} |-> m[i]]
StillThere(w, id) == id \in DOMAIN msgs[w]

(* What Dispatch waits for, and the value it leaves in w.nextID.           *)
FreeSlot(w) == live[w] /\ Outstanding(w) < Cap
FollowingID(w) == nextID[w] + 1

(* A message is given a timer when it is registered.                       *)
Armed(w, id) == HasTimeout

(* What becomes of a message left in the map of a dead process.            *)
StaleVerdict(m) == IF m.picked THEN "nack" ELSE "requeue"

(* The chain stamped on an emit: that of the in-flight message it names,   *)
(* identified here by its delivery, or nil.                                *)
ChainOf(w, id) == IF id \in DOMAIN msgs[w] THEN msgs[w][id].d ELSE None

(* w.cond.Broadcast(): a Dispatch that sleeps on w looks again.            *)
Broadcast(w) ==
  IF caller.pc = "asleep" /\ caller.w = w
  THEN [caller EXCEPT !.pc = "check"]
  ELSE caller

(* The supervisor of w has no settle call left to make.                    *)
ReaderFree(w) == \A o \in owed : ~(o.by = "reader" /\ o.w = w)

WorkerInit ==
  /\ HandlerInit
  /\ sup = [w \in Workers |-> "spawn"]
  /\ live = [w \in Workers |-> FALSE]
  /\ gen = [w \in Workers |-> 0]
  /\ stop = [w \in Workers |-> FALSE]
  /\ out = [w \in Workers |-> <<>>]
  /\ msgs = [w \in Workers |-> <<>>]
  /\ nextID = [w \in Workers |-> 1]
  /\ closing = [w \in Workers |-> FALSE]
  /\ ctx = FALSE
  /\ caller = Idle
  /\ given = {}
  /\ owed = {}
  /\ calls = [d \in Deliveries |-> <<>>]
  /\ published = {}
  /\ unanswered = {}

-----------------------------------------------------------------------------
(* Dispatch                                                                *)

DispatchCall(w, d) ==
  /\ caller.pc = "idle"
  /\ d \notin given
  /\ given' = given \cup {d}
  /\ caller' = [Idle EXCEPT !.pc = "check", !.w = w, !.d = d]
  /\ UNCHANGED <<handlerVars, procVars, slotVars, shutVars, owed, calls,
                 emitVars>>

(* Closing or cancelled before a slot frees: return false, d untouched.    *)
DispatchRefuse ==
  /\ caller.pc = "check"
  /\ ShuttingDown(caller.w)
  /\ caller' = Idle
  /\ UNCHANGED <<handlerVars, procVars, slotVars, shutVars, ledgerVars,
                 emitVars>>

(* A live process with a free slot: take an id, arm the timer, register.   *)
DispatchRegister ==
  LET w  == caller.w
      id == nextID[w]
  IN  /\ caller.pc = "check"
      /\ ~ShuttingDown(w)
      /\ FreeSlot(w)
      /\ nextID' = [nextID EXCEPT ![w] = FollowingID(w)]
      /\ msgs' = [msgs EXCEPT ![w] =
                    [i \in DOMAIN @ \cup {id} |->
                       IF i = id THEN [d |-> caller.d, picked |-> FALSE]
                                 ELSE @[i]]]
      /\ caller' = [caller EXCEPT !.pc = "send", !.id = id, !.p = gen[w]]
      /\ UNCHANGED <<handlerVars, procVars, shutVars, ledgerVars, emitVars>>

(* w.cond.Wait().                                                          *)
DispatchWait ==
  /\ caller.pc = "check"
  /\ ~ShuttingDown(caller.w)
  /\ ~FreeSlot(caller.w)
  /\ caller' = [caller EXCEPT !.pc = "asleep"]
  /\ UNCHANGED <<handlerVars, procVars, slotVars, shutVars, ledgerVars,
                 emitVars>>

(* p.send queues the deliver note and Dispatch returns true.  The channel  *)
(* of a proc that has been replaced is garbage nobody reads: a note sent   *)
(* there is lost.                                                          *)
SendQueued ==
  LET w == caller.w
      n == [k |-> "deliver", id |-> caller.id, d |-> caller.d]
  IN  /\ caller.pc = "send"
      /\ \/ /\ caller.p = gen[w]
            /\ Len(out[w]) < OutCap
            /\ out' = [out EXCEPT ![w] = Append(@, n)]
         \/ /\ caller.p # gen[w]
            /\ UNCHANGED out
      /\ caller' = Idle
      /\ UNCHANGED <<handlerVars, sup, live, gen, stop, slotVars, shutVars,
                     ledgerVars, emitVars>>

(* p.send sees the process stopping or the context done (neither is ever   *)
(* undone): reclaim the entry if nobody else has, and requeue it.          *)
SendStopped ==
  LET w == caller.w
  IN  /\ caller.pc = "send"
      /\ caller.p # gen[w] \/ stop[w] \/ ctx
      /\ \/ /\ StillThere(w, caller.id)
            /\ msgs' = [msgs EXCEPT ![w] = Delete(@, caller.id)]
            /\ owed' = owed \cup {[by |-> "caller", w |-> w,
                                   d |-> caller.d, v |-> "requeue"]}
            /\ caller' = [caller EXCEPT !.pc = "requeue"]
         \/ /\ ~StillThere(w, caller.id)
            /\ caller' = Idle
            /\ UNCHANGED <<msgs, owed>>
      /\ UNCHANGED <<handlerVars, procVars, nextID, shutVars, given, calls,
                     emitVars>>

(* SIGINT or SIGTERM cancels the run context.                              *)
CtxCancel ==
  /\ ~ctx
  /\ ctx' = TRUE
  /\ UNCHANGED <<handlerVars, procVars, slotVars, closing, caller, ledgerVars,
                 emitVars>>

(* The context.AfterFunc of Dispatch broadcasts.                           *)
CtxWake(w) ==
  /\ ctx
  /\ caller.pc = "asleep" /\ caller.w = w
  /\ caller' = Broadcast(w)
  /\ UNCHANGED <<handlerVars, procVars, slotVars, shutVars, ledgerVars,
                 emitVars>>

(* A goroutine makes the settle call it owes.                              *)
Settle(o) ==
  /\ owed' = owed \ {o}
  /\ calls' = [calls EXCEPT ![o.d] = Append(@, o.v)]
  /\ caller' = IF o.by = "caller" THEN Idle ELSE caller
  /\ UNCHANGED <<handlerVars, procVars, slotVars, shutVars, given, emitVars>>

(* The per-message timer: nack and free the slot, if still in flight.      *)
Timeout(w, id) ==
  /\ id \in DOMAIN msgs[w] /\ Armed(w, id)
  /\ msgs' = [msgs EXCEPT ![w] = Delete(@, id)]
  /\ owed' = owed \cup {[by |-> "timer", w |-> w,
                         d |-> msgs[w][id].d, v |-> "nack"]}
  /\ caller' = Broadcast(w)
  /\ UNCHANGED <<handlerVars, procVars, nextID, shutVars, given, calls,
                 emitVars>>

-----------------------------------------------------------------------------
(* run: spawn and respawn                                                  *)

(* The process starts; its init note is not yet written, w.cur not set.    *)
SpawnStart(w) ==
  /\ sup[w] = "spawn"
  /\ sup' = [sup EXCEPT ![w] = "init"]
  /\ alive' = [alive EXCEPT ![w] = TRUE]
  /\ stdin' = [stdin EXCEPT ![w] = <<>>]
  /\ eof' = [eof EXCEPT ![w] = FALSE]
  /\ stdout' = [stdout EXCEPT ![w] = <<>>]
  /\ UNCHANGED <<hand, seen, faults, emits, live, gen, stop, out, slotVars,
                 shutVars, caller, ledgerVars, emitVars>>

(* The init note is in the pipe: a fresh proc becomes w.cur.               *)
SpawnReady(w) ==
  /\ sup[w] = "init" /\ ~eof[w]
  /\ sup' = [sup EXCEPT ![w] = "read"]
  /\ gen' = [gen EXCEPT ![w] = @ + 1]
  /\ stop' = [stop EXCEPT ![w] = FALSE]
  /\ out' = [out EXCEPT ![w] = <<>>]
  /\ live' = [live EXCEPT ![w] = TRUE]
  /\ caller' = Broadcast(w)
  /\ UNCHANGED <<handlerVars, slotVars, shutVars, ledgerVars, emitVars>>

(* spawn returned an error: stop when shutting down, else back off.        *)
SpawnError(w) ==
  /\ sup' = [sup EXCEPT ![w] = IF ShuttingDown(w) THEN "stopped"
                                                  ELSE "backoff"]
  /\ UNCHANGED <<alive, hand, stdin, eof, stdout, seen, emits, live, gen, stop,
                 out, slotVars, shutVars, caller, ledgerVars, emitVars>>

(* The init note is not written, although the process runs: it is closed   *)
(* stdin on, and spawn discards what it writes until it ends.              *)
InitFails(w) ==
  /\ InitRefused
  /\ sup[w] = "init" /\ alive[w] /\ ~eof[w]
  /\ Fault
  /\ eof' = [eof EXCEPT ![w] = TRUE]
  /\ UNCHANGED <<alive, hand, stdin, stdout, seen, emits, procVars, slotVars,
                 shutVars, caller, ledgerVars, emitVars>>

(* The process cannot be started; its init note fails; or it has died      *)
(* without one and spawn has reaped it.                                    *)
SpawnFail(w) ==
  \/ sup[w] = "spawn" /\ Fault /\ SpawnError(w)
  \/ InitFails(w)
  \/ sup[w] = "init" /\ ~alive[w] /\ UNCHANGED faults /\ SpawnError(w)

(* sleepCtx: the pause ends, or the context does.                          *)
BackoffEnds(w) ==
  /\ sup[w] = "backoff"
  /\ \/ sup' = [sup EXCEPT ![w] = "spawn"]
     \/ ctx /\ sup' = [sup EXCEPT ![w] = "stopped"]
  /\ UNCHANGED <<handlerVars, live, gen, stop, out, slotVars, shutVars, caller,
                 ledgerVars, emitVars>>

-----------------------------------------------------------------------------
(* readLoop                                                                *)

Reads(w, kind) ==
  /\ sup[w] = "read" /\ ReaderFree(w)
  /\ stdout[w] # <<>> /\ Head(stdout[w]).k = kind
  /\ stdout' = [stdout EXCEPT ![w] = Tail(@)]
  /\ UNCHANGED <<alive, hand, stdin, eof, seen, faults, emits>>

(* onPickup: a pickup for an unknown id is ignored.                        *)
OnPickup(w) ==
  LET id == Head(stdout[w]).id
  IN  /\ Reads(w, "pickup")
      /\ msgs' = IF id \in DOMAIN msgs[w]
                 THEN [msgs EXCEPT ![w][id].picked = TRUE]
                 ELSE msgs
      /\ UNCHANGED <<procVars, nextID, shutVars, caller, ledgerVars, emitVars>>

(* onDone: the first done of an in-flight id deletes the entry and settles *)
(* it; any other is ignored.                                               *)
OnDone(w) ==
  LET n == Head(stdout[w])
  IN  /\ Reads(w, "done")
      /\ \/ /\ n.id \in DOMAIN msgs[w]
            /\ msgs' = [msgs EXCEPT ![w] = Delete(@, n.id)]
            /\ owed' = owed \cup {[by |-> "reader", w |-> w,
                                   d |-> msgs[w][n.id].d,
                                   v |-> IF n.ok THEN "ack" ELSE "nack"]}
            /\ caller' = Broadcast(w)
         \/ /\ n.id \notin DOMAIN msgs[w]
            /\ UNCHANGED <<msgs, owed, caller>>
      /\ UNCHANGED <<procVars, nextID, shutVars, given, calls, emitVars>>

(* ackEmit: queue the answer without blocking; a full queue drops it.      *)
AckEmit(w, n) ==
  IF Len(out[w]) < OutCap
  THEN /\ out' = [out EXCEPT ![w] =
                    Append(@, [k |-> "emit_ack", id |-> n.id, d |-> n.d])]
       /\ UNCHANGED unanswered
  ELSE /\ unanswered' = unanswered \cup {n.d}
       /\ UNCHANGED out

(* onEmit: publish an emit on a declared output with the chain of the      *)
(* message it names, if it names one that is in flight; an undeclared      *)
(* selector and a failing publish are answered with an error.              *)
OnEmit(w) ==
  LET n == Head(stdout[w])
  IN  /\ Reads(w, "emit")
      /\ \/ /\ n.ok
            /\ \E named \in BOOLEAN :
                 /\ named \/ Careless
                 /\ published' =
                      published \cup
                        {[d |-> n.d, named |-> named,
                          chain |-> IF named THEN ChainOf(w, n.id) ELSE None]}
         \/ UNCHANGED published
      /\ AckEmit(w, n)
      /\ UNCHANGED <<sup, live, gen, stop, slotVars, shutVars, caller,
                     ledgerVars>>

(* readLoop returns and run requests the writer's stop.                    *)
ReadLoopReturns(w) ==
  /\ sup' = [sup EXCEPT ![w] = "wait"]
  /\ stop' = [stop EXCEPT ![w] = TRUE]
  /\ UNCHANGED <<live, gen, out, slotVars, shutVars, caller, ledgerVars,
                 emitVars>>

ReadEOF(w) ==
  /\ sup[w] = "read" /\ ReaderFree(w)
  /\ stdout[w] = <<>> /\ ~alive[w]
  /\ ReadLoopReturns(w)
  /\ UNCHANGED handlerVars

ReadError(w) == Reads(w, "bad") /\ ReadLoopReturns(w)

(* cmd.Wait returned: drop w.cur, swap the map, and owe each message left  *)
(* in it a nack if it was picked up and a requeue if it was not.           *)
Reap(w) ==
  /\ sup[w] = "wait" /\ ~alive[w]
  /\ sup' = [sup EXCEPT ![w] = IF ShuttingDown(w) THEN "settleStop"
                                                  ELSE "settle"]
  /\ live' = [live EXCEPT ![w] = FALSE]
  /\ msgs' = [msgs EXCEPT ![w] = <<>>]
  /\ owed' = owed \cup {[by |-> "reader", w |-> w, d |-> msgs[w][i].d,
                         v |-> StaleVerdict(msgs[w][i])] : i \in DOMAIN msgs[w]}
  /\ caller' = Broadcast(w)
  /\ UNCHANGED <<handlerVars, gen, stop, out, nextID, shutVars, given, calls,
                 emitVars>>

(* Every stale message is settled: respawn, or mark the worker stopped.    *)
StaleSettled(w) ==
  /\ ReaderFree(w)
  /\ \/ sup[w] = "settle" /\ sup' = [sup EXCEPT ![w] = "spawn"]
     \/ sup[w] = "settleStop" /\ sup' = [sup EXCEPT ![w] = "stopped"]
  /\ UNCHANGED <<handlerVars, live, gen, stop, out, slotVars, shutVars, caller,
                 ledgerVars, emitVars>>

-----------------------------------------------------------------------------
(* writeLoop                                                               *)

WriterRuns(w) == sup[w] \in {"read", "wait"} /\ ~eof[w]

(* Move the oldest note to stdin.  A frame WriteFrame refuses and a write  *)
(* to a dead process fail, which is only logged.                           *)
WriteNote(w) ==
  /\ WriterRuns(w) /\ out[w] # <<>>
  /\ out' = [out EXCEPT ![w] = Tail(@)]
  /\ LET n == Head(out[w])
     IN  \/ /\ ~alive[w] \/ (n.k = "deliver" /\ n.d \in Oversize)
            /\ UNCHANGED stdin
         \/ /\ alive[w] /\ ~(n.k = "deliver" /\ n.d \in Oversize)
            /\ Len(stdin[w]) < PipeCap
            /\ stdin' = [stdin EXCEPT ![w] = Append(@, n)]
  /\ UNCHANGED <<alive, hand, eof, stdout, seen, faults, emits, sup, live, gen,
                 stop, slotVars, shutVars, caller, ledgerVars, emitVars>>

(* Variant: the writer ends as soon as it has nothing to write.            *)
ClosesWhenDrained(w) ==
  /\ WriterRuns(w) /\ out[w] = <<>>
  /\ eof' = [eof EXCEPT ![w] = TRUE]
  /\ UNCHANGED <<alive, hand, stdin, stdout, seen, faults, emits, engineVars>>

(* Stop requested and the queue drained: close stdin and end.              *)
WriterCloses(w) ==
  /\ WriterRuns(w) /\ stop[w] /\ out[w] = <<>>
  /\ eof' = [eof EXCEPT ![w] = TRUE]
  /\ UNCHANGED <<alive, hand, stdin, stdout, seen, faults, emits, engineVars>>

-----------------------------------------------------------------------------
(* Shutting a worker down                                                  *)

(* beginClose: Dispatch stops waiting, the live process is told to drain.  *)
BeginClose(w) ==
  /\ closing' = [closing EXCEPT ![w] = TRUE]
  /\ stop' = IF live[w] THEN [stop EXCEPT ![w] = TRUE] ELSE stop
  /\ caller' = Broadcast(w)
  /\ UNCHANGED <<handlerVars, sup, live, gen, out, slotVars, ctx, ledgerVars,
                 emitVars>>

(* kill: SIGKILL w.cur, if there is one and it still runs.                 *)
Kill(w) ==
  /\ \/ live[w] /\ Dies(w) /\ UNCHANGED faults
     \/ ~(live[w] /\ alive[w]) /\ UNCHANGED handlerVars
  /\ UNCHANGED engineVars

-----------------------------------------------------------------------------

CallerStep ==
  \/ DispatchRefuse \/ DispatchRegister \/ DispatchWait
  \/ SendQueued \/ SendStopped
  \/ \E w \in Workers : CtxWake(w)

SupervisorStep(w) ==
  \/ SpawnStart(w) \/ SpawnReady(w) \/ SpawnFail(w) \/ BackoffEnds(w)
  \/ OnPickup(w) \/ OnDone(w) \/ OnEmit(w) \/ ReadEOF(w) \/ ReadError(w)
  \/ Reap(w) \/ StaleSettled(w)

WriterStep(w) == WriteNote(w) \/ WriterCloses(w)

TimerStep(w) == \E id \in DOMAIN msgs[w] : Timeout(w, id)

SettleStep == \E o \in owed : Settle(o)

(* What the workers do of themselves, whoever calls them.                  *)
WorkerStep ==
  \/ CallerStep
  \/ SettleStep
  \/ \E w \in Workers :
       \/ SupervisorStep(w)
       \/ WriterStep(w)
       \/ TimerStep(w)
       \/ HandlerStep(w) /\ UNCHANGED engineVars

WorkerNext ==
  \/ WorkerStep
  \/ CtxCancel
  \/ \E w \in Workers :
       \/ \E d \in Deliveries : DispatchCall(w, d)
       \/ ~closing[w] /\ BeginClose(w)
       \/ closing[w] /\ Kill(w)

WorkerSpec == WorkerInit /\ [][WorkerNext]_vars

(* Every goroutine of the engine that can move does: the Go scheduler is   *)
(* fair and the timers do fire.  Nothing is assumed of the handlers.       *)
EngineFairness ==
  /\ WF_vars(CallerStep)
  /\ WF_vars(SettleStep)
  /\ \A w \in Workers :
       /\ WF_vars(SupervisorStep(w))
       /\ WF_vars(WriterStep(w))
       /\ WF_vars(TimerStep(w))

(* The handlers follow the note protocol and make progress; they need not  *)
(* read while they have a message to run.                                  *)
HandlerFairness ==
  \A w \in Workers : WF_vars(HandlerProgress(w) /\ UNCHANGED engineVars)

FairWorkerSpec == WorkerSpec /\ EngineFairness
CooperativeSpec == FairWorkerSpec /\ HandlerFairness

-----------------------------------------------------------------------------
(* Properties                                                              *)

(* In-flight maps m whose ids were all handed out below next.              *)
SlotsOK(m, next) ==
  /\ DOMAIN m = Workers
  /\ \A w \in Workers :
       /\ DOMAIN m[w] \subseteq 1 .. (next[w] - 1)
       /\ m[w] \in [DOMAIN m[w] -> Inflight]

(* Every variable keeps its type; the ids in use were handed out by        *)
(* nextID, and the caller is inside Dispatch exactly with a worker and a   *)
(* delivery (worker.go: the fields of worker and proc).                    *)
TypeOK ==
  /\ HandlerTypeOK
  /\ sup \in [Workers -> SupStates]
  /\ live \in [Workers -> BOOLEAN]
  /\ gen \in [Workers -> Nat]
  /\ stop \in [Workers -> BOOLEAN]
  /\ out \in [Workers -> Seq(OutNote)]
  /\ nextID \in [Workers -> Nat \ {0}]
  /\ SlotsOK(msgs, nextID)
  /\ closing \in [Workers -> BOOLEAN]
  /\ ctx \in BOOLEAN
  /\ caller \in {Idle} \cup Dispatching
  /\ given \in SUBSET Deliveries
  /\ owed \in SUBSET Owed
  /\ calls \in [Deliveries -> Seq(Verdicts)]
  /\ published \in SUBSET [d : Deliveries, named : BOOLEAN,
                           chain : Deliveries \cup {None}]
  /\ unanswered \in SUBSET Deliveries

(* Who has a delivery: a slot of a worker, or a goroutine about to call    *)
(* one of its callbacks.                                                   *)
InSlot(d) == \E w \in Workers : \E i \in DOMAIN msgs[w] : msgs[w][i].d = d
IsOwed(d) == \E o \in owed : o.d = d
InDispatch(d) == caller.pc \in {"check", "asleep"} /\ caller.d = d

OneSlot ==
  \A v, w \in Workers : \A i \in DOMAIN msgs[v], j \in DOMAIN msgs[w] :
    msgs[v][i].d = msgs[w][j].d => v = w /\ i = j

OneDebt == \A o, q \in owed : o.d = q.d => o = q

(* The map entry is the gate (worker.go:66): at every moment a delivery is *)
(* in at most one slot, or due at most one call by one goroutine, or has   *)
(* been settled by one call, and these exclude each other; so whatever the *)
(* race of done, timeout, process death and a failed send, no callback is  *)
(* ever called twice, nor two of them.                                     *)
OneOwner ==
  /\ OneSlot
  /\ OneDebt
  /\ \A d \in Deliveries :
       /\ InSlot(d) => ~IsOwed(d)
       /\ InSlot(d) \/ IsOwed(d) => calls[d] = <<>>
       /\ InDispatch(d) => ~InSlot(d) /\ ~IsOwed(d) /\ calls[d] = <<>>
       /\ Len(calls[d]) <= 1

OwnEntry ==
  caller.pc = "send" =>
    /\ caller.id < nextID[caller.w]
    /\ caller.id \in DOMAIN msgs[caller.w]
         => msgs[caller.w][caller.id].d = caller.d

OwnDebt ==
  \A o \in owed : o.by = "caller" => caller.pc = "requeue" /\ o.d = caller.d

NoTrace ==
  /\ caller.pc # "idle" => caller.d \in given
  /\ \A d \in Deliveries \ given :
       ~InSlot(d) /\ ~IsOwed(d) /\ calls[d] = <<>>

(* The entry a Dispatch blocked in p.send may reclaim is its own: ids are  *)
(* never handed out again, not even by the next process, so the id it      *)
(* holds names its delivery or nothing (worker.go:434-461).  Only a        *)
(* Dispatch that reclaimed an entry owes a requeue, and a delivery not yet *)
(* offered has left no trace.                                              *)
CallerGate ==
  /\ OwnEntry
  /\ OwnDebt
  /\ NoTrace

(* A message in the map of a worker has a process to run it and a          *)
(* supervisor that will reap that process: run never leaves a message      *)
(* behind when it drops w.cur or marks the worker stopped, and settles     *)
(* what it took over before either (worker.go:199-225).                    *)
NothingStranded ==
  \A w \in Workers :
    /\ live[w] <=> sup[w] \in {"read", "wait"}
    /\ DOMAIN msgs[w] # {} => live[w]
    /\ ~ReaderFree(w) => sup[w] \in {"read", "settle", "settleStop"}

(* A delivery is requeued only if no process took it off the wire          *)
(* (worker.go:207-208): a message the broker delivers again because of a   *)
(* dead or stopping process has not been run before.  It needs the reader  *)
(* to drain stdout to its end, so it is stated for handlers whose frames   *)
(* are readable.                                                           *)
RequeueUnprocessed ==
  \A d \in Deliveries :
    \/ calls[d] = <<"requeue">>
    \/ \E o \in owed : o.d = d /\ o.v = "requeue"
    => d \notin seen

(* An emit that names its message leaves with that message's chain,        *)
(* whatever else is in flight and however often the process was replaced;  *)
(* only if the message was already given up by its timeout the chain may   *)
(* be lost.  An emit that names none has no chain (worker.go:335-348,      *)
(* note.go:74-82).                                                         *)
EmitKeepsChain ==
  \A e \in published :
    \/ e.named /\ e.chain = e.d
    \/ ~e.named /\ e.chain = None
    \/ /\ HasTimeout /\ e.chain = None
       /\ calls[e.d] = <<"nack">> \/ \E o \in owed : o.d = e.d /\ o.v = "nack"

(* The queue of cap+1 notes (worker.go:271) has room for the emit_ack of a *)
(* handler that waits for each one: ackEmit's lossy default branch is not  *)
(* taken.  It holds on two conditions: handlers wait (the fake handler of  *)
(* worker_test.go does not), and no timeout frees the slot of a message    *)
(* that is still running.                                                  *)
NoAckLost == unanswered = {}

(* A message that has a slot also has room in the queue, so the p.send of  *)
(* Dispatch does not block: Dispatch blocks "until a slot frees"           *)
(* (pool.go:46) and on nothing else.  It holds on the same two conditions: *)
(* handlers wait for each emit_ack, and no message has a timeout.          *)
SendHasRoom ==
  caller.pc = "send" /\ caller.p = gen[caller.w] /\ ~stop[caller.w]
    => Len(out[caller.w]) < OutCap

(* Without timeouts the map mirrors the process: the messages a handler    *)
(* has in hand or still to read are never more than cap (worker.go:429),   *)
(* although it works on them long before and after the engine looks.       *)
HandlerWithinCap ==
  \A w \in Workers :
    LET unread == {i \in DOMAIN stdin[w] : stdin[w][i].k = "deliver"}
    IN  Cardinality(hand[w]) + Cardinality(unread) <= Cap

(* Refinement: Dispatch and the workers implement the contract Settlement  *)
(* states: one offer at a time, refused without a call or taken and then   *)
(* settled by one call.                                                    *)
PhaseOf ==
  [d \in Deliveries |->
     IF calls[d] # <<>> THEN "settled"
     ELSE IF InSlot(d) \/ IsOwed(d) THEN "taken"
     ELSE IF InDispatch(d) THEN "offered"
     ELSE IF d \in given THEN "refused"
     ELSE "new"]

Contract == INSTANCE Settlement WITH phase <- PhaseOf
KeepsContract == Contract!ContractSpec

(* A delivery a worker has taken is settled (worker.go:414).               *)
TakenIsSettled ==
  \A d \in Deliveries : InSlot(d) ~> calls[d] # <<>>

(* Dispatch returns: its sleep ends, and its send does not block forever.  *)
DispatchReturns == caller.pc # "idle" ~> caller.pc = "idle"
=============================================================================

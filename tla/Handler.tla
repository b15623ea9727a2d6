------------------------------- MODULE Handler -------------------------------
(***************************************************************************)
(* The handler process of each worker and the two pipes that join it to    *)
(* the engine.  The process is the agent author's program, not part of the *)
(* repository: it is modelled from the notes internal/note defines, from   *)
(* what internal/worker expects of it, and from the fake handler of        *)
(* internal/worker/worker_test.go.  It takes deliver notes off stdin and   *)
(* reports each with a pickup note before it runs it, emits, reports done, *)
(* and exits once stdin is at EOF and its work is finished.  It may also   *)
(* crash, repeat a done, or write a frame the engine cannot read.          *)
(*                                                                         *)
(* At most one process per worker is alive: a worker reaps its process     *)
(* before it spawns the next, so one slot per worker is enough.            *)
(***************************************************************************)
EXTENDS Naturals, Sequences, FiniteSets

CONSTANTS
  Workers,     \* the pool's workers
  Deliveries,  \* the worker.Delivery values handed to Dispatch
  None,        \* stands for nil
  PipeCap,     \* notes a pipe holds before its writer blocks
  MaxFaults,   \* bound: crashes, failed spawns, repeated dones, bad frames
  MaxEmits,    \* bound: emit notes written by all handlers together
  BadFrames,   \* TRUE if a handler may write a frame the engine rejects
  SyncEmits,   \* TRUE if a handler waits for the emit_ack of each emit
  Careless     \* TRUE if an emit may leave out the message it answers

ASSUME HandlerAssumption ==
  /\ None \notin Deliveries
  /\ None \notin Workers
  /\ PipeCap \in Nat \ {0}
  /\ MaxFaults \in Nat
  /\ MaxEmits \in Nat
  /\ BadFrames \in BOOLEAN
  /\ SyncEmits \in BOOLEAN
  /\ Careless \in BOOLEAN

VARIABLES
  alive,   \* alive[w]: the process of w runs
  hand,    \* hand[w]: the messages the process has picked up and not ended
  stdin,   \* stdin[w]: engine to handler notes in the pipe
  eof,     \* eof[w]: the engine has closed stdin
  stdout,  \* stdout[w]: handler to engine notes in the pipe
  seen,    \* history: the deliveries some process has picked up
  faults,  \* how many faults have happened
  emits    \* how many emit notes have been written

handlerVars == <<alive, hand, stdin, eof, stdout, seen, faults, emits>>

(* Engine to handler notes: deliver and emit_ack (init is part of spawn).  *)
OutNote == [k : {"deliver", "emit_ack"}, id : Nat, d : Deliveries]

(* Handler to engine notes.  ok is the status of a done and, for an emit,  *)
(* whether its selector is a declared output.  An emit is made by the code *)
(* that runs d; whether it names d as the message it answers nobody looks  *)
(* at before onEmit, which decides it there.  BadNote is whatever makes    *)
(* Reader.Read fail while the process runs on: a frame that is no note, an *)
(* oversized length, or stdout closed early.                               *)
BadNote == [k |-> "bad", id |-> 0, d |-> None, ok |-> FALSE]
InNote == [k : {"pickup", "done", "emit"}, id : Nat, d : Deliveries,
           ok : BOOLEAN] \cup {BadNote}

(* A message in the process's hands; wait: it awaits an emit_ack.          *)
Held == [id : Nat, d : Deliveries, wait : BOOLEAN]

HandlerTypeOK ==
  /\ alive \in [Workers -> BOOLEAN]
  /\ hand \in [Workers -> SUBSET Held]
  /\ stdin \in [Workers -> Seq(OutNote)]
  /\ eof \in [Workers -> BOOLEAN]
  /\ stdout \in [Workers -> Seq(InNote)]
  /\ seen \in SUBSET Deliveries
  /\ faults \in Nat
  /\ emits \in Nat

HandlerInit ==
  /\ alive = [w \in Workers |-> FALSE]
  /\ hand = [w \in Workers |-> {}]
  /\ stdin = [w \in Workers |-> <<>>]
  /\ eof = [w \in Workers |-> FALSE]
  /\ stdout = [w \in Workers |-> <<>>]
  /\ seen = {}
  /\ faults = 0
  /\ emits = 0

-----------------------------------------------------------------------------

Fault == faults < MaxFaults /\ faults' = faults + 1

Says(w, notes) ==
  /\ Len(stdout[w]) + Len(notes) <= PipeCap
  /\ stdout' = [stdout EXCEPT ![w] = @ \o notes]

(* Take a deliver off stdin and report the pickup before running it.       *)
HandlerTake(w) ==
  /\ alive[w]
  /\ stdin[w] # <<>> /\ Head(stdin[w]).k = "deliver"
  /\ LET n == Head(stdin[w])
     IN  /\ Says(w, <<[k |-> "pickup", id |-> n.id, d |-> n.d, ok |-> TRUE]>>)
         /\ hand' = [hand EXCEPT ![w] =
                       @ \cup {[id |-> n.id, d |-> n.d, wait |-> FALSE]}]
         /\ seen' = seen \cup {n.d}
  /\ stdin' = [stdin EXCEPT ![w] = Tail(@)]
  /\ UNCHANGED <<alive, eof, faults, emits>>

(* Take an emit_ack off stdin; the message that waits for it goes on.      *)
HandlerHearAck(w) ==
  /\ alive[w]
  /\ stdin[w] # <<>> /\ Head(stdin[w]).k = "emit_ack"
  /\ LET n == Head(stdin[w])
     IN  hand' = [hand EXCEPT ![w] =
                    {m \in @ : m.id # n.id}
                      \cup {[m EXCEPT !.wait = FALSE] :
                              m \in {h \in hand[w] : h.id = n.id}}]
  /\ stdin' = [stdin EXCEPT ![w] = Tail(@)]
  /\ UNCHANGED <<alive, eof, stdout, seen, faults, emits>>

(* Emit on a declared or an undeclared selector, for a message in hand.    *)
HandlerEmit(w, m, declared) ==
  /\ alive[w] /\ m \in hand[w] /\ ~m.wait
  /\ emits < MaxEmits
  /\ emits' = emits + 1
  /\ Says(w, <<[k |-> "emit", id |-> m.id, d |-> m.d, ok |-> declared]>>)
  /\ hand' = [hand EXCEPT ![w] =
                (@ \ {m}) \cup {[m EXCEPT !.wait = SyncEmits]}]
  /\ UNCHANGED <<alive, stdin, eof, seen, faults>>

(* End a message with ok or error.                                         *)
HandlerDone(w, m, ok) ==
  /\ alive[w] /\ m \in hand[w] /\ ~m.wait
  /\ Says(w, <<[k |-> "done", id |-> m.id, d |-> m.d, ok |-> ok]>>)
  /\ hand' = [hand EXCEPT ![w] = @ \ {m}]
  /\ UNCHANGED <<alive, stdin, eof, seen, faults, emits>>

(* A faulty handler reports the same message done twice, ok then error.    *)
HandlerDoneTwice(w, m) ==
  /\ alive[w] /\ m \in hand[w] /\ ~m.wait
  /\ Fault
  /\ Says(w, <<[k |-> "done", id |-> m.id, d |-> m.d, ok |-> TRUE],
               [k |-> "done", id |-> m.id, d |-> m.d, ok |-> FALSE]>>)
  /\ hand' = [hand EXCEPT ![w] = @ \ {m}]
  /\ UNCHANGED <<alive, stdin, eof, seen, emits>>

(* Something other than a note reaches stdout; the process runs on.        *)
HandlerBad(w) ==
  /\ BadFrames /\ alive[w]
  /\ Fault
  /\ Says(w, <<BadNote>>)
  /\ UNCHANGED <<alive, hand, stdin, eof, seen, emits>>

(* The process dies; what it had written stays readable in stdout.         *)
Dies(w) ==
  /\ alive[w]
  /\ alive' = [alive EXCEPT ![w] = FALSE]
  /\ hand' = [hand EXCEPT ![w] = {}]
  /\ UNCHANGED <<stdin, eof, stdout, seen, emits>>

HandlerCrash(w) == Fault /\ Dies(w)

(* A clean exit: stdin is at EOF and every message has been ended.         *)
HandlerExit(w) ==
  /\ eof[w] /\ stdin[w] = <<>> /\ hand[w] = {}
  /\ Dies(w)
  /\ UNCHANGED faults

(* What a handler that follows the note protocol does for a message.       *)
HandlerWork(w) ==
  \/ HandlerTake(w)
  \/ HandlerHearAck(w)
  \/ \E m \in hand[w], ok \in BOOLEAN : HandlerDone(w, m, ok)
  \/ HandlerExit(w)

(* What a handler that runs one message at a time can be relied on for:    *)
(* while it has one to run it does not read, and its writes block.         *)
HandlerProgress(w) ==
  \/ (\A m \in hand[w] : m.wait) /\ (HandlerTake(w) \/ HandlerHearAck(w))
  \/ \E m \in hand[w], ok \in BOOLEAN : HandlerDone(w, m, ok)
  \/ HandlerExit(w)

HandlerStep(w) ==
  \/ HandlerWork(w)
  \/ \E m \in hand[w], declared \in BOOLEAN : HandlerEmit(w, m, declared)
  \/ \E m \in hand[w] : HandlerDoneTwice(w, m)
  \/ HandlerBad(w)
  \/ HandlerCrash(w)
=============================================================================

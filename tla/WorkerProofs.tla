---------------------------- MODULE WorkerProofs ----------------------------
(***************************************************************************)
(* The handler processes and the workers keep their types, and no message  *)
(* is left in the map of a worker without a process: for any number of     *)
(* workers, deliveries, slots and faults, with or without timeouts, and    *)
(* whatever the handlers do.                                               *)
(***************************************************************************)
EXTENDS Worker, SequenceTheorems, TLAPS

-----------------------------------------------------------------------------
(* Types of the handler processes                                          *)

(* Writing notes to stdout keeps stdout a sequence of notes.               *)
LEMMA SaysType ==
  ASSUME HandlerTypeOK, NEW w \in Workers, NEW notes \in Seq(InNote),
         Says(w, notes)
  PROVE  stdout' \in [Workers -> Seq(InNote)]
<1>1. stdout[w] \o notes \in Seq(InNote)
  BY ConcatProperties DEF HandlerTypeOK
<1>2. QED BY <1>1 DEF Says, HandlerTypeOK

(* What a process takes off its stdin is a note of the engine, and what is *)
(* left there is still a sequence of notes.                                *)
LEMMA StdinHead ==
  ASSUME HandlerTypeOK, NEW w \in Workers, stdin[w] # <<>>
  PROVE  /\ Head(stdin[w]) \in OutNote
         /\ [stdin EXCEPT ![w] = Tail(@)] \in [Workers -> Seq(OutNote)]
<1>1. stdin[w] \in Seq(OutNote)
  BY DEF HandlerTypeOK
<1>2. Head(stdin[w]) \in OutNote /\ Tail(stdin[w]) \in Seq(OutNote)
  BY <1>1, HeadTailProperties
<1>3. QED BY <1>2 DEF HandlerTypeOK

(* A fault is a step of the fault counter.                                 *)
LEMMA FaultType == ASSUME HandlerTypeOK, Fault PROVE faults' \in Nat
  BY DEF Fault, HandlerTypeOK

(* Every step of a handler process keeps the types of its variables.       *)
LEMMA HandlerStepType ==
  ASSUME HandlerTypeOK, NEW w \in Workers, HandlerStep(w)
  PROVE  HandlerTypeOK'
<1>1. CASE HandlerTake(w)
  <2> DEFINE n == Head(stdin[w])
             pickup == <<[k |-> "pickup", id |-> n.id, d |-> n.d, ok |-> TRUE]>>
  <2>1. n \in OutNote /\ stdin' \in [Workers -> Seq(OutNote)]
    BY <1>1, StdinHead DEF HandlerTake
  <2>2. pickup \in Seq(InNote)
    BY <2>1 DEF OutNote, InNote
  <2>3. stdout' \in [Workers -> Seq(InNote)]
    BY <1>1, <2>2, SaysType DEF HandlerTake
  <2>4. hand' \in [Workers -> SUBSET Held] /\ seen' \in SUBSET Deliveries
    <3>1. n.d \in Deliveries /\ [id |-> n.id, d |-> n.d, wait |-> FALSE] \in Held
      BY <2>1 DEF OutNote, Held
    <3>2. /\ hand' = [hand EXCEPT ![w] =
                       @ \cup {[id |-> n.id, d |-> n.d, wait |-> FALSE]}]
          /\ seen' = seen \cup {n.d}
      BY <1>1 DEF HandlerTake
    <3> HIDE DEF n
    <3>3. QED BY <3>1, <3>2 DEF HandlerTypeOK
  <2>5. QED BY <1>1, <2>1, <2>3, <2>4 DEF HandlerTake, HandlerTypeOK
<1>2. CASE HandlerHearAck(w)
  <2>1. stdin' \in [Workers -> Seq(OutNote)]
    BY <1>2, StdinHead DEF HandlerHearAck
  <2>2. hand' \in [Workers -> SUBSET Held]
    <3>1. hand[w] \subseteq Held
      BY DEF HandlerTypeOK
    <3>2. \A m \in Held : [m EXCEPT !.wait = FALSE] \in Held
      BY DEF Held
    <3>3. QED BY <1>2, <3>1, <3>2 DEF HandlerHearAck, HandlerTypeOK
  <2>3. QED BY <1>2, <2>1, <2>2 DEF HandlerHearAck, HandlerTypeOK
<1>3. ASSUME NEW m \in hand[w], NEW ok \in BOOLEAN, HandlerDone(w, m, ok)
      PROVE  HandlerTypeOK'
  <2>1. m \in Held
    BY DEF HandlerTypeOK
  <2>2. <<[k |-> "done", id |-> m.id, d |-> m.d, ok |-> ok]>> \in Seq(InNote)
    BY <2>1 DEF Held, InNote
  <2>3. stdout' \in [Workers -> Seq(InNote)]
    BY <1>3, <2>2, SaysType DEF HandlerDone
  <2>4. QED BY <1>3, <2>3 DEF HandlerDone, HandlerTypeOK
<1>4. CASE HandlerExit(w)
  BY <1>4 DEF HandlerExit, Dies, HandlerTypeOK
<1>5. ASSUME NEW m \in hand[w], NEW declared \in BOOLEAN,
             HandlerEmit(w, m, declared)
      PROVE  HandlerTypeOK'
  <2>1. m \in Held
    BY DEF HandlerTypeOK
  <2>2. <<[k |-> "emit", id |-> m.id, d |-> m.d, ok |-> declared]>>
          \in Seq(InNote)
    BY <2>1 DEF Held, InNote
  <2>3. stdout' \in [Workers -> Seq(InNote)]
    BY <1>5, <2>2, SaysType DEF HandlerEmit
  <2>4. [m EXCEPT !.wait = SyncEmits] \in Held
    BY <2>1, HandlerAssumption DEF Held
  <2>5. hand' \in [Workers -> SUBSET Held]
    BY <1>5, <2>4 DEF HandlerEmit, HandlerTypeOK
  <2>6. QED BY <1>5, <2>3, <2>5 DEF HandlerEmit, HandlerTypeOK
<1>6. ASSUME NEW m \in hand[w], HandlerDoneTwice(w, m)
      PROVE  HandlerTypeOK'
  <2> DEFINE twice == <<[k |-> "done", id |-> m.id, d |-> m.d, ok |-> TRUE],
                        [k |-> "done", id |-> m.id, d |-> m.d, ok |-> FALSE]>>
  <2>1. m \in Held
    BY DEF HandlerTypeOK
  <2>2. twice \in Seq(InNote)
    BY <2>1 DEF Held, InNote
  <2>3. stdout' \in [Workers -> Seq(InNote)]
    BY <1>6, <2>2, SaysType DEF HandlerDoneTwice
  <2>4. QED BY <1>6, <2>3, FaultType DEF HandlerDoneTwice, HandlerTypeOK
<1>7. CASE HandlerBad(w)
  <2>1. <<BadNote>> \in Seq(InNote)
    BY DEF InNote
  <2>2. stdout' \in [Workers -> Seq(InNote)]
    BY <1>7, <2>1, SaysType DEF HandlerBad
  <2>3. QED BY <1>7, <2>2, FaultType DEF HandlerBad, HandlerTypeOK
<1>8. CASE HandlerCrash(w)
  BY <1>8, FaultType DEF HandlerCrash, Dies, HandlerTypeOK
<1>9. QED BY <1>1, <1>2, <1>3, <1>4, <1>5, <1>6, <1>7, <1>8
          DEF HandlerStep, HandlerWork

-----------------------------------------------------------------------------
(* Types of the workers                                                    *)

LEMMA HandlerStutter ==
  ASSUME HandlerTypeOK, UNCHANGED handlerVars
  PROVE  HandlerTypeOK'
  BY DEF HandlerTypeOK, handlerVars

(* A broadcast leaves a caller a caller, awake where it was.               *)
LEMMA BroadcastType ==
  ASSUME caller \in {Idle} \cup Dispatching, NEW w \in Workers
  PROVE  Broadcast(w) \in {Idle} \cup Dispatching
  BY DEF Broadcast, Idle, Dispatching

(* A caller that is not idle has a worker, a delivery and an id.           *)
LEMMA CallerBusy ==
  ASSUME caller \in {Idle} \cup Dispatching, caller.pc # "idle"
  PROVE  caller \in Dispatching /\ caller.w \in Workers
         /\ caller.d \in Deliveries /\ caller.id \in Nat /\ caller.p \in Nat
  BY DEF Idle, Dispatching

(* Dropping a slot keeps the maps well formed.                             *)
LEMMA DeleteSlots ==
  ASSUME SlotsOK(msgs, nextID), NEW w \in Workers, NEW id
  PROVE  SlotsOK([msgs EXCEPT ![w] = Delete(@, id)], nextID)
  BY DEF SlotsOK, Delete

(* What a slot holds.                                                      *)
LEMMA SlotType ==
  ASSUME SlotsOK(msgs, nextID), NEW w \in Workers, NEW id \in DOMAIN msgs[w]
  PROVE  /\ msgs[w][id] \in Inflight
         /\ msgs[w][id].d \in Deliveries
         /\ msgs[w][id].picked \in BOOLEAN
  BY DEF SlotsOK, Inflight

(* Reading a note off stdout.                                              *)
LEMMA ReadsType ==
  ASSUME HandlerTypeOK, NEW w \in Workers, NEW kind, Reads(w, kind)
  PROVE  HandlerTypeOK' /\ Head(stdout[w]) \in InNote
<1>1. stdout[w] \in Seq(InNote) /\ stdout[w] # <<>>
  BY DEF Reads, HandlerTypeOK
<1>2. Head(stdout[w]) \in InNote /\ Tail(stdout[w]) \in Seq(InNote)
  BY <1>1, HeadTailProperties
<1>3. QED BY <1>2 DEF Reads, HandlerTypeOK

THEOREM InitType == WorkerInit => TypeOK
<1> SUFFICES ASSUME WorkerInit PROVE TypeOK
  OBVIOUS
<1>1. HandlerTypeOK
  BY DEF WorkerInit, HandlerInit, HandlerTypeOK
<1>2. SlotsOK(msgs, nextID)
  <2>1. <<>> \in [{} -> Inflight] /\ DOMAIN <<>> = {}
    OBVIOUS
  <2>2. QED BY <2>1 DEF WorkerInit, SlotsOK
<1>3. /\ sup \in [Workers -> SupStates]
      /\ live \in [Workers -> BOOLEAN]
      /\ gen \in [Workers -> Nat]
      /\ stop \in [Workers -> BOOLEAN]
      /\ nextID \in [Workers -> Nat \ {0}]
      /\ closing \in [Workers -> BOOLEAN]
      /\ ctx \in BOOLEAN
  <2>1. sup \in [Workers -> SupStates]
    BY DEF WorkerInit, SupStates
  <2>2. live \in [Workers -> BOOLEAN] /\ stop \in [Workers -> BOOLEAN]
    BY DEF WorkerInit
  <2>3. closing \in [Workers -> BOOLEAN] /\ ctx \in BOOLEAN
    BY DEF WorkerInit
  <2>4. gen \in [Workers -> Nat] /\ nextID \in [Workers -> Nat \ {0}]
    BY DEF WorkerInit
  <2>5. QED BY <2>1, <2>2, <2>3, <2>4
<1>4. /\ out \in [Workers -> Seq(OutNote)]
      /\ calls \in [Deliveries -> Seq(Verdicts)]
  BY DEF WorkerInit
<1>5. /\ caller \in {Idle} \cup Dispatching
      /\ given \in SUBSET Deliveries /\ owed \in SUBSET Owed
      /\ published \in SUBSET [d : Deliveries, named : BOOLEAN,
                               chain : Deliveries \cup {None}]
      /\ unanswered \in SUBSET Deliveries
  BY DEF WorkerInit
<1>6. QED BY <1>1, <1>2, <1>3, <1>4, <1>5 DEF TypeOK

(* A failing spawn leaves the supervisor where it is, or stops or backs    *)
(* off.                                                                    *)
LEMMA SpawnFailMoves ==
  ASSUME TypeOK, NEW w \in Workers, SpawnFail(w)
  PROVE  \E s \in {"init", "stopped", "backoff"} :
           /\ sup' = [sup EXCEPT ![w] = s]
           /\ s = "init" => sup' = sup
<1>1. CASE InitFails(w)
  <2>1. sup' = sup /\ sup[w] = "init"
    BY <1>1 DEF InitFails, procVars
  <2>2. sup' = [sup EXCEPT ![w] = "init"]
    BY <2>1 DEF TypeOK
  <2>3. QED BY <2>1, <2>2
<1>2. CASE ~InitFails(w)
  BY <1>2 DEF SpawnFail, SpawnError
<1>3. QED BY <1>1, <1>2

LEMMA CallerStepType ==
  ASSUME TypeOK, CallerStep
  PROVE  TypeOK'
<1> USE DEF TypeOK
<1>1. CASE DispatchRefuse
  BY <1>1, HandlerStutter DEF DispatchRefuse, procVars, slotVars, shutVars,
     ledgerVars, emitVars
<1>2. CASE DispatchRegister
  <2> DEFINE w == caller.w
             id == nextID[w]
  <2>1. w \in Workers /\ caller \in Dispatching /\ id \in Nat \ {0}
        /\ gen[w] \in Nat
    BY <1>2, CallerBusy DEF FollowingID, DispatchRegister
  <2>2. [d |-> caller.d, picked |-> FALSE] \in Inflight
    BY <2>1 DEF Dispatching, Inflight
  <2>3. nextID' \in [Workers -> Nat \ {0}]
    BY <1>2, <2>1 DEF FollowingID, DispatchRegister
  <2>4. SlotsOK(msgs, nextID)'
    BY <1>2, <2>1, <2>2 DEF FollowingID, DispatchRegister, SlotsOK
  <2>5. caller' \in Dispatching
    BY <1>2, <2>1 DEF FollowingID, DispatchRegister, Dispatching
  <2>6. QED BY <1>2, <2>3, <2>4, <2>5, HandlerStutter
            DEF FollowingID, DispatchRegister, procVars, shutVars, ledgerVars,
                emitVars
<1>3. CASE DispatchWait
  <2>1. caller' \in Dispatching
    BY <1>3, CallerBusy DEF DispatchWait, Dispatching
  <2>2. QED BY <1>3, <2>1, HandlerStutter
            DEF DispatchWait, procVars, slotVars, shutVars, ledgerVars,
                emitVars
<1>4. CASE SendQueued
  <2> DEFINE w == caller.w
             n == [k |-> "deliver", id |-> caller.id, d |-> caller.d]
  <2>1. w \in Workers /\ n \in OutNote
    BY <1>4, CallerBusy DEF SendQueued, OutNote
  <2>2. Append(out[w], n) \in Seq(OutNote)
    BY <2>1, AppendProperties
  <2>3. out' \in [Workers -> Seq(OutNote)]
    BY <1>4, <2>2 DEF SendQueued
  <2>4. QED BY <1>4, <2>3, HandlerStutter
            DEF SendQueued, slotVars, shutVars, ledgerVars, emitVars
<1>5. CASE SendStopped
  <2>1. caller.w \in Workers /\ caller \in Dispatching
    BY <1>5, CallerBusy DEF StillThere, SendStopped
  <2>2. SlotsOK(msgs', nextID)
    <3>1. \/ msgs' = [msgs EXCEPT ![caller.w] = Delete(@, caller.id)]
          \/ msgs' = msgs
      BY <1>5 DEF StillThere, SendStopped
    <3>2. SlotsOK([msgs EXCEPT ![caller.w] = Delete(@, caller.id)], nextID)
      BY <2>1, DeleteSlots
    <3>3. QED BY <3>1, <3>2
  <2>3. owed' \in SUBSET Owed
    <3>1. [by |-> "caller", w |-> caller.w, d |-> caller.d, v |-> "requeue"]
            \in Owed
      BY <2>1 DEF Owed, Verdicts, Dispatching
    <3>2. QED BY <1>5, <3>1 DEF StillThere, SendStopped
  <2>4. caller' \in {Idle} \cup Dispatching
    BY <1>5, <2>1 DEF StillThere, SendStopped, Dispatching
  <2>5. QED BY <1>5, <2>2, <2>3, <2>4, HandlerStutter
            DEF StillThere, SendStopped, procVars, shutVars, emitVars
<1>6. ASSUME NEW w \in Workers, CtxWake(w) PROVE TypeOK'
  BY <1>6, HandlerStutter, BroadcastType
     DEF CtxWake, procVars, slotVars, shutVars, ledgerVars, emitVars
<1>7. QED BY <1>1, <1>2, <1>3, <1>4, <1>5, <1>6 DEF CallerStep

LEMMA SpawnType ==
  ASSUME TypeOK, NEW w \in Workers,
         SpawnStart(w) \/ SpawnReady(w) \/ SpawnFail(w) \/ BackoffEnds(w)
         \/ StaleSettled(w)
  PROVE  TypeOK'
<1> USE DEF TypeOK
<1>1. CASE SpawnStart(w)
  <2>1. HandlerTypeOK'
    BY <1>1 DEF SpawnStart, HandlerTypeOK
  <2>2. sup' \in [Workers -> SupStates]
    BY <1>1 DEF SpawnStart, SupStates
  <2>3. QED BY <1>1, <2>1, <2>2
            DEF SpawnStart, slotVars, shutVars, ledgerVars, emitVars
<1>2. CASE SpawnReady(w)
  <2>1. sup' \in [Workers -> SupStates]
    BY <1>2 DEF SpawnReady, SupStates
  <2>2. stop' \in [Workers -> BOOLEAN] /\ live' \in [Workers -> BOOLEAN]
    BY <1>2 DEF SpawnReady
  <2>3. gen' \in [Workers -> Nat] /\ out' \in [Workers -> Seq(OutNote)]
    BY <1>2 DEF SpawnReady
  <2>4. QED BY <1>2, <2>1, <2>2, <2>3, HandlerStutter, BroadcastType
            DEF SpawnReady, slotVars, shutVars, ledgerVars, emitVars
<1>3. CASE SpawnFail(w)
  <2>1. HandlerTypeOK'
    BY <1>3, FaultType DEF SpawnFail, SpawnError, InitFails, HandlerTypeOK
  <2>2. sup' \in [Workers -> SupStates]
    BY <1>3 DEF SpawnFail, SpawnError, InitFails, SupStates, procVars
  <2>3. QED BY <1>3, <2>1, <2>2
            DEF SpawnFail, SpawnError, InitFails, procVars, slotVars,
                shutVars, ledgerVars, emitVars
<1>4. CASE BackoffEnds(w)
  <2>1. sup' \in [Workers -> SupStates]
    BY <1>4 DEF BackoffEnds, SupStates
  <2>2. QED BY <1>4, <2>1, HandlerStutter
            DEF BackoffEnds, slotVars, shutVars, ledgerVars, emitVars
<1>5. CASE StaleSettled(w)
  <2>1. sup' \in [Workers -> SupStates]
    BY <1>5 DEF StaleSettled, SupStates
  <2>2. QED BY <1>5, <2>1, HandlerStutter
            DEF StaleSettled, slotVars, shutVars, ledgerVars, emitVars
<1>6. QED BY <1>1, <1>2, <1>3, <1>4, <1>5

LEMMA ReadType ==
  ASSUME TypeOK, NEW w \in Workers,
         OnPickup(w) \/ OnDone(w) \/ OnEmit(w) \/ ReadEOF(w) \/ ReadError(w)
         \/ Reap(w)
  PROVE  TypeOK'
<1> USE DEF TypeOK
<1>1. CASE OnPickup(w)
  <2>1. HandlerTypeOK'
    BY <1>1, ReadsType DEF OnPickup
  <2>2. SlotsOK(msgs', nextID)
    <3> DEFINE id == Head(stdout[w]).id
               e  == [msgs[w][id] EXCEPT !.picked = TRUE]
    <3>1. CASE id \in DOMAIN msgs[w]
      <4>1. e \in Inflight
        BY <3>1, SlotType DEF Inflight
      <4>2. msgs' = [msgs EXCEPT ![w] = [@ EXCEPT ![id] = e]]
        BY <1>1, <3>1 DEF OnPickup
      <4>3. [msgs[w] EXCEPT ![id] = e] \in [DOMAIN msgs[w] -> Inflight]
        BY <4>1 DEF SlotsOK
      <4>4. QED BY <4>2, <4>3 DEF SlotsOK
    <3>2. CASE id \notin DOMAIN msgs[w]
      BY <1>1, <3>2 DEF OnPickup
    <3>3. QED BY <3>1, <3>2
  <2>3. QED BY <1>1, <2>1, <2>2
            DEF OnPickup, procVars, shutVars, ledgerVars, emitVars
<1>2. CASE OnDone(w)
  <2> DEFINE n == Head(stdout[w])
             o == [by |-> "reader", w |-> w, d |-> msgs[w][n.id].d,
                   v |-> IF n.ok THEN "ack" ELSE "nack"]
  <2>1. HandlerTypeOK'
    BY <1>2, ReadsType DEF OnDone
  <2>2. CASE n.id \in DOMAIN msgs[w]
    <3>1. o \in Owed
      BY <2>2, SlotType DEF Owed, Verdicts
    <3>2. SlotsOK(msgs', nextID)
      <4>1. msgs' = [msgs EXCEPT ![w] = Delete(@, n.id)]
        BY <1>2, <2>2 DEF OnDone
      <4>2. QED BY <4>1, DeleteSlots
    <3>3. owed' \in SUBSET Owed /\ caller' \in {Idle} \cup Dispatching
      BY <1>2, <2>2, <3>1, BroadcastType DEF OnDone
    <3>4. QED BY <1>2, <2>1, <3>2, <3>3 DEF OnDone, procVars, shutVars,
                                            emitVars
  <2>3. CASE n.id \notin DOMAIN msgs[w]
    BY <1>2, <2>1, <2>3 DEF OnDone, procVars, shutVars, emitVars
  <2>4. QED BY <2>2, <2>3
<1>3. CASE OnEmit(w)
  <2> DEFINE n == Head(stdout[w])
             a == [k |-> "emit_ack", id |-> n.id, d |-> n.d]
  <2>1. HandlerTypeOK' /\ n \in InNote /\ n.k = "emit"
    BY <1>3, ReadsType DEF OnEmit, Reads
  <2>2. n.id \in Nat /\ n.d \in Deliveries
    BY <2>1 DEF InNote, BadNote
  <2>3. ChainOf(w, n.id) \in Deliveries \cup {None}
    BY SlotType DEF ChainOf
  <2>4. published' \in SUBSET [d : Deliveries, named : BOOLEAN,
                               chain : Deliveries \cup {None}]
    <3>1. \A b \in BOOLEAN :
            [d |-> n.d, named |-> b,
             chain |-> IF b THEN ChainOf(w, n.id) ELSE None]
              \in [d : Deliveries, named : BOOLEAN,
                  chain : Deliveries \cup {None}]
      BY <2>2, <2>3
    <3>2. PICK b \in BOOLEAN :
            published' \subseteq
              published \cup {[d |-> n.d, named |-> b,
                              chain |-> IF b THEN ChainOf(w, n.id) ELSE None]}
      BY <1>3 DEF OnEmit
    <3>3. QED BY <3>1, <3>2
  <2>5. Append(out[w], a) \in Seq(OutNote)
    BY <2>2, AppendProperties DEF OutNote
  <2>6. out' \in [Workers -> Seq(OutNote)]
    BY <1>3, <2>5 DEF OnEmit, AckEmit
  <2>7. unanswered' \in SUBSET Deliveries
    BY <1>3, <2>2 DEF OnEmit, AckEmit
  <2>8. QED BY <1>3, <2>1, <2>4, <2>6, <2>7
            DEF OnEmit, slotVars, shutVars, ledgerVars
<1>4. CASE ReadEOF(w)
  <2>1. sup' \in [Workers -> SupStates] /\ stop' \in [Workers -> BOOLEAN]
    BY <1>4 DEF ReadEOF, ReadLoopReturns, SupStates
  <2>2. QED BY <1>4, <2>1, HandlerStutter
            DEF ReadEOF, ReadLoopReturns, slotVars, shutVars, ledgerVars,
                emitVars
<1>5. CASE ReadError(w)
  <2>1. HandlerTypeOK'
    BY <1>5, ReadsType DEF ReadError
  <2>2. sup' \in [Workers -> SupStates] /\ stop' \in [Workers -> BOOLEAN]
    BY <1>5 DEF ReadError, ReadLoopReturns, SupStates
  <2>3. QED BY <1>5, <2>1, <2>2
            DEF ReadError, ReadLoopReturns, slotVars, shutVars, ledgerVars,
                emitVars
<1>6. CASE Reap(w)
  <2> DEFINE o(i) == [by |-> "reader", w |-> w, d |-> msgs[w][i].d,
                      v |-> StaleVerdict(msgs[w][i])]
  <2>1. \A i \in DOMAIN msgs[w] : o(i) \in Owed
    BY SlotType DEF Owed, Verdicts, StaleVerdict
  <2>2. owed' = owed \cup {o(i) : i \in DOMAIN msgs[w]}
    BY <1>6 DEF Reap
  <2>3. owed' \in SUBSET Owed
    BY <2>1, <2>2
  <2>4. <<>> \in [{} -> Inflight] /\ DOMAIN <<>> = {}
    OBVIOUS
  <2>5. SlotsOK(msgs', nextID)
    BY <1>6, <2>4 DEF Reap, SlotsOK
  <2>6. sup' \in [Workers -> SupStates]
    BY <1>6 DEF Reap, SupStates
  <2>7. live' \in [Workers -> BOOLEAN] /\ caller' \in {Idle} \cup Dispatching
    BY <1>6, BroadcastType DEF Reap
  <2>8. QED BY <1>6, <2>3, <2>5, <2>6, <2>7, HandlerStutter
            DEF Reap, shutVars, emitVars
<1>7. QED BY <1>1, <1>2, <1>3, <1>4, <1>5, <1>6

LEMMA WriterType ==
  ASSUME TypeOK, NEW w \in Workers, WriterStep(w)
  PROVE  TypeOK'
<1> USE DEF TypeOK
<1>1. CASE WriteNote(w)
  <2> DEFINE n == Head(out[w])
  <2>1. out[w] \in Seq(OutNote) /\ out[w] # <<>>
    BY <1>1 DEF WriteNote
  <2>2. n \in OutNote /\ Tail(out[w]) \in Seq(OutNote)
    BY <2>1, HeadTailProperties
  <2>3. out' \in [Workers -> Seq(OutNote)]
    BY <1>1, <2>2 DEF WriteNote
  <2>4. Append(stdin[w], n) \in Seq(OutNote)
    BY <2>2, AppendProperties DEF HandlerTypeOK
  <2>5. stdin' \in [Workers -> Seq(OutNote)]
    BY <1>1, <2>4 DEF WriteNote, HandlerTypeOK
  <2>6. HandlerTypeOK'
    BY <1>1, <2>5 DEF WriteNote, HandlerTypeOK
  <2>7. QED BY <1>1, <2>3, <2>6
            DEF WriteNote, slotVars, shutVars, ledgerVars, emitVars
<1>2. CASE WriterCloses(w)
  <2>1. HandlerTypeOK'
    BY <1>2 DEF WriterCloses, HandlerTypeOK
  <2>2. QED BY <1>2, <2>1
            DEF WriterCloses, engineVars, procVars, slotVars, shutVars,
                ledgerVars, emitVars
<1>3. QED BY <1>1, <1>2 DEF WriterStep

LEMMA SettleCancelType ==
  ASSUME TypeOK, CtxCancel \/ SettleStep
  PROVE  TypeOK'
<1> USE DEF TypeOK
<1>1. CASE CtxCancel
  BY <1>1, HandlerStutter DEF CtxCancel, procVars, slotVars, ledgerVars,
     emitVars
<1>2. ASSUME NEW o \in owed, Settle(o) PROVE TypeOK'
  <2>1. o.d \in Deliveries /\ o.v \in Verdicts
    BY DEF Owed
  <2>2. Append(calls[o.d], o.v) \in Seq(Verdicts)
    BY <2>1, AppendProperties
  <2>3. calls' \in [Deliveries -> Seq(Verdicts)]
    BY <1>2, <2>2 DEF Settle
  <2>4. QED BY <1>2, <2>3, HandlerStutter
            DEF Settle, procVars, slotVars, shutVars, emitVars
<1>3. QED BY <1>1, <1>2 DEF SettleStep

LEMMA OtherType ==
  ASSUME TypeOK, NEW w \in Workers,
         \/ \E d \in Deliveries : DispatchCall(w, d)
         \/ TimerStep(w) \/ BeginClose(w) \/ Kill(w)
         \/ HandlerStep(w) /\ UNCHANGED engineVars
  PROVE  TypeOK'
<1> USE DEF TypeOK
<1>1. ASSUME NEW d \in Deliveries, DispatchCall(w, d) PROVE TypeOK'
  <2>1. caller' \in Dispatching
    BY <1>1 DEF DispatchCall, Dispatching, Idle
  <2>2. QED BY <1>1, <2>1, HandlerStutter
            DEF DispatchCall, procVars, slotVars, shutVars, emitVars
<1>2. ASSUME NEW id \in DOMAIN msgs[w], Timeout(w, id) PROVE TypeOK'
  <2>1. [by |-> "timer", w |-> w, d |-> msgs[w][id].d, v |-> "nack"] \in Owed
    BY SlotType DEF Owed, Verdicts, StaleVerdict
  <2>2. owed' \in SUBSET Owed
    BY <1>2, <2>1 DEF Timeout
  <2>3. SlotsOK(msgs', nextID)
    BY <1>2, DeleteSlots DEF Timeout
  <2>4. QED BY <1>2, <2>2, <2>3, HandlerStutter, BroadcastType
            DEF Timeout, procVars, shutVars, emitVars
<1>3. CASE BeginClose(w)
  <2>1. closing' \in [Workers -> BOOLEAN] /\ stop' \in [Workers -> BOOLEAN]
    BY <1>3 DEF BeginClose
  <2>2. QED BY <1>3, <2>1, HandlerStutter, BroadcastType
            DEF BeginClose, slotVars, ledgerVars, emitVars
<1>4. CASE Kill(w)
  <2>1. HandlerTypeOK'
    BY <1>4, HandlerStutter DEF Kill, Dies, HandlerTypeOK
  <2>2. QED BY <1>4, <2>1
            DEF Kill, engineVars, procVars, slotVars, shutVars, ledgerVars,
                emitVars
<1>5. CASE HandlerStep(w) /\ UNCHANGED engineVars
  BY <1>5, HandlerStepType
     DEF engineVars, procVars, slotVars, shutVars, ledgerVars, emitVars
<1>6. QED BY <1>1, <1>2, <1>3, <1>4, <1>5 DEF TimerStep

LEMMA TypeStutter == ASSUME TypeOK, UNCHANGED vars PROVE TypeOK'
  BY HandlerStutter DEF TypeOK, vars, engineVars, procVars, slotVars, shutVars,
     ledgerVars, emitVars

LEMMA TypeStep == TypeOK /\ [WorkerNext]_vars => TypeOK'
<1> SUFFICES ASSUME TypeOK, [WorkerNext]_vars PROVE TypeOK'
  OBVIOUS
<1>1. CASE CallerStep
  BY <1>1, CallerStepType
<1>2. ASSUME NEW w \in Workers, SupervisorStep(w) PROVE TypeOK'
  BY <1>2, SpawnType, ReadType DEF SupervisorStep
<1>3. ASSUME NEW w \in Workers, WriterStep(w) PROVE TypeOK'
  BY <1>3, WriterType
<1>4. CASE CtxCancel \/ SettleStep
  BY <1>4, SettleCancelType
<1>5. ASSUME NEW w \in Workers,
             \/ \E d \in Deliveries : DispatchCall(w, d)
             \/ TimerStep(w) \/ BeginClose(w) \/ Kill(w)
             \/ HandlerStep(w) /\ UNCHANGED engineVars
      PROVE  TypeOK'
  BY <1>5, OtherType
<1>6. CASE UNCHANGED vars
  BY <1>6, TypeStutter
<1>7. QED BY <1>1, <1>2, <1>3, <1>4, <1>5, <1>6 DEF WorkerNext, WorkerStep

(* Every variable keeps its type, whatever the number of workers,          *)
(* deliveries, slots and faults (the fields of worker, proc and inflight). *)
THEOREM TypeCorrect == WorkerSpec => []TypeOK
  BY InitType, TypeStep, PTL DEF WorkerSpec

-----------------------------------------------------------------------------
(* Nothing is stranded                                                     *)

(* The supervisors stay where they are, a map only grows under a live      *)
(* process, and only a supervisor in readLoop takes on a settle call.      *)
Steady ==
  /\ UNCHANGED <<sup, live>>
  /\ \A w \in Workers :
       /\ DOMAIN msgs'[w] \subseteq DOMAIN msgs[w] \/ live[w]
       /\ ReaderFree(w) => ReaderFree(w)' \/ sup[w] = "read"

LEMMA SteadyKeeps ==
  ASSUME NothingStranded, Steady
  PROVE  NothingStranded'
  <1> SUFFICES ASSUME NEW w \in Workers
               PROVE  /\ live'[w] <=> sup'[w] \in {"read", "wait"}
                      /\ DOMAIN msgs'[w] # {} => live'[w]
                      /\ ~ReaderFree(w)' =>
                           sup'[w] \in {"read", "settle", "settleStop"}
    BY DEF NothingStranded
  <1>1. /\ live[w] <=> sup[w] \in {"read", "wait"}
        /\ DOMAIN msgs[w] # {} => live[w]
        /\ ~ReaderFree(w) => sup[w] \in {"read", "settle", "settleStop"}
    BY DEF NothingStranded
  <1>2. /\ sup' = sup /\ live' = live
        /\ DOMAIN msgs'[w] \subseteq DOMAIN msgs[w] \/ live[w]
        /\ ReaderFree(w) => ReaderFree(w)' \/ sup[w] = "read"
    BY DEF Steady
  <1> QED BY <1>1, <1>2

LEMMA DeleteShrinks ==
  ASSUME TypeOK, NEW w \in Workers, NEW id,
         \/ msgs' = [msgs EXCEPT ![w] = Delete(@, id)]
         \/ UNCHANGED msgs
  PROVE  \A v \in Workers : DOMAIN msgs'[v] \subseteq DOMAIN msgs[v]
  <1>1. CASE msgs' = [msgs EXCEPT ![w] = Delete(@, id)]
    <2>1. \A v \in Workers :
            msgs'[v] = IF v = w THEN Delete(msgs[w], id) ELSE msgs[v]
      BY <1>1 DEF TypeOK, SlotsOK
    <2>2. DOMAIN Delete(msgs[w], id) \subseteq DOMAIN msgs[w]
      BY DEF Delete
    <2> QED BY <2>1, <2>2
  <1> QED BY <1>1

(* Dispatch registers a message only where a process lives.                *)
LEMMA CallerSteady ==
  ASSUME TypeOK, CallerStep
  PROVE  Steady
  <1>1. CASE DispatchRegister
    <2> DEFINE w == caller.w
               id == nextID[w]
    <2>1. w \in Workers /\ live[w]
      BY <1>1, CallerBusy DEF DispatchRegister, FreeSlot, TypeOK
    <2>2. /\ UNCHANGED <<sup, live, owed>>
          /\ msgs' = [msgs EXCEPT ![w] =
                        [i \in DOMAIN @ \cup {id} |->
                           IF i = id THEN [d |-> caller.d, picked |-> FALSE]
                                     ELSE @[i]]]
      BY <1>1 DEF DispatchRegister, procVars, ledgerVars
    <2>3. \A v \in Workers : v # w => msgs'[v] = msgs[v]
      BY <2>1, <2>2 DEF TypeOK, SlotsOK
    <2> QED BY <2>1, <2>2, <2>3 DEF Steady, ReaderFree
  <1>2. CASE SendStopped
    <2> DEFINE w == caller.w
    <2>1. w \in Workers BY <1>2, CallerBusy DEF SendStopped, TypeOK
    <2>2. \/ /\ msgs' = [msgs EXCEPT ![w] = Delete(@, caller.id)]
             /\ owed' = owed \cup {[by |-> "caller", w |-> w,
                                    d |-> caller.d, v |-> "requeue"]}
          \/ UNCHANGED <<msgs, owed>>
      BY <1>2, Zenon DEF SendStopped
    <2>3. \A v \in Workers : DOMAIN msgs'[v] \subseteq DOMAIN msgs[v]
      BY <2>1, <2>2, DeleteShrinks
    <2>4. \A v \in Workers : ReaderFree(v) => ReaderFree(v)'
      BY <2>2 DEF ReaderFree
    <2>5. UNCHANGED <<sup, live>> BY <1>2 DEF SendStopped, procVars
    <2> QED BY <2>3, <2>4, <2>5 DEF Steady
  <1>3. CASE DispatchRefuse \/ DispatchWait \/ \E w \in Workers : CtxWake(w)
    BY <1>3 DEF DispatchRefuse, DispatchWait, CtxWake, Steady, ReaderFree,
                procVars, slotVars, ledgerVars
  <1>4. CASE SendQueued
    BY <1>4 DEF SendQueued, Steady, ReaderFree, slotVars, ledgerVars
  <1> QED BY <1>1, <1>2, <1>3, <1>4 DEF CallerStep

(* A settle call and a timer take nothing on for the reader.               *)
LEMMA SettleSteady ==
  ASSUME TypeOK, SettleStep
  PROVE  Steady
  <1>1. PICK o \in owed : Settle(o) BY DEF SettleStep
  <1> QED BY <1>1 DEF Settle, Steady, ReaderFree, procVars, slotVars

LEMMA TimerSteady ==
  ASSUME TypeOK, NEW w \in Workers, TimerStep(w)
  PROVE  Steady
  <1>1. PICK id \in DOMAIN msgs[w] : Timeout(w, id) BY DEF TimerStep
  <1>2. \A v \in Workers : DOMAIN msgs'[v] \subseteq DOMAIN msgs[v]
    BY <1>1, DeleteShrinks DEF Timeout
  <1>3. \A v \in Workers : ReaderFree(v) => ReaderFree(v)'
    BY <1>1 DEF Timeout, ReaderFree
  <1> QED BY <1>1, <1>2, <1>3 DEF Timeout, Steady, procVars

LEMMA OtherSteady ==
  ASSUME TypeOK,
         \/ \E w \in Workers : WriterStep(w)
         \/ \E w \in Workers : HandlerStep(w) /\ UNCHANGED engineVars
         \/ \E w \in Workers, d \in Deliveries : DispatchCall(w, d)
         \/ \E w \in Workers : BeginClose(w) \/ Kill(w)
         \/ CtxCancel
         \/ UNCHANGED vars
  PROVE  Steady
  BY DEF WriterStep, WriteNote, WriterCloses, DispatchCall, BeginClose, Kill,
         CtxCancel, Steady, ReaderFree, vars, engineVars, procVars, slotVars,
         ledgerVars

(* The supervisor: it takes settle calls on in readLoop and in Reap, and   *)
(* drops w.cur together with the map.                                      *)
LEMMA SupervisorKeeps ==
  ASSUME TypeOK, NothingStranded, NEW w \in Workers, SupervisorStep(w)
  PROVE  NothingStranded'
  <1>1. CASE OnPickup(w) \/ OnEmit(w) \/ OnDone(w)
    <2>1. sup[w] = "read" /\ UNCHANGED <<sup, live>>
      BY <1>1 DEF OnPickup, OnEmit, OnDone, Reads, procVars
    <2>2. \A v \in Workers : DOMAIN msgs'[v] \subseteq DOMAIN msgs[v]
      <3>1. CASE OnPickup(w)
        BY <1>1, <3>1 DEF OnPickup, TypeOK, SlotsOK
      <3>2. CASE OnEmit(w)
        BY <3>2 DEF OnEmit, slotVars
      <3>3. CASE OnDone(w)
        BY <3>3, DeleteShrinks DEF OnDone
      <3> QED BY <1>1, <3>1, <3>2, <3>3
    <2>3. \A v \in Workers : v # w /\ ReaderFree(v) => ReaderFree(v)'
      BY <1>1 DEF OnPickup, OnEmit, OnDone, ReaderFree, ledgerVars
    <2> QED BY <2>1, <2>2, <2>3, SteadyKeeps DEF Steady
  <1>2. CASE Reap(w)
    <2>1. /\ live' = [live EXCEPT ![w] = FALSE]
          /\ msgs' = [msgs EXCEPT ![w] = <<>>]
          /\ \E s \in {"settle", "settleStop"} : sup' = [sup EXCEPT ![w] = s]
      BY <1>2 DEF Reap
    <2>2. \A v \in Workers : v # w /\ ReaderFree(v) => ReaderFree(v)'
      BY <1>2 DEF Reap, ReaderFree
    <2>3. DOMAIN msgs'[w] = {} BY <2>1 DEF TypeOK, SlotsOK
    <2>4. \A v \in Workers : v # w => msgs'[v] = msgs[v]
      BY <2>1 DEF TypeOK, SlotsOK
    <2> QED BY <2>1, <2>2, <2>3, <2>4 DEF NothingStranded, TypeOK
  <1>3. ASSUME UNCHANGED <<msgs, owed>>,
               NEW s \in SupStates, sup' = [sup EXCEPT ![w] = s],
               NEW b \in BOOLEAN, live' = [live EXCEPT ![w] = b],
               b <=> s \in {"read", "wait"}, live[w] => b, ReaderFree(w)
        PROVE  NothingStranded'
    <2>1. \A v \in Workers : ReaderFree(v)' <=> ReaderFree(v)
      BY <1>3 DEF ReaderFree
    <2> QED BY <1>3, <2>1 DEF NothingStranded, TypeOK
  <1>4. /\ sup[w] \in {"spawn", "init", "backoff"} => ReaderFree(w) /\ ~live[w]
        /\ sup[w] \in {"settle", "settleStop"} => ~live[w]
        /\ live \in [Workers -> BOOLEAN]
    BY DEF NothingStranded, TypeOK
  <1>5. live[w] \in BOOLEAN /\ live = [live EXCEPT ![w] = live[w]]
    BY <1>4
  <1>6. CASE SpawnStart(w) \/ SpawnFail(w) \/ BackoffEnds(w)
    <2>1. PICK s \in {"init", "stopped", "backoff", "spawn"} :
            sup' = [sup EXCEPT ![w] = s]
      BY <1>6, SpawnFailMoves DEF SpawnStart, BackoffEnds
    <2>2. sup[w] \in {"spawn", "init", "backoff"}
          /\ UNCHANGED <<live, msgs, owed>>
      BY <1>6 DEF SpawnStart, SpawnFail, SpawnError, InitFails, BackoffEnds,
                  procVars, slotVars, ledgerVars
    <2> QED BY <1>3, <1>4, <1>5, <2>1, <2>2 DEF SupStates
  <1>7. CASE SpawnReady(w)
    BY <1>3, <1>4, <1>7 DEF SpawnReady, slotVars, ledgerVars, SupStates
  <1>8. CASE ReadEOF(w) \/ ReadError(w)
    <2>1. /\ sup[w] = "read" /\ ReaderFree(w)
          /\ sup' = [sup EXCEPT ![w] = "wait"]
          /\ UNCHANGED <<live, msgs, owed>>
      BY <1>8 DEF ReadEOF, ReadError, Reads, ReadLoopReturns, slotVars,
                  ledgerVars
    <2>2. live[w] = TRUE BY <2>1 DEF NothingStranded, TypeOK
    <2> QED BY <1>3, <1>5, <2>1, <2>2 DEF SupStates
  <1>9. CASE StaleSettled(w)
    <2>1. PICK s \in {"spawn", "stopped"} : sup' = [sup EXCEPT ![w] = s]
      BY <1>9 DEF StaleSettled
    <2>2. /\ sup[w] \in {"settle", "settleStop"} /\ ReaderFree(w)
          /\ UNCHANGED <<live, msgs, owed>>
      BY <1>9 DEF StaleSettled, slotVars, ledgerVars
    <2> QED BY <1>3, <1>4, <1>5, <2>1, <2>2 DEF SupStates
  <1> QED BY <1>1, <1>2, <1>6, <1>7, <1>8, <1>9 DEF SupervisorStep

LEMMA InitNotStranded == WorkerInit => NothingStranded
  BY DEF WorkerInit, NothingStranded, ReaderFree

LEMMA StrandStep == TypeOK /\ NothingStranded /\ [WorkerNext]_vars
                      => NothingStranded'
  <1> SUFFICES ASSUME TypeOK, NothingStranded, [WorkerNext]_vars
               PROVE  NothingStranded'
    OBVIOUS
  <1>1. CASE CallerStep BY <1>1, CallerSteady, SteadyKeeps
  <1>2. CASE SettleStep BY <1>2, SettleSteady, SteadyKeeps
  <1>3. CASE \E w \in Workers : SupervisorStep(w)
    BY <1>3, SupervisorKeeps
  <1>4. CASE \E w \in Workers : TimerStep(w)
    BY <1>4, TimerSteady, SteadyKeeps
  <1>5. CASE \/ \E w \in Workers : WriterStep(w)
             \/ \E w \in Workers : HandlerStep(w) /\ UNCHANGED engineVars
             \/ \E w \in Workers, d \in Deliveries : DispatchCall(w, d)
             \/ \E w \in Workers : BeginClose(w) \/ Kill(w)
             \/ CtxCancel
             \/ UNCHANGED vars
    BY <1>5, OtherSteady, SteadyKeeps
  <1> QED
    BY <1>1, <1>2, <1>3, <1>4, <1>5 DEF WorkerNext, WorkerStep

(* Whatever the handlers do, a message in a worker's map has a process and *)
(* a supervisor that will reap it, and a supervisor never respawns or      *)
(* stops while it still owes a settle call (worker.go:194-225).            *)
THEOREM NeverStranded == WorkerSpec => []NothingStranded
  <1>1. WorkerInit => NothingStranded BY InitNotStranded
  <1>2. TypeOK /\ NothingStranded /\ [WorkerNext]_vars => NothingStranded'
    BY StrandStep
  <1> QED BY <1>1, <1>2, TypeCorrect, PTL DEF WorkerSpec

-----------------------------------------------------------------------------
(* Processes                                                               *)

(* A process that runs is one its supervisor has started and not reaped.   *)
Managed == \A w \in Workers : alive[w] => sup[w] \in {"init", "read", "wait"}

LEMMA HandlerOnlyDies ==
  ASSUME NEW w \in Workers, HandlerTypeOK,
         (HandlerStep(w) /\ UNCHANGED engineVars) \/ Kill(w)
  PROVE  sup' = sup /\ \A v \in Workers : alive'[v] => alive[v]
  BY DEF HandlerStep, HandlerWork, HandlerTake, HandlerHearAck, HandlerDone,
         HandlerExit, HandlerEmit, HandlerDoneTwice, HandlerBad, HandlerCrash,
         Dies, Kill, HandlerTypeOK, handlerVars, engineVars, procVars

LEMMA ManagedStep == TypeOK /\ Managed /\ [WorkerNext]_vars => Managed'
  <1> SUFFICES ASSUME TypeOK, Managed, [WorkerNext]_vars PROVE Managed'
    OBVIOUS
  <1>1. CASE \/ \E w \in Workers : HandlerStep(w) /\ UNCHANGED engineVars
             \/ \E w \in Workers : Kill(w)
    BY <1>1, HandlerOnlyDies DEF Managed, TypeOK
  <1>2. CASE CallerStep \/ SettleStep \/ CtxCancel \/ UNCHANGED vars
    BY <1>2 DEF CallerStep, DispatchRefuse, DispatchRegister, DispatchWait,
       SendQueued, SendStopped, CtxWake, SettleStep, Settle, CtxCancel, vars,
       engineVars, procVars, handlerVars, Managed
  <1>3. CASE \E w \in Workers : \/ WriterStep(w) \/ TimerStep(w)
                                \/ \E d \in Deliveries : DispatchCall(w, d)
                                \/ BeginClose(w)
    BY <1>3 DEF WriterStep, WriteNote, WriterCloses, TimerStep, Timeout,
       DispatchCall, BeginClose, engineVars, procVars, handlerVars, Managed
  <1>4. ASSUME NEW w \in Workers, SupervisorStep(w) PROVE Managed'
    <2>1. CASE SpawnStart(w)
      BY <2>1 DEF SpawnStart, Managed, TypeOK, HandlerTypeOK
    <2>2. CASE SpawnReady(w) \/ ReadEOF(w) \/ ReadError(w)
      <3>1. PICK s \in {"read", "wait"} : sup' = [sup EXCEPT ![w] = s]
        BY <2>2 DEF SpawnReady, ReadEOF, ReadError, ReadLoopReturns
      <3>2. alive' = alive
        BY <2>2 DEF SpawnReady, ReadEOF, ReadError, Reads, handlerVars
      <3> QED BY <3>1, <3>2 DEF Managed, TypeOK
    <2>3. CASE OnPickup(w) \/ OnDone(w) \/ OnEmit(w)
      BY <2>3 DEF OnPickup, OnDone, OnEmit, Reads, procVars, Managed
    <2>0. CASE InitFails(w)
      BY <2>0 DEF InitFails, procVars, Managed
    <2>4. CASE \/ SpawnFail(w) /\ ~InitFails(w)
               \/ BackoffEnds(w) \/ StaleSettled(w) \/ Reap(w)
      <3>1. /\ ~alive[w] /\ alive' = alive
            /\ \E s \in SupStates : sup' = [sup EXCEPT ![w] = s]
        BY <2>4 DEF SpawnFail, SpawnError, BackoffEnds, StaleSettled, Reap,
                    handlerVars, Managed, SupStates
      <3> QED BY <3>1 DEF Managed, TypeOK
    <2> QED BY <1>4, <2>0, <2>1, <2>2, <2>3, <2>4 DEF SupervisorStep
  <1> QED BY <1>1, <1>2, <1>3, <1>4 DEF WorkerNext, WorkerStep

LEMMA ManagedInit == WorkerInit => Managed
  BY DEF WorkerInit, HandlerInit, Managed
=============================================================================

----------------------------- MODULE PoolProofs -----------------------------
(***************************************************************************)
(* Proofs about Pool, for any number of workers and deliveries: the engine *)
(* drives the workers as Worker allows, so all that is proved of the       *)
(* workers holds of the pool; Dispatch is only ever given a worker with a  *)
(* free slot; and Shutdown returns with nothing left behind.               *)
(***************************************************************************)
EXTENDS Pool, ContractProofs, FiniteSetTheorems

-----------------------------------------------------------------------------
(* The engine's goroutine                                                  *)

MainRec == [pc : MainStates, w : Workers, d : Deliveries \cup {None},
            best : Workers, n : Nat]

MainTyped == main \in MainRec /\ grace \in BOOLEAN

(* Where that goroutine is, against the workers' state: Dispatch runs only *)
(* inside the consume loop, beginClose is called once per worker, and a    *)
(* worker Shutdown has gone past is stopped.                               *)
MainPlace ==
  /\ main.pc # "consume" => caller.pc = "idle"
  /\ main.pc = "pick" => main.d \in Deliveries \ given
  /\ main.pc \in {"consume", "pick"} => \A v \in Workers : ~closing[v]
  /\ main.pc = "close" => \A v \in Workers : closing[v] <=> v < main.w
  /\ main.pc \in {"await", "killed", "done"} => \A v \in Workers : closing[v]
  /\ main.pc \in {"await", "killed"}
       => \A v \in Workers : v < main.w => sup[v] = "stopped"
  /\ main.pc = "done" => \A v \in Workers : sup[v] = "stopped"

LEMMA MainInit == PoolInit => MainTyped /\ MainPlace
  <1> SUFFICES ASSUME PoolInit PROVE MainTyped /\ MainPlace
    OBVIOUS
  <1>1. 1 \in Workers BY PoolAssumption
  <1>2. MainTyped BY <1>1 DEF PoolInit, MainTyped, MainRec, MainStates
  <1>3. MainPlace BY DEF PoolInit, WorkerInit, MainPlace, Idle
  <1> QED BY <1>2, <1>3

(* Outside Dispatch the caller stays outside, no worker begins to close    *)
(* and a stopped worker stays stopped, whatever the workers do.            *)
LEMMA WorkersLeaveMain ==
  ASSUME TypeOK, WorkerStep \/ CtxCancel
  PROVE  /\ caller.pc = "idle" => caller'.pc = "idle" /\ given' = given
         /\ closing' = closing
         /\ \A v \in Workers : sup[v] = "stopped" => sup'[v] = "stopped"
  <1>1. CASE CtxCancel
    BY <1>1 DEF CtxCancel, procVars, ledgerVars
  <1>2. CASE CallerStep
    <2>1. caller.pc # "idle" /\ UNCHANGED <<closing, sup>>
      BY <1>2 DEF CallerStep, DispatchRefuse, DispatchRegister, DispatchWait,
                  SendQueued, SendStopped, CtxWake, procVars, shutVars
    <2> QED BY <2>1
  <1>3. CASE SettleStep
    <2>1. PICK o \in owed : Settle(o) BY <1>3 DEF SettleStep
    <2> QED BY <2>1 DEF Settle, procVars, shutVars, Idle
  <1>4. ASSUME NEW w \in Workers, TimerStep(w)
        PROVE  /\ caller.pc = "idle" => caller'.pc = "idle" /\ given' = given
               /\ closing' = closing
               /\ \A v \in Workers : sup[v] = "stopped" => sup'[v] = "stopped"
    BY <1>4 DEF TimerStep, Timeout, Broadcast, procVars, shutVars
  <1>5. ASSUME NEW w \in Workers,
               WriterStep(w) \/ (HandlerStep(w) /\ UNCHANGED engineVars)
        PROVE  /\ caller.pc = "idle" => caller'.pc = "idle" /\ given' = given
               /\ closing' = closing
               /\ \A v \in Workers : sup[v] = "stopped" => sup'[v] = "stopped"
    BY <1>5 DEF WriterStep, WriteNote, WriterCloses, engineVars, procVars,
                shutVars, ledgerVars
  <1>6. ASSUME NEW w \in Workers, SupervisorStep(w)
        PROVE  /\ caller.pc = "idle" => caller'.pc = "idle" /\ given' = given
               /\ closing' = closing
               /\ \A v \in Workers : sup[v] = "stopped" => sup'[v] = "stopped"
    <2>1. /\ caller' = caller \/ caller' = Broadcast(w)
          /\ UNCHANGED <<closing, given>>
      BY <1>6 DEF SupervisorStep, SpawnStart, SpawnReady, SpawnFail,
         SpawnError, InitFails, BackoffEnds, OnPickup, OnDone, OnEmit, ReadEOF,
         ReadError, ReadLoopReturns, Reap, StaleSettled, shutVars, ledgerVars
    <2>2. caller.pc = "idle" => caller'.pc = "idle"
      BY <2>1 DEF Broadcast
    <2>3. /\ sup[w] # "stopped"
          /\ sup' = sup \/ \E s \in SupStates : sup' = [sup EXCEPT ![w] = s]
      BY <1>6 DEF SupervisorStep, SpawnStart, SpawnReady, SpawnFail,
         SpawnError, InitFails, BackoffEnds, OnPickup, OnDone, OnEmit, Reads,
         ReadEOF,
         ReadError, ReadLoopReturns, Reap, StaleSettled, procVars, SupStates
    <2> QED BY <2>1, <2>2, <2>3 DEF TypeOK
  <1> QED BY <1>1, <1>2, <1>3, <1>4, <1>5, <1>6 DEF WorkerStep

-----------------------------------------------------------------------------
(* Pool drives the workers as Worker allows                                *)

(* What the goroutine's records become.                                    *)
LEMMA AtType ==
  ASSUME MainTyped, NEW pc \in MainStates, NEW w \in Workers
  PROVE  /\ At(pc, w) \in MainRec
         /\ At(pc, w).pc = pc /\ At(pc, w).w = w /\ At(pc, w).d = main.d
         /\ At(pc, w).best = main.best /\ At(pc, w).n = main.n
  BY DEF MainTyped, MainRec, At

LEMMA PlacingType ==
  ASSUME MainTyped, NEW d \in Deliveries \cup {None}, 1 \in Workers,
         main' = [At("pick", 1) EXCEPT !.d = d]
  PROVE  /\ main' \in MainRec
         /\ main'.pc = "pick" /\ main'.w = 1 /\ main'.d = d
  <1> DEFINE m == At("pick", 1)
  <1>1. m \in MainRec /\ m.pc = "pick" /\ m.w = 1
    BY AtType DEF MainStates
  <1>2. main' = [m EXCEPT !.d = d] OBVIOUS
  <1> HIDE DEF m
  <1> QED BY <1>1, <1>2 DEF MainRec

LEMMA LookOnType ==
  ASSUME MainTyped, NEW w \in Workers, NEW b \in Workers, NEW k \in Nat,
         main' = [At("pick", w) EXCEPT !.best = b, !.n = k]
  PROVE  /\ main' \in MainRec
         /\ main'.pc = "pick" /\ main'.w = w /\ main'.d = main.d
         /\ main'.best = b /\ main'.n = k
  <1> DEFINE m == At("pick", w)
  <1>1. m \in MainRec /\ m.pc = "pick" /\ m.w = w /\ m.d = main.d
    BY AtType DEF MainStates
  <1>2. main' = [m EXCEPT !.best = b, !.n = k] OBVIOUS
  <1> HIDE DEF m
  <1> QED BY <1>1, <1>2 DEF MainRec

LEMMA PlacedType ==
  ASSUME MainTyped, 1 \in Workers,
         main' = [At("consume", 1) EXCEPT !.d = None, !.best = 1, !.n = 0]
  PROVE  main' \in MainRec /\ main'.pc = "consume"
  <1> DEFINE m == At("consume", 1)
  <1>1. m \in MainRec /\ m.pc = "consume"
    BY AtType DEF MainStates
  <1> DEFINE r == [m EXCEPT !.d = None]
  <1>2. main' = [r EXCEPT !.best = 1, !.n = 0] OBVIOUS
  <1> HIDE DEF m
  <1>3. r \in MainRec /\ r.pc = "consume" BY <1>1 DEF MainRec
  <1> HIDE DEF r
  <1>4. 1 \in Workers OBVIOUS
  <1> QED BY ONLY <1>2, <1>3, <1>4 DEF MainRec

LEMMA MainStepKeeps ==
  ASSUME TypeOK, MainTyped, MainPlace, PoolNext
  PROVE  MainTyped' /\ MainPlace' /\ [WorkerNext]_vars
  <1> USE PoolAssumption
  <1>1. CASE (WorkerStep \/ CtxCancel) /\ UNCHANGED <<main, grace>>
    <2>1. MainTyped' BY <1>1 DEF MainTyped
    <2>2. main.w \in Workers /\ main.pc \in MainStates
      BY DEF MainTyped, MainRec
    <2>3. MainPlace' BY <1>1, <2>2, WorkersLeaveMain DEF MainPlace, MainStates
    <2> QED BY <1>1, <2>1, <2>3 DEF WorkerNext
  <1>2. ASSUME NEW d \in Deliveries, Receive(d)
        PROVE  MainTyped' /\ MainPlace' /\ [WorkerNext]_vars
    <2>1. /\ main' = [At("pick", 1) EXCEPT !.d = d]
          /\ UNCHANGED <<vars, grace>>
          /\ main.pc = "consume" /\ caller.pc = "idle" /\ d \notin given
      BY <1>2 DEF Receive, AtSelect
    <2>2. UNCHANGED <<caller, given, closing, sup>>
      BY <2>1 DEF vars, engineVars, procVars, shutVars, ledgerVars
    <2>3. MainTyped' /\ main'.pc = "pick" /\ main'.d = d
      <3>1. 1 \in Workers OBVIOUS
      <3> QED BY <2>1, <3>1, PlacingType DEF MainTyped
    <2>4. MainPlace' BY <2>1, <2>2, <2>3 DEF MainPlace
    <2> QED BY <2>1, <2>3, <2>4
  <1>3. ASSUME NEW w \in Workers, LookAt(w)
        PROVE  MainTyped' /\ MainPlace' /\ [WorkerNext]_vars
    <2> DEFINE n    == Outstanding(w)
               best == IF Beats(w, n) THEN w ELSE main.best
    <2>0. n \in Nat
      <3>1. DOMAIN msgs[w] \subseteq 1 .. (nextID[w] - 1) /\ nextID[w] \in Nat
        BY DEF TypeOK, SlotsOK
      <3>2. IsFiniteSet(1 .. (nextID[w] - 1)) BY <3>1, FS_Interval
      <3>3. IsFiniteSet(DOMAIN msgs[w]) BY <3>1, <3>2, FS_Subset
      <3> QED BY <3>3, FS_CardinalityType DEF Outstanding
    <2>1. main.pc = "pick" /\ main.w = w /\ best \in Workers
          /\ caller.pc = "idle" /\ \A v \in Workers : ~closing[v]
          /\ main.d \in Deliveries \ given
      BY <1>3 DEF LookAt, MainPlace, MainTyped, MainRec
    <2> HIDE DEF n, best
    <2>2. CASE /\ w < Size /\ UNCHANGED vars
               /\ main' = [At("pick", w + 1) EXCEPT !.best = best,
                             !.n = IF best = w THEN n ELSE @]
      <3>1. UNCHANGED <<caller, given, closing, sup>>
        BY <2>2 DEF vars, engineVars, procVars, shutVars, ledgerVars
      <3>2. MainTyped' /\ main'.pc = "pick" /\ main'.d = main.d
        <4> DEFINE k == IF best = w THEN n ELSE main.n
        <4>1. w + 1 \in Workers /\ k \in Nat
          BY <2>0, <2>2 DEF MainTyped, MainRec
        <4>2. At("pick", w + 1).n = main.n
          BY <4>1, AtType DEF MainStates
        <4>3. main' = [At("pick", w + 1) EXCEPT !.best = best, !.n = k]
          BY <2>2, <4>2
        <4> HIDE DEF k
        <4>4. main' \in MainRec /\ main'.pc = "pick" /\ main'.d = main.d
          BY <2>1, <4>1, <4>3, LookOnType
        <4> QED BY <1>3, <4>4 DEF MainTyped, LookAt
      <3> QED BY <2>1, <2>2, <3>1, <3>2 DEF MainPlace
    <2>3. CASE /\ w = Size
               /\ main' = [At("consume", 1) EXCEPT !.d = None, !.best = 1,
                                                   !.n = 0]
               /\ DispatchCall(best, main.d)
      <3>1. MainTyped' /\ main'.pc = "consume"
        <4>1. 1 \in Workers OBVIOUS
        <4>2. main' \in MainRec /\ main'.pc = "consume"
          BY <2>3, <4>1, PlacedType
        <4> QED BY <1>3, <4>2 DEF MainTyped, LookAt
      <3>2. closing' = closing BY <2>3 DEF DispatchCall, shutVars
      <3>3. MainPlace' BY <2>1, <3>1, <3>2 DEF MainPlace
      <3>4. WorkerNext BY <2>1, <2>3 DEF WorkerNext
      <3> QED BY <3>1, <3>3, <3>4
    <2> QED BY <1>3, <2>2, <2>3 DEF LookAt, n, best
  <1>4. CASE LeaveConsume
    <2>1. /\ main' = At("close", 1)
          /\ UNCHANGED <<vars, grace>>
          /\ main.pc = "consume" /\ caller.pc = "idle"
      BY <1>4 DEF LeaveConsume, AtSelect
    <2>2. UNCHANGED <<caller, given, closing, sup>>
      BY <2>1 DEF vars, engineVars, procVars, shutVars, ledgerVars
    <2>3. MainTyped' /\ main'.pc = "close" /\ main'.w = 1
      BY <2>1, AtType, "close" \in MainStates DEF MainTyped, MainStates
    <2>4. MainPlace' BY <2>1, <2>2, <2>3 DEF MainPlace
    <2> QED BY <2>1, <2>3, <2>4
  <1>5. ASSUME NEW w \in Workers, CloseWorker(w)
        PROVE  MainTyped' /\ MainPlace' /\ [WorkerNext]_vars
    <2>1. /\ main.pc = "close" /\ main.w = w /\ caller.pc = "idle"
          /\ \A v \in Workers : closing[v] <=> v < w
          /\ BeginClose(w) /\ grace' = grace
          /\ main' = IF w < Size
                     THEN At("close", w + 1)
                     ELSE At("await", 1)
      BY <1>5 DEF CloseWorker, MainPlace
    <2>2. caller'.pc = "idle" /\ sup' = sup
      BY <2>1 DEF BeginClose, Broadcast
    <2>3. closing' = [closing EXCEPT ![w] = TRUE] /\ closing \in [Workers -> BOOLEAN]
      BY <2>1 DEF BeginClose, TypeOK
    <2>4. \A v \in Workers : closing'[v] <=> v < w + 1
      BY <2>1, <2>3
    <2>5. ~closing[w] BY <2>1
    <2>6. CASE w < Size
      <3>1. MainTyped' /\ main'.pc = "close" /\ main'.w = w + 1
        BY <2>1, <2>6, AtType, "close" \in MainStates DEF MainTyped, MainStates
      <3> QED BY <2>1, <2>2, <2>4, <2>5, <3>1 DEF MainPlace, WorkerNext
    <2>7. CASE ~(w < Size)
      <3>1. MainTyped' /\ main'.pc = "await" /\ main'.w = 1
        BY <2>1, <2>7, AtType, "await" \in MainStates DEF MainTyped, MainStates
      <3>2. \A v \in Workers : closing'[v] BY <2>4, <2>7
      <3> QED BY <2>1, <2>2, <2>5, <3>1, <3>2 DEF MainPlace, WorkerNext
    <2> QED BY <2>6, <2>7
  <1>6. ASSUME NEW w \in Workers, WorkerStopped(w)
        PROVE  MainTyped' /\ MainPlace' /\ [WorkerNext]_vars
    <2>1. /\ main.pc \in {"await", "killed"} /\ main.w = w /\ sup[w] = "stopped"
          /\ UNCHANGED <<vars, grace>>
          /\ main' = IF w < Size
                     THEN At("await", w + 1)
                     ELSE At("done", 1)
      BY <1>6 DEF WorkerStopped, Stopped
    <2>2. UNCHANGED <<caller, given, closing, sup>>
      BY <2>1 DEF vars, engineVars, procVars, shutVars, ledgerVars
    <2>3. \A v \in Workers : v < w + 1 => sup[v] = "stopped"
      BY <2>1 DEF MainPlace
    <2>4. CASE w < Size
      <3>1. MainTyped' /\ main'.pc = "await" /\ main'.w = w + 1
        BY <2>1, <2>4, AtType, "await" \in MainStates DEF MainTyped, MainStates
      <3> QED BY <2>1, <2>2, <2>3, <3>1 DEF MainPlace
    <2>5. CASE ~(w < Size)
      <3>1. MainTyped' /\ main'.pc = "done"
        BY <2>1, <2>5, AtType, "done" \in MainStates DEF MainTyped, MainStates
      <3>2. \A v \in Workers : sup[v] = "stopped" BY <2>3, <2>5
      <3> QED BY <2>1, <2>2, <3>1, <3>2 DEF MainPlace
    <2> QED BY <2>4, <2>5
  <1>7. ASSUME NEW w \in Workers, KillWorker(w)
        PROVE  MainTyped' /\ MainPlace' /\ [WorkerNext]_vars
    <2>1. /\ main.pc = "await" /\ main.w = w /\ Kill(w) /\ grace' = grace
          /\ main' = At("killed", w)
      BY <1>7 DEF KillWorker
    <2>2. UNCHANGED <<caller, given, closing, sup>> /\ closing[w]
      BY <2>1 DEF Kill, engineVars, procVars, shutVars, ledgerVars, MainPlace
    <2>3. MainTyped' /\ main'.pc = "killed" /\ main'.w = main.w
      BY <2>1, AtType, "killed" \in MainStates DEF MainTyped, MainStates
    <2> QED BY <2>1, <2>2, <2>3 DEF MainPlace, WorkerNext
  <1>8. CASE GraceEnds
    BY <1>8 DEF GraceEnds, MainTyped, MainPlace, vars, engineVars, procVars,
                shutVars, ledgerVars
  <1>9. CASE Finished
    BY <1>9 DEF Finished, poolVars, MainTyped, MainPlace, vars, engineVars,
                procVars, shutVars, ledgerVars
  <1> QED BY <1>1, <1>2, <1>3, <1>4, <1>5, <1>6, <1>7, <1>8, <1>9
          DEF PoolNext, MainStep

(* Every behaviour of the pool is one of its workers: what is proved of    *)
(* WorkerSpec holds of the engine.                                         *)
LEMMA MainKept == PoolSpec => [](MainTyped /\ MainPlace) /\ WorkerSpec
  <1>1. PoolInit => WorkerInit BY DEF PoolInit
  <1>2. UNCHANGED poolVars /\ MainTyped /\ MainPlace
          => MainTyped' /\ MainPlace' /\ UNCHANGED vars
    BY DEF poolVars, MainTyped, MainPlace, vars, engineVars, procVars,
           shutVars, ledgerVars
  <1>3. UNCHANGED poolVars /\ TypeOK => TypeOK'
    BY TypeStutter DEF poolVars
  <1>4. TypeOK /\ [WorkerNext]_vars => TypeOK'
    BY TypeStep
  <1>5. TypeOK /\ MainTyped /\ MainPlace /\ [PoolNext]_poolVars
          => TypeOK' /\ MainTyped' /\ MainPlace' /\ [WorkerNext]_vars
    BY <1>2, <1>3, <1>4, MainStepKeeps
  <1>6. PoolInit => TypeOK /\ MainTyped /\ MainPlace
    BY <1>1, InitType, MainInit
  <1> QED BY <1>1, <1>5, <1>6, PTL DEF PoolSpec, WorkerSpec

(* The engine's goroutine keeps the contract of Dispatch: it offers one    *)
(* delivery at a time, tells each worker once to close, and kills only     *)
(* what it told to close (pool.go:46-90, engine.go:236).                   *)
THEOREM PoolDrivesWorkers == PoolSpec => WorkerSpec
  BY MainKept, PTL

(* What is proved of the workers holds as engine.Run drives them: one      *)
(* owner per delivery, nothing left behind, and the contract of Dispatch   *)
(* (worker.go:413-461, pool.go:46-59).                                     *)
THEOREM PoolKeepsContract ==
  PoolSpec => [](OneOwner /\ NothingStranded) /\ KeepsContract
  BY PoolDrivesWorkers, OneOwnerAlways, NeverStranded, ContractKept, PTL

(* Type correctness of the pool and its workers (pool.go: the locals of    *)
(* leastLoaded and Shutdown).                                              *)
THEOREM PoolTypes == PoolSpec => []PoolTypeOK
  <1>1. TypeOK /\ MainTyped => PoolTypeOK
    BY DEF MainTyped, MainRec, PoolTypeOK
  <1> QED BY <1>1, MainKept, TypeCorrect, PTL

-----------------------------------------------------------------------------
(* What Shutdown leaves behind                                             *)

(* A timer takes on a settle call only where messages have timers.         *)
TimersNeedTimeouts == HasTimeout \/ \A o \in owed : o.by # "timer"

LEMMA TimersStep == TimersNeedTimeouts /\ [WorkerNext]_vars
                      => TimersNeedTimeouts'
  <1> SUFFICES ASSUME [WorkerNext]_vars, ~HasTimeout,
                      \A o \in owed : o.by # "timer"
               PROVE  \A o \in owed' : o.by # "timer"
    BY DEF TimersNeedTimeouts
  <1>1. CASE \E w \in Workers : TimerStep(w)
    BY <1>1 DEF TimerStep, Timeout, Armed
  <1>2. CASE CallerStep \/ SettleStep \/ CtxCancel \/ UNCHANGED vars
    BY <1>2 DEF CallerStep, DispatchRefuse, DispatchRegister, DispatchWait,
       SendQueued, SendStopped, CtxWake, SettleStep, Settle, CtxCancel, vars,
       engineVars, ledgerVars
  <1>3. CASE \E w \in Workers : \/ WriterStep(w) \/ BeginClose(w) \/ Kill(w)
                                \/ \E d \in Deliveries : DispatchCall(w, d)
                                \/ (HandlerStep(w) /\ UNCHANGED engineVars)
    BY <1>3 DEF WriterStep, WriteNote, WriterCloses, Kill, DispatchCall,
       BeginClose, engineVars, ledgerVars
  <1>4. CASE \E w \in Workers : SupervisorStep(w)
    BY <1>4 DEF SupervisorStep, SpawnStart, SpawnReady, SpawnFail, SpawnError,
                InitFails,
       BackoffEnds, OnPickup, OnDone, OnEmit, ReadEOF, ReadError,
       ReadLoopReturns, Reap, StaleSettled, ledgerVars
  <1> QED BY <1>1, <1>2, <1>3, <1>4 DEF WorkerNext, WorkerStep

LEMMA TimersInit == WorkerInit => TimersNeedTimeouts
  BY DEF WorkerInit, TimersNeedTimeouts

(* A stopped worker has no process, no message and no settle call to make, *)
(* and outside Dispatch the caller owes none either.                       *)
LEMMA StoppedHolds ==
  ASSUME Custody, NothingStranded, Managed, TimersNeedTimeouts, ~HasTimeout,
         caller.pc = "idle", \A w \in Workers : sup[w] = "stopped"
  PROVE  /\ \A w \in Workers : ~alive[w]
         /\ \A d \in Deliveries : ~InSlot(d) /\ ~IsOwed(d)
  <1>1. \A w \in Workers : ~alive[w] /\ DOMAIN msgs[w] = {} /\ ReaderFree(w)
    BY DEF Managed, NothingStranded
  <1>2. owed = {}
    <2> SUFFICES ASSUME NEW o \in owed PROVE FALSE
      OBVIOUS
    <2>1. o.by \in {"reader", "timer", "caller"} /\ o.w \in Workers
      BY DEF Custody, TypeOK, Owed
    <2>2. o.by # "timer" BY DEF TimersNeedTimeouts
    <2>3. o.by # "reader" BY <1>1, <2>1 DEF ReaderFree
    <2>4. o.by # "caller" BY DEF Custody, CallerGate, OwnDebt
    <2> QED BY <2>1, <2>2, <2>3, <2>4
  <1> QED BY <1>1, <1>2 DEF InSlot, IsOwed

LEMMA StoppedIsEmpty ==
  ASSUME Custody, NothingStranded, Managed, TimersNeedTimeouts, MainPlace,
         ~HasTimeout
  PROVE  DrainedAtReturn
  <1> SUFFICES ASSUME main.pc = "done" PROVE DrainedAtReturn
    BY DEF DrainedAtReturn
  <1>1. caller.pc = "idle" /\ \A w \in Workers : sup[w] = "stopped"
    BY DEF MainPlace
  <1> QED BY <1>1, StoppedHolds DEF DrainedAtReturn

(* When Shutdown returns no worker runs a process or holds a message, and  *)
(* every delivery handed to Dispatch was settled or refused                *)
(* (pool.go:70-90); a timer is not waited for, hence the hypothesis.       *)
THEOREM DrainedAlways ==
  ASSUME ~HasTimeout
  PROVE  PoolSpec => []DrainedAtReturn
  <1>1. Custody /\ NothingStranded /\ Managed /\ TimersNeedTimeouts /\ MainPlace
          => DrainedAtReturn
    BY StoppedIsEmpty
  <1>2. WorkerSpec => []NothingStranded BY NeverStranded
  <1>3. WorkerSpec => [](Managed /\ TimersNeedTimeouts)
    <2>1. Managed /\ TypeOK /\ TimersNeedTimeouts /\ [WorkerNext]_vars
            => Managed' /\ TimersNeedTimeouts'
      BY ManagedStep, TimersStep
    <2> QED BY <2>1, ManagedInit, TimersInit, TypeCorrect, PTL DEF WorkerSpec
  <1> QED BY <1>1, <1>2, <1>3, MainKept, CustodyCorrect, PTL

-----------------------------------------------------------------------------
(* The worker leastLoaded picks has room                                   *)

LEMMA LoadType ==
  ASSUME TypeOK, NEW v \in Workers
  PROVE  IsFiniteSet(DOMAIN msgs[v]) /\ Outstanding(v) \in Nat
  <1>1. DOMAIN msgs[v] \subseteq 1 .. (nextID[v] - 1) /\ nextID[v] \in Nat
    BY DEF TypeOK, SlotsOK
  <1>2. IsFiniteSet(1 .. (nextID[v] - 1)) BY <1>1, FS_Interval
  <1>3. IsFiniteSet(DOMAIN msgs[v]) BY <1>1, <1>2, FS_Subset
  <1> QED BY <1>3, FS_CardinalityType DEF Outstanding

(* A set of at least Cap elements has Cap different ones.                  *)
LEMMA CapOfThem ==
  ASSUME NEW S, IsFiniteSet(S), Cardinality(S) >= Cap
  PROVE  \E g \in [1 .. Cap -> S] :
           \A i, j \in 1 .. Cap : g[i] = g[j] => i = j
  <1>1. Cap \in Nat /\ Cardinality(S) \in Nat
    BY WorkerAssumption, FS_CardinalityType
  <1>2. PICK b \in Bijection(1 .. Cardinality(S), S) : TRUE
    BY FS_CardinalityType DEF ExistsBijection
  <1>3. /\ b \in [1 .. Cardinality(S) -> S]
        /\ \A i, j \in 1 .. Cardinality(S) : b[i] = b[j] => i = j
    BY <1>2 DEF Bijection, Injection, IsInjective
  <1> DEFINE g == [i \in 1 .. Cap |-> b[i]]
  <1>4. g \in [1 .. Cap -> S] /\ \A i, j \in 1 .. Cap : g[i] = g[j] => i = j
    BY <1>1, <1>3
  <1> QED BY <1>4

(* With fewer than Size * Cap deliveries unsettled some worker has a free  *)
(* slot: the deliveries in the slots are unsettled and all different.      *)
LEMMA SomeRoom ==
  ASSUME Custody, IsFiniteSet(given), Prefetch <= Size * Cap,
         Cardinality(Unsettled) < Prefetch
  PROVE  \E v \in Workers : Outstanding(v) < Cap
  <1> SUFFICES ASSUME \A v \in Workers : ~(Outstanding(v) < Cap) PROVE FALSE
    OBVIOUS
  <1>1. /\ Size \in Nat /\ Cap \in Nat /\ Prefetch \in Nat
        /\ Workers = 1 .. Size
    BY PoolAssumption, WorkerAssumption
  <1>2. IsFiniteSet(Unsettled) /\ Cardinality(Unsettled) \in Nat
    BY FS_Subset, FS_CardinalityType DEF Unsettled
  <1>3. \A v \in Workers : \E h \in [1 .. Cap -> DOMAIN msgs[v]] :
          \A i, j \in 1 .. Cap : h[i] = h[j] => i = j
    <2> TAKE v \in Workers
    <2>1. IsFiniteSet(DOMAIN msgs[v]) /\ Outstanding(v) \in Nat
      BY LoadType DEF Custody
    <2>2. Cardinality(DOMAIN msgs[v]) >= Cap
      BY <1>1, <2>1 DEF Outstanding
    <2> QED BY <2>1, <2>2, CapOfThem
  <1> DEFINE Inj(v, h) == /\ h \in [1 .. Cap -> DOMAIN msgs[v]]
                          /\ \A i, j \in 1 .. Cap : h[i] = h[j] => i = j
             g == [v \in Workers |-> CHOOSE h : Inj(v, h)]
  <1>4. \A v \in Workers : Inj(v, g[v])
    BY <1>3
  <1> HIDE DEF g
  <1> DEFINE Pairs == Workers \X (1 .. Cap)
             f == [p \in Pairs |-> msgs[p[1]][g[p[1]][p[2]]].d]
  <1>5. \A p \in Pairs : f[p] \in Unsettled
    <2> SUFFICES ASSUME NEW v \in Workers, NEW k \in 1 .. Cap
                 PROVE  msgs[v][g[v][k]].d \in Unsettled
      OBVIOUS
    <2>1. g[v][k] \in DOMAIN msgs[v] BY <1>4
    <2>2. msgs[v][g[v][k]].d \in Deliveries /\ InSlot(msgs[v][g[v][k]].d)
      BY <2>1, SlotType DEF InSlot, Custody, TypeOK
    <2> QED BY <2>2 DEF Unsettled, Custody, OneOwner, CallerGate, NoTrace
  <1>6. \A p, q \in Pairs : f[p] = f[q] => p = q
    <2> SUFFICES ASSUME NEW p \in Pairs, NEW q \in Pairs, f[p] = f[q]
                 PROVE  p = q
      OBVIOUS
    <2> DEFINE u == p[1]
               i == p[2]
               v == q[1]
               j == q[2]
    <2>0. /\ u \in Workers /\ v \in Workers /\ i \in 1 .. Cap /\ j \in 1 .. Cap
          /\ p = <<u, i>> /\ q = <<v, j>>
          /\ msgs[u][g[u][i]].d = msgs[v][g[v][j]].d
      OBVIOUS
    <2> HIDE DEF u, i, v, j
    <2>1. g[u][i] \in DOMAIN msgs[u] /\ g[v][j] \in DOMAIN msgs[v]
      BY <1>4, <2>0
    <2>2. u = v /\ g[u][i] = g[v][j]
      BY <2>0, <2>1 DEF Custody, OneOwner, OneSlot
    <2>3. i = j BY <1>4, <2>0, <2>2
    <2> QED BY <2>0, <2>2, <2>3
  <1>7. f \in Injection(Pairs, Unsettled)
    <2>1. f \in [Pairs -> Unsettled] BY <1>5
    <2> QED BY <1>6, <2>1 DEF Injection, IsInjective
  <1>8. Cardinality(Pairs) <= Cardinality(Unsettled)
    BY <1>2, <1>7, FS_Injection
  <1>9. Cardinality(Pairs) = Size * Cap
    <2>1. /\ IsFiniteSet(1 .. Size) /\ Cardinality(1 .. Size) = Size
          /\ IsFiniteSet(1 .. Cap) /\ Cardinality(1 .. Cap) = Cap
      BY <1>1, FS_Interval
    <2> DEFINE A == 1 .. Size
               B == 1 .. Cap
    <2> HIDE DEF A, B
    <2>2. Cardinality(A \X B) = Cardinality(A) * Cardinality(B)
      BY <2>1, FS_Product DEF A, B
    <2>3. Cardinality((1 .. Size) \X (1 .. Cap)) = Size * Cap
      BY <2>1, <2>2 DEF A, B
    <2> QED BY <1>1, <2>3
  <1>10. Size * Cap \in Nat BY <1>1
  <1> QED BY <1>1, <1>2, <1>8, <1>9, <1>10

(* No load rises, and no other worker is Dispatch's, unless a delivery     *)
(* enters Dispatch or gets its slot.                                       *)
LEMMA LoadsFall ==
  ASSUME TypeOK, [WorkerNext]_vars, ~DispatchRegister
  PROVE  \A v \in Workers :
           Outstanding(v)' \in Nat /\ Outstanding(v)' <= Outstanding(v)
  <1>1. \A v \in Workers : DOMAIN msgs'[v] \subseteq DOMAIN msgs[v]
    <2>1. ASSUME NEW w \in Workers, OnPickup(w)
          PROVE  \A v \in Workers : DOMAIN msgs'[v] \subseteq DOMAIN msgs[v]
      BY <2>1 DEF OnPickup, TypeOK, SlotsOK
    <2>2. ASSUME NEW w \in Workers, Reap(w)
          PROVE  \A v \in Workers : DOMAIN msgs'[v] \subseteq DOMAIN msgs[v]
      BY <2>2 DEF Reap, TypeOK, SlotsOK
    <2>3. ASSUME NEW w \in Workers, OnDone(w) \/ TimerStep(w)
          PROVE  \A v \in Workers : DOMAIN msgs'[v] \subseteq DOMAIN msgs[v]
      BY <2>3, DeleteShrinks DEF OnDone, TimerStep, Timeout
    <2>4. CASE SendStopped
      <3>1. caller.w \in Workers BY <2>4, CallerBusy DEF SendStopped, TypeOK
      <3> QED BY <2>4, <3>1, DeleteShrinks DEF SendStopped
    <2>5. ASSUME NEW w \in Workers,
                 \/ SpawnStart(w) \/ SpawnReady(w) \/ SpawnFail(w)
                 \/ BackoffEnds(w) \/ OnEmit(w) \/ ReadEOF(w)
                 \/ ReadError(w) \/ StaleSettled(w) \/ WriterStep(w)
                 \/ BeginClose(w) \/ Kill(w) \/ CtxWake(w)
                 \/ HandlerStep(w) /\ UNCHANGED engineVars
                 \/ \E d \in Deliveries : DispatchCall(w, d)
          PROVE  msgs' = msgs
      BY <2>5 DEF SpawnStart, SpawnReady, SpawnFail, SpawnError, InitFails,
                  BackoffEnds,
         OnEmit, ReadEOF, ReadError, ReadLoopReturns, StaleSettled,
         WriterStep, WriteNote, WriterCloses, BeginClose, Kill, CtxWake,
         DispatchCall, engineVars, slotVars
    <2>6. CASE \/ DispatchRefuse \/ DispatchWait \/ SendQueued \/ SettleStep
               \/ CtxCancel \/ UNCHANGED vars
      BY <2>6 DEF DispatchRefuse, DispatchWait, SendQueued, SettleStep, Settle,
         CtxCancel, vars, engineVars, slotVars
    <2> QED BY <2>1, <2>2, <2>3, <2>4, <2>5, <2>6
            DEF WorkerNext, WorkerStep, CallerStep, SupervisorStep
  <1>2. SUFFICES ASSUME NEW v \in Workers
                 PROVE  Outstanding(v)' \in Nat
                        /\ Outstanding(v)' <= Outstanding(v)
    OBVIOUS
  <1>3. IsFiniteSet(DOMAIN msgs[v]) BY LoadType
  <1> QED BY <1>1, <1>3, FS_Subset, FS_CardinalityType DEF Outstanding

(* A delivery in Dispatch stays at its worker.                             *)
LEMMA CallerStays ==
  ASSUME TypeOK, WorkerStep \/ CtxCancel, caller'.pc \in {"check", "asleep"}
  PROVE  /\ caller.pc \in {"check", "asleep"} /\ caller'.w = caller.w
         /\ given' = given /\ ~DispatchRegister
  <1>0. caller'.pc \notin {"idle", "send", "requeue"} OBVIOUS
  <1>1. ~DispatchRegister
    <2> SUFFICES ASSUME DispatchRegister PROVE caller'.pc = "send"
      BY <1>0
    <2>1. caller \in Dispatching BY CallerBusy DEF DispatchRegister, TypeOK
    <2> QED BY <2>1 DEF DispatchRegister, Dispatching
  <1>2. CASE CallerStep
    <2>1. ~DispatchRefuse /\ ~SendQueued BY <1>0 DEF DispatchRefuse,
           SendQueued, Idle
    <2>2. ~SendStopped
      <3> SUFFICES ASSUME SendStopped PROVE caller'.pc \in {"idle", "requeue"}
        BY <1>0
      <3>1. caller \in Dispatching BY CallerBusy DEF SendStopped, TypeOK
      <3> QED BY <3>1 DEF SendStopped, Dispatching, Idle
    <2>3. CASE DispatchWait
      <3>1. caller \in Dispatching BY <2>3, CallerBusy DEF DispatchWait, TypeOK
      <3> QED BY <1>1, <2>3, <3>1 DEF DispatchWait, Dispatching, ledgerVars
    <2>4. ASSUME NEW w \in Workers, CtxWake(w)
          PROVE  /\ caller.pc \in {"check", "asleep"} /\ caller'.w = caller.w
                 /\ given' = given
      <3>1. caller \in Dispatching BY <2>4, CallerBusy DEF CtxWake, TypeOK
      <3> QED BY <2>4, <3>1 DEF CtxWake, Broadcast, Dispatching, ledgerVars
    <2> QED BY <1>1, <1>2, <2>1, <2>2, <2>3, <2>4 DEF CallerStep
  <1>3. CASE SettleStep
    <2>1. PICK o \in owed : Settle(o) BY <1>3 DEF SettleStep
    <2>2. caller' = caller /\ given' = given
      BY <2>1 DEF Settle, Idle
    <2> QED BY <1>1, <2>2
  <1>4. ASSUME NEW w \in Workers,
               SupervisorStep(w) \/ TimerStep(w) \/ CtxCancel \/ WriterStep(w)
               \/ (HandlerStep(w) /\ UNCHANGED engineVars)
        PROVE  /\ caller.pc \in {"check", "asleep"} /\ caller'.w = caller.w
               /\ given' = given /\ ~DispatchRegister
    <2>1. caller' = caller \/ caller' = Broadcast(w)
      BY <1>4 DEF SupervisorStep, SpawnStart, SpawnReady, SpawnFail,
         SpawnError, InitFails, BackoffEnds, OnPickup, OnDone, OnEmit, ReadEOF,
         ReadError, ReadLoopReturns, Reap, StaleSettled, TimerStep, Timeout,
         CtxCancel, WriterStep, WriteNote, WriterCloses, engineVars
    <2>2. given' = given
      BY <1>4 DEF SupervisorStep, SpawnStart, SpawnReady, SpawnFail,
         SpawnError, InitFails, BackoffEnds, OnPickup, OnDone, OnEmit, ReadEOF,
         ReadError, ReadLoopReturns, Reap, StaleSettled, TimerStep, Timeout,
         CtxCancel, WriterStep, WriteNote, WriterCloses, engineVars, ledgerVars
    <2>3. caller.pc \in {"check", "asleep"} /\ caller'.w = caller.w
      BY <2>1 DEF Broadcast, TypeOK, Dispatching, Idle
    <2> QED BY <1>1, <2>2, <2>3
  <1>5. \E w \in Workers : TRUE BY PoolAssumption
  <1> QED BY <1>2, <1>3, <1>4, <1>5 DEF WorkerStep

(* Some worker is below Cap from the moment a delivery is received; the    *)
(* least load seen is below Cap, or a worker not yet looked at is; and the *)
(* load of the best so far has not risen since it was read.                *)
Room ==
  /\ IsFiniteSet(given)
  /\ PickHasRoom
  /\ main.pc = "pick" =>
       \/ main.w = 1 /\ \E v \in Workers : Outstanding(v) < Cap
       \/ /\ main.w > 1
          /\ Outstanding(main.best) <= main.n
          /\ \/ main.n < Cap
             \/ \E v \in Workers : v >= main.w /\ Outstanding(v) < Cap

LEMMA RoomInit == PoolInit => Room
  BY FS_EmptySet DEF PoolInit, WorkerInit, Room, PickHasRoom, Idle

(* Meanwhile the workers only settle.                                      *)
LEMMA RoomStays ==
  ASSUME TypeOK, MainTyped, MainPlace, Room, [WorkerNext]_vars,
         UNCHANGED main, given' = given,
         caller'.pc \in {"check", "asleep"} =>
           caller.pc \in {"check", "asleep"} /\ caller'.w = caller.w,
         main.pc = "pick" \/ caller'.pc \in {"check", "asleep"}
           => ~DispatchRegister
  PROVE  Room'
  <1> USE PoolAssumption, WorkerAssumption
  <1>1. \A v \in Workers : Outstanding(v) \in Nat
    BY LoadType
  <1>2. CASE DispatchRegister
    <2>1. main'.pc # "pick" /\ caller'.pc \notin {"check", "asleep"}
      BY <1>2
    <2> QED BY <2>1 DEF Room, PickHasRoom
  <1>3. CASE ~DispatchRegister
    <2>1. \A v \in Workers :
            Outstanding(v)' \in Nat /\ Outstanding(v)' <= Outstanding(v)
      BY <1>3, LoadsFall
    <2>2. PickHasRoom'
      <3> SUFFICES ASSUME caller'.pc \in {"check", "asleep"}
                   PROVE  Outstanding(caller.w)' < Cap /\ caller'.w = caller.w
        BY DEF PickHasRoom
      <3>1. caller.w \in Workers BY CallerBusy DEF TypeOK
      <3> QED BY <1>1, <2>1, <3>1 DEF Room, PickHasRoom
    <2>3. CASE main.pc = "pick"
      <3>1. main.best \in Workers /\ main.n \in Nat /\ main.w \in Nat
        BY DEF MainTyped, MainRec
      <3>2. \A v \in Workers : Outstanding(v) < Cap => Outstanding(v)' < Cap
        BY <1>1, <2>1
      <3>3. Outstanding(main.best) <= main.n
              => Outstanding(main.best)' <= main.n
        BY <1>1, <2>1, <3>1
      <3> QED BY <2>2, <2>3, <3>1, <3>2, <3>3 DEF Room
    <2> QED BY <2>2, <2>3 DEF Room
  <1> QED BY <1>2, <1>3

(* leastLoaded looks at one more worker.                                   *)
LEMMA RoomLook ==
  ASSUME Custody, MainTyped, MainPlace, Room, NEW w \in Workers, LookAt(w)
  PROVE  Room'
  <1> USE PoolAssumption, WorkerAssumption
  <1> DEFINE n    == Outstanding(w)
             best == IF Beats(w, n) THEN w ELSE main.best
             k    == IF best = w THEN n ELSE main.n
  <1>1. /\ main.best \in Workers /\ main.n \in Nat /\ main.w = w
        /\ main.pc = "pick" /\ best \in Workers
    BY DEF MainTyped, MainRec, LookAt
  <1>2. \A v \in Workers : Outstanding(v) \in Nat
    BY LoadType DEF Custody
  <1>3. Outstanding(best) <= k
    BY <1>1, <1>2 DEF Room, Beats
  <1>4. k < Cap \/ \E v \in Workers : v >= w + 1 /\ Outstanding(v) < Cap
    BY <1>1, <1>2 DEF Room, Beats
  <1>5. k \in Nat BY <1>1, <1>2
  <1>6. CASE /\ w < Size /\ UNCHANGED vars
             /\ main' = [At("pick", w + 1) EXCEPT !.best = best,
                           !.n = IF best = w THEN n ELSE @]
    <2>1. w + 1 \in Workers BY <1>6
    <2>2. At("pick", w + 1).n = main.n
      BY <2>1, AtType DEF MainStates
    <2> HIDE DEF n, best
    <2>3. main' = [At("pick", w + 1) EXCEPT !.best = best, !.n = k]
      BY <1>6, <2>2
    <2> HIDE DEF k
    <2>4. main'.pc = "pick" /\ main'.w = w + 1 /\ main'.best = best /\ main'.n = k
      BY <1>1, <1>5, <2>1, <2>3, LookOnType
    <2>5. /\ caller' = caller /\ given' = given
          /\ \A v \in Workers : Outstanding(v)' = Outstanding(v)
      BY <1>6 DEF vars, engineVars, slotVars, ledgerVars, Outstanding
    <2>6. PickHasRoom'
      <3>1. caller'.pc = "idle" BY <1>1, <2>5 DEF MainPlace
      <3> QED BY <3>1 DEF PickHasRoom
    <2> QED BY <1>1, <1>3, <1>4, <2>4, <2>5, <2>6 DEF Room
  <1>7. CASE /\ w = Size
             /\ main' = [At("consume", 1) EXCEPT !.d = None, !.best = 1,
                                                 !.n = 0]
             /\ DispatchCall(best, main.d)
    <2>1. main'.pc = "consume" BY <1>7, PlacedType
    <2>2. Outstanding(best) < Cap BY <1>1, <1>2, <1>3, <1>4, <1>7
    <2> HIDE DEF best, k, n
    <2>3. /\ caller'.w = best /\ given' = given \cup {main.d}
          /\ msgs' = msgs
      BY <1>7 DEF DispatchCall, Idle, slotVars
    <2>4. IsFiniteSet(given')
      BY <2>3, FS_AddElement DEF Room
    <2>5. \A v \in Workers : Outstanding(v)' = Outstanding(v)
      BY <2>3 DEF Outstanding
    <2> QED BY <1>1, <2>1, <2>2, <2>3, <2>4, <2>5 DEF Room, PickHasRoom
  <1> QED BY <1>6, <1>7 DEF LookAt

(* Only the consume loop hands a delivery to Dispatch.                     *)
LEMMA GivenStays ==
  ASSUME WorkerStep \/ CtxCancel
  PROVE  given' = given
  <1>1. CASE CallerStep
    BY <1>1 DEF CallerStep, DispatchRefuse, DispatchRegister, DispatchWait,
                SendQueued, SendStopped, CtxWake, ledgerVars
  <1>2. CASE SettleStep \/ CtxCancel
    BY <1>2 DEF SettleStep, Settle, CtxCancel, ledgerVars
  <1>3. ASSUME NEW w \in Workers,
               \/ TimerStep(w) \/ WriterStep(w)
               \/ HandlerStep(w) /\ UNCHANGED engineVars
        PROVE  given' = given
    BY <1>3 DEF TimerStep, Timeout, WriterStep, WriteNote, WriterCloses,
                engineVars, ledgerVars
  <1>4. ASSUME NEW w \in Workers, SupervisorStep(w) PROVE given' = given
    BY <1>4 DEF SupervisorStep, SpawnStart, SpawnReady, SpawnFail, SpawnError,
                InitFails,
       BackoffEnds, OnPickup, OnDone, OnEmit, ReadEOF, ReadError,
       ReadLoopReturns, Reap, StaleSettled, ledgerVars
  <1> QED BY <1>1, <1>2, <1>3, <1>4 DEF WorkerStep

LEMMA RoomStep ==
  ASSUME Custody, MainTyped, MainPlace, Room, [PoolNext]_poolVars,
         Prefetch <= Size * Cap
  PROVE  Room'
  <1> USE DEF Custody
  <1>1. CASE (WorkerStep \/ CtxCancel) /\ UNCHANGED <<main, grace>>
    <2>1. given' = given
      BY <1>1, GivenStays
    <2>2. caller'.pc \in {"check", "asleep"} =>
            /\ caller.pc \in {"check", "asleep"} /\ caller'.w = caller.w
            /\ ~DispatchRegister
      BY <1>1, CallerStays
    <2>3. main.pc = "pick" => ~DispatchRegister
      BY DEF MainPlace, DispatchRegister
    <2>4. [WorkerNext]_vars BY <1>1 DEF WorkerNext
    <2> QED BY <1>1, <2>1, <2>2, <2>3, <2>4, RoomStays
  <1>2. ASSUME NEW d \in Deliveries, Receive(d) PROVE Room'
    <2>1. 1 \in Workers BY PoolAssumption
    <2>2. main'.pc = "pick" /\ main'.w = 1
      BY <1>2, <2>1, PlacingType DEF Receive
    <2>3. \E v \in Workers : Outstanding(v) < Cap
      BY <1>2, SomeRoom DEF Receive, Room
    <2>4. UNCHANGED <<caller, given, msgs>>
      BY <1>2 DEF Receive, vars, engineVars, slotVars, ledgerVars
    <2> QED BY <2>2, <2>3, <2>4 DEF Room, PickHasRoom, Outstanding
  <1>3. ASSUME NEW w \in Workers, LookAt(w) PROVE Room'
    BY <1>3, RoomLook
  <1>4. ASSUME UNCHANGED vars, main' = main PROVE Room'
    BY <1>4 DEF Room, PickHasRoom, Outstanding, vars, engineVars, slotVars,
                ledgerVars
  <1>5. CASE UNCHANGED poolVars
    BY <1>4, <1>5 DEF poolVars
  <1>6. CASE GraceEnds \/ Finished
    BY <1>4, <1>6 DEF GraceEnds, Finished, poolVars
  <1>7. ASSUME UNCHANGED <<msgs, given>>, main'.pc # "pick",
               caller'.pc \notin {"check", "asleep"}
        PROVE  Room'
    BY <1>7 DEF Room, PickHasRoom
  <1>8. CASE LeaveConsume
    <2>1. 1 \in Workers /\ "close" \in MainStates
      BY PoolAssumption DEF MainStates
    <2>2. main'.pc = "close" BY <1>8, <2>1, AtType DEF LeaveConsume
    <2>3. UNCHANGED <<msgs, given, caller>> /\ caller.pc = "idle"
      BY <1>8 DEF LeaveConsume, AtSelect, vars, engineVars, slotVars,
                  ledgerVars
    <2> QED BY <1>7, <2>2, <2>3
  <1>9. ASSUME NEW w \in Workers,
               CloseWorker(w) \/ WorkerStopped(w) \/ KillWorker(w)
        PROVE  Room'
    <2>1. \E pc \in {"close", "await", "killed", "done"}, v \in Workers :
            main' = At(pc, v)
      BY <1>9, PoolAssumption DEF CloseWorker, WorkerStopped, KillWorker
    <2>2. main'.pc # "pick" BY <2>1, AtType DEF MainStates
    <2>3. caller.pc = "idle"
      BY <1>9 DEF CloseWorker, WorkerStopped, KillWorker, MainPlace
    <2>4. UNCHANGED <<msgs, given>>
      BY <1>9 DEF CloseWorker, WorkerStopped, KillWorker, BeginClose, Kill,
         vars, engineVars, slotVars, ledgerVars
    <2>5. caller' = caller \/ caller' = Broadcast(w)
      BY <1>9 DEF CloseWorker, WorkerStopped, KillWorker, BeginClose, Kill,
         vars, engineVars
    <2> QED BY <1>7, <2>2, <2>3, <2>4, <2>5 DEF Broadcast
  <1> QED BY <1>1, <1>2, <1>3, <1>5, <1>6, <1>8, <1>9 DEF PoolNext, MainStep

(* With a window of at most Size * Cap unsettled deliveries, which is what *)
(* the engine asks of the broker, the worker Dispatch is given has a free  *)
(* slot however the workers settle, crash and time out while leastLoaded   *)
(* reads their loads one by one (pool.go:46-62, engine.go:216-222).        *)
THEOREM PickHasRoomAlways ==
  ASSUME Prefetch <= Size * Cap
  PROVE  PoolSpec => []PickHasRoom
  <1>1. Custody /\ MainTyped /\ MainPlace /\ Room /\ [PoolNext]_poolVars
          => Room'
    BY RoomStep
  <1>2. Room => PickHasRoom BY DEF Room
  <1>3. PoolSpec => []Custody BY MainKept, CustodyCorrect, PTL
  <1> QED BY <1>1, <1>2, <1>3, RoomInit, MainKept, PTL DEF PoolSpec

-----------------------------------------------------------------------------
(* Who is to blame for a requeue                                           *)

(* What excuses a worker for giving a message back: the context is done, a *)
(* process has failed, or Shutdown has told a worker to close.             *)
Excused == ctx \/ faults > 0 \/ \E w \in Workers : closing[w]

(* Until then every process runs from its start on, no writer has been     *)
(* asked to stop, and stdout carries notes only.                           *)
Healthy(w) ==
  /\ sup[w] \in {"spawn", "init", "read"}
  /\ sup[w] # "spawn" => alive[w]
  /\ ~stop[w] /\ ~eof[w]
  /\ \A i \in 1 .. Len(stdout[w]) : stdout[w][i].k # "bad"

(* A Dispatch in p.send therefore sends to the process it registered with. *)
SendsOn ==
  /\ caller.pc = "send" => sup[caller.w] = "read" /\ caller.p = gen[caller.w]
  /\ caller.pc # "requeue"

NoRequeue == \A o \in owed : o.v # "requeue"

Blameless ==
  Excused \/ ((\A w \in Workers : Healthy(w)) /\ SendsOn /\ NoRequeue)

LEMMA BlamelessInit == WorkerInit => Blameless
  BY DEF WorkerInit, HandlerInit, Blameless, Healthy, SendsOn, NoRequeue, Idle

(* No step of the workers undoes the context or a failure.                 *)
LEMMA FaultsStay ==
  ASSUME TypeOK, WorkerStep
  PROVE  ctx' = ctx /\ (faults' = faults \/ faults' = faults + 1)
  <1>1. CASE CallerStep
    BY <1>1 DEF CallerStep, DispatchRefuse, DispatchRegister, DispatchWait,
                SendQueued, SendStopped, CtxWake, handlerVars, shutVars
  <1>2. CASE SettleStep
    BY <1>2 DEF SettleStep, Settle, handlerVars, shutVars
  <1>3. CASE \E w \in Workers : TimerStep(w) \/ WriterStep(w)
    BY <1>3 DEF TimerStep, Timeout, WriterStep, WriteNote, WriterCloses,
                handlerVars, shutVars, engineVars
  <1>4. CASE \E w \in Workers : HandlerStep(w) /\ UNCHANGED engineVars
    BY <1>4 DEF HandlerStep, HandlerWork, HandlerTake, HandlerHearAck,
       HandlerDone, HandlerExit, HandlerEmit, HandlerDoneTwice, HandlerBad,
       HandlerCrash, Dies, Fault, engineVars, shutVars
  <1>5. CASE \E w \in Workers : SupervisorStep(w)
    BY <1>5 DEF SupervisorStep, SpawnStart, SpawnReady, SpawnFail, SpawnError,
                InitFails,
       BackoffEnds, OnPickup, OnDone, OnEmit, Reads, ReadEOF, ReadError,
       ReadLoopReturns, Reap, StaleSettled, Fault, handlerVars, shutVars
  <1> QED BY <1>1, <1>2, <1>3, <1>4, <1>5 DEF WorkerStep

(* A handler that has no excuse goes on running and writes notes.          *)
LEMMA HandlerBehaves ==
  ASSUME TypeOK, NEW w \in Workers, Healthy(w),
         HandlerStep(w), ~(faults' > 0)
  PROVE  /\ alive' = alive /\ eof' = eof
         /\ \A v \in Workers :
              \/ stdout'[v] = stdout[v]
              \/ \E n : /\ n.k # "bad" /\ stdout'[v] = stdout[v] \o <<n>>
  <1>1. faults \in Nat /\ stdout \in [Workers -> Seq(InNote)]
    BY DEF TypeOK, HandlerTypeOK
  <1>2. ~Fault
    BY <1>1 DEF Fault
  <1>3. ~HandlerExit(w)
    BY DEF HandlerExit, Healthy
  <1>4. CASE HandlerTake(w)
    BY <1>1, <1>4 DEF HandlerTake, Says
  <1>5. CASE HandlerHearAck(w)
    BY <1>5 DEF HandlerHearAck
  <1>6. ASSUME NEW m \in hand[w], NEW ok \in BOOLEAN,
               HandlerDone(w, m, ok) \/ HandlerEmit(w, m, ok)
        PROVE  /\ alive' = alive /\ eof' = eof
               /\ \E n : n.k # "bad" /\ stdout' = [stdout EXCEPT ![w] = @ \o <<n>>]
    BY <1>6 DEF HandlerDone, HandlerEmit, Says
  <1>7. ASSUME NEW n, n.k # "bad", stdout' = [stdout EXCEPT ![w] = @ \o <<n>>],
               NEW v \in Workers
        PROVE  \/ stdout'[v] = stdout[v]
               \/ stdout'[v] = stdout[v] \o <<n>>
    BY <1>1, <1>7
  <1> QED BY <1>2, <1>3, <1>4, <1>5, <1>6, <1>7
          DEF HandlerStep, HandlerWork, HandlerDoneTwice, HandlerBad,
              HandlerCrash

(* A step that leaves the processes and their stdout alone.                *)
LEMMA HealthStays ==
  ASSUME NEW v \in Workers, Healthy(v),
         sup'[v] = sup[v], alive'[v] = alive[v], stop'[v] = stop[v],
         eof'[v] = eof[v],
         \/ stdout'[v] = stdout[v]
         \/ stdout[v] \in Seq(InNote) /\ stdout[v] # <<>>
            /\ stdout'[v] = Tail(stdout[v])
         \/ stdout[v] \in Seq(InNote)
            /\ \E n : n.k # "bad" /\ stdout'[v] = stdout[v] \o <<n>>
  PROVE  Healthy(v)'
  <1>1. \A i \in 1 .. Len(stdout'[v]) : stdout'[v][i].k # "bad"
    <2>1. CASE stdout'[v] = stdout[v]
      BY <2>1 DEF Healthy
    <2>2. CASE stdout[v] \in Seq(InNote) /\ stdout[v] # <<>>
               /\ stdout'[v] = Tail(stdout[v])
      <3> DEFINE s == stdout[v]
      <3>1. /\ Len(Tail(s)) = Len(s) - 1
            /\ \A i \in 1 .. Len(Tail(s)) : Tail(s)[i] = s[i + 1]
            /\ Len(s) \in Nat
        BY <2>2
      <3> QED BY <2>2, <3>1 DEF Healthy
    <2>3. ASSUME stdout[v] \in Seq(InNote), NEW n, n.k # "bad",
                 stdout'[v] = stdout[v] \o <<n>>
          PROVE  \A i \in 1 .. Len(stdout'[v]) : stdout'[v][i].k # "bad"
      <3> DEFINE s == stdout[v]
      <3>1. /\ Len(s \o <<n>>) = Len(s) + 1 /\ Len(s) \in Nat
            /\ \A i \in 1 .. Len(s) : (s \o <<n>>)[i] = s[i]
            /\ (s \o <<n>>)[Len(s) + 1] = n
        BY <2>3
      <3> QED BY <2>3, <3>1 DEF Healthy
    <2> QED BY <2>1, <2>2, <2>3
  <1> QED BY <1>1 DEF Healthy

(* The supervisors.                                                        *)
LEMMA BlamelessSupervisor ==
  ASSUME TypeOK, NothingStranded, \A v \in Workers : Healthy(v),
         SendsOn, NoRequeue, NEW w \in Workers, SupervisorStep(w),
         ~(faults' > 0)
  PROVE  (\A v \in Workers : Healthy(v)') /\ SendsOn' /\ NoRequeue'
  <1>0. /\ sup \in [Workers -> SupStates] /\ stop \in [Workers -> BOOLEAN]
        /\ gen \in [Workers -> Nat] /\ alive \in [Workers -> BOOLEAN]
        /\ eof \in [Workers -> BOOLEAN] /\ faults \in Nat
        /\ stdout \in [Workers -> Seq(InNote)]
        /\ caller \in {Idle} \cup Dispatching
    BY DEF TypeOK, HandlerTypeOK
  <1>1. CASE SpawnStart(w)
    <2>1. \A v \in Workers \ {w} : Healthy(v)'
      BY <1>0, <1>1, HealthStays DEF SpawnStart
    <2>2. Healthy(w)'
      BY <1>0, <1>1 DEF SpawnStart, Healthy
    <2>3. SendsOn' /\ NoRequeue'
      BY <1>0, <1>1 DEF SpawnStart, SendsOn, NoRequeue, ledgerVars
    <2> QED BY <2>1, <2>2, <2>3
  <1>2. CASE SpawnReady(w)
    <2>1. \A v \in Workers \ {w} : Healthy(v)'
      BY <1>0, <1>2, HealthStays DEF SpawnReady, handlerVars
    <2>2. Healthy(w)'
      BY <1>0, <1>2 DEF SpawnReady, Healthy, handlerVars
    <2>3. SendsOn' /\ NoRequeue'
      <3>1. caller'.pc \in {"send", "requeue"} => caller' = caller
        BY <1>0, <1>2 DEF SpawnReady, Broadcast, Dispatching, Idle
      <3>2. caller.pc = "send" => caller.w # w
        BY <1>2 DEF SpawnReady, SendsOn
      <3> QED BY <1>0, <1>2, <3>1, <3>2
              DEF SpawnReady, SendsOn, NoRequeue, ledgerVars
    <2> QED BY <2>1, <2>2, <2>3
  <1>3. ~SpawnFail(w) /\ ~BackoffEnds(w) /\ ~ReadEOF(w) /\ ~Reap(w)
        /\ ~StaleSettled(w)
    <2>1. Healthy(w) OBVIOUS
    <2> QED BY <1>0, <2>1 DEF SpawnFail, InitFails, Fault, BackoffEnds, ReadEOF,
                              Reap, StaleSettled, Healthy
  <1>4. ~ReadError(w)
    <2> SUFFICES ASSUME ReadError(w) PROVE FALSE
      OBVIOUS
    <2>1. stdout[w] # <<>> /\ Head(stdout[w]).k = "bad" /\ Healthy(w)
      BY DEF ReadError, Reads
    <2>2. 1 \in 1 .. Len(stdout[w]) /\ stdout[w][1].k = "bad"
      BY <1>0, <2>1
    <2> QED BY <2>1, <2>2 DEF Healthy
  <1>5. CASE OnPickup(w) \/ OnDone(w) \/ OnEmit(w)
    <2>1. /\ stdout[w] # <<>> /\ stdout' = [stdout EXCEPT ![w] = Tail(@)]
          /\ UNCHANGED <<alive, eof, sup, stop, gen>>
      BY <1>5 DEF OnPickup, OnDone, OnEmit, Reads, procVars
    <2>2. \A v \in Workers : Healthy(v)'
      <3>1. Healthy(w)'
        BY <1>0, <2>1, HealthStays
      <3>2. \A v \in Workers \ {w} : Healthy(v)'
        BY <1>0, <2>1, HealthStays
      <3> QED BY <3>1, <3>2
    <2>3. caller' = caller \/ caller' = Broadcast(w)
      BY <1>5 DEF OnPickup, OnDone, OnEmit
    <2>4. SendsOn'
      <3>1. caller'.pc \in {"send", "requeue"} => caller' = caller
        BY <1>0, <2>3 DEF Broadcast, Dispatching, Idle
      <3> QED BY <2>1, <3>1 DEF SendsOn
    <2>5. NoRequeue'
      BY <1>5 DEF OnPickup, OnDone, OnEmit, ledgerVars, NoRequeue
    <2> QED BY <2>2, <2>4, <2>5
  <1> QED BY <1>1, <1>2, <1>3, <1>4, <1>5 DEF SupervisorStep

(* Dispatch.                                                               *)
LEMMA BlamelessCaller ==
  ASSUME TypeOK, NothingStranded, \A v \in Workers : Healthy(v),
         SendsOn, NoRequeue, CallerStep, ~ctx
  PROVE  (\A v \in Workers : Healthy(v)') /\ SendsOn' /\ NoRequeue'
  <1>0. caller \in {Idle} \cup Dispatching
    BY DEF TypeOK
  <1>1. ~SendStopped
    <2> SUFFICES ASSUME SendStopped PROVE FALSE
      OBVIOUS
    <2>1. caller.pc = "send" /\ caller.w \in Workers
      BY CallerBusy DEF SendStopped, TypeOK
    <2>2. Healthy(caller.w) BY <2>1
    <2> QED BY <2>1, <2>2 DEF SendStopped, SendsOn, Healthy
  <1>2. ~ \E w \in Workers : CtxWake(w)
    BY DEF CtxWake
  <1>3. /\ UNCHANGED <<alive, eof, sup, stop, gen, stdout, owed>>
        /\ caller'.pc # "requeue"
    <2>1. CASE DispatchRefuse \/ SendQueued
      BY <2>1 DEF DispatchRefuse, SendQueued, handlerVars, procVars,
                  ledgerVars, Idle
    <2>2. CASE DispatchRegister \/ DispatchWait
      <3>1. caller \in Dispatching
        BY <2>2, CallerBusy DEF DispatchRegister, DispatchWait, TypeOK
      <3> QED BY <2>2, <3>1 DEF DispatchRegister, DispatchWait, handlerVars,
                                procVars, ledgerVars, Dispatching
    <2> QED BY <1>1, <1>2, <2>1, <2>2 DEF CallerStep
  <1>4. (\A v \in Workers : Healthy(v)') /\ NoRequeue'
    BY <1>3, HealthStays DEF NoRequeue
  <1>5. caller'.pc = "send" => sup[caller'.w] = "read" /\ caller'.p = gen[caller'.w]
    <2>1. CASE DispatchRegister
      <3>1. caller \in Dispatching /\ caller.w \in Workers
        BY <2>1, CallerBusy DEF DispatchRegister, TypeOK
      <3>2. caller'.w = caller.w /\ caller'.p = gen[caller.w]
        BY <2>1, <3>1 DEF DispatchRegister, Dispatching
      <3>3. live[caller.w] BY <2>1 DEF DispatchRegister, FreeSlot
      <3>4. sup[caller.w] \in {"read", "wait"} /\ Healthy(caller.w)
        BY <3>1, <3>3 DEF NothingStranded
      <3> QED BY <3>2, <3>4 DEF Healthy
    <2>2. CASE DispatchRefuse \/ SendQueued
      BY <2>2 DEF DispatchRefuse, SendQueued, Idle
    <2>3. CASE DispatchWait
      <3>1. caller \in Dispatching
        BY <2>3, CallerBusy DEF DispatchWait, TypeOK
      <3> QED BY <2>3, <3>1 DEF DispatchWait, Dispatching
    <2> QED BY <1>1, <1>2, <2>1, <2>2, <2>3 DEF CallerStep
  <1> QED BY <1>3, <1>4, <1>5 DEF SendsOn

LEMMA BlamelessStep ==
  ASSUME TypeOK, NothingStranded, Blameless, [WorkerNext]_vars
  PROVE  Blameless'
  <1>0. /\ faults \in Nat /\ closing \in [Workers -> BOOLEAN]
        /\ stdout \in [Workers -> Seq(InNote)]
        /\ caller \in {Idle} \cup Dispatching
    BY DEF TypeOK, HandlerTypeOK
  <1>1. Excused => Excused'
    <2>1. CASE WorkerStep
      BY <1>0, <2>1, FaultsStay, WorkersLeaveMain DEF Excused
    <2>2. CASE CtxCancel
      BY <2>2 DEF CtxCancel, Excused
    <2>3. ASSUME NEW w \in Workers,
                 (\E d \in Deliveries : DispatchCall(w, d)) \/ BeginClose(w)
                 \/ Kill(w)
          PROVE  Excused => Excused'
      BY <1>0, <2>3 DEF DispatchCall, BeginClose, Kill, Dies, Excused,
                  handlerVars, engineVars, shutVars
    <2>4. CASE UNCHANGED vars
      BY <2>4 DEF vars, handlerVars, engineVars, shutVars, Excused
    <2> QED BY <2>1, <2>2, <2>3, <2>4 DEF WorkerNext
  <1> SUFFICES ASSUME ~Excused', ~Excused,
                      \A v \in Workers : Healthy(v), SendsOn, NoRequeue
               PROVE  (\A v \in Workers : Healthy(v)') /\ SendsOn' /\ NoRequeue'
    BY <1>1 DEF Blameless
  <1>2. ~ctx /\ ~(faults' > 0) /\ ~ctx'
        /\ \A v \in Workers : ~closing[v] /\ ~closing'[v]
    BY DEF Excused
  <1>3. ASSUME UNCHANGED <<alive, eof, sup, stop, gen, stdout>>, NoRequeue',
               caller'.pc \in {"send", "requeue"} => caller' = caller
        PROVE  (\A v \in Workers : Healthy(v)') /\ SendsOn' /\ NoRequeue'
    BY <1>3, HealthStays DEF SendsOn
  <1>4. CASE CallerStep
    BY <1>2, <1>4, BlamelessCaller
  <1>5. CASE SettleStep
    BY <1>3, <1>5 DEF SettleStep, Settle, Idle, handlerVars, procVars,
                      NoRequeue
  <1>6. ASSUME NEW w \in Workers, SupervisorStep(w)
        PROVE  (\A v \in Workers : Healthy(v)') /\ SendsOn' /\ NoRequeue'
    BY <1>2, <1>6, BlamelessSupervisor
  <1>7. ASSUME NEW w \in Workers, WriterStep(w)
        PROVE  (\A v \in Workers : Healthy(v)') /\ SendsOn' /\ NoRequeue'
    <2>1. WriteNote(w)
      BY <1>7 DEF WriterStep, WriterCloses, Healthy
    <2> QED BY <1>3, <2>1 DEF WriteNote, ledgerVars, NoRequeue
  <1>8. ASSUME NEW w \in Workers, TimerStep(w)
        PROVE  (\A v \in Workers : Healthy(v)') /\ SendsOn' /\ NoRequeue'
    <2>1. caller' = Broadcast(w) /\ NoRequeue'
          /\ UNCHANGED <<alive, eof, sup, stop, gen, stdout>>
      BY <1>8 DEF TimerStep, Timeout, NoRequeue, handlerVars, procVars
    <2>2. caller'.pc \in {"send", "requeue"} => caller' = caller
      BY <1>0, <2>1 DEF Broadcast, Dispatching, Idle
    <2> QED BY <1>3, <2>1, <2>2
  <1>9. ASSUME NEW w \in Workers, HandlerStep(w), UNCHANGED engineVars
        PROVE  (\A v \in Workers : Healthy(v)') /\ SendsOn' /\ NoRequeue'
    <2>1. UNCHANGED <<sup, stop, gen, caller, owed>>
      BY <1>9 DEF engineVars, procVars, ledgerVars
    <2>2. /\ alive' = alive /\ eof' = eof
          /\ \A v \in Workers :
               \/ stdout'[v] = stdout[v]
               \/ \E n : n.k # "bad" /\ stdout'[v] = stdout[v] \o <<n>>
      BY <1>2, <1>9, HandlerBehaves
    <2>3. \A v \in Workers : Healthy(v)'
      BY <1>0, <2>1, <2>2, HealthStays
    <2> QED BY <2>1, <2>3 DEF SendsOn, NoRequeue
  <1>10. ASSUME NEW w \in Workers, NEW d \in Deliveries, DispatchCall(w, d)
         PROVE  (\A v \in Workers : Healthy(v)') /\ SendsOn' /\ NoRequeue'
    BY <1>3, <1>10 DEF DispatchCall, Idle, handlerVars, procVars, NoRequeue
  <1>11. ~CtxCancel
    BY <1>2 DEF CtxCancel
  <1>12. ASSUME NEW w \in Workers, BeginClose(w) \/ (closing[w] /\ Kill(w))
         PROVE  FALSE
    BY <1>0, <1>2, <1>12 DEF BeginClose
  <1>13. CASE UNCHANGED vars
    BY <1>3, <1>13 DEF vars, handlerVars, engineVars, procVars, ledgerVars,
                       NoRequeue
  <1> QED BY <1>4, <1>5, <1>6, <1>7, <1>8, <1>9, <1>10, <1>11, <1>12, <1>13
          DEF WorkerNext, WorkerStep

(* Until the context is done, a process fails or Shutdown begins, no       *)
(* worker owes a requeue.                                                  *)
LEMMA BlamelessAlways == WorkerSpec => []Blameless
  <1>1. TypeOK /\ NothingStranded /\ Blameless /\ [WorkerNext]_vars
          => Blameless'
    BY BlamelessStep
  <1> QED BY <1>1, BlamelessInit, TypeCorrect, NeverStranded, PTL
          DEF WorkerSpec

-----------------------------------------------------------------------------
(* The broker's window                                                     *)

(* The window holds: the select takes a delivery only below Prefetch, and  *)
(* a delivery on its way to Dispatch is not yet counted.                   *)
WithinWindow ==
  /\ IsFiniteSet(given)
  /\ Cardinality(Unsettled) <= Prefetch
  /\ main.pc = "pick" => Cardinality(Unsettled) < Prefetch

LEMMA UnsettledType ==
  ASSUME IsFiniteSet(given)
  PROVE  IsFiniteSet(Unsettled) /\ Cardinality(Unsettled) \in Nat
  BY FS_Subset, FS_CardinalityType DEF Unsettled

LEMMA WindowInit == PoolInit => WithinWindow
  <1> SUFFICES ASSUME PoolInit PROVE WithinWindow
    OBVIOUS
  <1>1. given = {} /\ main.pc = "consume" /\ Prefetch \in Nat \ {0}
    BY PoolAssumption DEF PoolInit, WorkerInit
  <1>2. Unsettled = {} BY <1>1 DEF Unsettled
  <1> QED BY <1>1, <1>2, FS_EmptySet DEF WithinWindow

(* A settled delivery stays settled, so the workers only shrink the window.*)
LEMMA CallsStay ==
  ASSUME Custody, [WorkerNext]_vars
  PROVE  \A d \in Deliveries : calls'[d] = <<>> => calls[d] = <<>>
  <1>1. CASE Settled
    <2>1. PICK o \in owed : Settle(o) BY <1>1 DEF Settled
    <2>2. o.d \in Deliveries /\ calls[o.d] = <<>> BY <2>1, SettleSteps
    <2> QED BY <2>1, <2>2 DEF Settle, Custody, TypeOK
  <1>2. CASE StableOwners \/ Offered \/ DispatchRefuse \/ DispatchRegister
    BY <1>2 DEF StableOwners, Offered, DispatchCall, DispatchRefuse,
                DispatchRegister, ledgerVars
  <1> QED BY <1>1, <1>2, CustodyStep

LEMMA WindowStays ==
  ASSUME Custody, WithinWindow, [WorkerNext]_vars, given' = given,
         main'.pc = "pick" => main.pc = "pick"
  PROVE  WithinWindow'
  <1>1. Unsettled' \subseteq Unsettled
    BY CallsStay DEF Unsettled, Custody, TypeOK
  <1>2. /\ IsFiniteSet(Unsettled) /\ Cardinality(Unsettled) \in Nat
        /\ Prefetch \in Nat
    BY UnsettledType, PoolAssumption DEF WithinWindow
  <1>3. /\ Cardinality(Unsettled') <= Cardinality(Unsettled)
        /\ Cardinality(Unsettled') \in Nat
    BY <1>1, <1>2, FS_Subset, FS_CardinalityType
  <1> QED BY <1>2, <1>3 DEF WithinWindow

LEMMA WindowStep ==
  ASSUME Custody, MainTyped, MainPlace, WithinWindow, [PoolNext]_poolVars
  PROVE  WithinWindow'
  <1>0. 1 \in Workers /\ Prefetch \in Nat
    BY PoolAssumption
  <1>1. CASE (WorkerStep \/ CtxCancel) /\ UNCHANGED <<main, grace>>
    BY <1>1, GivenStays, WindowStays DEF WorkerNext
  <1>2. ASSUME NEW d \in Deliveries, Receive(d) PROVE WithinWindow'
    <2>1. UNCHANGED <<given, calls>>
      BY <1>2 DEF Receive, vars, engineVars, ledgerVars
    <2> QED BY <1>2, <2>1 DEF Receive, WithinWindow, Unsettled
  <1>3. ASSUME UNCHANGED vars, main'.pc = "pick" => main.pc = "pick"
        PROVE  WithinWindow'
    <2>1. given' = given BY <1>3 DEF vars, engineVars, ledgerVars
    <2> QED BY <1>3, <2>1, WindowStays
  <1>4. ASSUME NEW w \in Workers, LookAt(w) PROVE WithinWindow'
    <2>1. main.pc = "pick" /\ main.d \in Deliveries \ given
      BY <1>4 DEF LookAt, MainPlace
    <2>2. CASE UNCHANGED vars
      BY <1>3, <2>1, <2>2
    <2>3. ASSUME NEW b, DispatchCall(b, main.d),
                 main' = [At("consume", 1) EXCEPT !.d = None, !.best = 1,
                                                  !.n = 0]
          PROVE  WithinWindow'
      <3>1. given' = given \cup {main.d} /\ calls' = calls
        BY <2>3 DEF DispatchCall
      <3>2. main'.pc = "consume" BY <1>0, <2>3, PlacedType
      <3>3. IsFiniteSet(given')
        BY <3>1, FS_AddElement DEF WithinWindow
      <3>4. IsFiniteSet(Unsettled) /\ Cardinality(Unsettled) \in Nat
            /\ Cardinality(Unsettled) < Prefetch
        BY <2>1, UnsettledType DEF WithinWindow
      <3>5. Unsettled' \subseteq Unsettled \cup {main.d}
        BY <3>1 DEF Unsettled
      <3>6. main.d \notin Unsettled
        BY <2>1 DEF Unsettled
      <3>7. /\ IsFiniteSet(Unsettled \cup {main.d})
            /\ Cardinality(Unsettled \cup {main.d})
                 = Cardinality(Unsettled) + 1
        BY <3>4, <3>6, FS_AddElement
      <3>8. /\ Cardinality(Unsettled') <= Cardinality(Unsettled \cup {main.d})
            /\ Cardinality(Unsettled') \in Nat
        BY <3>5, <3>7, FS_Subset, FS_CardinalityType
      <3> QED BY <1>0, <3>2, <3>3, <3>4, <3>7, <3>8 DEF WithinWindow
    <2> QED BY <1>4, <2>2, <2>3 DEF LookAt
  <1>5. CASE UNCHANGED poolVars \/ GraceEnds \/ Finished
    BY <1>3, <1>5 DEF GraceEnds, Finished, poolVars
  <1>6. ASSUME NEW pc \in {"close", "await", "killed", "done"},
               NEW v \in Workers, main' = At(pc, v),
               [WorkerNext]_vars, given' = given
        PROVE  WithinWindow'
    <2>1. main'.pc # "pick" BY <1>6, AtType DEF MainStates
    <2> QED BY <1>6, <2>1, WindowStays
  <1>7. CASE LeaveConsume
    BY <1>0, <1>6, <1>7 DEF LeaveConsume, vars, engineVars, ledgerVars
  <1>8. ASSUME NEW w \in Workers,
               CloseWorker(w) \/ WorkerStopped(w) \/ KillWorker(w)
        PROVE  WithinWindow'
    <2>1. \E pc \in {"close", "await", "killed", "done"}, v \in Workers :
            main' = At(pc, v)
      BY <1>8, PoolAssumption DEF CloseWorker, WorkerStopped, KillWorker
    <2>2. given' = given
      BY <1>8 DEF CloseWorker, WorkerStopped, KillWorker, BeginClose, Kill,
         vars, engineVars, ledgerVars
    <2>3. [WorkerNext]_vars
      <3>1. PoolNext BY <1>8 DEF PoolNext, MainStep
      <3> QED BY <3>1, MainStepKeeps DEF Custody
    <2> QED BY <1>6, <2>1, <2>2, <2>3
  <1> QED BY <1>1, <1>2, <1>4, <1>5, <1>7, <1>8 DEF PoolNext, MainStep

(* A delivery that is refused or gets a slot leaves room in the window:    *)
(* what the workers have taken, and that delivery, are unsettled.          *)
LEMMA TakenFits ==
  ASSUME Custody, WithinWindow, caller.pc = "check",
         Prefetch <= Size * Cap
  PROVE  Reception!SlotFree(Size * Cap)
  <1> DEFINE T == Reception!Taken
  <1>1. T \subseteq Unsettled
    BY DEF Reception!Taken, PhaseOf, Unsettled, Custody, CallerGate, NoTrace
  <1>2. caller.d \in Deliveries /\ InDispatch(caller.d) /\ caller.d \in given
    BY CallerBusy DEF Custody, TypeOK, InDispatch, CallerGate, NoTrace
  <1>3. caller.d \in Unsettled /\ caller.d \notin T
    BY <1>2 DEF Reception!Taken, PhaseOf, Unsettled, Custody, OneOwner
  <1>4. /\ IsFiniteSet(Unsettled) /\ Cardinality(Unsettled) \in Nat
        /\ Cardinality(Unsettled) <= Prefetch
        /\ Prefetch \in Nat /\ Size * Cap \in Nat
    BY UnsettledType, PoolAssumption, WorkerAssumption DEF WithinWindow
  <1> HIDE DEF T
  <1>5. IsFiniteSet(T) /\ Cardinality(T) \in Nat
    BY <1>1, <1>4, FS_Subset, FS_CardinalityType
  <1>6. Cardinality(T \cup {caller.d}) = Cardinality(T) + 1
    BY <1>3, <1>5, FS_AddElement
  <1>7. T \cup {caller.d} \subseteq Unsettled
    BY <1>1, <1>3
  <1>8. Cardinality(T \cup {caller.d}) <= Cardinality(Unsettled)
    BY <1>4, <1>7, FS_Subset
  <1>9. Cardinality(T) < Size * Cap
    BY <1>4, <1>5, <1>6, <1>8
  <1>10. Reception!Cardinality(T) = Cardinality(T)
    BY DEF Reception!Cardinality, Cardinality
  <1> QED BY <1>9, <1>10 DEF T, Reception!SlotFree, Reception!Taken

-----------------------------------------------------------------------------
(* The pool is what Engine takes it for                                    *)

(* What the mapping sees, when nothing happens to a delivery.              *)
LEMMA PhaseSame ==
  ASSUME StableOwners
  PROVE  UNCHANGED <<PhaseOf, calls>>
  BY PhaseStable DEF StableOwners

LEMMA VarsSame ==
  ASSUME UNCHANGED vars
  PROVE  UNCHANGED <<PhaseOf, calls, ctx, Lost>>
  <1>1. UNCHANGED <<msgs, owed, caller, calls, given, ctx, faults>>
    BY DEF vars, handlerVars, engineVars, slotVars, shutVars, ledgerVars
  <1>2. UNCHANGED PhaseOf
    BY <1>1 DEF PhaseOf, InSlot, IsOwed, InDispatch
  <1> QED BY <1>1, <1>2 DEF Lost

(* Inside the consume loop no worker is closing, so the context alone      *)
(* decides whether Dispatch refuses.                                       *)
LEMMA ServeRefuse ==
  ASSUME Custody, MainPlace, MainTyped, DispatchRefuse
  PROVE  \E d \in Deliveries : Reception!RefuseOffer(d, ctx)
  <1>1. \E d \in Deliveries : Contract!Refuse(d)
    BY RefuseStep
  <1>2. ctx
    <2>1. main.pc = "consume" /\ caller.w \in Workers
      BY CallerBusy DEF MainPlace, DispatchRefuse, Custody, TypeOK
    <2> QED BY <2>1 DEF MainPlace, DispatchRefuse, ShuttingDown
  <1> QED BY <1>1, <1>2
          DEF Contract!Refuse, Reception!Refuse, Reception!RefuseOffer

LEMMA ServeTake ==
  ASSUME Custody, WithinWindow, DispatchRegister
  PROVE  \E d \in Deliveries :
           /\ Prefetch <= Size * Cap => Reception!SlotFree(Size * Cap)
           /\ Reception!TakeOffer(d, ctx)
  <1>1. \E d \in Deliveries : Contract!Take(d)
    BY TakeStep
  <1>2. ~ctx /\ caller.pc = "check"
    BY DEF DispatchRegister, ShuttingDown
  <1>3. Prefetch <= Size * Cap => Reception!SlotFree(Size * Cap)
    BY <1>2, TakenFits
  <1> QED BY <1>1, <1>2, <1>3
          DEF Contract!Take, Reception!Take, Reception!TakeOffer

LEMMA ServeSettle ==
  ASSUME Custody, Blameless, MainPlace, MainTyped, Settled
  PROVE  \E d \in Deliveries, v \in Reception!Verdicts :
           Reception!SettleTaken(d, v, Lost \/ ctx \/ Stage # "consume")
  <1>1. PICK o \in owed : Settle(o)
    BY DEF Settled
  <1>2. /\ o.d \in Deliveries /\ o.v \in Verdicts
        /\ Contract!SettleWith(o.d, o.v)
    BY <1>1, SettleCallStep
  <1>3. o.v = "requeue" => Lost \/ ctx \/ Stage # "consume"
    <2> SUFFICES ASSUME o.v = "requeue" PROVE Lost \/ ctx \/ Stage # "consume"
      OBVIOUS
    <2>1. Excused BY DEF Blameless, NoRequeue
    <2> QED BY <2>1 DEF Excused, Lost, Stage, MainPlace
  <1> QED BY <1>2, <1>3
          DEF Contract!SettleWith, Reception!SettleWith, Reception!SettleTaken,
              Verdicts, Reception!Verdicts

(* A step of the workers serves a delivery, or loses a process.            *)
LEMMA ReceptionServe ==
  ASSUME Custody, Blameless, MainPlace, MainTyped, WithinWindow, WorkerStep,
         Stage' = Stage
  PROVE  [Reception!PoolContractNext]_(Reception!poolContractVars)
  <1>1. ctx' = ctx /\ (faults' = faults \/ faults' = faults + 1)
        /\ faults \in Nat
    BY FaultsStay DEF Custody, TypeOK, HandlerTypeOK
  <1>2. CASE StableOwners
    <2>1. UNCHANGED <<PhaseOf, calls>> BY <1>2, PhaseSame
    <2>2. Lost' = Lost \/ Lost' = TRUE BY <1>1 DEF Lost
    <2> QED BY <1>1, <2>1, <2>2
            DEF Reception!PoolContractNext, Reception!Lose,
                Reception!poolContractVars, Reception!contractVars,
                Reception!circumstances
  <1>3. ASSUME NEW d \in Deliveries, Reception!Serve(d)
        PROVE  Reception!PoolContractNext
    BY <1>3 DEF Reception!PoolContractNext
  <1>4. CASE DispatchRefuse
    <2>1. UNCHANGED <<ctx, Stage, Lost>>
      BY <1>1, <1>4 DEF DispatchRefuse, handlerVars, Lost
    <2> QED BY <1>3, <1>4, <2>1, ServeRefuse
            DEF Reception!Serve, Reception!circumstances
  <1>5. CASE DispatchRegister
    <2>1. UNCHANGED <<ctx, Stage, Lost>>
      BY <1>1, <1>5 DEF DispatchRegister, handlerVars, Lost
    <2> QED BY <1>3, <1>5, <2>1, ServeTake
            DEF Reception!Serve, Reception!circumstances
  <1>6. CASE Settled
    <2>1. UNCHANGED <<ctx, Stage, Lost>>
      BY <1>1, <1>6 DEF Settled, Settle, handlerVars, Lost
    <2> QED BY <1>3, <1>6, <2>1, ServeSettle
            DEF Reception!Serve, Reception!circumstances
  <1>7. ~Offered
    BY GivenStays DEF Offered, DispatchCall
  <1>8. [WorkerNext]_vars BY DEF WorkerNext
  <1> QED BY <1>2, <1>4, <1>5, <1>6, <1>7, <1>8, CustodyStep

(* Nothing the mapping sees happens in a step that moves only the engine's *)
(* goroutine within a stage.                                               *)
LEMMA ReceptionStutter ==
  ASSUME UNCHANGED <<PhaseOf, calls, ctx, Stage, Lost>>
  PROVE  UNCHANGED Reception!poolContractVars
  BY DEF Reception!poolContractVars, Reception!contractVars,
         Reception!circumstances

LEMMA ReceptionLook ==
  ASSUME Custody, MainTyped, MainPlace, NEW w \in Workers, LookAt(w)
  PROVE  [Reception!PoolContractNext]_(Reception!poolContractVars)
  <1> DEFINE n    == Outstanding(w)
             best == IF Beats(w, n) THEN w ELSE main.best
             k    == IF best = w THEN n ELSE main.n
  <1>1. /\ main.pc = "pick" /\ best \in Workers /\ k \in Nat
        /\ main.d \in Deliveries
    BY LoadType DEF LookAt, MainPlace, MainTyped, MainRec, Custody
  <1>2. CASE /\ w < Size /\ UNCHANGED vars
             /\ main' = [At("pick", w + 1) EXCEPT !.best = best,
                           !.n = IF best = w THEN n ELSE @]
    <2>1. w + 1 \in Workers BY <1>2, PoolAssumption
    <2>2. At("pick", w + 1).n = main.n
      BY <2>1, AtType DEF MainStates
    <2> HIDE DEF n, best
    <2>3. main' = [At("pick", w + 1) EXCEPT !.best = best, !.n = k]
      BY <1>2, <2>2
    <2> HIDE DEF k
    <2>4. main'.pc = "pick" BY <1>1, <2>1, <2>3, LookOnType
    <2>5. Stage' = Stage BY <1>1, <2>4 DEF Stage
    <2> QED BY <1>2, <2>5, VarsSame, ReceptionStutter
  <1>3. CASE /\ main' = [At("consume", 1) EXCEPT !.d = None, !.best = 1,
                                                 !.n = 0]
             /\ DispatchCall(best, main.d)
    <2> HIDE DEF best, n, k
    <2>1. main'.pc = "consume" BY <1>3, PlacedType, PoolAssumption
    <2>2. Stage = "consume" /\ UNCHANGED <<ctx, Stage, Lost>>
      BY <1>1, <1>3, <2>1 DEF Stage, DispatchCall, Lost, handlerVars, shutVars
    <2>3. PICK d \in Deliveries : Contract!Offer(d)
      BY <1>1, <1>3, OfferStep DEF Offered
    <2>4. Reception!Serve(d)
      BY <2>2, <2>3 DEF Contract!Offer, Reception!Offer, Reception!Serve,
                        Reception!circumstances
    <2> QED BY <2>4 DEF Reception!PoolContractNext
  <1> QED BY <1>2, <1>3 DEF LookAt

(* Shutdown has waited for every worker.                                   *)
LEMMA ReceptionReturn ==
  ASSUME Custody, NothingStranded, Managed, TimersNeedTimeouts, MainTyped,
         MainPlace, MainPlace', NEW w \in Workers, WorkerStopped(w)
  PROVE  [Reception!PoolContractNext]_(Reception!poolContractVars)
  <1> USE PoolAssumption
  <1>1. main.pc \in {"await", "killed"} /\ UNCHANGED vars
    BY DEF WorkerStopped
  <1>2. Stage = "drain" BY <1>1 DEF Stage
  <1>3. CASE w < Size
    <2>1. main'.pc = "await"
      BY <1>3, AtType DEF WorkerStopped, MainStates
    <2>2. Stage' = Stage BY <1>2, <2>1 DEF Stage
    <2> QED BY <1>1, <2>2, VarsSame, ReceptionStutter
  <1>4. CASE ~(w < Size)
    <2>1. main'.pc = "done"
      BY <1>4, AtType DEF WorkerStopped, MainStates
    <2>2. Stage' = "returned" BY <2>1 DEF Stage
    <2>3. ~HasTimeout => Reception!Taken = {}
      <3>1. UNCHANGED <<sup, alive, msgs, owed, caller>>
        BY <1>1 DEF vars, handlerVars, engineVars, procVars, slotVars,
                    ledgerVars
      <3>2. caller.pc = "idle" /\ \A v \in Workers : sup[v] = "stopped"
        BY <2>1, <3>1 DEF MainPlace
      <3>3. ~HasTimeout => \A d \in Deliveries : ~InSlot(d) /\ ~IsOwed(d)
        BY <3>2, StoppedHolds
      <3> QED BY <3>3 DEF Reception!Taken, PhaseOf
    <2>4. Reception!Return
      BY <1>1, <1>2, <2>2, <2>3, VarsSame
         DEF Reception!Return, Reception!contractVars
    <2> QED BY <2>4 DEF Reception!PoolContractNext
  <1> QED BY <1>3, <1>4

LEMMA ReceptionStep ==
  ASSUME Custody, NothingStranded, Managed, TimersNeedTimeouts, Blameless,
         MainTyped, MainPlace, MainPlace', WithinWindow, [PoolNext]_poolVars
  PROVE  [Reception!PoolContractNext]_(Reception!poolContractVars)
  <1> USE PoolAssumption
  <1>1. CASE WorkerStep /\ UNCHANGED <<main, grace>>
    BY <1>1, ReceptionServe DEF Stage
  <1>2. CASE CtxCancel /\ UNCHANGED <<main, grace>>
    <2>1. UNCHANGED <<PhaseOf, calls, Stage, Lost>> /\ ctx' = TRUE
      BY <1>2, QuietCaller, PhaseSame
         DEF CtxCancel, handlerVars, Stage, Lost
    <2> QED BY <2>1 DEF Reception!PoolContractNext, Reception!Stop,
                        Reception!contractVars
  <1>3. ASSUME NEW d \in Deliveries, Receive(d)
        PROVE  UNCHANGED Reception!poolContractVars
    <2>1. main'.pc = "pick" BY <1>3, PlacingType DEF Receive
    <2>2. Stage' = Stage BY <1>3, <2>1 DEF Receive, AtSelect, Stage
    <2> QED BY <1>3, <2>2, VarsSame, ReceptionStutter DEF Receive
  <1>4. ASSUME NEW w \in Workers, LookAt(w)
        PROVE  [Reception!PoolContractNext]_(Reception!poolContractVars)
    BY <1>4, ReceptionLook
  <1>5. CASE LeaveConsume
    <2>1. main'.pc = "close" BY <1>5, AtType DEF LeaveConsume, MainStates
    <2>2. Stage = "consume" /\ Stage' = "drain"
      BY <1>5, <2>1 DEF LeaveConsume, AtSelect, Stage
    <2>3. \A d \in Deliveries : PhaseOf[d] # "offered"
      BY <1>5 DEF LeaveConsume, AtSelect, PhaseOf, InDispatch
    <2>4. UNCHANGED <<PhaseOf, calls, ctx, Lost>>
      BY <1>5, VarsSame DEF LeaveConsume
    <2> QED BY <2>2, <2>3, <2>4 DEF Reception!PoolContractNext,
               Reception!Leave, Reception!contractVars
  <1>6. ASSUME NEW w \in Workers, CloseWorker(w) \/ KillWorker(w)
        PROVE  UNCHANGED Reception!poolContractVars
    <2>1. \E pc \in {"close", "await", "killed"}, v \in Workers :
            main' = At(pc, v)
      BY <1>6 DEF CloseWorker, KillWorker
    <2>2. main.pc \in {"close", "await"} /\ main'.pc \in {"close", "await", "killed"}
      BY <1>6, <2>1, AtType DEF MainStates, CloseWorker, KillWorker
    <2>3. Stage' = Stage BY <2>2 DEF Stage
    <2>4. BeginClose(w) \/ Kill(w) BY <1>6 DEF CloseWorker, KillWorker
    <2>5. UNCHANGED <<PhaseOf, calls>>
      BY <2>4, QuietSteps, PhaseSame
    <2>6. UNCHANGED <<ctx, Lost>>
      BY <2>4 DEF BeginClose, Kill, Dies, engineVars, shutVars, handlerVars,
                  Lost
    <2> QED BY <2>3, <2>5, <2>6, ReceptionStutter
  <1>7. ASSUME NEW w \in Workers, WorkerStopped(w)
        PROVE  [Reception!PoolContractNext]_(Reception!poolContractVars)
    BY <1>7, ReceptionReturn
  <1>8. CASE GraceEnds \/ Finished \/ UNCHANGED poolVars
    <2>1. UNCHANGED <<vars, main>>
      BY <1>8 DEF GraceEnds, Finished, poolVars
    <2>2. Stage' = Stage BY <2>1 DEF Stage
    <2> QED BY <2>1, <2>2, VarsSame, ReceptionStutter
  <1> QED BY <1>1, <1>2, <1>3, <1>4, <1>5, <1>6, <1>7, <1>8
          DEF PoolNext, MainStep

LEMMA ReceptionInitial == PoolInit => Reception!PoolContractInit
  <1> SUFFICES ASSUME PoolInit PROVE Reception!PoolContractInit
    OBVIOUS
  <1>1. Contract!ContractInit BY ContractInitial DEF PoolInit
  <1>2. ctx = FALSE /\ Stage = "consume" /\ Lost = FALSE
    BY DEF PoolInit, WorkerInit, HandlerInit, Stage, Lost
  <1> QED BY <1>1, <1>2 DEF Contract!ContractInit, Reception!ContractInit,
                            Reception!PoolContractInit

(* Refinement (pool.go:46-88, worker.go:410-464): the pool does what       *)
(* Engine takes it to do.  It refuses only because the context is done and *)
(* gives back only for a failed process or a stopping engine; with a       *)
(* window that fits, what it has taken fits its slots; and Shutdown        *)
(* returns with nothing taken, unless timers settle messages.              *)
THEOREM ReceptionKept == PoolSpec => KeepsReception
  <1>1. PoolSpec => [](Custody /\ NothingStranded /\ Managed
                       /\ TimersNeedTimeouts /\ Blameless)
    <2>1. WorkerSpec => [](Managed /\ TimersNeedTimeouts)
      <3>1. Managed /\ TypeOK /\ TimersNeedTimeouts /\ [WorkerNext]_vars
              => Managed' /\ TimersNeedTimeouts'
        BY ManagedStep, TimersStep
      <3> QED BY <3>1, ManagedInit, TimersInit, TypeCorrect, PTL DEF WorkerSpec
    <2> QED BY <2>1, MainKept, CustodyCorrect, NeverStranded, BlamelessAlways,
               PTL
  <1>2. PoolSpec => []WithinWindow
    <2>1. Custody /\ MainTyped /\ MainPlace /\ WithinWindow
            /\ [PoolNext]_poolVars => WithinWindow'
      BY WindowStep
    <2> QED BY <1>1, <2>1, WindowInit, MainKept, PTL DEF PoolSpec
  <1>3. Custody /\ NothingStranded /\ Managed /\ TimersNeedTimeouts
        /\ Blameless /\ MainTyped /\ MainPlace /\ MainPlace' /\ WithinWindow
        /\ [PoolNext]_poolVars
          => [Reception!PoolContractNext]_(Reception!poolContractVars)
    BY ReceptionStep
  <1> QED BY <1>1, <1>2, <1>3, ReceptionInitial, MainKept, PTL
          DEF PoolSpec, KeepsReception, Reception!PoolContractSpec
=============================================================================

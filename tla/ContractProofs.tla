--------------------------- MODULE ContractProofs ---------------------------
(***************************************************************************)
(* Every delivery has at most one owner at a time, and the workers keep    *)
(* the contract of Settlement.                                             *)
(*                                                                         *)
(* The inductive invariant is OneOwner with CallerGate: OneOwner alone is  *)
(* not inductive, because a Dispatch blocked in p.send may later reclaim   *)
(* the entry its id names, and only CallerGate says that entry is its own. *)
(***************************************************************************)
EXTENDS WorkerProofs

Custody == TypeOK /\ OneOwner /\ CallerGate

(* Nothing changes hands: the same deliveries sit in the same slots.       *)
SameSlots ==
  \A w \in Workers :
    /\ DOMAIN msgs'[w] = DOMAIN msgs[w]
    /\ \A i \in DOMAIN msgs[w] : msgs'[w][i].d = msgs[w][i].d

(* The caller goes on with the same delivery, falls asleep or wakes up, or *)
(* leaves Dispatch owing nothing.                                          *)
CallerGoesOn ==
  \/ caller' = caller
  \/ /\ caller.pc \in {"check", "asleep"}
     /\ \E pc \in {"check", "asleep"} : caller' = [caller EXCEPT !.pc = pc]
CallerLeaves == caller.pc \in {"check", "asleep", "send"} /\ caller' = Idle

(* No delivery is offered, refused, taken or settled.                      *)
StableOwners ==
  /\ UNCHANGED <<calls, given>>
  /\ \A d \in Deliveries :
       /\ InSlot(d)' \/ IsOwed(d)' <=> InSlot(d) \/ IsOwed(d)
       /\ InDispatch(d)' <=> InDispatch(d)

LEMMA BroadcastGoesOn ==
  ASSUME NEW w \in Workers, caller' = Broadcast(w)
  PROVE  CallerGoesOn
  BY DEF Broadcast, CallerGoesOn

LEMMA SameOwners ==
  ASSUME Custody, SameSlots, UNCHANGED <<owed, calls, given, nextID>>,
         CallerGoesOn \/ CallerLeaves
  PROVE  /\ OneOwner' /\ CallerGate'
         /\ CallerGoesOn \/ caller.pc = "send" => StableOwners
         /\ \A d \in Deliveries :
              (InSlot(d)' <=> InSlot(d)) /\ (IsOwed(d)' <=> IsOwed(d))
<1> USE DEF Custody, SameSlots
<1>1. /\ \A d \in Deliveries : InSlot(d)' <=> InSlot(d)
      /\ \A d \in Deliveries : IsOwed(d)' <=> IsOwed(d)
  BY DEF InSlot, IsOwed
<1>2. \A d \in Deliveries : InDispatch(d)' => InDispatch(d)
  BY DEF InDispatch, CallerGoesOn, CallerLeaves, Idle, TypeOK, Dispatching
<1>3. OneSlot' /\ OneDebt'
  BY DEF OneOwner, OneSlot, OneDebt
<1>4. OneOwner'
  BY <1>1, <1>2, <1>3 DEF OneOwner
<1>5. /\ caller'.pc # "idle" => caller.pc # "idle" /\ caller'.d = caller.d
      /\ caller'.pc = "send" => caller' = caller
      /\ caller.pc = "requeue" => caller' = caller
  BY DEF CallerGoesOn, CallerLeaves, TypeOK, Dispatching, Idle
<1>6. OwnEntry'
  <2> SUFFICES ASSUME caller'.pc = "send" PROVE OwnEntry'
    BY DEF OwnEntry
  <2>1. caller' = caller /\ caller.w \in Workers
    BY <1>5, CallerBusy DEF TypeOK
  <2>2. QED BY <2>1 DEF OwnEntry, CallerGate
<1>7. OwnDebt'
  BY <1>5 DEF OwnDebt, CallerGate
<1>8. NoTrace'
  BY <1>1, <1>5 DEF NoTrace, CallerGate
<1>9. CallerGoesOn \/ caller.pc = "send" => StableOwners
  <2>1. CallerGoesOn \/ caller.pc = "send"
          => \A d \in Deliveries : InDispatch(d)' <=> InDispatch(d)
    BY DEF InDispatch, CallerGoesOn, CallerLeaves, Idle, TypeOK, Dispatching
  <2>2. QED BY <1>1, <2>1 DEF StableOwners
<1>10. QED BY <1>1, <1>4, <1>6, <1>7, <1>8, <1>9 DEF CallerGate

(* A slot becomes a debt of whoever deleted the map entry.                 *)
LEMMA SlotToDebt ==
  ASSUME Custody, NEW w \in Workers, NEW id \in DOMAIN msgs[w], NEW o \in Owed,
         o.d = msgs[w][id].d,
         msgs' = [msgs EXCEPT ![w] = Delete(@, id)],
         owed' = owed \cup {o},
         UNCHANGED <<calls, given, nextID>>,
         \/ CallerGoesOn /\ o.by # "caller"
         \/ /\ caller.pc = "send" /\ o.d = caller.d
            /\ caller' = [caller EXCEPT !.pc = "requeue"]
  PROVE  OneOwner' /\ CallerGate' /\ StableOwners
<1> USE DEF Custody
<1> DEFINE e == msgs[w][id].d
<1>1. e \in Deliveries /\ InSlot(e) /\ ~IsOwed(e) /\ calls[e] = <<>>
      /\ ~InDispatch(e) /\ e \in given
  BY SlotType DEF OneOwner, CallerGate, NoTrace, InSlot, TypeOK
<1>2. \A v \in Workers :
        /\ DOMAIN msgs'[v] = IF v = w THEN DOMAIN msgs[v] \ {id} ELSE DOMAIN msgs[v]
        /\ \A i \in DOMAIN msgs'[v] : msgs'[v][i] = msgs[v][i]
  BY DEF TypeOK, SlotsOK, Delete
<1>3. \A d \in Deliveries : InSlot(d)' => InSlot(d) /\ d # e
  <2> SUFFICES ASSUME NEW d \in Deliveries, NEW v \in Workers,
                      NEW i \in DOMAIN msgs'[v], msgs'[v][i].d = d
               PROVE  InSlot(d) /\ d # e
    BY DEF InSlot
  <2>1. i \in DOMAIN msgs[v] /\ msgs[v][i].d = d /\ ~(v = w /\ i = id)
    BY <1>2
  <2>2. QED BY <2>1 DEF InSlot, OneOwner, OneSlot
<1>4. \A d \in Deliveries : IsOwed(d)' <=> IsOwed(d) \/ d = e
  BY DEF IsOwed
<1>5. \A d \in Deliveries : InDispatch(d)' => InDispatch(d)
  BY DEF InDispatch, CallerGoesOn, TypeOK, Dispatching, Idle
<1>6. OneSlot'
  <2> SUFFICES ASSUME NEW u \in Workers, NEW v \in Workers,
                      NEW i \in DOMAIN msgs'[u], NEW j \in DOMAIN msgs'[v],
                      msgs'[u][i].d = msgs'[v][j].d
               PROVE  u = v /\ i = j
    BY DEF OneSlot
  <2>1. i \in DOMAIN msgs[u] /\ j \in DOMAIN msgs[v]
        /\ msgs[u][i].d = msgs[v][j].d
    BY <1>2
  <2>2. QED BY <2>1 DEF OneOwner, OneSlot
<1>7. OneDebt'
  BY <1>1 DEF OneOwner, OneDebt, IsOwed
<1>8. OneOwner'
  BY <1>1, <1>3, <1>4, <1>5, <1>6, <1>7 DEF OneOwner
<1>9. /\ caller'.pc # "idle" => caller.pc # "idle" /\ caller'.d = caller.d
      /\ caller'.pc = "send" => caller' = caller
      /\ caller.pc = "requeue" => caller' = caller
      /\ o.by = "caller" => caller'.pc = "requeue" /\ o.d = caller'.d
  BY DEF CallerGoesOn, TypeOK, Dispatching, Idle
<1>10. OwnEntry'
  <2> SUFFICES ASSUME caller'.pc = "send" PROVE OwnEntry'
    BY DEF OwnEntry
  <2>1. caller' = caller /\ caller.w \in Workers
    BY <1>9, CallerBusy DEF TypeOK
  <2>2. /\ caller.id < nextID[caller.w]
        /\ caller.id \in DOMAIN msgs[caller.w]
             => msgs[caller.w][caller.id].d = caller.d
    BY <2>1 DEF OwnEntry, CallerGate
  <2>3. caller.id \in DOMAIN msgs'[caller.w]
          => /\ caller.id \in DOMAIN msgs[caller.w]
             /\ msgs'[caller.w][caller.id] = msgs[caller.w][caller.id]
    BY <1>2, <2>1
  <2>4. QED BY <2>1, <2>2, <2>3 DEF OwnEntry
<1>11. OwnDebt' /\ NoTrace'
  BY <1>1, <1>3, <1>4, <1>9 DEF OwnDebt, NoTrace, CallerGate
<1>12. \A d \in Deliveries : InSlot(d) => InSlot(d)' \/ d = e
  <2> SUFFICES ASSUME NEW d \in Deliveries, NEW v \in Workers,
                      NEW i \in DOMAIN msgs[v], msgs[v][i].d = d, d # e
               PROVE  InSlot(d)'
    BY DEF InSlot
  <2>1. i \in DOMAIN msgs'[v] /\ msgs'[v][i].d = d
    BY <1>2
  <2>2. QED BY <2>1 DEF InSlot
<1>13. \A d \in Deliveries : InDispatch(d)' <=> InDispatch(d)
  BY DEF InDispatch, CallerGoesOn, TypeOK, Dispatching, Idle
<1>14. StableOwners
  BY <1>1, <1>3, <1>4, <1>12, <1>13 DEF StableOwners
<1>15. QED BY <1>8, <1>10, <1>11, <1>14 DEF CallerGate

-----------------------------------------------------------------------------
(* The actions, by what they do to the owners                              *)

LEMMA QuietCaller ==
  ASSUME Custody, DispatchWait \/ SendQueued \/ CtxCancel \/ UNCHANGED vars
  PROVE  OneOwner' /\ CallerGate' /\ StableOwners
<1>1. UNCHANGED <<msgs, owed, calls, given, nextID>>
  BY DEF DispatchWait, SendQueued, CtxCancel, vars, engineVars, slotVars,
     ledgerVars
<1>2. CallerGoesOn \/ (CallerLeaves /\ caller.pc = "send")
  <2>1. CASE SendQueued
    BY <2>1 DEF SendQueued, CallerLeaves
  <2>2. CASE DispatchWait
    BY <2>2 DEF DispatchWait, CallerGoesOn
  <2>3. CASE CtxCancel \/ UNCHANGED vars
    BY <2>3 DEF CtxCancel, vars, engineVars, CallerGoesOn
  <2>4. QED BY <2>1, <2>2, <2>3
<1>3. SameSlots
  BY <1>1 DEF SameSlots
<1>4. QED BY <1>1, <1>2, <1>3, SameOwners

LEMMA QuietSteps ==
  ASSUME Custody, NEW w \in Workers,
         \/ CtxWake(w) \/ SpawnStart(w) \/ SpawnReady(w) \/ SpawnFail(w)
         \/ BackoffEnds(w) \/ OnPickup(w) \/ OnEmit(w) \/ ReadEOF(w)
         \/ ReadError(w) \/ StaleSettled(w) \/ WriterStep(w) \/ BeginClose(w)
         \/ Kill(w)
         \/ HandlerStep(w) /\ UNCHANGED engineVars
  PROVE  OneOwner' /\ CallerGate' /\ StableOwners
<1>1. UNCHANGED <<owed, calls, given, nextID>>
  BY DEF CtxWake,
     SpawnStart, SpawnReady, SpawnFail, SpawnError, InitFails, BackoffEnds,
     OnPickup,
     OnEmit, ReadEOF, ReadError, ReadLoopReturns, StaleSettled, WriterStep,
     WriteNote, WriterCloses, BeginClose, Kill, engineVars, slotVars,
     ledgerVars
<1>2. SameSlots
  <2>1. CASE OnPickup(w)
    <3> DEFINE id == Head(stdout[w]).id
               e  == [msgs[w][id] EXCEPT !.picked = TRUE]
    <3>1. CASE id \in DOMAIN msgs[w]
      <4>1. e.d = msgs[w][id].d
        BY <3>1, SlotType DEF Inflight, Custody, TypeOK
      <4>2. msgs' = [msgs EXCEPT ![w] = [@ EXCEPT ![id] = e]]
        BY <2>1, <3>1 DEF OnPickup
      <4>3. DOMAIN msgs = Workers
        BY DEF Custody, TypeOK, SlotsOK
      <4> HIDE DEF id, e
      <4>4. msgs'[w] = [msgs[w] EXCEPT ![id] = e]
            /\ \A v \in Workers \ {w} : msgs'[v] = msgs[v]
        BY <4>2, <4>3
      <4>5. QED BY <4>1, <4>4 DEF SameSlots
    <3>2. CASE id \notin DOMAIN msgs[w]
      BY <2>1, <3>2 DEF OnPickup, SameSlots
    <3>3. QED BY <3>1, <3>2
  <2>2. CASE ~OnPickup(w)
    <3>1. msgs' = msgs
      BY <2>2 DEF CtxWake,
         SpawnStart, SpawnReady, SpawnFail, SpawnError, InitFails,
         BackoffEnds, OnEmit,
         ReadEOF, ReadError, ReadLoopReturns, StaleSettled, WriterStep,
         WriteNote, WriterCloses, BeginClose, Kill, engineVars, slotVars
    <3>2. QED BY <3>1 DEF SameSlots
  <2>3. QED BY <2>1, <2>2
<1>3. CallerGoesOn
  <2>1. CASE CtxWake(w) \/ SpawnReady(w) \/ BeginClose(w)
    BY <2>1, BroadcastGoesOn DEF CtxWake, SpawnReady, BeginClose
  <2>2. CASE \/ SpawnStart(w) \/ SpawnFail(w) \/ BackoffEnds(w)
             \/ OnPickup(w) \/ OnEmit(w) \/ ReadEOF(w) \/ ReadError(w)
             \/ StaleSettled(w) \/ WriterStep(w) \/ Kill(w)
             \/ HandlerStep(w) /\ UNCHANGED engineVars
    BY <2>2 DEF SpawnStart, SpawnFail, SpawnError, InitFails, BackoffEnds,
       OnPickup, OnEmit, ReadEOF, ReadError, ReadLoopReturns, StaleSettled,
       WriterStep, WriteNote, WriterCloses, Kill, engineVars, CallerGoesOn
  <2>3. QED BY <2>1, <2>2
<1>4. QED BY <1>1, <1>2, <1>3, SameOwners

LEMMA TimeoutSteps ==
  ASSUME Custody, NEW w \in Workers, NEW id \in DOMAIN msgs[w], Timeout(w, id)
  PROVE  OneOwner' /\ CallerGate' /\ StableOwners
<1> DEFINE o == [by |-> "timer", w |-> w, d |-> msgs[w][id].d, v |-> "nack"]
<1>1. o \in Owed /\ o.d = msgs[w][id].d /\ o.by # "caller"
  BY SlotType DEF Custody, TypeOK, Owed, Verdicts
<1>2. CallerGoesOn
  BY BroadcastGoesOn DEF Timeout
<1>3. /\ msgs' = [msgs EXCEPT ![w] = Delete(@, id)]
      /\ owed' = owed \cup {o}
      /\ UNCHANGED <<calls, given, nextID>>
  BY DEF Timeout
<1> HIDE DEF o
<1>4. QED BY <1>1, <1>2, <1>3, SlotToDebt

LEMMA DoneSteps ==
  ASSUME Custody, NEW w \in Workers, OnDone(w)
  PROVE  OneOwner' /\ CallerGate' /\ StableOwners
<1> DEFINE n == Head(stdout[w])
           o == [by |-> "reader", w |-> w, d |-> msgs[w][n.id].d,
                 v |-> IF n.ok THEN "ack" ELSE "nack"]
<1>1. CASE n.id \in DOMAIN msgs[w]
  <2>1. o \in Owed /\ o.d = msgs[w][n.id].d /\ o.by # "caller"
    BY <1>1, SlotType DEF Custody, TypeOK, Owed, Verdicts
  <2>2. CallerGoesOn
    BY <1>1, BroadcastGoesOn DEF OnDone
  <2>3. /\ msgs' = [msgs EXCEPT ![w] = Delete(@, n.id)]
        /\ owed' = owed \cup {o}
        /\ UNCHANGED <<calls, given, nextID>>
    BY <1>1 DEF OnDone
  <2> HIDE DEF o, n
  <2>4. QED BY <1>1, <2>1, <2>2, <2>3, SlotToDebt
<1>2. CASE n.id \notin DOMAIN msgs[w]
  <2>1. UNCHANGED <<owed, calls, given, nextID>> /\ SameSlots /\ CallerGoesOn
    BY <1>2 DEF OnDone, SameSlots, CallerGoesOn
  <2>2. QED BY <2>1, SameOwners
<1>3. QED BY <1>1, <1>2

LEMMA SendStoppedSteps ==
  ASSUME Custody, SendStopped
  PROVE  OneOwner' /\ CallerGate' /\ StableOwners
<1> DEFINE o == [by |-> "caller", w |-> caller.w, d |-> caller.d,
                 v |-> "requeue"]
<1>0. caller.w \in Workers /\ caller.d \in Deliveries /\ caller.pc = "send"
  BY CallerBusy DEF StillThere, SendStopped, Custody, TypeOK
<1>1. CASE caller.id \in DOMAIN msgs[caller.w]
  <2>1. o \in Owed
    BY <1>0 DEF Owed, Verdicts
  <2>2. o.d = msgs[caller.w][caller.id].d
    BY <1>0, <1>1 DEF Custody, CallerGate, OwnEntry
  <2>3. /\ msgs' = [msgs EXCEPT ![caller.w] = Delete(@, caller.id)]
        /\ owed' = owed \cup {o}
        /\ caller' = [caller EXCEPT !.pc = "requeue"]
        /\ UNCHANGED <<calls, given, nextID>>
    BY <1>1 DEF StillThere, SendStopped
  <2>4. o.d = caller.d
    OBVIOUS
  <2> HIDE DEF o
  <2>5. QED BY <1>0, <1>1, <2>1, <2>2, <2>3, <2>4, SlotToDebt
<1>2. CASE caller.id \notin DOMAIN msgs[caller.w]
  <2>1. UNCHANGED <<owed, calls, given, nextID>> /\ SameSlots /\ CallerLeaves
    BY <1>0, <1>2 DEF StillThere, SendStopped, SameSlots, CallerLeaves
  <2>2. QED BY <1>0, <2>1, SameOwners
<1>3. QED BY <1>1, <1>2

(* The map is swapped: every slot of w becomes a debt of its supervisor.   *)
LEMMA ReapSteps ==
  ASSUME Custody, NEW w \in Workers, Reap(w)
  PROVE  OneOwner' /\ CallerGate' /\ StableOwners
<1> USE DEF Custody
<1> DEFINE o(i) == [by |-> "reader", w |-> w, d |-> msgs[w][i].d,
                    v |-> StaleVerdict(msgs[w][i])]
           Taken(d) == \E i \in DOMAIN msgs[w] : msgs[w][i].d = d
<1>1. /\ owed' = owed \cup {o(i) : i \in DOMAIN msgs[w]}
      /\ UNCHANGED <<calls, given, nextID>>
  BY DEF Reap
<1>2. /\ DOMAIN msgs'[w] = {}
      /\ \A v \in Workers \ {w} : msgs'[v] = msgs[v]
  BY DEF Reap, TypeOK, SlotsOK
<1>3. \A i \in DOMAIN msgs[w] : o(i).d = msgs[w][i].d /\ o(i).by = "reader"
  OBVIOUS
<1>4. \A d \in Deliveries : InSlot(d)' => InSlot(d) /\ ~Taken(d)
  <2> SUFFICES ASSUME NEW d \in Deliveries, NEW v \in Workers,
                      NEW i \in DOMAIN msgs'[v], msgs'[v][i].d = d
               PROVE  InSlot(d) /\ ~Taken(d)
    BY DEF InSlot
  <2>1. v # w /\ i \in DOMAIN msgs[v] /\ msgs[v][i].d = d
    BY <1>2
  <2>2. QED BY <2>1 DEF InSlot, OneOwner, OneSlot
<1>5. \A d \in Deliveries : InSlot(d) => InSlot(d)' \/ Taken(d)
  <2> SUFFICES ASSUME NEW d \in Deliveries, NEW v \in Workers,
                      NEW i \in DOMAIN msgs[v], msgs[v][i].d = d, v # w
               PROVE  InSlot(d)'
    BY DEF InSlot
  <2>1. i \in DOMAIN msgs'[v] /\ msgs'[v][i].d = d
    BY <1>2
  <2>2. QED BY <2>1 DEF InSlot
<1>6. \A d \in Deliveries : Taken(d) => InSlot(d)
  BY DEF InSlot
<1>7. \A d \in Deliveries : IsOwed(d)' <=> IsOwed(d) \/ Taken(d)
  <2> HIDE DEF o
  <2>1. \A d : (\E q \in owed' : q.d = d)
               <=> \/ \E q \in owed : q.d = d
                   \/ \E i \in DOMAIN msgs[w] : o(i).d = d
    BY <1>1
  <2>2. QED BY <1>3, <2>1 DEF IsOwed
<1>8. CallerGoesOn
  BY BroadcastGoesOn DEF Reap
<1>9. /\ caller'.pc # "idle" => caller.pc # "idle" /\ caller'.d = caller.d
      /\ caller'.pc = "send" => caller' = caller
      /\ caller.pc = "requeue" => caller' = caller
      /\ \A d \in Deliveries : InDispatch(d)' <=> InDispatch(d)
  BY <1>8 DEF CallerGoesOn, TypeOK, Dispatching, Idle, InDispatch
<1>10. OneSlot'
  <2> SUFFICES ASSUME NEW u \in Workers, NEW v \in Workers,
                      NEW i \in DOMAIN msgs'[u], NEW j \in DOMAIN msgs'[v],
                      msgs'[u][i].d = msgs'[v][j].d
               PROVE  u = v /\ i = j
    BY DEF OneSlot
  <2>1. u # w /\ v # w /\ i \in DOMAIN msgs[u] /\ j \in DOMAIN msgs[v]
        /\ msgs[u][i].d = msgs[v][j].d
    BY <1>2
  <2>2. QED BY <2>1 DEF OneOwner, OneSlot
<1>11. OneDebt'
  <2> SUFFICES ASSUME NEW p \in owed', NEW q \in owed', p.d = q.d
               PROVE  p = q
    BY DEF OneDebt
  <2>1. \A i, j \in DOMAIN msgs[w] : msgs[w][i].d = msgs[w][j].d => i = j
    BY DEF OneOwner, OneSlot
  <2>2. \A i \in DOMAIN msgs[w], x \in owed : x.d # msgs[w][i].d
    BY SlotType DEF OneOwner, InSlot, IsOwed, TypeOK
  <2>3. CASE p \in owed /\ q \in owed
    BY <2>3 DEF OneOwner, OneDebt
  <2>4. CASE p \notin owed \/ q \notin owed
    <3> HIDE DEF o
    <3>1. QED BY <1>1, <1>3, <2>1, <2>2, <2>4
  <2>5. QED BY <2>3, <2>4
<1>12. OneOwner'
  <2> HIDE DEF Taken
  <2>1. \A d \in Deliveries :
          /\ InSlot(d)' => ~IsOwed(d)'
          /\ InSlot(d)' \/ IsOwed(d)' => calls'[d] = <<>>
          /\ InDispatch(d)' => ~InSlot(d)' /\ ~IsOwed(d)' /\ calls'[d] = <<>>
          /\ Len(calls'[d]) <= 1
    BY <1>1, <1>4, <1>6, <1>7, <1>9 DEF OneOwner
  <2>2. QED BY <1>10, <1>11, <2>1 DEF OneOwner
<1>13. OwnEntry'
  <2> SUFFICES ASSUME caller'.pc = "send" PROVE OwnEntry'
    BY DEF OwnEntry
  <2>1. caller' = caller /\ caller.w \in Workers
    BY <1>9, CallerBusy DEF TypeOK
  <2>2. /\ caller.id < nextID[caller.w]
        /\ caller.id \in DOMAIN msgs[caller.w]
             => msgs[caller.w][caller.id].d = caller.d
    BY <2>1 DEF OwnEntry, CallerGate
  <2>3. caller.id \in DOMAIN msgs'[caller.w]
          => msgs'[caller.w] = msgs[caller.w]
    BY <1>2, <2>1
  <2>4. QED BY <1>1, <2>1, <2>2, <2>3 DEF OwnEntry
<1>14. OwnDebt'
  <2> HIDE DEF o
  <2>1. QED BY <1>1, <1>3, <1>9 DEF OwnDebt, CallerGate
<1>15. NoTrace'
  <2> HIDE DEF Taken
  <2>1. QED BY <1>1, <1>4, <1>6, <1>7, <1>9 DEF NoTrace, CallerGate
<1>16. \A d \in Deliveries : InSlot(d)' \/ IsOwed(d)' <=> InSlot(d) \/ IsOwed(d)
  <2> HIDE DEF Taken
  <2>1. QED BY <1>4, <1>5, <1>6, <1>7
<1>17. StableOwners
  BY <1>1, <1>9, <1>16 DEF StableOwners
<1>18. QED BY <1>12, <1>13, <1>14, <1>15, <1>17 DEF CallerGate

(* The one call a debt stands for is made.                                 *)
LEMMA SettleSteps ==
  ASSUME Custody, NEW o \in owed, Settle(o)
  PROVE  /\ OneOwner' /\ CallerGate'
         /\ \A d \in Deliveries :
              /\ InSlot(d)' <=> InSlot(d)
              /\ IsOwed(d)' <=> IsOwed(d) /\ d # o.d
              /\ InDispatch(d)' <=> InDispatch(d)
         /\ o.d \in Deliveries /\ calls[o.d] = <<>>
<1> USE DEF Custody
<1>1. /\ owed' = owed \ {o}
      /\ calls' = [calls EXCEPT ![o.d] = Append(@, o.v)]
      /\ UNCHANGED <<msgs, given, nextID>>
  BY DEF Settle, slotVars
<1>2. o.d \in Deliveries /\ o.v \in Verdicts /\ IsOwed(o.d)
  BY DEF TypeOK, Owed, IsOwed
<1>3. ~InSlot(o.d) /\ calls[o.d] = <<>> /\ ~InDispatch(o.d) /\ o.d \in given
  BY <1>2 DEF OneOwner, CallerGate, NoTrace
<1>4. /\ Len(calls'[o.d]) <= 1
      /\ \A d \in Deliveries \ {o.d} : calls'[d] = calls[d]
  BY <1>1, <1>2, <1>3 DEF TypeOK
<1>5. /\ o.by = "caller" => caller.pc = "requeue" /\ caller' = Idle
      /\ o.by # "caller" => caller' = caller
  BY DEF Settle, CallerGate, OwnDebt
<1>6. /\ \A d \in Deliveries : InSlot(d)' <=> InSlot(d)
      /\ \A d \in Deliveries : IsOwed(d)' <=> IsOwed(d) /\ d # o.d
  BY <1>1 DEF InSlot, IsOwed, OneOwner, OneDebt
<1>7. \A d \in Deliveries : InDispatch(d)' <=> InDispatch(d)
  BY <1>5 DEF InDispatch, Idle
<1>8. OneSlot' /\ OneDebt'
  BY <1>1 DEF OneOwner, OneSlot, OneDebt
<1>9. OneOwner'
  <2>1. \A d \in Deliveries :
          /\ InSlot(d)' => ~IsOwed(d)'
          /\ InDispatch(d)' => ~InSlot(d)' /\ ~IsOwed(d)'
    BY <1>6, <1>7 DEF OneOwner
  <2>2. \A d \in Deliveries :
          InSlot(d)' \/ IsOwed(d)' \/ InDispatch(d)' => calls'[d] = <<>>
    BY <1>3, <1>4, <1>6, <1>7 DEF OneOwner
  <2>3. ASSUME NEW d \in Deliveries PROVE Len(calls'[d]) <= 1
    <3>1. CASE d = o.d
      BY <1>4, <3>1, Zenon
    <3>2. CASE d # o.d
      <4>1. calls'[d] = calls[d] /\ Len(calls[d]) <= 1
        BY <1>4, <3>2 DEF OneOwner
      <4>2. QED BY <4>1
    <3>3. QED BY <3>1, <3>2
  <2>4. QED BY <1>8, <2>1, <2>2, <2>3 DEF OneOwner
<1>10. OwnEntry'
  BY <1>1, <1>5 DEF OwnEntry, CallerGate, Idle
<1>11. OwnDebt'
  <2>1. \A q \in owed : q.by = "caller" /\ o.by = "caller" => q = o
    BY DEF OwnDebt, CallerGate, OneOwner, OneDebt
  <2>2. QED BY <1>1, <1>5, <2>1 DEF OwnDebt, CallerGate
<1>12. NoTrace'
  BY <1>1, <1>3, <1>4, <1>5, <1>6 DEF NoTrace, CallerGate, Idle
<1>13. QED BY <1>2, <1>3, <1>6, <1>7, <1>9, <1>10, <1>11, <1>12 DEF CallerGate

(* A fresh delivery enters Dispatch.                                       *)
LEMMA CallSteps ==
  ASSUME Custody, NEW w \in Workers, NEW d \in Deliveries, DispatchCall(w, d)
  PROVE  /\ OneOwner' /\ CallerGate'
         /\ \A e \in Deliveries :
              /\ InSlot(e)' <=> InSlot(e)
              /\ IsOwed(e)' <=> IsOwed(e)
              /\ InDispatch(e)' <=> e = d
              /\ ~InDispatch(e)
         /\ ~InSlot(d) /\ ~IsOwed(d) /\ calls[d] = <<>>
<1> USE DEF Custody
<1>1. /\ UNCHANGED <<msgs, owed, calls, nextID>>
      /\ given' = given \cup {d} /\ d \notin given
      /\ caller.pc = "idle" /\ caller'.pc = "check" /\ caller'.d = d
  BY DEF DispatchCall, Idle, slotVars
<1>2. ~InSlot(d) /\ ~IsOwed(d) /\ calls[d] = <<>>
  BY <1>1 DEF CallerGate, NoTrace
<1>3. \A e \in Deliveries :
        /\ InSlot(e)' <=> InSlot(e)
        /\ IsOwed(e)' <=> IsOwed(e)
        /\ InDispatch(e)' <=> e = d
        /\ ~InDispatch(e)
  BY <1>1 DEF InSlot, IsOwed, InDispatch
<1>4. OneSlot' /\ OneDebt'
  BY <1>1 DEF OneOwner, OneSlot, OneDebt
<1>5. OneOwner'
  BY <1>1, <1>2, <1>3, <1>4 DEF OneOwner
<1>6. OwnEntry' /\ OwnDebt'
  BY <1>1 DEF OwnEntry, OwnDebt, CallerGate
<1>7. NoTrace'
  BY <1>1, <1>3 DEF NoTrace, CallerGate
<1>8. QED BY <1>2, <1>3, <1>5, <1>6, <1>7 DEF CallerGate

(* The delivery in Dispatch gets a slot, under an id never used before.    *)
LEMMA RegisterSteps ==
  ASSUME Custody, DispatchRegister
  PROVE  /\ OneOwner' /\ CallerGate'
         /\ \A e \in Deliveries :
              /\ InSlot(e)' <=> InSlot(e) \/ e = caller.d
              /\ IsOwed(e)' <=> IsOwed(e)
              /\ InDispatch(e) <=> e = caller.d
              /\ ~InDispatch(e)'
         /\ caller.d \in Deliveries
<1> USE DEF Custody
<1> DEFINE w == caller.w
           d == caller.d
           id == nextID[w]
           m == [d |-> d, picked |-> FALSE]
<1>1. w \in Workers /\ d \in Deliveries /\ caller \in Dispatching
      /\ caller.pc = "check"
  BY CallerBusy DEF FollowingID, DispatchRegister, TypeOK
<1>2. id \in Nat \ {0} /\ id \notin DOMAIN msgs[w]
  BY <1>1 DEF TypeOK, SlotsOK
<1>3. InDispatch(d) /\ ~InSlot(d) /\ ~IsOwed(d) /\ calls[d] = <<>> /\ d \in given
  BY <1>1 DEF InDispatch, OneOwner, CallerGate, NoTrace
<1>4. /\ UNCHANGED <<owed, calls, given>>
      /\ nextID' = [nextID EXCEPT ![w] = @ + 1]
      /\ caller' = [caller EXCEPT !.pc = "send", !.id = id, !.p = gen[w]]
  BY DEF FollowingID, DispatchRegister, ledgerVars
<1>5. /\ DOMAIN msgs'[w] = DOMAIN msgs[w] \cup {id}
      /\ msgs'[w][id] = m
      /\ \A i \in DOMAIN msgs[w] : msgs'[w][i] = msgs[w][i]
      /\ \A v \in Workers \ {w} : msgs'[v] = msgs[v]
  BY <1>1, <1>2 DEF FollowingID, DispatchRegister, TypeOK, SlotsOK
<1>6. /\ caller'.pc = "send" /\ caller'.d = d /\ caller'.w = w /\ caller'.id = id
      /\ nextID'[w] = id + 1
  BY <1>1, <1>2, <1>4 DEF Dispatching, TypeOK
<1>7. m.d = d
  OBVIOUS
<1> HIDE DEF w, d, id, m
<1>8. \A v \in Workers : \A i \in DOMAIN msgs'[v] :
        \/ v = w /\ i = id /\ msgs'[v][i].d = d
        \/ i \in DOMAIN msgs[v] /\ msgs'[v][i].d = msgs[v][i].d
  BY <1>5, <1>7
<1>9. \A v \in Workers : \A i \in DOMAIN msgs[v] :
        i \in DOMAIN msgs'[v] /\ msgs'[v][i].d = msgs[v][i].d
  BY <1>5
<1>10. \A e \in Deliveries : InSlot(e)' <=> InSlot(e) \/ e = d
  <2>1. ASSUME NEW e \in Deliveries, InSlot(e)' PROVE InSlot(e) \/ e = d
    BY <1>8, <2>1 DEF InSlot
  <2>2. ASSUME NEW e \in Deliveries, InSlot(e) PROVE InSlot(e)'
    BY <1>9, <2>2 DEF InSlot
  <2>3. ASSUME NEW e \in Deliveries, e = d PROVE InSlot(e)'
    BY <1>1, <1>5, <1>7, <2>3 DEF InSlot
  <2>4. QED BY <2>1, <2>2, <2>3
<1>11. \A e \in Deliveries :
         /\ IsOwed(e)' <=> IsOwed(e)
         /\ InDispatch(e) <=> e = d
         /\ ~InDispatch(e)'
  BY <1>1, <1>4, <1>6 DEF IsOwed, InDispatch, d
<1>12. OneSlot'
  <2> SUFFICES ASSUME NEW u \in Workers, NEW v \in Workers,
                      NEW i \in DOMAIN msgs'[u], NEW j \in DOMAIN msgs'[v],
                      msgs'[u][i].d = msgs'[v][j].d
               PROVE  u = v /\ i = j
    BY DEF OneSlot
  <2>1. \A x \in Workers : \A k \in DOMAIN msgs[x] : msgs[x][k].d # d
    BY <1>3 DEF InSlot
  <2>2. CASE i \in DOMAIN msgs[u] /\ j \in DOMAIN msgs[v]
    BY <1>9, <2>2 DEF OneOwner, OneSlot
  <2>3. CASE ~(i \in DOMAIN msgs[u] /\ j \in DOMAIN msgs[v])
    BY <1>8, <2>1, <2>3
  <2>4. QED BY <2>2, <2>3
<1>13. OneDebt'
  BY <1>4 DEF OneOwner, OneDebt
<1>14. OneOwner'
  BY <1>3, <1>4, <1>10, <1>11, <1>12, <1>13 DEF OneOwner
<1>15. OwnEntry'
  BY <1>2, <1>5, <1>6, <1>7 DEF OwnEntry
<1>16. OwnDebt' /\ NoTrace'
  BY <1>1, <1>3, <1>4, <1>6, <1>10, <1>11 DEF OwnDebt, NoTrace, CallerGate
<1>17. QED BY <1>1, <1>10, <1>11, <1>14, <1>15, <1>16 DEF CallerGate, d

(* The delivery in Dispatch is refused.                                    *)
LEMMA RefuseSteps ==
  ASSUME Custody, DispatchRefuse
  PROVE  /\ OneOwner' /\ CallerGate'
         /\ \A e \in Deliveries :
              /\ InSlot(e)' <=> InSlot(e)
              /\ IsOwed(e)' <=> IsOwed(e)
              /\ InDispatch(e) <=> e = caller.d
              /\ ~InDispatch(e)'
         /\ caller.d \in Deliveries /\ caller.d \in given
<1>1. UNCHANGED <<owed, calls, given, nextID>> /\ SameSlots /\ CallerLeaves
  BY DEF DispatchRefuse, SameSlots, CallerLeaves, slotVars, ledgerVars
<1>2. caller.pc = "check" /\ caller.d \in Deliveries /\ caller'.pc = "idle"
  BY CallerBusy DEF DispatchRefuse, Custody, TypeOK, Idle
<1>3. caller.d \in given
  BY <1>2 DEF Custody, CallerGate, NoTrace
<1>4. \A e \in Deliveries : (InDispatch(e) <=> e = caller.d) /\ ~InDispatch(e)'
  BY <1>2 DEF InDispatch
<1>5. QED BY <1>1, <1>2, <1>3, <1>4, SameOwners

-----------------------------------------------------------------------------
(* The theorems                                                            *)

LEMMA InitOwner == WorkerInit => OneOwner /\ CallerGate
<1> SUFFICES ASSUME WorkerInit PROVE OneOwner /\ CallerGate
  OBVIOUS
<1>1. /\ \A w \in Workers : DOMAIN msgs[w] = {}
      /\ owed = {} /\ caller.pc = "idle"
      /\ \A d \in Deliveries : calls[d] = <<>>
  BY DEF WorkerInit, Idle
<1>2. \A d \in Deliveries : ~InSlot(d) /\ ~IsOwed(d) /\ Len(calls[d]) = 0
  BY <1>1 DEF InSlot, IsOwed
<1>3. OneOwner
  BY <1>1, <1>2 DEF OneOwner, OneSlot, OneDebt, InDispatch
<1>4. CallerGate
  BY <1>1, <1>2 DEF CallerGate, OwnEntry, OwnDebt, NoTrace
<1>5. QED BY <1>3, <1>4

(* One step: the invariant goes on to hold, and the step is one of the     *)
(* five things that can happen to a delivery.                              *)
Offered == \E w \in Workers, d \in Deliveries : DispatchCall(w, d)
Settled == \E o \in owed : Settle(o)

LEMMA CustodyStep ==
  ASSUME Custody, [WorkerNext]_vars
  PROVE  /\ OneOwner' /\ CallerGate'
         /\ StableOwners \/ Offered \/ DispatchRefuse \/ DispatchRegister \/ Settled
<1>1. CASE DispatchWait \/ SendQueued \/ CtxCancel \/ UNCHANGED vars
  BY <1>1, QuietCaller
<1>2. ASSUME NEW w \in Workers,
             \/ CtxWake(w) \/ SpawnStart(w) \/ SpawnReady(w) \/ SpawnFail(w)
             \/ BackoffEnds(w) \/ OnPickup(w) \/ OnEmit(w) \/ ReadEOF(w) \/ ReadError(w)
             \/ StaleSettled(w) \/ WriterStep(w) \/ BeginClose(w) \/ Kill(w)
             \/ HandlerStep(w) /\ UNCHANGED engineVars
      PROVE  OneOwner' /\ CallerGate' /\ StableOwners
  BY ONLY Custody, <1>2, QuietSteps
<1>3. ASSUME NEW w \in Workers, OnDone(w) \/ Reap(w)
      PROVE  OneOwner' /\ CallerGate' /\ StableOwners
  BY ONLY Custody, <1>3, DoneSteps, ReapSteps
<1>4. ASSUME NEW w \in Workers, TimerStep(w)
      PROVE  OneOwner' /\ CallerGate' /\ StableOwners
  BY <1>4, TimeoutSteps DEF TimerStep
<1>5. CASE SendStopped
  BY <1>5, SendStoppedSteps
<1>6. CASE DispatchRefuse
  BY <1>6, RefuseSteps
<1>7. CASE DispatchRegister
  BY <1>7, RegisterSteps
<1>8. CASE SettleStep
  BY <1>8, SettleSteps DEF SettleStep, Settled
<1>9. CASE Offered
  BY <1>9, CallSteps DEF Offered
<1>10. QED
  BY <1>1, <1>2, <1>3, <1>4, <1>5, <1>6, <1>7, <1>8, <1>9
     DEF WorkerNext, WorkerStep, CallerStep, SupervisorStep, Offered

(* Custody is invariant.                                                   *)
LEMMA CustodyCorrect == WorkerSpec => []Custody
<1>1. WorkerInit => OneOwner /\ CallerGate
  BY InitOwner
<1>2. TypeOK /\ OneOwner /\ CallerGate /\ [WorkerNext]_vars
        => OneOwner' /\ CallerGate'
  BY CustodyStep DEF Custody
<1>3. WorkerSpec => [](OneOwner /\ CallerGate)
  BY <1>1, <1>2, TypeCorrect, PTL DEF WorkerSpec
<1>4. QED BY <1>3, TypeCorrect, PTL DEF Custody

(* The map entry is the gate (worker.go:64-69): at every moment a delivery *)
(* has at most one slot, or is due at most one call by one goroutine, or   *)
(* has been settled by one call, so Ack, Nack and Requeue are called at    *)
(* most once between them.                                                 *)
THEOREM OneOwnerAlways == WorkerSpec => []OneOwner
<1>1. Custody => OneOwner
  BY DEF Custody
<1>2. QED BY <1>1, CustodyCorrect, PTL

(* A Dispatch whose p.send failed reclaims its own entry or none           *)
(* (worker.go:445-462).                                                    *)
THEOREM CallerGateAlways == WorkerSpec => []CallerGate
<1>1. Custody => CallerGate
  BY DEF Custody
<1>2. QED BY <1>1, CustodyCorrect, PTL

(* The phase of each delivery, from who owns it.                           *)
LEMMA PhaseStable ==
  ASSUME StableOwners
  PROVE  PhaseOf' = PhaseOf
  BY DEF StableOwners, PhaseOf

LEMMA OfferStep ==
  ASSUME Custody, Offered
  PROVE  \E d \in Deliveries : Contract!Offer(d)
<1>1. PICK w \in Workers, d \in Deliveries : DispatchCall(w, d)
  BY DEF Offered
<1>2. /\ given' = given \cup {d} /\ d \notin given /\ calls' = calls
      /\ \A e \in Deliveries :
           /\ InSlot(e)' <=> InSlot(e)
           /\ IsOwed(e)' <=> IsOwed(e)
           /\ InDispatch(e)' <=> e = d
           /\ ~InDispatch(e)
      /\ ~InSlot(d) /\ ~IsOwed(d) /\ calls[d] = <<>>
  BY <1>1, CallSteps DEF DispatchCall
<1>3. PhaseOf[d] = "new" /\ \A e \in Deliveries : PhaseOf[e] # "offered"
  BY <1>2 DEF PhaseOf
<1>4. PhaseOf' = [PhaseOf EXCEPT ![d] = "offered"]
  BY <1>2 DEF PhaseOf
<1>5. QED BY <1>2, <1>3, <1>4 DEF Contract!Offer

LEMMA RefuseStep ==
  ASSUME Custody, DispatchRefuse
  PROVE  \E d \in Deliveries : Contract!Refuse(d)
<1>1. /\ UNCHANGED <<calls, given>>
      /\ \A e \in Deliveries :
           /\ InSlot(e)' <=> InSlot(e)
           /\ IsOwed(e)' <=> IsOwed(e)
           /\ InDispatch(e) <=> e = caller.d
           /\ ~InDispatch(e)'
      /\ caller.d \in Deliveries /\ caller.d \in given
  BY RefuseSteps DEF DispatchRefuse, ledgerVars
<1>2. InDispatch(caller.d) /\ ~InSlot(caller.d) /\ ~IsOwed(caller.d)
      /\ calls[caller.d] = <<>>
  BY <1>1 DEF Custody, OneOwner
<1>3. PhaseOf[caller.d] = "offered"
  BY <1>1, <1>2 DEF PhaseOf
<1>4. PhaseOf' = [PhaseOf EXCEPT ![caller.d] = "refused"]
  BY <1>1, <1>2 DEF PhaseOf
<1>5. QED BY <1>1, <1>3, <1>4 DEF Contract!Refuse

LEMMA TakeStep ==
  ASSUME Custody, DispatchRegister
  PROVE  \E d \in Deliveries : Contract!Take(d)
<1>1. /\ UNCHANGED <<calls, given>>
      /\ \A e \in Deliveries :
           /\ InSlot(e)' <=> InSlot(e) \/ e = caller.d
           /\ IsOwed(e)' <=> IsOwed(e)
           /\ InDispatch(e) <=> e = caller.d
           /\ ~InDispatch(e)'
      /\ caller.d \in Deliveries
  BY RegisterSteps DEF FollowingID, DispatchRegister, ledgerVars
<1>2. InDispatch(caller.d) /\ ~InSlot(caller.d) /\ ~IsOwed(caller.d)
      /\ calls[caller.d] = <<>>
  BY <1>1 DEF Custody, OneOwner
<1>3. PhaseOf[caller.d] = "offered"
  BY <1>1, <1>2 DEF PhaseOf
<1>4. PhaseOf' = [PhaseOf EXCEPT ![caller.d] = "taken"]
  BY <1>1, <1>2 DEF PhaseOf
<1>5. QED BY <1>1, <1>3, <1>4 DEF Contract!Take

LEMMA SettleCallStep ==
  ASSUME Custody, NEW o \in owed, Settle(o)
  PROVE  /\ o.d \in Deliveries /\ o.v \in Verdicts
         /\ Contract!SettleWith(o.d, o.v)
<1>1. /\ calls' = [calls EXCEPT ![o.d] = Append(@, o.v)]
      /\ given' = given
      /\ o.d \in Deliveries /\ o.v \in Verdicts /\ calls[o.d] = <<>>
      /\ IsOwed(o.d)
      /\ \A d \in Deliveries :
           /\ InSlot(d)' <=> InSlot(d)
           /\ IsOwed(d)' <=> IsOwed(d) /\ d # o.d
           /\ InDispatch(d)' <=> InDispatch(d)
  BY SettleSteps DEF Settle, Custody, TypeOK, Owed, IsOwed
<1>2. /\ calls'[o.d] # <<>>
      /\ \A d \in Deliveries \ {o.d} : calls'[d] = calls[d]
  BY <1>1 DEF Custody, TypeOK
<1>3. PhaseOf[o.d] = "taken"
  BY <1>1 DEF PhaseOf
<1>4. PhaseOf' = [PhaseOf EXCEPT ![o.d] = "settled"]
  BY <1>1, <1>2 DEF PhaseOf
<1>5. QED BY <1>1, <1>3, <1>4 DEF Contract!SettleWith

LEMMA ContractInitial == WorkerInit => Contract!ContractInit
<1> SUFFICES ASSUME WorkerInit PROVE Contract!ContractInit
  OBVIOUS
<1>1. calls = [d \in Deliveries |-> <<>>] /\ given = {}
  BY DEF WorkerInit
<1>2. \A d \in Deliveries : ~InSlot(d) /\ ~IsOwed(d) /\ ~InDispatch(d)
  BY DEF WorkerInit, InSlot, IsOwed, InDispatch, Idle
<1>3. PhaseOf = [d \in Deliveries |-> "new"]
  BY <1>1, <1>2 DEF PhaseOf
<1>4. QED BY <1>1, <1>3 DEF Contract!ContractInit

(* Refinement (worker.go:410-414): the workers implement the contract of   *)
(* Settlement.  Deliveries are offered one at a time, each is refused      *)
(* without a call or taken, and a taken one is settled by exactly one      *)
(* call.                                                                   *)
THEOREM ContractKept == WorkerSpec => KeepsContract
<1>1. WorkerInit => Contract!ContractInit
  BY ContractInitial
<1>2. Custody /\ [WorkerNext]_vars
        => [Contract!ContractNext]_(Contract!contractVars)
  <2> SUFFICES ASSUME Custody, [WorkerNext]_vars
               PROVE  [Contract!ContractNext]_(Contract!contractVars)
    OBVIOUS
  <2>1. CASE StableOwners
    BY <2>1, PhaseStable DEF StableOwners, Contract!contractVars
  <2>2. CASE Offered
    BY <2>2, OfferStep DEF Contract!ContractNext
  <2>3. CASE DispatchRefuse
    BY <2>3, RefuseStep DEF Contract!ContractNext
  <2>4. CASE DispatchRegister
    BY <2>4, TakeStep DEF Contract!ContractNext
  <2>5. CASE Settled
    BY <2>5, SettleCallStep
       DEF Settled, Contract!ContractNext, Verdicts, Contract!Verdicts
  <2>6. QED BY <2>1, <2>2, <2>3, <2>4, <2>5, CustodyStep
<1>3. QED BY <1>1, <1>2, CustodyCorrect, PTL
          DEF WorkerSpec, KeepsContract, Contract!ContractSpec
=============================================================================

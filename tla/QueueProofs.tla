------------------------------ MODULE QueueProofs ------------------------------
(***************************************************************************)
(* For every set of messages, worlds and delivery tags, over all lives of  *)
(* the container: the engine and its queue implement Mailbox; a stop in    *)
(* good order hands back only what no handler has seen; the window the     *)
(* engine asks for fits the pool; the queue is bound to the inputs the     *)
(* handlers are told of; the layers of its configuration overlay one       *)
(* another as documented; and Engine is type correct.                      *)
(***************************************************************************)
EXTENDS EngineProofs, FiniteSetTheorems, WellFoundedInduction

-----------------------------------------------------------------------------
(* What ties a message to the deliveries that carried it                   *)

(* Nothing is said of a delivery before it is made; what is carried was    *)
(* sent.                                                                   *)
Heard ==
  /\ calls \in [Deliveries -> Seq(Verdicts)]
  /\ \A t \in Deliveries : t > Len(carried) => calls[t] = <<>>
  /\ \A t \in 1 .. Len(carried) : carried[t] \in sent

(* Only a channel that consumes, or did when its process died, owes the    *)
(* broker anything.                                                        *)
Quiescent ==
  /\ chan \in {"none", "open", "closed"} => frames = <<>> /\ unacked = {}
  /\ chan = "dying" => pc = "down"
  /\ chan \in {"none", "open", "closed", "consuming", "dying"}

(* A message is out only once.                                             *)
OutOnce == \A t, u \in unacked : carried[t] = carried[u] => t = u

Decided(m) == \E t \in Carrying(m) : settled[t] \in {"ack", "nack"}

(* What is out, or in somebody's hands, has not left the queue.            *)
Undecided ==
  \A t \in 1 .. Len(carried), m \in Messages :
    carried[t] = m /\ (t \in unacked \/ Held(t)) => ~Decided(m)

(* What the broker is being told has been said.                            *)
Spoken ==
  \A i \in 1 .. Len(frames), t \in Deliveries :
    SettleAt(i, t) => frames[i].v \in ToSet(calls[t])

Known == Heard /\ OutOnce /\ Undecided /\ Spoken
Kept == InFlight /\ Quiescent /\ Known

-----------------------------------------------------------------------------
(* Only a consuming channel is written to                                  *)

LEMMA HeldOut ==
  ASSUME Flight, Quiescent, chan \in Live, NEW t \in Deliveries, Held(t)
  PROVE  chan = "consuming"
  BY DEF Flight, Holding, Quiescent, Live

LEMMA QuiescentStart ==
  ASSUME InFlight, Quiescent, StartStep \/ StartFails
  PROVE  Quiescent'
  <1>1. UNCHANGED <<frames, unacked>>
    BY DEF StartStep, StartFails, OtherThanStart
  <1>2. pc \in Starting /\ pc # "down"
    BY DEF StartStep, StartFails, Prepare, Dial, OpenChannel, Setup,
           ConnectFails, ServeHealth, ServeFails, StartPool, Subscribe,
           Starting
  <1>3. frames = <<>> /\ unacked = {} /\ chan \in {"none", "open", "closed"}
    BY <1>2 DEF InFlight, Connected, Quiescent
  <1>4. chan' \in {"none", "open", "closed", "consuming"}
    BY <1>3 DEF StartStep, StartFails, Prepare, Dial, OpenChannel, Setup,
                ConnectFails, ServeHealth, ServeFails, StartPool, Subscribe
  <1> QED BY <1>1, <1>3, <1>4 DEF Quiescent

LEMMA QuiescentWrite ==
  ASSUME InFlight, Quiescent, NEW t \in Deliveries, Held(t), NEW f \in Frame,
         Write(f), UNCHANGED <<chan, unacked>>, pc' = pc \/ pc # "down"
  PROVE  Quiescent'
  <1>1. CASE chan \in Live
    BY <1>1, HeldOut DEF InFlight, Quiescent
  <1>2. CASE chan \notin Live
    BY <1>2 DEF Write, Quiescent
  <1> QED BY <1>1, <1>2

LEMMA QuiescentConsume ==
  ASSUME InFlight, Quiescent, ConsumeStep
  PROVE  Quiescent'
  <1>1. UNCHANGED <<chan, unacked>> /\ pc # "down"
    BY DEF ConsumeStep, Receive, CtxEnds, SeesClosed
  <1>2. CASE frames' = frames
    BY <1>1, <1>2 DEF Quiescent
  <1>3. CASE frames' # frames
    <2> DEFINE t == Head(buffer)
    <2>1. Receive /\ (Undecodable(t) \/ Rejected(t))
      BY <1>3 DEF ConsumeStep, Receive, Admitted, CtxEnds, SeesClosed
    <2>2. t \in Deliveries /\ Held(t)
      BY <2>1, Dequeued DEF InFlight, Flight, Receive, Held
    <2>3. PICK v \in Verdicts : Settle(t, v)
      BY <2>1 DEF Undecodable, Rejected, SettledUnseen, Verdicts
    <2>4. [k |-> "settle", t |-> t, v |-> v] \in Frame
      BY <2>2 DEF Frame
    <2> QED BY <1>1, <2>2, <2>3, <2>4, QuiescentWrite DEF Settle
  <1> QED BY <1>2, <1>3

LEMMA QuiescentPool ==
  ASSUME InFlight, Quiescent, PoolStep \/ PoolExtra
  PROVE  Quiescent'
  <1>1. OtherThanPool /\ UNCHANGED <<chan, unacked>>
    BY DEF PoolStep, PoolExtra, OtherThanPool
  <1>2. PICK t \in Deliveries :
          \/ PoolTakes(t) \/ PoolRefuses(t) \/ PoolEmits(t) \/ ProcessLost(t)
          \/ \E v \in Verdicts : PoolSettles(t, v)
    BY DEF PoolStep, PoolExtra
  <1>3. CASE PoolTakes(t) \/ PoolRefuses(t)
    <2>1. frames' = frames /\ phase[t] = "offered"
      BY <1>3 DEF PoolTakes, PoolRefuses, Take, Refuse, TakeOffer, RefuseOffer
    <2>2. pc # "down"
      BY <2>1 DEF InFlight, Offering
    <2> QED BY <1>1, <2>1, <2>2 DEF Quiescent
  <1>4. CASE ProcessLost(t) \/ \E v \in Verdicts : PoolSettles(t, v)
    <2>1. PICK v \in Verdicts : SettleWith(t, v) /\ Settle(t, v) /\ pc' = pc
      BY <1>4 DEF ProcessLost, PoolSettles, Verdicts, SettleTaken
    <2>2. [k |-> "settle", t |-> t, v |-> v] \in Frame /\ Held(t)
      BY <2>1 DEF Frame, SettleWith, Held
    <2> QED BY <1>1, <2>1, <2>2, QuiescentWrite DEF Settle
  <1>5. CASE PoolEmits(t)
    <2>1. [k |-> "emit", t |-> t] \in Frame /\ Held(t)
      BY <1>5 DEF Frame, PoolEmits, Held
    <2> QED BY <1>1, <1>5, <2>1, QuiescentWrite DEF PoolEmits
  <1> QED BY <1>2, <1>3, <1>4, <1>5

LEMMA QuiescentClose ==
  ASSUME InFlight, Quiescent, CloseStep
  PROVE  Quiescent'
  <1>1. frames' = frames
    BY DEF CloseStep, DeferredStep
  <1>2. CASE CloseBus
    BY <1>1, <1>2 DEF CloseBus, Quiescent
  <1>3. CASE Restart
    BY <1>1, <1>3 DEF Restart, Quiescent
  <1>4. CASE ShutdownPool \/ StopSignals \/ CloseHealth \/ Return
    <2>1. UNCHANGED <<chan, unacked>> /\ pc = "unwind"
      BY <1>4 DEF ShutdownPool, StopSignals, CloseHealth, Return, Closing
    <2> QED BY <1>1, <2>1 DEF Quiescent
  <1> QED BY <1>2, <1>3, <1>4 DEF CloseStep, DeferredStep

LEMMA QuiescentStep ==
  ASSUME InFlight, Quiescent, [EngineNext]_vars
  PROVE  Quiescent'
  <1>1. CASE Crash
    BY <1>1 DEF Crash, ProcessEnds, Goes, Quiescent, Live
  <1>2. CASE Signal \/ ServeStops \/ UNCHANGED vars
    BY <1>2 DEF Signal, ServeStops, vars, Quiescent
  <1>3. CASE OthersPublish
    BY <1>3 DEF OthersPublish, RouteMessage, OtherThanBroker, Quiescent
  <1>4. CASE BrokerStep
    <2>1. pc' = pc
      BY <1>4 DEF BrokerStep, OtherThanBroker
    <2>2. CASE \E m \in Messages : Deliver(m)
      BY <2>1, <2>2 DEF Deliver, Quiescent
    <2>3. CASE HandleFrame
      BY <2>1, <2>3 DEF HandleFrame, Quiescent
    <2>4. CASE NoticeDeath
      BY <2>1, <2>4 DEF NoticeDeath, Ends, Quiescent
    <2> QED BY <1>4, <2>2, <2>3, <2>4 DEF BrokerStep
  <1>5. CASE ChannelCloses
    BY <1>5 DEF ChannelCloses, Ends, Quiescent
  <1> QED
    BY <1>1, <1>2, <1>3, <1>4, <1>5, QuiescentStart, QuiescentConsume,
       QuiescentPool, QuiescentClose DEF EngineNext, RunStep, Idle

-----------------------------------------------------------------------------
(* A message is out once, and undecided while it is                        *)

LEMMA HeldShrinks ==
  ASSUME Flight, Offering, NEW t \in Deliveries, Held(t)',
         \/ Quiet \/ HandsOver
         \/ \E u \in Deliveries, v \in Verdicts : Tells(u, v)
         \/ \E u \in Deliveries : PoolEmits(u) /\ OtherThanPool
  PROVE  Held(t)
  <1>1. CASE Quiet
    BY <1>1 DEF Quiet, Held, Queued
  <1>2. CASE HandsOver
    <2>1. phase' = [phase EXCEPT ![Head(buffer)] = "offered"]
      BY <1>2 DEF HandsOver, Admitted, Offer
    <2>2. Queued(t)' => Queued(t)
      BY <1>2, Dequeued DEF HandsOver, Flight
    <2>3. Queued(Head(buffer))
      BY <1>2, Dequeued DEF HandsOver, Flight
    <2> QED BY <2>1, <2>2, <2>3 DEF Held, Offering
  <1>3. ASSUME NEW u \in Deliveries, NEW v \in Verdicts, Tells(u, v)
        PROVE  Held(t)
    <2>1. \E p \in {"unseen", "settled"} : phase' = [phase EXCEPT ![u] = p]
      BY <1>3 DEF Tells
    <2>2. Queued(t)' => Queued(t)
      <3>1. CASE buffer' = buffer
        BY <3>1 DEF Queued
      <3>2. CASE buffer # <<>> /\ buffer' = Tail(buffer)
        BY <3>2, Dequeued DEF Flight
      <3> QED BY <1>3, <3>1, <3>2 DEF Tells
    <2> QED BY <2>1, <2>2 DEF Held, Offering
  <1>4. CASE \E u \in Deliveries : PoolEmits(u) /\ OtherThanPool
    BY <1>4 DEF PoolEmits, OtherThanPool, contractVars, Held, Queued
  <1> QED BY <1>1, <1>2, <1>3, <1>4

(* No verdict is given and no message is handed out.                       *)
Rests ==
  /\ UNCHANGED <<carried, settled, calls>>
  /\ sent \subseteq sent' /\ unacked' \subseteq unacked
  /\ \A t \in Deliveries : Held(t)' => Held(t)
  /\ \A i \in 1 .. Len(frames'), t \in Deliveries : SettleAt(i, t)' =>
       \E j \in 1 .. Len(frames) : SettleAt(j, t) /\ frames[j].v = frames'[i].v

LEMMA RestsKeeps ==
  ASSUME InFlight, Known, Rests
  PROVE  Known'
  <1>1. Heard'
    BY DEF Known, Heard, Rests
  <1>2. OutOnce'
    BY DEF Known, OutOnce, Rests
  <1>3. Undecided'
    <2>1. ASSUME NEW t \in 1 .. Len(carried), t \in unacked' \/ Held(t)'
          PROVE  t \in unacked \/ Held(t)
      <3>1. t \in Deliveries
        BY EngineAssumption, LenProperties DEF InFlight, Flight, Flows
      <3> QED BY <2>1, <3>1 DEF Rests
    <2>2. \A m : Decided(m)' <=> Decided(m)
      BY DEF Rests, Decided, Carrying
    <2> QED BY <2>1, <2>2 DEF Known, Undecided, Rests
  <1>4. Spoken'
    BY DEF Known, Spoken, Rests
  <1> QED BY <1>1, <1>2, <1>3, <1>4 DEF Known

LEMMA Resting ==
  ASSUME InFlight,
         \/ Quiet \/ HandsOver
         \/ \E t \in Deliveries : PoolEmits(t) /\ OtherThanPool
         \/ BrokerMoves /\ \/ HandleFrame /\ HandleEmit(Head(frames))
                           \/ \E to \in {"none", "closed"} : Ends(to)
  PROVE  Rests
  <1> USE DEF InFlight
  <1>1. CASE Quiet
    <2>1. UNCHANGED <<carried, settled, calls, frames>> /\ unacked' \subseteq unacked
          /\ sent \subseteq sent'
      BY <1>1 DEF Quiet, RouteMessage
    <2> QED BY <1>1, <2>1, HeldShrinks DEF Rests, SettleAt
  <1>2. CASE HandsOver
    <2>1. UNCHANGED <<carried, settled, calls, frames, unacked, sent>>
      BY <1>2 DEF HandsOver, Admitted, Offer
    <2> QED BY <1>2, <2>1, HeldShrinks DEF Rests, SettleAt
  <1>3. ASSUME NEW t \in Deliveries, PoolEmits(t) /\ OtherThanPool
        PROVE  Rests
    <2>1. UNCHANGED <<carried, settled, calls, unacked, sent>>
      BY <1>3 DEF PoolEmits, OtherThanPool, contractVars
    <2>2. [k |-> "emit", t |-> t] \in Frame /\ Write([k |-> "emit", t |-> t])
          /\ chan \in Live
      BY <1>3 DEF PoolEmits, Frame
    <2>3. /\ Len(frames') = Len(frames) + 1 /\ Len(frames) \in Nat
          /\ frames'[Len(frames) + 1] = [k |-> "emit", t |-> t]
          /\ \A i \in 1 .. Len(frames) : frames'[i] = frames[i]
      BY <2>2, Written DEF Flight
    <2>4. ASSUME NEW i \in 1 .. Len(frames'), NEW u \in Deliveries, SettleAt(i, u)'
          PROVE  \E j \in 1 .. Len(frames) :
                   SettleAt(j, u) /\ frames[j].v = frames'[i].v
      <3>1. frames'[i].k = "settle" /\ frames'[i].t = u
        BY <2>4 DEF SettleAt
      <3>2. i # Len(frames) + 1
        BY <2>3, <3>1
      <3>3. i \in 1 .. Len(frames) /\ frames'[i] = frames[i]
        BY <2>3, <3>2
      <3> QED BY <3>1, <3>3 DEF SettleAt
    <2> QED BY <1>3, <2>1, <2>4, HeldShrinks DEF Rests
  <1>4. CASE BrokerMoves /\ HandleFrame /\ HandleEmit(Head(frames))
    <2>1. UNCHANGED <<carried, settled, calls, unacked, sent, phase, buffer>>
      BY <1>4 DEF BrokerMoves, HandleFrame, HandleEmit
    <2>2. frames # <<>> /\ frames' = Tail(frames)
      BY <1>4 DEF HandleFrame
    <2>3. /\ Len(frames') = Len(frames) - 1 /\ Len(frames) \in Nat
          /\ \A i \in 1 .. Len(frames') : frames'[i] = frames[i + 1]
      BY <2>2, HeadTailProperties, LenProperties DEF Flight, Flows
    <2>4. \A i \in 1 .. Len(frames') : i + 1 \in 1 .. Len(frames)
      BY <2>3
    <2>5. ASSUME NEW i \in 1 .. Len(frames'), NEW t \in Deliveries, SettleAt(i, t)'
          PROVE  \E j \in 1 .. Len(frames) :
                   SettleAt(j, t) /\ frames[j].v = frames'[i].v
      <3>1. i + 1 \in 1 .. Len(frames) /\ frames'[i] = frames[i + 1]
        BY <2>3, <2>4
      <3>2. SettleAt(i + 1, t)
        BY <2>5, <3>1 DEF SettleAt
      <3> QED BY <3>1, <3>2
    <2>6. \A t \in Deliveries : Held(t)' => Held(t)
      BY <2>1 DEF Held, Queued
    <2> QED BY <2>1, <2>5, <2>6 DEF Rests
  <1>5. CASE BrokerMoves /\ \E to \in {"none", "closed"} : Ends(to)
    <2>1. /\ UNCHANGED <<carried, settled, calls, sent, phase, buffer>>
          /\ unacked' = {} /\ frames' = <<>>
      BY <1>5 DEF BrokerMoves, Ends
    <2> QED BY <2>1, EmptySeq DEF Rests, Held, Queued
  <1> QED BY <1>1, <1>2, <1>3, <1>4, <1>5

LEMMA Tagged ==
  ASSUME Flight
  PROVE  /\ Len(carried) \in Nat /\ DOMAIN carried = 1 .. Len(carried)
         /\ 1 .. Len(carried) \subseteq Deliveries /\ unacked \subseteq Deliveries
         /\ unacked \subseteq 1 .. Len(carried)
         /\ \A t \in Deliveries : Held(t) => t \in 1 .. Len(carried)
  <1>1. Len(carried) \in Nat /\ DOMAIN carried = 1 .. Len(carried)
    BY LenProperties DEF Flight, Flows
  <1>2. 1 .. Len(carried) \subseteq Deliveries
    BY <1>1, EngineAssumption DEF Flight, Flows
  <1>3. \A t \in Deliveries : t \in Int /\ t >= 1
    BY EngineAssumption
  <1>4. \A t \in Deliveries : Held(t) => ~(t > Len(carried))
    BY DEF Flight, Fresh, Held
  <1>5. \A t \in Deliveries : Held(t) => t \in 1 .. Len(carried)
    BY <1>1, <1>3, <1>4
  <1> QED BY <1>1, <1>2, <1>5 DEF Flight, Flows

LEMMA ToSetOfAppend ==
  ASSUME NEW S, NEW s \in Seq(S), NEW e \in S
  PROVE  ToSet(Append(s, e)) = ToSet(s) \cup {e}
  <1>1. /\ DOMAIN s = 1 .. Len(s) /\ Len(s) \in Nat
        /\ DOMAIN Append(s, e) = 1 .. Len(s) + 1
        /\ Append(s, e)[Len(s) + 1] = e
        /\ \A i \in 1 .. Len(s) : Append(s, e)[i] = s[i]
    BY AppendProperties, LenProperties
  <1>2. 1 .. Len(s) + 1 = (1 .. Len(s)) \cup {Len(s) + 1}
    BY <1>1
  <1> QED BY <1>1, <1>2 DEF ToSet

(* A verdict on t is on the one message t carries.                         *)
LEMMA SaidOfTold ==
  ASSUME Heard, NEW t \in Deliveries, NEW v \in Verdicts, Tells(t, v)
  PROVE  \A u \in Deliveries :
           ToSet(calls'[u]) = IF u = t THEN ToSet(calls[u]) \cup {v}
                              ELSE ToSet(calls[u])
  <1>1. calls[t] \in Seq(Verdicts) /\ DOMAIN calls = Deliveries
    BY DEF Heard
  <1>2. \A u \in Deliveries :
          calls'[u] = IF u = t THEN Append(calls[t], v) ELSE calls[u]
    BY <1>1 DEF Tells
  <1>3. ToSet(Append(calls[t], v)) = ToSet(calls[t]) \cup {v}
    BY <1>1, ToSetOfAppend
  <1> QED BY <1>2, <1>3

LEMMA TellsKnown ==
  ASSUME InFlight, Known, NEW t \in Deliveries, NEW v \in Verdicts, Tells(t, v)
  PROVE  Known'
  <1>1. UNCHANGED <<carried, unacked, settled, sent>>
    BY DEF Tells
  <1>2. t \in 1 .. Len(carried) /\ Len(carried) \in Nat
    BY Tagged DEF InFlight, Tells
  <1>3. \A u \in Deliveries :
          ToSet(calls'[u]) = IF u = t THEN ToSet(calls[u]) \cup {v}
                             ELSE ToSet(calls[u])
    BY SaidOfTold DEF Known
  <1>4. Heard'
    <2>1. calls[t] \in Seq(Verdicts) /\ DOMAIN calls = Deliveries
      BY DEF Known, Heard
    <2>2. Append(calls[t], v) \in Seq(Verdicts)
      BY <2>1, AppendProperties
    <2>3. calls' \in [Deliveries -> Seq(Verdicts)]
      BY <2>1, <2>2 DEF Known, Heard, Tells
    <2>4. \A u \in Deliveries : u > Len(carried) => calls'[u] = <<>>
      BY <1>2, <2>1 DEF Known, Heard, Tells
    <2> QED BY <1>1, <2>3, <2>4 DEF Known, Heard
  <1>5. OutOnce'
    BY <1>1 DEF Known, OutOnce
  <1>6. Undecided'
    <2>1. \A m : Decided(m)' <=> Decided(m)
      BY <1>1 DEF Decided, Carrying
    <2>2. \A u \in 1 .. Len(carried) : Held(u)' => Held(u)
      BY HeldShrinks, Tagged DEF InFlight
    <2> QED BY <1>1, <2>1, <2>2 DEF Known, Undecided
  <1>7. Spoken'
    <2> DEFINE f == [k |-> "settle", t |-> t, v |-> v]
    <2>1. f \in Frame /\ Write(f)
      BY DEF Tells, Settle, Frame
    <2>2. /\ Len(frames) \in Nat
          /\ chan \notin Live => frames' = frames
          /\ chan \in Live =>
               /\ Len(frames') = Len(frames) + 1
               /\ frames'[Len(frames) + 1] = f
               /\ \A i \in 1 .. Len(frames) : frames'[i] = frames[i]
      BY <2>1, Written DEF InFlight, Flight
    <2>3. ASSUME NEW i \in 1 .. Len(frames'), NEW u \in Deliveries, SettleAt(i, u)'
          PROVE  frames'[i].v \in ToSet(calls'[u])
      <3>1. CASE i \in 1 .. Len(frames)
        <4>1. frames'[i] = frames[i]
          BY <2>2, <3>1
        <4>2. SettleAt(i, u)
          BY <2>3, <4>1 DEF SettleAt
        <4>3. frames[i].v \in ToSet(calls[u])
          BY <3>1, <4>2 DEF Known, Spoken
        <4> QED BY <1>3, <4>1, <4>3
      <3>2. CASE i \notin 1 .. Len(frames)
        <4>1. frames'[i] = f
          BY <2>2, <3>2
        <4>2. u = t /\ frames'[i].v = v
          BY <2>3, <4>1 DEF SettleAt
        <4> QED BY <1>3, <4>2
      <3> QED BY <3>1, <3>2
    <2> QED BY <2>3 DEF Spoken
  <1> QED BY <1>4, <1>5, <1>6, <1>7 DEF Known

(* Where m is, without the order of the cases.                             *)
LEMMA Places ==
  ASSUME NEW m
  PROVE  /\ Place(m) = "absent" <=> m \notin sent
         /\ Place(m) = "waiting" <=>
              /\ m \in sent /\ ~Decided(m)
              /\ \A t \in Carrying(m) : t \notin unacked
         /\ Place(m) = "held" <=>
              /\ m \in sent /\ ~Decided(m)
              /\ \E t \in Carrying(m) : t \in unacked
         /\ Place(m) = "acked" <=>
              m \in sent /\ \E t \in Carrying(m) : settled[t] = "ack"
         /\ Place(m) = "dropped" <=>
              /\ m \in sent /\ \A t \in Carrying(m) : settled[t] # "ack"
              /\ \E t \in Carrying(m) : settled[t] = "nack"
  BY DEF Place, Decided

LEMMA DeliverFacts ==
  ASSUME InFlight, Known, NEW m \in Messages, Deliver(m),
         UNCHANGED <<emitted, phase, calls>>
  PROVE  /\ m \in sent /\ ~Decided(m)
         /\ \A u \in unacked : carried[u] # m
         /\ Len(carried) + 1 \in Deliveries
         /\ unacked' = unacked \cup {Len(carried) + 1}
         /\ \A n : Carrying(n)' = IF n = m THEN Carrying(n) \cup {Len(carried) + 1}
                                  ELSE Carrying(n)
         /\ \A n : Decided(n)' <=> Decided(n)
         /\ \A u \in 1 .. Len(carried) : carried'[u] = carried[u]
         /\ carried'[Len(carried) + 1] = m /\ Len(carried') = Len(carried) + 1
         /\ UNCHANGED <<frames, settled, sent>>
  <1> DEFINE t == Len(carried) + 1
  <1>1. /\ Len(carried) \in Nat /\ DOMAIN carried = 1 .. Len(carried)
        /\ unacked \subseteq 1 .. Len(carried)
    BY Tagged DEF InFlight
  <1>2. /\ carried' = Append(carried, m) /\ unacked' = unacked \cup {t}
        /\ UNCHANGED <<frames, settled, sent>> /\ Place(m) = "waiting"
        /\ Len(carried) < Cardinality(Deliveries)
    BY DEF Deliver
  <1>3. t \in Deliveries
    BY <1>1, <1>2, EngineAssumption
  <1>4. /\ m \in sent /\ ~Decided(m)
        /\ \A u \in Carrying(m) : u \notin unacked
    BY <1>2, Places
  <1>5. \A u \in unacked : carried[u] # m
    BY <1>1, <1>4 DEF Carrying
  <1>6. /\ DOMAIN carried' = 1 .. t /\ carried'[t] = m /\ Len(carried') = t
        /\ \A u \in 1 .. Len(carried) : carried'[u] = carried[u]
    BY <1>2, AppendProperties, LenProperties DEF InFlight, Flight, Flows
  <1>7. 1 .. t = (1 .. Len(carried)) \cup {t}
    BY <1>1
  <1>8. ASSUME NEW n
        PROVE  Carrying(n)' = IF n = m THEN Carrying(n) \cup {t} ELSE Carrying(n)
    BY <1>1, <1>6, <1>7 DEF Carrying
  <1>9. settled[t] = "no"
    BY <1>1, <1>3 DEF InFlight, Flight, Fresh
  <1>10. ASSUME NEW n PROVE Decided(n)' <=> Decided(n)
    BY <1>2, <1>8, <1>9 DEF Decided
  <1> QED BY <1>2, <1>3, <1>4, <1>5, <1>6, <1>8, <1>10

LEMMA DeliverKnown ==
  ASSUME InFlight, Known, NEW m \in Messages, Deliver(m),
         UNCHANGED <<emitted, phase, calls>>
  PROVE  Known'
  <1> DEFINE t == Len(carried) + 1
  <1>1. /\ Len(carried) \in Nat /\ unacked \subseteq 1 .. Len(carried)
        /\ 1 .. Len(carried) \subseteq Deliveries
    BY Tagged DEF InFlight
  <1>2. /\ m \in sent /\ ~Decided(m) /\ \A u \in unacked : carried[u] # m
        /\ t \in Deliveries /\ unacked' = unacked \cup {t}
        /\ \A n : Decided(n)' <=> Decided(n)
        /\ \A u \in 1 .. Len(carried) : carried'[u] = carried[u]
        /\ carried'[t] = m /\ Len(carried') = t
        /\ UNCHANGED <<frames, settled, sent, calls>>
    BY DeliverFacts
  <1>3. 1 .. Len(carried') = (1 .. Len(carried)) \cup {t}
    BY <1>1, <1>2
  <1>4. \A u \in 1 .. Len(carried) : Held(u)' => Held(u)
    <2>1. \A u \in 1 .. Len(carried) : Queued(u)' => Queued(u)
      <3>1. /\ Len(buffer') = Len(buffer) + 1 /\ Len(buffer) \in Nat
            /\ buffer'[Len(buffer) + 1] = t
            /\ \A i \in 1 .. Len(buffer) : buffer'[i] = buffer[i]
        BY <1>2, AppendProperties, LenProperties
           DEF InFlight, Flight, Flows, Deliver
      <3>2. t \notin 1 .. Len(carried)
        BY <1>1
      <3> QED BY <3>1, <3>2 DEF Queued
    <2> QED BY <2>1 DEF Held
  <1>5. Heard'
    <2>1. \A u \in Deliveries : u > Len(carried') => u > Len(carried)
      BY <1>1, <1>2, EngineAssumption
    <2> QED BY <1>2, <1>3, <2>1 DEF Known, Heard
  <1>6. OutOnce'
    <2>1. \A u \in unacked : carried'[u] = carried[u] /\ carried'[u] # carried'[t]
      BY <1>1, <1>2
    <2> QED BY <1>2, <2>1 DEF Known, OutOnce
  <1>7. Undecided'
    <2>1. ASSUME NEW u \in 1 .. Len(carried'), NEW n \in Messages,
                 carried'[u] = n, u \in unacked' \/ Held(u)'
          PROVE  ~Decided(n)'
      <3>1. CASE u = t
        BY <1>2, <2>1, <3>1
      <3>2. CASE u # t
        <4>1. u \in 1 .. Len(carried) /\ (u \in unacked \/ Held(u))
          BY <1>2, <1>3, <1>4, <2>1, <3>2
        <4>2. ~Decided(n)
          BY <1>2, <2>1, <4>1 DEF Known, Undecided
        <4> QED BY <1>2, <4>2
      <3> QED BY <3>1, <3>2
    <2> QED BY <2>1 DEF Undecided
  <1>8. Spoken'
    BY <1>2 DEF Known, Spoken, SettleAt
  <1> QED BY <1>5, <1>6, <1>7, <1>8 DEF Known

LEMMA SettleFacts ==
  ASSUME InFlight, Quiescent, Known, HandleFrame, HandleSettle(Head(frames)),
         UNCHANGED <<emitted, phase, calls>>
  PROVE  \E t \in unacked, v \in Verdicts :
           /\ unacked' = unacked \ {t}
           /\ settled' = [u \in Deliveries |-> IF u = t THEN v ELSE settled[u]]
           /\ v \in ToSet(calls[t])
           /\ carried[t] \in Messages /\ carried[t] \in sent
           /\ ~Decided(carried[t])
           /\ \A u \in Deliveries :
                Held(u) => u \in 1 .. Len(carried) /\ carried[u] # carried[t]
           /\ \A n : n # carried[t] => (Decided(n)' <=> Decided(n))
           /\ UNCHANGED <<carried, sent, buffer, chan>>
  <1> DEFINE f == Head(frames)
             t == f.t
  <1>1. frames # <<>> /\ 1 \in 1 .. Len(frames) /\ f = frames[1] /\ f \in Frame
    BY HeadTailProperties, EmptySeq, LenProperties
       DEF InFlight, Flight, Flows, HandleFrame
  <1>2. f.k = "settle" /\ t \in Deliveries /\ f.v \in Verdicts /\ SettleAt(1, t)
    BY <1>1 DEF HandleSettle, Frame, SettleAt
  <1>3. t \in unacked
    BY <1>1, <1>2 DEF InFlight, Flight, ToldOnce
  <1>4. /\ unacked' = unacked \ {t}
        /\ settled' = [u \in Deliveries |-> IF u = t THEN f.v ELSE settled[u]]
        /\ UNCHANGED <<carried, sent, buffer, chan>>
    BY <1>3 DEF HandleSettle, SpokenFor, HandleFrame
  <1>5. f.v \in ToSet(calls[t])
    BY <1>1, <1>2 DEF Known, Spoken
  <1>6. /\ 1 .. Len(carried) \subseteq Deliveries /\ t \in 1 .. Len(carried)
        /\ DOMAIN carried = 1 .. Len(carried)
        /\ \A u \in Deliveries : Held(u) => u \in 1 .. Len(carried)
    BY <1>3, Tagged DEF InFlight
  <1>7. carried[t] \in Messages /\ carried[t] \in sent
    BY <1>6, ElementOfSeq DEF InFlight, Flight, Flows, Known, Heard
  <1>8. ~Decided(carried[t])
    BY <1>3, <1>6, <1>7 DEF Known, Undecided
  <1>9. ASSUME NEW u \in Deliveries, Held(u), carried[u] = carried[t]
        PROVE  FALSE
    <2>1. chan = "consuming"
      <3>1. chan \notin {"none", "open", "closed"}
        BY <1>1 DEF Quiescent
      <3>2. chan # "dying"
        BY <1>9, EmptySeq DEF Quiescent, InFlight, Connected, Starting, Held,
                              Queued
      <3> QED BY <3>1, <3>2 DEF Quiescent
    <2>2. u \in unacked /\ ~SettleAt(1, u)
      BY <1>1, <1>9, <2>1 DEF InFlight, Flight, Holding, Live
    <2>3. u = t
      BY <1>3, <1>9, <2>2 DEF Known, OutOnce
    <2> QED BY <1>2, <2>2, <2>3
  <1>10. ASSUME NEW n, n # carried[t]
         PROVE  Decided(n)' <=> Decided(n)
    <2>1. Carrying(n)' = Carrying(n) /\ t \notin Carrying(n)
          /\ Carrying(n) \subseteq Deliveries
      BY <1>4, <1>6, <1>10 DEF Carrying
    <2> QED BY <1>4, <2>1 DEF Decided
  <1> QED BY <1>2, <1>3, <1>4, <1>5, <1>6, <1>7, <1>8, <1>9, <1>10

LEMMA SettleKnown ==
  ASSUME InFlight, Quiescent, Known, HandleFrame, HandleSettle(Head(frames)),
         UNCHANGED <<emitted, phase, calls>>
  PROVE  Known'
  <1>1. PICK t \in unacked, v \in Verdicts :
           /\ unacked' = unacked \ {t}
           /\ settled' = [u \in Deliveries |-> IF u = t THEN v ELSE settled[u]]
           /\ v \in ToSet(calls[t])
           /\ carried[t] \in Messages /\ carried[t] \in sent
           /\ ~Decided(carried[t])
           /\ \A u \in Deliveries :
                Held(u) => u \in 1 .. Len(carried) /\ carried[u] # carried[t]
           /\ \A n : n # carried[t] => (Decided(n)' <=> Decided(n))
           /\ UNCHANGED <<carried, sent, buffer, chan>>
    BY SettleFacts
  <1>2. Heard' /\ OutOnce'
    BY <1>1 DEF Known, Heard, OutOnce
  <1>3. Undecided'
    <2>1. ASSUME NEW u \in 1 .. Len(carried), NEW n \in Messages,
                 carried[u] = n, u \in unacked' \/ Held(u)'
          PROVE  ~Decided(n)'
      <3>1. Held(u)' => Held(u)
        BY <1>1 DEF Held, Queued
      <3>2. u \in Deliveries
        BY Tagged DEF InFlight
      <3>3. n # carried[t]
        BY <1>1, <2>1, <3>1, <3>2 DEF Known, OutOnce
      <3>4. ~Decided(n)
        BY <1>1, <2>1, <3>1 DEF Known, Undecided
      <3> QED BY <1>1, <3>3, <3>4
    <2> QED BY <1>1, <2>1 DEF Undecided
  <1>4. Spoken'
    <2>1. /\ Len(frames') = Len(frames) - 1 /\ Len(frames) \in Nat
          /\ \A i \in 1 .. Len(frames') : frames'[i] = frames[i + 1]
      BY HeadTailProperties, LenProperties
         DEF InFlight, Flight, Flows, HandleFrame
    <2>2. \A i \in 1 .. Len(frames') : i + 1 \in 1 .. Len(frames)
      BY <2>1
    <2>3. ASSUME NEW i \in 1 .. Len(frames'), NEW u \in Deliveries, SettleAt(i, u)'
          PROVE  frames'[i].v \in ToSet(calls[u])
      <3>1. i + 1 \in 1 .. Len(frames) /\ frames'[i] = frames[i + 1]
        BY <2>1, <2>2
      <3>2. SettleAt(i + 1, u)
        BY <2>3, <3>1 DEF SettleAt
      <3> QED BY <3>1, <3>2 DEF Known, Spoken
    <2> QED BY <2>3 DEF Spoken
  <1> QED BY <1>2, <1>3, <1>4 DEF Known

LEMMA KeptStep ==
  ASSUME Kept, [EngineNext]_vars
  PROVE  Kept'
  <1>1. InFlight' /\ Quiescent'
    BY InFlightStep, QuiescentStep DEF Kept
  <1>2. Known'
    <2> USE DEF Kept
    <2>1. CASE Quiet \/ HandsOver \/ \E t \in Deliveries : PoolEmits(t) /\ OtherThanPool
      BY <2>1, Resting, RestsKeeps
    <2>2. CASE \E t \in Deliveries, v \in Verdicts : Tells(t, v)
      BY <2>2, TellsKnown
    <2>3. CASE BrokerMoves
      <3>1. UNCHANGED <<emitted, phase, calls>>
        BY <2>3 DEF BrokerMoves
      <3>2. CASE \E m \in Messages : Deliver(m)
        BY <3>1, <3>2, DeliverKnown
      <3>3. CASE HandleFrame /\ HandleSettle(Head(frames))
        BY <3>1, <3>3, SettleKnown
      <3>4. CASE \/ HandleFrame /\ HandleEmit(Head(frames))
                 \/ \E to \in {"none", "closed"} : Ends(to)
        BY <2>3, <3>4, Resting, RestsKeeps
      <3> QED BY <2>3, <3>2, <3>3, <3>4 DEF BrokerMoves, HandleFrame
    <2> QED BY <2>1, <2>2, <2>3, StepKinds
  <1> QED BY <1>1, <1>2 DEF Kept

LEMMA KeptInit == EngineInit => Kept
  <1> SUFFICES ASSUME EngineInit PROVE Kept
    OBVIOUS
  <1>1. InFlight
    BY OpenedInit, ConnectedInit, FlightInit DEF InFlight
  <1>2. /\ carried = <<>> /\ frames = <<>> /\ unacked = {} /\ chan = "none"
        /\ calls = [t \in Deliveries |-> <<>>]
    BY DEF EngineInit, ContractInit
  <1>3. Quiescent
    BY <1>2 DEF Quiescent
  <1>4. Heard
    BY <1>2, EmptySeq DEF Heard
  <1>5. OutOnce /\ Undecided /\ Spoken
    BY <1>2 DEF OutOnce, Undecided, Spoken
  <1> QED BY <1>1, <1>3, <1>4, <1>5 DEF Kept, Known

-----------------------------------------------------------------------------
(* Each step is one of the mailbox, or none                                *)

BoxStays == UNCHANGED Box!mailboxVars

LEMMA SameSaid ==
  ASSUME UNCHANGED <<carried, calls>>
  PROVE  \A n : Said(n)' = Said(n)
  BY DEF Said, Carrying

LEMMA StaysStep ==
  ASSUME UNCHANGED <<carried, settled, calls, unacked, sent>>
  PROVE  BoxStays
  <1>1. \A n : Place(n)' = Place(n)
    BY DEF Place, Carrying
  <1> QED BY <1>1, SameSaid DEF BoxStays, Box!mailboxVars

LEMMA ArrivesStep ==
  ASSUME Kept, NEW m, RouteMessage(m),
         UNCHANGED <<carried, settled, calls, unacked>>
  PROVE  BoxStays \/ (m \in Messages /\ Box!Arrives(m))
  <1>1. m \notin sent /\ sent' = sent \cup {m}
    BY DEF RouteMessage
  <1>2. \A n : n # m => Place(n)' = Place(n)
    BY <1>1 DEF Place, Carrying
  <1>3. \A n : Said(n)' = Said(n)
    BY SameSaid
  <1>4. Carrying(m) = {} /\ Carrying(m)' = {}
    BY <1>1, Tagged DEF Carrying, Kept, InFlight, Known, Heard
  <1>5. Place(m) = "absent" /\ Place(m)' = "waiting"
    BY <1>1, <1>4 DEF Place
  <1>6. CASE m \in Messages
    BY <1>2, <1>3, <1>5, <1>6 DEF Box!Arrives
  <1>7. CASE m \notin Messages
    BY <1>2, <1>3, <1>7 DEF BoxStays, Box!mailboxVars
  <1> QED BY <1>6, <1>7

(* All that a channel held comes back when it ends.                        *)
LEMMA ComeBackStep ==
  ASSUME UNCHANGED <<carried, settled, calls, sent>>, unacked' = {}
  PROVE  BoxStays \/ \E S \in SUBSET Messages : Box!ComeBack(S)
  <1> DEFINE S == {n \in Messages : Place(n) = "held"}
  <1>1. \A n : Said(n)' = Said(n)
    BY SameSaid
  <1>2. \A n : Place(n)' = IF Place(n) = "held" THEN "waiting" ELSE Place(n)
    BY DEF Place, Carrying
  <1>3. CASE S = {}
    <2>1. \A n \in Messages : Place(n)' = Place(n)
      BY <1>2, <1>3
    <2> QED BY <1>1, <2>1 DEF BoxStays, Box!mailboxVars
  <1>4. CASE S # {}
    <2>1. Box!ComeBack(S)
      BY <1>1, <1>2, <1>4 DEF Box!ComeBack
    <2> QED BY <2>1
  <1> QED BY <1>3, <1>4

LEMMA JudgedStep ==
  ASSUME Kept, NEW t \in Deliveries, NEW v \in Verdicts, Tells(t, v)
  PROVE  \E m \in Messages, w \in {"ack", "nack", "requeue"} : Box!Judged(m, w)
  <1>1. UNCHANGED <<carried, unacked, settled, sent>>
    BY DEF Tells
  <1>2. /\ t \in 1 .. Len(carried) /\ DOMAIN carried = 1 .. Len(carried)
        /\ 1 .. Len(carried) \subseteq Deliveries
    BY Tagged DEF Kept, InFlight, Tells
  <1>3. PICK m \in Messages : m = carried[t] /\ m \in sent
    BY <1>2, ElementOfSeq DEF Kept, InFlight, Flight, Flows, Known, Heard
  <1>4. ~Decided(m)
    BY <1>2, <1>3 DEF Kept, Known, Undecided, Tells
  <1>5. Place(m) \in {"waiting", "held"}
    BY <1>3, <1>4, Places
  <1>6. \A n : Place(n)' = Place(n)
    BY <1>1 DEF Place, Carrying
  <1>7. \A u \in Deliveries :
          ToSet(calls'[u]) = IF u = t THEN ToSet(calls[u]) \cup {v}
                             ELSE ToSet(calls[u])
    BY SaidOfTold DEF Kept, Known
  <1>8. \A n : Carrying(n)' = Carrying(n) /\ Carrying(n) \subseteq Deliveries
    BY <1>1, <1>2 DEF Carrying
  <1>9. Said(m)' = Said(m) \cup {v}
    <2>1. t \in Carrying(m)
      BY <1>2, <1>3 DEF Carrying
    <2> QED BY <1>7, <1>8, <2>1 DEF Said
  <1>10. ASSUME NEW n, n # m PROVE Said(n)' = Said(n)
    <2>1. t \notin Carrying(n)
      BY <1>3, <1>10 DEF Carrying
    <2> QED BY <1>7, <1>8, <2>1 DEF Said
  <1>11. Box!Judged(m, v)
    BY <1>3, <1>5, <1>6, <1>9, <1>10 DEF Box!Judged
  <1> QED BY <1>3, <1>11 DEF Verdicts

LEMMA HandedStep ==
  ASSUME Kept, NEW m \in Messages, Deliver(m),
         UNCHANGED <<emitted, phase, calls>>
  PROVE  Box!Handed(m)
  <1> DEFINE t == Len(carried) + 1
  <1>1. /\ m \in sent /\ ~Decided(m) /\ \A u \in unacked : carried[u] # m
        /\ t \in Deliveries /\ unacked' = unacked \cup {t}
        /\ \A n : Carrying(n)' = IF n = m THEN Carrying(n) \cup {t} ELSE Carrying(n)
        /\ \A n : Decided(n)' <=> Decided(n)
        /\ UNCHANGED <<frames, settled, sent, calls>>
    BY DeliverFacts DEF Kept
  <1>2. /\ Len(carried) \in Nat /\ DOMAIN carried = 1 .. Len(carried)
    BY Tagged DEF Kept, InFlight
  <1>3. Place(m) = "waiting"
    BY DEF Deliver
  <1>4. Place(m)' = "held"
    <2>1. ~\E u \in Carrying(m)' : settled'[u] \in {"ack", "nack"}
      BY <1>1 DEF Decided
    <2>2. t \in Carrying(m)' /\ t \in unacked' /\ m \in sent'
      BY <1>1
    <2> QED BY <2>1, <2>2 DEF Place
  <1>5. ASSUME NEW n, n # m PROVE Place(n)' = Place(n)
    <2>1. t \notin Carrying(n)
      BY <1>2 DEF Carrying
    <2> QED BY <1>1, <1>5, <2>1 DEF Place
  <1>6. calls[t] = <<>> /\ ToSet(<<>>) = {}
    BY <1>1, <1>2 DEF Kept, Known, Heard, ToSet
  <1>7. ASSUME NEW n PROVE Said(n)' = Said(n)
    BY <1>1, <1>6 DEF Said
  <1> QED BY <1>3, <1>4, <1>5, <1>7 DEF Box!Handed

LEMMA LeavesStep ==
  ASSUME Kept, HandleFrame, HandleSettle(Head(frames)),
         UNCHANGED <<emitted, phase, calls>>
  PROVE  \E m \in Messages : Box!Leaves(m) \/ Box!ComeBack({m})
  <1>1. PICK t \in unacked, v \in Verdicts :
           /\ unacked' = unacked \ {t}
           /\ settled' = [u \in Deliveries |-> IF u = t THEN v ELSE settled[u]]
           /\ v \in ToSet(calls[t])
           /\ carried[t] \in Messages /\ carried[t] \in sent
           /\ ~Decided(carried[t])
           /\ UNCHANGED <<carried, sent>>
    BY SettleFacts DEF Kept
  <1> DEFINE m == carried[t]
  <1>2. /\ t \in 1 .. Len(carried) /\ DOMAIN carried = 1 .. Len(carried)
        /\ 1 .. Len(carried) \subseteq Deliveries /\ unacked \subseteq DOMAIN carried
    BY <1>1, Tagged DEF Kept, InFlight
  <1>3. \A n : Carrying(n)' = Carrying(n) /\ Carrying(n) \subseteq Deliveries
    BY <1>1, <1>2 DEF Carrying
  <1>4. t \in Carrying(m) /\ \A n : n # m => t \notin Carrying(n)
    BY <1>2 DEF Carrying
  <1>5. \A u \in Carrying(m) : u # t => u \notin unacked
    BY <1>1 DEF Kept, Known, OutOnce, Carrying
  <1>6. Place(m) = "held"
    BY <1>1, <1>4, Places
  <1>7. \A n : Said(n)' = Said(n)
    BY <1>1, SameSaid
  <1>8. v \in Said(m)
    BY <1>1, <1>4 DEF Said
  <1>9. ASSUME NEW n, n # m PROVE Place(n)' = Place(n)
    BY <1>1, <1>3, <1>4, <1>9 DEF Place
  <1>10. \A u \in Carrying(m) : u # t => settled'[u] = settled[u]
                                        /\ settled[u] \notin {"ack", "nack"}
    BY <1>1, <1>3 DEF Decided
  <1>11. settled'[t] = v
    BY <1>1, <1>2
  <1>12. CASE v = "ack"
    <2>1. Place(m)' = "acked"
      BY <1>1, <1>3, <1>4, <1>11, <1>12 DEF Place
    <2>2. Box!Leaves(m)
      BY <1>1, <1>6, <1>7, <1>8, <1>9, <1>12, <2>1 DEF Box!Leaves
    <2> QED BY <1>1, <2>2
  <1>13. CASE v = "nack"
    <2>1. Place(m)' = "dropped"
      BY <1>1, <1>3, <1>4, <1>10, <1>11, <1>13 DEF Place
    <2>2. Box!Leaves(m)
      BY <1>1, <1>6, <1>7, <1>8, <1>9, <1>13, <2>1 DEF Box!Leaves
    <2> QED BY <1>1, <2>2
  <1>14. CASE v = "requeue"
    <2>1. Place(m)' = "waiting"
      BY <1>1, <1>3, <1>5, <1>10, <1>11, <1>14 DEF Place
    <2>2. Box!ComeBack({m})
      BY <1>1, <1>6, <1>7, <1>9, <2>1 DEF Box!ComeBack
    <2> QED BY <1>1, <2>2
  <1> QED BY <1>12, <1>13, <1>14 DEF Verdicts

LEMMA BoxStep ==
  ASSUME Kept, [EngineNext]_vars
  PROVE  BoxStays \/ Box!MailboxNext
  <1>1. CASE Quiet
    <2>1. CASE UNCHANGED <<unacked, sent>>
      BY <1>1, <2>1, StaysStep DEF Quiet
    <2>2. CASE unacked' # unacked
      BY <1>1, <2>2, ComeBackStep DEF Quiet, Box!MailboxNext
    <2>3. CASE sent' # sent
      BY <1>1, <2>3, ArrivesStep DEF Quiet, Box!MailboxNext
    <2> QED BY <2>1, <2>2, <2>3
  <1>2. CASE HandsOver
    BY <1>2, StaysStep DEF HandsOver, Admitted, Offer
  <1>3. CASE \E t \in Deliveries : PoolEmits(t) /\ OtherThanPool
    BY <1>3, StaysStep DEF PoolEmits, OtherThanPool, contractVars
  <1>4. CASE \E t \in Deliveries, v \in Verdicts : Tells(t, v)
    BY <1>4, JudgedStep DEF Box!MailboxNext
  <1>5. CASE BrokerMoves
    <2>1. UNCHANGED <<emitted, phase, calls>>
      BY <1>5 DEF BrokerMoves
    <2>2. CASE \E m \in Messages : Deliver(m)
      BY <2>1, <2>2, HandedStep DEF Box!MailboxNext
    <2>3. CASE HandleFrame /\ HandleSettle(Head(frames))
      <3>1. PICK m \in Messages : Box!Leaves(m) \/ Box!ComeBack({m})
        BY <2>1, <2>3, LeavesStep
      <3>2. {m} \in SUBSET Messages
        OBVIOUS
      <3> QED BY <3>1, <3>2 DEF Box!MailboxNext
    <2>4. CASE HandleFrame /\ HandleEmit(Head(frames))
      BY <2>1, <2>4, StaysStep DEF HandleFrame, HandleEmit
    <2>5. CASE \E to \in {"none", "closed"} : Ends(to)
      BY <2>1, <2>5, ComeBackStep DEF Ends, Box!MailboxNext
    <2> QED BY <1>5, <2>2, <2>3, <2>4, <2>5 DEF BrokerMoves, HandleFrame
  <1> QED BY <1>1, <1>2, <1>3, <1>4, <1>5, StepKinds DEF Kept

LEMMA BoxInit == EngineInit => Box!MailboxInit
  <1> SUFFICES ASSUME EngineInit PROVE Box!MailboxInit
    OBVIOUS
  <1>1. sent = {} /\ carried = <<>> /\ DOMAIN carried = {}
    BY EmptySeq, LenProperties DEF EngineInit
  <1>2. \A m : Place(m) = "absent" /\ Carrying(m) = {} /\ Said(m) = {}
    BY <1>1 DEF Place, Said, Carrying
  <1> QED BY <1>2 DEF Box!MailboxInit

(* Every message is out once at a time, nothing that is out or in hand has *)
(* left the queue, and the broker is told only what was said.              *)
THEOREM KeptAlways == EngineSpec => []Kept
  BY KeptInit, KeptStep, PTL DEF EngineSpec

(* Refinement: over any number of lives, faults and messages the engine    *)
(* reads its queue as Mailbox says. No message leaves it without a verdict *)
(* on that message, none comes back after it left (bus.go:160-213).        *)
THEOREM QueueKept == EngineSpec => KeepsQueue
  <1>1. EngineInit => Box!MailboxInit
    BY BoxInit
  <1>2. Kept /\ [EngineNext]_vars => [Box!MailboxNext]_(Box!mailboxVars)
    BY BoxStep DEF BoxStays
  <1> QED BY <1>1, <1>2, KeptAlways, PTL
          DEF EngineSpec, KeepsQueue, Box!MailboxSpec

-----------------------------------------------------------------------------
(* Leaving in good order                                                   *)

(* A life keeps the world it was started with.                             *)
LEMMA Fixed ==
  ASSUME [EngineNext]_vars, ~Restart
  PROVE  UNCHANGED startVars
  <1>1. CASE StartStep \/ StartFails \/ ConsumeStep
    BY <1>1 DEF StartStep, StartFails, OtherThanStart, ConsumeStep, fixedVars
  <1>2. CASE CloseStep
    BY <1>2 DEF CloseStep, fixedVars
  <1>3. CASE PoolStep \/ PoolExtra
    BY <1>3 DEF PoolStep, PoolExtra, OtherThanPool, fixedVars
  <1>4. CASE BrokerStep \/ OthersPublish \/ ChannelCloses
    BY <1>4 DEF BrokerStep, OthersPublish, ChannelCloses, OtherThanBroker,
                fixedVars
  <1>5. CASE Signal \/ ServeStops \/ Crash \/ UNCHANGED vars
    BY <1>5 DEF Signal, ServeStops, Crash, vars, fixedVars
  <1> QED
    BY <1>1, <1>2, <1>3, <1>4, <1>5 DEF EngineNext, RunStep, Idle

(* Every life is started with a world of the scenario.                     *)
Given ==
  /\ world \in worlds /\ conf = Configured(world)
  /\ \A w \in worlds :
       /\ \A k \in Numbers : Params(w)[k] \in Int
       /\ IsList(Manifest(w).args) /\ IsList(Settings(w).args)
       /\ LoadConfig(w) # Unset

LEMMA GivenInit == EngineInit => Given
  <1> SUFFICES ASSUME EngineInit PROVE Given
    OBVIOUS
  <1>1. PICK s \in Scenarios :
          worlds = s.worlds /\ world \in s.worlds /\ conf = Configured(world)
    BY DEF EngineInit
  <1>2. Scenario(s)
    BY EngineAssumption
  <1> QED BY <1>1, <1>2 DEF Scenario, Given

LEMMA GivenStep ==
  ASSUME Given, [EngineNext]_vars
  PROVE  Given'
  <1>1. CASE Restart
    BY <1>1 DEF Restart, Given
  <1>2. CASE ~Restart
    BY <1>2, Fixed DEF startVars, Given
  <1> QED BY <1>1, <1>2

(* What has been settled here and is waited for there is on its way.       *)
Owed ==
  chan \in Live =>
    \A t \in unacked : phase[t] \in {"settled", "unseen", "gone"} =>
      \E i \in 1 .. Len(frames) : SettleAt(i, t)

(* A pool without a timeout that has been shut down is empty.              *)
Drained ==
  ~HasTimeout /\ pc = "unwind" /\ "pool" \notin open =>
    \A t \in Deliveries : phase[t] # "taken"

LEMMA Reopens ==
  ASSUME Kept, [EngineNext]_vars, chan \notin Live, chan' \in Live
  PROVE  unacked' = {}
  <1>1. StartStep \/ StartFails
    BY DEF EngineNext, RunStep, ConsumeStep, CloseStep, DeferredStep,
           ShutdownPool,
           StopSignals, CloseHealth, CloseBus, Return, Restart, PoolStep,
           PoolExtra, OtherThanPool, BrokerStep, Deliver, HandleFrame,
           NoticeDeath, OthersPublish, RouteMessage, ChannelCloses, Ends,
           OtherThanBroker, Signal, ServeStops, Crash, Idle, vars, Live
  <1>2. unacked' = unacked /\ pc # "down"
    BY <1>1 DEF StartStep, StartFails, OtherThanStart, Prepare, Dial,
                OpenChannel, Setup, ConnectFails, ServeHealth, ServeFails,
                StartPool, Subscribe
  <1>3. chan \in {"none", "closed"}
    BY <1>2 DEF Kept, Quiescent, Live
  <1> QED BY <1>2, <1>3 DEF Kept, Quiescent

LEMMA OwedStep ==
  ASSUME Kept, Owed, [EngineNext]_vars
  PROVE  Owed'
  <1> SUFFICES ASSUME chan' \in Live, NEW t \in unacked',
                      phase'[t] \in {"settled", "unseen", "gone"}
               PROVE  \E i \in 1 .. Len(frames') : SettleAt(i, t)'
    BY DEF Owed
  <1>1. chan \in Live
    BY Reopens
  <1>2. unacked \subseteq Deliveries /\ Len(carried) \in Nat
        /\ unacked \subseteq 1 .. Len(carried)
    BY Tagged DEF Kept, InFlight
  <1>3. ASSUME t \in unacked, phase[t] \in {"settled", "unseen", "gone"},
               Len(frames) \in Nat,
               \A i \in 1 .. Len(frames) :
                 i \in 1 .. Len(frames') /\ frames'[i] = frames[i]
        PROVE  \E i \in 1 .. Len(frames') : SettleAt(i, t)'
    <2>1. PICK i \in 1 .. Len(frames) : SettleAt(i, t)
      BY <1>1, <1>3 DEF Owed
    <2> QED BY <1>3, <2>1 DEF SettleAt
  <1>4. Len(frames) \in Nat
    BY LenProperties DEF Kept, InFlight, Flight, Flows
  <1>5. CASE Quiet
    <2>1. t \in unacked /\ t \in Deliveries /\ frames' = frames
      BY <1>2, <1>5 DEF Quiet
    <2>2. phase[t] \in {"settled", "unseen", "gone"}
      BY <1>5, <2>1 DEF Quiet
    <2> QED BY <1>3, <1>4, <2>1, <2>2
  <1>6. CASE HandsOver
    <2>1. t \in unacked /\ t \in Deliveries /\ frames' = frames
          /\ phase' = [phase EXCEPT ![Head(buffer)] = "offered"]
      BY <1>2, <1>6 DEF HandsOver, Admitted, Offer
    <2>2. phase[t] \in {"settled", "unseen", "gone"}
      BY <2>1 DEF Kept, InFlight, Offering
    <2> QED BY <1>3, <1>4, <2>1, <2>2
  <1>7. ASSUME NEW u \in Deliveries, NEW f \in Frame, Write(f),
               unacked' = unacked, t # u => phase'[t] = phase[t],
               t = u => \/ f.k = "settle" /\ f.t = u
                        \/ phase'[t] = phase[t]
        PROVE  \E i \in 1 .. Len(frames') : SettleAt(i, t)'
    <2>1. /\ Len(frames') = Len(frames) + 1
          /\ frames'[Len(frames) + 1] = f
          /\ \A i \in 1 .. Len(frames) : frames'[i] = frames[i]
      BY <1>1, <1>7, Written DEF Kept, InFlight, Flight
    <2>2. CASE phase'[t] = phase[t]
      <3>1. \A i \in 1 .. Len(frames) : i \in 1 .. Len(frames')
        BY <1>4, <2>1
      <3> QED BY <1>3, <1>4, <1>7, <2>1, <2>2, <3>1
    <2>3. CASE t = u /\ f.k = "settle" /\ f.t = u
      <3>1. PICK i \in 1 .. Len(frames') : frames'[i] = f
        BY <1>4, <2>1
      <3> QED BY <2>3, <3>1 DEF SettleAt
    <2> QED BY <1>7, <2>2, <2>3
  <1>8. ASSUME NEW u \in Deliveries, NEW v \in Verdicts, Tells(u, v)
        PROVE  \E i \in 1 .. Len(frames') : SettleAt(i, t)'
    <2>1. [k |-> "settle", t |-> u, v |-> v] \in Frame
      BY DEF Frame
    <2>2. Write([k |-> "settle", t |-> u, v |-> v]) /\ unacked' = unacked
          /\ \E p \in {"unseen", "settled"} : phase' = [phase EXCEPT ![u] = p]
      BY <1>8 DEF Tells, Settle
    <2>3. t # u => phase'[t] = phase[t]
      BY <1>2, <2>2 DEF Kept, InFlight, Offering
    <2> QED BY <1>7, <2>1, <2>2, <2>3
  <1>9. ASSUME NEW u \in Deliveries, PoolEmits(u), OtherThanPool
        PROVE  \E i \in 1 .. Len(frames') : SettleAt(i, t)'
    <2>1. [k |-> "emit", t |-> u] \in Frame
      BY DEF Frame
    <2>2. Write([k |-> "emit", t |-> u]) /\ unacked' = unacked /\ phase' = phase
      BY <1>9 DEF PoolEmits, OtherThanPool, contractVars
    <2> QED BY <1>7, <2>1, <2>2
  <1>10. CASE BrokerMoves
    <2>1. UNCHANGED phase
      BY <1>10 DEF BrokerMoves
    <2>2. ASSUME NEW m \in Messages, Deliver(m)
          PROVE  t \in unacked /\ frames' = frames
      <3>1. unacked' = unacked \cup {Len(carried) + 1} /\ frames' = frames
        BY <2>2 DEF Deliver
      <3>2. phase[Len(carried) + 1] = "new"
        <4>1. Len(carried) + 1 \in Deliveries
          BY <1>2, <2>2, EngineAssumption DEF Deliver
        <4> QED BY <1>2, <4>1 DEF Kept, InFlight, Flight, Fresh
      <3> QED BY <2>1, <3>1, <3>2
    <2>3. CASE HandleFrame
      <3>1. frames # <<>> /\ frames' = Tail(frames) /\ t \in unacked
        BY <2>3 DEF HandleFrame, HandleSettle, HandleEmit
      <3>2. /\ Head(frames) = frames[1]
            /\ Len(frames') = Len(frames) - 1
            /\ \A i \in 1 .. Len(frames') : frames'[i] = frames[i + 1]
        BY <3>1, HeadTailProperties DEF Kept, InFlight, Flight, Flows
      <3>3. PICK i \in 1 .. Len(frames) : SettleAt(i, t)
        BY <1>1, <2>1, <3>1 DEF Owed
      <3>4. i # 1
        BY <2>3, <3>1, <3>2, <3>3
           DEF SettleAt, HandleFrame, HandleSettle, HandleEmit, SpokenFor
      <3>5. PICK j \in 1 .. Len(frames') : j + 1 = i
        BY <1>4, <3>2, <3>4
      <3> QED BY <3>2, <3>3, <3>5 DEF SettleAt
    <2>4. CASE \E to \in {"none", "closed"} : Ends(to)
      BY <2>4 DEF Ends
    <2> QED BY <1>3, <1>4, <1>10, <2>1, <2>2, <2>3, <2>4 DEF BrokerMoves
  <1> QED BY <1>5, <1>6, <1>8, <1>9, <1>10, StepKinds DEF Kept

LEMMA DrainedStep ==
  ASSUME Kept, Drained, [EngineNext]_vars
  PROVE  Drained'
  <1> USE DEF Goes
  <1> SUFFICES ASSUME ~HasTimeout', pc' = "unwind", "pool" \notin open',
                      NEW t \in Deliveries, phase'[t] = "taken"
               PROVE  FALSE
    BY DEF Drained
  <1>0. ~Restart /\ ~HasTimeout
    <2>1. ~Restart
      BY DEF Restart
    <2> QED BY <2>1, Fixed DEF startVars, HasTimeout
  <1>1. CASE StartStep \/ StartFails
    <2>1. phase' = phase /\ pc \in Starting
      BY <1>1 DEF StartStep, StartFails, OtherThanStart, contractVars, Prepare,
                  Dial, OpenChannel, Setup, ConnectFails, ServeHealth,
                  ServeFails, StartPool, Subscribe, Starting
    <2> QED BY <2>1 DEF Kept, InFlight, Connected
  <1>2. CASE ConsumeStep
    <2>1. "pool" \in open /\ open' = open
      BY <1>2 DEF ConsumeStep, Receive, CtxEnds, SeesClosed, Kept, InFlight,
                  Opened
    <2> QED BY <2>1
  <1>3. CASE PoolStep \/ PoolExtra
    <2>1. open' = open
      BY <1>3 DEF PoolStep, PoolExtra, OtherThanPool
    <2>2. PICK u \in Deliveries :
            \/ PoolTakes(u) \/ PoolRefuses(u) \/ PoolEmits(u) \/ ProcessLost(u)
            \/ \E v \in Verdicts : PoolSettles(u, v)
      BY <1>3 DEF PoolStep, PoolExtra
    <2>3. CASE PoolTakes(u) \/ PoolRefuses(u)
      BY <2>3 DEF PoolTakes, PoolRefuses, TakeOffer, RefuseOffer
    <2>4. CASE PoolEmits(u)
      BY <1>0, <2>1, <2>4 DEF PoolEmits, contractVars, Drained
    <2>5. CASE ProcessLost(u) \/ \E v \in Verdicts : PoolSettles(u, v)
      <3>1. phase' = [phase EXCEPT ![u] = "settled"] /\ pc' = pc
        BY <2>5 DEF ProcessLost, PoolSettles, SettleWith, SettleTaken
      <3>2. phase[t] = "taken"
        BY <3>1 DEF Kept, InFlight, Offering
      <3> QED BY <1>0, <2>1, <3>1, <3>2 DEF Drained
    <2> QED BY <2>2, <2>3, <2>4, <2>5
  <1>4. CASE CloseStep
    <2>1. CASE ShutdownPool
      BY <1>0, <2>1 DEF ShutdownPool, Taken
    <2>2. CASE StopSignals \/ CloseHealth \/ CloseBus
      BY <1>0, <2>2 DEF StopSignals, CloseHealth, CloseBus, Closing, Drained
    <2>3. CASE Return \/ Restart
      BY <2>3 DEF Return, Restart, ProcessEnds
    <2> QED BY <1>4, <2>1, <2>2, <2>3 DEF CloseStep, DeferredStep
  <1>5. CASE Crash
    BY <1>5 DEF Crash, ProcessEnds
  <1>6. CASE BrokerStep \/ OthersPublish \/ ChannelCloses \/ Signal
              \/ ServeStops
              \/ UNCHANGED vars
    <2>1. UNCHANGED <<pc, open, phase>>
      BY <1>6 DEF BrokerStep, OthersPublish, ChannelCloses, OtherThanBroker,
                  Signal, ServeStops, contractVars, vars
    <2> QED BY <1>0, <2>1 DEF Drained
  <1> QED BY <1>1, <1>2, <1>3, <1>4, <1>5, <1>6 DEF EngineNext, RunStep, Idle

(* Only Bus.Close ends a channel that consumes without a fault.            *)
LEMMA ClosesBus ==
  ASSUME Kept, [EngineNext]_vars, chan = "consuming", chan' = "none"
  PROVE  CloseBus
  <1>1. CASE StartStep \/ StartFails
    <2>1. pc \in Starting
      BY <1>1 DEF StartStep, StartFails, Prepare, Dial, OpenChannel, Setup,
                  ConnectFails, ServeHealth, ServeFails, StartPool, Subscribe,
                  Starting
    <2> QED BY <2>1 DEF Kept, InFlight, Connected
  <1> QED
    BY <1>1 DEF EngineNext, RunStep, ConsumeStep, CloseStep, DeferredStep,
                ShutdownPool,
       StopSignals, CloseHealth, Return, Restart, PoolStep, PoolExtra,
       OtherThanPool, BrokerStep, Deliver, HandleFrame, NoticeDeath,
       OthersPublish, RouteMessage, ChannelCloses, Ends, OtherThanBroker,
       Signal, ServeStops, Crash, Idle, vars, Live

LEMMA CleanStep ==
  ASSUME Kept, Owed, Drained, [EngineNext]_vars, chan = "consuming",
         chan' = "none", ~HasTimeout, NEW t \in unacked
  PROVE  phase[t] \in {"new", "refused"}
  <1>1. /\ pc = "unwind" /\ defers # <<>> /\ Last(defers) = "bus"
        /\ frames = <<>>
    BY ClosesBus DEF CloseBus, Closing
  <1>2. "pool" \notin open
    BY <1>1, Fronts DEF Kept, InFlight, Opened, Unwinding
  <1>3. t \in Deliveries
    BY Tagged DEF Kept, InFlight
  <1>4. phase[t] # "taken" /\ phase[t] # "offered"
    BY <1>1, <1>2, <1>3 DEF Drained, Kept, InFlight, Offering
  <1>5. phase[t] \notin {"settled", "unseen", "gone"}
    BY <1>1, EmptySeq DEF Owed, Live
  <1> QED BY <1>3, <1>4, <1>5 DEF Kept, InFlight, Offering, AllPhases, Phases

(* A stop in good order hands back to the broker only what no handler has  *)
(* seen, for any pool without a timeout (engine.go:82-84, 122-125).        *)
THEOREM CleanExitAlways == EngineSpec => CleanExit
  <1> DEFINE Inv == Kept /\ Owed /\ Drained
  <1>1. EngineInit => Inv
    <2>1. EngineInit => Owed /\ Drained
      BY DEF EngineInit, Owed, Drained, Live
    <2> QED BY <2>1, KeptInit
  <1>2. Inv /\ [EngineNext]_vars => Inv'
    BY KeptStep, OwedStep, DrainedStep
  <1>3. Inv /\ [EngineNext]_vars =>
          [chan = "consuming" /\ chan' = "none" /\ ~HasTimeout =>
             \A t \in unacked : phase[t] \in {"new", "refused"}]_vars
    BY CleanStep
  <1> QED BY <1>1, <1>2, <1>3, PTL DEF EngineSpec, CleanExit

-----------------------------------------------------------------------------
(* The window fits the pool                                                *)

(* The window bounds what the broker waits for, and so what the engine     *)
(* holds, on whatever channel it came.                                     *)
HeldNow == {t \in Deliveries : Held(t)}
Windowed ==
  /\ Given
  /\ conf.window # 0 =>
       /\ Cardinality(unacked) <= conf.window
       /\ Cardinality(HeldNow) <= conf.window

LEMMA Countable ==
  ASSUME NEW S \in SUBSET Deliveries
  PROVE  /\ IsFiniteSet(S) /\ Cardinality(S) \in Nat
         /\ \A T \in SUBSET S : Cardinality(T) <= Cardinality(S)
  <1>1. IsFiniteSet(Deliveries)
    BY EngineAssumption, FS_Interval
  <1>2. IsFiniteSet(S)
    BY <1>1, FS_Subset
  <1> QED BY <1>2, FS_Subset, FS_CardinalityType

(* Only a delivery adds to what is waited for or held.                     *)
LEMMA OnlyDeliverAdds ==
  ASSUME Kept, [EngineNext]_vars, \A m \in Messages : ~Deliver(m)
  PROVE  unacked' \subseteq unacked /\ HeldNow' \subseteq HeldNow
  <1>1. CASE Rests
    BY <1>1 DEF Rests, HeldNow
  <1>2. CASE BrokerMoves /\ HandleFrame /\ HandleSettle(Head(frames))
    BY <1>2 DEF BrokerMoves, HandleFrame, HandleSettle, HeldNow, Held, Queued
  <1>3. CASE \E t \in Deliveries, v \in Verdicts : Tells(t, v)
    <2>1. unacked' = unacked
      BY <1>3 DEF Tells
    <2>2. \A t \in Deliveries : Held(t)' => Held(t)
      BY <1>3, HeldShrinks DEF Kept, InFlight
    <2> QED BY <2>1, <2>2 DEF HeldNow
  <1>4. CASE BrokerMoves
    BY <1>1, <1>2, <1>4, Resting DEF BrokerMoves, HandleFrame, Kept
  <1> QED BY <1>1, <1>3, <1>4, StepKinds, Resting DEF Kept

(* The window is the product of the sizes where basic.qos can say it.      *)
LEMMA WindowIsCapacity ==
  ASSUME NEW w, \A k \in Numbers : Params(w)[k] \in Int
  PROVE  /\ Window(w) \in 0 .. 2 ^ 16 - 1 /\ Window(w) \in Nat
         /\ Capacity(w) > 0
         /\ Params(w).pool > 0 /\ Params(w).cap > 0 /\ Capacity(w) < 2 ^ 16
              => Window(w) = Capacity(w)
  <1> DEFINE p == Params(w)["pool"]
             c == Params(w)["cap"]
             N == 2 ^ 16
  <1>1. p \in Int /\ c \in Int
    BY DEF Numbers
  <1>2. N \in Nat /\ N > 0
    BY SMT
  <1>3. /\ Window(w) = AtLeastOne(p * c) % N
        /\ Capacity(w) = AtLeastOne(p) * AtLeastOne(c)
    BY DEF Window, Capacity
  <1> HIDE DEF N, p, c
  <1>4. p * c \in Int /\ AtLeastOne(p * c) \in Int
    BY <1>1 DEF AtLeastOne
  <1>5. Window(w) \in Nat /\ Window(w) \in 0 .. N - 1
    BY <1>2, <1>3, <1>4
  <1>6. Capacity(w) > 0
    <2>1. \A a, b \in Int : a >= 1 /\ b >= 1 => a * b > 0
      OBVIOUS
    <2>2. /\ AtLeastOne(p) \in Int /\ AtLeastOne(p) >= 1
          /\ AtLeastOne(c) \in Int /\ AtLeastOne(c) >= 1
      BY <1>1 DEF AtLeastOne
    <2> QED BY <1>3, <2>1, <2>2
  <1>7. ASSUME p > 0, c > 0, Capacity(w) < N
        PROVE  Window(w) = Capacity(w)
    <2>1. AtLeastOne(p) = p /\ AtLeastOne(c) = c
      BY <1>1, <1>7 DEF AtLeastOne
    <2>2. p * c >= 1
      BY <1>1, <1>7
    <2>3. AtLeastOne(p * c) = p * c
      BY <1>4, <2>2 DEF AtLeastOne
    <2>4. p * c < N
      BY <1>3, <1>7, <2>1
    <2>5. (p * c) % N = p * c
      BY <1>2, <1>4, <2>2, <2>4
    <2> QED BY <1>3, <2>1, <2>3, <2>5
  <1> QED BY <1>5, <1>6, <1>7 DEF N, p, c

LEMMA WindowedStep ==
  ASSUME Kept, Windowed, [EngineNext]_vars
  PROVE  Windowed'
  <1>1. Given'
    BY GivenStep DEF Windowed
  <1>2. Kept'
    BY KeptStep
  <1>3. /\ unacked \subseteq Deliveries /\ unacked' \subseteq Deliveries
        /\ HeldNow \subseteq Deliveries /\ HeldNow' \subseteq Deliveries
    <2>1. unacked \subseteq Deliveries
      BY Tagged DEF Kept, InFlight
    <2>2. unacked' \subseteq 1 .. Len(carried') /\ Len(carried') \in Nat
          /\ Len(carried') <= Cardinality(Deliveries)
      BY <1>2, LenProperties DEF Kept, InFlight, Flight, Flows
    <2>3. unacked' \subseteq Deliveries
      BY <2>2, EngineAssumption
    <2> QED BY <2>1, <2>3 DEF HeldNow
  <1>4. conf.window \in Nat /\ conf'.window \in Nat
    BY <1>1, WindowIsCapacity DEF Windowed, Given, Configured
  (* Between two lives nothing is out and nothing held.                    *)
  <1>9. CASE Restart
    <2>1. unacked' = {}
      BY <1>9 DEF Restart, Kept, Quiescent
    <2>2. HeldNow' = {}
      <3>1. buffer' = <<>> /\ phase' = phase
            /\ \A t \in Deliveries : phase[t] \notin {"offered", "taken"}
        BY <1>9 DEF Restart, Kept, InFlight, Connected, Starting
      <3> QED BY <3>1, EmptySeq DEF HeldNow, Held, Queued
    <2> QED BY <1>1, <1>4, <2>1, <2>2, FS_EmptySet DEF Windowed
  <1>5. SUFFICES ASSUME ~Restart, conf.window # 0
                 PROVE  /\ Cardinality(unacked') <= conf.window
                        /\ Cardinality(HeldNow') <= conf.window
    BY <1>1, <1>9, Fixed DEF Windowed, startVars
  <1>6. /\ Cardinality(unacked) <= conf.window
        /\ Cardinality(HeldNow) <= conf.window
        /\ Cardinality(unacked) \in Nat /\ Cardinality(HeldNow) \in Nat
        /\ Cardinality(unacked') \in Nat /\ Cardinality(HeldNow') \in Nat
    BY <1>3, <1>5, Countable DEF Windowed
  <1>7. ASSUME NEW m \in Messages, Deliver(m)
        PROVE  /\ Cardinality(unacked') <= conf.window
               /\ Cardinality(HeldNow') <= conf.window
    <2>1. /\ Cardinality(unacked) < conf.window /\ chan' = "consuming"
          /\ unacked' = unacked \cup {Len(carried) + 1}
      BY <1>5, <1>7 DEF Deliver
    <2>2. Cardinality(unacked') <= Cardinality(unacked) + 1
      BY <1>3, <1>6, <2>1, Countable, FS_AddElement
    <2>3. HeldNow' \subseteq unacked'
      BY <1>2, <2>1 DEF Kept, InFlight, Flight, Holding, HeldNow, Live
    <2>4. Cardinality(HeldNow') <= Cardinality(unacked')
      BY <1>3, <2>3, Countable
    <2> QED BY <1>4, <1>6, <2>1, <2>2, <2>4
  <1>8. CASE \A m \in Messages : ~Deliver(m)
    <2>1. /\ Cardinality(unacked') <= Cardinality(unacked)
          /\ Cardinality(HeldNow') <= Cardinality(HeldNow)
      BY <1>3, <1>8, OnlyDeliverAdds, Countable
    <2> QED BY <1>4, <1>6, <2>1
  <1> QED BY <1>7, <1>8

LEMMA WindowedInit == EngineInit => Windowed
  <1> SUFFICES ASSUME EngineInit PROVE Windowed
    OBVIOUS
  <1>1. Given
    BY GivenInit
  <1>2. conf.window \in Nat
    BY <1>1, WindowIsCapacity DEF Given, Configured
  <1>3. unacked = {} /\ HeldNow = {}
    BY EmptySeq DEF EngineInit, ContractInit, HeldNow, Held, Queued
  <1> QED BY <1>1, <1>2, <1>3, FS_EmptySet DEF Windowed

(* Dispatch never waits for a slot while the sizes are at least one and    *)
(* fit the 16 bits of basic.qos (engine/config.go:39-40).                  *)
THEOREM OfferFitsAlways == EngineSpec => []OfferFits
  <1> DEFINE Inv == Kept /\ Windowed
  <1>1. EngineInit => Inv
    BY KeptInit, WindowedInit
  <1>2. Inv /\ [EngineNext]_vars => Inv'
    BY KeptStep, WindowedStep
  <1>3. Inv => OfferFits
    <2> SUFFICES ASSUME Inv, NEW t \in Deliveries, phase[t] = "offered",
                        Params(world).pool > 0, Params(world).cap > 0,
                        conf.capacity < 2 ^ 16
                 PROVE  Cardinality(Taken) < conf.capacity
      BY DEF OfferFits
    <2>1. /\ conf.window = Window(world) /\ conf.capacity = Capacity(world)
          /\ \A k \in Numbers : Params(world)[k] \in Int
      BY DEF Windowed, Given, Configured
    <2>2. conf.window = conf.capacity /\ conf.window # 0 /\ conf.window \in Nat
      BY <2>1, WindowIsCapacity
    <2>3. /\ Taken \cup {t} \subseteq HeldNow /\ t \notin Taken
          /\ Taken \subseteq Deliveries /\ HeldNow \subseteq Deliveries
      BY DEF Taken, HeldNow, Held
    <2>4. Cardinality(Taken) + 1 <= Cardinality(HeldNow)
      <3>1. Cardinality(Taken \cup {t}) = Cardinality(Taken) + 1
        BY <2>3, Countable, FS_AddElement
      <3> QED BY <2>3, <3>1, Countable
    <2>5. Cardinality(HeldNow) <= conf.window
      BY <2>2 DEF Windowed
    <2>6. Cardinality(Taken) \in Nat /\ Cardinality(HeldNow) \in Nat
      BY <2>3, Countable
    <2> QED BY <2>2, <2>4, <2>5, <2>6
  <1> QED BY <1>1, <1>2, <1>3, PTL DEF EngineSpec

-----------------------------------------------------------------------------
(* What the queue is bound to, and the types                               *)

(* What is bound was an input of this life or of one before; once Setup    *)
(* has run, the inputs of this life are.                                   *)
SetUp == {"health", "pool", "inputs", "select", "dispatch"}
Bindings ==
  /\ bound \subseteq told
  /\ pc # "down" => conf.inputs \subseteq told
  /\ pc \in SetUp => conf.inputs \subseteq bound

LEMMA BindingsStep ==
  ASSUME Kept, Bindings, [EngineNext]_vars
  PROVE  Bindings'
  <1>1. CASE Restart
    <2>1. conf'.inputs \subseteq told' /\ told \subseteq told'
      BY <1>1 DEF Restart, Configured, BusInputs, BriefedInputs
    <2>2. ~(StartStep \/ StartFails) /\ pc' \notin SetUp
      <3>1. pc = "down" /\ pc' = "start"
        BY <1>1 DEF Restart, Goes
      <3> QED
        BY <3>1 DEF SetUp, StartStep, StartFails, Prepare, Dial, OpenChannel,
           Setup, ConnectFails, ServeHealth, ServeFails, StartPool, Subscribe
    <2>3. bound' = bound
      BY <2>2 DEF EngineNext, RunStep, ConsumeStep, CloseStep, PoolStep,
         PoolExtra, OtherThanPool, BrokerStep, OthersPublish, ChannelCloses,
         OtherThanBroker, Signal, ServeStops, Crash, Idle, vars
    <2> QED BY <2>1, <2>2, <2>3 DEF Bindings
  <1> SUFFICES ASSUME ~Restart PROVE Bindings'
    BY <1>1
  <1>0. conf' = conf /\ told' = told
    BY Fixed DEF startVars
  <1>2. CASE StartStep \/ StartFails
    <2>1. CASE Setup
      BY <1>0, <2>1 DEF Setup, Goes, SetUp, Bindings
    <2>2. CASE ConnectFails
      BY <1>0, <2>2 DEF ConnectFails, Goes, SetUp, Bindings
    <2>3. CASE Prepare \/ Dial \/ OpenChannel
      BY <1>0, <2>3 DEF Prepare, Dial, OpenChannel, Goes, SetUp, Bindings
    <2>4. CASE ServeHealth \/ ServeFails \/ StartPool \/ Subscribe
      BY <1>0, <2>4 DEF ServeHealth, ServeFails, StartPool, Subscribe, Goes,
                        SetUp, Bindings
    <2> QED BY <1>2, <2>1, <2>2, <2>3, <2>4 DEF StartStep, StartFails
  <1>3. CASE ~(StartStep \/ StartFails)
    <2>1. bound' = bound
      BY <1>3 DEF EngineNext, RunStep, ConsumeStep, CloseStep, DeferredStep,
                  PoolStep,
         PoolExtra, OtherThanPool, BrokerStep, OthersPublish, ChannelCloses,
         OtherThanBroker, Signal, ServeStops, Crash, Idle, vars
    <2>2. /\ pc' \in SetUp => pc \in SetUp
          /\ pc = "down" => pc' = "down"
      <3>1. CASE ConsumeStep
        BY <3>1 DEF ConsumeStep, Receive, CtxEnds, SeesClosed, Goes, SetUp
      <3>2. CASE PoolStep \/ PoolExtra
        BY <3>2 DEF PoolStep, PoolExtra, PoolTakes, PoolRefuses, PoolSettles,
                    PoolEmits, ProcessLost, Take, Refuse, Goes, SetUp, Kept,
                    InFlight, Offering, TakeOffer, RefuseOffer, SettleTaken
      <3>3. CASE CloseStep \/ Crash
        BY <3>3 DEF CloseStep, DeferredStep, ShutdownPool, StopSignals,
           CloseHealth, CloseBus, Closing, Return, Crash, ProcessEnds, Goes,
           SetUp
      <3>4. CASE BrokerStep \/ OthersPublish \/ ChannelCloses \/ Signal
                   \/ ServeStops \/ UNCHANGED vars
        BY <3>4 DEF BrokerStep, OthersPublish, ChannelCloses, OtherThanBroker,
           Signal, ServeStops, vars
      <3> QED BY <1>3, <3>1, <3>2, <3>3, <3>4 DEF EngineNext, RunStep, Idle
    <2> QED BY <1>0, <2>1, <2>2 DEF Bindings
  <1> QED BY <1>2, <1>3

(* While the engine consumes, the queue is bound to all its handlers were  *)
(* told are their inputs, and to nothing that no life's handlers were told *)
(* of, whatever settings the lives were started with and whatever starts   *)
(* failed half-way (engine/config.go:41-88, bus.go:108-123).               *)
THEOREM BoundAsBriefedAlways == EngineSpec => []BoundAsBriefed
  <1> DEFINE Inv == Kept /\ Windowed /\ Bindings
  <1>1. EngineInit => Inv
    <2>1. EngineInit => Bindings
      BY DEF EngineInit, Bindings, SetUp
    <2> QED BY <2>1, KeptInit, WindowedInit
  <1>2. Inv /\ [EngineNext]_vars => Inv'
    BY KeptStep, WindowedStep, BindingsStep
  <1>3. Inv => BoundAsBriefed
    BY DEF Bindings, Windowed, Given, Configured, BusInputs, BriefedInputs,
           SetUp, BoundAsBriefed
  <1> QED BY <1>1, <1>2, <1>3, PTL DEF EngineSpec

(* The records that only count or remember.                                *)
Typed ==
  /\ ctxDone \in BOOLEAN /\ mute \in BOOLEAN /\ faults \in Nat
  /\ sent \subseteq Messages /\ DOMAIN kind \subseteq Messages
  /\ arrived \subseteq emitted
  /\ \A i \in 1 .. Len(frames), t \in Deliveries : EmitAt(i, t) => t \in emitted

LEMMA TypedRecords ==
  ASSUME Kept, Typed, [EngineNext]_vars
  PROVE  /\ ctxDone' \in BOOLEAN /\ mute' \in BOOLEAN /\ faults' \in Nat
         /\ sent' \subseteq Messages /\ DOMAIN kind' \subseteq Messages
  <1>0. Fault \/ faults' = faults => faults' \in Nat
    BY DEF Fault, Typed
  <1>1. CASE StartStep \/ StartFails
    BY <1>0, <1>1 DEF StartStep, StartFails, OtherThanStart, fixedVars,
                      startVars, Typed
  <1>2. CASE ConsumeStep
    BY <1>2 DEF ConsumeStep, fixedVars, startVars, Typed
  <1>3. CASE CloseStep
    BY <1>3 DEF CloseStep, DeferredStep, ShutdownPool, StopSignals,
                CloseHealth, CloseBus,
                Return, Restart, ProcessEnds, fixedVars, startVars, Typed
  <1>4. CASE PoolStep \/ PoolExtra
    <2>1. faults' \in Nat
      <3>1. CASE PoolStep
        BY <1>0, <3>1 DEF PoolStep, PoolTakes, PoolRefuses, PoolSettles,
                          TakeOffer, RefuseOffer, SettleTaken
      <3>2. CASE PoolExtra
        BY <1>0, <3>2 DEF PoolExtra, PoolEmits, ProcessLost, SettleTaken
      <3> QED BY <1>4, <3>1, <3>2
    <2> QED BY <1>4, <2>1 DEF PoolStep, PoolExtra, OtherThanPool, fixedVars,
                              startVars, Typed
  <1>5. CASE BrokerStep \/ ChannelCloses
    BY <1>0, <1>5 DEF BrokerStep, ChannelCloses, OtherThanBroker, Deliver,
                HandleFrame, NoticeDeath, Ends, fixedVars, startVars, Typed
  <1>6. CASE OthersPublish
    BY <1>6 DEF OthersPublish, RouteMessage, OtherThanBroker, fixedVars,
                startVars, Typed
  <1>7. CASE Signal \/ ServeStops \/ Crash
    <2>1. ctxDone' \in BOOLEAN /\ mute' \in BOOLEAN
      BY <1>7 DEF Signal, ServeStops, Crash, ProcessEnds, fixedVars, Typed
    <2>2. UNCHANGED <<sent, kind>> /\ Fault
      BY <1>7 DEF Signal, ServeStops, Crash, fixedVars, startVars
    <2> QED BY <1>0, <2>1, <2>2 DEF Typed
  <1>8. CASE UNCHANGED vars
    BY <1>8 DEF vars, fixedVars, startVars, Typed
  <1> QED
    BY <1>1, <1>2, <1>3, <1>4, <1>5, <1>6, <1>7, <1>8
       DEF EngineNext, RunStep, Idle

LEMMA TypedEmits ==
  ASSUME Kept, Typed, [EngineNext]_vars
  PROVE  /\ arrived' \subseteq emitted'
         /\ \A i \in 1 .. Len(frames'), t \in Deliveries :
              EmitAt(i, t)' => t \in emitted'
  <1>0. Flows /\ Flight /\ Offering
    BY DEF Kept, InFlight, Flight
  <1>1. CASE Quiet
    BY <1>1 DEF Quiet, Typed, EmitAt
  <1>2. CASE HandsOver
    BY <1>2 DEF HandsOver, Admitted, Typed, EmitAt
  <1>3. ASSUME NEW u \in Deliveries, NEW f \in Frame, Write(f),
               arrived' = arrived, emitted \subseteq emitted',
               f.k = "emit" => f.t \in emitted'
        PROVE  /\ arrived' \subseteq emitted'
               /\ \A i \in 1 .. Len(frames'), t \in Deliveries :
                    EmitAt(i, t)' => t \in emitted'
    <2>1. ASSUME NEW i \in 1 .. Len(frames'), NEW t \in Deliveries, EmitAt(i, t)'
          PROVE  t \in emitted'
      <3>1. frames'[i] = f \/ (i \in 1 .. Len(frames) /\ frames'[i] = frames[i])
        BY <1>0, <1>3, Written
      <3> QED BY <1>3, <2>1, <3>1 DEF EmitAt, Typed
    <2> QED BY <1>3, <2>1 DEF Typed
  <1>4. CASE \E t \in Deliveries, v \in Verdicts : Tells(t, v)
    <2>1. PICK t \in Deliveries, v \in Verdicts : Tells(t, v)
      BY <1>4
    <2>2. [k |-> "settle", t |-> t, v |-> v] \in Frame
      BY DEF Frame
    <2>3. Write([k |-> "settle", t |-> t, v |-> v])
          /\ UNCHANGED <<arrived, emitted>>
      BY <2>1 DEF Tells, Settle
    <2> QED BY <1>3, <2>2, <2>3
  <1>5. CASE \E t \in Deliveries : PoolEmits(t) /\ OtherThanPool
    <2>1. PICK t \in Deliveries : PoolEmits(t) /\ OtherThanPool
      BY <1>5
    <2>2. [k |-> "emit", t |-> t] \in Frame
      BY DEF Frame
    <2>3. Write([k |-> "emit", t |-> t]) /\ arrived' = arrived
          /\ emitted' = emitted \cup {t}
      BY <2>1 DEF PoolEmits, OtherThanPool
    <2> QED BY <1>3, <2>2, <2>3
  <1>6. CASE BrokerMoves
    <2>0. emitted' = emitted
      BY <1>6 DEF BrokerMoves
    <2>1. CASE \E m \in Messages : Deliver(m)
      BY <2>0, <2>1 DEF Deliver, Typed, EmitAt
    <2>2. CASE HandleFrame
      <3>1. /\ frames # <<>> /\ Len(frames) \in Nat
            /\ Head(frames) = frames[1] /\ 1 \in 1 .. Len(frames)
            /\ Head(frames) \in Frame
            /\ Len(frames') = Len(frames) - 1
            /\ \A i \in 1 .. Len(frames') : frames'[i] = frames[i + 1]
        BY <1>0, <2>2, HeadTailProperties, LenProperties, EmptySeq
           DEF HandleFrame, Flows
      <3>2. \A i \in 1 .. Len(frames') : i + 1 \in 1 .. Len(frames)
        BY <3>1
      <3>3. \A i \in 1 .. Len(frames'), t \in Deliveries :
              EmitAt(i, t)' => t \in emitted'
        BY <2>0, <3>1, <3>2 DEF Typed, EmitAt
      <3>4. CASE HandleEmit(Head(frames))
        <4>1. EmitAt(1, Head(frames).t) /\ Head(frames).t \in Deliveries
          BY <3>1, <3>4 DEF HandleEmit, EmitAt, Frame
        <4>2. arrived' = arrived \cup {Head(frames).t}
          BY <3>4 DEF HandleEmit
        <4> QED BY <2>0, <3>1, <3>3, <4>1, <4>2 DEF Typed
      <3>5. CASE HandleSettle(Head(frames))
        BY <2>0, <3>3, <3>5 DEF HandleSettle, Typed
      <3> QED BY <2>2, <3>4, <3>5 DEF HandleFrame
    <2>3. CASE \E to \in {"none", "closed"} : Ends(to)
      BY <2>0, <2>3, EmptySeq DEF Ends, Typed
    <2> QED BY <1>6, <2>1, <2>2, <2>3 DEF BrokerMoves
  <1> QED BY <1>1, <1>2, <1>4, <1>5, <1>6, StepKinds DEF Kept

(* Type correctness of Run's locals, the channel and the broker's records  *)
(* (engine.go:32-109, bus.go:58-68, 111-117, engine/config.go:41-78).      *)
THEOREM EngineTypes == EngineSpec => []EngineTypeOK
  <1> DEFINE Inv == Kept /\ Windowed /\ Bindings /\ Typed
  <1>1. EngineInit => Inv
    <2> SUFFICES ASSUME EngineInit PROVE Bindings /\ Typed
      BY KeptInit, WindowedInit
    <2>1. /\ faults \in Nat /\ DOMAIN kind \subseteq Messages
      <3>1. PICK s \in Scenarios : kind = s.kind /\ faults = s.faults
        BY DEF EngineInit
      <3>2. s.faults \in Nat /\ \E M \in SUBSET Messages : s.kind \in [M -> Kinds]
        BY EngineAssumption DEF Scenario
      <3> QED BY <3>1, <3>2
    <2>2. /\ ctxDone = FALSE /\ sent = {} /\ arrived = {} /\ frames = <<>>
          /\ bound = {} /\ pc = "down" /\ mute = FALSE
      BY DEF EngineInit
    <2>3. Bindings
      BY <2>2 DEF Bindings, SetUp
    <2>4. Typed
      <3>1. 1 .. Len(frames) = {}
        BY <2>2, EmptySeq
      <3> QED BY <2>1, <2>2, <3>1 DEF Typed
    <2> QED BY <2>3, <2>4
  <1>2. Inv /\ [EngineNext]_vars => Inv'
    <2> SUFFICES ASSUME Inv, [EngineNext]_vars PROVE Inv'
      OBVIOUS
    <2>1. Typed'
      BY TypedRecords, TypedEmits DEF Typed
    <2> QED BY <2>1, KeptStep, WindowedStep, BindingsStep
  <1>3. Inv => EngineTypeOK
    <2> SUFFICES ASSUME Inv PROVE EngineTypeOK
      OBVIOUS
    <2>1. pc \in Stages /\ open \subseteq Resources
      BY DEF Kept, InFlight, Opened, Unwinding, Stages, Resources
    <2>2. defers \in Seq(Resources \cup {"bus"})
      <3>1. \/ defers = <<>> \/ defers = <<"bus">> \/ defers = <<"bus", "health">>
            \/ defers = <<"bus", "health", "signal">>
            \/ defers = <<"bus", "health", "signal", "pool">>
        BY DEF Kept, InFlight, Opened, Unwinding
      <3> DEFINE R == Resources \cup {"bus"}
      <3>2. "bus" \in R /\ "health" \in R /\ "signal" \in R /\ "pool" \in R
        BY DEF Resources
      <3> HIDE DEF R
      <3>3. /\ <<>> \in Seq(R) /\ <<"bus">> \in Seq(R)
            /\ <<"bus", "health">> \in Seq(R)
            /\ <<"bus", "health", "signal">> \in Seq(R)
            /\ <<"bus", "health", "signal", "pool">> \in Seq(R)
        BY <3>2
      <3> QED BY <3>1, <3>3 DEF R
    <2>3. chan \in {"none", "closed", "dying"} \cup Live
      BY DEF Kept, Quiescent, Live
    <2>4. conf.window \in 0 .. 2 ^ 16 - 1 /\ conf.capacity > 0
      BY WindowIsCapacity DEF Windowed, Given, Configured
    <2>5. /\ DOMAIN carried = 1 .. Len(carried)
          /\ unacked \subseteq DOMAIN carried
      BY Tagged DEF Kept, InFlight
    <2>6. emitted \subseteq DOMAIN carried
      <3>1. \A t \in Deliveries : t \in Int /\ t >= 1
        BY EngineAssumption
      <3>2. \A t \in emitted : t \in Deliveries /\ ~(t > Len(carried))
        BY DEF Kept, InFlight, Flight, Flows, Fresh
      <3>3. Len(carried) \in Nat
        BY Tagged DEF Kept, InFlight
      <3> QED BY <2>5, <3>1, <3>2, <3>3
    <2>7. /\ buffer \in Seq(Deliveries) /\ frames \in Seq(Frame)
          /\ carried \in Seq(Messages) /\ Len(carried) <= Cardinality(Deliveries)
          /\ settled \in [Deliveries -> Verdicts \cup {"no"}]
          /\ phase \in [Deliveries -> Phases \cup {"unseen", "gone"}]
          /\ calls \in [Deliveries -> Seq(Verdicts)]
      BY DEF Kept, InFlight, Flight, Flows, Offering, AllPhases, Known, Heard
    <2> QED BY <2>1, <2>2, <2>3, <2>4, <2>5, <2>6, <2>7
            DEF EngineTypeOK, Bindings, Typed
  <1> QED BY <1>1, <1>2, <1>3, PTL DEF EngineSpec

-----------------------------------------------------------------------------
(* The layers of the configuration.  The arguments are folds over lists;   *)
(* what they compute for every list is an induction over its prefixes.     *)

Below == {ss \in Nat \X Nat : ss[1] < ss[2]}
LEMMA BelowWellFounded == IsWellFoundedOn(Below, Nat)
  <1>1. OpToRel(<, Nat) = Below
    BY Zenon DEF OpToRel, Below
  <1> QED BY <1>1, NatLessThanWellFounded, Zenon

LEMMA LeastOf ==
  ASSUME NEW T, T \subseteq Nat, T # {}
  PROVE  \E x \in T : \A y \in T : x <= y
  <1>1. PICK x \in T : \A y \in T : ~ (<<y, x>> \in Below)
    BY BelowWellFounded, WFMin, Zenon
  <1>2. \A y \in T : x \in Nat /\ y \in Nat /\ ~(y < x)
    BY <1>1 DEF Below
  <1> QED BY <1>2

LEMMA MaxOf ==
  ASSUME NEW n \in Nat, NEW T \in SUBSET (1 .. n), T # {}
  PROVE  Max(T) \in T /\ \A y \in T : y <= Max(T)
  <1> DEFINE D == {n - i : i \in T}
  <1>1. /\ \A i \in T : n - i \in Nat
        /\ D \subseteq Nat /\ D # {}
    <2>1. \A i \in 1 .. n : n - i \in Nat
      OBVIOUS
    <2> QED BY <2>1
  <1>2. PICK d \in D : \A e \in D : d <= e
    BY <1>1, LeastOf
  <1>3. PICK x \in T : d = n - x
    BY <1>2
  <1>4. \A y \in T : x >= y
    <2> TAKE y \in T
    <2>1. n - y \in D
      OBVIOUS
    <2> QED BY <1>2, <1>3, <2>1
  <1>5. \E m \in T : \A y \in T : m >= y
    BY <1>4
  <1>6. Max(T) \in T /\ \A y \in T : Max(T) >= y
    BY <1>5, Zenon DEF Max
  <1> QED BY <1>6

(* it is the loop over the entries of s that puts value[i] under the name  *)
(* of s[i], over base.                                                     *)
Loops(it, s, value, base) ==
  it = [S \in SUBSET (DOMAIN s) |->
          IF S = {} THEN base
          ELSE Put(it[S \ {Max(S)}], s[Max(S)].name, value[Max(S)])]

(* The entries of s among S that have the name x; the names of all of S.   *)
At(s, S, x) == {i \in S : s[i].name = x}
Named(s, S) == {s[i].name : i \in S}

(* What the loop computes: the last entry of a name wins.                  *)
Overlay(s, S, value, base) ==
  IF S = {} THEN base
  ELSE [x \in Named(s, S) \cup DOMAIN base |->
          IF x \in Named(s, S) THEN value[Max(At(s, S, x))] ELSE base[x]]

Indices(S, n) == n \in Nat /\ S \in SUBSET (1 .. n) /\ S # {}

LEMMA OverlayStep ==
  ASSUME NEW n, NEW s, NEW value, NEW base, NEW S, Indices(S, n)
  PROVE  Overlay(s, S, value, base) =
           Put(Overlay(s, S \ {Max(S)}, value, base),
               s[Max(S)].name, value[Max(S)])
  <1> USE DEF Indices
  <1> DEFINE m == Max(S)
             R == S \ {m}
             f == Overlay(s, R, value, base)
  <1>1. m \in S /\ m \in Nat /\ \A i \in S : i <= m /\ i \in Nat
    <2>1. m \in S /\ \A i \in S : i <= m
      BY MaxOf
    <2>2. \A i \in S : i \in Nat
      OBVIOUS
    <2> QED BY <2>1, <2>2
  <1> HIDE DEF m
  <1>2. Named(s, S) = Named(s, R) \cup {s[m].name}
    BY <1>1 DEF Named
  <1>3. DOMAIN f = Named(s, R) \cup DOMAIN base
    BY DEF Overlay, Named
  <1>4. Max(At(s, S, s[m].name)) = m
    <2>1. At(s, S, s[m].name) \in SUBSET (1 .. n) /\ m \in At(s, S, s[m].name)
      BY <1>1 DEF At
    <2>2. At(s, S, s[m].name) # {}
      BY <2>1
    <2> HIDE DEF R, f
    <2>3. /\ Max(At(s, S, s[m].name)) \in At(s, S, s[m].name)
          /\ m <= Max(At(s, S, s[m].name))
      BY <2>1, <2>2, MaxOf
    <2>4. Max(At(s, S, s[m].name)) \in S
      BY <2>3 DEF At
    <2>5. Max(At(s, S, s[m].name)) <= m /\ Max(At(s, S, s[m].name)) \in Nat
      BY <1>1, <2>4
    <2> QED BY <1>1, <2>3, <2>5
  <1>5. ASSUME NEW x, x # s[m].name
        PROVE  At(s, S, x) = At(s, R, x)
    BY <1>5 DEF At
  <1>6. ASSUME NEW x \in Named(s, R) \cup DOMAIN base, x # s[m].name
        PROVE  f[x] = IF x \in Named(s, S) THEN value[Max(At(s, S, x))]
                                           ELSE base[x]
    <2>1. x \in Named(s, S) <=> x \in Named(s, R)
      BY <1>2, <1>6
    <2>2. R = {} => Named(s, R) = {}
      BY DEF Named
    <2> QED BY <1>5, <1>6, <2>1, <2>2 DEF Overlay
  <1> HIDE DEF f, R
  <1>8. Overlay(s, S, value, base) =
          [x \in Named(s, S) \cup DOMAIN base |->
             IF x \in Named(s, S) THEN value[Max(At(s, S, x))] ELSE base[x]]
    BY DEF Overlay
  <1>9. Overlay(s, S, value, base) = Put(f, s[m].name, value[m])
    <2>1. DOMAIN f \cup {s[m].name} = Named(s, S) \cup DOMAIN base
      BY <1>2, <1>3
    <2>2. ASSUME NEW x \in Named(s, S) \cup DOMAIN base
          PROVE  (IF x \in Named(s, S) THEN value[Max(At(s, S, x))] ELSE base[x])
                   = (IF x = s[m].name THEN value[m] ELSE f[x])
      BY <1>2, <1>4, <1>6
    <2> QED BY <1>8, <2>1, <2>2 DEF Put
  <1> QED BY <1>9 DEF m, f, R

LEMMA LoopExists ==
  ASSUME NEW n \in Nat, NEW s, DOMAIN s = 1 .. n, NEW value, NEW base
  PROVE  \E it : Loops(it, s, value, base)
  <1> DEFINE h == [S \in SUBSET (1 .. n) |-> Overlay(s, S, value, base)]
  <1>1. ASSUME NEW S \in SUBSET (1 .. n)
        PROVE  h[S] = IF S = {} THEN base
                      ELSE Put(h[S \ {Max(S)}], s[Max(S)].name, value[Max(S)])
    <2>1. CASE S = {}
      BY <2>1 DEF Overlay
    <2>2. CASE S # {}
      <3>1. S \ {Max(S)} \in SUBSET (1 .. n)
        OBVIOUS
      <3>2. Indices(S, n)
        BY <2>2 DEF Indices
      <3>3. Overlay(s, S, value, base) =
              Put(Overlay(s, S \ {Max(S)}, value, base),
                  s[Max(S)].name, value[Max(S)])
        BY <3>2, OverlayStep, SMT
      <3>4. h[S] = Overlay(s, S, value, base)
        OBVIOUS
      <3>5. h[S \ {Max(S)}] = Overlay(s, S \ {Max(S)}, value, base)
        BY <3>1
      <3> QED BY <2>2, <3>3, <3>4, <3>5
    <2> QED BY <2>1, <2>2
  <1> HIDE DEF h
  <1>2. h = [S \in SUBSET (1 .. n) |-> h[S]]
    BY DEF h
  <1>3. Loops(h, s, value, base)
    BY <1>1, <1>2 DEF Loops
  <1> QED BY <1>3

(* Induction over the prefixes of the list.                                *)
LEMMA LoopIs ==
  ASSUME NEW n \in Nat, NEW s, DOMAIN s = 1 .. n, NEW value, NEW base,
         NEW it, Loops(it, s, value, base)
  PROVE  it[1 .. n] = Overlay(s, 1 .. n, value, base)
  <1> DEFINE Wrong == {k \in 0 .. n : it[1 .. k] # Overlay(s, 1 .. k, value, base)}
  <1>1. SUFFICES ASSUME Wrong # {} PROVE FALSE
    OBVIOUS
  <1>2. PICK k \in Wrong : \A j \in Wrong : k <= j
    <2>1. Wrong \subseteq Nat
      OBVIOUS
    <2> QED BY <1>1, <2>1, LeastOf
  <1>3. \A S \in SUBSET (1 .. n) :
          it[S] = IF S = {} THEN base
                  ELSE Put(it[S \ {Max(S)}], s[Max(S)].name, value[Max(S)])
    BY DEF Loops
  <1>4. k \in 1 .. n
    <2>1. it[1 .. 0] = Overlay(s, 1 .. 0, value, base)
      <3>1. 1 .. 0 = {}
        OBVIOUS
      <3> QED BY <1>3, <3>1 DEF Overlay
    <2> QED BY <1>2, <2>1
  <1> HIDE DEF Wrong
  <1>5. Max(1 .. k) = k
    <2>1. k \in 1 .. k /\ 1 .. k # {} /\ 1 .. k \in SUBSET (1 .. k) /\ k \in Nat
      <3>1. k \in Nat /\ k \in 1 .. k
        BY <1>4
      <3> QED BY <3>1
    <2>2. Max(1 .. k) \in 1 .. k /\ \A y \in 1 .. k : y <= Max(1 .. k)
      BY <2>1, MaxOf
    <2> QED BY <1>4, <2>1, <2>2
  <1>6. (1 .. k) \ {k} = 1 .. (k - 1) /\ 1 .. k # {} /\ 1 .. k \in SUBSET (1 .. n)
    <2>1. (1 .. k) \ {k} = 1 .. (k - 1)
      BY <1>4
    <2>2. 1 .. k # {}
      BY <1>4
    <2>3. 1 .. k \subseteq 1 .. n
      BY <1>4
    <2> QED BY <2>1, <2>2, <2>3
  <1>7. it[1 .. (k - 1)] = Overlay(s, 1 .. (k - 1), value, base)
    BY <1>2, <1>4 DEF Wrong
  <1>8. it[1 .. k] = Put(it[1 .. (k - 1)], s[k].name, value[k])
    BY <1>3, <1>5, <1>6
  <1>9. Overlay(s, 1 .. k, value, base) =
          Put(Overlay(s, 1 .. (k - 1), value, base), s[k].name, value[k])
    <2> DEFINE S == 1 .. k
    <2>1. S \in SUBSET (1 .. n) /\ S # {} /\ Max(S) = k /\ S \ {k} = 1 .. (k - 1)
      BY <1>5, <1>6
    <2> HIDE DEF S
    <2>2. Indices(S, n)
      BY <2>1 DEF Indices
    <2>3. Overlay(s, S, value, base) =
            Put(Overlay(s, S \ {Max(S)}, value, base),
                s[Max(S)].name, value[Max(S)])
      BY <2>2, OverlayStep, SMT
    <2> QED BY <2>1, <2>3 DEF S
  <1> QED BY <1>2, <1>7, <1>8, <1>9 DEF Wrong

(* The two loops of mergeArgs.                                             *)
LEMMA DefaultsLoop ==
  ASSUME NEW n \in Nat, NEW s, DOMAIN s = 1 .. n, NEW base
  PROVE  FoldLeft(WithDefault, base, s) =
           Overlay(s, 1 .. n, [i \in 1 .. n |-> s[i].value], base)
  <1> DEFINE value == [i \in 1 .. n |-> s[i].value]
             Rec(it) == it = [S \in SUBSET (DOMAIN s) |->
                                IF S = {} THEN base
                                ELSE Put(it[S \ {Max(S)}],
                                         s[Max(S)].name, s[Max(S)].value)]
  <1>1. FoldLeft(WithDefault, base, s) = (CHOOSE it : Rec(it))[DOMAIN s]
    BY Zenon DEF FoldLeft, MapThenFoldSet, WithDefault
  <1>2. ASSUME NEW it PROVE Rec(it) <=> Loops(it, s, value, base)
    <2>1. \A S \in SUBSET (DOMAIN s) : S # {} => value[Max(S)] = s[Max(S)].value
      BY MaxOf
    <2> QED BY <2>1 DEF Loops
  <1> HIDE DEF Rec
  <1>3. \E it : Rec(it)
    BY <1>2, LoopExists
  <1>4. PICK it : Rec(it) /\ FoldLeft(WithDefault, base, s) = it[DOMAIN s]
    BY <1>1, <1>3, Zenon
  <1> QED BY <1>2, <1>4, LoopIs
LEMMA ValuesLoop ==
  ASSUME NEW n \in Nat, NEW s, DOMAIN s = 1 .. n, NEW base
  PROVE  FoldLeft(WithValue, base, s) =
           Overlay(s, 1 .. n, [i \in 1 .. n |-> Decode(s[i])], base)
  <1> DEFINE value == [i \in 1 .. n |-> Decode(s[i])]
             Rec(it) == it = [S \in SUBSET (DOMAIN s) |->
                                IF S = {} THEN base
                                ELSE Put(it[S \ {Max(S)}],
                                         s[Max(S)].name, Decode(s[Max(S)]))]
  <1>1. FoldLeft(WithValue, base, s) = (CHOOSE it : Rec(it))[DOMAIN s]
    BY Zenon DEF FoldLeft, MapThenFoldSet, WithValue
  <1>2. ASSUME NEW it PROVE Rec(it) <=> Loops(it, s, value, base)
    <2>1. \A S \in SUBSET (DOMAIN s) : S # {} => value[Max(S)] = Decode(s[Max(S)])
      BY MaxOf
    <2> QED BY <2>1 DEF Loops
  <1> HIDE DEF Rec
  <1>3. \E it : Rec(it)
    BY <1>2, LoopExists
  <1>4. PICK it : Rec(it) /\ FoldLeft(WithValue, base, s) = it[DOMAIN s]
    BY <1>1, <1>3, Zenon
  <1> QED BY <1>2, <1>4, LoopIs

LEMMA LastIs ==
  ASSUME NEW s, IsList(s), NEW x \in Names(s)
  PROVE  /\ Max(At(s, 1 .. Len(s), x)) \in 1 .. Len(s)
         /\ LastOf(x, s) = s[Max(At(s, 1 .. Len(s), x))]
  <1> DEFINE I == {i \in DOMAIN s : s[i].name = x}
             last == CHOOSE i \in I : \A j \in I : j <= i
  <1>1. I = At(s, 1 .. Len(s), x) /\ I \in SUBSET (1 .. Len(s)) /\ I # {}
    BY DEF At, IsList, Names
  <1>2. Max(I) \in I /\ \A j \in I : j <= Max(I)
    BY <1>1, MaxOf DEF IsList
  <1>3. last \in I /\ \A j \in I : j <= last
    BY <1>2, Zenon
  <1>4. last \in Nat /\ Max(I) \in Nat
    BY <1>1, <1>2, <1>3 DEF IsList
  <1>5. last = Max(I)
    BY <1>2, <1>3, <1>4
  <1>6. LastOf(x, s) = s[last]
    BY Zenon DEF LastOf
  <1> QED BY <1>1, <1>2, <1>5, <1>6

(* The last value of a name wins over the last default.                    *)
LEMMA MergeIs ==
  ASSUME NEW defs, IsList(defs), NEW over, IsList(over),
         ~Failed(MergeArgs(defs, over)),
         NEW x \in Names(defs) \cup Names(over)
  PROVE  MergeArgs(defs, over)[x] =
           IF x \in Names(over) THEN Decode(LastOf(x, over))
                                ELSE LastOf(x, defs).value
  <1> DEFINE base == Overlay(defs, 1 .. Len(defs),
                             [i \in 1 .. Len(defs) |-> defs[i].value], <<>>)
             vals == [i \in 1 .. Len(over) |-> Decode(over[i])]
  <1>1. ~(defs = <<>> /\ over = <<>>)
    BY DEF Names
  <1>2. MergeArgs(defs, over)
          = FoldLeft(WithValue, FoldLeft(WithDefault, <<>>, defs), over)
    BY <1>1, Zenon DEF MergeArgs, Failed
  <1>3. FoldLeft(WithDefault, <<>>, defs) = base
    BY DefaultsLoop DEF IsList
  <1>4. FoldLeft(WithValue, base, over) = Overlay(over, 1 .. Len(over), vals, base)
    BY ValuesLoop, Zenon DEF IsList
  <1>5. MergeArgs(defs, over) = Overlay(over, 1 .. Len(over), vals, base)
    BY <1>2, <1>3, <1>4
  <1>6. /\ Names(defs) = Named(defs, 1 .. Len(defs))
        /\ Names(over) = Named(over, 1 .. Len(over))
    BY DEF Names, Named, IsList
  <1>7. ASSUME x \in Names(defs) PROVE base[x] = LastOf(x, defs).value
    BY <1>6, <1>7, LastIs DEF Overlay, Named
  <1>8. DOMAIN base = Names(defs)
    BY <1>6 DEF Overlay, Named
  <1> HIDE DEF base
  <1>9. CASE x \in Names(over)
    BY <1>5, <1>6, <1>9, LastIs DEF Overlay, Named
  <1>10. CASE x \notin Names(over)
    BY <1>5, <1>6, <1>7, <1>8, <1>10 DEF Overlay
  <1> QED BY <1>9, <1>10

(* The first layer that has a number wins.                                 *)
LEMMA NumbersLayered ==
  ASSUME Startable(world), LoadConfig(world) # Unset,
         NEW k \in Numbers, Params(world)[k] \in Int
  PROVE  \E i \in 1 .. 3 :
           /\ Params(world)[k] = Layers(k)[i]
           /\ Layers(k)[i] \notin {Unset, Bad}
           /\ \A j \in 1 .. i - 1 : Layers(k)[j] \in {Unset, Bad}
  <1> DEFINE L == Layers(k)
             c == LoadConfig(world)
  <1>1. /\ k \in Knobs /\ Unset \notin Int /\ Bad \notin Int
        /\ DOMAIN Default = Knobs
    BY ConfigAssumption DEF Knobs, Numbers, Default
  <1>2. c \notin {Unset, Bad}
    BY DEF Startable, Failed
  <1>3. \/ world.file = Unset /\ c = Default
        \/ world.file # Unset /\ c = Parse(world.file)
    BY <1>2 DEF LoadConfig
  <1>4. Params(world)[k] = IF Env(world)[k] \in {Unset, Bad}
                           THEN Over(c, Default)[k] ELSE Env(world)[k]
    BY <1>1, <1>2 DEF Params, NumberOr, Filled
  <1>5. /\ L[1] = Env(world)[k] /\ L[3] = Default[k]
        /\ L[2] = IF world.file # Unset /\ k \in DOMAIN world.file
                    /\ world.file[k] \notin Absent(k)
                  THEN world.file[k] ELSE Unset
    BY DEF Layers
  <1>6. CASE Env(world)[k] \notin {Unset, Bad}
    BY <1>4, <1>5, <1>6
  <1>7. CASE Env(world)[k] \in {Unset, Bad}
    <2>1. Over(c, Default)[k] = IF L[2] = Unset THEN L[3] ELSE L[2]
      <3>1. CASE world.file = Unset /\ c = Default
        BY <1>1, <1>5, <3>1 DEF Over
      <3>2. CASE world.file # Unset /\ c = Parse(world.file)
        <4> DEFINE given == k \in DOMAIN world.file
                              /\ world.file[k] \notin Absent(k)
        <4>1. c = [x \in Knobs |->
                     IF x \in DOMAIN world.file
                          /\ world.file[x] \notin Absent(x)
                     THEN world.file[x] ELSE Default[x]]
          BY <1>2, <3>2, Zenon DEF Parse
        <4>2. c[k] = IF given THEN world.file[k] ELSE Default[k]
          BY <1>1, <4>1
        <4>3. Over(c, Default)[k] = c[k]
          BY <1>1, <4>1 DEF Over
        <4>4. given => world.file[k] # Unset
          BY DEF Absent
        <4> QED BY <1>5, <3>2, <4>2, <4>3, <4>4
      <3> QED BY <1>3, <3>1, <3>2
    <2>2. Over(c, Default)[k] \in Int
      BY <1>4, <1>7
    <2>3. CASE L[2] = Unset
      BY <1>1, <1>4, <1>5, <1>7, <2>1, <2>2, <2>3
    <2>4. CASE L[2] # Unset
      BY <1>1, <1>4, <1>5, <1>7, <2>1, <2>2, <2>4
    <2> QED BY <2>3, <2>4
  <1> QED BY <1>6, <1>7

(* What Run starts with is a scenario's world, looked at before it dials.  *)
Prepared == Given /\ (pc = "dial" => Startable(world))

LEMMA PreparedStep ==
  ASSUME Prepared, [EngineNext]_vars
  PROVE  Prepared'
  <1>1. Given'
    BY GivenStep DEF Prepared
  <1>2. pc' = "dial" => pc = "dial" \/ Startable(world)
    <2>1. SUFFICES ASSUME pc' = "dial", pc # "dial" PROVE Startable(world)
      OBVIOUS
    <2>2. ~ (StartFails \/ ConsumeStep \/ CloseStep \/ UNCHANGED pc)
      BY <2>1 DEF StartFails, ConnectFails, ServeFails, ConsumeStep, Receive,
                  Undecodable, Rejected, Admitted, CtxEnds, SeesClosed,
                  CloseStep, DeferredStep, ShutdownPool, StopSignals,
                  CloseHealth, CloseBus,
                  Closing, Return, Restart, ProcessEnds, Goes
    <2>3. ~ (PoolStep \/ PoolExtra \/ BrokerStep \/ OthersPublish
               \/ ChannelCloses \/ Signal \/ ServeStops \/ Crash \/ Idle)
      BY <2>1, <2>2 DEF PoolStep, PoolTakes, PoolRefuses, PoolSettles,
                        PoolExtra, PoolEmits, ProcessLost, BrokerStep,
                        OthersPublish, ChannelCloses, OtherThanBroker, Signal,
                        ServeStops,
                        Crash, ProcessEnds, Idle, Goes, vars, TakeOffer,
                        RefuseOffer, SettleTaken
    <2>4. StartStep
      BY <2>2, <2>3 DEF EngineNext, RunStep, vars
    <2>5. Prepare
      BY <2>1, <2>4, <2>2 DEF StartStep, Dial, OpenChannel, Setup,
                  ConnectFails, ServeHealth, StartPool, Subscribe, Goes
    <2> QED BY <2>1, <2>5 DEF Prepare, Goes
  <1>3. pc' = "dial" => world' = world
    BY Fixed DEF Restart, Goes, startVars
  <1> QED BY <1>1, <1>2, <1>3 DEF Prepared

(* Whatever is given, left out or spoilt where: a number is that of the    *)
(* first layer that has one, an argument the last settings value of its    *)
(* name, or else the last default (main.go:66-74, engine/config.go:90-116).*)
THEOREM LayersAlways == EngineSpec => []LayersOverlay
  <1>1. EngineInit => Prepared
    BY GivenInit DEF EngineInit, Prepared
  <1>2. Prepared /\ [EngineNext]_vars => Prepared'
    BY PreparedStep
  <1>3. Prepared => LayersOverlay
    <2> SUFFICES ASSUME Prepared, pc = "dial" PROVE LayersOverlay
      BY DEF LayersOverlay
    <2>1. Startable(world)
      BY DEF Prepared
    <2>2. \A k \in Numbers : \E i \in 1 .. 3 :
            /\ Params(world)[k] = Layers(k)[i]
            /\ Layers(k)[i] \notin {Unset, Bad}
            /\ \A j \in 1 .. i - 1 : Layers(k)[j] \in {Unset, Bad}
      BY <2>1, NumbersLayered DEF Prepared, Given
    <2>3. ASSUME NEW n \in Names(Manifest(world).args)
                             \cup Names(Settings(world).args)
          PROVE  HandlerArgs(world)[n] =
                   IF n \in Names(Settings(world).args)
                   THEN Decode(LastOf(n, Settings(world).args))
                   ELSE LastOf(n, Manifest(world).args).value
      BY <2>1, <2>3, MergeIs DEF Prepared, Given, Startable, HandlerArgs
    <2> QED BY <2>2, <2>3 DEF LayersOverlay
  <1> QED BY <1>1, <1>2, <1>3, PTL DEF EngineSpec
================================================================================
